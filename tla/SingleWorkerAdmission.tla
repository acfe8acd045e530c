----------------------- MODULE SingleWorkerAdmission -----------------------
(***************************************************************************)
(* Admission and claims of the single-worker adapter, for storages without *)
(* transactions: one process queues its operations (serializeJobMutation), *)
(* and each writes one row at a time.  A write may fail and the process    *)
(* may die between two writes; the next admission or claim then finishes   *)
(* the request left behind (recoverAdmissions) before it does its own work.*)
(*                                                                         *)
(* Between its writes an operation only reads rows that nobody else        *)
(* changes, so a step here is one remote write and the reads before it.    *)
(***************************************************************************)
EXTENDS InteractionBatches

CONSTANT
  MaxFaults          \* bound: failed writes and deaths of the process

ASSUME FaultAssumption == MaxFaults \in Nat

VARIABLES
  op,                \* the operation at the head of the queue
  attempt,           \* the job that the process works on, or None
  faults             \* faults so far

vars == <<clock, requests, jobs, op, attempt, faults>>

----------------------------------------------------------------------------
(* The operation in progress *)

\* "recover": finishing the requests in todo; "attach", "schedule", "admit":
\* attachRequest of the request cur, at its next write.
Stage == {"idle", "recover", "attach", "schedule", "admit"}

Op ==
  [stage: Stage, kind: {"admit", "claim"}, at: Nat,
   todo: SUBSET Requests,              \* listed by recoverAdmissions
   cur: Requests \cup {None},
   new: Requests \cup {None}]          \* the request to admit

Idle ==
  [stage |-> "idle", kind |-> "claim", at |-> 0, todo |-> {}, cur |-> None,
   new |-> None]

TypeOK ==
  /\ RowsTypeOK
  /\ op \in Op
  /\ attempt \in Jobs \cup {None}
  /\ faults \in Nat

Init ==
  /\ RowsInit
  /\ op = Idle
  /\ attempt = None
  /\ faults = 0

\* Saved, and not yet marked as admitted.
Pending == {r \in Requests : Saved(r) /\ ~requests[r].admitted}

----------------------------------------------------------------------------
(* Starting an operation and recovering *)

\* Mutant: only claims look for unfinished requests.
BeginClaimsRecover(kind, new) ==
  /\ op.stage = "idle"
  /\ \E now \in CallTimes :
       op' = [Idle EXCEPT !.stage = "recover", !.kind = kind, !.at = now,
                          !.todo = IF kind = "claim" THEN Pending ELSE {},
                          !.new = new]
  /\ UNCHANGED <<clock, requests, jobs, attempt, faults>>

\* Mutant: only admissions look for unfinished requests.
BeginAdmissionsRecover(kind, new) ==
  /\ op.stage = "idle"
  /\ \E now \in CallTimes :
       op' = [Idle EXCEPT !.stage = "recover", !.kind = kind, !.at = now,
                          !.todo = IF kind = "admit" THEN Pending ELSE {},
                          !.new = new]
  /\ UNCHANGED <<clock, requests, jobs, attempt, faults>>

Begin(kind, new) ==
  /\ op.stage = "idle"
  /\ \E now \in CallTimes :
       op' = [Idle EXCEPT !.stage = "recover", !.kind = kind, !.at = now,
                          !.todo = Pending, !.new = new]
  /\ UNCHANGED <<clock, requests, jobs, attempt, faults>>

BeginAdmit(r) == Begin("admit", r)

\* The runner claims only between attempts.
BeginClaim == attempt = None /\ Begin("claim", None)

RecoverNext(r) ==
  /\ op.stage = "recover" /\ r \in op.todo
  /\ op' = [op EXCEPT !.stage = "attach", !.cur = r, !.todo = @ \ {r}]
  /\ UNCHANGED <<clock, requests, jobs, attempt, faults>>

Recovered(kind) == op.stage = "recover" /\ op.todo = {} /\ op.kind = kind

----------------------------------------------------------------------------
(* admitInteractionTrigger *)

\* The request is known, and maybe only since the recovery just done.
Duplicate ==
  /\ Recovered("admit") /\ Saved(op.new)
  /\ op' = Idle
  /\ UNCHANGED <<clock, requests, jobs, attempt, faults>>

SaveRequest ==
  /\ Recovered("admit") /\ ~Saved(op.new)
  /\ \E review \in Reviews, debounce \in Debounces, bytes \in Sizes :
       requests' = [requests EXCEPT ![op.new] =
                      NewRequest(review, op.at, debounce, bytes)]
  /\ op' = [op EXCEPT !.stage = "attach", !.cur = op.new]
  /\ UNCHANGED <<clock, jobs, attempt, faults>>

----------------------------------------------------------------------------
(* attachRequest: one write per step *)

Cur == requests[op.cur]

\* The jobs that already carry this request's identity: the batch it created
\* before its admission broke off, and a single job with its dedupe key.
OwnJobs ==
  IF Exists(Batch(op.cur)) THEN {Batch(op.cur)}
  ELSE {j \in Jobs : j = Single(op.cur) /\ Exists(j)}

Locating == op.stage = "attach" /\ Cur.job = None

Open == Candidates(Cur.review, op.at)

\* Mutant: a request that is linked already is always an error.
RelinkFails ==
  /\ op.stage = "attach" /\ Cur.job # None
  /\ op' = Idle
  /\ UNCHANGED <<clock, requests, jobs, attempt, faults>>

\* The request was linked before the fault: go on with its job, which is an
\* error if an attempt already runs.
Relink ==
  /\ op.stage = "attach" /\ Cur.job # None
  /\ op' = IF jobs[Cur.job].status = "in_progress"
             THEN Idle ELSE [op EXCEPT !.stage = "schedule"]
  /\ UNCHANGED <<clock, requests, jobs, attempt, faults>>

Link(b) ==
  /\ requests' = [requests EXCEPT ![op.cur].job = b]
  /\ op' = [op EXCEPT !.stage = "schedule"]
  /\ UNCHANGED <<clock, jobs, attempt, faults>>

LinkOwn ==
  /\ Locating
  /\ \E j \in OwnJobs : Link(j)

Append ==
  /\ Locating /\ OwnJobs = {}
  /\ \E b \in Newest(Open) : CanAppend(b, Cur) /\ Link(b)

\* The newest candidate cannot take the request: seal it and look further.
Seal ==
  /\ Locating /\ OwnJobs = {}
  /\ Cur.debounce > 0
  /\ \E b \in Newest(Open) :
       /\ ~CanAppend(b, Cur)
       /\ jobs' = [jobs EXCEPT ![b].availableAt = op.at]
  /\ UNCHANGED <<clock, requests, op, attempt, faults>>

\* Mutant: the candidates that were passed over are not sealed first.
CreateBeside ==
  /\ Locating /\ OwnJobs = {}
  /\ \A b \in Open : ~CanAppend(b, Cur)
  /\ jobs' = [jobs EXCEPT ![Batch(op.cur)] = NewBatch(Cur)]
  /\ UNCHANGED <<clock, requests, op, attempt, faults>>

\* Linked in a step of its own, as the job that now exists.
Create ==
  /\ Locating /\ OwnJobs = {}
  /\ Open = {} \/ Cur.debounce = 0
  /\ jobs' = [jobs EXCEPT ![Batch(op.cur)] = NewBatch(Cur)]
  /\ UNCHANGED <<clock, requests, op, attempt, faults>>

\* Only a batch that no attempt has seen is scheduled again.
Schedule ==
  LET b == Cur.job
      unseen == b \in BatchJobs /\ ~jobs[b].started /\ jobs[b].retryCount = 0
  IN  /\ op.stage = "schedule"
      /\ jobs' \in IF unseen
                     THEN {[jobs EXCEPT ![b].availableAt = at] :
                             at \in ReadyTimes(requests, Members(requests, b))}
                     ELSE {jobs}
      /\ op' = [op EXCEPT !.stage = "admit"]
      /\ UNCHANGED <<clock, requests, attempt, faults>>

\* The request is admitted; its operation is done, or recovers the next one.
MarkAdmitted ==
  /\ op.stage = "admit"
  /\ requests' = [requests EXCEPT ![op.cur].admitted = TRUE]
  /\ op' = IF op.cur = op.new THEN Idle
           ELSE [op EXCEPT !.stage = "recover", !.cur = None]
  /\ UNCHANGED <<clock, jobs, attempt, faults>>

----------------------------------------------------------------------------
(* claimNext *)

\* A batch without a request is not eligible.
Claimable == {j \in Eligible(jobs, op.at) :
                j \in BatchJobs => Members(requests, j) # {}}

\* The lease that an attempt left behind has expired.
RecoverLease(j) ==
  /\ Recovered("claim") /\ j \in Running(jobs)
  /\ jobs' = [jobs EXCEPT ![j] = LeaseLost(@, op.at)]
  /\ UNCHANGED <<clock, requests, op, attempt, faults>>

ClaimNext(j) ==
  /\ Recovered("claim") /\ Running(jobs) = {}
  /\ j \in FirstOf(jobs, Claimable)
  /\ jobs' = Claimed(jobs, j)
  /\ op' = Idle
  /\ attempt' = j
  /\ UNCHANGED <<clock, requests, faults>>

ClaimNone ==
  /\ Recovered("claim")
  /\ Claimable = {} \/ Running(jobs) # {}
  /\ op' = Idle
  /\ UNCHANGED <<clock, requests, jobs, attempt, faults>>

----------------------------------------------------------------------------
(* The other operations of the queue write one row and recover nothing *)

ExpireQueued(j) ==
  /\ op.stage = "idle" /\ Expire(j)
  /\ UNCHANGED <<clock, op, attempt, faults>>

\* An attempt that loses its lease, or fails at the wrong place, ends without a
\* write.
EndAttempt ==
  /\ op.stage = "idle" /\ attempt # None
  /\ AttemptEnds(attempt) \/ UNCHANGED rowVars
  /\ attempt' = None
  /\ UNCHANGED <<clock, op, faults>>

----------------------------------------------------------------------------
(* Faults *)

\* A write fails and its operation with it.
WriteFails ==
  /\ op.stage # "idle" /\ faults < MaxFaults
  /\ op' = Idle
  /\ faults' = faults + 1
  /\ UNCHANGED <<clock, requests, jobs, attempt>>

\* The process dies, with its attempt, and another one starts.
Die ==
  /\ faults < MaxFaults
  /\ op.stage # "idle" \/ attempt # None
  /\ op' = Idle
  /\ attempt' = None
  /\ faults' = faults + 1
  /\ UNCHANGED <<clock, requests, jobs>>

----------------------------------------------------------------------------

AttachStep ==
  Relink \/ LinkOwn \/ Append \/ Seal \/ Create \/ Schedule \/ MarkAdmitted

OpStep ==
  \/ \E r \in Requests : RecoverNext(r)
  \/ \E j \in Jobs : RecoverLease(j) \/ ClaimNext(j)
  \/ Duplicate \/ SaveRequest \/ AttachStep \/ ClaimNone

Next ==
  \/ Tick /\ UNCHANGED <<op, attempt, faults>>
  \/ \E r \in Requests : BeginAdmit(r)
  \/ \E r \in Locals : SubmitLocal(r) /\ UNCHANGED <<op, attempt, faults>>
  \/ BeginClaim
  \/ OpStep
  \/ \E j \in Jobs : ExpireQueued(j)
  \/ EndAttempt
  \/ WriteFails \/ Die

Spec == Init /\ [][Next]_vars

\* The runner polls, an operation that does not fail goes on, an attempt ends,
\* and a lease that nobody renews expires.
FairSpec ==
  /\ Spec
  /\ WF_vars(BeginClaim) /\ WF_vars(OpStep) /\ SF_vars(EndAttempt)
  /\ \A j \in Jobs : SF_vars(RecoverLease(j))

----------------------------------------------------------------------------
(* Properties *)

\* The queue and the recovery together leave at most one request unfinished,
\* although every operation may break off at any write.
OnePending == Cardinality(Pending) <= 1

\* "Another operation must not start claiming that batch halfway through": a
\* batch that was claimed has only admitted requests, so recovery can neither
\* change a batch under an attempt nor fail for good.
NoHalfBatchClaimed ==
  \A r \in Pending :
    requests[r].job \in BatchJobs => ~jobs[requests[r].job].started

\* "If a restart interrupts the separate API writes, the adapter finishes
\* assigning the saved request": no state of the rows makes it fail for ever.
SavedIsAdmitted ==
  \A r \in Requests : r \in Pending ~> requests[r].admitted

=============================================================================
