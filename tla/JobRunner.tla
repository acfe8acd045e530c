----------------------------- MODULE JobRunner -----------------------------
(***************************************************************************)
(* The storage-backed job runners of several ReviewPhin processes and the  *)
(* attempts they run, over one claim-aware store.                          *)
(*                                                                         *)
(* A runner polls: it expires stale queued jobs, reconciles orphaned runs, *)
(* then claims one job and processes it inline while a heartbeat renews    *)
(* the lease.  The attempt is processClaimedJob cut to the steps that      *)
(* touch the claim: the creation of its run, the work done under the run,  *)
(* the commit (run first, then job), and the failure path (the same).      *)
(*                                                                         *)
(* An attempt checks its lease locally (assertOwned) and then calls the    *)
(* store, and time may pass in between.  So a store call here needs only   *)
(* the store's own predicate, and LeaseLost ends the attempt at any step   *)
(* where either check fails.                                               *)
(***************************************************************************)
EXTENDS InteractionJobStore

CONSTANTS
  Workers,       \* ReviewPhin processes that run a job runner
  Backoff,       \* RETRY_BACKOFF_MS
  MaxDebounce,   \* the largest delay before an admitted job is available
  MaxSkew,       \* bound: how old the `now' of a store call may be
  MaxClock,      \* bound: the last instant modelled
  LastEnqueue,   \* bound: no job is enqueued after this instant
  MaxFaults      \* bound: crashes and stops of processes, and failed ticks

ASSUME RunnerAssumption ==
  /\ Backoff \in Nat /\ MaxDebounce \in Nat /\ MaxSkew \in Nat
  /\ MaxClock \in Nat /\ LastEnqueue \in Nat /\ MaxFaults \in Nat
  /\ None \notin Workers

VARIABLES
  attempts,      \* what the process that claimed a token knows and does
  workers,       \* where each runner is in its tick
  faults         \* crashes, stops and failed ticks so far

vars == <<clock, jobs, runs, attempts, workers, faults>>

----------------------------------------------------------------------------
(* Types *)

\* "claimed" until the runner has rechecked `stopping'; "preparing" until the
\* run exists; "committing" once the run is completed; "cancelling" and
\* "retiring" once an AbandonedReviewError or another error has ended the run;
\* "done" is an attempt that returned, or whose process died.
LivePc == {"preparing", "running", "committing", "cancelling", "retiring"}

AttemptPc == {"unused", "claimed", "released", "done"} \cup LivePc

Attempt ==
  [pc: AttemptPc, worker: Workers \cup {None}, job: Jobs \cup {None},
   deadline: Nat,       \* leaseDeadline of the heartbeat; 0 once aborted
   beat: {"idle", "sent", "renewed"},
   pending: Nat]        \* renewedClaimExpiresAt of the renewal in flight

Worker == [tick: {"expire", "reconcile", "claim"}, stopping: BOOLEAN]

RunnerTypeOK ==
  /\ StoreTypeOK
  /\ attempts \in [Tokens -> Attempt]
  /\ workers \in [Workers -> Worker]
  /\ faults \in Nat

NoAttempt ==
  [pc |-> "unused", worker |-> None, job |-> None, deadline |-> 0,
   beat |-> "idle", pending |-> 0]

Init ==
  /\ StoreInit
  /\ attempts = [t \in Tokens |-> NoAttempt]
  /\ workers = [w \in Workers |-> [tick |-> "expire", stopping |-> FALSE]]
  /\ faults = 0

----------------------------------------------------------------------------
(* What an attempt and a worker know *)

Live(t) == attempts[t].pc \in LivePc

\* What assertOwned checks, from the attempt's own memory alone.  The deadline
\* timer aborts the claim context at the instant this becomes false.
LocallyOwned(t) == clock < attempts[t].deadline

\* The attempt would pass assertOwned now, and so may act on the platform.
MayAct(t) == Live(t) /\ LocallyOwned(t)

Owned(t) == JobOwned(attempts[t].job, t)

Busy(w) ==
  \E t \in Tokens : attempts[t].worker = w
                    /\ attempts[t].pc \in LivePc \cup {"claimed"}

\* The readings of the clock that a call reaching the store may carry.
CallTimes == {n \in 0..clock : n + MaxSkew >= clock}

GoTo(t, pc) == attempts' = [attempts EXCEPT ![t].pc = pc]

\* The attempt is over; only a renewal already sent outlives it.
Ended(a) ==
  [NoAttempt EXCEPT !.pc = "done", !.job = a.job,
                    !.beat = IF a.beat = "sent" THEN "sent" ELSE "idle",
                    !.pending = IF a.beat = "sent" THEN a.pending ELSE 0]

End(t) == attempts' = [attempts EXCEPT ![t] = Ended(@)]

----------------------------------------------------------------------------
(* Time and admission *)

Tick ==
  /\ clock < MaxClock
  /\ clock' = clock + 1
  /\ UNCHANGED <<jobs, runs, attempts, workers, faults>>

Enqueue(j) ==
  /\ clock <= LastEnqueue
  /\ \E delay \in 0..MaxDebounce : Insert(j, delay)
  /\ UNCHANGED <<clock, attempts, workers, faults>>

----------------------------------------------------------------------------
(* One tick of a runner *)

AtTick(w, step) == workers[w].tick = step /\ ~Busy(w)

NextTick(w, step) == workers' = [workers EXCEPT ![w].tick = step]

RunnerExpire(w) ==
  /\ AtTick(w, "expire") /\ ~workers[w].stopping
  /\ \E now \in CallTimes : ExpireQueued(now)
  /\ NextTick(w, "reconcile")
  /\ UNCHANGED <<clock, attempts, faults>>

RunnerReconcile(w) ==
  /\ AtTick(w, "reconcile")
  /\ \E now \in CallTimes : ReconcileOrphanedRuns(now)
  /\ NextTick(w, "claim")
  /\ UNCHANGED <<clock, attempts, faults>>

\* `stopping' is rechecked right before the claim.
RunnerSkipClaim(w) ==
  /\ AtTick(w, "claim") /\ workers[w].stopping
  /\ NextTick(w, "expire")
  /\ UNCHANGED <<clock, jobs, runs, attempts, faults>>

RunnerClaim(w) ==
  /\ AtTick(w, "claim") /\ ~workers[w].stopping
  /\ \E j \in Jobs, t \in Tokens, now \in CallTimes :
       /\ attempts[t].pc = "unused"
       /\ ClaimNext(j, t, now)
       /\ attempts' = [attempts EXCEPT ![t] =
                         [NoAttempt EXCEPT !.pc = "claimed", !.worker = w,
                                           !.job = j,
                                           !.deadline = now + Lease]]
  /\ NextTick(w, "expire")
  /\ UNCHANGED <<clock, faults>>

RunnerClaimNone(w) ==
  /\ AtTick(w, "claim") /\ ~workers[w].stopping
  /\ \E now \in CallTimes : ClaimNone(now)
  /\ NextTick(w, "expire")
  /\ UNCHANGED <<clock, attempts, faults>>

\* The rest of a tick is skipped when one of its calls throws: the listing of
\* the expired jobs, the reconciliation or its lifecycle work, the claim.
FailTick(w) ==
  /\ faults < MaxFaults
  /\ AtTick(w, "reconcile") \/ AtTick(w, "claim")
  /\ NextTick(w, "expire")
  /\ faults' = faults + 1
  /\ UNCHANGED <<clock, jobs, runs, attempts>>

\* A stop that raced the claim gives it back without spending a retry; if the
\* lease is gone, or the store call fails, the claim is simply left.
ReleaseClaim(t) ==
  /\ attempts[t].pc = "claimed" /\ workers[attempts[t].worker].stopping
  /\ \/ /\ LET j == attempts[t].job
           IN  TransitionClaim(j, t, "queued",
                               jobs[j].retryCount, jobs[j].availableAt)
        /\ GoTo(t, "released")
     \/ End(t) /\ UNCHANGED jobs
  /\ UNCHANGED <<clock, runs, workers, faults>>

StartAttempt(t) ==
  /\ attempts[t].pc = "claimed" /\ ~workers[attempts[t].worker].stopping
  /\ GoTo(t, "preparing")
  /\ UNCHANGED <<clock, jobs, runs, workers, faults>>

----------------------------------------------------------------------------
(* The heartbeat: at most one renewal in flight *)

\* Mutant: the deadline moves when the renewal is sent, not when it is answered.
BeatSendOptimistic(t) ==
  /\ Live(t) /\ LocallyOwned(t) /\ attempts[t].beat = "idle"
  /\ clock + Lease <= MaxClock
  /\ attempts' = [attempts EXCEPT ![t].beat = "sent",
                                  ![t].pending = clock + Lease,
                                  ![t].deadline = clock + Lease]
  /\ UNCHANGED <<clock, jobs, runs, workers, faults>>

BeatSend(t) ==
  /\ Live(t) /\ LocallyOwned(t) /\ attempts[t].beat = "idle"
  /\ clock + Lease <= MaxClock      \* bound: leases end within the horizon
  /\ attempts' = [attempts EXCEPT ![t].beat = "sent",
                                  ![t].pending = clock + Lease]
  /\ UNCHANGED <<clock, jobs, runs, workers, faults>>

BeatIdle(t, newDeadline) ==
  attempts' = [attempts EXCEPT ![t].beat = "idle", ![t].pending = 0,
                               ![t].deadline = newDeadline]

\* The renewal reaches the store, possibly after the attempt has returned; then
\* nobody waits for the answer.
BeatRenew(t) ==
  /\ attempts[t].beat = "sent"
  /\ RenewClaim(attempts[t].job, t, attempts[t].pending)
  /\ IF Live(t) THEN attempts' = [attempts EXCEPT ![t].beat = "renewed"]
                ELSE BeatIdle(t, 0)
  /\ UNCHANGED <<clock, workers, faults>>

\* The store answers false: the job was reclaimed; abort.
BeatRefused(t) ==
  /\ attempts[t].beat = "sent" /\ ~Owned(t)
  /\ BeatIdle(t, 0)
  /\ UNCHANGED <<clock, jobs, runs, workers, faults>>

\* The call fails, or its answer is lost: retry on the next beat.
BeatError(t) ==
  /\ attempts[t].beat \in {"sent", "renewed"}
  /\ BeatIdle(t, attempts[t].deadline)
  /\ UNCHANGED <<clock, jobs, runs, workers, faults>>

\* The loop resumes after the await; a late answer aborts even if renewed.
BeatReturn(t) ==
  /\ Live(t) /\ attempts[t].beat = "renewed"
  /\ BeatIdle(t, IF LocallyOwned(t) THEN attempts[t].pending ELSE 0)
  /\ UNCHANGED <<clock, jobs, runs, workers, faults>>

----------------------------------------------------------------------------
(* The attempt: processClaimedJob *)

CreateRun(t) ==
  /\ attempts[t].pc = "preparing"
  /\ CreateRunForClaim(attempts[t].job, t)
  /\ GoTo(t, "running")
  /\ UNCHANGED <<clock, workers, faults>>

CompleteRun(t) ==
  /\ attempts[t].pc = "running"
  /\ TransitionRunForClaim(attempts[t].job, t, "completed")
  /\ GoTo(t, "committing")
  /\ UNCHANGED <<clock, workers, faults>>

CommitJob(t) ==
  /\ attempts[t].pc = "committing"
  /\ LET j == attempts[t].job
     IN  TransitionClaim(j, t, "completed",
                         jobs[j].retryCount, jobs[j].availableAt)
  /\ End(t)
  /\ UNCHANGED <<clock, runs, workers, faults>>

\* The catch block with no run yet: AbandonedReviewError, or any error that is
\* not LeaseLostError.
FailBeforeRun(t) ==
  /\ attempts[t].pc = "preparing"
  /\ \E next \in {"cancelling", "retiring"} : GoTo(t, next)
  /\ UNCHANGED <<clock, jobs, runs, workers, faults>>

\* The catch block with a run: cancel it or fail it.
FailRun(t) ==
  /\ attempts[t].pc = "running"
  /\ \/ /\ TransitionRunForClaim(attempts[t].job, t, "cancelled")
        /\ GoTo(t, "cancelling")
     \/ /\ TransitionRunForClaim(attempts[t].job, t, "failed")
        /\ GoTo(t, "retiring")
  /\ UNCHANGED <<clock, workers, faults>>

CancelJob(t) ==
  /\ attempts[t].pc = "cancelling"
  /\ LET j == attempts[t].job
     IN  TransitionClaim(j, t, "cancelled",
                         jobs[j].retryCount + 1, jobs[j].availableAt)
  /\ End(t)
  /\ UNCHANGED <<clock, runs, workers, faults>>

\* Retry with backoff while retries remain, else fail; some errors are never
\* retried.
RetireJob(t) ==
  /\ attempts[t].pc = "retiring"
  /\ LET j == attempts[t].job
         next == jobs[j].retryCount + 1
     IN  \/ /\ next <= MaxRetries
            /\ \E now \in CallTimes :
                 TransitionClaim(j, t, "queued", next, now + Backoff * next)
         \/ TransitionClaim(j, t, "failed", next, jobs[j].availableAt)
  /\ End(t)
  /\ UNCHANGED <<clock, runs, workers, faults>>

\* assertOwned throws, or a claim-scoped call returns false or null: stop
\* without further state updates.
LeaseLost(t) ==
  /\ Live(t) /\ ~(LocallyOwned(t) /\ Owned(t))
  /\ End(t)
  /\ UNCHANGED <<clock, jobs, runs, workers, faults>>

\* An error escapes processClaimedJob (before its try block, or inside its
\* catch block), or follows the completion of the run, which the catch block
\* can then no longer fail.  The runner leaves the claim to expire.
UnexpectedError(t) ==
  /\ Live(t)
  /\ End(t)
  /\ UNCHANGED <<clock, jobs, runs, workers, faults>>

----------------------------------------------------------------------------
(* Crashes, stops and restarts of a process *)

Crash(w) ==
  /\ faults < MaxFaults /\ Busy(w)
  /\ attempts' = [t \in Tokens |->
                    IF /\ attempts[t].worker = w
                       /\ attempts[t].pc \in LivePc \cup {"claimed"}
                      THEN [Ended(attempts[t]) EXCEPT !.beat = "idle",
                                                      !.pending = 0]
                      ELSE attempts[t]]
  /\ workers' = [workers EXCEPT ![w] = [tick |-> "expire", stopping |-> FALSE]]
  /\ faults' = faults + 1
  /\ UNCHANGED <<clock, jobs, runs>>

Stop(w) ==
  /\ faults < MaxFaults /\ ~workers[w].stopping
  /\ workers' = [workers EXCEPT ![w].stopping = TRUE]
  /\ faults' = faults + 1
  /\ UNCHANGED <<clock, jobs, runs, attempts>>

\* stop() returns once the tick in flight has settled; a new process starts.
Restart(w) ==
  /\ workers[w].stopping /\ AtTick(w, "expire")
  /\ workers' = [workers EXCEPT ![w].stopping = FALSE]
  /\ UNCHANGED <<clock, jobs, runs, attempts, faults>>

----------------------------------------------------------------------------
(* The specification *)

RunnerTick(w) ==
  \/ RunnerExpire(w) \/ RunnerReconcile(w)
  \/ RunnerSkipClaim(w) \/ RunnerClaim(w) \/ RunnerClaimNone(w)

Heartbeat(t) ==
  BeatSend(t) \/ BeatRenew(t) \/ BeatRefused(t) \/ BeatError(t) \/ BeatReturn(t)

AttemptStep(t) ==
  \/ ReleaseClaim(t) \/ StartAttempt(t)
  \/ CreateRun(t) \/ CompleteRun(t) \/ CommitJob(t)
  \/ FailBeforeRun(t) \/ FailRun(t) \/ CancelJob(t) \/ RetireJob(t)
  \/ LeaseLost(t) \/ UnexpectedError(t)

Next ==
  \/ Tick
  \/ \E j \in Jobs : Enqueue(j)
  \/ \E w \in Workers : RunnerTick(w) \/ FailTick(w)
                         \/ Crash(w) \/ Stop(w) \/ Restart(w)
  \/ \E t \in Tokens : Heartbeat(t) \/ AttemptStep(t)

Spec == Init /\ [][Next]_vars

\* Time passes, live processes poll and restart after a stop, and an attempt
\* takes its next step: a model call returns or fails within its timeout.
Fairness ==
  /\ WF_vars(Tick)
  /\ \A w \in Workers : WF_vars(RunnerTick(w)) /\ WF_vars(Restart(w))
  /\ \A t \in Tokens : WF_vars(AttemptStep(t))

FairSpec == Spec /\ Fairness

----------------------------------------------------------------------------
(* Properties *)

\* The storage docs promise one active review globally, whatever the number
\* of processes: never two in-progress jobs, even while a lease has expired
\* and not been recovered yet.
OneActiveReview ==
  \A i, j \in Jobs :
    jobs[i].status = "in_progress" /\ jobs[j].status = "in_progress" => i = j

\* Two attempts can never both pass assertOwned, across jobs and processes,
\* however late a renewal is answered: the local lease deadline of an attempt
\* ends before any other attempt can hold a claim.
ExclusiveAttempt ==
  \A t, u \in Tokens : MayAct(t) /\ MayAct(u) => t = u

\* The commit order (run first, then job): a completed job's latest run is
\* completed, belongs to the job, and stays so whatever reconciliation does.
CompletedJobHasCompletedRun ==
  \A j \in Jobs : jobs[j].status = "completed" =>
    /\ jobs[j].latestRun # None
    /\ runs[jobs[j].latestRun] = [status |-> "completed", job |-> j]

\* retryCount counts exactly the claims that ended without completing the job
\* (errors, lost leases, crashes), whichever of the runner, the worker and the
\* recovery in claimNext noticed; a claim given back on stop costs nothing.
ClaimsOf(j) ==
  {t \in Tokens : attempts[t].job = j /\ attempts[t].pc # "released"}

RetriesAccounted ==
  \A j \in Jobs :
    LET open == IF jobs[j].status \in {"in_progress", "completed"} THEN 1 ELSE 0
    IN  /\ Cardinality(ClaimsOf(j)) = jobs[j].retryCount + open
        /\ Cardinality(ClaimsOf(j)) <= MaxRetries + 1

\* A job that reached a terminal status never leaves it: no late attempt,
\* recovery or expiry brings it back or changes its outcome.
TerminalIsFinal ==
  [][\A j \in Jobs : jobs[j].status \in Terminal
                        => jobs'[j].status = jobs[j].status]_jobs

\* The runners implement the abstract queue: every store and attempt step is
\* one of its moves, and a review starts only in a step that gives up on any
\* other one.
Queue == INSTANCE ReviewQueue WITH
           phase <- [j \in Jobs |-> jobs[j].status],
           failures <- [j \in Jobs |-> jobs[j].retryCount]

ImplementsReviewQueue == Queue!Spec

\* Every enqueued job settles, although processes crash, stop and lose leases.
EveryJobSettles ==
  \A j \in Jobs : jobs[j].status = "queued" ~> jobs[j].status \in Terminal

\* A run never stays in progress: its attempt ends it, or reconciliation does
\* after the claim is lost.
EveryRunEnds ==
  \A t \in Tokens :
    runs[t].status = "in_progress" ~> runs[t].status # "in_progress"

\* "Marking the run failed prevents a false completion from lingering": once a
\* job has completed, the only completed run it has is the one it completed
\* with.
NoLingeringFalseCompletion ==
  \A t \in Tokens :
    runs[t].status = "completed" /\ jobs[runs[t].job].status = "completed"
      => jobs[runs[t].job].latestRun = t

=============================================================================
