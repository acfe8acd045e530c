-------------------------- MODULE SingleWorkerRuns --------------------------
(***************************************************************************)
(* Runs of the single-worker adapter, for storages without transactions:   *)
(* creating a run is two writes, replacing its findings several, and the   *)
(* reconciliation reads one page of the jobs in every poll.  The one       *)
(* process polls, claims and works in turn; admissions go on meanwhile.    *)
(* A call may fail and the process may die between any two writes.         *)
(***************************************************************************)
EXTENDS Naturals, FiniteSets, Sequences

LOCAL INSTANCE FiniteSetsExt

CONSTANTS
  WorkJobs,        \* ids of jobs, numbers for their order
  ScanSize,        \* pageSize
  ReconcileLimit,  \* orphanReconcileLimit
  WorkRetries,     \* maxJobRetries
  WorkFaults,      \* bound: calls that fail, deaths of the process
  WorkRuns         \* bound: runs made

ASSUME WorkAssumption ==
  /\ WorkJobs \subseteq Nat \ {0} /\ IsFiniteSet(WorkJobs)
  /\ ScanSize \in Nat \ {0}

VARIABLES
  queue,      \* the jobs: [status, token, latest, retries, live]
  made,       \* the runs in the order of their creation
  worker,     \* the process: [step, job, token, todo, fixed]
  scan,       \* completedReconciliationPage
  fruitless,  \* reconciliations in a row, nothing having changed
  faults

workVars == <<queue, made, worker, scan, fruitless, faults>>

NoClaim == 0
NoJobRow == [status |-> "absent", token |-> NoClaim, latest |-> 0, retries |-> 0, live |-> FALSE]
Resting == [step |-> "rest", job |-> 0, token |-> 0, todo |-> {}, fixed |-> 0]

WorkInit ==
  /\ queue = [j \in WorkJobs |-> NoJobRow]
  /\ made = <<>>
  /\ worker = Resting
  /\ scan = 1 /\ fruitless = 0 /\ faults = 0

Step(s) == worker.step = s
GoesOn(s) == worker' = [worker EXCEPT !.step = s]
Changed == fruitless' = 0
SetJob(j, row) == queue' = [queue EXCEPT ![j] = row]
SetRun(r, status) == made' = [made EXCEPT ![r].status = status]

OwnedRow(j, token) ==
  queue[j].status = "in_progress" /\ queue[j].token = token /\ queue[j].live
MyJob == OwnedRow(worker.job, worker.token)
MyRun == Len(made)
MyRunOpen == MyJob /\ made[MyRun].status = "in_progress"

----------------------------------------------------------------------------
(* What happens around the process *)

\* A webhook adds a job; an admission never touches a run.
Admits ==
  /\ \E j \in WorkJobs : queue[j].status = "absent" /\ SetJob(j, [NoJobRow EXCEPT !.status = "queued"])
  /\ Changed
  /\ UNCHANGED <<made, worker, scan, faults>>

\* Time passes a lease that is not renewed.  A claim compares leases with the
\* time at which it began.
LeaseEnds ==
  /\ ~Step("claim")
  /\ \E j \in WorkJobs : queue[j].live /\ queue' = [queue EXCEPT ![j].live = FALSE]
  /\ Changed
  /\ UNCHANGED <<made, worker, scan, faults>>

\* The process is killed and started again.
Dies ==
  /\ faults < WorkFaults
  /\ faults' = faults + 1
  /\ worker' = Resting
  /\ scan' = 1
  /\ Changed
  /\ UNCHANGED <<queue, made>>

----------------------------------------------------------------------------
(* A poll: expiry, reconciliation, claim *)

\* Jobs that have waited too long; each is read again before it is written.
Polls ==
  /\ Step("rest")
  /\ \E old \in SUBSET {j \in WorkJobs : queue[j].status = "queued"} :
       /\ queue' = [j \in WorkJobs |-> IF j \in old THEN [queue[j] EXCEPT !.status = "expired"]
                                       ELSE queue[j]]
       /\ fruitless' = IF old = {} THEN fruitless ELSE 0
  /\ worker' = [Resting EXCEPT !.step = "orphans",
                  !.todo = {r \in DOMAIN made : made[r].status = "in_progress"}]
  /\ UNCHANGED <<made, scan, faults>>

Abandoned(r) ==
  LET job == queue[made[r].job]
  IN  job.status # "in_progress" \/ job.token # made[r].token

EndsReconciliation ==
  worker' = [Resting EXCEPT !.step = "claim"]

\* A run is marked failed; the list ends early at its limit.
Fixes(r) ==
  /\ SetRun(r, "failed")
  /\ Changed
  /\ IF worker.fixed + 1 >= ReconcileLimit
     THEN EndsReconciliation
     ELSE worker' = [worker EXCEPT !.todo = @ \ {r}, !.fixed = @ + 1]

PassesBy(r) ==
  /\ worker' = [worker EXCEPT !.todo = @ \ {r}]
  /\ UNCHANGED <<made, fruitless>>

\* Runs in progress that no claim owns any more.
LooksAtRun ==
  /\ Step("orphans") /\ worker.todo # {}
  /\ LET r == Min(worker.todo)
     IN  IF Abandoned(r) /\ made[r].status = "in_progress" THEN Fixes(r) ELSE PassesBy(r)
  /\ UNCHANGED <<queue, scan, faults>>

\* The jobs that are not completed, in the order of their ids, page by page.
Uncompleted == {j \in WorkJobs : queue[j].status \notin {"absent", "completed"}}
Place(j) == Cardinality({k \in Uncompleted : k < j})
ScanPage ==
  {j \in Uncompleted : ScanSize * (scan - 1) <= Place(j) /\ Place(j) < ScanSize * scan}

ActiveAttempt(j) == LET run == made[queue[j].latest] IN OwnedRow(j, run.token)

\* Runs of this page that completed although their job did not.
ReadsPage ==
  /\ Step("orphans") /\ worker.todo = {}
  /\ scan' = IF Cardinality(ScanPage) < ScanSize THEN 1 ELSE scan + 1
  /\ worker' = [worker EXCEPT !.step = "page",
       !.todo = {queue[j].latest : j \in {k \in ScanPage :
                   /\ queue[k].latest # 0
                   /\ made[queue[k].latest].status = "completed"
                   /\ ~ActiveAttempt(k)}}]
  /\ UNCHANGED <<queue, made, fruitless, faults>>

LooksAtCompletion ==
  /\ Step("page") /\ worker.todo # {}
  /\ \E r \in worker.todo : IF made[r].status = "completed" THEN Fixes(r) ELSE PassesBy(r)
  /\ UNCHANGED <<queue, scan, faults>>

\* Enough to come to every page once.
Rounds == Cardinality(WorkJobs) \div ScanSize + 2

Reconciled ==
  /\ Step("page") /\ worker.todo = {}
  /\ EndsReconciliation
  /\ fruitless' = IF fruitless < Rounds THEN fruitless + 1 ELSE fruitless
  /\ UNCHANGED <<queue, made, scan, faults>>

Overdue == {j \in WorkJobs : queue[j].status = "in_progress" /\ ~queue[j].live}

\* claimNext first gives back what expired leases hold, one write each.
RecoversLease ==
  /\ Step("claim")
  /\ \E j \in Overdue :
       SetJob(j, [queue[j] EXCEPT !.status = IF queue[j].retries < WorkRetries THEN "queued" ELSE "failed",
                                  !.retries = @ + 1, !.token = NoClaim])
  /\ Changed
  /\ UNCHANGED <<made, worker, scan, faults>>

TokensUsed == {queue[j].token : j \in WorkJobs} \cup {made[r].token : r \in DOMAIN made}

\* Any queued job may be the first that is due.
TakesJob ==
  /\ Step("claim") /\ Overdue = {} /\ Len(made) < WorkRuns
  /\ ~\E j \in WorkJobs : queue[j].status = "in_progress"
  /\ \E j \in WorkJobs :
       /\ queue[j].status = "queued"
       /\ LET token == Max(TokensUsed) + 1
          IN  /\ SetJob(j, [queue[j] EXCEPT !.status = "in_progress", !.token = token, !.live = TRUE])
              /\ worker' = [Resting EXCEPT !.step = "claimed", !.job = j, !.token = token]
  /\ Changed
  /\ UNCHANGED <<made, scan, faults>>

\* Another job is active, or none is due.
TakesNone ==
  /\ Step("claim") /\ Overdue = {}
  /\ worker' = Resting
  /\ UNCHANGED <<queue, made, scan, fruitless, faults>>

----------------------------------------------------------------------------
(* An attempt *)

\* createInteractionRunForClaim: the run, then the job that names it.
WritesRun ==
  /\ Step("claimed") /\ MyJob
  /\ made' = Append(made, [job |-> worker.job, token |-> worker.token,
                           status |-> "in_progress", findings |-> "none"])
  /\ GoesOn("half")
  /\ Changed
  /\ UNCHANGED <<queue, scan, faults>>

NamesRun ==
  /\ Step("half")
  /\ SetJob(worker.job, [queue[worker.job] EXCEPT !.latest = MyRun])
  /\ GoesOn("working")
  /\ Changed
  /\ UNCHANGED <<made, scan, faults>>

\* replaceReviewFindingsForClaim, one row at a time.
WritesFindings ==
  /\ \/ Step("working") /\ MyRunOpen /\ GoesOn("replacing")
        /\ made' = [made EXCEPT ![MyRun].findings = "some"]
     \/ Step("replacing") /\ GoesOn("replaced")
        /\ made' = [made EXCEPT ![MyRun].findings = "all"]
  /\ Changed
  /\ UNCHANGED <<queue, scan, faults>>

CompletesRun ==
  /\ Step("replaced") /\ MyRunOpen
  /\ SetRun(MyRun, "completed")
  /\ GoesOn("completed")
  /\ Changed
  /\ UNCHANGED <<queue, scan, faults>>

\* transitionClaim clears the claim with the status.
EndsJob(status, retries) ==
  SetJob(worker.job, [queue[worker.job] EXCEPT !.status = status, !.retries = retries,
                                               !.token = NoClaim, !.live = FALSE])

\* Mutant: the job is completed before its run.
CompletesJobFirst ==
  /\ Step("replaced") /\ MyJob
  /\ EndsJob("completed", queue[worker.job].retries)
  /\ worker' = Resting
  /\ Changed
  /\ UNCHANGED <<made, scan, faults>>

CompletesJob ==
  /\ Step("completed") /\ MyJob
  /\ EndsJob("completed", queue[worker.job].retries)
  /\ worker' = Resting
  /\ Changed
  /\ UNCHANGED <<made, scan, faults>>

\* A call fails before the run is completed: the run, if the attempt knows
\* it, loses its findings unless they were published, and fails; then the job
\* is queued again or given up.
FailsAttempt ==
  /\ worker.step \in {"claimed", "half", "working", "replacing", "replaced"}
  /\ faults < WorkFaults
  /\ faults' = faults + 1
  /\ IF worker.step \in {"claimed", "half"}
     THEN UNCHANGED made
     ELSE /\ MyRunOpen
          /\ \E kept \in {"none", made[MyRun].findings} :
               made' = [made EXCEPT ![MyRun].status = "failed", ![MyRun].findings = kept]
  /\ GoesOn("failing")
  /\ Changed
  /\ UNCHANGED <<queue, scan>>

RetriesJob ==
  /\ Step("failing") /\ MyJob
  /\ LET tries == queue[worker.job].retries + 1
     IN  EndsJob(IF tries <= WorkRetries THEN "queued" ELSE "failed", tries)
  /\ worker' = Resting
  /\ Changed
  /\ UNCHANGED <<made, scan, faults>>

\* The store refuses an attempt whose lease is over: it leaves all as it is.
LosesClaim ==
  /\ worker.step \in {"claimed", "working", "replaced", "completed", "failing"}
  /\ ~MyJob
  /\ worker' = Resting
  /\ UNCHANGED <<queue, made, scan, fruitless, faults>>

WorkNext ==
  \/ Admits \/ LeaseEnds \/ Dies
  \/ Polls \/ LooksAtRun \/ ReadsPage \/ LooksAtCompletion \/ Reconciled
  \/ RecoversLease \/ TakesJob \/ TakesNone
  \/ WritesRun \/ NamesRun \/ WritesFindings \/ CompletesRun \/ CompletesJob
  \/ FailsAttempt \/ RetriesJob \/ LosesClaim

WorkTypeOK ==
  /\ \A j \in WorkJobs :
       /\ queue[j].status \in {"absent", "queued", "in_progress", "completed", "failed", "expired"}
       /\ queue[j].latest \in 0..Len(made)
       /\ queue[j].live => queue[j].status = "in_progress"
  /\ \A r \in DOMAIN made : made[r].status \in {"in_progress", "completed", "failed"}
  /\ worker.job \in WorkJobs \cup {0} /\ scan \in Nat \ {0}

----------------------------------------------------------------------------
(* Properties *)

CompletedWithFindings ==
  \A j \in WorkJobs : queue[j].status = "completed" =>
    /\ queue[j].latest # 0
    /\ made[queue[j].latest].status = "completed"
    /\ made[queue[j].latest].findings = "all"
OpenRunsAreClaimed ==
  \A r \in DOMAIN made : made[r].status = "in_progress" => ~Abandoned(r)
Unmended(j) ==
  /\ queue[j].latest # 0 /\ queue[j].status # "completed"
  /\ made[queue[j].latest].status = "completed"
  /\ ~ActiveAttempt(j)

\* Whatever writes were lost, a completed job names a completed run with all
\* of its findings; and once as many polls as there are pages have found
\* nothing to mend, there is nothing: a run is in progress only under the
\* claim of its job, and the run a job names is completed only if the job is
\* or is about to be.
RunsAgreeWithJobs ==
  /\ CompletedWithFindings
  /\ fruitless >= Rounds => OpenRunsAreClaimed /\ \A j \in WorkJobs : ~Unmended(j)

=============================================================================
