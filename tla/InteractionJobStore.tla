------------------------ MODULE InteractionJobStore ------------------------
(***************************************************************************)
(* The claim-aware interaction-job store: the rows of interaction_jobs and *)
(* interaction_runs and the operations the SQLite adapter runs on them,    *)
(* each inside one BEGIN IMMEDIATE transaction and hence one atomic step.  *)
(*                                                                         *)
(* The operations are written as actions on <<jobs, runs>> that take the   *)
(* caller's arguments, `now' included: the caller reads its clock before   *)
(* the transaction starts, so `now' may lie behind `clock', the time that  *)
(* reviewphin_now() reads inside the transaction.                          *)
(*                                                                         *)
(* A claim token is a fresh ULID per claim and one attempt creates at most *)
(* one run, so a run is named by the token of the claim that created it.   *)
(***************************************************************************)
EXTENDS Integers, FiniteSets

CONSTANTS
  Jobs,          \* ids of the jobs that may be enqueued
  Tokens,        \* claim tokens (bound: at most one claim per token)
  Lease,         \* REVIEWPHIN_JOB_LEASE_MS
  MaxAge,        \* REVIEWPHIN_MAX_QUEUED_JOB_AGE_MS
  MaxRetries,    \* MAX_JOB_RETRIES
  ExpireLimit,   \* the runner's expireBatchLimit
  OrphanLimit,   \* the runner's orphanReconcileLimit
  None           \* SQL NULL of a job id, a token or a run id

ASSUME StoreAssumption ==
  /\ Lease \in Nat \ {0}
  /\ MaxAge \in Nat /\ MaxRetries \in Nat
  /\ ExpireLimit \in Nat \ {0} /\ OrphanLimit \in Nat \ {0}
  /\ None \notin Jobs /\ None \notin Tokens

VARIABLES
  clock,         \* wall-clock time shared by the database and the processes
  jobs,          \* the interaction_jobs rows
  runs           \* the interaction_runs rows, by claim token

storeVars == <<jobs, runs>>

----------------------------------------------------------------------------
(* Rows *)

Terminal == {"completed", "failed", "cancelled", "expired"}

JobStatus == {"absent", "queued", "in_progress"} \cup Terminal

Job ==
  [status: JobStatus, enqueuedAt: Nat, availableAt: Nat, retryCount: Nat,
   token: Tokens \cup {None}, expiresAt: Nat, latestRun: Tokens \cup {None}]

RunStatus == {"absent", "in_progress", "completed", "failed", "cancelled"}

Run == [status: RunStatus, job: Jobs \cup {None}]

NoJob ==
  [status |-> "absent", enqueuedAt |-> 0, availableAt |-> 0, retryCount |-> 0,
   token |-> None, expiresAt |-> 0, latestRun |-> None]

NoRun == [status |-> "absent", job |-> None]

StoreTypeOK ==
  /\ clock \in Nat
  /\ jobs \in [Jobs -> Job]
  /\ runs \in [Tokens -> Run]

StoreInit ==
  /\ clock = 0
  /\ jobs = [j \in Jobs |-> NoJob]
  /\ runs = [t \in Tokens |-> NoRun]

----------------------------------------------------------------------------
(* Predicates the SQL of several operations shares *)

\* isInteractionJobOwned: token matches and the stored lease is unexpired.
JobOwned(j, t) ==
  /\ jobs[j].status = "in_progress"
  /\ jobs[j].token = t
  /\ jobs[j].expiresAt > clock

\* The row with its three claim columns set to NULL.
Unclaimed(row) == [row EXCEPT !.token = None, !.expiresAt = 0]

\* The subsets of S that a LIMIT clause may return.
Limited(S, limit) ==
  {B \in SUBSET S :
     \/ B = S /\ Cardinality(S) <= limit
     \/ Cardinality(B) = limit}

----------------------------------------------------------------------------
(* Admission of one job (a new batch or a job without a batch) *)

Insert(j, delay) ==
  /\ jobs[j].status = "absent"
  /\ jobs' = [jobs EXCEPT ![j] = [NoJob EXCEPT !.status = "queued",
                                               !.enqueuedAt = clock,
                                               !.availableAt = clock + delay]]
  /\ UNCHANGED runs

----------------------------------------------------------------------------
(* Maintenance *)

\* Mutant: the expiry pass forgets that only queued jobs grow stale.
TooOldAnyStatus(now) ==
  {j \in Jobs : jobs[j].status # "absent" /\ jobs[j].enqueuedAt + MaxAge < now}

TooOld(now) ==
  {j \in Jobs : jobs[j].status = "queued" /\ jobs[j].enqueuedAt + MaxAge < now}

ExpireQueued(now) ==
  \E batch \in Limited(TooOld(now), ExpireLimit) :
    /\ jobs' = [j \in Jobs |->
                  IF j \in batch
                    THEN [Unclaimed(jobs[j]) EXCEPT !.status = "expired"]
                    ELSE jobs[j]]
    /\ UNCHANGED runs

\* Mutant: orphans are looked for among reclaimed jobs only.
OrphanRunsOfReclaimed ==
  {t \in Tokens :
     /\ runs[t].status = "in_progress"
     /\ jobs[runs[t].job].status = "in_progress"
     /\ jobs[runs[t].job].token # t}

\* In-progress runs whose owning claim was lost.
OrphanRuns ==
  {t \in Tokens :
     /\ runs[t].status = "in_progress"
     /\ \/ jobs[runs[t].job].status # "in_progress"
        \/ jobs[runs[t].job].token # t}

\* Mutant: a job that did complete is not exempt.
StaleRunsOfCompletedJobs(now) ==
  {t \in Tokens :
     /\ runs[t].status = "completed"
     /\ jobs[runs[t].job].latestRun = t
     /\ \/ jobs[runs[t].job].status # "in_progress"
        \/ jobs[runs[t].job].token # t
        \/ jobs[runs[t].job].expiresAt <= now}

\* Completed latest runs whose job did not complete under the same claim.
StaleCompletedRuns(now) ==
  {t \in Tokens :
     /\ runs[t].status = "completed"
     /\ jobs[runs[t].job].latestRun = t
     /\ jobs[runs[t].job].status # "completed"
     /\ \/ jobs[runs[t].job].status # "in_progress"
        \/ jobs[runs[t].job].token # t
        \/ jobs[runs[t].job].expiresAt <= now}

ReconcileOrphanedRuns(now) ==
  \E orphans \in Limited(OrphanRuns, OrphanLimit),
     stale \in Limited(StaleCompletedRuns(now), OrphanLimit) :
    /\ runs' = [t \in Tokens |->
                  IF t \in orphans \cup stale
                    THEN [runs[t] EXCEPT !.status = "failed"]
                    ELSE runs[t]]
    /\ UNCHANGED jobs

----------------------------------------------------------------------------
(* Claims *)

LeaseExpired(j, now) ==
  /\ jobs[j].status = "in_progress"
  /\ \/ jobs[j].token = None
     \/ jobs[j].expiresAt <= now

\* Mutant: one retry too many.
RecoveredRowOffByOne(row, now) ==
  LET next == [Unclaimed(row) EXCEPT !.retryCount = @ + 1]
  IN  IF row.retryCount <= MaxRetries
        THEN [next EXCEPT !.status = "queued", !.availableAt = now]
        ELSE [next EXCEPT !.status = "failed"]

\* Mutant: a lost lease is not counted as a failed review.
RecoveredRowUncounted(row, now) ==
  IF row.retryCount + 1 <= MaxRetries
    THEN [Unclaimed(row) EXCEPT !.status = "queued", !.availableAt = now]
    ELSE [Unclaimed(row) EXCEPT !.status = "failed"]

\* A job whose lease expired: back to the queue while retries remain.
RecoveredRow(row, now) ==
  LET next == [Unclaimed(row) EXCEPT !.retryCount = @ + 1]
  IN  IF row.retryCount + 1 <= MaxRetries
        THEN [next EXCEPT !.status = "queued", !.availableAt = now]
        ELSE [next EXCEPT !.status = "failed"]

Recovered(now) ==
  [j \in Jobs |->
     IF LeaseExpired(j, now) THEN RecoveredRow(jobs[j], now) ELSE jobs[j]]

ActiveLease(now) ==
  \E j \in Jobs : jobs[j].status = "in_progress" /\ jobs[j].expiresAt > now

Eligible(rows, now) ==
  {j \in Jobs :
     /\ rows[j].status = "queued"
     /\ rows[j].enqueuedAt + MaxAge >= now
     /\ rows[j].availableAt <= now}

\* ORDER BY available_at, enqueued_at; the order of ids is arbitrary.
First(rows, S) ==
  {j \in S :
     \A k \in S :
       \/ rows[j].availableAt < rows[k].availableAt
       \/ /\ rows[j].availableAt = rows[k].availableAt
          /\ rows[j].enqueuedAt <= rows[k].enqueuedAt}

\* Mutant: another job's active lease does not block the claim.
ClaimNextBesideActive(j, t, now) ==
  /\ j \in First(Recovered(now), Eligible(Recovered(now), now))
  /\ jobs' = [Recovered(now) EXCEPT ![j].status = "in_progress",
                                    ![j].token = t,
                                    ![j].expiresAt = now + Lease]
  /\ UNCHANGED runs

\* Mutant: the lease is counted backwards from now.
ClaimNextLeaseInPast(j, t, now) ==
  /\ ~ActiveLease(now)
  /\ j \in First(Recovered(now), Eligible(Recovered(now), now))
  /\ jobs' = [Recovered(now) EXCEPT ![j].status = "in_progress",
                                    ![j].token = t,
                                    ![j].expiresAt = now - Lease]
  /\ UNCHANGED runs

\* claimNextInteractionJob when it returns job j under token t.
ClaimNext(j, t, now) ==
  /\ ~ActiveLease(now)
  /\ j \in First(Recovered(now), Eligible(Recovered(now), now))
  /\ jobs' = [Recovered(now) EXCEPT ![j].status = "in_progress",
                                    ![j].token = t,
                                    ![j].expiresAt = now + Lease]
  /\ UNCHANGED runs

\* Mutant: with nothing queued it returns before it recovers anything.
ClaimNoneEarlyReturn(now) ==
  /\ ActiveLease(now) \/ Eligible(jobs, now) = {}
  /\ UNCHANGED storeVars

\* claimNextInteractionJob when it returns null: what it recovered stays.
ClaimNone(now) ==
  /\ \/ ActiveLease(now)
     \/ Eligible(Recovered(now), now) = {}
  /\ jobs' = Recovered(now)
  /\ UNCHANGED runs

RenewClaim(j, t, newExpiry) ==
  /\ JobOwned(j, t)
  /\ jobs' = [jobs EXCEPT ![j].expiresAt = newExpiry]
  /\ UNCHANGED runs

\* transitionInteractionJobClaim: ends the claim of its caller.
TransitionClaim(j, t, status, retryCount, availableAt) ==
  /\ JobOwned(j, t)
  /\ jobs' = [jobs EXCEPT ![j] = [Unclaimed(jobs[j]) EXCEPT
                                    !.status = status,
                                    !.retryCount = retryCount,
                                    !.availableAt = availableAt]]

----------------------------------------------------------------------------
(* Runs *)

CreateRunForClaim(j, t) ==
  /\ JobOwned(j, t)
  /\ runs' = [runs EXCEPT ![t] = [status |-> "in_progress", job |-> j]]
  /\ jobs' = [jobs EXCEPT ![j].latestRun = t]

RunOwnedInProgress(j, t) ==
  /\ JobOwned(j, t)
  /\ runs[t] = [status |-> "in_progress", job |-> j]

TransitionRunForClaim(j, t, status) ==
  /\ RunOwnedInProgress(j, t)
  /\ runs' = [runs EXCEPT ![t].status = status]
  /\ UNCHANGED jobs

=============================================================================
