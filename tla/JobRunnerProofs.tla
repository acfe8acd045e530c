-------------------------- MODULE JobRunnerProofs --------------------------
(***************************************************************************)
(* Machine-checked proofs about JobRunner, for every set of jobs, tokens   *)
(* and processes and every value of the timing constants: first types and  *)
(* claims, then, on those invariants, what becomes of jobs and runs.  The  *)
(* runners implement the abstract queue of ReviewQueue, outcomes are       *)
(* final, a completed job has a completed run, and retries are counted.    *)
(* The last part is about what the attempts leave to the next review, for  *)
(* every set of files, contents and findings (ReviewHistory).              *)
(***************************************************************************)
EXTENDS JobRunner, ReviewHistory, FiniteSetTheorems, SequenceTheorems, WellFoundedInduction, TLAPS

----------------------------------------------------------------------------
(* Type correctness *)

\* Clearing the claim columns keeps a row a row, and its other columns.
LEMMA UnclaimedType ==
  ASSUME NEW row \in Job
  PROVE  /\ Unclaimed(row) \in Job
         /\ Unclaimed(row).retryCount = row.retryCount
         /\ Unclaimed(row).status = row.status
BY DEF Unclaimed, Job

\* The rows that claimNext's recovery computes are job rows.
LEMMA RecoveredType ==
  ASSUME StoreTypeOK, NEW now \in Nat
  PROVE  Recovered(now) \in [Jobs -> Job]
<1>1. ASSUME NEW row \in Job
      PROVE  RecoveredRow(row, now) \in Job
  <2>1. ASSUME NEW r \in Job
        PROVE  [r EXCEPT !.retryCount = @ + 1] \in Job
    BY DEF Job
  <2>2. [Unclaimed(row) EXCEPT !.retryCount = @ + 1] \in Job
    BY <2>1, UnclaimedType
  <2>3. ASSUME NEW r \in Job
        PROVE  /\ [r EXCEPT !.status = "queued", !.availableAt = now] \in Job
               /\ [r EXCEPT !.status = "failed"] \in Job
    BY DEF Job, JobStatus, Terminal
  <2>4. QED
    BY <2>2, <2>3 DEF RecoveredRow
<1>2. QED
  BY <1>1 DEF Recovered, StoreTypeOK

\* Each store operation yields well-typed rows.
LEMMA ExpireType ==
  ASSUME StoreTypeOK, NEW now \in Nat, ExpireQueued(now)
  PROVE  jobs' \in [Jobs -> Job] /\ runs' = runs
<1>1. PICK batch \in Limited(TooOld(now), ExpireLimit) :
        /\ jobs' = [j \in Jobs |->
                      IF j \in batch
                        THEN [Unclaimed(jobs[j]) EXCEPT !.status = "expired"]
                        ELSE jobs[j]]
        /\ UNCHANGED runs
  BY DEF ExpireQueued
<1>2. ASSUME NEW j \in Jobs
      PROVE  [Unclaimed(jobs[j]) EXCEPT !.status = "expired"] \in Job
  <2>1. Unclaimed(jobs[j]) \in Job
    BY UnclaimedType DEF StoreTypeOK
  <2>2. QED
    BY <2>1 DEF Job, JobStatus, Terminal
<1>3. QED
  BY <1>1, <1>2 DEF StoreTypeOK

LEMMA ReconcileType ==
  ASSUME StoreTypeOK, NEW now \in Nat, ReconcileOrphanedRuns(now)
  PROVE  runs' \in [Tokens -> Run] /\ jobs' = jobs
<1>1. ASSUME NEW t \in Tokens
      PROVE  [runs[t] EXCEPT !.status = "failed"] \in Run
  BY DEF StoreTypeOK, Run, RunStatus
<1>2. QED
  BY <1>1 DEF ReconcileOrphanedRuns, StoreTypeOK

LEMMA ClaimType ==
  ASSUME StoreTypeOK, NEW now \in Nat, NEW j \in Jobs, NEW t \in Tokens,
         ClaimNext(j, t, now)
  PROVE  jobs' \in [Jobs -> Job] /\ runs' = runs
<1>1. Recovered(now) \in [Jobs -> Job]
  BY RecoveredType
<1>2. now + Lease \in Nat
  BY StoreAssumption
<1>3. QED
  BY <1>1, <1>2 DEF ClaimNext, Job, JobStatus

LEMMA TransitionType ==
  ASSUME StoreTypeOK, NEW j \in Jobs, NEW t \in Tokens, NEW s \in JobStatus,
         NEW n \in Nat, NEW at \in Nat, TransitionClaim(j, t, s, n, at)
  PROVE  jobs' \in [Jobs -> Job]
<1>1. ASSUME NEW row \in Job
      PROVE  [row EXCEPT !.status = s, !.retryCount = n,
                         !.availableAt = at] \in Job
  BY DEF Job
<1>2. Unclaimed(jobs[j]) \in Job
  BY UnclaimedType DEF StoreTypeOK
<1>3. QED
  BY <1>1, <1>2 DEF TransitionClaim, StoreTypeOK

LEMMA InsertType ==
  ASSUME StoreTypeOK, NEW j \in Jobs, NEW d \in Nat, Insert(j, d)
  PROVE  jobs' \in [Jobs -> Job] /\ runs' = runs
<1>1. NoJob \in Job
  BY DEF NoJob, Job, JobStatus
<1>2. [NoJob EXCEPT !.status = "queued", !.enqueuedAt = clock,
                    !.availableAt = clock + d] \in Job
  <2>1. clock + d \in Nat
    BY DEF StoreTypeOK
  <2>2. QED
    BY <1>1, <2>1 DEF StoreTypeOK, Job, JobStatus
<1>3. QED
  BY <1>2 DEF Insert, StoreTypeOK

LEMMA RenewType ==
  ASSUME StoreTypeOK, NEW j, NEW t \in Tokens, NEW expiry \in Nat,
         RenewClaim(j, t, expiry)
  PROVE  jobs' \in [Jobs -> Job] /\ runs' = runs
BY DEF RenewClaim, StoreTypeOK, Job

LEMMA CreateRunType ==
  ASSUME StoreTypeOK, NEW j \in Jobs, NEW t \in Tokens, CreateRunForClaim(j, t)
  PROVE  jobs' \in [Jobs -> Job] /\ runs' \in [Tokens -> Run]
<1>1. [status |-> "in_progress", job |-> j] \in Run
  BY DEF Run, RunStatus
<1>2. [jobs[j] EXCEPT !.latestRun = t] \in Job
  BY DEF StoreTypeOK, Job
<1>3. QED
  BY <1>1, <1>2 DEF CreateRunForClaim, StoreTypeOK

LEMMA TransitionRunType ==
  ASSUME StoreTypeOK, NEW j \in Jobs, NEW t \in Tokens, NEW s \in RunStatus,
         TransitionRunForClaim(j, t, s)
  PROVE  jobs' = jobs /\ runs' \in [Tokens -> Run]
BY DEF TransitionRunForClaim, StoreTypeOK, Run

----------------------------------------------------------------------------
(* Type correctness *)

\* A process that claimed a token knows the job it claimed.
JobKnown ==
  \A t \in Tokens : attempts[t].pc # "unused" => attempts[t].job \in Jobs

TypeInv == RunnerTypeOK /\ JobKnown

\* The readings of the clock that a store call carries are not ahead of it.
LEMMA CallTimesType ==
  ASSUME StoreTypeOK, NEW now \in CallTimes
  PROVE  now \in Nat /\ now <= clock
BY DEF CallTimes, StoreTypeOK

\* Only a token whose claim was taken has an attempt that steps.
LEMMA StepJob ==
  ASSUME TypeInv, NEW t \in Tokens, AttemptStep(t)
  PROVE  attempts[t].pc # "unused" /\ attempts[t].job \in Jobs
<1>1. attempts[t].pc # "unused"
  BY DEF AttemptStep, ReleaseClaim, StartAttempt, CreateRun, CompleteRun,
         CommitJob, FailBeforeRun, FailRun, CancelJob, RetireJob, LeaseLost,
         UnexpectedError, Live, LivePc
<1>2. QED
  BY <1>1 DEF TypeInv, JobKnown

LEMMA RunnerTickStoreType ==
  ASSUME TypeInv, NEW w \in Workers, RunnerTick(w)
  PROVE  StoreTypeOK'
<1> USE DEF TypeInv, RunnerTypeOK
<1>1. CASE RunnerExpire(w)
  BY <1>1, CallTimesType, ExpireType DEF RunnerExpire, StoreTypeOK
<1>2. CASE RunnerReconcile(w)
  BY <1>2, CallTimesType, ReconcileType DEF RunnerReconcile, StoreTypeOK
<1>3. CASE RunnerClaim(w)
  BY <1>3, CallTimesType, ClaimType DEF RunnerClaim, StoreTypeOK
<1>4. CASE RunnerClaimNone(w)
  BY <1>4, CallTimesType, RecoveredType
     DEF RunnerClaimNone, ClaimNone, StoreTypeOK
<1>5. CASE RunnerSkipClaim(w)
  BY <1>5 DEF RunnerSkipClaim, StoreTypeOK
<1>6. QED
  BY <1>1, <1>2, <1>3, <1>4, <1>5 DEF RunnerTick

LEMMA HeartbeatStoreType ==
  ASSUME TypeInv, NEW t \in Tokens, Heartbeat(t)
  PROVE  StoreTypeOK'
<1> USE DEF TypeInv, RunnerTypeOK
<1>1. CASE BeatRenew(t)
  <2>1. attempts[t].pending \in Nat
    BY DEF Attempt
  <2>2. QED
    BY <1>1, <2>1, RenewType DEF BeatRenew, StoreTypeOK
<1>2. CASE UNCHANGED <<clock, jobs, runs>>
  BY <1>2 DEF StoreTypeOK
<1>3. QED
  BY <1>1, <1>2 DEF Heartbeat, BeatSend, BeatRefused, BeatError, BeatReturn

LEMMA AttemptStepStoreType ==
  ASSUME TypeInv, NEW t \in Tokens, AttemptStep(t)
  PROVE  StoreTypeOK'
<1> USE DEF TypeInv, RunnerTypeOK
<1> DEFINE j == attempts[t].job
           row == jobs[j]
<1>1. /\ j \in Jobs
      /\ row.retryCount \in Nat /\ row.retryCount + 1 \in Nat
      /\ row.availableAt \in Nat
      /\ \A now \in CallTimes : now + Backoff * (row.retryCount + 1) \in Nat
  <2>1. j \in Jobs /\ row.retryCount \in Nat /\ row.availableAt \in Nat
    BY StepJob DEF StoreTypeOK, Job
  <2>2. \A m, n \in Nat : m * n \in Nat
    OBVIOUS
  <2>3. Backoff * (row.retryCount + 1) \in Nat
    BY <2>1, <2>2, RunnerAssumption
  <2>4. QED
    BY <2>1, <2>3, CallTimesType
<1>2. /\ "queued" \in JobStatus /\ "completed" \in JobStatus
      /\ "cancelled" \in JobStatus /\ "failed" \in JobStatus
  BY DEF JobStatus, Terminal
<1> HIDE DEF j, row
<1>3. CASE ReleaseClaim(t)
  BY <1>1, <1>2, <1>3, TransitionType DEF ReleaseClaim, StoreTypeOK, j, row
<1>4. CASE CommitJob(t)
  BY <1>1, <1>2, <1>4, TransitionType DEF CommitJob, StoreTypeOK, j, row
<1>5. CASE CancelJob(t)
  BY <1>1, <1>2, <1>5, TransitionType DEF CancelJob, StoreTypeOK, j, row
<1>6. CASE RetireJob(t)
  BY <1>1, <1>2, <1>6, TransitionType DEF RetireJob, StoreTypeOK, j, row
<1>7. CASE CreateRun(t)
  BY <1>1, <1>7, CreateRunType DEF CreateRun, StoreTypeOK, j
<1>8. CASE CompleteRun(t) \/ FailRun(t)
  BY <1>1, <1>8, TransitionRunType
     DEF CompleteRun, FailRun, StoreTypeOK, RunStatus, j
<1>9. CASE UNCHANGED <<clock, jobs, runs>>
  BY <1>9 DEF StoreTypeOK
<1>10. QED
  BY <1>3, <1>4, <1>5, <1>6, <1>7, <1>8, <1>9
     DEF AttemptStep, StartAttempt, FailBeforeRun, LeaseLost, UnexpectedError

LEMMA StoreTypeStep ==
  ASSUME TypeInv, [Next]_vars
  PROVE  StoreTypeOK'
<1> USE DEF TypeInv, RunnerTypeOK
<1>1. CASE Tick
  BY <1>1 DEF Tick, StoreTypeOK
<1>2. ASSUME NEW j \in Jobs, Enqueue(j)
      PROVE  StoreTypeOK'
  BY <1>2, InsertType, RunnerAssumption DEF Enqueue, StoreTypeOK
<1>3. ASSUME NEW w \in Workers, FailTick(w) \/ Crash(w) \/ Stop(w) \/ Restart(w)
      PROVE  StoreTypeOK'
  BY <1>3 DEF FailTick, Crash, Stop, Restart, StoreTypeOK
<1>4. CASE UNCHANGED vars
  BY <1>4 DEF vars, StoreTypeOK
<1>5. QED
  BY <1>1, <1>2, <1>3, <1>4, RunnerTickStoreType, HeartbeatStoreType,
     AttemptStepStoreType DEF Next

\* What the processes know keeps its type, and a claimed token keeps its job.
LEMMA AttemptTypeStep ==
  ASSUME TypeInv, [Next]_vars
  PROVE  attempts' \in [Tokens -> Attempt] /\ JobKnown'
<1> USE DEF TypeInv, RunnerTypeOK
<1>1. ASSUME NEW a \in Attempt, a.pc # "unused" => a.job \in Jobs,
             a.pc # "unused"
      PROVE  /\ Ended(a) \in Attempt /\ Ended(a).job \in Jobs
             /\ [Ended(a) EXCEPT !.beat = "idle", !.pending = 0] \in Attempt
             /\ [Ended(a) EXCEPT !.beat = "idle", !.pending = 0].job \in Jobs
  BY <1>1 DEF Ended, NoAttempt, Attempt, AttemptPc, LivePc
<1>2. ASSUME NEW w \in Workers, RunnerClaim(w)
      PROVE  attempts' \in [Tokens -> Attempt] /\ JobKnown'
  <2>1. PICK j \in Jobs, t \in Tokens, now \in CallTimes :
          attempts' = [attempts EXCEPT ![t] =
                         [NoAttempt EXCEPT !.pc = "claimed", !.worker = w,
                                           !.job = j, !.deadline = now + Lease]]
    BY <1>2 DEF RunnerClaim
  <2>2. now + Lease \in Nat
    BY CallTimesType, StoreAssumption
  <2>3. [NoAttempt EXCEPT !.pc = "claimed", !.worker = w,
                          !.job = j, !.deadline = now + Lease] \in Attempt
    BY <2>2 DEF NoAttempt, Attempt, AttemptPc
  <2>4. QED
    BY <2>1, <2>3 DEF JobKnown, NoAttempt
<1>3. ASSUME NEW t \in Tokens, Heartbeat(t)
      PROVE  attempts' \in [Tokens -> Attempt] /\ JobKnown'
  <2>1. clock + Lease \in Nat
    BY StoreAssumption DEF StoreTypeOK
  <2>2. ASSUME NEW d \in Nat, BeatIdle(t, d)
        PROVE  attempts' \in [Tokens -> Attempt] /\ JobKnown'
    BY <2>2 DEF BeatIdle, Attempt, JobKnown
  <2>3. CASE BeatSend(t)
    BY <2>1, <2>3 DEF BeatSend, Attempt, JobKnown
  <2>4. CASE BeatRenew(t)
    <3>1. CASE Live(t)
      BY <2>4, <3>1 DEF BeatRenew, Attempt, JobKnown
    <3>2. CASE ~Live(t)
      BY <2>2, <2>4, <3>2 DEF BeatRenew
    <3>3. QED
      BY <3>1, <3>2
  <2>5. CASE BeatRefused(t) \/ BeatError(t) \/ BeatReturn(t)
    <3>1. attempts[t].deadline \in Nat /\ attempts[t].pending \in Nat
      BY DEF Attempt
    <3>2. QED
      BY <2>2, <2>5, <3>1 DEF BeatRefused, BeatError, BeatReturn
  <2>6. QED
    BY <1>3, <2>3, <2>4, <2>5 DEF Heartbeat
<1>4. ASSUME NEW t \in Tokens, AttemptStep(t)
      PROVE  attempts' \in [Tokens -> Attempt] /\ JobKnown'
  <2>1. attempts[t] \in Attempt /\ attempts[t].pc # "unused"
        /\ attempts[t].job \in Jobs
    BY <1>4, StepJob
  <2>2. ASSUME NEW pc \in AttemptPc, GoTo(t, pc)
        PROVE  attempts' \in [Tokens -> Attempt] /\ JobKnown'
    BY <2>1, <2>2 DEF GoTo, Attempt, JobKnown
  <2>3. ASSUME End(t)
        PROVE  attempts' \in [Tokens -> Attempt] /\ JobKnown'
    BY <1>1, <2>1, <2>3 DEF End, JobKnown
  <2>4. \/ \E pc \in AttemptPc : GoTo(t, pc)
        \/ End(t)
    BY <1>4 DEF AttemptStep, ReleaseClaim, StartAttempt, CreateRun, CompleteRun,
         CommitJob, FailBeforeRun, FailRun, CancelJob, RetireJob, LeaseLost,
         UnexpectedError, AttemptPc, LivePc
  <2>5. QED
    BY <2>2, <2>3, <2>4
<1>5. ASSUME NEW w \in Workers, Crash(w)
      PROVE  attempts' \in [Tokens -> Attempt] /\ JobKnown'
  <2>1. ASSUME NEW t \in Tokens, attempts[t].pc \in LivePc \cup {"claimed"}
        PROVE  attempts[t].pc # "unused" /\ attempts[t].job \in Jobs
    BY <2>1 DEF LivePc, JobKnown
  <2>2. \A t \in Tokens :
          \/ attempts'[t] = attempts[t]
          \/ /\ attempts[t].pc \in LivePc \cup {"claimed"}
             /\ attempts'[t] = [Ended(attempts[t]) EXCEPT !.beat = "idle",
                                                         !.pending = 0]
    BY <1>5 DEF Crash
  <2>3. \A t \in Tokens :
          /\ attempts'[t] \in Attempt
          /\ attempts'[t].pc # "unused" => attempts'[t].job \in Jobs
    <3> TAKE t \in Tokens
    <3>1. attempts[t] \in Attempt
      OBVIOUS
    <3>2. CASE attempts'[t] = attempts[t]
      BY <3>1, <3>2 DEF JobKnown
    <3>3. CASE /\ attempts[t].pc \in LivePc \cup {"claimed"}
               /\ attempts'[t] = [Ended(attempts[t]) EXCEPT !.beat = "idle",
                                                           !.pending = 0]
      BY <1>1, <2>1, <3>1, <3>3
    <3>4. QED
      BY <2>2, <3>2, <3>3
  <2>4. attempts' = [t \in Tokens |-> attempts'[t]]
    BY <1>5 DEF Crash
  <2>5. QED
    BY <2>3, <2>4 DEF JobKnown
<1>6. CASE UNCHANGED attempts
  BY <1>6 DEF JobKnown
<1>7. QED
  BY <1>2, <1>3, <1>4, <1>5, <1>6
     DEF Next, vars, Tick, Enqueue, RunnerTick, RunnerExpire, RunnerReconcile,
         RunnerSkipClaim, RunnerClaimNone, FailTick, Stop, Restart

LEMMA TypeInvStep ==
  ASSUME TypeInv, [Next]_vars
  PROVE  TypeInv'
<1>1. workers' \in [Workers -> Worker] /\ faults' \in Nat
  <2> USE DEF TypeInv, RunnerTypeOK
  <2>1. ASSUME NEW w \in Workers,
               \/ RunnerTick(w) \/ FailTick(w)
               \/ Crash(w) \/ Stop(w) \/ Restart(w)
        PROVE  workers' \in [Workers -> Worker] /\ faults' \in Nat
    <3>1. ASSUME NEW step \in {"expire", "reconcile", "claim"}, NextTick(w, step)
          PROVE  workers' \in [Workers -> Worker]
      BY <3>1 DEF NextTick, Worker
    <3>2. CASE RunnerTick(w)
      BY <3>1, <3>2 DEF RunnerTick, RunnerExpire, RunnerReconcile,
           RunnerSkipClaim, RunnerClaim, RunnerClaimNone
    <3>3. CASE FailTick(w)
      BY <3>1, <3>3 DEF FailTick
    <3>4. CASE Crash(w)
      <4>1. [tick |-> "expire", stopping |-> FALSE] \in Worker
        BY Zenon DEF Worker
      <4>2. /\ workers' = [workers EXCEPT ![w] = [tick |-> "expire",
                                                  stopping |-> FALSE]]
            /\ faults' = faults + 1
        BY Zenon, <3>4 DEF Crash
      <4>3. \A s \in Worker : [workers EXCEPT ![w] = s] \in [Workers -> Worker]
        OBVIOUS
      <4>4. workers' \in [Workers -> Worker]
        BY Zenon, <4>1, <4>2, <4>3
      <4>5. QED
        BY <4>2, <4>4
    <3>5. CASE Stop(w) \/ Restart(w)
      <4>1. ASSUME NEW s \in Worker
            PROVE  /\ [s EXCEPT !.stopping = TRUE] \in Worker
                   /\ [s EXCEPT !.stopping = FALSE] \in Worker
        BY Zenon DEF Worker
      <4>2. workers[w] \in Worker
        OBVIOUS
      <4>3. workers' = [workers EXCEPT ![w] = [@ EXCEPT !.stopping = TRUE]]
            \/ workers' = [workers EXCEPT ![w] = [@ EXCEPT !.stopping = FALSE]]
        BY Zenon, <3>5 DEF Stop, Restart
      <4>4. workers' \in [Workers -> Worker]
        BY <4>1, <4>2, <4>3
      <4>5. QED
        BY <3>5, <4>4 DEF Stop, Restart
    <3>6. QED
      BY <2>1, <3>2, <3>3, <3>4, <3>5
  <2>2. ASSUME NEW t \in Tokens, Heartbeat(t) \/ AttemptStep(t)
        PROVE  UNCHANGED <<workers, faults>>
    BY <2>2 DEF Heartbeat, BeatSend, BeatRenew, BeatRefused, BeatError,
         BeatReturn, AttemptStep, ReleaseClaim, StartAttempt, CreateRun,
         CompleteRun, CommitJob, FailBeforeRun, FailRun, CancelJob, RetireJob,
         LeaseLost, UnexpectedError
  <2>3. QED
    BY <2>1, <2>2 DEF Next, vars, Tick, Enqueue
<1>2. QED
  BY <1>1, StoreTypeStep, AttemptTypeStep DEF TypeInv, RunnerTypeOK

LEMMA TypeInvariant == Spec => []TypeInv
<1>1. Init => TypeInv
  BY DEF Init, StoreInit, TypeInv, RunnerTypeOK, StoreTypeOK, JobKnown, NoJob, Job,
         JobStatus, NoRun, Run, RunStatus, NoAttempt, Attempt, AttemptPc, Worker
<1>2. TypeInv /\ [Next]_vars => TypeInv'
  BY TypeInvStep
<1>3. QED
  BY <1>1, <1>2, PTL DEF Spec

\* Types hold throughout: every row, run, attempt and worker of a behaviour is
\* one of those the declarations allow, so no operation stores a malformed row.
THEOREM TypeCorrect == Spec => []RunnerTypeOK
<1>1. TypeInv => RunnerTypeOK
  BY DEF TypeInv
<1>2. QED
  BY <1>1, TypeInvariant, PTL

----------------------------------------------------------------------------
(* Mutual exclusion *)

\* The attempt of t has been given the claim and has not returned.
Holding(t) == attempts[t].pc \in LivePc \cup {"claimed"}

\* The row of t's job, as long as the claim of t is stored.
ClaimStored(t) ==
  /\ jobs[attempts[t].job].status = "in_progress"
  /\ jobs[attempts[t].job].token = t

\* What an attempt believes of its lease is never more than what is stored: the
\* local deadline ends no later than the stored lease, in flight or not.
LeaseBelief(t) ==
  /\ attempts[t].deadline <= clock + Lease
  /\ attempts[t].pending <= clock + Lease
  /\ attempts[t].beat = "sent" => attempts[t].deadline <= attempts[t].pending
  /\ Holding(t) /\ LocallyOwned(t) =>
       /\ ClaimStored(t)
       /\ attempts[t].deadline <= jobs[attempts[t].job].expiresAt
       /\ attempts[t].beat = "renewed" =>
            attempts[t].pending <= jobs[attempts[t].job].expiresAt

LeaseInv == \A t \in Tokens : LeaseBelief(t)

ClaimInv == TypeInv /\ OneActiveReview /\ LeaseInv

\* No claim is taken or recovered while an attempt believes it holds one.
LEMMA BeliefBlocksClaim ==
  ASSUME ClaimInv, NEW t \in Tokens, Holding(t), LocallyOwned(t),
         NEW now \in CallTimes
  PROVE  /\ ActiveLease(now)
         /\ attempts[t].job \in Jobs
         /\ Recovered(now)[attempts[t].job] = jobs[attempts[t].job]
<1>1. attempts[t].job \in Jobs
  BY DEF ClaimInv, TypeInv, JobKnown, Holding, LivePc
<1>2. /\ clock \in Nat /\ now \in Nat /\ now <= clock
      /\ attempts[t].deadline \in Nat
      /\ jobs[attempts[t].job].expiresAt \in Nat
  BY <1>1, CallTimesType DEF ClaimInv, TypeInv, RunnerTypeOK, StoreTypeOK, Attempt, Job
<1>3. /\ jobs[attempts[t].job].status = "in_progress"
      /\ jobs[attempts[t].job].token = t
      /\ jobs[attempts[t].job].expiresAt > now
  BY <1>2 DEF ClaimInv, LeaseInv, LeaseBelief, LocallyOwned, ClaimStored
<1>4. t # None
  BY StoreAssumption
<1>5. ~LeaseExpired(attempts[t].job, now)
  BY <1>2, <1>3, <1>4 DEF LeaseExpired
<1>6. QED
  BY <1>1, <1>3, <1>5 DEF ActiveLease, Recovered

\* A belief survives a step that leaves the attempt and its claim alone.
LEMMA BeliefKept ==
  ASSUME NEW t \in Tokens, LeaseBelief(t), clock' = clock,
         attempts'[t] = attempts[t],
         Holding(t) /\ LocallyOwned(t) =>
           LET k == attempts[t].job
           IN  /\ jobs'[k].status = jobs[k].status
               /\ jobs'[k].token = jobs[k].token
               /\ jobs'[k].expiresAt = jobs[k].expiresAt
  PROVE  LeaseBelief(t)'
BY DEF LeaseBelief, LocallyOwned, Holding, ClaimStored

\* An attempt that no longer believes anything of its lease, or no longer acts.
LEMMA BeliefDropped ==
  ASSUME TypeInv, NEW t \in Tokens, LeaseBelief(t), clock' = clock,
         \/ attempts'[t].deadline = 0
         \/ attempts'[t].deadline = attempts[t].deadline /\ ~Holding(t)',
         \/ attempts'[t].pending = 0 /\ attempts'[t].beat = "idle"
         \/ /\ attempts'[t].pending = attempts[t].pending
            /\ attempts'[t].beat = attempts[t].beat
  PROVE  LeaseBelief(t)'
<1>1. /\ clock \in Nat /\ clock + Lease \in Nat
      /\ attempts[t].pending \in Nat /\ attempts[t].deadline \in Nat
  BY StoreAssumption DEF TypeInv, RunnerTypeOK, StoreTypeOK, Attempt
<1>2. QED
  BY <1>1 DEF LeaseBelief, LocallyOwned, Holding

\* Two attempts that believe they hold a claim hold those of two jobs.
LEMMA OtherJob ==
  ASSUME ClaimInv, NEW t \in Tokens, NEW u \in Tokens, u # t,
         Owned(t), Holding(u), LocallyOwned(u)
  PROVE  attempts[u].job # attempts[t].job
BY DEF ClaimInv, LeaseInv, LeaseBelief, ClaimStored, Owned, JobOwned

\* Only a claim puts a job under review.
LEMMA NoNewReview ==
  ASSUME OneActiveReview,
         \A j \in Jobs :
           jobs'[j].status = "in_progress" => jobs[j].status = "in_progress"
  PROVE  OneActiveReview'
BY DEF OneActiveReview

LEMMA TickSafe ==
  ASSUME ClaimInv, Tick
  PROVE  OneActiveReview' /\ LeaseInv'
<1>1. clock \in Nat /\ Lease \in Nat /\ clock' = clock + 1
  BY StoreAssumption DEF Tick, ClaimInv, TypeInv, RunnerTypeOK, StoreTypeOK
<1>2. UNCHANGED <<jobs, attempts>>
  BY DEF Tick
<1>3. ASSUME NEW t \in Tokens
      PROVE  LeaseBelief(t)'
  <2>1. attempts[t].deadline \in Nat /\ attempts[t].pending \in Nat
    BY DEF ClaimInv, TypeInv, RunnerTypeOK, Attempt
  <2>2. LeaseBelief(t)
    BY DEF ClaimInv, LeaseInv
  <2>3. QED
    BY <1>1, <1>2, <2>1, <2>2
       DEF LeaseBelief, LocallyOwned, Holding, ClaimStored
<1>4. QED
  BY <1>2, <1>3 DEF ClaimInv, OneActiveReview, LeaseInv

\* Admission and maintenance leave the job of every believer alone.
LEMMA MaintenanceSafe ==
  ASSUME ClaimInv,
         \/ \E j \in Jobs : Enqueue(j)
         \/ \E w \in Workers :
              \/ RunnerExpire(w) \/ RunnerReconcile(w) \/ RunnerSkipClaim(w)
              \/ RunnerClaimNone(w) \/ FailTick(w) \/ Stop(w) \/ Restart(w)
  PROVE  OneActiveReview' /\ LeaseInv'
<1>1. UNCHANGED <<clock, attempts>>
  BY DEF Enqueue, RunnerExpire, RunnerReconcile, RunnerSkipClaim,
         RunnerClaimNone, FailTick, Stop, Restart
<1>2. jobs \in [Jobs -> Job]
  BY DEF ClaimInv, TypeInv, RunnerTypeOK, StoreTypeOK
<1>3. \/ UNCHANGED jobs
      \/ \E j \in Jobs, delay \in 0..MaxDebounce : Insert(j, delay)
      \/ \E now \in CallTimes : ExpireQueued(now)
      \/ \E now \in CallTimes : jobs' = Recovered(now)
  BY DEF Enqueue, RunnerExpire, RunnerReconcile, ReconcileOrphanedRuns,
         RunnerSkipClaim, RunnerClaimNone, ClaimNone, FailTick, Stop, Restart
<1>4. \A j \in Jobs :
        jobs'[j].status = "in_progress" =>
          jobs[j].status = "in_progress" /\ jobs'[j] = jobs[j]
  <2>1. ASSUME NEW j \in Jobs, NEW delay, Insert(j, delay)
        PROVE  \A k \in Jobs : jobs'[k] = jobs[k] \/ jobs'[k].status = "queued"
    BY <1>2, <2>1 DEF Insert, NoJob
  <2>2. ASSUME NEW now, ExpireQueued(now)
        PROVE  \A k \in Jobs : jobs'[k] = jobs[k] \/ jobs'[k].status = "expired"
    BY <1>2, <2>2 DEF ExpireQueued, Unclaimed, Job
  <2>3. ASSUME NEW now \in CallTimes, jobs' = Recovered(now)
        PROVE  \A k \in Jobs :
                 jobs'[k] = jobs[k] \/ jobs'[k].status \in {"queued", "failed"}
    BY <1>2, <2>3 DEF Recovered, RecoveredRow, Unclaimed, Job
  <2>4. QED
    BY <1>3, <2>1, <2>2, <2>3
<1>5. ASSUME NEW t \in Tokens, Holding(t), LocallyOwned(t)
      PROVE  jobs'[attempts[t].job] = jobs[attempts[t].job]
  <2>1. /\ attempts[t].job \in Jobs
        /\ jobs[attempts[t].job].status = "in_progress"
    BY <1>5, BeliefBlocksClaim DEF ClaimInv, LeaseInv, LeaseBelief, ClaimStored,
       TypeInv, JobKnown, Holding, LivePc
  <2>2. ASSUME NEW j \in Jobs, NEW delay, Insert(j, delay)
        PROVE  jobs'[attempts[t].job] = jobs[attempts[t].job]
    BY <1>2, <2>1, <2>2 DEF Insert
  <2>3. ASSUME NEW now, ExpireQueued(now)
        PROVE  jobs'[attempts[t].job] = jobs[attempts[t].job]
    <3>1. PICK batch \in Limited(TooOld(now), ExpireLimit) :
            jobs' = [j \in Jobs |->
                       IF j \in batch
                         THEN [Unclaimed(jobs[j]) EXCEPT !.status = "expired"]
                         ELSE jobs[j]]
      BY <2>3 DEF ExpireQueued
    <3>2. batch \subseteq TooOld(now)
      BY DEF Limited
    <3>3. attempts[t].job \notin batch
      BY <2>1, <3>2 DEF TooOld
    <3>4. QED
      BY <2>1, <3>1, <3>3
  <2>4. ASSUME NEW now \in CallTimes, jobs' = Recovered(now)
        PROVE  jobs'[attempts[t].job] = jobs[attempts[t].job]
    BY <1>5, <2>4, BeliefBlocksClaim
  <2>5. QED
    BY <1>3, <2>2, <2>3, <2>4
<1>6. OneActiveReview'
  BY <1>4, NoNewReview DEF ClaimInv
<1>7. LeaseInv'
  BY <1>1, <1>5, BeliefKept DEF ClaimInv, LeaseInv
<1>8. QED
  BY <1>6, <1>7

\* A claim is taken only when nobody believes to hold one, and recovery leaves
\* no other job under review.
LEMMA ClaimSafe ==
  ASSUME ClaimInv, NEW w \in Workers, RunnerClaim(w)
  PROVE  OneActiveReview' /\ LeaseInv'
<1>1. PICK j \in Jobs, t \in Tokens, now \in CallTimes :
        /\ ClaimNext(j, t, now)
        /\ attempts' = [attempts EXCEPT ![t] =
                          [NoAttempt EXCEPT !.pc = "claimed", !.worker = w,
                                            !.job = j, !.deadline = now + Lease]]
  BY DEF RunnerClaim
<1>2. clock' = clock
  BY DEF RunnerClaim
<1>3. /\ clock \in Nat /\ now \in Nat /\ now <= clock /\ Lease \in Nat
      /\ jobs \in [Jobs -> Job] /\ attempts \in [Tokens -> Attempt]
  BY CallTimesType, StoreAssumption
     DEF ClaimInv, TypeInv, RunnerTypeOK, StoreTypeOK
<1>4. ASSUME NEW u \in Tokens
      PROVE  ~(Holding(u) /\ LocallyOwned(u))
  BY <1>1, BeliefBlocksClaim DEF ClaimNext
<1>5. /\ ~ActiveLease(now)
      /\ jobs' = [Recovered(now) EXCEPT ![j].status = "in_progress",
                                        ![j].token = t,
                                        ![j].expiresAt = now + Lease]
      /\ Recovered(now) \in [Jobs -> Job]
  BY <1>1, <1>3, RecoveredType DEF ClaimNext, ClaimInv, TypeInv, RunnerTypeOK
<1>6. ASSUME NEW k \in Jobs
      PROVE  Recovered(now)[k].status # "in_progress"
  <2>1. jobs[k].status = "in_progress" => LeaseExpired(k, now)
    BY <1>3, <1>5 DEF ActiveLease, LeaseExpired, Job
  <2>2. RecoveredRow(jobs[k], now).status \in {"queued", "failed"}
    BY <1>3 DEF RecoveredRow, Unclaimed, Job
  <2>3. QED
    BY <2>1, <2>2 DEF Recovered
<1>7. \A k \in Jobs : jobs'[k].status = "in_progress" => k = j
  BY <1>5, <1>6
<1>8. OneActiveReview'
  BY <1>7 DEF OneActiveReview
<1>9. LeaseBelief(t)'
  <2>1. /\ jobs'[j].status = "in_progress" /\ jobs'[j].token = t
        /\ jobs'[j].expiresAt = now + Lease
    BY <1>5 DEF Job
  <2>2. /\ attempts'[t].job = j /\ attempts'[t].deadline = now + Lease
        /\ attempts'[t].beat = "idle" /\ attempts'[t].pending = 0
    BY <1>1, <1>3 DEF NoAttempt
  <2>3. QED
    BY <1>2, <1>3, <2>1, <2>2 DEF LeaseBelief, ClaimStored
<1>10. ASSUME NEW u \in Tokens, u # t
       PROVE  LeaseBelief(u)'
  <2>1. attempts'[u] = attempts[u]
    BY <1>1, <1>3, <1>10
  <2>2. QED
    BY <1>2, <1>4, <2>1, BeliefKept DEF ClaimInv, LeaseInv
<1>11. QED
  BY <1>8, <1>9, <1>10 DEF LeaseInv

\* The heartbeat moves the deadline only to what the store has accepted.
LEMMA HeartbeatSafe ==
  ASSUME ClaimInv, NEW t \in Tokens, Heartbeat(t)
  PROVE  OneActiveReview' /\ LeaseInv'
<1>1. /\ clock' = clock /\ clock \in Nat /\ Lease \in Nat
      /\ jobs \in [Jobs -> Job] /\ attempts \in [Tokens -> Attempt]
  BY StoreAssumption DEF ClaimInv, TypeInv, RunnerTypeOK, StoreTypeOK, Heartbeat,
     BeatSend, BeatRenew, BeatRefused, BeatError, BeatReturn
<1>2. /\ attempts[t].deadline \in Nat /\ attempts[t].pending \in Nat
      /\ LeaseBelief(t)
  BY <1>1 DEF Attempt, ClaimInv, LeaseInv
<1>3. ASSUME NEW u \in Tokens, u # t
      PROVE  attempts'[u] = attempts[u]
  BY <1>1, <1>3 DEF Heartbeat, BeatSend, BeatRenew, BeatRefused, BeatError,
     BeatReturn, BeatIdle
<1>4. ASSUME NEW d, BeatIdle(t, d)
      PROVE  /\ attempts'[t].deadline = d /\ attempts'[t].pending = 0
             /\ attempts'[t].beat = "idle" /\ attempts'[t].job = attempts[t].job
             /\ attempts'[t].pc = attempts[t].pc
  BY <1>1, <1>4 DEF BeatIdle, Attempt
<1>5. CASE BeatRenew(t)
  <2> DEFINE j == attempts[t].job
  <2>1. /\ attempts[t].beat = "sent" /\ Owned(t)
        /\ jobs' = [jobs EXCEPT ![j].expiresAt = attempts[t].pending]
    BY <1>5 DEF BeatRenew, RenewClaim, Owned
  <2>2. \A k \in Jobs :
          /\ jobs'[k].status = jobs[k].status
          /\ jobs'[k].token = jobs[k].token
          /\ k # j => jobs'[k] = jobs[k]
    BY <1>1, <2>1 DEF Job
  <2>3. OneActiveReview'
    <3>1. \A k \in Jobs :
            jobs'[k].status = "in_progress" => jobs[k].status = "in_progress"
      BY <2>2
    <3>2. QED
      BY <3>1, NoNewReview DEF ClaimInv
  <2>4. ASSUME NEW u \in Tokens, u # t
        PROVE  LeaseBelief(u)'
    <3>1. Holding(u) /\ LocallyOwned(u) =>
            attempts[u].job \in Jobs /\ attempts[u].job # j
      <4>1. Holding(u) => attempts[u].job \in Jobs
        BY DEF ClaimInv, TypeInv, JobKnown, Holding, LivePc
      <4>2. QED
        BY <2>1, <2>4, <4>1, OtherJob
    <3>2. LeaseBelief(u)
      BY DEF ClaimInv, LeaseInv
    <3>3. Holding(u) /\ LocallyOwned(u) =>
            jobs'[attempts[u].job] = jobs[attempts[u].job]
      BY <2>2, <3>1
    <3>4. QED
      BY <1>1, <1>3, <2>4, <3>2, <3>3, BeliefKept
  <2>5. CASE Live(t)
    <3>1. /\ attempts'[t].beat = "renewed" /\ attempts'[t].job = j
          /\ attempts'[t].deadline = attempts[t].deadline
          /\ attempts'[t].pending = attempts[t].pending
          /\ attempts'[t].pc = attempts[t].pc
      BY <1>1, <1>5, <2>5 DEF BeatRenew, Attempt
    <3>2. j \in Jobs
      BY <2>5 DEF Live, LivePc, ClaimInv, TypeInv, JobKnown
    <3>3. /\ jobs'[j].status = "in_progress" /\ jobs'[j].token = t
          /\ jobs'[j].expiresAt = attempts[t].pending
      BY <1>1, <2>1, <3>2 DEF Owned, JobOwned, Job
    <3>4. LeaseBelief(t)'
      BY <1>1, <1>2, <2>1, <3>1, <3>3
         DEF LeaseBelief, ClaimStored, LocallyOwned, Holding
    <3>5. QED
      BY <2>3, <2>4, <3>4 DEF LeaseInv
  <2>6. CASE ~Live(t)
    <3>1. BeatIdle(t, 0)
      BY <1>5, <2>6 DEF BeatRenew
    <3>2. LeaseBelief(t)'
      BY <1>1, <1>2, <1>4, <3>1, BeliefDropped DEF ClaimInv
    <3>3. QED
      BY <2>3, <2>4, <3>2 DEF LeaseInv
  <2>7. QED
    BY <2>5, <2>6
<1>6. CASE ~BeatRenew(t)
  <2>1. jobs' = jobs
    BY <1>6 DEF Heartbeat, BeatSend, BeatRefused, BeatError, BeatReturn
  <2>2. OneActiveReview'
    BY <2>1, NoNewReview DEF ClaimInv
  <2>3. ASSUME NEW u \in Tokens, u # t
        PROVE  LeaseBelief(u)'
    BY <1>1, <1>3, <2>1, <2>3, BeliefKept DEF ClaimInv, LeaseInv
  <2>4. LeaseBelief(t)'
    <3>1. CASE BeatSend(t)
      <4>1. /\ attempts'[t].beat = "sent"
            /\ attempts'[t].pending = clock + Lease
            /\ attempts'[t].deadline = attempts[t].deadline
            /\ attempts'[t].job = attempts[t].job
            /\ attempts'[t].pc = attempts[t].pc
        BY <1>1, <3>1 DEF BeatSend, Attempt
      <4>2. QED
        BY <1>1, <1>2, <2>1, <4>1
           DEF LeaseBelief, ClaimStored, LocallyOwned, Holding
    <3>2. CASE BeatRefused(t)
      BY <1>1, <1>2, <1>4, <3>2, BeliefDropped DEF BeatRefused, ClaimInv
    <3>3. CASE BeatError(t)
      <4>1. BeatIdle(t, attempts[t].deadline)
        BY <3>3 DEF BeatError
      <4>2. QED
        BY <1>1, <1>2, <1>4, <2>1, <4>1
           DEF LeaseBelief, ClaimStored, LocallyOwned, Holding
    <3>4. CASE BeatReturn(t)
      <4>1. /\ attempts[t].beat = "renewed"
            /\ BeatIdle(t, IF LocallyOwned(t) THEN attempts[t].pending ELSE 0)
        BY <3>4 DEF BeatReturn
      <4>2. CASE LocallyOwned(t)
        BY <1>1, <1>2, <1>4, <2>1, <4>1, <4>2
           DEF LeaseBelief, ClaimStored, LocallyOwned, Holding
      <4>3. CASE ~LocallyOwned(t)
        BY <1>1, <1>2, <1>4, <4>1, <4>3, BeliefDropped DEF ClaimInv
      <4>4. QED
        BY <4>2, <4>3
    <3>5. QED
      BY <1>6, <3>1, <3>2, <3>3, <3>4 DEF Heartbeat
  <2>5. QED
    BY <2>2, <2>3, <2>4 DEF LeaseInv
<1>7. QED
  BY <1>5, <1>6

\* What a step of an attempt does to its own memory and to the rows.
LEMMA AttemptStepEffect ==
  ASSUME ClaimInv, NEW t \in Tokens, AttemptStep(t)
  PROVE  /\ clock' = clock /\ Holding(t)
         /\ \A u \in Tokens : u # t => attempts'[u] = attempts[u]
         /\ \/ End(t) /\ jobs' = jobs
            \/ \E pc \in LivePc : Live(t)' /\ GoTo(t, pc) /\ jobs' = jobs
            \/ /\ End(t) \/ GoTo(t, "released")
               /\ \E s \in JobStatus \ {"in_progress"} : \E n, at :
                    TransitionClaim(attempts[t].job, t, s, n, at)
            \/ /\ GoTo(t, "running")
               /\ CreateRunForClaim(attempts[t].job, t)
<1>1. attempts \in [Tokens -> Attempt]
  BY DEF ClaimInv, TypeInv, RunnerTypeOK
<1>2. {"queued", "completed", "failed", "cancelled"}
        \subseteq JobStatus \ {"in_progress"}
  BY DEF JobStatus, Terminal
<1>3. \A pc \in LivePc : GoTo(t, pc) => Live(t)'
  BY <1>1 DEF GoTo, Live, Attempt
<1>4. GoTo(t, "released") \/ End(t) \/ (\E pc \in LivePc : GoTo(t, pc))
  BY DEF AttemptStep, ReleaseClaim, StartAttempt, CreateRun, CompleteRun,
         CommitJob, FailBeforeRun, FailRun, CancelJob, RetireJob, LeaseLost,
         UnexpectedError, LivePc
<1>5. \A u \in Tokens : u # t => attempts'[u] = attempts[u]
  BY <1>1, <1>4 DEF GoTo, End
<1>6. clock' = clock /\ Holding(t)
  BY DEF AttemptStep, ReleaseClaim, StartAttempt, CreateRun, CompleteRun,
         CommitJob, FailBeforeRun, FailRun, CancelJob, RetireJob, LeaseLost,
         UnexpectedError, Holding, Live, LivePc
<1>7. CASE StartAttempt(t) \/ CompleteRun(t) \/ FailBeforeRun(t) \/ FailRun(t)
  <2>1. (\E pc \in LivePc : GoTo(t, pc)) /\ jobs' = jobs
    BY <1>7 DEF StartAttempt, CompleteRun, FailBeforeRun, FailRun,
       TransitionRunForClaim, LivePc
  <2>2. QED
    BY <1>3, <1>5, <1>6, <2>1
<1>8. CASE CommitJob(t) \/ CancelJob(t) \/ RetireJob(t)
  BY <1>2, <1>5, <1>6, <1>8 DEF CommitJob, CancelJob, RetireJob
<1>9. CASE ReleaseClaim(t)
  BY <1>2, <1>5, <1>6, <1>9 DEF ReleaseClaim
<1>10. CASE CreateRun(t)
  BY <1>5, <1>6, <1>10 DEF CreateRun
<1>11. CASE LeaseLost(t) \/ UnexpectedError(t)
  BY <1>5, <1>6, <1>11 DEF LeaseLost, UnexpectedError
<1>12. QED
  BY <1>7, <1>8, <1>9, <1>10, <1>11 DEF AttemptStep

\* An attempt that returns drops its belief with its claim.
LEMMA EndedBelief ==
  ASSUME ClaimInv, NEW t \in Tokens, clock' = clock,
         \/ attempts'[t] = Ended(attempts[t])
         \/ attempts'[t] = [Ended(attempts[t]) EXCEPT !.beat = "idle",
                                                      !.pending = 0]
  PROVE  LeaseBelief(t)'
<1>1. /\ attempts'[t].deadline = 0
      /\ \/ attempts'[t].pending = 0 /\ attempts'[t].beat = "idle"
         \/ /\ attempts'[t].pending = attempts[t].pending
            /\ attempts'[t].beat = attempts[t].beat
  BY DEF Ended, NoAttempt
<1>2. QED
  BY <1>1, BeliefDropped DEF ClaimInv, LeaseInv

\* An attempt ends its claim together with its belief; the others hold claims of
\* other jobs.
LEMMA AttemptStepSafe ==
  ASSUME ClaimInv, NEW t \in Tokens, AttemptStep(t)
  PROVE  OneActiveReview' /\ LeaseInv'
<1> DEFINE j == attempts[t].job
<1>1. /\ jobs \in [Jobs -> Job] /\ attempts \in [Tokens -> Attempt]
      /\ j \in Jobs
  BY StepJob DEF ClaimInv, TypeInv, RunnerTypeOK, StoreTypeOK
<1>2. /\ clock' = clock
      /\ \A u \in Tokens : u # t => attempts'[u] = attempts[u]
  BY AttemptStepEffect
<1> DEFINE OwnRowOnly ==
             /\ \A k \in Jobs : k # j => jobs'[k] = jobs[k]
             /\ jobs' # jobs => Owned(t)
             /\ jobs'[j].status = "in_progress" => jobs[j].status = "in_progress"
<1>3. OwnRowOnly
  <2>1. ASSUME NEW s \in JobStatus \ {"in_progress"}, NEW n, NEW at,
               TransitionClaim(j, t, s, n, at)
        PROVE  OwnRowOnly
    BY <1>1, <2>1 DEF TransitionClaim, Unclaimed, Owned, Job
  <2>2. ASSUME CreateRunForClaim(j, t)
        PROVE  OwnRowOnly
    BY <1>1, <2>2 DEF CreateRunForClaim, Owned, Job
  <2>3. QED
    BY <2>1, <2>2, AttemptStepEffect
<1>4. OneActiveReview'
  BY <1>3, NoNewReview DEF ClaimInv
<1>5. ASSUME NEW u \in Tokens, u # t
      PROVE  LeaseBelief(u)'
  <2>1. Holding(u) => attempts[u].job \in Jobs
    BY DEF ClaimInv, TypeInv, JobKnown, Holding, LivePc
  <2>2. Holding(u) /\ LocallyOwned(u) =>
          jobs'[attempts[u].job] = jobs[attempts[u].job]
    BY <1>3, <1>5, <2>1, OtherJob
  <2>3. LeaseBelief(u)
    BY DEF ClaimInv, LeaseInv
  <2>4. QED
    BY <1>2, <1>5, <2>2, <2>3, BeliefKept
<1>6. LeaseBelief(t)'
  <2>1. LeaseBelief(t)
    BY DEF ClaimInv, LeaseInv
  <2>2. CASE End(t)
    BY <1>1, <1>2, <2>2, EndedBelief DEF End
  <2>3. ASSUME NEW pc, GoTo(t, pc)
        PROVE  /\ attempts'[t].pc = pc /\ attempts'[t].job = j
               /\ attempts'[t].deadline = attempts[t].deadline
               /\ attempts'[t].pending = attempts[t].pending
               /\ attempts'[t].beat = attempts[t].beat
    BY <1>1, <2>3 DEF GoTo, Attempt
  <2>4. CASE GoTo(t, "released")
    BY <1>2, <2>1, <2>3, <2>4, BeliefDropped DEF Holding, LivePc, ClaimInv
  <2>5. ASSUME NEW pc \in LivePc, GoTo(t, pc),
               jobs' = jobs \/ CreateRunForClaim(j, t)
        PROVE  LeaseBelief(t)'
    <3>1. Holding(t)
      BY AttemptStepEffect
    <3>2. /\ jobs'[j].status = jobs[j].status
          /\ jobs'[j].token = jobs[j].token
          /\ jobs'[j].expiresAt = jobs[j].expiresAt
      BY <1>1, <2>5 DEF CreateRunForClaim, Job
    <3>3. QED
      BY <1>2, <2>1, <2>3, <2>5, <3>1, <3>2
         DEF LeaseBelief, ClaimStored, LocallyOwned, Holding
  <2>6. QED
    BY <2>2, <2>4, <2>5, AttemptStepEffect DEF LivePc
<1>7. QED
  BY <1>4, <1>5, <1>6 DEF LeaseInv

LEMMA CrashSafe ==
  ASSUME ClaimInv, NEW w \in Workers, Crash(w)
  PROVE  OneActiveReview' /\ LeaseInv'
<1>1. UNCHANGED <<clock, jobs>>
  BY DEF Crash
<1>2. ASSUME NEW t \in Tokens
      PROVE  LeaseBelief(t)'
  <2>1. \/ attempts'[t] = attempts[t]
        \/ attempts'[t] = [Ended(attempts[t]) EXCEPT !.beat = "idle",
                                                     !.pending = 0]
    BY DEF Crash
  <2>2. LeaseBelief(t)
    BY DEF ClaimInv, LeaseInv
  <2>3. QED
    BY <1>1, <2>1, <2>2, BeliefKept, EndedBelief
<1>3. QED
  BY <1>1, <1>2, NoNewReview DEF ClaimInv, LeaseInv

\* ClaimInv is inductive.
LEMMA ClaimInvStep ==
  ASSUME ClaimInv, TypeInv', [Next]_vars
  PROVE  ClaimInv'
<1>1. CASE UNCHANGED vars
  BY <1>1 DEF vars, ClaimInv, OneActiveReview, LeaseInv, LeaseBelief, Holding,
     LocallyOwned, ClaimStored
<1>2. CASE Next
  <2>1. OneActiveReview' /\ LeaseInv'
    BY <1>2, TickSafe, MaintenanceSafe, ClaimSafe, HeartbeatSafe,
       AttemptStepSafe, CrashSafe DEF Next, RunnerTick
  <2>2. QED
    BY <2>1 DEF ClaimInv
<1>3. QED
  BY <1>1, <1>2

LEMMA ClaimInvariant == Spec => []ClaimInv
<1>1. Init => OneActiveReview /\ LeaseInv
  BY StoreAssumption DEF Init, StoreInit, NoJob, NoAttempt, OneActiveReview,
     LeaseInv, LeaseBelief, Holding, LivePc
<1>2. TypeInv /\ Init => ClaimInv
  BY <1>1 DEF ClaimInv
<1>3. ClaimInv /\ TypeInv' /\ [Next]_vars => ClaimInv'
  BY ClaimInvStep
<1>4. QED
  BY <1>2, <1>3, TypeInvariant, PTL DEF Spec

\* The storage guarantee of one active review, for any number of processes, jobs
\* and tokens and any timing: two jobs are never in progress together.
THEOREM OneReview == Spec => []OneActiveReview
<1>1. ClaimInv => OneActiveReview
  BY DEF ClaimInv
<1>2. QED
  BY <1>1, ClaimInvariant, PTL

\* Fencing by lease: two attempts never both pass assertOwned, whatever the skew
\* of store calls, the renewals lost or answered late, crashes and restarts.
THEOREM ExclusiveAttempts == Spec => []ExclusiveAttempt
<1>1. ASSUME ClaimInv, NEW t \in Tokens, NEW u \in Tokens, MayAct(t), MayAct(u)
      PROVE  t = u
  <2>1. /\ Holding(t) /\ attempts[t].job \in Jobs
        /\ Holding(u) /\ attempts[u].job \in Jobs
    BY <1>1 DEF MayAct, Live, Holding, LivePc, ClaimInv, TypeInv, JobKnown
  <2>2. ClaimStored(t) /\ ClaimStored(u)
    BY <1>1, <2>1 DEF MayAct, ClaimInv, LeaseInv, LeaseBelief
  <2>3. attempts[t].job = attempts[u].job
    BY <1>1, <2>1, <2>2 DEF ClaimInv, OneActiveReview, ClaimStored
  <2>4. QED
    BY <2>2, <2>3 DEF ClaimStored
<1>2. ClaimInv => ExclusiveAttempt
  BY <1>1 DEF ExclusiveAttempt
<1>3. QED
  BY <1>2, ClaimInvariant, PTL

----------------------------------------------------------------------------
(* The refinement of ReviewQueue *)

\* The abstract state, named as ImplementsReviewQueue maps it.
Phase == [j \in Jobs |-> jobs[j].status]

Failures == [j \in Jobs |-> jobs[j].retryCount]

\* A step that keeps the status and the retries of every row is a stutter.
LEMMA SamePhases ==
  ASSUME \A j \in Jobs : /\ jobs'[j].status = jobs[j].status
                         /\ jobs'[j].retryCount = jobs[j].retryCount
  PROVE  Phase' = Phase /\ Failures' = Failures
BY DEF Phase, Failures

\* The end of a claim changes one row.
LEMMA TransitionEffect ==
  ASSUME StoreTypeOK, NEW j \in Jobs, NEW t, NEW s, NEW n, NEW at,
         TransitionClaim(j, t, s, n, at)
  PROVE  /\ Phase[j] = "in_progress"
         /\ Phase' = [Phase EXCEPT ![j] = s]
         /\ Failures' = [Failures EXCEPT ![j] = n]
<1>1. /\ jobs[j].status = "in_progress"
      /\ jobs' = [jobs EXCEPT ![j] = [Unclaimed(jobs[j]) EXCEPT
                                        !.status = s, !.retryCount = n,
                                        !.availableAt = at]]
  BY DEF TransitionClaim, JobOwned
<1>2. jobs \in [Jobs -> Job] /\ Unclaimed(jobs[j]) \in Job
  BY UnclaimedType DEF StoreTypeOK
<1>3. /\ jobs'[j].status = s /\ jobs'[j].retryCount = n
      /\ \A k \in Jobs : k # j => jobs'[k] = jobs[k]
  BY <1>1, <1>2 DEF Job
<1>4. Phase' = [Phase EXCEPT ![j] = s]
  BY <1>3 DEF Phase
<1>5. Failures' = [Failures EXCEPT ![j] = n]
  BY <1>3 DEF Failures
<1>6. QED
  BY <1>1, <1>4, <1>5 DEF Phase

\* What the recovery of a claim makes of a row, in the terms of the queue.
LEMMA RecoveredPhase ==
  ASSUME StoreTypeOK, NEW now, NEW j \in Jobs
  PROVE  LET row == Recovered(now)[j]
         IN  IF LeaseExpired(j, now)
               THEN /\ row.status = IF jobs[j].retryCount < MaxRetries
                                      THEN "queued" ELSE "failed"
                    /\ row.retryCount = jobs[j].retryCount + 1
               ELSE row = jobs[j]
<1>1. /\ Unclaimed(jobs[j]) \in Job
      /\ Unclaimed(jobs[j]).retryCount = jobs[j].retryCount
      /\ jobs[j].retryCount \in Nat
  BY UnclaimedType DEF StoreTypeOK, Job
<1>2. jobs[j].retryCount + 1 <= MaxRetries <=> jobs[j].retryCount < MaxRetries
  BY <1>1, StoreAssumption
<1>3. /\ RecoveredRow(jobs[j], now).status =
            IF jobs[j].retryCount < MaxRetries THEN "queued" ELSE "failed"
      /\ RecoveredRow(jobs[j], now).retryCount = jobs[j].retryCount + 1
  BY <1>1, <1>2 DEF RecoveredRow, Job
<1>4. QED
  BY <1>3 DEF Recovered

\* If every job under review has lost its lease, the recovery is LoseReview.
LEMMA RecoveryLosesReview ==
  ASSUME StoreTypeOK, NEW now, NEW k \in Jobs,
         \A j \in Jobs : jobs[j].status = "in_progress" => LeaseExpired(j, now)
  PROVE  /\ Recovered(now)[k].status = Queue!PhaseIfLost(k)
         /\ Recovered(now)[k].retryCount =
              IF k \in Queue!Reviewing THEN Failures[k] + 1 ELSE Failures[k]
<1>1. LeaseExpired(k, now) <=> jobs[k].status = "in_progress"
  BY DEF LeaseExpired
<1>2. QED
  BY <1>1, RecoveredPhase DEF Queue!PhaseIfLost, Queue!Reviewing, Failures

LEMMA ClaimStartsReview ==
  ASSUME StoreTypeOK, NEW j \in Jobs, NEW t, NEW now \in Nat, ClaimNext(j, t, now)
  PROVE  Queue!StartReview(j)
<1>1. /\ ~ActiveLease(now)
      /\ Recovered(now)[j].status = "queued"
      /\ jobs' = [Recovered(now) EXCEPT ![j].status = "in_progress",
                                        ![j].token = t,
                                        ![j].expiresAt = now + Lease]
  BY DEF ClaimNext, First, Eligible
<1>2. Recovered(now) \in [Jobs -> Job] /\ jobs \in [Jobs -> Job]
  BY RecoveredType DEF StoreTypeOK
<1>3. \A k \in Jobs : jobs[k].status = "in_progress" => LeaseExpired(k, now)
  BY <1>1, <1>2 DEF ActiveLease, LeaseExpired, Job
<1>4. \A k \in Jobs :
        /\ jobs'[k].status = IF k = j THEN "in_progress"
                                      ELSE Recovered(now)[k].status
        /\ jobs'[k].retryCount = Recovered(now)[k].retryCount
  BY <1>1, <1>2 DEF Job
<1>5. \A k \in Jobs :
        /\ Recovered(now)[k].status = Queue!PhaseIfLost(k)
        /\ Recovered(now)[k].retryCount =
             IF k \in Queue!Reviewing THEN Failures[k] + 1 ELSE Failures[k]
  BY <1>3, RecoveryLosesReview
<1>6. Queue!PhaseIfLost(j) = "queued"
  BY <1>1, <1>5
<1>7. Phase' = [k \in Jobs |-> IF k = j THEN "in_progress"
                                        ELSE Queue!PhaseIfLost(k)]
  BY <1>4, <1>5 DEF Phase
<1>8. Failures' = [k \in Jobs |-> IF k \in Queue!Reviewing
                                    THEN Failures[k] + 1 ELSE Failures[k]]
  BY <1>4, <1>5 DEF Failures
<1>9. QED
  BY <1>6, <1>7, <1>8 DEF Queue!StartReview, Queue!CountLost, Phase, Failures

\* A claim that returns nothing gives up on the review whose lease has expired,
\* if there is one.
LEMMA ClaimNoneLosesReview ==
  ASSUME StoreTypeOK, OneActiveReview, NEW now \in Nat, jobs' = Recovered(now)
  PROVE  Queue!LoseReview \/ (Phase' = Phase /\ Failures' = Failures)
<1>1. CASE \E k \in Jobs : jobs[k].status = "in_progress" /\ ~LeaseExpired(k, now)
  <2>1. \A j \in Jobs : ~LeaseExpired(j, now)
    BY <1>1 DEF OneActiveReview, LeaseExpired
  <2>2. \A j \in Jobs : jobs'[j] = jobs[j]
    BY <2>1, RecoveredPhase
  <2>3. QED
    BY <2>2, SamePhases
<1>2. CASE \A k \in Jobs : jobs[k].status = "in_progress" => LeaseExpired(k, now)
  <2>1. \A k \in Jobs :
          /\ jobs'[k].status = Queue!PhaseIfLost(k)
          /\ jobs'[k].retryCount =
               IF k \in Queue!Reviewing THEN Failures[k] + 1 ELSE Failures[k]
    BY <1>2, RecoveryLosesReview
  <2>2. Phase' = [k \in Jobs |-> Queue!PhaseIfLost(k)]
    BY <2>1 DEF Phase
  <2>3. Failures' = [k \in Jobs |-> IF k \in Queue!Reviewing
                                      THEN Failures[k] + 1 ELSE Failures[k]]
    BY <2>1 DEF Failures
  <2>4. QED
    BY <2>2, <2>3 DEF Queue!LoseReview, Queue!CountLost, Phase, Failures
<1>3. QED
  BY <1>1, <1>2

\* The ways a review of j ends in the abstract queue, unless it is given back.
ReviewEnds(j) == Queue!Complete(j) \/ Queue!EndUnsuccessfully(j)

\* A release gives the review back; the other steps of an attempt end it or
\* leave the queue alone.

LEMMA AttemptStepIsMove ==
  ASSUME TypeInv, NEW t \in Tokens, AttemptStep(t),
         NEW j \in Jobs, j = attempts[t].job
  PROVE  \/ GoTo(t, "released") /\ Queue!GiveBack(j)
         \/ /\ End(t) \/ \E pc \in LivePc : GoTo(t, pc)
            /\ ReviewEnds(j) \/ (Phase' = Phase /\ Failures' = Failures)
<1>1. /\ StoreTypeOK
      /\ jobs[j].retryCount \in Nat /\ MaxRetries \in Nat
      /\ Failures[j] = jobs[j].retryCount
  BY StoreAssumption DEF TypeInv, RunnerTypeOK, StoreTypeOK, Job, Failures
<1>2. ASSUME NEW s, NEW at, TransitionClaim(j, t, s, jobs[j].retryCount, at)
      PROVE  /\ Phase[j] = "in_progress"
             /\ Phase' = [Phase EXCEPT ![j] = s]
             /\ Failures' = Failures
  <2>1. /\ Phase[j] = "in_progress"
        /\ Phase' = [Phase EXCEPT ![j] = s]
        /\ Failures' = [Failures EXCEPT ![j] = jobs[j].retryCount]
    BY <1>1, <1>2, TransitionEffect
  <2>2. [Failures EXCEPT ![j] = jobs[j].retryCount] = Failures
    BY <1>1 DEF Failures
  <2>3. QED
    BY <2>1, <2>2
<1>3. CASE ReleaseClaim(t)
  <2>1. CASE UNCHANGED jobs /\ End(t)
    BY <2>1, SamePhases
  <2>2. CASE /\ TransitionClaim(j, t, "queued", jobs[j].retryCount,
                                jobs[j].availableAt)
             /\ GoTo(t, "released")
    <3>1. Queue!GiveBack(j)
      BY <1>2, <2>2 DEF Queue!GiveBack, Phase, Failures
    <3>2. QED
      BY <2>2, <3>1
  <2>3. QED
    BY <1>3, <2>1, <2>2 DEF ReleaseClaim
<1>4. CASE CommitJob(t)
  <2>1. TransitionClaim(j, t, "completed", jobs[j].retryCount, jobs[j].availableAt)
    BY <1>4 DEF CommitJob
  <2>2. Queue!Complete(j)
    BY <1>2, <2>1 DEF Queue!Complete, Phase, Failures
  <2>3. QED
    BY <1>4, <2>2 DEF ReviewEnds, CommitJob
<1>5. ASSUME NEW s \in {"queued", "failed", "cancelled"}, NEW at,
             s = "queued" => jobs[j].retryCount < MaxRetries,
             TransitionClaim(j, t, s, jobs[j].retryCount + 1, at)
      PROVE  Queue!EndUnsuccessfully(j)
  <2>1. /\ Phase[j] = "in_progress"
        /\ Phase' = [Phase EXCEPT ![j] = s]
        /\ Failures' = [Failures EXCEPT ![j] = jobs[j].retryCount + 1]
    BY <1>1, <1>5, TransitionEffect
  <2>2. Failures' = [Failures EXCEPT ![j] = @ + 1]
    BY <1>1, <2>1
  <2>3. QED
    BY <1>1, <1>5, <2>1, <2>2 DEF Queue!EndUnsuccessfully, Phase, Failures
<1>6. CASE CancelJob(t)
  <2>1. TransitionClaim(j, t, "cancelled", jobs[j].retryCount + 1,
                        jobs[j].availableAt)
    BY <1>6 DEF CancelJob
  <2>2. Queue!EndUnsuccessfully(j)
    BY <1>5, <2>1
  <2>3. QED
    BY <1>6, <2>2 DEF ReviewEnds, CancelJob
<1>7. CASE RetireJob(t)
  <2>1. jobs[j].retryCount + 1 <= MaxRetries => jobs[j].retryCount < MaxRetries
    BY <1>1
  <2>2. \/ /\ jobs[j].retryCount + 1 <= MaxRetries
           /\ \E at : TransitionClaim(j, t, "queued", jobs[j].retryCount + 1, at)
        \/ \E at : TransitionClaim(j, t, "failed", jobs[j].retryCount + 1, at)
    BY <1>7 DEF RetireJob
  <2>3. Queue!EndUnsuccessfully(j)
    BY <1>5, <2>1, <2>2
  <2>4. QED
    BY <1>7, <2>3 DEF ReviewEnds, RetireJob
<1>8. CASE CreateRun(t)
  <2>1. \A k \in Jobs : /\ jobs'[k].status = jobs[k].status
                        /\ jobs'[k].retryCount = jobs[k].retryCount
    BY <1>1, <1>8 DEF CreateRun, CreateRunForClaim, StoreTypeOK, Job
  <2>2. QED
    BY <1>8, <2>1, SamePhases DEF CreateRun, LivePc
<1>9. CASE \/ StartAttempt(t) \/ FailBeforeRun(t) \/ LeaseLost(t)
           \/ UnexpectedError(t) \/ CompleteRun(t) \/ FailRun(t)
  <2>1. jobs' = jobs /\ (End(t) \/ \E pc \in LivePc : GoTo(t, pc))
    BY <1>9 DEF StartAttempt, FailBeforeRun, LeaseLost, UnexpectedError,
       CompleteRun, FailRun, TransitionRunForClaim, LivePc
  <2>2. QED
    BY <2>1, SamePhases
<1>10. QED
  BY <1>3, <1>4, <1>6, <1>7, <1>8, <1>9 DEF AttemptStep

LEMMA MaintenanceIsMove ==
  ASSUME ClaimInv, NEW w \in Workers, RunnerTick(w), ~RunnerClaim(w)
  PROVE  \/ \E batch \in SUBSET Jobs : Queue!Expire(batch)
         \/ Queue!LoseReview
         \/ Phase' = Phase /\ Failures' = Failures
<1>1. StoreTypeOK /\ OneActiveReview
  BY DEF ClaimInv, TypeInv, RunnerTypeOK
<1>2. CASE RunnerExpire(w)
  <2>1. PICK now \in CallTimes : ExpireQueued(now)
    BY <1>2 DEF RunnerExpire
  <2>2. PICK batch \in Limited(TooOld(now), ExpireLimit) :
          jobs' = [j \in Jobs |->
                     IF j \in batch
                       THEN [Unclaimed(jobs[j]) EXCEPT !.status = "expired"]
                       ELSE jobs[j]]
    BY <2>1 DEF ExpireQueued
  <2>3. batch \in SUBSET Jobs /\ \A j \in batch : jobs[j].status = "queued"
    BY DEF Limited, TooOld
  <2>4. \A j \in Jobs : /\ Unclaimed(jobs[j]) \in Job
                        /\ Unclaimed(jobs[j]).retryCount = jobs[j].retryCount
    BY <1>1, UnclaimedType DEF StoreTypeOK
  <2>5. \A j \in Jobs :
          /\ jobs'[j].status = IF j \in batch THEN "expired" ELSE jobs[j].status
          /\ jobs'[j].retryCount = jobs[j].retryCount
    BY <2>2, <2>4 DEF Job
  <2>6. /\ Phase' = [j \in Jobs |-> IF j \in batch THEN "expired" ELSE Phase[j]]
        /\ Failures' = Failures
    BY <2>5 DEF Phase, Failures
  <2>7. Queue!Expire(batch)
    BY <2>3, <2>6 DEF Queue!Expire, Phase, Failures
  <2>8. QED
    BY <2>3, <2>7
<1>3. CASE RunnerClaimNone(w)
  BY <1>1, <1>3, CallTimesType, ClaimNoneLosesReview DEF RunnerClaimNone, ClaimNone
<1>4. CASE UNCHANGED jobs
  BY <1>4, SamePhases
<1>5. QED
  BY <1>2, <1>3, <1>4
     DEF RunnerTick, RunnerReconcile, ReconcileOrphanedRuns, RunnerSkipClaim

\* A job that was never enqueued has no retries: without it the insertion of its
\* row could forget some.
AbsentIsNew == \A j \in Jobs : Phase[j] = "absent" => Failures[j] = 0

LEMMA EnqueueSubmits ==
  ASSUME TypeInv, AbsentIsNew, NEW j \in Jobs, Enqueue(j)
  PROVE  Queue!Submit(j)
<1>1. PICK delay \in 0..MaxDebounce : Insert(j, delay)
  BY DEF Enqueue
<1>2. /\ jobs[j].status = "absent" /\ jobs \in [Jobs -> Job]
      /\ jobs[j].retryCount = 0
  BY <1>1 DEF Insert, TypeInv, RunnerTypeOK, StoreTypeOK, AbsentIsNew, Phase, Failures
<1>3. /\ jobs'[j].status = "queued" /\ jobs'[j].retryCount = 0
      /\ \A k \in Jobs : k # j => jobs'[k] = jobs[k]
  BY <1>1, <1>2 DEF Insert, NoJob
<1>4. Phase' = [Phase EXCEPT ![j] = "queued"] /\ Phase[j] = "absent"
  BY <1>2, <1>3 DEF Phase
<1>5. Failures' = Failures
  BY <1>2, <1>3 DEF Failures
<1>6. QED
  BY <1>4, <1>5 DEF Queue!Submit, Phase, Failures

\* Every step of the runners is a move of the queue or changes nothing in it.
LEMMA NextIsMove ==
  ASSUME ClaimInv, AbsentIsNew, [Next]_vars
  PROVE  Queue!Next \/ (Phase' = Phase /\ Failures' = Failures)
<1>1. TypeInv /\ jobs \in [Jobs -> Job]
  BY DEF ClaimInv, TypeInv, RunnerTypeOK, StoreTypeOK
<1>2. ASSUME NEW j \in Jobs, Enqueue(j)
      PROVE  Queue!Next
  BY <1>1, <1>2, EnqueueSubmits DEF Queue!Next
<1>3. ASSUME NEW w \in Workers, RunnerTick(w)
      PROVE  Queue!Next \/ (Phase' = Phase /\ Failures' = Failures)
  <2>1. CASE RunnerClaim(w)
    <3>1. PICK j \in Jobs, now \in CallTimes : \E t \in Tokens : ClaimNext(j, t, now)
      BY <2>1 DEF RunnerClaim
    <3>2. Queue!StartReview(j)
      BY <1>1, <3>1, CallTimesType, ClaimStartsReview DEF TypeInv, RunnerTypeOK
    <3>3. QED
      BY <3>2 DEF Queue!Next
  <2>2. CASE ~RunnerClaim(w)
    BY <1>3, <2>2, MaintenanceIsMove DEF Queue!Next
  <2>3. QED
    BY <2>1, <2>2
<1>4. ASSUME NEW t \in Tokens, AttemptStep(t)
      PROVE  Queue!Next \/ (Phase' = Phase /\ Failures' = Failures)
  <2>1. PICK j \in Jobs : j = attempts[t].job
    BY <1>1, <1>4, StepJob
  <2>2. ReviewEnds(j) \/ Queue!GiveBack(j) => Queue!Next
    BY DEF ReviewEnds, Queue!Next
  <2>3. QED
    BY <1>1, <1>4, <2>1, <2>2, AttemptStepIsMove
<1>5. ASSUME NEW t \in Tokens, Heartbeat(t)
      PROVE  Phase' = Phase /\ Failures' = Failures
  <2>1. \A j \in Jobs : /\ jobs'[j].status = jobs[j].status
                        /\ jobs'[j].retryCount = jobs[j].retryCount
    BY <1>1, <1>5 DEF Heartbeat, BeatSend, BeatRenew, BeatRefused, BeatError,
       BeatReturn, RenewClaim, Job
  <2>2. QED
    BY <2>1, SamePhases
<1>6. CASE UNCHANGED jobs
  BY <1>6, SamePhases
<1>7. QED
  BY <1>2, <1>3, <1>4, <1>5, <1>6
     DEF Next, vars, Tick, FailTick, Crash, Stop, Restart

LEMMA AbsentIsNewStep ==
  ASSUME ClaimInv, AbsentIsNew, [Next]_vars
  PROVE  AbsentIsNew'
<1>1. CASE Phase' = Phase /\ Failures' = Failures
  BY <1>1 DEF AbsentIsNew
<1>2. CASE Queue!Next
  <2>1. \A j \in Jobs : Phase'[j] = "absent" =>
          Phase[j] = "absent" /\ Failures'[j] = Failures[j]
    BY <1>2 DEF Queue!Next, Queue!Submit, Queue!Complete, Queue!GiveBack,
       Queue!EndUnsuccessfully, Queue!StartReview, Queue!Expire, Queue!LoseReview,
       Queue!CountLost, Queue!PhaseIfLost, Queue!Reviewing, Phase, Failures
  <2>2. QED
    BY <2>1 DEF AbsentIsNew
<1>3. QED
  BY <1>1, <1>2, NextIsMove

LEMMA AbsentInvariant == Spec => []AbsentIsNew
<1>1. Init => AbsentIsNew
  BY DEF Init, StoreInit, NoJob, AbsentIsNew, Phase, Failures
<1>2. QED
  BY <1>1, AbsentIsNewStep, ClaimInvariant, PTL DEF Spec

\* The store and the runners keep the promise of the abstract queue, for any
\* number of processes, jobs and tokens and any timing: one review at a time, a
\* budget of unsuccessful ones, and reviews that end or give their job back.
THEOREM QueueImplemented == Spec => ImplementsReviewQueue
<1>1. Init => Queue!Init
  BY DEF Init, StoreInit, NoJob, Queue!Init
<1>2. ClaimInv /\ AbsentIsNew /\ [Next]_vars => [Queue!Next]_(Queue!queueVars)
  BY NextIsMove DEF Queue!queueVars, Phase, Failures
<1>3. QED
  BY <1>1, <1>2, ClaimInvariant, AbsentInvariant, PTL
     DEF Spec, ImplementsReviewQueue, Queue!Spec

\* A job that reached a terminal status keeps it, whatever a late attempt, the
\* recovery of a lease or the expiry pass does.
THEOREM OutcomesFinal == Spec => TerminalIsFinal
<1> DEFINE Kept == \A j \in Jobs : jobs[j].status \in Terminal
                                   => jobs'[j].status = jobs[j].status
<1>1. ASSUME ClaimInv, AbsentIsNew, [Next]_vars
      PROVE  Kept
  <2>1. CASE Phase' = Phase
    BY <2>1 DEF Phase
  <2>2. CASE Queue!Next
    <3>1. \A j \in Jobs : Phase[j] \in Terminal => Phase'[j] = Phase[j]
      BY <2>2 DEF Queue!Next, Queue!Submit, Queue!Complete, Queue!GiveBack,
         Queue!EndUnsuccessfully, Queue!StartReview, Queue!Expire, Queue!LoseReview,
         Queue!PhaseIfLost, Queue!Reviewing, Phase, Terminal
    <3>2. QED
      BY <3>1 DEF Phase
  <2>3. QED
    BY <1>1, <2>1, <2>2, NextIsMove
<1>2. ClaimInv /\ AbsentIsNew /\ [Next]_vars => [Kept]_jobs
  BY <1>1
<1>3. QED
  BY <1>2, ClaimInvariant, AbsentInvariant, PTL DEF Spec, TerminalIsFinal



----------------------------------------------------------------------------
(* A completed job has a completed run *)

\* An attempt has no run before it creates one: else the creation could
\* overwrite the run of a job that has completed.
RunFresh(t) ==
  attempts[t].pc \in {"unused", "claimed", "preparing"} => runs[t].status = "absent"

\* While the stored claim of an attempt holds, its job names its run, and the
\* run stays completed once the attempt has completed it.
RunLinked(t) ==
  attempts[t].pc \in {"running", "committing"} /\ Owned(t) =>
    /\ jobs[attempts[t].job].latestRun = t
    /\ attempts[t].pc = "committing" =>
         runs[t] = [status |-> "completed", job |-> attempts[t].job]

RunInv == \A t \in Tokens : RunFresh(t) /\ RunLinked(t)

OutcomeInv == RunInv /\ CompletedJobHasCompletedRun

\* A token keeps its part of RunInv in a step that leaves its attempt, its run
\* and, as long as it owns it, its job alone.
LEMMA TokenKept ==
  ASSUME NEW t \in Tokens, RunFresh(t), RunLinked(t),
         attempts'[t].pc = attempts[t].pc, attempts'[t].job = attempts[t].job,
         runs[t].status = "absent" => runs'[t] = runs[t],
         Owned(t)' =>
           /\ Owned(t)
           /\ jobs'[attempts[t].job].latestRun = jobs[attempts[t].job].latestRun
           /\ attempts[t].pc = "committing" => runs'[t] = runs[t]
  PROVE  RunFresh(t)' /\ RunLinked(t)'
<1>1. RunFresh(t)'
  BY DEF RunFresh
<1>2. RunLinked(t)'
  <2>1. CASE Owned(t)'
    BY <2>1 DEF RunLinked
  <2>2. CASE ~Owned(t)'
    BY <2>2 DEF RunLinked
  <2>3. QED
    BY <2>1, <2>2
<1>3. QED
  BY <1>1, <1>2

\* An attempt that is over.
LEMMA TokenOver ==
  ASSUME NEW t \in Tokens, attempts'[t].pc \in {"done", "released"}
  PROVE  RunFresh(t)' /\ RunLinked(t)'
BY DEF RunFresh, RunLinked

\* A completed job keeps its row and its completed run.
LEMMA CompletedKept ==
  ASSUME CompletedJobHasCompletedRun, StoreTypeOK,
         \A j \in Jobs : jobs'[j].status = "completed" => jobs'[j] = jobs[j],
         \A t \in Tokens :
           /\ runs[t].status = "completed" /\ runs[t].job \in Jobs
           /\ jobs[runs[t].job].status = "completed"
           => runs'[t] = runs[t]
  PROVE  CompletedJobHasCompletedRun'
<1>1. SUFFICES ASSUME NEW j \in Jobs, jobs'[j].status = "completed"
               PROVE  /\ jobs'[j].latestRun # None
                      /\ runs'[jobs'[j].latestRun] =
                           [status |-> "completed", job |-> j]
  BY DEF CompletedJobHasCompletedRun
<1>2. /\ jobs'[j] = jobs[j] /\ jobs[j].latestRun # None
      /\ runs[jobs[j].latestRun] = [status |-> "completed", job |-> j]
      /\ jobs[j].latestRun \in Tokens
  BY <1>1 DEF CompletedJobHasCompletedRun, StoreTypeOK, Job
<1>3. runs'[jobs[j].latestRun] = runs[jobs[j].latestRun]
  BY <1>1, <1>2
<1>4. QED
  BY <1>2, <1>3

\* What admission, expiry, recovery and claims write in a row: they leave a
\* completed row alone, and give a row they write a fresh token or none.
RowMaintained(j) ==
  \/ jobs'[j] = jobs[j]
  \/ /\ jobs'[j].status # "completed" /\ jobs[j].status # "completed"
     /\ \/ jobs'[j].token = None
        \/ \E t \in Tokens : /\ attempts[t].pc = "unused"
                             /\ jobs'[j].token = t
                             /\ jobs'[j].status = "in_progress"

LEMMA RecoveredMaintained ==
  ASSUME StoreTypeOK, NEW now, NEW j \in Jobs, Recovered(now)[j] # jobs[j]
  PROVE  /\ Recovered(now)[j].status \in {"queued", "failed"}
         /\ Recovered(now)[j].token = None
         /\ jobs[j].status = "in_progress"
<1>1. LeaseExpired(j, now) /\ Recovered(now)[j] = RecoveredRow(jobs[j], now)
  BY DEF Recovered
<1>2. jobs[j] \in Job
  BY DEF StoreTypeOK
<1>3. QED
  BY <1>1, <1>2 DEF RecoveredRow, Unclaimed, Job, LeaseExpired

LEMMA Maintained ==
  ASSUME StoreTypeOK, NEW j \in Jobs,
         \/ \E k \in Jobs : Enqueue(k)
         \/ \E w \in Workers : RunnerTick(w)
  PROVE  RowMaintained(j)
<1>1. jobs \in [Jobs -> Job]
  BY DEF StoreTypeOK
<1>2. ASSUME NEW k \in Jobs, Enqueue(k)
      PROVE  RowMaintained(j)
  BY <1>1, <1>2 DEF Enqueue, Insert, NoJob, RowMaintained
<1>3. ASSUME NEW now, ExpireQueued(now)
      PROVE  RowMaintained(j)
  <2>1. PICK batch \in Limited(TooOld(now), ExpireLimit) :
          jobs' = [k \in Jobs |->
                     IF k \in batch
                       THEN [Unclaimed(jobs[k]) EXCEPT !.status = "expired"]
                       ELSE jobs[k]]
    BY <1>3 DEF ExpireQueued
  <2>2. \A k \in batch : jobs[k].status = "queued"
    BY DEF Limited, TooOld
  <2>3. QED
    BY <1>1, <2>1, <2>2 DEF RowMaintained, Unclaimed, Job
<1>4. ASSUME NEW now, jobs'[j] = Recovered(now)[j]
      PROVE  RowMaintained(j)
  BY <1>4, RecoveredMaintained DEF RowMaintained
<1>5. ASSUME NEW k \in Jobs, NEW t \in Tokens, NEW now \in CallTimes,
             attempts[t].pc = "unused", ClaimNext(k, t, now)
      PROVE  RowMaintained(j)
  <2>1. /\ Recovered(now)[k].status = "queued"
        /\ jobs' = [Recovered(now) EXCEPT ![k].status = "in_progress",
                                          ![k].token = t,
                                          ![k].expiresAt = now + Lease]
    BY <1>5 DEF ClaimNext, First, Eligible
  <2>2. Recovered(now) \in [Jobs -> Job]
    BY RecoveredType, CallTimesType
  <2>3. CASE j = k
    <3>1. /\ jobs'[j].status = "in_progress" /\ jobs'[j].token = t
          /\ jobs[j].status # "completed"
      BY <2>1, <2>2, <2>3, RecoveredMaintained DEF Job
    <3>2. QED
      BY <1>5, <3>1 DEF RowMaintained
  <2>4. CASE j # k
    BY <1>4, <2>1, <2>2, <2>4
  <2>5. QED
    BY <2>3, <2>4
<1>6. CASE jobs' = jobs
  BY <1>6 DEF RowMaintained
<1>7. QED
  BY <1>2, <1>3, <1>4, <1>5, <1>6 DEF RunnerTick, RunnerExpire, RunnerReconcile,
     ReconcileOrphanedRuns, RunnerSkipClaim, RunnerClaim, RunnerClaimNone, ClaimNone

\* A token that owns its job after such a step owned it before, by the same row.
LEMMA OwnedMaintained ==
  ASSUME TypeInv, NEW t \in Tokens, attempts[t].pc # "unused", clock' = clock,
         attempts'[t].job = attempts[t].job,
         \A j \in Jobs : RowMaintained(j), Owned(t)'
  PROVE  Owned(t) /\ jobs'[attempts[t].job] = jobs[attempts[t].job]
<1>1. attempts[t].job \in Jobs /\ t # None
  BY StoreAssumption DEF TypeInv, JobKnown
<1>2. jobs'[attempts[t].job].token = t
  BY DEF Owned, JobOwned
<1>3. jobs'[attempts[t].job] = jobs[attempts[t].job]
  BY <1>1, <1>2 DEF RowMaintained
<1>4. QED
  BY <1>3 DEF Owned, JobOwned

\* Reconciliation fails no run whose job completed with it or still owns it.
LEMMA ReconcileSpares ==
  ASSUME TypeInv, OutcomeInv, NEW w \in Workers, RunnerReconcile(w), NEW t \in Tokens
  PROVE  /\ runs[t].status = "absent" => runs'[t] = runs[t]
         /\ attempts[t].pc = "committing" /\ Owned(t) => runs'[t] = runs[t]
         /\ runs[t].status = "completed" /\ runs[t].job \in Jobs
            /\ jobs[runs[t].job].status = "completed" => runs'[t] = runs[t]
<1>1. PICK now \in CallTimes : ReconcileOrphanedRuns(now)
  BY DEF RunnerReconcile
<1>2. PICK orphans \in SUBSET OrphanRuns, stale \in SUBSET StaleCompletedRuns(now) :
        runs' = [u \in Tokens |->
                   IF u \in orphans \cup stale
                     THEN [runs[u] EXCEPT !.status = "failed"]
                     ELSE runs[u]]
  BY <1>1 DEF ReconcileOrphanedRuns, Limited
<1>3. runs'[t] # runs[t] =>
        \/ runs[t].status = "in_progress"
        \/ t \in StaleCompletedRuns(now)
  BY <1>2 DEF OrphanRuns, TypeInv, RunnerTypeOK, StoreTypeOK
<1>4. attempts[t].pc = "committing" /\ Owned(t) =>
        runs[t].status = "completed" /\ t \notin StaleCompletedRuns(now)
  <2>1. SUFFICES ASSUME attempts[t].pc = "committing", Owned(t)
                 PROVE  runs[t].status = "completed"
                        /\ t \notin StaleCompletedRuns(now)
    OBVIOUS
  <2>2. runs[t] = [status |-> "completed", job |-> attempts[t].job]
    BY <2>1 DEF OutcomeInv, RunInv, RunLinked
  <2>3. /\ now \in Nat /\ now <= clock /\ clock \in Nat
        /\ attempts[t].job \in Jobs /\ jobs[attempts[t].job].expiresAt \in Nat
    BY <2>1, CallTimesType DEF TypeInv, RunnerTypeOK, StoreTypeOK, JobKnown, Job
  <2>4. QED
    BY <2>1, <2>2, <2>3 DEF StaleCompletedRuns, Owned, JobOwned
<1>5. QED
  BY <1>3, <1>4 DEF StaleCompletedRuns



LEMMA MaintenanceOutcome ==
  ASSUME TypeInv, OutcomeInv,
         \/ \E j \in Jobs : Enqueue(j)
         \/ \E w \in Workers : RunnerTick(w) /\ ~RunnerClaim(w)
  PROVE  OutcomeInv'
<1>1. StoreTypeOK /\ \A j \in Jobs : RowMaintained(j)
  BY Maintained DEF TypeInv, RunnerTypeOK
<1>2. UNCHANGED <<clock, attempts>>
  BY DEF Enqueue, RunnerTick, RunnerExpire, RunnerReconcile, RunnerSkipClaim,
         RunnerClaimNone
<1>3. runs' = runs \/ \E w \in Workers : RunnerReconcile(w)
  BY DEF Enqueue, Insert, RunnerTick, RunnerExpire, ExpireQueued, RunnerSkipClaim,
         RunnerClaimNone, ClaimNone
<1>4. ASSUME NEW t \in Tokens
      PROVE  /\ runs[t].status = "absent" => runs'[t] = runs[t]
             /\ attempts[t].pc = "committing" /\ Owned(t) => runs'[t] = runs[t]
             /\ runs[t].status = "completed" /\ runs[t].job \in Jobs
                /\ jobs[runs[t].job].status = "completed" => runs'[t] = runs[t]
  BY <1>3, ReconcileSpares
<1>5. ASSUME NEW t \in Tokens
      PROVE  RunFresh(t)' /\ RunLinked(t)'
  <2>1. RunFresh(t) /\ RunLinked(t)
    BY DEF OutcomeInv, RunInv
  <2>2. CASE attempts[t].pc = "unused"
    BY <1>2, <1>4, <2>1, <2>2 DEF RunFresh, RunLinked
  <2>3. CASE attempts[t].pc # "unused"
    <3>1. Owned(t)' =>
            Owned(t) /\ jobs'[attempts[t].job] = jobs[attempts[t].job]
      BY <1>1, <1>2, <2>3, OwnedMaintained
    <3>2. QED
      BY <1>2, <1>4, <2>1, <3>1, TokenKept
  <2>4. QED
    BY <2>2, <2>3
<1>6. CompletedJobHasCompletedRun'
  <2>1. \A j \in Jobs : jobs'[j].status = "completed" => jobs'[j] = jobs[j]
    BY <1>1 DEF RowMaintained
  <2>2. QED
    BY <1>1, <1>4, <2>1, CompletedKept DEF OutcomeInv
<1>7. QED
  BY <1>5, <1>6 DEF OutcomeInv, RunInv

LEMMA ClaimOutcome ==
  ASSUME TypeInv, OutcomeInv, NEW w \in Workers, RunnerClaim(w)
  PROVE  OutcomeInv'
<1>1. PICK j \in Jobs, t \in Tokens, now \in CallTimes :
        /\ attempts[t].pc = "unused"
        /\ ClaimNext(j, t, now)
        /\ attempts' = [attempts EXCEPT ![t] =
                          [NoAttempt EXCEPT !.pc = "claimed", !.worker = w,
                                            !.job = j, !.deadline = now + Lease]]
  BY DEF RunnerClaim
<1>2. clock' = clock /\ runs' = runs
  BY <1>1 DEF RunnerClaim, ClaimNext
<1>3. attempts \in [Tokens -> Attempt] /\ StoreTypeOK
      /\ \A k \in Jobs : RowMaintained(k)
  BY Maintained DEF TypeInv, RunnerTypeOK, RunnerTick
<1>4. RunFresh(t)' /\ RunLinked(t)'
  <2>1. RunFresh(t) /\ attempts'[t].pc = "claimed"
    BY <1>1, <1>3 DEF OutcomeInv, RunInv, NoAttempt
  <2>2. QED
    BY <1>1, <1>2, <2>1 DEF RunFresh, RunLinked
<1>5. ASSUME NEW u \in Tokens, u # t
      PROVE  RunFresh(u)' /\ RunLinked(u)'
  <2>1. RunFresh(u) /\ RunLinked(u) /\ attempts'[u] = attempts[u]
    BY <1>1, <1>3, <1>5 DEF OutcomeInv, RunInv
  <2>2. CASE attempts[u].pc = "unused"
    BY <1>2, <2>1, <2>2 DEF RunFresh, RunLinked
  <2>3. CASE attempts[u].pc # "unused"
    <3>1. Owned(u)' =>
            Owned(u) /\ jobs'[attempts[u].job] = jobs[attempts[u].job]
      BY <1>2, <1>3, <2>1, <2>3, OwnedMaintained
    <3>2. QED
      BY <1>2, <2>1, <3>1, TokenKept
  <2>4. QED
    BY <2>2, <2>3
<1>6. CompletedJobHasCompletedRun'
  <2>1. \A k \in Jobs : jobs'[k].status = "completed" => jobs'[k] = jobs[k]
    BY <1>3 DEF RowMaintained
  <2>2. QED
    BY <1>2, <1>3, <2>1, CompletedKept DEF OutcomeInv
<1>7. QED
  BY <1>4, <1>5, <1>6 DEF OutcomeInv, RunInv

\* A step of one attempt, as the others see it: their runs are left alone, and a
\* row of another's is only written by who owns it, who keeps it or leaves it.
LEMMA OwnRowWritten ==
  ASSUME TypeInv, NEW t \in Tokens, AttemptStep(t) \/ Heartbeat(t)
  PROVE  /\ clock' = clock
         /\ \A u \in Tokens : u # t => attempts'[u] = attempts[u] /\ runs'[u] = runs[u]
         /\ \A k \in Jobs :
              \/ jobs'[k] = jobs[k]
              \/ /\ k = attempts[t].job /\ Owned(t)
                 /\ jobs'[k].token \in {None, t}
<1>1. /\ jobs \in [Jobs -> Job] /\ attempts \in [Tokens -> Attempt]
      /\ runs \in [Tokens -> Run]
  BY DEF TypeInv, RunnerTypeOK, StoreTypeOK
<1>2. /\ clock' = clock
      /\ \A u \in Tokens : u # t => attempts'[u] = attempts[u]
  BY <1>1 DEF AttemptStep, ReleaseClaim, StartAttempt, CreateRun,
     CompleteRun, CommitJob, FailBeforeRun, FailRun, CancelJob, RetireJob,
     LeaseLost, UnexpectedError, GoTo, End, Heartbeat, BeatSend, BeatRenew,
     BeatRefused, BeatError, BeatReturn, BeatIdle
<1>3. \A u \in Tokens : u # t => runs'[u] = runs[u]
  BY <1>1 DEF AttemptStep, ReleaseClaim, StartAttempt, CreateRun,
     CompleteRun, CommitJob, FailBeforeRun, FailRun, CancelJob, RetireJob,
     LeaseLost, UnexpectedError, Heartbeat, BeatSend, BeatRenew, BeatRefused,
     BeatError, BeatReturn, CreateRunForClaim, TransitionRunForClaim, RenewClaim
<1> DEFINE OwnRow == \A k \in Jobs :
                       \/ jobs'[k] = jobs[k]
                       \/ /\ k = attempts[t].job /\ Owned(t)
                          /\ jobs'[k].token \in {None, t}
<1>4. ASSUME NEW s, NEW n, NEW at, TransitionClaim(attempts[t].job, t, s, n, at)
      PROVE  OwnRow
  BY <1>1, <1>4 DEF TransitionClaim, Unclaimed, Owned, Job
<1>5. ASSUME CreateRunForClaim(attempts[t].job, t)
      PROVE  OwnRow
  BY <1>1, <1>5 DEF CreateRunForClaim, Owned, JobOwned, Job
<1>6. ASSUME NEW expiry, RenewClaim(attempts[t].job, t, expiry)
      PROVE  OwnRow
  BY <1>1, <1>6 DEF RenewClaim, Owned, JobOwned, Job
<1>7. jobs' = jobs => OwnRow
  OBVIOUS
<1>8. OwnRow
  BY <1>4, <1>5, <1>6, <1>7 DEF AttemptStep, ReleaseClaim, StartAttempt,
     CreateRun, CompleteRun, CommitJob, FailBeforeRun, FailRun, CancelJob,
     RetireJob, LeaseLost, UnexpectedError, Heartbeat, BeatSend, BeatRenew,
     BeatRefused, BeatError, BeatReturn, TransitionRunForClaim
<1>9. QED
  BY <1>2, <1>3, <1>8

LEMMA OthersLinked ==
  ASSUME TypeInv, RunInv, NEW t \in Tokens, AttemptStep(t) \/ Heartbeat(t),
         NEW u \in Tokens, u # t
  PROVE  RunFresh(u)' /\ RunLinked(u)'
<1>1. /\ RunFresh(u) /\ RunLinked(u) /\ clock' = clock
      /\ attempts'[u] = attempts[u] /\ runs'[u] = runs[u]
  BY OwnRowWritten DEF RunInv
<1>2. CASE attempts[u].pc = "unused"
  BY <1>1, <1>2 DEF RunFresh, RunLinked
<1>3. CASE attempts[u].pc # "unused"
  <2>1. attempts[u].job \in Jobs /\ u # None
    BY <1>3, StoreAssumption DEF TypeInv, JobKnown
  <2>2. Owned(u)' => Owned(u) /\ jobs'[attempts[u].job] = jobs[attempts[u].job]
    BY <1>1, <2>1, OwnRowWritten DEF Owned, JobOwned
  <2>3. QED
    BY <1>1, <2>2, TokenKept
<1>4. QED
  BY <1>2, <1>3



\* What an attempt's own step makes of its run and its link.
LEMMA OwnLinked ==
  ASSUME TypeInv, RunInv, NEW t \in Tokens, AttemptStep(t)
  PROVE  RunFresh(t)' /\ RunLinked(t)'
<1>1. /\ jobs \in [Jobs -> Job] /\ attempts \in [Tokens -> Attempt]
      /\ runs \in [Tokens -> Run] /\ attempts[t].job \in Jobs
      /\ RunFresh(t) /\ RunLinked(t)
  BY StepJob DEF TypeInv, RunnerTypeOK, StoreTypeOK, RunInv
<1>2. ASSUME NEW pc, GoTo(t, pc)
      PROVE  attempts'[t].pc = pc /\ attempts'[t].job = attempts[t].job
  BY <1>1, <1>2 DEF GoTo, Attempt
<1>3. End(t) => attempts'[t].pc = "done"
  BY <1>1 DEF End, Ended, NoAttempt
<1>4. CASE StartAttempt(t)
  <2>1. attempts[t].pc = "claimed" /\ attempts'[t].pc = "preparing" /\ runs' = runs
    BY <1>2, <1>4 DEF StartAttempt
  <2>2. QED
    BY <1>1, <2>1 DEF RunFresh, RunLinked
<1>5. CASE CreateRun(t)
  <2>1. /\ attempts'[t].pc = "running" /\ attempts'[t].job = attempts[t].job
        /\ jobs' = [jobs EXCEPT ![attempts[t].job].latestRun = t]
    BY <1>2, <1>5 DEF CreateRun, CreateRunForClaim
  <2>2. jobs'[attempts[t].job].latestRun = t
    BY <1>1, <2>1 DEF Job
  <2>3. QED
    BY <2>1, <2>2 DEF RunFresh, RunLinked
<1>6. CASE CompleteRun(t)
  <2>1. /\ attempts[t].pc = "running" /\ Owned(t)
        /\ attempts'[t].pc = "committing" /\ attempts'[t].job = attempts[t].job
        /\ runs[t] = [status |-> "in_progress", job |-> attempts[t].job]
        /\ runs' = [runs EXCEPT ![t].status = "completed"]
        /\ jobs' = jobs
    BY <1>2, <1>6
       DEF CompleteRun, TransitionRunForClaim, RunOwnedInProgress, Owned
  <2>2. runs'[t] = [status |-> "completed", job |-> attempts[t].job]
    BY <1>1, <2>1
  <2>3. QED
    BY <1>1, <2>1, <2>2 DEF RunFresh, RunLinked
<1>7. CASE \/ ReleaseClaim(t) \/ CommitJob(t) \/ FailBeforeRun(t) \/ FailRun(t)
           \/ CancelJob(t) \/ RetireJob(t) \/ LeaseLost(t) \/ UnexpectedError(t)
  <2>1. attempts'[t].pc \in {"done", "released", "cancelling", "retiring"}
    BY <1>2, <1>3, <1>7 DEF ReleaseClaim, CommitJob, FailBeforeRun, FailRun,
       CancelJob, RetireJob, LeaseLost, UnexpectedError
  <2>2. QED
    BY <2>1 DEF RunFresh, RunLinked
<1>8. QED
  BY <1>4, <1>5, <1>6, <1>7 DEF AttemptStep

\* A renewal writes the lease of its own job, and no run.
LEMMA HeartbeatOutcome ==
  ASSUME TypeInv, OutcomeInv, NEW t \in Tokens, Heartbeat(t)
  PROVE  OutcomeInv'
<1>1. /\ jobs \in [Jobs -> Job] /\ attempts \in [Tokens -> Attempt]
      /\ RunFresh(t) /\ RunLinked(t)
  BY DEF TypeInv, RunnerTypeOK, StoreTypeOK, OutcomeInv, RunInv
<1>2. /\ clock' = clock /\ runs' = runs
      /\ attempts'[t].pc = attempts[t].pc /\ attempts'[t].job = attempts[t].job
      /\ \A k \in Jobs : /\ jobs'[k].status = jobs[k].status
                         /\ jobs'[k].token = jobs[k].token
                         /\ jobs'[k].latestRun = jobs[k].latestRun
  BY <1>1 DEF Heartbeat, BeatSend, BeatRenew, BeatRefused, BeatError, BeatReturn,
     BeatIdle, RenewClaim, Attempt, Job
<1>3. jobs' = jobs \/ Owned(t)
  BY DEF Heartbeat, BeatSend, BeatRenew, BeatRefused, BeatError, BeatReturn,
     RenewClaim, Owned
<1>4. RunFresh(t)' /\ RunLinked(t)'
  <2>1. CASE attempts[t].pc = "unused"
    BY <1>1, <1>2, <2>1 DEF RunFresh, RunLinked
  <2>2. CASE attempts[t].pc # "unused"
    <3>1. attempts[t].job \in Jobs
      BY <2>2 DEF TypeInv, JobKnown
    <3>2. Owned(t)' => Owned(t)
      BY <1>2, <1>3 DEF Owned, JobOwned
    <3>3. QED
      BY <1>1, <1>2, <3>1, <3>2, TokenKept
  <2>3. QED
    BY <2>1, <2>2
<1>5. RunInv'
  BY <1>4, OthersLinked DEF OutcomeInv, RunInv
<1>6. CompletedJobHasCompletedRun'
  BY <1>2 DEF OutcomeInv, CompletedJobHasCompletedRun
<1>7. QED
  BY <1>5, <1>6 DEF OutcomeInv

LEMMA AttemptOutcome ==
  ASSUME TypeInv, OutcomeInv, NEW t \in Tokens, AttemptStep(t)
  PROVE  OutcomeInv'
<1>1. RunInv'
  BY OwnLinked, OthersLinked DEF OutcomeInv, RunInv
<1>2. /\ jobs \in [Jobs -> Job] /\ attempts \in [Tokens -> Attempt]
      /\ runs \in [Tokens -> Run] /\ attempts[t].job \in Jobs
      /\ StoreTypeOK
  BY StepJob DEF TypeInv, RunnerTypeOK, StoreTypeOK
<1>3. CASE CommitJob(t)
  <2> DEFINE j == attempts[t].job
  <2>1. /\ TransitionClaim(j, t, "completed",
                           jobs[j].retryCount, jobs[j].availableAt)
        /\ attempts[t].pc = "committing" /\ runs' = runs
    BY <1>3 DEF CommitJob
  <2>2. Owned(t)
    BY <2>1 DEF TransitionClaim, Owned
  <2>3. /\ jobs[j].latestRun = t
        /\ runs[t] = [status |-> "completed", job |-> j]
    BY <2>1, <2>2 DEF OutcomeInv, RunInv, RunLinked
  <2>4. /\ jobs'[j].latestRun = t
        /\ \A k \in Jobs : k # j => jobs'[k] = jobs[k]
    BY <1>2, <2>1, <2>3 DEF TransitionClaim, Unclaimed, Job
  <2>5. t # None
    BY StoreAssumption
  <2>6. CompletedJobHasCompletedRun'
    BY <2>1, <2>3, <2>4, <2>5 DEF OutcomeInv, CompletedJobHasCompletedRun
  <2>7. QED
    BY <1>1, <2>6 DEF OutcomeInv
<1>4. CASE ~CommitJob(t)
  <2>1. \A k \in Jobs : jobs'[k].status = "completed" => jobs'[k] = jobs[k]
    <3>1. ASSUME NEW s \in {"queued", "failed", "cancelled"}, NEW n, NEW at,
                 TransitionClaim(attempts[t].job, t, s, n, at)
          PROVE  \A k \in Jobs : jobs'[k].status = "completed" => jobs'[k] = jobs[k]
      BY <1>2, <3>1 DEF TransitionClaim, Unclaimed, Job
    <3>2. ASSUME CreateRunForClaim(attempts[t].job, t)
          PROVE  \A k \in Jobs : jobs'[k].status = "completed" => jobs'[k] = jobs[k]
      BY <1>2, <3>2 DEF CreateRunForClaim, JobOwned, Job
    <3>3. QED
      BY <1>4, <3>1, <3>2 DEF AttemptStep, ReleaseClaim, StartAttempt, CreateRun,
         CompleteRun, FailBeforeRun, FailRun, CancelJob, RetireJob, LeaseLost,
         UnexpectedError, TransitionRunForClaim
  <2>2. \A u \in Tokens : runs[u].status = "completed" => runs'[u] = runs[u]
    <3>1. \A u \in Tokens : u # t => runs'[u] = runs[u]
      BY OwnRowWritten
    <3>2. ASSUME NEW s, TransitionRunForClaim(attempts[t].job, t, s)
          PROVE  runs[t].status = "in_progress"
      BY <3>2 DEF TransitionRunForClaim, RunOwnedInProgress
    <3>3. CreateRun(t) => runs[t].status = "absent"
      BY DEF CreateRun, OutcomeInv, RunInv, RunFresh
    <3>4. QED
      BY <3>1, <3>2, <3>3 DEF AttemptStep, ReleaseClaim, StartAttempt,
         CompleteRun, CommitJob, FailBeforeRun, FailRun, CancelJob, RetireJob,
         LeaseLost, UnexpectedError
  <2>3. CompletedJobHasCompletedRun'
    BY <1>2, <2>1, <2>2, CompletedKept DEF OutcomeInv
  <2>4. QED
    BY <1>1, <2>3 DEF OutcomeInv
<1>5. QED
  BY <1>3, <1>4

LEMMA CrashOutcome ==
  ASSUME OutcomeInv, NEW w \in Workers, Crash(w)
  PROVE  OutcomeInv'
<1>1. UNCHANGED <<clock, jobs, runs>>
  BY DEF Crash
<1>2. ASSUME NEW t \in Tokens
      PROVE  RunFresh(t)' /\ RunLinked(t)'
  <2>1. RunFresh(t) /\ RunLinked(t)
    BY DEF OutcomeInv, RunInv
  <2>2. attempts'[t] = attempts[t] \/ attempts'[t].pc = "done"
    BY DEF Crash, Ended, NoAttempt
  <2>3. QED
    BY <1>1, <2>1, <2>2 DEF RunFresh, RunLinked, Owned, JobOwned
<1>3. QED
  BY <1>1, <1>2 DEF OutcomeInv, RunInv, CompletedJobHasCompletedRun

LEMMA OutcomeStep ==
  ASSUME TypeInv, OutcomeInv, [Next]_vars
  PROVE  OutcomeInv'
<1>1. CASE UNCHANGED <<jobs, runs, attempts>> /\ (clock' = clock \/ Tick)
  <2>1. ASSUME NEW t \in Tokens
        PROVE  RunFresh(t)' /\ RunLinked(t)'
    <3>1. RunFresh(t) /\ RunLinked(t)
      BY DEF OutcomeInv, RunInv
    <3>2. CASE attempts[t].pc = "unused"
      BY <1>1, <3>1, <3>2 DEF RunFresh, RunLinked
    <3>3. CASE attempts[t].pc # "unused"
      <4>1. jobs[attempts[t].job].expiresAt \in Nat
        BY <3>3 DEF TypeInv, RunnerTypeOK, StoreTypeOK, JobKnown, Job
      <4>2. clock' \in {clock, clock + 1} /\ clock \in Nat
        BY <1>1 DEF Tick, TypeInv, RunnerTypeOK, StoreTypeOK
      <4>3. Owned(t)' => Owned(t)
        BY <1>1, <4>1, <4>2 DEF Owned, JobOwned
      <4>4. QED
        BY <1>1, <3>1, <4>3, TokenKept
    <3>4. QED
      BY <3>2, <3>3
  <2>2. QED
    BY <1>1, <2>1 DEF OutcomeInv, RunInv, CompletedJobHasCompletedRun
<1>2. QED
  BY <1>1, MaintenanceOutcome, ClaimOutcome, HeartbeatOutcome, AttemptOutcome,
     CrashOutcome
     DEF Next, vars, Tick, FailTick, Stop, Restart

LEMMA OutcomeInvariant == Spec => []OutcomeInv
<1>1. Init => OutcomeInv
  BY DEF Init, StoreInit, NoJob, NoRun, NoAttempt, OutcomeInv, RunInv, RunFresh,
     RunLinked, CompletedJobHasCompletedRun
<1>2. QED
  BY <1>1, OutcomeStep, TypeInvariant, PTL DEF Spec

\* The commit order holds in every execution: a job is only ever completed with a
\* completed run of its own, and reconciliation never takes that run away.
THEOREM CompletionIsBacked == Spec => []CompletedJobHasCompletedRun
<1>1. OutcomeInv => CompletedJobHasCompletedRun
  BY DEF OutcomeInv
<1>2. QED
  BY <1>1, OutcomeInvariant, PTL



----------------------------------------------------------------------------
(* Retries are counted *)

\* The reviews of j that have begun and were not given back, as the queue tells.
Used(j) ==
  Failures[j] + (IF Phase[j] \in {"in_progress", "completed"} THEN 1 ELSE 0)

\* A job whose last review failed or was cancelled may have spent one more than
\* the retries that would have given it another.
Budget ==
  \A j \in Jobs :
    Failures[j] <= MaxRetries
                   + (IF Phase[j] \in {"failed", "cancelled"} THEN 1 ELSE 0)

ClaimsCounted ==
  \A j \in Jobs : /\ IsFiniteSet(ClaimsOf(j))
                  /\ Cardinality(ClaimsOf(j)) = Used(j)

\* An unused token is nobody's claim, and a stored claim is counted: else a claim
\* would not add to the claims of its job, or a release not take from them.
UnusedClean == \A t \in Tokens : attempts[t].pc = "unused" => attempts[t].job = None

StoredCounted ==
  \A t \in Tokens, j \in Jobs :
    jobs[j].status = "in_progress" /\ jobs[j].token = t => t \in ClaimsOf(j)

RetryInv == ClaimsCounted /\ Budget /\ UnusedClean /\ StoredCounted

\* The moves of one job, in the terms of the mapped state.
LEMMA MovesOfOne ==
  ASSUME NEW k \in Jobs
  PROVE  /\ Queue!Submit(k) =>
              /\ Phase[k] = "absent" /\ Phase' = [Phase EXCEPT ![k] = "queued"]
              /\ Failures' = Failures
         /\ Queue!Complete(k) =>
              /\ Phase[k] = "in_progress"
              /\ Phase' = [Phase EXCEPT ![k] = "completed"]
              /\ Failures' = Failures
         /\ Queue!GiveBack(k) =>
              /\ Phase[k] = "in_progress"
              /\ Phase' = [Phase EXCEPT ![k] = "queued"]
              /\ Failures' = Failures
         /\ Queue!EndUnsuccessfully(k) =>
              /\ Phase[k] = "in_progress"
              /\ \E next \in {"queued", "failed", "cancelled"} :
                   /\ next = "queued" => Failures[k] < MaxRetries
                   /\ Phase' = [Phase EXCEPT ![k] = next]
              /\ Failures' = [Failures EXCEPT ![k] = Failures[k] + 1]
BY DEF Queue!Submit, Queue!Complete, Queue!GiveBack, Queue!EndUnsuccessfully,
   Phase, Failures

LEMMA MappedType ==
  ASSUME TypeInv
  PROVE  Phase \in [Jobs -> JobStatus] /\ Failures \in [Jobs -> Nat]
BY DEF TypeInv, RunnerTypeOK, StoreTypeOK, Job, Phase, Failures

\* Which moves of the queue use up a review, and that none exceeds the budget.
LEMMA MovesUse ==
  ASSUME TypeInv, NEW j \in Jobs
  PROVE  /\ \A k \in Jobs :
              \/ Queue!Submit(k) \/ ReviewEnds(k) \/ Queue!LoseReview
              \/ \E batch \in SUBSET Jobs : Queue!Expire(batch)
              \/ Phase' = Phase /\ Failures' = Failures
              => Used(j)' = Used(j)
         /\ \A k \in Jobs : Queue!StartReview(k) =>
              Used(j)' = IF j = k THEN Used(j) + 1 ELSE Used(j)
         /\ \A k \in Jobs : Queue!GiveBack(k) =>
              Used(j)' = IF j = k THEN Used(j) - 1 ELSE Used(j)
<1>1. /\ Failures[j] \in Nat
      /\ Phase \in [Jobs -> JobStatus] /\ Failures \in [Jobs -> Nat]
  BY MappedType
<1>2. ASSUME NEW k \in Jobs, Queue!Submit(k) \/ ReviewEnds(k)
      PROVE  Used(j)' = Used(j)
  <2>1. CASE Queue!Submit(k) \/ Queue!Complete(k)
    BY <1>1, <2>1, MovesOfOne DEF Used
  <2>2. CASE Queue!EndUnsuccessfully(k)
    BY <1>1, <2>2, MovesOfOne DEF Used
  <2>3. QED
    BY <1>2, <2>1, <2>2 DEF ReviewEnds
<1>3. Queue!LoseReview => Used(j)' = Used(j)
  BY <1>1 DEF Queue!LoseReview, Queue!CountLost, Queue!PhaseIfLost,
     Queue!Reviewing, Used, Phase, Failures
<1>4. ASSUME NEW batch \in SUBSET Jobs, Queue!Expire(batch)
      PROVE  Used(j)' = Used(j)
  BY <1>1, <1>4 DEF Queue!Expire, Used, Phase, Failures
<1>5. Phase' = Phase /\ Failures' = Failures => Used(j)' = Used(j)
  BY DEF Used
<1>6. ASSUME NEW k \in Jobs, Queue!StartReview(k)
      PROVE  Used(j)' = IF j = k THEN Used(j) + 1 ELSE Used(j)
  BY <1>1, <1>6 DEF Queue!StartReview, Queue!CountLost, Queue!PhaseIfLost,
     Queue!Reviewing, Used, Phase, Failures
<1>7. ASSUME NEW k \in Jobs, Queue!GiveBack(k)
      PROVE  Used(j)' = IF j = k THEN Used(j) - 1 ELSE Used(j)
  BY <1>1, <1>7, MovesOfOne DEF Used
<1>8. QED
  BY <1>2, <1>3, <1>4, <1>5, <1>6, <1>7

LEMMA BudgetKept ==
  ASSUME TypeInv, Budget, Queue!Next \/ (Phase' = Phase /\ Failures' = Failures)
  PROVE  Budget'
<1>1. /\ Phase \in [Jobs -> JobStatus] /\ Failures \in [Jobs -> Nat]
      /\ \A j \in Jobs : Failures[j] \in Nat
  BY MappedType
<1>2. MaxRetries \in Nat
  BY StoreAssumption
<1>3. CASE \E j \in Jobs : Queue!Submit(j) \/ Queue!Complete(j) \/ Queue!GiveBack(j)
  BY <1>1, <1>2, <1>3, MovesOfOne DEF Budget
<1>4. CASE \E j \in Jobs : Queue!EndUnsuccessfully(j)
  BY <1>1, <1>2, <1>4, MovesOfOne DEF Budget
<1>5. CASE \E j \in Jobs : Queue!StartReview(j)
  BY <1>1, <1>2, <1>5 DEF Queue!StartReview, Queue!CountLost, Queue!PhaseIfLost,
     Queue!Reviewing, Budget, Phase, Failures
<1>6. CASE Queue!LoseReview
  BY <1>1, <1>2, <1>6 DEF Queue!LoseReview, Queue!CountLost, Queue!PhaseIfLost,
     Queue!Reviewing, Budget, Phase, Failures
<1>7. CASE \E batch \in SUBSET Jobs : Queue!Expire(batch)
  BY <1>1, <1>2, <1>7 DEF Queue!Expire, Budget, Phase, Failures
<1>8. CASE Phase' = Phase /\ Failures' = Failures
  BY <1>8 DEF Budget
<1>9. QED
  BY <1>3, <1>4, <1>5, <1>6, <1>7, <1>8 DEF Queue!Next

\* Only a claim gives an attempt its job, and only a release takes its claim back.
ClaimsKept ==
  \A t \in Tokens :
    /\ attempts'[t].job = attempts[t].job
    /\ attempts'[t].pc = "unused" <=> attempts[t].pc = "unused"
    /\ attempts'[t].pc = "released" <=> attempts[t].pc = "released"

LEMMA SameClaims ==
  ASSUME ClaimsKept
  PROVE  /\ \A j \in Jobs : ClaimsOf(j)' = ClaimsOf(j)
         /\ UnusedClean => UnusedClean'
BY DEF ClaimsKept, ClaimsOf, UnusedClean

LEMMA HeartbeatKeepsClaims ==
  ASSUME TypeInv, NEW t \in Tokens, Heartbeat(t)
  PROVE  ClaimsKept
BY DEF TypeInv, RunnerTypeOK, Attempt, Heartbeat, BeatSend, BeatRenew, BeatRefused,
   BeatError, BeatReturn, BeatIdle, ClaimsKept

LEMMA CrashKeepsClaims ==
  ASSUME NEW w \in Workers, Crash(w)
  PROVE  ClaimsKept
<1>1. \A t \in Tokens :
        \/ attempts'[t] = attempts[t]
        \/ /\ attempts'[t] = [Ended(attempts[t]) EXCEPT !.beat = "idle",
                                                       !.pending = 0]
           /\ attempts[t].pc \in LivePc \cup {"claimed"}
  BY DEF Crash
<1>2. QED
  BY <1>1 DEF Ended, NoAttempt, LivePc, ClaimsKept

LEMMA StepKeepsClaims ==
  ASSUME TypeInv, NEW t \in Tokens, AttemptStep(t),
         End(t) \/ \E pc \in LivePc : GoTo(t, pc)
  PROVE  ClaimsKept
<1>1. attempts \in [Tokens -> Attempt]
  BY DEF TypeInv, RunnerTypeOK
<1>2. attempts[t].pc \notin {"unused", "released"}
  BY DEF AttemptStep, ReleaseClaim, StartAttempt, CreateRun, CompleteRun, CommitJob,
     FailBeforeRun, FailRun, CancelJob, RetireJob, LeaseLost, UnexpectedError,
     Live, LivePc
<1>3. CASE End(t)
  BY <1>1, <1>2, <1>3 DEF End, Ended, NoAttempt, ClaimsKept
<1>4. ASSUME NEW pc \in LivePc, GoTo(t, pc)
      PROVE  ClaimsKept
  BY <1>1, <1>2, <1>4 DEF GoTo, Attempt, LivePc, ClaimsKept
<1>5. QED
  BY <1>3, <1>4

\* The stored claims stay counted in a step that stores no other.
LEMMA StoredKept ==
  ASSUME StoredCounted, \A j \in Jobs : ClaimsOf(j) \subseteq ClaimsOf(j)',
         \A j \in Jobs, t \in Tokens :
           jobs'[j].status = "in_progress" /\ jobs'[j].token = t =>
             jobs[j].status = "in_progress" /\ jobs[j].token = t
  PROVE  StoredCounted'
BY DEF StoredCounted

\* Steps that neither claim nor release: the claims and the reviews used stay.
LEMMA QuietRetry ==
  ASSUME ClaimInv, RetryInv, AbsentIsNew, [Next]_vars,
         ~\E w \in Workers : RunnerClaim(w),
         ~\E t \in Tokens : AttemptStep(t) /\ GoTo(t, "released")
  PROVE  /\ ClaimsKept
         /\ \A j \in Jobs : Used(j)' = Used(j)
         /\ \A j \in Jobs, t \in Tokens :
              jobs'[j].status = "in_progress" /\ jobs'[j].token = t =>
                jobs[j].status = "in_progress" /\ jobs[j].token = t
<1>1. /\ TypeInv /\ StoreTypeOK /\ jobs \in [Jobs -> Job]
      /\ \A t \in Tokens : t # None
  BY StoreAssumption DEF ClaimInv, TypeInv, RunnerTypeOK, StoreTypeOK
<1> DEFINE NoneStored == \A j \in Jobs, t \in Tokens :
             jobs'[j].status = "in_progress" /\ jobs'[j].token = t =>
               jobs[j].status = "in_progress" /\ jobs[j].token = t
<1>2. ASSUME NEW j \in Jobs, Enqueue(j)
      PROVE  ClaimsKept /\ (\A k \in Jobs : Used(k)' = Used(k)) /\ NoneStored
  <2>1. Queue!Submit(j) /\ attempts' = attempts
    BY <1>1, <1>2, EnqueueSubmits DEF Enqueue
  <2>2. NoneStored
    BY <1>1, <1>2 DEF Enqueue, Insert, NoJob
  <2>3. QED
    BY <1>1, <2>1, <2>2, MovesUse DEF ClaimsKept
<1>3. ASSUME NEW w \in Workers, RunnerTick(w)
      PROVE  ClaimsKept /\ (\A k \in Jobs : Used(k)' = Used(k)) /\ NoneStored
  <2>1. attempts' = attempts
    BY <1>3 DEF RunnerTick, RunnerExpire, RunnerReconcile, RunnerSkipClaim,
       RunnerClaimNone
  <2>2. \A j \in Jobs : jobs'[j] = jobs[j] \/ jobs'[j].status # "in_progress"
    <3>1. ASSUME NEW now, ExpireQueued(now), NEW j \in Jobs
          PROVE  jobs'[j] = jobs[j] \/ jobs'[j].status # "in_progress"
      BY <1>1, <3>1 DEF ExpireQueued, Unclaimed, Job
    <3>2. ASSUME NEW now, ClaimNone(now), NEW j \in Jobs
          PROVE  jobs'[j] = jobs[j] \/ jobs'[j].status # "in_progress"
      BY <1>1, <3>2, RecoveredMaintained DEF ClaimNone
    <3>3. QED
      BY <1>3, <3>1, <3>2 DEF RunnerTick, RunnerExpire, RunnerReconcile,
         ReconcileOrphanedRuns, RunnerSkipClaim, RunnerClaimNone
  <2>3. \A k \in Jobs : Used(k)' = Used(k)
    <3>1. \/ \E batch \in SUBSET Jobs : Queue!Expire(batch)
          \/ Queue!LoseReview
          \/ Phase' = Phase /\ Failures' = Failures
      BY <1>3, MaintenanceIsMove
    <3>2. TAKE k \in Jobs
    <3>3. QED
      BY <1>1, <3>1, MovesUse
  <2>4. QED
    BY <2>1, <2>2, <2>3 DEF ClaimsKept
<1>4. ASSUME NEW t \in Tokens, AttemptStep(t)
      PROVE  ClaimsKept /\ (\A k \in Jobs : Used(k)' = Used(k)) /\ NoneStored
  <2>1. PICK j \in Jobs : j = attempts[t].job
    BY <1>1, <1>4, StepJob
  <2>2. /\ End(t) \/ \E pc \in LivePc : GoTo(t, pc)
        /\ ReviewEnds(j) \/ (Phase' = Phase /\ Failures' = Failures)
    BY <1>1, <1>4, <2>1, AttemptStepIsMove
  <2>3. \A k \in Jobs : Used(k)' = Used(k)
    BY <1>1, <2>2, MovesUse
  <2>4. \A k \in Jobs :
          \/ jobs'[k] = jobs[k]
          \/ Owned(t) /\ k = attempts[t].job /\ jobs'[k].token \in {None, t}
    BY <1>1, <1>4, OwnRowWritten
  <2>5. NoneStored
    BY <1>1, <2>4 DEF Owned, JobOwned
  <2>6. QED
    BY <1>1, <1>4, <2>2, <2>3, <2>5, StepKeepsClaims
<1>5. ASSUME NEW t \in Tokens, Heartbeat(t)
      PROVE  ClaimsKept /\ (\A k \in Jobs : Used(k)' = Used(k)) /\ NoneStored
  <2>1. \A k \in Jobs : /\ jobs'[k].status = jobs[k].status
                        /\ jobs'[k].token = jobs[k].token
                        /\ jobs'[k].retryCount = jobs[k].retryCount
    BY <1>1, <1>5 DEF Heartbeat, BeatSend, BeatRenew, BeatRefused, BeatError,
       BeatReturn, RenewClaim, Job
  <2>2. \A k \in Jobs : Used(k)' = Used(k)
    BY <2>1, SamePhases DEF Used
  <2>3. QED
    BY <1>1, <1>5, <2>1, <2>2, HeartbeatKeepsClaims
<1>6. ASSUME jobs' = jobs, attempts' = attempts \/ \E w \in Workers : Crash(w)
      PROVE  ClaimsKept /\ (\A k \in Jobs : Used(k)' = Used(k)) /\ NoneStored
  <2>1. ClaimsKept
    BY <1>6, CrashKeepsClaims DEF ClaimsKept
  <2>2. QED
    BY <1>6, <2>1 DEF Used, Phase, Failures
<1>7. QED
  BY <1>2, <1>3, <1>4, <1>5, <1>6
     DEF Next, vars, Tick, FailTick, Crash, Stop, Restart

\* A claim adds its token to the claims of its job, and a review to those used.
LEMMA ClaimRetry ==
  ASSUME ClaimInv, RetryInv, NEW w \in Workers, RunnerClaim(w)
  PROVE  ClaimsCounted' /\ UnusedClean' /\ StoredCounted'
<1>1. /\ TypeInv /\ StoreTypeOK /\ jobs \in [Jobs -> Job]
      /\ attempts \in [Tokens -> Attempt] /\ None \notin Jobs
  BY StoreAssumption DEF ClaimInv, TypeInv, RunnerTypeOK, StoreTypeOK
<1>2. PICK j \in Jobs, t \in Tokens, now \in CallTimes :
        /\ attempts[t].pc = "unused"
        /\ ClaimNext(j, t, now)
        /\ attempts' = [attempts EXCEPT ![t] =
                          [NoAttempt EXCEPT !.pc = "claimed", !.worker = w,
                                            !.job = j, !.deadline = now + Lease]]
  BY DEF RunnerClaim
<1>3. /\ attempts'[t].pc = "claimed" /\ attempts'[t].job = j
      /\ \A u \in Tokens : u # t => attempts'[u] = attempts[u]
      /\ attempts[t].job = None
  BY <1>1, <1>2 DEF NoAttempt, RetryInv, UnusedClean
<1>4. \A k \in Jobs : ClaimsOf(k)' = IF k = j THEN ClaimsOf(k) \cup {t} ELSE ClaimsOf(k)
  BY <1>1, <1>3 DEF ClaimsOf
<1>5. t \notin ClaimsOf(j)
  BY <1>1, <1>3 DEF ClaimsOf
<1>6. \A k \in Jobs : Used(k)' = IF k = j THEN Used(k) + 1 ELSE Used(k)
  <2>1. Queue!StartReview(j)
    BY <1>1, <1>2, CallTimesType, ClaimStartsReview
  <2>2. QED
    BY <1>1, <2>1, MovesUse
<1>7. ClaimsCounted'
  <2>1. ASSUME NEW k \in Jobs
        PROVE  IsFiniteSet(ClaimsOf(k)') /\ Cardinality(ClaimsOf(k)') = Used(k)'
    <3>1. IsFiniteSet(ClaimsOf(k)) /\ Cardinality(ClaimsOf(k)) = Used(k)
      BY DEF RetryInv, ClaimsCounted
    <3>2. QED
      BY <1>4, <1>5, <1>6, <3>1, FS_AddElement
  <2>2. QED
    BY <2>1 DEF ClaimsCounted
<1>8. UnusedClean'
  BY <1>3 DEF RetryInv, UnusedClean
<1>9. StoredCounted'
  <2>1. Recovered(now) \in [Jobs -> Job]
    BY <1>1, CallTimesType, RecoveredType
  <2>2. /\ jobs'[j].token = t
        /\ \A k \in Jobs : k # j => jobs'[k] = Recovered(now)[k]
    BY <1>2, <2>1 DEF ClaimNext, Job
  <2>3. \A k \in Jobs : k # j /\ jobs'[k].status = "in_progress" => jobs'[k] = jobs[k]
    BY <1>1, <2>2, RecoveredMaintained
  <2>4. ASSUME NEW k \in Jobs, NEW u \in Tokens,
               jobs'[k].status = "in_progress", jobs'[k].token = u
        PROVE  u \in ClaimsOf(k)'
    BY <1>4, <2>2, <2>3, <2>4 DEF RetryInv, StoredCounted
  <2>5. QED
    BY <2>4 DEF StoredCounted
<1>10. QED
  BY <1>7, <1>8, <1>9

\* A release takes its token from the claims of its job, and gives a review back.
LEMMA ReleaseRetry ==
  ASSUME ClaimInv, RetryInv, NEW t \in Tokens, AttemptStep(t), GoTo(t, "released")
  PROVE  ClaimsCounted' /\ UnusedClean' /\ StoredCounted'
<1>1. /\ TypeInv /\ StoreTypeOK /\ jobs \in [Jobs -> Job]
      /\ attempts \in [Tokens -> Attempt] /\ attempts[t].pc # "unused"
      /\ \A u \in Tokens : u # None
  BY StepJob, StoreAssumption DEF ClaimInv, TypeInv, RunnerTypeOK, StoreTypeOK
<1>2. PICK j \in Jobs : j = attempts[t].job
  BY <1>1, StepJob
<1>3. /\ attempts'[t].pc = "released"
      /\ \A u \in Tokens : /\ attempts'[u].job = attempts[u].job
                           /\ u # t => attempts'[u] = attempts[u]
  BY <1>1 DEF GoTo, Attempt
<1>4. ReleaseClaim(t) /\ ~End(t)
  <2>1. ~End(t)
    BY <1>1, <1>3 DEF End, Ended, NoAttempt
  <2>2. \A pc : GoTo(t, pc) => pc = "released"
    BY <1>1, <1>3 DEF GoTo, Attempt
  <2>3. QED
    BY <2>1, <2>2 DEF AttemptStep, StartAttempt, CreateRun, CompleteRun, CommitJob,
       FailBeforeRun, FailRun, CancelJob, RetireJob, LeaseLost, UnexpectedError
<1>5. /\ TransitionClaim(j, t, "queued", jobs[j].retryCount, jobs[j].availableAt)
      /\ attempts[t].pc = "claimed"
  BY <1>2, <1>4 DEF ReleaseClaim
<1>6. Queue!GiveBack(j)
  <2>1. ~\E pc \in LivePc : GoTo(t, pc)
    BY <1>1, <1>3 DEF GoTo, Attempt, LivePc
  <2>2. QED
    BY <1>1, <1>2, <1>4, <2>1, AttemptStepIsMove
<1>7. \A k \in Jobs : Used(k)' = IF k = j THEN Used(k) - 1 ELSE Used(k)
  BY <1>1, <1>6, MovesUse
<1>8. /\ \A k \in Jobs : ClaimsOf(k)' = IF k = j THEN ClaimsOf(k) \ {t} ELSE ClaimsOf(k)
      /\ t \in ClaimsOf(j)
  BY <1>2, <1>3, <1>5 DEF ClaimsOf
<1>9. ClaimsCounted'
  <2>1. ASSUME NEW k \in Jobs
        PROVE  IsFiniteSet(ClaimsOf(k)') /\ Cardinality(ClaimsOf(k)') = Used(k)'
    <3>1. IsFiniteSet(ClaimsOf(k)) /\ Cardinality(ClaimsOf(k)) = Used(k)
      BY DEF RetryInv, ClaimsCounted
    <3>2. QED
      BY <1>7, <1>8, <3>1, FS_RemoveElement
  <2>2. QED
    BY <2>1 DEF ClaimsCounted
<1>10. UnusedClean'
  BY <1>1, <1>3 DEF RetryInv, UnusedClean
<1>11. StoredCounted'
  <2>1. /\ jobs'[j].status = "queued"
        /\ \A k \in Jobs : k # j => jobs'[k] = jobs[k]
    BY <1>1, <1>5 DEF TransitionClaim, Unclaimed, Job
  <2>2. QED
    BY <1>8, <2>1 DEF RetryInv, StoredCounted
<1>12. QED
  BY <1>9, <1>10, <1>11

LEMMA RetryStep ==
  ASSUME ClaimInv, RetryInv, AbsentIsNew, [Next]_vars
  PROVE  RetryInv'
<1>1. Budget'
  BY BudgetKept, NextIsMove DEF RetryInv, ClaimInv
<1>2. ClaimsCounted' /\ UnusedClean' /\ StoredCounted'
  <2>1. CASE \E w \in Workers : RunnerClaim(w)
    BY <2>1, ClaimRetry
  <2>2. CASE \E t \in Tokens : AttemptStep(t) /\ GoTo(t, "released")
    BY <2>2, ReleaseRetry
  <2>3. CASE /\ ~\E w \in Workers : RunnerClaim(w)
             /\ ~\E t \in Tokens : AttemptStep(t) /\ GoTo(t, "released")
    <3>1. /\ \A j \in Jobs : ClaimsOf(j)' = ClaimsOf(j) /\ Used(j)' = Used(j)
          /\ UnusedClean'
      BY <2>3, QuietRetry, SameClaims DEF RetryInv
    <3>2. StoredCounted'
      BY <2>3, <3>1, QuietRetry, StoredKept DEF RetryInv
    <3>3. QED
      BY <3>1, <3>2 DEF RetryInv, ClaimsCounted
  <2>4. QED
    BY <2>1, <2>2, <2>3
<1>3. QED
  BY <1>1, <1>2 DEF RetryInv

LEMMA RetryInvariant == Spec => []RetryInv
<1>1. ASSUME Init
      PROVE  RetryInv
  <2>1. \A j \in Jobs : ClaimsOf(j) = {} /\ Used(j) = 0 /\ Failures[j] = 0
    BY <1>1, StoreAssumption DEF Init, StoreInit, NoJob, NoAttempt, ClaimsOf, Used,
       Phase, Failures
  <2>2. ClaimsCounted
    BY <2>1, FS_EmptySet DEF ClaimsCounted
  <2>3. Budget
    BY <2>1, StoreAssumption DEF Budget
  <2>4. UnusedClean /\ StoredCounted
    BY <1>1 DEF Init, StoreInit, NoJob, NoAttempt, UnusedClean, StoredCounted
  <2>5. QED
    BY <2>2, <2>3, <2>4 DEF RetryInv
<1>2. QED
  BY <1>1, RetryStep, ClaimInvariant, AbsentInvariant, PTL DEF Spec

\* The retry budget is kept to the unit: the retries of a job are exactly its
\* claims that ended without completing it, whoever noticed (the attempt, the
\* recovery of a lease, a stop), and no job is claimed more than MaxRetries + 1
\* times unless it is given back.
THEOREM RetriesExact == Spec => []RetriesAccounted
<1>1. ASSUME TypeInv, RetryInv
      PROVE  RetriesAccounted
  <2>1. \A j \in Jobs :
          /\ Failures[j] = jobs[j].retryCount /\ Phase[j] = jobs[j].status
          /\ jobs[j].retryCount \in Nat
    BY <1>1 DEF Failures, Phase, TypeInv, RunnerTypeOK, StoreTypeOK, Job
  <2>2. QED
    BY <1>1, <2>1, StoreAssumption
       DEF RetryInv, ClaimsCounted, Budget, Used, RetriesAccounted
<1>2. QED
  BY <1>1, TypeInvariant, RetryInvariant, PTL

-----------------------------------------------------------------------------
(* The history of a code review *)

HistorySpec == HistoryInit /\ [][HistoryNext]_historyVars

\* Records and sequences look as they are written.
RunsShape(list) ==
  /\ Len(list) \in Nat
  /\ list = [r \in 1 .. Len(list) |-> list[r]]
  /\ \A r \in 1 .. Len(list) :
       list[r] = [job |-> list[r].job, status |-> list[r].status, at |-> list[r].at,
                   result |-> list[r].result, snapshot |-> list[r].snapshot, rows |-> list[r].rows]
AttemptShape(a) ==
  a = [step |-> a.step, job |-> a.job, content |-> a.content, format |-> a.format, threads |-> a.threads,
       todo |-> a.todo, previous |-> a.previous, scope |-> a.scope, result |-> a.result, ready |-> a.ready]
SavedShape(s) ==
  /\ DOMAIN s = HistoryJobs
  /\ \A j \in HistoryJobs :
       s[j] = [head |-> s[j].head, scope |-> s[j].scope, result |-> s[j].result,
               published |-> s[j].published, content |-> s[j].content]
HistoryShape == RunsShape(reviews) /\ AttemptShape(attempt) /\ SavedShape(saved)

\* A change was shown, or could not be.
Known(p, content) == <<p, content>> \in seen \/ Missed(p, content)
KnownOf(content) == \A p \in Paths : content[p] # 0 => Known(p, content[p])

\* Whoever repeats a review finds what its checkpoint is about.
CheckpointHolds(j) ==
  /\ saved[j].published => saved[j].result # <<>>
  /\ saved[j].result # <<>> =>
       /\ KindOf[j] = "batch" /\ KnownOf(saved[j].content)
       /\ \A f \in saved[j].result.closed : f \in Topics => thread[f] # "none"

RunHolds(r) ==
  /\ reviews[r].job \in HistoryJobs \cup {0}
  /\ reviews[r].at \in 0 .. Len(reviews)
  /\ reviews[r].result =>
       /\ KnownOf(reviews[r].snapshot.content)
       /\ reviews[r].job # 0 /\ KindOf[reviews[r].job] = "batch" => saved[reviews[r].job].published
  /\ reviews[r].status = "completed" /\ ~reviews[r].result => reviews[r].snapshot = NoSnapshot

\* A finding that is closed in storage and open on the platform was closed by
\* a review, or its sync was cut.
FindingHolds(f) ==
  /\ thread[f] \in {"none", "open", "resolved"} /\ mapping[f] \in {"none", "open", "resolved"}
  /\ thread[f] = "none" <=> mapping[f] = "none"
  /\ \A r \in DOMAIN reviews : reviews[r].rows[f] \in {"none", "open", "resolved", "dismissed"}
  /\ \A r \in Completed :
       /\ reviews[r].rows[f] = "dismissed" => f \in answered
       /\ reviews[r].rows[f] = "resolved" /\ mapping[f] = "open" => f \in answered \cup torn
FindingsHold ==
  /\ DOMAIN thread = Topics /\ DOMAIN mapping = Topics
  /\ \A r \in DOMAIN reviews : DOMAIN reviews[r].rows = Topics
  /\ \A f \in Topics : FindingHolds(f)

\* The run of the attempt in progress.
RunOfAttempt ==
  LET run == reviews[NewRun]
  IN  /\ Len(reviews) > 0 /\ Mine \in HistoryJobs /\ run.job = Mine
      /\ attempt.format \in {"git-raw-v2", "provider-diff"}
      /\ ~Doing("commit") => /\ run.status = "in_progress" /\ ~run.result /\ run.at = 0
                             /\ \A f \in Topics : run.rows[f] \in {"none", "open"}
      /\ run.snapshot = IF attempt.step \in {"sync", "finding", "hydrate"} \/ attempt.scope = "none"
                        THEN NoSnapshot ELSE Snapshot

\* What the steps of an attempt have done so far.
AttemptHolds ==
  /\ attempt.step \in {"none", "sync", "finding", "hydrate", "review", "publish", "reply", "complete", "commit"}
  /\ ~Doing("none") => RunOfAttempt
  /\ Doing("reply") => attempt.scope = "none"
  /\ attempt.step \in {"sync", "finding"} =>
       attempt.scope = "none" /\ attempt.todo \subseteq Topics /\ attempt.threads = thread
  /\ attempt.step \in {"hydrate", "review", "publish"} => attempt.scope # "none" /\ attempt.todo = {}
  /\ attempt.step \in {"sync", "finding", "hydrate", "review", "publish"} =>
       \A f \in Topics : f \in attempt.todo \/ mapping[f] = attempt.threads[f]
  /\ attempt.step \in {"hydrate", "review"} =>
       attempt.previous = 0
       \/ (attempt.previous \in DOMAIN reviews /\ reviews[attempt.previous].result)
  /\ Doing("publish") =>
       /\ \A f \in Topics : reviews[NewRun].rows[f] = "open" => f \in attempt.result.found
       /\ \A f \in attempt.result.closed : f \in Topics => thread[f] # "none"
       /\ Kind = "batch" => saved[Mine].result # <<>>
  /\ Doing("publish") \/ (Doing("complete") /\ attempt.scope # "none") =>
       KnownOf(attempt.content) \/ (saved[Mine].result # <<>> /\ saved[Mine].content # attempt.content)
  /\ Doing("complete") /\ attempt.scope # "none" /\ Kind = "batch" => saved[Mine].published
  /\ attempt.ready => /\ attempt.step \in {"complete", "commit"} /\ ReadyIsEarned
                      /\ \A f \in Topics : reviews[NewRun].rows[f] = "none"

HistoryInv ==
  /\ HistoryShape /\ FindingsHold /\ AttemptHolds
  /\ \A j \in HistoryJobs : CheckpointHolds(j)
  /\ \A r \in DOMAIN reviews : RunHolds(r)

LEMMA ListLength ==
  ASSUME NEW list, NEW n \in Nat, list = [r \in 1 .. n |-> list[r]]
  PROVE  Len(list) = n /\ DOMAIN list = 1 .. n
<1>1. PICK S : S = {list[r] : r \in 1 .. n}
  OBVIOUS
<1>2. \A r \in 1 .. n : list[r] \in S
  BY <1>1
<1>3. list \in [1 .. n -> S]
  BY <1>2
<1>4. list \in Seq(S)
  BY <1>3
<1>5. QED
  BY <1>3, <1>4

RunShape(run) ==
  run = [job |-> run.job, status |-> run.status, at |-> run.at,
         result |-> run.result, snapshot |-> run.snapshot, rows |-> run.rows]

LEMMA RunsAre ==
  ASSUME NEW list, NEW n \in Nat, list = [r \in 1 .. n |-> list[r]], \A r \in 1 .. n : RunShape(list[r])
  PROVE  RunsShape(list) /\ Len(list) = n /\ DOMAIN list = 1 .. n
<1>1. Len(list) = n /\ DOMAIN list = 1 .. n
  BY Zenon, ListLength
<1>2. QED
  BY <1>1 DEF RunsShape, RunShape

LEMMA RunsKnown ==
  ASSUME NEW list, RunsShape(list)
  PROVE  /\ Len(list) \in Nat /\ DOMAIN list = 1 .. Len(list)
         /\ \A r \in DOMAIN list : RunShape(list[r])
<1>1. PICK n \in Nat : n = Len(list)
  BY DEF RunsShape
<1>2. list = [r \in 1 .. n |-> list[r]]
  BY Zenon, <1>1 DEF RunsShape
<1>3. DOMAIN list = 1 .. n
  BY Zenon, <1>2, ListLength
<1>4. QED
  BY <1>1, <1>3 DEF RunsShape, RunShape

\* One run is written.
OneWritten(old, list, n, run) ==
  /\ RunsShape(list) /\ Len(list) = Len(old) /\ DOMAIN list = DOMAIN old /\ list[n] = run
  /\ \A r \in DOMAIN old : r # n => list[r] = old[r]
LEMMA RunWritten ==
  ASSUME NEW old, RunsShape(old), NEW n \in DOMAIN old, NEW run, RunShape(run),
         NEW list, list = [old EXCEPT ![n] = run]
  PROVE  OneWritten(old, list, n, run)
<1>1. PICK m \in Nat : m = Len(old)
  BY DEF RunsShape
<1>2. DOMAIN old = 1 .. m /\ \A r \in 1 .. m : RunShape(old[r])
  BY <1>1, RunsKnown
<1>3. DOMAIN list = 1 .. m /\ list = [r \in 1 .. m |-> list[r]]
  BY <1>2
<1>4. list[n] = run /\ \A r \in 1 .. m : r # n => list[r] = old[r]
  BY <1>2
<1>5. \A r \in 1 .. m : RunShape(list[r])
  BY Zenon, <1>2, <1>4
<1>6. RunsShape(list) /\ Len(list) = m
  BY Zenon, <1>3, <1>5, RunsAre
<1>7. QED
  BY <1>1, <1>2, <1>3, <1>4, <1>6 DEF OneWritten

\* A run is added.
OneAdded(old, list, run) ==
  /\ RunsShape(list) /\ Len(list) = Len(old) + 1 /\ DOMAIN list = 1 .. Len(old) + 1
  /\ list[Len(old) + 1] = run
  /\ \A r \in DOMAIN old : r \in DOMAIN list /\ r # Len(old) + 1 /\ list[r] = old[r]
LEMMA RunAdded ==
  ASSUME NEW old, RunsShape(old), NEW run, RunShape(run), NEW list, list = Append(old, run)
  PROVE  OneAdded(old, list, run)
<1>1. PICK m \in Nat : m = Len(old)
  BY DEF RunsShape
<1>2. DOMAIN old = 1 .. m /\ \A r \in 1 .. m : RunShape(old[r])
  BY <1>1, RunsKnown
<1>3. PICK S : S = {old[r] : r \in 1 .. m} \cup {run}
  OBVIOUS
<1>4. old = [r \in 1 .. m |-> old[r]]
  BY Zenon, <1>1 DEF RunsShape
<1>5. \A r \in 1 .. m : old[r] \in S
  BY <1>3
<1>6. old \in [1 .. m -> S]
  BY <1>4, <1>5
<1>7. old \in Seq(S) /\ run \in S
  BY <1>3, <1>6
<1>8. list \in Seq(S) /\ Len(list) = m + 1
  BY <1>1, <1>7
<1>9. DOMAIN list = 1 .. m + 1 /\ list = [r \in 1 .. m + 1 |-> list[r]]
  <2>1. PICK n \in Nat : n = m + 1
    OBVIOUS
  <2>2. list \in [1 .. Len(list) -> S]
    BY <1>8, LenProperties
  <2>3. list \in [1 .. n -> S]
    BY Zenon, <1>8, <2>1, <2>2
  <2>4. QED
    BY <2>1, <2>3
<1>10. list[m + 1] = run /\ \A r \in 1 .. m : list[r] = old[r]
  BY <1>1, <1>7
<1>11. ASSUME NEW r \in 1 .. m + 1 PROVE RunShape(list[r])
  <2>1. r = m + 1 \/ r \in 1 .. m
    OBVIOUS
  <2>2. QED
    BY Zenon, <1>2, <1>10, <2>1
<1>12. m + 1 \in Nat /\ \A r \in 1 .. m : r \in 1 .. m + 1 /\ r # m + 1
  OBVIOUS
<1>13. RunsShape(list) /\ Len(list) = m + 1
  BY Zenon, <1>9, <1>11, <1>12, RunsAre
<1>14. QED
  BY <1>1, <1>2, <1>9, <1>10, <1>12, <1>13 DEF OneAdded

\* The fields of an attempt that no step changes.
SameTask(a, b) ==
  b.job = a.job /\ b.content = a.content /\ b.format = a.format /\ b.threads = a.threads

ChangedTo(a, b, st, todoNew, previousNew, scopeNew, resultNew, readyNew) ==
  /\ AttemptShape(b) /\ SameTask(a, b) /\ b.step = st /\ b.todo = todoNew
  /\ b.previous = previousNew /\ b.scope = scopeNew /\ b.result = resultNew /\ b.ready = readyNew

LEMMA AttemptChanges ==
  ASSUME NEW a, AttemptShape(a), NEW b, NEW st, NEW x, NEW y
  PROVE  /\ b = [a EXCEPT !.step = st] =>
              ChangedTo(a, b, st, a.todo, a.previous, a.scope, a.result, a.ready)
         /\ b = [a EXCEPT !.step = st, !.todo = x] =>
              ChangedTo(a, b, st, x, a.previous, a.scope, a.result, a.ready)
         /\ b = [a EXCEPT !.previous = x, !.scope = y, !.step = st] =>
              ChangedTo(a, b, st, a.todo, x, y, a.result, a.ready)
         /\ b = [a EXCEPT !.result = x, !.step = st] =>
              ChangedTo(a, b, st, a.todo, a.previous, a.scope, x, a.ready)
         /\ b = [a EXCEPT !.step = st, !.ready = x] =>
              ChangedTo(a, b, st, a.todo, a.previous, a.scope, a.result, x)
<1>1. PICK a1, a2, a3, a4, a5, a6, a7, a8, a9, a10 :
        /\ a1 = a.step /\ a2 = a.job /\ a3 = a.content /\ a4 = a.format /\ a5 = a.threads
        /\ a6 = a.todo /\ a7 = a.previous /\ a8 = a.scope /\ a9 = a.result /\ a10 = a.ready
  OBVIOUS
<1>2. a = [step |-> a1, job |-> a2, content |-> a3, format |-> a4, threads |-> a5,
           todo |-> a6, previous |-> a7, scope |-> a8, result |-> a9, ready |-> a10]
  BY Zenon, <1>1 DEF AttemptShape
<1>3. ASSUME NEW s, NEW t, NEW p, NEW k, NEW u, NEW w,
             b = [step |-> s, job |-> a2, content |-> a3, format |-> a4, threads |-> a5,
                  todo |-> t, previous |-> p, scope |-> k, result |-> u, ready |-> w]
      PROVE  ChangedTo(a, b, s, t, p, k, u, w)
  <2>1. /\ AttemptShape(b) /\ b.step = s /\ b.job = a2 /\ b.content = a3 /\ b.format = a4 /\ b.threads = a5
        /\ b.todo = t /\ b.previous = p /\ b.scope = k /\ b.result = u /\ b.ready = w
    BY <1>3 DEF AttemptShape
  <2>2. QED
    BY Zenon, <1>1, <2>1 DEF ChangedTo, SameTask
<1>4. b = [a EXCEPT !.step = st] =>
        b = [step |-> st, job |-> a2, content |-> a3, format |-> a4, threads |-> a5,
             todo |-> a6, previous |-> a7, scope |-> a8, result |-> a9, ready |-> a10]
  BY <1>2
<1>5. b = [a EXCEPT !.step = st, !.todo = x] =>
        b = [step |-> st, job |-> a2, content |-> a3, format |-> a4, threads |-> a5,
             todo |-> x, previous |-> a7, scope |-> a8, result |-> a9, ready |-> a10]
  BY <1>2
<1>6. b = [a EXCEPT !.previous = x, !.scope = y, !.step = st] =>
        b = [step |-> st, job |-> a2, content |-> a3, format |-> a4, threads |-> a5,
             todo |-> a6, previous |-> x, scope |-> y, result |-> a9, ready |-> a10]
  BY <1>2
<1>7. b = [a EXCEPT !.result = x, !.step = st] =>
        b = [step |-> st, job |-> a2, content |-> a3, format |-> a4, threads |-> a5,
             todo |-> a6, previous |-> a7, scope |-> a8, result |-> x, ready |-> a10]
  BY <1>2
<1>8. b = [a EXCEPT !.step = st, !.ready = x] =>
        b = [step |-> st, job |-> a2, content |-> a3, format |-> a4, threads |-> a5,
             todo |-> a6, previous |-> a7, scope |-> a8, result |-> a9, ready |-> x]
  BY <1>2
<1>9. b = [a EXCEPT !.step = st] => ChangedTo(a, b, st, a6, a7, a8, a9, a10)
  BY Zenon, <1>3, <1>4
<1>10. b = [a EXCEPT !.step = st, !.todo = x] => ChangedTo(a, b, st, x, a7, a8, a9, a10)
  BY Zenon, <1>3, <1>5
<1>11. b = [a EXCEPT !.previous = x, !.scope = y, !.step = st] => ChangedTo(a, b, st, a6, x, y, a9, a10)
  BY Zenon, <1>3, <1>6
<1>12. b = [a EXCEPT !.result = x, !.step = st] => ChangedTo(a, b, st, a6, a7, a8, x, a10)
  BY Zenon, <1>3, <1>7
<1>13. b = [a EXCEPT !.step = st, !.ready = x] => ChangedTo(a, b, st, a6, a7, a8, a9, x)
  BY Zenon, <1>3, <1>8
<1>14. QED
  BY Zenon, <1>1, <1>9, <1>10, <1>11, <1>12, <1>13

\* What every step keeps of the runs and of published checkpoints.
Carried ==
  /\ seen \subseteq seen'
  /\ \A r \in DOMAIN reviews :
       /\ r \in DOMAIN reviews' /\ reviews'[r].job = reviews[r].job
       /\ reviews[r].result => reviews'[r].result
       /\ reviews[r].result \/ reviews[r].snapshot.format = "provider-diff"
            => reviews'[r].snapshot = reviews[r].snapshot
  /\ \A j \in HistoryJobs :
       saved[j].published => /\ saved'[j].result = saved[j].result /\ saved'[j].content = saved[j].content
                             /\ saved'[j].published

LEMMA KnownStays ==
  ASSUME \A r \in DOMAIN reviews : RunHolds(r), \A j \in HistoryJobs : CheckpointHolds(j), Carried
  PROVE  \A content : KnownOf(content) => KnownOf(content)'
<1>1. ASSUME NEW p, NEW c, Missed(p, c) PROVE Missed(p, c)'
  <2>1. PICK r \in DOMAIN reviews :
          /\ HasContent(r, p, c)
          /\ \/ reviews[r].snapshot.format = "provider-diff" /\ c \in Large
             \/ reviews[r].result /\ Moved(r)
    BY Zenon, <1>1 DEF Missed
  <2>2. r \in DOMAIN reviews' /\ reviews'[r].snapshot = reviews[r].snapshot
    BY Zenon, <2>1 DEF Carried
  <2>3. HasContent(r, p, c)'
    BY Zenon, <2>1, <2>2 DEF HasContent
  <2>4. CASE reviews[r].snapshot.format = "provider-diff" /\ c \in Large
    BY Zenon, <2>2, <2>3, <2>4 DEF Missed
  <2>5. CASE reviews[r].result /\ Moved(r)
    <3>1. PICK j : j = reviews[r].job
      OBVIOUS
    <3>2. j \in HistoryJobs /\ saved[j].result # <<>> /\ saved[j].content # reviews[r].snapshot.content
      BY <2>5, <3>1 DEF RunHolds, Moved
    <3>3. saved[j].published
      BY <2>5, <3>1, <3>2 DEF RunHolds, Moved, CheckpointHolds
    <3>4. /\ saved'[j].result = saved[j].result /\ saved'[j].content = saved[j].content
          /\ reviews'[r].job = j /\ reviews'[r].result
      BY Zenon, <2>5, <3>1, <3>2, <3>3 DEF Carried
    <3>5. Moved(r)'
      BY Zenon, <2>2, <2>5, <3>1, <3>2, <3>4 DEF Moved
    <3>6. QED
      BY Zenon, <2>2, <2>3, <3>4, <3>5 DEF Missed
  <2>6. QED
    BY Zenon, <2>1, <2>4, <2>5
<1>2. ASSUME NEW p, NEW c, Known(p, c) PROVE Known(p, c)'
  <2>1. CASE <<p, c>> \in seen
    BY <2>1 DEF Carried, Known
  <2>2. CASE Missed(p, c)
    BY Zenon, <1>1, <2>2 DEF Known
  <2>3. QED
    BY Zenon, <1>2, <2>1, <2>2 DEF Known
<1>3. QED
  BY Zenon, <1>2 DEF KnownOf

\* A run is as it was, but that it may be failed now.
OldRun(r) ==
  /\ r \in DOMAIN reviews
  /\ reviews'[r].job = reviews[r].job /\ reviews'[r].at = reviews[r].at
  /\ reviews'[r].result = reviews[r].result /\ reviews'[r].snapshot = reviews[r].snapshot
  /\ reviews'[r].status = "completed" => reviews[r].status = "completed"

LEMMA OldRunHolds ==
  ASSUME \A r \in DOMAIN reviews : RunHolds(r), \A j \in HistoryJobs : CheckpointHolds(j), Carried,
         HistoryShape, RunsShape(reviews'), Len(reviews) <= Len(reviews'),
         NEW r, OldRun(r)
  PROVE  RunHolds(r)'
<1>1. RunHolds(r) /\ r \in DOMAIN reviews
  BY DEF OldRun
<1>2. reviews'[r].job \in HistoryJobs \cup {0}
  BY <1>1 DEF OldRun, RunHolds
<1>3. reviews'[r].at \in 0 .. Len(reviews')
  <2>1. PICK n \in Nat : n = Len(reviews)
    BY DEF HistoryShape, RunsShape
  <2>2. PICK m \in Nat : m = Len(reviews')
    BY DEF RunsShape
  <2>3. reviews'[r].at \in 0 .. n
    BY <1>1, <2>1 DEF OldRun, RunHolds
  <2>4. QED
    BY <2>1, <2>2, <2>3
<1>4. ASSUME reviews'[r].result PROVE KnownOf(reviews[r].snapshot.content)'
  <2>1. PICK c : c = reviews[r].snapshot.content
    OBVIOUS
  <2>2. KnownOf(c)
    BY Zenon, <1>1, <1>4, <2>1 DEF OldRun, RunHolds
  <2>3. KnownOf(c)'
    BY Zenon, <2>2, KnownStays
  <2>4. reviews'[r].snapshot.content = c
    BY Zenon, <2>1 DEF OldRun
  <2>5. QED
    BY Zenon, <2>3, <2>4 DEF KnownOf
<1>5. ASSUME reviews'[r].result, reviews'[r].job # 0, KindOf[reviews'[r].job] = "batch"
      PROVE  saved'[reviews'[r].job].published
  BY Zenon, <1>1, <1>2, <1>5, HistoryAssumption DEF OldRun, RunHolds, Carried
<1>6. reviews'[r].status = "completed" /\ ~reviews'[r].result => reviews'[r].snapshot = NoSnapshot
  BY Zenon, <1>1 DEF OldRun, RunHolds
<1>7. QED
  BY Zenon, <1>2, <1>3, <1>4, <1>5, <1>6 DEF RunHolds, NoSnapshot, KnownOf

\* The findings are as they were where neither threads nor rows are touched,
\* but for a run's own rows.
LEMMA FindingsStay ==
  ASSUME FindingsHold, UNCHANGED <<thread, mapping, answered, torn>>,
         \A r \in DOMAIN reviews' :
           /\ DOMAIN reviews'[r].rows = Topics
           /\ \/ \A f \in Topics : reviews'[r].rows[f] \in {"none", "open"}
              \/ /\ r \in DOMAIN reviews /\ reviews'[r].rows = reviews[r].rows
                 /\ reviews'[r].status = "completed" => reviews[r].status = "completed"
  PROVE  FindingsHold'
<1>1. ASSUME NEW f \in Topics PROVE FindingHolds(f)'
  <2>1. FindingHolds(f)
    BY Zenon DEF FindingsHold
  <2>2. /\ thread'[f] \in {"none", "open", "resolved"} /\ mapping'[f] \in {"none", "open", "resolved"}
        /\ thread'[f] = "none" <=> mapping'[f] = "none"
    BY <2>1 DEF FindingHolds
  <2>3. ASSUME NEW r \in DOMAIN reviews'
        PROVE  /\ reviews'[r].rows[f] \in {"none", "open", "resolved", "dismissed"}
               /\ reviews'[r].status = "completed" =>
                    /\ reviews'[r].rows[f] = "dismissed" => f \in answered'
                    /\ reviews'[r].rows[f] = "resolved" /\ mapping'[f] = "open" => f \in answered' \cup torn'
    <3>1. CASE reviews'[r].rows[f] \in {"none", "open"}
      BY <3>1
    <3>2. CASE /\ r \in DOMAIN reviews /\ reviews'[r].rows = reviews[r].rows
               /\ reviews'[r].status = "completed" => reviews[r].status = "completed"
      BY <2>1, <3>2 DEF FindingHolds, Completed
    <3>3. QED
      BY <2>3, <3>1, <3>2
  <2>4. QED
    BY Zenon, <2>2, <2>3 DEF FindingHolds, Completed
<1>2. QED
  BY Zenon, <1>1 DEF FindingsHold

\* Checkpoints that are not written.
LEMMA CheckpointStays ==
  ASSUME \A r \in DOMAIN reviews : RunHolds(r), \A j \in HistoryJobs : CheckpointHolds(j), Carried,
         NEW j \in HistoryJobs, saved'[j] = saved[j],
         \A f \in Topics : thread[f] # "none" => thread'[f] # "none"
  PROVE  CheckpointHolds(j)'
<1>1. CheckpointHolds(j)
  OBVIOUS
<1>2. PICK c : c = saved[j].content
  OBVIOUS
<1>3. KnownOf(c) => KnownOf(c)'
  BY Zenon, KnownStays
<1>4. saved[j].result # <<>> => KnownOf(c)
  BY Zenon, <1>1, <1>2 DEF CheckpointHolds
<1>5. saved'[j].result # <<>> => KnownOf(saved[j].content)'
  <2>1. saved'[j].content = c /\ saved'[j].result = saved[j].result
    BY Zenon, <1>2
  <2>2. QED
    BY Zenon, <1>3, <1>4, <2>1 DEF KnownOf
<1>6. QED
  BY Zenon, <1>1, <1>5 DEF CheckpointHolds

LEMMA NobodyHolds ==
  ASSUME attempt' = Nobody PROVE AttemptHolds' /\ AttemptShape(attempt')
<1>1. PICK no : no = FALSE
  OBVIOUS
<1>2. attempt' = [step |-> "none", job |-> 0, content |-> <<>>, format |-> "none", threads |-> <<>>,
                  todo |-> {}, previous |-> 0, scope |-> "none", result |-> <<>>, ready |-> no]
  BY Zenon, <1>1 DEF Nobody
<1>3. attempt'.step = "none" /\ attempt'.ready = no /\ AttemptShape(attempt')
  BY <1>2 DEF AttemptShape
<1>4. QED
  BY <1>1, <1>3 DEF AttemptHolds, Doing

\* Nothing that the attempt in progress relies on has changed.
LEMMA AttemptStays ==
  ASSUME HistoryInv, Carried, attempt' = attempt, saved' = saved, mapping' = mapping,
         ~attempt.ready, Len(reviews') = Len(reviews),
         thread' = thread \/ attempt.step \in {"none", "publish", "reply"},
         Doing("none") \/ reviews'[NewRun] = reviews[NewRun],
         \A f \in Topics : thread[f] # "none" => thread'[f] # "none"
  PROVE  AttemptHolds'
<1>1. PICK n : n = NewRun
  OBVIOUS
<1>2. n = NewRun /\ NewRun' = n
  BY <1>1 DEF NewRun
<1>3. \A step : Doing(step)' <=> Doing(step)
  BY Zenon DEF Doing
<1>4. ~Doing("none") => reviews'[n] = reviews[n]
  BY Zenon, <1>2
<1>5. ~Doing("none") => RunOfAttempt'
  BY Zenon, <1>2, <1>3, <1>4 DEF RunOfAttempt, AttemptHolds, HistoryInv, Mine, Snapshot, NoSnapshot
<1>6. \A p \in DOMAIN reviews : reviews[p].result => p \in DOMAIN reviews' /\ reviews'[p].result
  BY Zenon DEF Carried
<1>7. KnownOf(attempt.content) => KnownOf(attempt.content)'
  <2>1. PICK c : c = attempt.content
    OBVIOUS
  <2>2. KnownOf(c) => KnownOf(c)'
    BY Zenon, KnownStays DEF HistoryInv
  <2>3. QED
    BY Zenon, <2>1, <2>2 DEF KnownOf
<1>8. Doing("publish") =>
        /\ \A f \in Topics : reviews'[n].rows[f] = "open" => f \in attempt'.result.found
        /\ \A f \in attempt'.result.closed : f \in Topics => thread'[f] # "none"
  <2>1. Doing("publish") => ~Doing("none")
    BY DEF Doing
  <2>2. QED
    BY Zenon, <1>2, <1>4, <2>1 DEF AttemptHolds, HistoryInv
<1>9. attempt.step \in {"sync", "finding"} => attempt'.threads = thread'
  <2>1. attempt.step \in {"sync", "finding"} => thread' = thread
    OBVIOUS
  <2>2. QED
    BY Zenon, <2>1 DEF AttemptHolds, HistoryInv
<1>10. QED
  BY Zenon, <1>2, <1>3, <1>5, <1>6, <1>7, <1>8, <1>9 DEF AttemptHolds, HistoryInv, Mine, Kind

\* A run is written, in these fields.
WrittenTo(old, list, n, status, at, result, snapshot, rows) ==
  /\ RunsShape(list) /\ Len(list) = Len(old) /\ DOMAIN list = DOMAIN old
  /\ \A r \in DOMAIN old : r # n => list[r] = old[r]
  /\ list[n].job = old[n].job /\ list[n].status = status /\ list[n].at = at
  /\ list[n].result = result /\ list[n].snapshot = snapshot /\ list[n].rows = rows

LEMMA RunChanges ==
  ASSUME NEW old, RunsShape(old), NEW n \in DOMAIN old, NEW list,
         NEW x, NEW y, NEW z
  PROVE  /\ list = [old EXCEPT ![n].status = x] =>
              WrittenTo(old, list, n, x, old[n].at, old[n].result, old[n].snapshot, old[n].rows)
         /\ list = [old EXCEPT ![n].snapshot = x] =>
              WrittenTo(old, list, n, old[n].status, old[n].at, old[n].result, x, old[n].rows)
         /\ list = [old EXCEPT ![n].rows = x] =>
              WrittenTo(old, list, n, old[n].status, old[n].at, old[n].result, old[n].snapshot, x)
         /\ list = [old EXCEPT ![n].status = x, ![n].at = y, ![n].result = z] =>
              WrittenTo(old, list, n, x, y, z, old[n].snapshot, old[n].rows)
<1>1. PICK j, s, a, u, c, w : /\ j = old[n].job /\ s = old[n].status /\ a = old[n].at
                              /\ u = old[n].result /\ c = old[n].snapshot /\ w = old[n].rows
  OBVIOUS
<1>2. old[n] = [job |-> j, status |-> s, at |-> a, result |-> u, snapshot |-> c, rows |-> w]
  BY Zenon, <1>1, RunsKnown DEF RunShape
<1>3. PICK m \in Nat : m = Len(old) /\ DOMAIN old = 1 .. m
  BY RunsKnown
<1>4. ASSUME NEW st, NEW at, NEW res, NEW snap, NEW rows,
             list = [old EXCEPT ![n] = [job |-> j, status |-> st, at |-> at, result |-> res,
                                        snapshot |-> snap, rows |-> rows]]
      PROVE  WrittenTo(old, list, n, st, at, res, snap, rows)
  <2>1. PICK run : run = [job |-> j, status |-> st, at |-> at, result |-> res, snapshot |-> snap, rows |-> rows]
    OBVIOUS
  <2>2. /\ RunShape(run) /\ run.job = j /\ run.status = st /\ run.at = at /\ run.result = res
        /\ run.snapshot = snap /\ run.rows = rows
    BY <2>1 DEF RunShape
  <2>3. list = [old EXCEPT ![n] = run]
    BY Zenon, <1>4, <2>1
  <2>4. OneWritten(old, list, n, run)
    BY Zenon, <2>2, <2>3, RunWritten
  <2>5. QED
    BY Zenon, <1>1, <2>2, <2>4 DEF WrittenTo, OneWritten
<1>5. list = [old EXCEPT ![n].status = x] =>
        list = [old EXCEPT ![n] = [job |-> j, status |-> x, at |-> a, result |-> u, snapshot |-> c, rows |-> w]]
  <2>1. PICK run : run = old[n]
    OBVIOUS
  <2>2. PICK new : new = [run EXCEPT !.status = x]
    OBVIOUS
  <2>3. run = [job |-> j, status |-> s, at |-> a, result |-> u, snapshot |-> c, rows |-> w]
    BY Zenon, <1>2, <2>1
  <2>4. new = [job |-> j, status |-> x, at |-> a, result |-> u, snapshot |-> c, rows |-> w]
    BY <2>2, <2>3
  <2>5. [old EXCEPT ![n].status = x] = [old EXCEPT ![n] = new]
    BY <2>1, <2>2
  <2>6. QED
    BY Zenon, <2>4, <2>5
<1>6. list = [old EXCEPT ![n].snapshot = x] =>
        list = [old EXCEPT ![n] = [job |-> j, status |-> s, at |-> a, result |-> u, snapshot |-> x, rows |-> w]]
  <2>1. PICK run : run = old[n]
    OBVIOUS
  <2>2. PICK new : new = [run EXCEPT !.snapshot = x]
    OBVIOUS
  <2>3. run = [job |-> j, status |-> s, at |-> a, result |-> u, snapshot |-> c, rows |-> w]
    BY Zenon, <1>2, <2>1
  <2>4. new = [job |-> j, status |-> s, at |-> a, result |-> u, snapshot |-> x, rows |-> w]
    BY <2>2, <2>3
  <2>5. [old EXCEPT ![n].snapshot = x] = [old EXCEPT ![n] = new]
    BY <2>1, <2>2
  <2>6. QED
    BY Zenon, <2>4, <2>5
<1>7. list = [old EXCEPT ![n].rows = x] =>
        list = [old EXCEPT ![n] = [job |-> j, status |-> s, at |-> a, result |-> u, snapshot |-> c, rows |-> x]]
  <2>1. PICK run : run = old[n]
    OBVIOUS
  <2>2. PICK new : new = [run EXCEPT !.rows = x]
    OBVIOUS
  <2>3. run = [job |-> j, status |-> s, at |-> a, result |-> u, snapshot |-> c, rows |-> w]
    BY Zenon, <1>2, <2>1
  <2>4. new = [job |-> j, status |-> s, at |-> a, result |-> u, snapshot |-> c, rows |-> x]
    BY <2>2, <2>3
  <2>5. [old EXCEPT ![n].rows = x] = [old EXCEPT ![n] = new]
    BY <2>1, <2>2
  <2>6. QED
    BY Zenon, <2>4, <2>5
<1>8. list = [old EXCEPT ![n].status = x, ![n].at = y, ![n].result = z] =>
        list = [old EXCEPT ![n] = [job |-> j, status |-> x, at |-> y, result |-> z, snapshot |-> c, rows |-> w]]
  <2>1. PICK run : run = old[n]
    OBVIOUS
  <2>2. PICK one : one = [run EXCEPT !.status = x]
    OBVIOUS
  <2>3. PICK two : two = [one EXCEPT !.at = y]
    OBVIOUS
  <2>4. PICK three : three = [two EXCEPT !.result = z]
    OBVIOUS
  <2>5. run = [job |-> j, status |-> s, at |-> a, result |-> u, snapshot |-> c, rows |-> w]
    BY Zenon, <1>2, <2>1
  <2>6. one = [job |-> j, status |-> x, at |-> a, result |-> u, snapshot |-> c, rows |-> w]
    BY <2>2, <2>5
  <2>7. two = [job |-> j, status |-> x, at |-> y, result |-> u, snapshot |-> c, rows |-> w]
    BY <2>3, <2>6
  <2>8. three = [job |-> j, status |-> x, at |-> y, result |-> z, snapshot |-> c, rows |-> w]
    BY <2>4, <2>7
  <2>9. [old EXCEPT ![n].status = x, ![n].at = y, ![n].result = z] = [old EXCEPT ![n] = three]
    BY <2>1, <2>2, <2>3, <2>4
  <2>10. QED
    BY Zenon, <2>8, <2>9
<1>9. /\ list = [old EXCEPT ![n].status = x] => WrittenTo(old, list, n, x, a, u, c, w)
      /\ list = [old EXCEPT ![n].snapshot = x] => WrittenTo(old, list, n, s, a, u, x, w)
      /\ list = [old EXCEPT ![n].rows = x] => WrittenTo(old, list, n, s, a, u, c, x)
  BY Zenon, <1>4, <1>5, <1>6, <1>7
<1>10. list = [old EXCEPT ![n].status = x, ![n].at = y, ![n].result = z] => WrittenTo(old, list, n, x, y, z, c, w)
  BY Zenon, <1>4, <1>8
<1>11. QED
  BY Zenon, <1>1, <1>9, <1>10

LEMMA PeopleKeep == ASSUME HistoryInv, PeopleMove PROVE HistoryInv'
<1>1. /\ reviews' = reviews /\ saved' = saved /\ mapping' = mapping /\ attempt' = attempt
      /\ seen' = seen /\ answered' = answered /\ torn' = torn
  BY DEF PeopleMove
<1>2. attempt.step \in {"none", "publish", "reply"}
  BY DEF PeopleMove
<1>3. /\ DOMAIN thread' = Topics
      /\ \A f \in Topics : /\ thread'[f] \in {"none", "open", "resolved"}
                           /\ thread'[f] = "none" <=> thread[f] = "none"
  <2>1. DOMAIN thread = Topics /\ \A f \in Topics : thread[f] \in {"none", "open", "resolved"}
    BY DEF HistoryInv, FindingsHold, FindingHolds
  <2>2. CASE thread' = thread
    BY <2>1, <2>2
  <2>3. ASSUME NEW g \in Topics, thread[g] # "none",
               thread' = [thread EXCEPT ![g] = IF thread[g] = "open" THEN "resolved" ELSE "open"]
        PROVE  /\ DOMAIN thread' = Topics
               /\ \A f \in Topics : /\ thread'[f] \in {"none", "open", "resolved"}
                                    /\ thread'[f] = "none" <=> thread[f] = "none"
    BY <2>1, <2>3
  <2>4. QED
    BY <2>2, <2>3 DEF PeopleMove
<1>4. Carried
  BY Zenon, <1>1 DEF Carried
<1>5. AttemptHolds'
  <2>1. ~attempt.ready
    BY <1>2 DEF HistoryInv, AttemptHolds
  <2>2. \A f \in Topics : thread[f] # "none" => thread'[f] # "none"
    BY Zenon, <1>3
  <2>3. Len(reviews') = Len(reviews) /\ reviews'[NewRun] = reviews[NewRun]
    BY Zenon, <1>1
  <2>4. QED
    BY Zenon, <1>1, <1>2, <1>4, <2>1, <2>2, <2>3, AttemptStays
<1>6. FindingsHold'
  <2>1. ASSUME NEW f \in Topics PROVE FindingHolds(f)'
    <3>1. FindingHolds(f)
      BY Zenon DEF HistoryInv, FindingsHold
    <3>2. Completed' = Completed
      BY Zenon, <1>1 DEF Completed
    <3>3. QED
      BY Zenon, <1>1, <1>3, <3>1, <3>2 DEF FindingHolds
  <2>2. QED
    BY Zenon, <1>1, <1>3, <2>1 DEF HistoryInv, FindingsHold
<1>7. ASSUME NEW j \in HistoryJobs PROVE CheckpointHolds(j)'
  <2>1. saved'[j] = saved[j] /\ \A f \in Topics : thread[f] # "none" => thread'[f] # "none"
    BY Zenon, <1>1, <1>3
  <2>2. QED
    BY Zenon, <1>4, <2>1, CheckpointStays DEF HistoryInv
<1>8. ASSUME NEW r \in DOMAIN reviews' PROVE RunHolds(r)'
  <2>1. OldRun(r)
    BY Zenon, <1>1, <1>8 DEF OldRun
  <2>2. HistoryShape /\ RunsShape(reviews') /\ Len(reviews) <= Len(reviews')
    BY <1>1 DEF HistoryInv, HistoryShape, RunsShape
  <2>3. QED
    BY Zenon, <1>4, <2>1, <2>2, OldRunHolds DEF HistoryInv
<1>9. HistoryShape'
  BY Zenon, <1>1 DEF HistoryInv, HistoryShape, RunsShape, AttemptShape, SavedShape
<1>10. QED
  BY Zenon, <1>5, <1>6, <1>7, <1>8, <1>9 DEF HistoryInv

\* A run fails, and nothing else is written but what it says.
LEMMA RunFails ==
  ASSUME HistoryInv, NEW r \in DOMAIN reviews, reviews' = [reviews EXCEPT ![r].status = "failed"],
         UNCHANGED <<thread, mapping, answered, torn, saved, seen>>
  PROVE  /\ Carried /\ FindingsHold' /\ RunsShape(reviews') /\ Len(reviews') = Len(reviews)
         /\ \A j \in HistoryJobs : CheckpointHolds(j)'
         /\ \A q \in DOMAIN reviews' : RunHolds(q)'
         /\ \A q \in DOMAIN reviews : q # r => reviews'[q] = reviews[q]
<1>1. RunsShape(reviews) /\ HistoryShape
  BY DEF HistoryInv, HistoryShape
<1>2. WrittenTo(reviews, reviews', r, "failed", reviews[r].at, reviews[r].result, reviews[r].snapshot, reviews[r].rows)
  BY Zenon, <1>1, RunChanges
<1>3. /\ RunsShape(reviews') /\ Len(reviews') = Len(reviews) /\ DOMAIN reviews' = DOMAIN reviews
      /\ \A q \in DOMAIN reviews : q # r => reviews'[q] = reviews[q]
  BY Zenon, <1>2 DEF WrittenTo
<1>4. ASSUME NEW q \in DOMAIN reviews
      PROVE  /\ reviews'[q].job = reviews[q].job /\ reviews'[q].at = reviews[q].at
             /\ reviews'[q].result = reviews[q].result /\ reviews'[q].snapshot = reviews[q].snapshot
             /\ reviews'[q].rows = reviews[q].rows
             /\ reviews'[q].status = "completed" => reviews[q].status = "completed"
  <2>1. CASE q = r
    BY <1>2, <2>1 DEF WrittenTo
  <2>2. CASE q # r
    BY Zenon, <1>3, <2>2
  <2>3. QED
    BY <2>1, <2>2
<1>5. saved' = saved /\ seen' = seen /\ thread' = thread
  OBVIOUS
<1>6. Carried
  BY Zenon, <1>3, <1>4, <1>5 DEF Carried
<1>7. FindingsHold'
  <2>1. ASSUME NEW q \in DOMAIN reviews'
        PROVE  /\ DOMAIN reviews'[q].rows = Topics
               /\ q \in DOMAIN reviews /\ reviews'[q].rows = reviews[q].rows
               /\ reviews'[q].status = "completed" => reviews[q].status = "completed"
    BY Zenon, <1>3, <1>4, <2>1 DEF HistoryInv, FindingsHold
  <2>2. FindingsHold
    BY DEF HistoryInv
  <2>3. QED
    BY Zenon, <2>1, <2>2, FindingsStay
<1>8. ASSUME NEW j \in HistoryJobs PROVE CheckpointHolds(j)'
  <2>1. saved'[j] = saved[j] /\ \A f \in Topics : thread[f] # "none" => thread'[f] # "none"
    BY Zenon, <1>5
  <2>2. QED
    BY Zenon, <1>6, <2>1, CheckpointStays DEF HistoryInv
<1>9. ASSUME NEW q \in DOMAIN reviews' PROVE RunHolds(q)'
  <2>1. OldRun(q)
    BY Zenon, <1>3, <1>4, <1>9 DEF OldRun
  <2>2. Len(reviews) <= Len(reviews')
    BY <1>1, <1>3 DEF RunsShape
  <2>3. QED
    BY Zenon, <1>1, <1>3, <1>6, <2>1, <2>2, OldRunHolds DEF HistoryInv
<1>10. QED
  BY Zenon, <1>3, <1>6, <1>7, <1>8, <1>9

LEMMA NewRunIs ==
  ASSUME HistoryInv, ~Doing("none")
  PROVE  NewRun \in DOMAIN reviews /\ RunOfAttempt
<1>1. Len(reviews) \in Nat /\ DOMAIN reviews = 1 .. Len(reviews)
  BY Zenon, RunsKnown DEF HistoryInv, HistoryShape
<1>2. RunOfAttempt /\ Len(reviews) > 0
  BY Zenon DEF HistoryInv, AttemptHolds, RunOfAttempt
<1>3. QED
  BY <1>1, <1>2 DEF NewRun

LEMMA ReconcileKeeps == ASSUME HistoryInv, NEW r \in DOMAIN reviews, RunReconciled(r) PROVE HistoryInv'
<1>1. /\ saved' = saved /\ mapping' = mapping /\ attempt' = attempt /\ thread' = thread
      /\ UNCHANGED <<thread, mapping, answered, torn, saved, seen>>
      /\ reviews' = [reviews EXCEPT ![r].status = "failed"]
      /\ attempt.step \in {"none", "sync", "publish"} /\ (Doing("none") \/ r # NewRun)
  BY DEF RunReconciled
<1>2. /\ Carried /\ FindingsHold' /\ RunsShape(reviews') /\ Len(reviews') = Len(reviews)
      /\ \A j \in HistoryJobs : CheckpointHolds(j)'
      /\ \A q \in DOMAIN reviews' : RunHolds(q)'
      /\ \A q \in DOMAIN reviews : q # r => reviews'[q] = reviews[q]
  BY Zenon, <1>1, RunFails
<1>3. AttemptHolds'
  <2>1. ~attempt.ready
    BY <1>1 DEF HistoryInv, AttemptHolds
  <2>2. Doing("none") \/ reviews'[NewRun] = reviews[NewRun]
    BY Zenon, <1>1, <1>2, NewRunIs
  <2>3. \A f \in Topics : thread[f] # "none" => thread'[f] # "none"
    BY Zenon, <1>1
  <2>4. QED
    BY Zenon, <1>1, <1>2, <2>1, <2>2, <2>3, AttemptStays
<1>4. HistoryShape'
  BY Zenon, <1>1, <1>2 DEF HistoryInv, HistoryShape, AttemptShape, SavedShape, RunsShape
<1>5. QED
  BY Zenon, <1>2, <1>3, <1>4 DEF HistoryInv

\* Neither runs nor checkpoints, and nothing of the findings.
LEMMA NothingWritten ==
  ASSUME HistoryInv, UNCHANGED <<thread, mapping, answered, torn, saved, seen, reviews>>
  PROVE  /\ Carried /\ FindingsHold' /\ RunsShape(reviews') /\ SavedShape(saved')
         /\ \A j \in HistoryJobs : CheckpointHolds(j)'
         /\ \A r \in DOMAIN reviews' : RunHolds(r)'
<1>1. /\ reviews' = reviews /\ saved' = saved /\ seen' = seen /\ thread' = thread /\ mapping' = mapping
      /\ answered' = answered /\ torn' = torn
  OBVIOUS
<1>2. Carried
  BY Zenon, <1>1 DEF Carried
<1>3. RunsShape(reviews') /\ SavedShape(saved')
  BY Zenon, <1>1 DEF HistoryInv, HistoryShape, RunsShape, SavedShape
<1>4. FindingsHold'
  <2>1. ASSUME NEW r \in DOMAIN reviews'
        PROVE  /\ DOMAIN reviews'[r].rows = Topics
               /\ r \in DOMAIN reviews /\ reviews'[r].rows = reviews[r].rows
               /\ reviews'[r].status = "completed" => reviews[r].status = "completed"
    BY Zenon, <1>1, <2>1 DEF HistoryInv, FindingsHold
  <2>2. FindingsHold
    BY DEF HistoryInv
  <2>3. QED
    BY Zenon, <2>1, <2>2, FindingsStay
<1>5. ASSUME NEW j \in HistoryJobs PROVE CheckpointHolds(j)'
  <2>1. saved'[j] = saved[j] /\ \A f \in Topics : thread[f] # "none" => thread'[f] # "none"
    BY Zenon, <1>1
  <2>2. QED
    BY Zenon, <1>2, <2>1, CheckpointStays DEF HistoryInv
<1>6. ASSUME NEW r \in DOMAIN reviews' PROVE RunHolds(r)'
  <2>1. OldRun(r)
    BY Zenon, <1>1, <1>6 DEF OldRun
  <2>2. HistoryShape /\ Len(reviews) <= Len(reviews')
    BY <1>1 DEF HistoryInv, HistoryShape, RunsShape
  <2>3. QED
    BY Zenon, <1>2, <1>3, <2>1, <2>2, OldRunHolds DEF HistoryInv
<1>7. QED
  BY Zenon, <1>2, <1>3, <1>4, <1>5, <1>6

LEMMA AttemptEnds ==
  ASSUME HistoryInv, attempt' = Nobody,
         UNCHANGED <<thread, mapping, answered, torn, saved, seen, reviews>>
  PROVE  HistoryInv'
BY Zenon, NothingWritten, NobodyHolds DEF HistoryInv, HistoryShape

LEMMA CommitKeeps == ASSUME HistoryInv, CommitsJob \/ CommitIsLost PROVE HistoryInv'
<1>1. attempt' = Nobody /\ UNCHANGED <<thread, mapping, answered, torn, saved, seen, reviews>>
  BY DEF CommitsJob, CommitIsLost
<1>2. QED
  BY Zenon, <1>1, AttemptEnds

LEMMA FailureKeeps == ASSUME HistoryInv, AttemptFails PROVE HistoryInv'
<1>1. /\ ~Doing("none") /\ attempt' = Nobody /\ reviews' = [reviews EXCEPT ![NewRun].status = "failed"]
      /\ UNCHANGED <<thread, mapping, answered, torn, saved, seen>>
  BY DEF AttemptFails
<1>2. PICK n \in DOMAIN reviews : n = NewRun
  BY Zenon, <1>1, NewRunIs
<1>3. reviews' = [reviews EXCEPT ![n].status = "failed"]
  BY Zenon, <1>1, <1>2
<1>4. /\ FindingsHold' /\ RunsShape(reviews')
      /\ \A j \in HistoryJobs : CheckpointHolds(j)'
      /\ \A q \in DOMAIN reviews' : RunHolds(q)'
  BY Zenon, <1>1, <1>3, RunFails
<1>5. SavedShape(saved')
  BY Zenon, <1>1 DEF HistoryInv, HistoryShape, SavedShape
<1>6. QED
  BY Zenon, <1>1, <1>4, <1>5, NobodyHolds DEF HistoryInv, HistoryShape

\* An attempt that begins has a run and a list of what to sync.
Starting(j, format, content) ==
  [Nobody EXCEPT !.step = "sync", !.job = j, !.format = format,
                 !.content = content, !.threads = thread, !.todo = Differing]
BeginsRun(j, run, old) ==
  /\ Doing("none") /\ run = [job |-> j, status |-> "in_progress", at |-> 0, result |-> FALSE,
                             snapshot |-> NoSnapshot, rows |-> NoRows]
  /\ reviews' = Append(reviews, run)
  /\ saved' = old
  /\ old = saved \/ (~saved[j].published /\ old = [saved EXCEPT ![j] = NoSaved])
  /\ \E format, content :
       /\ format \in {"git-raw-v2", "provider-diff"}
       /\ attempt' = Starting(j, format, content)
  /\ UNCHANGED <<thread, mapping, seen, answered, torn>>

LEMMA BeginsIs ==
  ASSUME NEW j \in HistoryJobs, Begins(j)
  PROVE  \/ Doing("none") /\ UNCHANGED <<thread, mapping, answered, torn, saved, seen, reviews, attempt>>
         \/ \E run, old : BeginsRun(j, run, old)
<1> DEFINE batch == KindOf[j] = "batch"
           head == IF batch THEN Tip ELSE task[j].head
           other == batch /\ saved[j] # NoSaved /\ saved[j].head # head
           over == other /\ (saved[j].published \/ j \in replied)
<1>1. CASE over
  BY Zenon, <1>1 DEF Begins
<1>2. CASE ~over /\ Refuses(head)
  BY Zenon, <1>2 DEF Begins
<1>3. CASE ~over /\ ~Refuses(head)
  <2>1. PICK run : run = [job |-> j, status |-> "in_progress", at |-> 0, result |-> FALSE,
                          snapshot |-> NoSnapshot, rows |-> NoRows]
    OBVIOUS
  <2>2. PICK old : old = IF other THEN [saved EXCEPT ![j] = NoSaved] ELSE saved
    OBVIOUS
  <2>3. /\ Doing("none") /\ reviews' = Append(reviews, run) /\ saved' = old
        /\ UNCHANGED <<thread, mapping, seen, answered, torn>>
    BY Zenon, <1>3, <2>1, <2>2 DEF Begins
  <2>4. \E format, content :
          /\ format \in {"git-raw-v2", "provider-diff"}
          /\ attempt' = Starting(j, format, content)
    <3>1. \E format \in {"git-raw-v2", "provider-diff"} :
            attempt' = Starting(j, format, FilesOf(head, format))
      BY Zenon, <1>3 DEF Begins, Starting
    <3>2. PICK format \in {"git-raw-v2", "provider-diff"} :
            attempt' = Starting(j, format, FilesOf(head, format))
      BY Zenon, <3>1
    <3>3. PICK content : content = FilesOf(head, format)
      OBVIOUS
    <3>4. attempt' = Starting(j, format, content)
      BY Zenon, <3>2, <3>3
    <3>5. QED
      BY <3>4
  <2>5. old = saved \/ (~saved[j].published /\ old = [saved EXCEPT ![j] = NoSaved])
    BY Zenon, <1>3, <2>2
  <2>6. BeginsRun(j, run, old)
    BY Zenon, <2>1, <2>3, <2>4, <2>5 DEF BeginsRun
  <2>7. QED
    BY Zenon, <2>6
<1>4. QED
  BY Zenon, <1>1, <1>2, <1>3

LEMMA BeginsRunKeeps ==
  ASSUME HistoryInv, NEW j \in HistoryJobs, NEW run, NEW old, BeginsRun(j, run, old)
  PROVE  HistoryInv'
<1>1. PICK no : no = FALSE
  OBVIOUS
<1>2. PICK nothing, rows : nothing = NoSnapshot /\ rows = NoRows
  OBVIOUS
<1>3. run = [job |-> j, status |-> "in_progress", at |-> 0, result |-> no, snapshot |-> nothing, rows |-> rows]
  BY Zenon, <1>1, <1>2 DEF BeginsRun
<1>4. /\ RunShape(run) /\ run.job = j /\ run.status = "in_progress" /\ run.at = 0 /\ run.result = no
      /\ run.snapshot = nothing /\ run.rows = rows
  BY <1>3 DEF RunShape
<1>5. PICK n : n = Len(reviews) + 1
  OBVIOUS
<1>6. Len(reviews) \in Nat /\ RunsShape(reviews) /\ DOMAIN reviews = 1 .. Len(reviews)
  BY Zenon, RunsKnown DEF HistoryInv, HistoryShape
<1>7. /\ RunsShape(reviews') /\ Len(reviews') = n /\ DOMAIN reviews' = 1 .. n
      /\ reviews'[n] = run
      /\ \A r \in DOMAIN reviews : r \in DOMAIN reviews' /\ r # n /\ reviews'[r] = reviews[r]
  <2>1. reviews' = Append(reviews, run)
    BY DEF BeginsRun
  <2>2. /\ RunsShape(reviews') /\ Len(reviews') = Len(reviews) + 1 /\ DOMAIN reviews' = 1 .. Len(reviews) + 1
        /\ reviews'[Len(reviews) + 1] = run
        /\ \A r \in DOMAIN reviews : r \in DOMAIN reviews' /\ r # Len(reviews) + 1 /\ reviews'[r] = reviews[r]
    <3>1. OneAdded(reviews, reviews', run)
      BY Zenon, <1>4, <1>6, <2>1, RunAdded
    <3>2. QED
      BY Zenon, <3>1 DEF OneAdded
  <2>3. QED
    BY Zenon, <1>5, <2>2
<1>8. n \in Nat /\ n > 0 /\ Len(reviews) <= Len(reviews') /\ \A r \in 1 .. n : r = n \/ r \in DOMAIN reviews
  BY <1>5, <1>6, <1>7
<1>9. /\ thread' = thread /\ mapping' = mapping /\ seen' = seen /\ answered' = answered /\ torn' = torn
      /\ Doing("none")
  BY DEF BeginsRun
<1>10. PICK first : first = NoSaved
  OBVIOUS
<1>11. /\ first = [head |-> 0, scope |-> "none", result |-> <<>>, published |-> no, content |-> <<>>]
       /\ first.result = <<>> /\ first.published = no
  <2>1. first = [head |-> 0, scope |-> "none", result |-> <<>>, published |-> no, content |-> <<>>]
    BY Zenon, <1>1, <1>10 DEF NoSaved
  <2>2. QED
    BY <2>1
<1>12. DOMAIN saved = HistoryJobs
  BY DEF HistoryInv, HistoryShape, SavedShape
<1>13. /\ DOMAIN saved' = HistoryJobs
       /\ \A k \in HistoryJobs : saved'[k] = saved[k] \/ (k = j /\ ~saved[k].published /\ saved'[k] = first)
  <2>1. saved' = saved \/ (~saved[j].published /\ saved' = [saved EXCEPT ![j] = first])
    BY Zenon, <1>10 DEF BeginsRun
  <2>2. QED
    BY <1>12, <2>1
<1>14. Carried
  <2>1. \A k \in HistoryJobs : saved[k].published => saved'[k] = saved[k]
    BY Zenon, <1>13
  <2>2. QED
    BY Zenon, <1>7, <1>9, <2>1 DEF Carried
<1>15. FindingsHold'
  <2>1. DOMAIN rows = Topics /\ \A f \in Topics : rows[f] = "none"
    BY <1>2 DEF NoRows
  <2>2. ASSUME NEW r \in DOMAIN reviews'
        PROVE  /\ DOMAIN reviews'[r].rows = Topics
               /\ \/ \A f \in Topics : reviews'[r].rows[f] \in {"none", "open"}
                  \/ /\ r \in DOMAIN reviews /\ reviews'[r].rows = reviews[r].rows
                     /\ reviews'[r].status = "completed" => reviews[r].status = "completed"
    <3>1. CASE r = n
      BY <1>4, <1>7, <2>1, <3>1
    <3>2. CASE r # n
      BY Zenon, <1>7, <1>8, <2>2, <3>2 DEF HistoryInv, FindingsHold
    <3>3. QED
      BY <3>1, <3>2
  <2>3. FindingsHold /\ UNCHANGED <<thread, mapping, answered, torn>>
    BY <1>9 DEF HistoryInv
  <2>4. QED
    BY Zenon, <2>2, <2>3, FindingsStay
<1>16. ASSUME NEW k \in HistoryJobs PROVE CheckpointHolds(k)'
  <2>1. CASE saved'[k] = saved[k]
    <3>1. \A f \in Topics : thread[f] # "none" => thread'[f] # "none"
      BY Zenon, <1>9
    <3>2. QED
      BY Zenon, <1>14, <2>1, <3>1, CheckpointStays DEF HistoryInv
  <2>2. CASE saved'[k] = first
    <3>1. saved'[k].result = <<>> /\ ~saved'[k].published
      BY <1>1, <1>11, <2>2
    <3>2. QED
      BY Zenon, <3>1 DEF CheckpointHolds
  <2>3. QED
    BY Zenon, <1>13, <2>1, <2>2
<1>17. ASSUME NEW r \in DOMAIN reviews' PROVE RunHolds(r)'
  <2>1. CASE r = n
    <3>1. /\ reviews'[r].job = j /\ reviews'[r].status = "in_progress" /\ reviews'[r].at = 0
          /\ ~reviews'[r].result
      BY <1>1, <1>4, <1>7, <2>1
    <3>2. reviews'[r].at \in 0 .. Len(reviews')
      BY <1>7, <1>8, <3>1
    <3>3. reviews'[r].status # "completed" /\ reviews'[r].job \in HistoryJobs \cup {0}
      BY <3>1
    <3>4. QED
      BY Zenon, <3>1, <3>2, <3>3 DEF RunHolds
  <2>2. CASE r # n
    <3>1. r \in DOMAIN reviews /\ reviews'[r] = reviews[r]
      BY Zenon, <1>7, <1>8, <1>17, <2>2
    <3>2. OldRun(r)
      BY Zenon, <3>1 DEF OldRun
    <3>3. HistoryShape
      BY DEF HistoryInv
    <3>4. QED
      BY Zenon, <1>7, <1>8, <1>14, <3>2, <3>3, OldRunHolds DEF HistoryInv
  <2>3. QED
    BY <2>1, <2>2
<1>18. PICK format, content :
         /\ format \in {"git-raw-v2", "provider-diff"}
         /\ attempt' = Starting(j, format, content)
  BY Zenon DEF BeginsRun
<1>19. attempt' = [step |-> "sync", job |-> j, content |-> content, format |-> format, threads |-> thread,
                   todo |-> Differing, previous |-> 0, scope |-> "none", result |-> <<>>, ready |-> no]
  <2>1. PICK differing, threads : differing = Differing /\ threads = thread
    OBVIOUS
  <2>2. PICK base : base = [step |-> "none", job |-> 0, content |-> <<>>, format |-> "none", threads |-> <<>>,
                            todo |-> {}, previous |-> 0, scope |-> "none", result |-> <<>>, ready |-> no]
    OBVIOUS
  <2>3. attempt' = [base EXCEPT !.step = "sync", !.job = j, !.format = format,
                       !.content = content, !.threads = threads, !.todo = differing]
    BY Zenon, <1>1, <1>18, <2>1, <2>2 DEF Nobody, Starting
  <2>4. attempt' = [step |-> "sync", job |-> j, content |-> content, format |-> format, threads |-> threads,
                    todo |-> differing, previous |-> 0, scope |-> "none", result |-> <<>>, ready |-> no]
    BY <2>2, <2>3
  <2>5. QED
    BY Zenon, <2>1, <2>4
<1>20. /\ AttemptShape(attempt') /\ attempt'.step = "sync" /\ attempt'.job = j /\ attempt'.format = format
       /\ attempt'.threads = thread /\ attempt'.todo = Differing /\ attempt'.scope = "none" /\ ~attempt'.ready
  <2>1. PICK differing, threads : differing = Differing /\ threads = thread
    OBVIOUS
  <2>2. attempt' = [step |-> "sync", job |-> j, content |-> content, format |-> format, threads |-> threads,
                    todo |-> differing, previous |-> 0, scope |-> "none", result |-> <<>>, ready |-> no]
    BY Zenon, <1>19, <2>1
  <2>3. QED
    BY <1>1, <2>1, <2>2 DEF AttemptShape
<1>21. ASSUME NEW f \in Topics PROVE f \in Differing \/ mapping[f] = thread[f]
  BY DEF Differing, HistoryInv, FindingsHold, FindingHolds
<1>22. RunOfAttempt'
  <2>1. /\ NewRun' = n /\ reviews'[n].job = j /\ reviews'[n].status = "in_progress" /\ ~reviews'[n].result
        /\ reviews'[n].at = 0 /\ reviews'[n].snapshot = NoSnapshot
        /\ \A f \in Topics : reviews'[n].rows[f] \in {"none", "open"}
    BY <1>1, <1>2, <1>4, <1>7 DEF NewRun, NoRows
  <2>2. attempt'.step \in {"sync", "finding", "hydrate"}
    BY <1>20
  <2>3. QED
    BY Zenon, <1>7, <1>8, <1>18, <1>20, <2>1, <2>2 DEF RunOfAttempt, Mine, NoSnapshot
<1>23. AttemptHolds'
  <2>1. Differing \subseteq Topics
    BY DEF Differing
  <2>2. \A f \in Topics : f \in attempt'.todo \/ mapping'[f] = attempt'.threads[f]
    BY Zenon, <1>9, <1>20, <1>21
  <2>3. attempt'.step = "sync"
    BY <1>20
  <2>4. QED
    BY <1>9, <1>20, <1>22, <2>1, <2>2, <2>3 DEF AttemptHolds, Doing
<1>24. SavedShape(saved')
  <2>1. SavedShape(saved)
    BY DEF HistoryInv, HistoryShape
  <2>2. ASSUME NEW k \in HistoryJobs
        PROVE  saved'[k] = [head |-> saved'[k].head, scope |-> saved'[k].scope, result |-> saved'[k].result,
                            published |-> saved'[k].published, content |-> saved'[k].content]
    <3>1. CASE saved'[k] = saved[k]
      BY Zenon, <2>1, <3>1 DEF SavedShape
    <3>2. CASE saved'[k] = first
      BY <1>11, <3>2
    <3>3. QED
      BY Zenon, <1>13, <3>1, <3>2
  <2>3. QED
    BY Zenon, <1>13, <2>2 DEF SavedShape
<1>25. QED
  BY Zenon, <1>7, <1>15, <1>16, <1>17, <1>20, <1>23, <1>24 DEF HistoryInv, HistoryShape

LEMMA BeginKeeps == ASSUME HistoryInv, NEW j \in HistoryJobs, Begins(j) PROVE HistoryInv'
<1>1. CASE Doing("none") /\ UNCHANGED <<thread, mapping, answered, torn, saved, seen, reviews, attempt>>
  <2>1. /\ attempt' = attempt /\ saved' = saved /\ mapping' = mapping /\ thread' = thread /\ reviews' = reviews
        /\ UNCHANGED <<thread, mapping, answered, torn, saved, seen, reviews>>
    BY <1>1
  <2>2. /\ Carried /\ FindingsHold' /\ RunsShape(reviews') /\ SavedShape(saved')
        /\ \A k \in HistoryJobs : CheckpointHolds(k)'
        /\ \A r \in DOMAIN reviews' : RunHolds(r)'
    BY Zenon, <2>1, NothingWritten
  <2>3. ~attempt.ready
    BY <1>1 DEF HistoryInv, AttemptHolds, Doing
  <2>4. Len(reviews') = Len(reviews) /\ \A f \in Topics : thread[f] # "none" => thread'[f] # "none"
    BY Zenon, <2>1
  <2>5. AttemptHolds'
    BY Zenon, <1>1, <2>1, <2>2, <2>3, <2>4, AttemptStays
  <2>6. AttemptShape(attempt')
    BY Zenon, <2>1 DEF HistoryInv, HistoryShape, AttemptShape
  <2>7. QED
    BY Zenon, <2>2, <2>5, <2>6 DEF HistoryInv, HistoryShape
<1>2. CASE \E run, old : BeginsRun(j, run, old)
  BY Zenon, <1>2, BeginsRunKeeps
<1>3. QED
  BY Zenon, <1>1, <1>2, BeginsIs

\* Only rows of findings are written.
OnlyRows(old, list) ==
  /\ RunsShape(list) /\ Len(list) = Len(old) /\ DOMAIN list = DOMAIN old
  /\ \A r \in DOMAIN old :
       /\ list[r].job = old[r].job /\ list[r].status = old[r].status /\ list[r].at = old[r].at
       /\ list[r].result = old[r].result /\ list[r].snapshot = old[r].snapshot
WithRows(old, list, r) == \E rows : list[r] = [old[r] EXCEPT !.rows = rows]

LEMMA RowsChange ==
  ASSUME NEW old, RunsShape(old), NEW list, list = [r \in DOMAIN old |-> list[r]],
         \A r \in DOMAIN old : WithRows(old, list, r)
  PROVE  OnlyRows(old, list)
<1>1. PICK m \in Nat : m = Len(old) /\ DOMAIN old = 1 .. m
  BY RunsKnown
<1>2. ASSUME NEW r \in DOMAIN old
      PROVE  /\ RunShape(list[r])
             /\ list[r].job = old[r].job /\ list[r].status = old[r].status /\ list[r].at = old[r].at
             /\ list[r].result = old[r].result /\ list[r].snapshot = old[r].snapshot
  <2>1. PICK rows : list[r] = [old[r] EXCEPT !.rows = rows]
    BY Zenon DEF WithRows
  <2>2. PICK j, s, a, u, c, w : /\ j = old[r].job /\ s = old[r].status /\ a = old[r].at
                                /\ u = old[r].result /\ c = old[r].snapshot /\ w = old[r].rows
    OBVIOUS
  <2>3. old[r] = [job |-> j, status |-> s, at |-> a, result |-> u, snapshot |-> c, rows |-> w]
    BY Zenon, <2>2, RunsKnown DEF RunShape
  <2>4. list[r] = [job |-> j, status |-> s, at |-> a, result |-> u, snapshot |-> c, rows |-> rows]
    BY <2>1, <2>3
  <2>5. PICK run : run = list[r]
    OBVIOUS
  <2>6. RunShape(run) /\ run.job = j /\ run.status = s /\ run.at = a /\ run.result = u /\ run.snapshot = c
    BY <2>4, <2>5 DEF RunShape
  <2>7. QED
    BY Zenon, <2>2, <2>5, <2>6
<1>3. list = [r \in 1 .. m |-> list[r]] /\ \A r \in 1 .. m : RunShape(list[r])
  BY Zenon, <1>1, <1>2
<1>4. RunsShape(list) /\ Len(list) = m /\ DOMAIN list = 1 .. m
  BY Zenon, <1>3, RunsAre
<1>5. QED
  BY Zenon, <1>1, <1>2, <1>4 DEF OnlyRows

\* What does not depend on the rows stays.
LEMMA RowsOnly ==
  ASSUME HistoryInv, OnlyRows(reviews, reviews'), seen' = seen,
         \A f \in Topics : thread[f] # "none" => thread'[f] # "none",
         \A j \in HistoryJobs :
           saved[j].published => /\ saved'[j].result = saved[j].result /\ saved'[j].content = saved[j].content
                                 /\ saved'[j].published
  PROVE  /\ Carried /\ RunsShape(reviews')
         /\ \A j \in HistoryJobs : saved'[j] = saved[j] => CheckpointHolds(j)'
         /\ \A r \in DOMAIN reviews' : RunHolds(r)'
<1>1. /\ RunsShape(reviews') /\ Len(reviews') = Len(reviews) /\ DOMAIN reviews' = DOMAIN reviews
      /\ \A r \in DOMAIN reviews :
           /\ reviews'[r].job = reviews[r].job /\ reviews'[r].status = reviews[r].status
           /\ reviews'[r].at = reviews[r].at
           /\ reviews'[r].result = reviews[r].result /\ reviews'[r].snapshot = reviews[r].snapshot
  BY Zenon DEF OnlyRows
<1>2. Carried
  BY Zenon, <1>1 DEF Carried
<1>3. ASSUME NEW j \in HistoryJobs, saved'[j] = saved[j] PROVE CheckpointHolds(j)'
  BY Zenon, <1>2, <1>3, CheckpointStays DEF HistoryInv
<1>4. ASSUME NEW r \in DOMAIN reviews' PROVE RunHolds(r)'
  <2>1. OldRun(r)
    BY Zenon, <1>1, <1>4 DEF OldRun
  <2>2. HistoryShape /\ Len(reviews) <= Len(reviews')
    BY <1>1 DEF HistoryInv, HistoryShape, RunsShape
  <2>3. QED
    BY Zenon, <1>1, <1>2, <2>1, <2>2, OldRunHolds DEF HistoryInv
<1>5. QED
  BY Zenon, <1>1, <1>2, <1>3, <1>4

LEMMA MappingKeeps == ASSUME HistoryInv, NEW f \in Topics, SyncsMapping(f) PROVE HistoryInv'
<1>1. /\ Doing("sync") /\ f \in attempt.todo /\ mapping' = [mapping EXCEPT ![f] = attempt.threads[f]]
      /\ torn' = torn \cup {f} /\ attempt' = [attempt EXCEPT !.step = "finding", !.todo = attempt.todo \ {f}]
      /\ thread' = thread /\ saved' = saved /\ reviews' = reviews /\ seen' = seen /\ answered' = answered
  BY DEF SyncsMapping
<1>2. AttemptShape(attempt)
  BY DEF HistoryInv, HistoryShape
<1>3. /\ AttemptShape(attempt') /\ SameTask(attempt, attempt') /\ attempt'.step = "finding"
      /\ attempt'.todo = attempt.todo \ {f} /\ attempt'.scope = attempt.scope /\ attempt'.ready = attempt.ready
  <2>1. ChangedTo(attempt, attempt', "finding", attempt.todo \ {f}, attempt.previous, attempt.scope,
                  attempt.result, attempt.ready)
    BY Zenon, <1>1, <1>2, AttemptChanges
  <2>2. QED
    BY Zenon, <2>1 DEF ChangedTo
<1>4. /\ attempt.scope = "none" /\ attempt.todo \subseteq Topics /\ attempt.threads = thread
      /\ \A g \in Topics : g \in attempt.todo \/ mapping[g] = thread[g]
      /\ ~attempt.ready
  BY <1>1 DEF HistoryInv, AttemptHolds, Doing
<1>5. /\ DOMAIN mapping' = Topics /\ mapping'[f] = thread[f]
      /\ \A g \in Topics : g # f => mapping'[g] = mapping[g]
  BY <1>1, <1>4 DEF HistoryInv, FindingsHold
<1>6. FindingsHold'
  <2>1. ASSUME NEW g \in Topics PROVE FindingHolds(g)'
    <3>1. FindingHolds(g)
      BY Zenon DEF HistoryInv, FindingsHold
    <3>2. Completed' = Completed
      BY Zenon, <1>1 DEF Completed
    <3>3. CASE g = f
      <4>1. /\ thread'[g] \in {"none", "open", "resolved"} /\ mapping'[g] = thread'[g] /\ g \in torn'
        BY <1>1, <1>5, <3>1, <3>3 DEF FindingHolds
      <4>2. QED
        BY <1>1, <3>1, <3>2, <4>1 DEF FindingHolds
    <3>4. CASE g # f
      <4>1. mapping'[g] = mapping[g] /\ (g \in torn => g \in torn')
        BY <1>1, <1>5, <3>4
      <4>2. QED
        BY <1>1, <3>1, <3>2, <4>1 DEF FindingHolds
    <3>5. QED
      BY <3>3, <3>4
  <2>2. QED
    BY Zenon, <1>1, <1>5, <2>1 DEF HistoryInv, FindingsHold
<1>7. /\ RunsShape(reviews') /\ SavedShape(saved') /\ Carried
      /\ \A j \in HistoryJobs : CheckpointHolds(j)'
      /\ \A r \in DOMAIN reviews' : RunHolds(r)'
  <2>1. RunsShape(reviews) /\ SavedShape(saved)
    BY DEF HistoryInv, HistoryShape
  <2>2. OnlyRows(reviews, reviews')
    BY Zenon, <1>1, <2>1 DEF OnlyRows, RunsShape
  <2>3. SavedShape(saved')
    BY Zenon, <1>1, <2>1 DEF SavedShape
  <2>4. /\ \A g \in Topics : thread[g] # "none" => thread'[g] # "none"
        /\ \A j \in HistoryJobs : saved'[j] = saved[j]
    BY Zenon, <1>1
  <2>5. QED
    BY Zenon, <1>1, <2>2, <2>3, <2>4, RowsOnly
<1>8. RunOfAttempt'
  <2>1. ~Doing("none")
    BY <1>1 DEF Doing
  <2>2. RunOfAttempt
    BY Zenon, <2>1, NewRunIs
  <2>3. /\ ~Doing("commit") /\ attempt'.step \in {"sync", "finding", "hydrate"}
        /\ attempt.step \in {"sync", "finding", "hydrate"}
    BY <1>1, <1>3 DEF Doing
  <2>4. NewRun' = NewRun /\ Mine' = Mine /\ attempt'.format = attempt.format
    BY Zenon, <1>1, <1>3 DEF NewRun, Mine, SameTask
  <2>5. QED
    BY Zenon, <1>1, <2>2, <2>3, <2>4 DEF RunOfAttempt, NoSnapshot
<1>9. AttemptHolds'
  <2>1. attempt'.threads = thread' /\ attempt'.scope = "none" /\ attempt'.todo \subseteq Topics /\ ~attempt'.ready
    BY <1>1, <1>3, <1>4 DEF SameTask
  <2>2. \A g \in Topics : g \in attempt'.todo \/ mapping'[g] = attempt'.threads[g]
    BY <1>1, <1>3, <1>4, <1>5, <2>1
  <2>3. QED
    BY <1>3, <1>8, <2>1, <2>2 DEF AttemptHolds, Doing
<1>10. QED
  BY Zenon, <1>3, <1>6, <1>7, <1>9 DEF HistoryInv, HistoryShape

\* A row of one finding is written.
RowIs(old, run, f, status) ==
  /\ \E rows : run = [old EXCEPT !.rows = rows]
  /\ DOMAIN run.rows = Topics /\ run.rows[f] = status
  /\ \A g \in Topics : g # f => run.rows[g] = old.rows[g]
LEMMA RowWritten ==
  ASSUME NEW old, RunShape(old), DOMAIN old.rows = Topics, NEW f \in Topics, NEW status, NEW run,
         run = [old EXCEPT !.rows[f] = status]
  PROVE  RowIs(old, run, f, status)
<1>1. PICK rows : rows = [old.rows EXCEPT ![f] = status]
  OBVIOUS
<1>2. run = [old EXCEPT !.rows = rows]
  BY <1>1
<1>3. PICK j, s, a, u, c, w : /\ j = old.job /\ s = old.status /\ a = old.at
                              /\ u = old.result /\ c = old.snapshot /\ w = old.rows
  OBVIOUS
<1>4. old = [job |-> j, status |-> s, at |-> a, result |-> u, snapshot |-> c, rows |-> w]
  BY Zenon, <1>3 DEF RunShape
<1>5. run = [job |-> j, status |-> s, at |-> a, result |-> u, snapshot |-> c, rows |-> rows]
  BY <1>2, <1>4
<1>6. run.rows = rows
  BY <1>5
<1>7. DOMAIN rows = Topics /\ rows[f] = status /\ \A g \in Topics : g # f => rows[g] = old.rows[g]
  BY <1>1
<1>8. QED
  BY Zenon, <1>2, <1>6, <1>7 DEF RowIs

LEMMA SameRows ==
  ASSUME NEW old, NEW list, NEW r, RunShape(old[r]), list[r] = old[r]
  PROVE  WithRows(old, list, r)
<1>1. PICK j, s, a, u, c, w : /\ j = old[r].job /\ s = old[r].status /\ a = old[r].at
                              /\ u = old[r].result /\ c = old[r].snapshot /\ w = old[r].rows
  OBVIOUS
<1>2. old[r] = [job |-> j, status |-> s, at |-> a, result |-> u, snapshot |-> c, rows |-> w]
  BY Zenon, <1>1 DEF RunShape
<1>3. list[r] = [old[r] EXCEPT !.rows = w]
  BY <1>2
<1>4. QED
  BY Zenon, <1>3 DEF WithRows

LEMMA FindingKeeps == ASSUME HistoryInv, NEW f \in Topics, SyncsFinding(f) PROVE HistoryInv'
<1> DEFINE touched(r) == r \in With(f, Completed) /\ reviews[r].rows[f] \in {"open", "resolved"}
<1>1. PICK status : status = attempt.threads[f]
  OBVIOUS
<1>2. /\ Doing("finding") /\ f \notin attempt.todo /\ mapping[f] = status
      /\ torn' = torn \ {f} /\ attempt' = [attempt EXCEPT !.step = "sync"]
      /\ thread' = thread /\ mapping' = mapping /\ saved' = saved /\ seen' = seen /\ answered' = answered
      /\ reviews' = [r \in DOMAIN reviews |->
                       IF touched(r) THEN [reviews[r] EXCEPT !.rows[f] = status] ELSE reviews[r]]
  BY Zenon, <1>1 DEF SyncsFinding, Marked, Turns
<1>3. AttemptShape(attempt) /\ RunsShape(reviews)
  BY DEF HistoryInv, HistoryShape
<1>4. /\ AttemptShape(attempt') /\ SameTask(attempt, attempt') /\ attempt'.step = "sync"
      /\ attempt'.todo = attempt.todo /\ attempt'.scope = attempt.scope /\ attempt'.ready = attempt.ready
  <2>1. ChangedTo(attempt, attempt', "sync", attempt.todo, attempt.previous, attempt.scope,
                  attempt.result, attempt.ready)
    BY Zenon, <1>2, <1>3, AttemptChanges
  <2>2. QED
    BY Zenon, <2>1 DEF ChangedTo
<1>5. /\ attempt.scope = "none" /\ attempt.todo \subseteq Topics /\ attempt.threads = thread
      /\ \A g \in Topics : g \in attempt.todo \/ mapping[g] = thread[g]
      /\ ~attempt.ready
  BY <1>2 DEF HistoryInv, AttemptHolds, Doing
<1>6. \A r \in DOMAIN reviews : RunShape(reviews[r]) /\ DOMAIN reviews[r].rows = Topics
  BY Zenon, <1>3, RunsKnown DEF HistoryInv, FindingsHold
<1>7. ASSUME NEW r \in DOMAIN reviews
      PROVE  /\ touched(r) => reviews'[r] = [reviews[r] EXCEPT !.rows[f] = status]
             /\ ~touched(r) => reviews'[r] = reviews[r]
  BY <1>2
<1>8. ASSUME NEW r \in DOMAIN reviews
      PROVE  /\ WithRows(reviews, reviews', r) /\ DOMAIN reviews'[r].rows = Topics
             /\ reviews'[r].rows[f] = IF touched(r) THEN status ELSE reviews[r].rows[f]
             /\ \A g \in Topics : g # f => reviews'[r].rows[g] = reviews[r].rows[g]
  <2>1. CASE touched(r)
    <3>1. PICK old, run : old = reviews[r] /\ run = reviews'[r]
      OBVIOUS
    <3>2. RunShape(old) /\ DOMAIN old.rows = Topics /\ run = [old EXCEPT !.rows[f] = status]
      BY Zenon, <1>6, <1>7, <2>1, <3>1
    <3>3. RowIs(old, run, f, status)
      BY <3>2, RowWritten
    <3>4. \A g \in Topics : g # f => run.rows[g] = old.rows[g]
      BY Zenon, <3>3 DEF RowIs
    <3>5. WithRows(reviews, reviews', r)
      BY Zenon, <3>1, <3>3 DEF WithRows, RowIs
    <3>6. DOMAIN run.rows = Topics /\ run.rows[f] = status
      BY Zenon, <3>3 DEF RowIs
    <3>7. QED
      BY Zenon, <2>1, <3>1, <3>4, <3>5, <3>6
  <2>2. CASE ~touched(r)
    BY Zenon, <1>6, <1>7, <2>2, SameRows
  <2>3. QED
    BY Zenon, <2>1, <2>2
<1> HIDE DEF touched
<1>9. OnlyRows(reviews, reviews')
  <2>1. reviews' = [r \in DOMAIN reviews |-> reviews'[r]]
    BY <1>2
  <2>2. QED
    BY Zenon, <1>3, <1>8, <2>1, RowsChange
<1>10. /\ Carried /\ RunsShape(reviews')
       /\ \A j \in HistoryJobs : CheckpointHolds(j)'
       /\ \A r \in DOMAIN reviews' : RunHolds(r)'
  <2>1. \A g \in Topics : thread[g] # "none" => thread'[g] # "none"
    BY Zenon, <1>2
  <2>2. QED
    BY Zenon, <1>2, <1>9, <2>1, RowsOnly
<1>11. /\ DOMAIN reviews' = DOMAIN reviews
       /\ \A r \in DOMAIN reviews : reviews'[r].status = reviews[r].status
  BY Zenon, <1>9 DEF OnlyRows
<1>12. FindingsHold'
  <2>1. ASSUME NEW g \in Topics PROVE FindingHolds(g)'
    <3>1. FindingHolds(g)
      BY Zenon DEF HistoryInv, FindingsHold
    <3>2. Completed' = Completed
      BY <1>11 DEF Completed
    <3>3. CASE g = f
      <4>1. status \in {"none", "open", "resolved"}
        BY <1>2, <3>1, <3>3 DEF FindingHolds
      <4>2. ASSUME NEW r \in DOMAIN reviews'
            PROVE  /\ reviews'[r].rows[g] \in {"none", "open", "resolved", "dismissed"}
                   /\ r \in Completed /\ reviews'[r].rows[g] = "dismissed" => g \in answered
                   /\ r \in Completed /\ reviews'[r].rows[g] = "resolved" => mapping[g] # "open"
        <5>1. CASE touched(r)
          BY <1>2, <1>8, <1>11, <3>3, <4>1, <4>2, <5>1
        <5>2. CASE ~touched(r)
          BY <1>8, <1>11, <3>1, <3>3, <4>2, <5>2 DEF touched, With, FindingHolds
        <5>3. QED
          BY <5>1, <5>2
      <4>3. Completed \subseteq DOMAIN reviews'
        BY <1>11 DEF Completed
      <4>4. QED
        BY <1>2, <3>1, <3>2, <4>2, <4>3 DEF FindingHolds
    <3>4. CASE g # f
      <4>1. \A r \in DOMAIN reviews' : reviews'[r].rows[g] = reviews[r].rows[g]
        BY <1>8, <1>11, <3>4
      <4>2. (g \in torn => g \in torn') /\ Completed \subseteq DOMAIN reviews'
        BY <1>2, <1>11, <3>4 DEF Completed
      <4>3. QED
        BY <1>2, <1>11, <3>1, <3>2, <4>1, <4>2 DEF FindingHolds
    <3>5. QED
      BY <3>3, <3>4
  <2>2. QED
    BY Zenon, <1>2, <1>8, <1>11, <2>1 DEF HistoryInv, FindingsHold
<1>13. SavedShape(saved')
  BY Zenon, <1>2 DEF HistoryInv, HistoryShape, SavedShape
<1>14. RunOfAttempt'
  <2>1. ~Doing("none") /\ ~Doing("commit")
    BY <1>2 DEF Doing
  <2>2. RunOfAttempt /\ NewRun \in DOMAIN reviews
    BY Zenon, <2>1, NewRunIs
  <2>3. /\ attempt'.step \in {"sync", "finding", "hydrate"} /\ attempt.step \in {"sync", "finding", "hydrate"}
    BY <1>2, <1>4 DEF Doing
  <2>4. NewRun' = NewRun /\ Mine' = Mine /\ attempt'.format = attempt.format
    BY Zenon, <1>4, <1>9 DEF NewRun, Mine, SameTask, OnlyRows
  <2>5. ~touched(NewRun)
    BY <2>1, <2>2 DEF touched, With, Completed, RunOfAttempt
  <2>6. reviews'[NewRun] = reviews[NewRun]
    BY <1>2, <2>2, <2>5
  <2>7. Len(reviews') = Len(reviews)
    BY Zenon, <1>9 DEF OnlyRows
  <2>8. QED
    BY Zenon, <2>1, <2>2, <2>3, <2>4, <2>6, <2>7 DEF RunOfAttempt, NoSnapshot
<1>15. AttemptHolds'
  <2>1. attempt'.threads = thread' /\ attempt'.scope = "none" /\ attempt'.todo \subseteq Topics /\ ~attempt'.ready
    BY <1>2, <1>4, <1>5 DEF SameTask
  <2>2. \A g \in Topics : g \in attempt'.todo \/ mapping'[g] = attempt'.threads[g]
    BY <1>2, <1>4, <1>5, <2>1
  <2>3. QED
    BY <1>4, <1>14, <2>1, <2>2 DEF AttemptHolds, Doing
<1>16. QED
  BY Zenon, <1>4, <1>10, <1>12, <1>13, <1>15 DEF HistoryInv, HistoryShape

\* There is a latest of some runs.
LEMMA LatestIs ==
  ASSUME HistoryInv, NEW rs, rs \subseteq DOMAIN reviews, rs # {}
  PROVE  Latest(rs) \in rs /\ \A q \in rs : reviews[q].at <= reviews[Latest(rs)].at
<1>1. PICK n \in Nat : n = Len(reviews)
  BY RunsKnown DEF HistoryInv, HistoryShape
<1>2. \A r \in rs : reviews[r].at \in 0 .. n
  BY Zenon, <1>1 DEF HistoryInv, RunHolds
<1>3. PICK S : S = {n - reviews[r].at : r \in rs}
  OBVIOUS
<1>4. S \in SUBSET Nat /\ S # {}
  BY <1>2, <1>3
<1>5. PICK m \in S : \A k \in S : m <= k
  <2> DEFINE Less == {ss \in Nat \X Nat : ss[1] < ss[2]}
  <2>1. IsWellFoundedOn(Less, Nat)
    BY NatLessThanWellFounded DEF OpToRel
  <2>2. \A a, b \in Nat : <<a, b>> \in Less <=> a < b
    OBVIOUS
  <2> HIDE DEF Less
  <2>3. PICK a \in S : \A b \in S : ~(<<b, a>> \in Less)
    BY <1>4, <2>1, WFMin
  <2>4. a \in Nat /\ \A b \in S : b \in Nat /\ ~(b < a)
    BY Zenon, <1>4, <2>2, <2>3
  <2>5. \A b \in S : a <= b
    BY <2>4
  <2>6. QED
    BY Zenon, <2>5
<1>6. PICK r \in rs : m = n - reviews[r].at
  BY <1>3
<1>7. ASSUME NEW q \in rs PROVE reviews[q].at <= reviews[r].at
  <2>1. PICK a, b : a = reviews[q].at /\ b = reviews[r].at
    OBVIOUS
  <2>2. a \in 0 .. n /\ b \in 0 .. n
    BY Zenon, <1>2, <2>1
  <2>3. n - a \in S
    BY Zenon, <1>3, <2>1
  <2>4. n - b <= n - a
    BY Zenon, <1>5, <1>6, <2>1, <2>3
  <2>5. a <= b
    BY <2>2, <2>4
  <2>6. QED
    BY Zenon, <2>1, <2>5
<1>8. QED
  BY Zenon, <1>7 DEF Latest

LEMMA PreviousIs ==
  ASSUME HistoryInv
  PROVE  Previous(Mine) = 0 \/ (Previous(Mine) \in DOMAIN reviews /\ reviews[Previous(Mine)].result)
<1>1. PICK rs : rs = Baselines(Mine)
  OBVIOUS
<1>2. rs \subseteq DOMAIN reviews /\ \A r \in rs : reviews[r].result
  BY <1>1 DEF Baselines, Completed
<1>3. CASE rs = {}
  BY Zenon, <1>1, <1>3 DEF Previous
<1>4. CASE rs # {}
  <2>1. Latest(rs) \in rs /\ Previous(Mine) = Latest(rs)
    BY Zenon, <1>1, <1>2, <1>4, LatestIs DEF Previous
  <2>2. QED
    BY <1>2, <2>1
<1>5. QED
  BY <1>3, <1>4

\* A checkpoint begins with its routing.
Routed(old, scope) ==
  \/ saved' = saved
  \/ saved[Mine] = NoSaved /\ saved' = [saved EXCEPT ![Mine] = old]
     /\ old.result = <<>> /\ ~old.published
     /\ old = [head |-> old.head, scope |-> old.scope, result |-> old.result,
               published |-> old.published, content |-> old.content]
LEMMA RoutesIs ==
  ASSUME Routes
  PROVE  /\ Doing("sync") /\ attempt.todo = {}
         /\ UNCHANGED <<thread, reviews, mapping, seen, answered, torn>>
         /\ \E scope, step, old :
              /\ (scope = "none" /\ step = "reply") \/ (scope # "none" /\ step = "hydrate")
              /\ attempt' = [attempt EXCEPT !.previous = Previous(Mine), !.scope = scope, !.step = step]
              /\ Routed(old, scope)
<1>1. PICK scope :
        /\ attempt' = [attempt EXCEPT !.previous = Previous(Mine), !.scope = scope,
                         !.step = IF scope = "none" THEN "reply" ELSE "hydrate"]
        /\ saved' = IF Kind = "batch" /\ ~Checkpointed
                    THEN [saved EXCEPT ![Mine] = [NoSaved EXCEPT !.head = task[Mine].head, !.scope = scope]]
                    ELSE saved
  BY Zenon DEF Routes
<1>2. PICK step : step = IF scope = "none" THEN "reply" ELSE "hydrate"
  OBVIOUS
<1>3. PICK no : no = FALSE
  OBVIOUS
<1>4. PICK old : old = [NoSaved EXCEPT !.head = task[Mine].head, !.scope = scope]
  OBVIOUS
<1>5. /\ old.result = <<>> /\ ~old.published
      /\ old = [head |-> old.head, scope |-> old.scope, result |-> old.result,
                published |-> old.published, content |-> old.content]
  <2>1. PICK first : first = NoSaved
    OBVIOUS
  <2>2. PICK head : head = task[Mine].head
    OBVIOUS
  <2>3. first = [head |-> 0, scope |-> "none", result |-> <<>>, published |-> no, content |-> <<>>]
    BY Zenon, <1>3, <2>1 DEF NoSaved
  <2>4. old = [first EXCEPT !.head = head, !.scope = scope]
    BY Zenon, <1>4, <2>1, <2>2
  <2>5. old = [head |-> head, scope |-> scope, result |-> <<>>, published |-> no, content |-> <<>>]
    BY <2>3, <2>4
  <2>6. QED
    BY <1>3, <2>5
<1>6. Routed(old, scope)
  <2>1. CASE Kind = "batch" /\ ~Checkpointed
    <3>1. saved[Mine] = NoSaved
      BY Zenon, <2>1 DEF Checkpointed
    <3>2. saved' = [saved EXCEPT ![Mine] = old]
      BY Zenon, <1>1, <1>4, <2>1
    <3>3. QED
      BY Zenon, <1>5, <3>1, <3>2 DEF Routed
  <2>2. CASE ~(Kind = "batch" /\ ~Checkpointed)
    BY Zenon, <1>1, <2>2 DEF Routed
  <2>3. QED
    BY Zenon, <2>1, <2>2
<1>7. attempt' = [attempt EXCEPT !.previous = Previous(Mine), !.scope = scope, !.step = step]
  BY Zenon, <1>1, <1>2
<1>8. (scope = "none" /\ step = "reply") \/ (scope # "none" /\ step = "hydrate")
  BY Zenon, <1>2
<1>9. /\ Doing("sync") /\ attempt.todo = {}
      /\ UNCHANGED <<thread, reviews, mapping, seen, answered, torn>>
  BY DEF Routes
<1>10. QED
  BY <1>6, <1>7, <1>8, <1>9

LEMMA RouteKeeps == ASSUME HistoryInv, Routes PROVE HistoryInv'
<1>1. /\ Doing("sync") /\ attempt.todo = {}
      /\ UNCHANGED <<thread, reviews, mapping, seen, answered, torn>>
  BY Zenon, RoutesIs
<1>2. PICK scope, step, old :
        /\ (scope = "none" /\ step = "reply") \/ (scope # "none" /\ step = "hydrate")
        /\ attempt' = [attempt EXCEPT !.previous = Previous(Mine), !.scope = scope, !.step = step]
        /\ Routed(old, scope)
  BY Zenon, RoutesIs
<1>3. thread' = thread /\ reviews' = reviews /\ mapping' = mapping /\ seen' = seen /\ answered' = answered
      /\ torn' = torn
  BY <1>1
<1>4. AttemptShape(attempt) /\ RunsShape(reviews) /\ SavedShape(saved) /\ DOMAIN saved = HistoryJobs
  BY DEF HistoryInv, HistoryShape, SavedShape
<1>5. /\ AttemptShape(attempt') /\ SameTask(attempt, attempt') /\ attempt'.step = step
      /\ attempt'.todo = attempt.todo /\ attempt'.previous = Previous(Mine) /\ attempt'.scope = scope
      /\ attempt'.ready = attempt.ready
  <2>1. ChangedTo(attempt, attempt', step, attempt.todo, Previous(Mine), scope, attempt.result, attempt.ready)
    BY Zenon, <1>2, <1>4, AttemptChanges
  <2>2. QED
    BY Zenon, <2>1 DEF ChangedTo
<1>6. /\ \A g \in Topics : g \in attempt.todo \/ mapping[g] = attempt.threads[g]
      /\ ~attempt.ready /\ RunOfAttempt /\ Mine \in HistoryJobs
  BY <1>1 DEF HistoryInv, AttemptHolds, Doing, RunOfAttempt
<1>7. /\ DOMAIN saved' = HistoryJobs
      /\ \A k \in HistoryJobs : saved'[k] = saved[k] \/ (saved[k] = NoSaved /\ saved'[k] = old
                                                         /\ old.result = <<>> /\ ~old.published
                                                         /\ old = [head |-> old.head, scope |-> old.scope,
                                                                   result |-> old.result,
                                                                   published |-> old.published,
                                                                   content |-> old.content])
  <2>1. CASE saved' = saved
    BY Zenon, <1>4, <2>1
  <2>2. CASE saved' # saved
    <3>1. PICK nothing : nothing = NoSaved
      OBVIOUS
    <3>2. /\ saved[Mine] = nothing /\ saved' = [saved EXCEPT ![Mine] = old]
          /\ old.result = <<>> /\ ~old.published
          /\ old = [head |-> old.head, scope |-> old.scope, result |-> old.result,
                    published |-> old.published, content |-> old.content]
      BY Zenon, <1>2, <2>2, <3>1 DEF Routed
    <3>3. DOMAIN saved' = HistoryJobs /\ saved'[Mine] = old
          /\ \A k \in HistoryJobs : k # Mine => saved'[k] = saved[k]
      BY <1>4, <1>6, <3>2
    <3>4. QED
      BY Zenon, <3>1, <3>2, <3>3
  <2>3. QED
    BY Zenon, <2>1, <2>2
<1>8. \A k \in HistoryJobs : saved[k].published => saved'[k] = saved[k]
  <2>1. PICK no, nothing : no = FALSE /\ nothing = NoSaved
    OBVIOUS
  <2>2. nothing = [head |-> 0, scope |-> "none", result |-> <<>>, published |-> no, content |-> <<>>]
    BY Zenon, <2>1 DEF NoSaved
  <2>3. ~nothing.published
    BY <2>1, <2>2
  <2>4. QED
    BY Zenon, <1>7, <2>1, <2>3
<1>9. Carried
  BY Zenon, <1>3, <1>8 DEF Carried
<1>10. ASSUME NEW k \in HistoryJobs PROVE CheckpointHolds(k)'
  <2>1. CASE saved'[k] = saved[k]
    <3>1. \A f \in Topics : thread[f] # "none" => thread'[f] # "none"
      BY Zenon, <1>3
    <3>2. QED
      BY Zenon, <1>9, <2>1, <3>1, CheckpointStays DEF HistoryInv
  <2>2. CASE saved'[k].result = <<>> /\ ~saved'[k].published
    BY Zenon, <2>2 DEF CheckpointHolds
  <2>3. QED
    BY Zenon, <1>7, <2>1, <2>2
<1>11. ASSUME NEW r \in DOMAIN reviews' PROVE RunHolds(r)'
  <2>1. OldRun(r)
    BY Zenon, <1>3, <1>11 DEF OldRun
  <2>2. HistoryShape /\ RunsShape(reviews') /\ Len(reviews) <= Len(reviews')
    BY <1>3, <1>4 DEF HistoryInv, RunsShape
  <2>3. QED
    BY Zenon, <1>9, <2>1, <2>2, OldRunHolds DEF HistoryInv
<1>12. FindingsHold'
  <2>1. ASSUME NEW r \in DOMAIN reviews'
        PROVE  /\ DOMAIN reviews'[r].rows = Topics
               /\ r \in DOMAIN reviews /\ reviews'[r].rows = reviews[r].rows
               /\ reviews'[r].status = "completed" => reviews[r].status = "completed"
    BY Zenon, <1>3, <2>1 DEF HistoryInv, FindingsHold
  <2>2. FindingsHold /\ UNCHANGED <<thread, mapping, answered, torn>>
    BY <1>3 DEF HistoryInv
  <2>3. QED
    BY Zenon, <2>1, <2>2, FindingsStay
<1>13. SavedShape(saved')
  BY Zenon, <1>4, <1>7 DEF SavedShape
<1>14. RunOfAttempt'
  <2>1. NewRun' = NewRun /\ Mine' = Mine /\ attempt'.format = attempt.format
    BY Zenon, <1>3, <1>5 DEF NewRun, Mine, SameTask
  <2>2. attempt.step \in {"sync", "finding", "hydrate"} /\ ~Doing("commit")
    BY <1>1 DEF Doing
  <2>3. attempt'.step \in {"sync", "finding", "hydrate"} \/ attempt'.scope = "none"
    BY <1>2, <1>5
  <2>4. QED
    BY Zenon, <1>3, <1>6, <2>1, <2>2, <2>3 DEF RunOfAttempt, NoSnapshot
<1>15. AttemptHolds'
  <2>1. \A g \in Topics : g \in attempt'.todo \/ mapping'[g] = attempt'.threads[g]
    BY Zenon, <1>3, <1>5, <1>6 DEF SameTask
  <2>2. /\ attempt'.previous = 0
           \/ (attempt'.previous \in DOMAIN reviews' /\ reviews'[attempt'.previous].result)
    BY Zenon, <1>3, <1>5, PreviousIs
  <2>3. ~attempt'.ready /\ attempt'.todo = {}
    BY <1>1, <1>5, <1>6
  <2>4. CASE attempt'.step = "reply" /\ attempt'.scope = "none"
    BY <1>14, <2>1, <2>3, <2>4 DEF AttemptHolds, Doing
  <2>5. CASE attempt'.step = "hydrate" /\ attempt'.scope # "none"
    BY <1>14, <2>1, <2>2, <2>3, <2>5 DEF AttemptHolds, Doing
  <2>6. QED
    BY Zenon, <1>2, <1>5, <2>4, <2>5
<1>16. QED
  BY Zenon, <1>5, <1>9, <1>10, <1>11, <1>12, <1>13, <1>15, <1>3, <1>4 DEF HistoryInv, HistoryShape, RunsShape

\* The replies of a batch without a review change only what is known of them.
LEMMA AnswersKeep == ASSUME HistoryInv, AnswersRequests PROVE HistoryInv'
<1>1. /\ Doing("reply") /\ ~Doing("none") /\ ~Doing("commit") /\ Turns("complete")
      /\ UNCHANGED <<thread, saved, reviews, mapping, seen, answered, torn>>
      /\ UNCHANGED <<thread, mapping, answered, torn, saved, seen, reviews>>
  BY DEF AnswersRequests, Doing
<1>2. /\ Carried /\ FindingsHold' /\ RunsShape(reviews') /\ SavedShape(saved')
      /\ \A j \in HistoryJobs : CheckpointHolds(j)'
      /\ \A r \in DOMAIN reviews' : RunHolds(r)'
  BY Zenon, <1>1, NothingWritten
<1>3. /\ AttemptShape(attempt') /\ SameTask(attempt, attempt') /\ attempt'.step = "complete"
      /\ attempt'.todo = attempt.todo /\ attempt'.previous = attempt.previous /\ attempt'.scope = attempt.scope
      /\ attempt'.ready = attempt.ready
  <2>1. attempt' = [attempt EXCEPT !.step = "complete"] /\ AttemptShape(attempt)
    BY <1>1 DEF Turns, HistoryInv, HistoryShape
  <2>2. ChangedTo(attempt, attempt', "complete", attempt.todo, attempt.previous, attempt.scope,
                  attempt.result, attempt.ready)
    BY Zenon, <2>1, AttemptChanges
  <2>3. QED
    BY Zenon, <2>2 DEF ChangedTo
<1>4. attempt.scope = "none" /\ ~attempt.ready /\ RunOfAttempt
  BY <1>1 DEF HistoryInv, AttemptHolds, Doing
<1>5. RunOfAttempt'
  <2>1. NewRun' = NewRun /\ Mine' = Mine /\ attempt'.format = attempt.format
    BY Zenon, <1>1, <1>3 DEF NewRun, Mine, SameTask
  <2>2. QED
    BY Zenon, <1>1, <1>3, <1>4, <2>1 DEF RunOfAttempt, NoSnapshot
<1>6. AttemptHolds'
  BY <1>3, <1>4, <1>5 DEF AttemptHolds, Doing
<1>7. QED
  BY Zenon, <1>2, <1>3, <1>6 DEF HistoryInv, HistoryShape

\* The attempt's own run is written: those before it are as they were.
LEMMA OwnRunWritten ==
  ASSUME HistoryInv, ~Doing("none"), NEW status, NEW at, NEW result, NEW snapshot, NEW rows,
         WrittenTo(reviews, reviews', NewRun, status, at, result, snapshot, rows),
         reviews[NewRun].result => result,
         reviews[NewRun].result \/ reviews[NewRun].snapshot.format = "provider-diff"
           => snapshot = reviews[NewRun].snapshot,
         seen \subseteq seen',
         \A j \in HistoryJobs :
           saved[j].published => /\ saved'[j].result = saved[j].result /\ saved'[j].content = saved[j].content
                                 /\ saved'[j].published
  PROVE  Carried /\ \A r \in DOMAIN reviews' : r # NewRun => RunHolds(r)'
<1>1. PICK n \in DOMAIN reviews : n = NewRun
  BY Zenon, NewRunIs
<1>2. WrittenTo(reviews, reviews', n, status, at, result, snapshot, rows)
  BY Zenon, <1>1
<1>3. /\ RunsShape(reviews') /\ Len(reviews') = Len(reviews) /\ DOMAIN reviews' = DOMAIN reviews
      /\ \A r \in DOMAIN reviews : r # n => reviews'[r] = reviews[r]
      /\ reviews'[n].job = reviews[n].job /\ reviews'[n].result = result /\ reviews'[n].snapshot = snapshot
  BY Zenon, <1>2 DEF WrittenTo
<1>4. ASSUME NEW r \in DOMAIN reviews
      PROVE  /\ r \in DOMAIN reviews' /\ reviews'[r].job = reviews[r].job
             /\ reviews[r].result => reviews'[r].result
             /\ reviews[r].result \/ reviews[r].snapshot.format = "provider-diff"
                  => reviews'[r].snapshot = reviews[r].snapshot
  <2>1. CASE r = n
    BY Zenon, <1>1, <1>3, <2>1
  <2>2. CASE r # n
    BY Zenon, <1>3, <2>2
  <2>3. QED
    BY Zenon, <2>1, <2>2
<1>5. Carried
  BY Zenon, <1>4 DEF Carried
<1>6. ASSUME NEW r \in DOMAIN reviews', r # n PROVE RunHolds(r)'
  <2>1. OldRun(r)
    BY Zenon, <1>3, <1>6 DEF OldRun
  <2>2. HistoryShape /\ Len(reviews) <= Len(reviews')
    BY <1>3 DEF HistoryInv, HistoryShape, RunsShape
  <2>3. QED
    BY Zenon, <1>3, <1>5, <2>1, <2>2, OldRunHolds DEF HistoryInv
<1>7. QED
  BY Zenon, <1>1, <1>5, <1>6

\* Its findings are open or none, and no other rows are touched.
LEMMA OwnRowsWritten ==
  ASSUME HistoryInv, ~Doing("none"), NEW status, NEW at, NEW result, NEW snapshot, NEW rows,
         WrittenTo(reviews, reviews', NewRun, status, at, result, snapshot, rows),
         DOMAIN rows = Topics, \A f \in Topics : rows[f] \in {"none", "open"},
         UNCHANGED <<thread, mapping, answered, torn>>
  PROVE  FindingsHold'
<1>1. PICK n \in DOMAIN reviews : n = NewRun
  BY Zenon, NewRunIs
<1>2. WrittenTo(reviews, reviews', n, status, at, result, snapshot, rows)
  BY Zenon, <1>1
<1>3. /\ DOMAIN reviews' = DOMAIN reviews /\ reviews'[n].rows = rows
      /\ \A r \in DOMAIN reviews : r # n => reviews'[r] = reviews[r]
  BY Zenon, <1>2 DEF WrittenTo
<1>4. ASSUME NEW r \in DOMAIN reviews'
      PROVE  /\ DOMAIN reviews'[r].rows = Topics
             /\ \/ \A f \in Topics : reviews'[r].rows[f] \in {"none", "open"}
                \/ /\ r \in DOMAIN reviews /\ reviews'[r].rows = reviews[r].rows
                   /\ reviews'[r].status = "completed" => reviews[r].status = "completed"
  <2>1. CASE r = n
    BY Zenon, <1>3, <2>1
  <2>2. CASE r # n
    BY Zenon, <1>3, <1>4, <2>2 DEF HistoryInv, FindingsHold
  <2>3. QED
    BY Zenon, <2>1, <2>2
<1>5. FindingsHold
  BY DEF HistoryInv
<1>6. QED
  BY Zenon, <1>4, <1>5, FindingsStay

LEMMA HydrateKeeps == ASSUME HistoryInv, Hydrates PROVE HistoryInv'
<1>1. /\ Doing("hydrate") /\ ~Doing("none") /\ ~Doing("commit")
      /\ reviews' = [reviews EXCEPT ![NewRun].snapshot = Snapshot]
      /\ attempt' = [attempt EXCEPT !.step = "review"]
      /\ thread' = thread /\ saved' = saved /\ mapping' = mapping /\ seen' = seen /\ answered' = answered
      /\ torn' = torn /\ UNCHANGED <<thread, mapping, answered, torn>>
  BY DEF Hydrates, Turns, Doing
<1>2. AttemptShape(attempt) /\ RunsShape(reviews) /\ SavedShape(saved)
  BY DEF HistoryInv, HistoryShape
<1>3. /\ AttemptShape(attempt') /\ SameTask(attempt, attempt') /\ attempt'.step = "review"
      /\ attempt'.todo = attempt.todo /\ attempt'.previous = attempt.previous /\ attempt'.scope = attempt.scope
      /\ attempt'.ready = attempt.ready
  <2>1. ChangedTo(attempt, attempt', "review", attempt.todo, attempt.previous, attempt.scope,
                  attempt.result, attempt.ready)
    BY Zenon, <1>1, <1>2, AttemptChanges
  <2>2. QED
    BY Zenon, <2>1 DEF ChangedTo
<1>4. PICK n \in DOMAIN reviews : n = NewRun
  BY Zenon, <1>1, NewRunIs
<1>5. PICK snapshot : snapshot = Snapshot
  OBVIOUS
<1>6. WrittenTo(reviews, reviews', n, reviews[n].status, reviews[n].at, reviews[n].result, snapshot, reviews[n].rows)
  <2>1. reviews' = [reviews EXCEPT ![n].snapshot = snapshot]
    BY Zenon, <1>1, <1>4, <1>5
  <2>2. QED
    BY Zenon, <1>2, <2>1, RunChanges
<1>7. /\ ~attempt.ready /\ attempt.scope # "none" /\ attempt.todo = {}
      /\ \A f \in Topics : f \in attempt.todo \/ mapping[f] = attempt.threads[f]
      /\ attempt.previous = 0
         \/ (attempt.previous \in DOMAIN reviews /\ reviews[attempt.previous].result)
      /\ RunOfAttempt
  BY <1>1 DEF HistoryInv, AttemptHolds, Doing
<1>8. reviews[n].status = "in_progress" /\ ~reviews[n].result /\ reviews[n].snapshot.format # "provider-diff"
  <2>1. reviews[n].status = "in_progress" /\ ~reviews[n].result /\ reviews[n].snapshot = NoSnapshot
    BY <1>1, <1>4, <1>7 DEF RunOfAttempt, Doing
  <2>2. PICK content : content = [p \in Paths |-> 0]
    OBVIOUS
  <2>3. NoSnapshot = [format |-> "none", content |-> content]
    BY Zenon, <2>2 DEF NoSnapshot
  <2>4. NoSnapshot.format = "none"
    BY <2>3
  <2>5. QED
    BY <2>1, <2>4
<1>9. Carried /\ \A r \in DOMAIN reviews' : r # n => RunHolds(r)'
  BY Zenon, <1>1, <1>4, <1>6, <1>8, OwnRunWritten
<1>10. FindingsHold'
  <2>1. DOMAIN reviews[n].rows = Topics /\ \A f \in Topics : reviews[n].rows[f] \in {"none", "open"}
    BY Zenon, <1>1, <1>4, <1>7 DEF HistoryInv, FindingsHold, RunOfAttempt
  <2>2. QED
    BY Zenon, <1>1, <1>4, <1>6, <2>1, OwnRowsWritten
<1>11. /\ RunsShape(reviews') /\ Len(reviews') = Len(reviews) /\ DOMAIN reviews' = DOMAIN reviews
       /\ \A r \in DOMAIN reviews : r # n => reviews'[r] = reviews[r]
       /\ reviews'[n].job = reviews[n].job /\ reviews'[n].status = reviews[n].status
       /\ reviews'[n].at = reviews[n].at /\ reviews'[n].result = reviews[n].result
       /\ reviews'[n].snapshot = snapshot /\ reviews'[n].rows = reviews[n].rows
  BY Zenon, <1>6 DEF WrittenTo
<1>12. RunHolds(n)'
  <2>1. RunHolds(n)
    BY Zenon DEF HistoryInv
  <2>2. reviews'[n].status # "completed" /\ ~reviews'[n].result
    BY <1>8, <1>11
  <2>3. reviews'[n].at \in 0 .. Len(reviews')
    BY Zenon, <1>11, <2>1 DEF RunHolds
  <2>4. QED
    BY Zenon, <1>11, <2>1, <2>2, <2>3 DEF RunHolds
<1>13. ASSUME NEW j \in HistoryJobs PROVE CheckpointHolds(j)'
  <2>1. saved'[j] = saved[j] /\ \A f \in Topics : thread[f] # "none" => thread'[f] # "none"
    BY Zenon, <1>1
  <2>2. QED
    BY Zenon, <1>9, <2>1, CheckpointStays DEF HistoryInv
<1>14. SavedShape(saved')
  BY Zenon, <1>1, <1>2 DEF SavedShape
<1>15. NewRun' = n /\ Mine' = Mine /\ attempt'.format = attempt.format /\ Snapshot' = snapshot
  BY Zenon, <1>3, <1>4, <1>5, <1>11 DEF NewRun, Mine, SameTask, Snapshot
<1>16. RunOfAttempt'
  <2>1. attempt'.step \notin {"sync", "finding", "hydrate"} /\ attempt'.scope # "none"
    BY <1>3, <1>7
  <2>2. QED
    <3>1. Len(reviews') > 0 /\ Mine' \in HistoryJobs /\ reviews'[n].job = Mine'
          /\ attempt'.format \in {"git-raw-v2", "provider-diff"}
      BY Zenon, <1>4, <1>7, <1>11, <1>15 DEF RunOfAttempt
    <3>2. /\ reviews'[n].status = "in_progress" /\ ~reviews'[n].result /\ reviews'[n].at = 0
          /\ \A f \in Topics : reviews'[n].rows[f] \in {"none", "open"}
      BY Zenon, <1>1, <1>4, <1>7, <1>11 DEF RunOfAttempt
    <3>3. reviews'[n].snapshot = IF attempt'.step \in {"sync", "finding", "hydrate"} \/ attempt'.scope = "none"
                                 THEN NoSnapshot ELSE Snapshot'
      BY Zenon, <1>11, <1>15, <2>1
    <3>4. QED
      BY Zenon, <1>15, <3>1, <3>2, <3>3 DEF RunOfAttempt, NoSnapshot
<1>17. AttemptHolds'
  <2>1. \A f \in Topics : f \in attempt'.todo \/ mapping'[f] = attempt'.threads[f]
    BY Zenon, <1>1, <1>3, <1>7 DEF SameTask
  <2>2. /\ attempt'.previous = 0
           \/ (attempt'.previous \in DOMAIN reviews' /\ reviews'[attempt'.previous].result)
    BY Zenon, <1>3, <1>7, <1>9 DEF Carried
  <2>3. ~attempt'.ready /\ attempt'.todo = {} /\ attempt'.scope # "none"
    BY <1>3, <1>7
  <2>4. QED
    BY <1>3, <1>16, <2>1, <2>2, <2>3 DEF AttemptHolds, Doing
<1>18. QED
  BY Zenon, <1>3, <1>9, <1>10, <1>11, <1>12, <1>13, <1>14, <1>17 DEF HistoryInv, HistoryShape

\* The stamp of a run that ends counts the runs before it.
LEMMA StampIs ==
  ASSUME HistoryInv, ~Doing("none"), reviews[NewRun].at = 0
  PROVE  Stamp \in 0 .. Len(reviews)
<1>1. PICK n \in Nat : n = Len(reviews) /\ DOMAIN reviews = 1 .. n
  BY RunsKnown DEF HistoryInv, HistoryShape
<1>2. n \in DOMAIN reviews /\ reviews[n].at = 0
  BY Zenon, <1>1, NewRunIs DEF NewRun
<1>3. PICK S : S = {r \in DOMAIN reviews : reviews[r].at > 0}
  OBVIOUS
<1>4. n - 1 \in Nat /\ S \subseteq 1 .. n - 1
  BY <1>1, <1>2, <1>3
<1>5. PICK T : T = 1 .. n - 1
  OBVIOUS
<1>6. IsFiniteSet(T) /\ Cardinality(T) = n - 1
  <2>1. PICK k \in Nat : k = n - 1
    BY <1>4
  <2>2. T = 1 .. k
    BY <1>5, <2>1
  <2>3. IsFiniteSet(T) /\ Cardinality(T) = k
    BY <2>1, <2>2, FS_Interval
  <2>4. QED
    BY <2>1, <2>3
<1>7. S \in SUBSET T
  BY <1>4, <1>5
<1>8. IsFiniteSet(S) /\ Cardinality(S) <= Cardinality(T)
  BY Zenon, <1>6, <1>7, FS_Subset
<1>9. Cardinality(S) \in Nat
  BY Zenon, <1>8, FS_CardinalityType
<1>10. Stamp = 1 + Cardinality(S)
  BY Zenon, <1>3 DEF Stamp
<1>11. QED
  BY <1>1, <1>4, <1>6, <1>8, <1>9, <1>10

LEMMA EndKeeps == ASSUME HistoryInv, EndsRun PROVE HistoryInv'
<1>1. PICK n, stamp, ended : n = NewRun /\ stamp = Stamp /\ ended = (attempt.scope # "none")
  OBVIOUS
<1>2. /\ Doing("complete") /\ ~Doing("none") /\ ~Doing("commit")
      /\ reviews' = [reviews EXCEPT ![NewRun].status = "completed", ![NewRun].at = Stamp,
                                    ![NewRun].result = (attempt.scope # "none")]
      /\ attempt' = [attempt EXCEPT !.step = "commit"]
      /\ thread' = thread /\ saved' = saved /\ mapping' = mapping /\ seen' = seen /\ answered' = answered
      /\ torn' = torn /\ UNCHANGED <<thread, mapping, answered, torn>>
  BY DEF EndsRun, Turns, Doing
<1>3. AttemptShape(attempt) /\ RunsShape(reviews) /\ SavedShape(saved)
  BY DEF HistoryInv, HistoryShape
<1>4. /\ AttemptShape(attempt') /\ SameTask(attempt, attempt') /\ attempt'.step = "commit"
      /\ attempt'.scope = attempt.scope /\ attempt'.ready = attempt.ready
  <2>1. ChangedTo(attempt, attempt', "commit", attempt.todo, attempt.previous, attempt.scope,
                  attempt.result, attempt.ready)
    BY Zenon, <1>2, <1>3, AttemptChanges
  <2>2. QED
    BY Zenon, <2>1 DEF ChangedTo
<1>5. n \in DOMAIN reviews /\ RunOfAttempt
  BY Zenon, <1>1, <1>2, NewRunIs
<1>6. WrittenTo(reviews, reviews', n, "completed", stamp, ended, reviews[n].snapshot, reviews[n].rows)
  <2>1. reviews' = [reviews EXCEPT ![n].status = "completed", ![n].at = stamp, ![n].result = ended]
    BY Zenon, <1>1, <1>2
  <2>2. QED
    BY Zenon, <1>3, <1>5, <2>1, RunChanges
<1>7. /\ attempt.scope # "none" =>
           KnownOf(attempt.content) \/ (saved[Mine].result # <<>> /\ saved[Mine].content # attempt.content)
      /\ attempt.scope # "none" /\ Kind = "batch" => saved[Mine].published
      /\ attempt.ready => ReadyIsEarned /\ \A f \in Topics : reviews[n].rows[f] = "none"
  BY Zenon, <1>1, <1>2 DEF HistoryInv, AttemptHolds
<1>8. /\ Len(reviews) > 0 /\ Mine \in HistoryJobs /\ reviews[n].job = Mine
      /\ attempt.format \in {"git-raw-v2", "provider-diff"}
      /\ ~reviews[n].result /\ reviews[n].at = 0 /\ \A f \in Topics : reviews[n].rows[f] \in {"none", "open"}
  BY Zenon, <1>1, <1>2, <1>5 DEF RunOfAttempt
<1>9. reviews[n].snapshot = IF attempt.scope = "none" THEN NoSnapshot ELSE Snapshot
  <2>1. attempt.step \notin {"sync", "finding", "hydrate"}
    BY <1>2 DEF Doing
  <2>2. QED
    BY Zenon, <1>1, <1>5, <2>1 DEF RunOfAttempt, NoSnapshot
<1>10. Carried /\ \A r \in DOMAIN reviews' : r # n => RunHolds(r)'
  <2>1. PICK snapshot, rows : snapshot = reviews[n].snapshot /\ rows = reviews[n].rows
    OBVIOUS
  <2>2. WrittenTo(reviews, reviews', NewRun, "completed", stamp, ended, snapshot, rows)
    BY Zenon, <1>1, <1>6, <2>1
  <2>3. ~reviews[NewRun].result /\ snapshot = reviews[NewRun].snapshot /\ ~Doing("none")
    BY Zenon, <1>1, <1>2, <1>8, <2>1
  <2>4. /\ seen \subseteq seen'
        /\ \A j \in HistoryJobs :
             saved[j].published => /\ saved'[j].result = saved[j].result /\ saved'[j].content = saved[j].content
                                   /\ saved'[j].published
    BY Zenon, <1>2
  <2>5. QED
    BY Zenon, <1>1, <2>2, <2>3, <2>4, OwnRunWritten
<1>11. FindingsHold'
  <2>1. DOMAIN reviews[n].rows = Topics
    BY Zenon, <1>5 DEF HistoryInv, FindingsHold
  <2>2. QED
    <3>1. PICK snapshot, rows : snapshot = reviews[n].snapshot /\ rows = reviews[n].rows
      OBVIOUS
    <3>2. WrittenTo(reviews, reviews', NewRun, "completed", stamp, ended, snapshot, rows)
      BY Zenon, <1>1, <1>6, <3>1
    <3>3. DOMAIN rows = Topics /\ \A f \in Topics : rows[f] \in {"none", "open"}
      BY Zenon, <1>8, <2>1, <3>1
    <3>4. QED
      BY Zenon, <1>2, <3>2, <3>3, OwnRowsWritten
<1>12. /\ RunsShape(reviews') /\ Len(reviews') = Len(reviews) /\ DOMAIN reviews' = DOMAIN reviews
       /\ \A r \in DOMAIN reviews : r # n => reviews'[r] = reviews[r]
       /\ reviews'[n].job = reviews[n].job /\ reviews'[n].status = "completed"
       /\ reviews'[n].at = stamp /\ reviews'[n].result = ended
       /\ reviews'[n].snapshot = reviews[n].snapshot /\ reviews'[n].rows = reviews[n].rows
  BY Zenon, <1>6 DEF WrittenTo
<1>13. NewRun' = n /\ Mine' = Mine /\ attempt'.format = attempt.format /\ attempt'.content = attempt.content
       /\ Snapshot' = Snapshot
  BY Zenon, <1>1, <1>4, <1>12 DEF NewRun, Mine, SameTask, Snapshot
<1>14. Mine # 0
  BY <1>8, HistoryAssumption
<1>15. ASSUME ended PROVE KnownOf(reviews[n].snapshot.content)'
  <2>1. PICK content : content = attempt.content
    OBVIOUS
  <2>2. reviews'[n].snapshot.content = content
    <3>1. reviews'[n].snapshot = Snapshot
      BY Zenon, <1>1, <1>9, <1>12, <1>15
    <3>2. Snapshot.content = content
      BY <2>1 DEF Snapshot
    <3>3. QED
      BY Zenon, <3>1, <3>2
  <2>3. CASE KnownOf(content)
    <3>1. KnownOf(content)'
      BY Zenon, <1>10, <2>3, KnownStays DEF HistoryInv
    <3>2. QED
      BY Zenon, <2>2, <3>1 DEF KnownOf
  <2>4. CASE saved[Mine].result # <<>> /\ saved[Mine].content # content
    <3>1. Moved(n)'
      BY Zenon, <1>2, <1>8, <1>12, <1>14, <2>2, <2>4 DEF Moved
    <3>2. reviews'[n].result /\ n \in DOMAIN reviews'
      BY Zenon, <1>5, <1>12, <1>15
    <3>3. ASSUME NEW p \in Paths PROVE Known(p, content[p])'
      <4>1. PICK c : c = content[p]
        OBVIOUS
      <4>2. HasContent(n, p, c)'
        BY Zenon, <2>2, <4>1 DEF HasContent
      <4>3. Missed(p, c)'
        BY Zenon, <3>1, <3>2, <4>2 DEF Missed
      <4>4. Known(p, c)'
        BY Zenon, <4>3 DEF Known
      <4>5. QED
        BY Zenon, <4>1, <4>4 DEF Known, Missed, HasContent
    <3>4. KnownOf(content)'
      BY Zenon, <3>3 DEF KnownOf
    <3>5. QED
      BY Zenon, <2>2, <3>4 DEF KnownOf
  <2>5. QED
    BY Zenon, <1>1, <1>7, <1>15, <2>1, <2>3, <2>4
<1>16. RunHolds(n)'
  <2>1. reviews'[n].at \in 0 .. Len(reviews')
    BY Zenon, <1>1, <1>2, <1>8, <1>12, StampIs
  <2>2. reviews'[n].job \in HistoryJobs \cup {0}
    BY <1>8, <1>12
  <2>3. ended /\ reviews'[n].job # 0 /\ KindOf[reviews'[n].job] = "batch" => saved'[reviews'[n].job].published
    BY Zenon, <1>1, <1>2, <1>7, <1>8, <1>12 DEF Kind
  <2>4. ~ended => reviews'[n].snapshot = NoSnapshot
    BY Zenon, <1>1, <1>9, <1>12
  <2>5. QED
    BY Zenon, <1>12, <1>15, <2>1, <2>2, <2>3, <2>4 DEF RunHolds, NoSnapshot
<1>17. ASSUME NEW j \in HistoryJobs PROVE CheckpointHolds(j)'
  <2>1. saved'[j] = saved[j] /\ \A f \in Topics : thread[f] # "none" => thread'[f] # "none"
    BY Zenon, <1>2
  <2>2. QED
    BY Zenon, <1>10, <2>1, CheckpointStays DEF HistoryInv
<1>18. SavedShape(saved')
  BY Zenon, <1>2, <1>3 DEF SavedShape
<1>19. RunOfAttempt'
  <2>1. attempt'.step \notin {"sync", "finding", "hydrate"} /\ Doing("commit")'
    BY <1>4 DEF Doing
  <2>2. reviews'[n].snapshot = IF attempt'.step \in {"sync", "finding", "hydrate"} \/ attempt'.scope = "none"
                               THEN NoSnapshot ELSE Snapshot'
    BY Zenon, <1>4, <1>9, <1>12, <1>13, <2>1
  <2>3. /\ Len(reviews') > 0 /\ Mine' \in HistoryJobs /\ reviews'[n].job = Mine'
        /\ attempt'.format \in {"git-raw-v2", "provider-diff"}
    BY Zenon, <1>8, <1>12, <1>13
  <2>4. QED
    BY Zenon, <1>13, <2>1, <2>2, <2>3 DEF RunOfAttempt, NoSnapshot
<1>20. ASSUME attempt'.ready
       PROVE  ReadyIsEarned' /\ \A f \in Topics : reviews'[NewRun'].rows[f] = "none"
  <2>1. attempt.ready /\ ReadyIsEarned /\ \A f \in Topics : reviews[n].rows[f] = "none"
    BY Zenon, <1>4, <1>7, <1>20
  <2>2. ASSUME NEW f \in Topics, attempt'.threads[f] = "open", With(f, Completed)' # {}
        PROVE  f \in answered' \cup torn'
    <3>1. PICK r \in DOMAIN reviews' : reviews'[r].status = "completed" /\ reviews'[r].rows[f] # "none"
      BY <2>2 DEF With, Completed
    <3>2. r # n
      BY <1>12, <2>1, <3>1
    <3>3. r \in DOMAIN reviews /\ reviews'[r] = reviews[r]
      BY Zenon, <1>12, <3>2
    <3>4. r \in With(f, Completed)
      BY <3>1, <3>3 DEF With, Completed
    <3>5. With(f, Completed) # {} /\ attempt.threads[f] = "open"
      BY <1>4, <2>2, <3>4 DEF SameTask
    <3>6. f \in answered \cup torn
      BY Zenon, <2>1, <3>5 DEF ReadyIsEarned
    <3>7. QED
      BY Zenon, <1>2, <3>6
  <2>3. ReadyIsEarned'
    BY Zenon, <2>2 DEF ReadyIsEarned
  <2>4. QED
    BY Zenon, <1>12, <1>13, <2>1, <2>3
<1>21. AttemptHolds'
  <2>1. attempt'.ready => \A f \in Topics : reviews'[NewRun'].rows[f] = "none"
    BY Zenon, <1>20
  <2>2. attempt'.ready => ReadyIsEarned'
    BY Zenon, <1>20
  <2>3. QED
    BY <1>4, <1>19, <2>1, <2>2 DEF AttemptHolds, Doing
<1>22. QED
  BY Zenon, <1>4, <1>10, <1>11, <1>12, <1>16, <1>17, <1>18, <1>21 DEF HistoryInv, HistoryShape

\* A change that is not offered was known of the previous run, or cannot be seen.
LEMMA OfferIsKnown ==
  ASSUME HistoryInv, Doing("review"), Carried, reviews'[NewRun].snapshot = Snapshot,
         seen' = seen \cup Offered(Snapshot, attempt.previous, attempt.scope),
         NEW content, content = attempt.content
  PROVE  KnownOf(content)'
<1>1. PICK s, format, previous : s = Snapshot /\ format = attempt.format /\ previous = attempt.previous
  OBVIOUS
<1>2. s.content = content /\ s.format = format
  BY <1>1 DEF Snapshot
<1>3. ~Doing("none")
  BY DEF Doing
<1>4. NewRun \in DOMAIN reviews /\ format \in {"git-raw-v2", "provider-diff"}
  BY Zenon, <1>1, <1>3, NewRunIs DEF RunOfAttempt
<1>5. previous = 0 \/ (previous \in DOMAIN reviews /\ reviews[previous].result)
  <2>1. attempt.step \in {"hydrate", "review"}
    BY DEF Doing
  <2>2. QED
    BY Zenon, <1>1, <2>1 DEF HistoryInv, AttemptHolds
<1>6. ASSUME NEW p \in Paths, NEW c, c = content[p], c # 0 PROVE Known(p, c)'
  <2>1. p \in ChangedIn(s.content) /\ s.content[p] = c
    BY <1>2, <1>6 DEF ChangedIn
  <2>2. CASE <<p, c>> \in seen'
    BY Zenon, <2>2 DEF Known
  <2>3. CASE <<p, c>> \notin seen'
    <3>1. <<p, c>> \notin Offered(s, previous, attempt.scope)
      BY <1>1, <2>3
    <3>2. ReviewMode(s, previous, attempt.scope) # "first-pass-full"
      BY <2>1, <3>1 DEF Offered, ShownOf
    <3>3. previous # 0
      BY <3>2 DEF ReviewMode
    <3>4. PICK t : t = reviews[previous].snapshot
      OBVIOUS
    <3>5. p \notin Delta(s, t)
      BY <2>1, <3>1, <3>2, <3>4 DEF Offered
    <3>6. Signature(s, p) = Signature(t, p)
      BY <2>1, <3>5 DEF Delta
    <3>7. CASE format = "provider-diff" /\ c \in Large
      <4>1. NewRun \in DOMAIN reviews' /\ reviews'[NewRun].snapshot = s
        BY Zenon, <1>1, <1>4 DEF Carried
      <4>2. PICK n : n = NewRun
        OBVIOUS
      <4>3. n \in DOMAIN reviews' /\ reviews'[n].snapshot = s
        BY Zenon, <4>1, <4>2
      <4>4. HasContent(n, p, c)'
        BY Zenon, <2>1, <4>3 DEF HasContent
      <4>5. reviews'[n].snapshot.format = "provider-diff" /\ c \in Large
        BY Zenon, <1>2, <3>7, <4>3
      <4>6. QED
        BY Zenon, <4>3, <4>4, <4>5 DEF Missed, Known
    <3>8. CASE ~(format = "provider-diff" /\ c \in Large)
      <4>1. Signature(s, p) = <<format, c>>
        BY <1>2, <1>6, <2>1, <3>8 DEF Signature
      <4>2. PICK d, u : d = t.content[p] /\ u = t.format
        OBVIOUS
      <4>3. Signature(t, p) = IF d = 0 THEN <<"none", 0>>
                              ELSE <<u, IF u = "provider-diff" /\ d \in Large THEN 0 ELSE d>>
        BY Zenon, <4>2 DEF Signature
      <4>4. d = c
        <5>1. PICK v : v = IF u = "provider-diff" /\ d \in Large THEN 0 ELSE d
          OBVIOUS
        <5>2. d = 0 => <<format, c>> = <<"none", 0>>
          BY Zenon, <3>6, <4>1, <4>3
        <5>3. d # 0 => <<format, c>> = <<u, v>>
          BY Zenon, <3>6, <4>1, <4>3, <5>1
        <5>4. d # 0
          BY <1>6, <5>2
        <5>5. c = v
          BY <5>3, <5>4
        <5>6. QED
          BY <1>6, <5>1, <5>5
      <4>5. KnownOf(t.content)
        BY Zenon, <1>5, <3>3, <3>4 DEF HistoryInv, RunHolds
      <4>6. PICK old : old = t.content
        OBVIOUS
      <4>7. KnownOf(old)'
        BY Zenon, <4>5, <4>6, KnownStays DEF HistoryInv
      <4>8. old[p] = c
        BY Zenon, <4>2, <4>4, <4>6
      <4>9. QED
        BY Zenon, <1>6, <4>7, <4>8 DEF KnownOf, Known, Missed, HasContent
    <3>9. QED
      BY Zenon, <3>7, <3>8
  <2>4. QED
    BY Zenon, <2>2, <2>3
<1>7. ASSUME NEW p \in Paths, content[p] # 0 PROVE Known(p, content[p])'
  <2>1. PICK c : c = content[p]
    OBVIOUS
  <2>2. Known(p, c)'
    BY Zenon, <1>6, <1>7, <2>1
  <2>3. QED
    BY Zenon, <2>1, <2>2 DEF Known, Missed, HasContent
<1>8. QED
  BY Zenon, <1>7 DEF KnownOf

\* What a review saves in its checkpoint.
SavedBy(result, content) ==
  /\ SavedShape(saved')
  /\ saved'[Mine].result = result /\ saved'[Mine].content = content
  /\ saved'[Mine].published = saved[Mine].published
  /\ \A k \in HistoryJobs : k # Mine => saved'[k] = saved[k]

LEMMA CheckpointWritten ==
  ASSUME SavedShape(saved), Mine \in HistoryJobs, NEW result, NEW content,
         saved' = [saved EXCEPT ![Mine].result = result,
                                ![Mine].content = IF Reviewed THEN @ ELSE attempt.content],
         content = IF Reviewed THEN saved[Mine].content ELSE attempt.content
  PROVE  SavedBy(result, content)
<1>1. PICK mine : mine = Mine
  OBVIOUS
<1>2. PICK h, s, u, b, c : /\ h = saved[mine].head /\ s = saved[mine].scope /\ u = saved[mine].result
                           /\ b = saved[mine].published /\ c = saved[mine].content
  OBVIOUS
<1>3. mine \in HistoryJobs /\ DOMAIN saved = HistoryJobs
  BY <1>1 DEF SavedShape
<1>4. saved[mine] = [head |-> h, scope |-> s, result |-> u, published |-> b, content |-> c]
  BY Zenon, <1>2, <1>3 DEF SavedShape
<1>5. PICK one : one = [saved EXCEPT ![mine].result = result]
  OBVIOUS
<1>6. one[mine] = [head |-> h, scope |-> s, result |-> result, published |-> b, content |-> c]
  <2>1. PICK old : old = saved[mine]
    OBVIOUS
  <2>2. old = [head |-> h, scope |-> s, result |-> u, published |-> b, content |-> c]
    BY Zenon, <1>4, <2>1
  <2>3. one[mine] = [old EXCEPT !.result = result]
    BY <1>3, <1>5, <2>1
  <2>4. [old EXCEPT !.result = result] = [head |-> h, scope |-> s, result |-> result, published |-> b, content |-> c]
    BY <2>2
  <2>5. QED
    BY Zenon, <2>3, <2>4
<1>7. DOMAIN one = HistoryJobs /\ \A k \in HistoryJobs : k # mine => one[k] = saved[k]
  BY <1>3, <1>5
<1>8. content = IF Reviewed THEN one[mine].content ELSE attempt.content
  <2>1. one[mine].content = c
    BY <1>6
  <2>2. QED
    BY Zenon, <1>1, <1>2, <2>1
<1>9. saved' = [one EXCEPT ![mine].content = content]
  BY Zenon, <1>1, <1>5, <1>8
<1>10. saved'[mine] = [head |-> h, scope |-> s, result |-> result, published |-> b, content |-> content]
  <2>1. PICK old : old = one[mine]
    OBVIOUS
  <2>2. old = [head |-> h, scope |-> s, result |-> result, published |-> b, content |-> c]
    BY Zenon, <1>6, <2>1
  <2>3. saved'[mine] = [old EXCEPT !.content = content]
    BY <1>3, <1>7, <1>9, <2>1
  <2>4. [old EXCEPT !.content = content] = [head |-> h, scope |-> s, result |-> result, published |-> b,
                                            content |-> content]
    BY <2>2
  <2>5. QED
    BY Zenon, <2>3, <2>4
<1>11. DOMAIN saved' = HistoryJobs /\ \A k \in HistoryJobs : k # mine => saved'[k] = saved[k]
  BY <1>3, <1>7, <1>9
<1>12. PICK new : new = saved'[mine]
  OBVIOUS
<1>13. /\ new.result = result /\ new.content = content /\ new.published = b
       /\ new = [head |-> new.head, scope |-> new.scope, result |-> new.result,
                 published |-> new.published, content |-> new.content]
  BY <1>10, <1>12
<1>14. SavedShape(saved')
  <2>1. ASSUME NEW k \in HistoryJobs
        PROVE  saved'[k] = [head |-> saved'[k].head, scope |-> saved'[k].scope, result |-> saved'[k].result,
                            published |-> saved'[k].published, content |-> saved'[k].content]
    <3>1. CASE k = mine
      BY Zenon, <1>12, <1>13, <3>1
    <3>2. CASE k # mine
      BY Zenon, <1>11, <3>2 DEF SavedShape
    <3>3. QED
      BY Zenon, <3>1, <3>2
  <2>2. QED
    BY Zenon, <1>11, <2>1 DEF SavedShape
<1>15. QED
  BY Zenon, <1>1, <1>2, <1>11, <1>12, <1>13, <1>14 DEF SavedBy

\* A result has findings, and it closes threads that are there.
ResultOf(result) ==
  \/ Reviewed /\ result = saved[Mine].result
  \/ /\ ~Reviewed /\ result # <<>>
     /\ \A f \in result.closed : f \in Topics /\ attempt.threads[f] # "none"
ReviewGives(result, step, rows, content) ==
  /\ ResultOf(result)
  /\ step = IF Kind = "test" \/ (Checkpointed /\ saved[Mine].published) THEN "complete" ELSE "publish"
  /\ rows = [f \in Topics |-> IF f \in result.found THEN "open" ELSE "none"]
  /\ content = IF Reviewed THEN saved[Mine].content ELSE attempt.content
  /\ attempt' = [attempt EXCEPT !.result = result, !.step = step]
  /\ reviews' = [reviews EXCEPT ![NewRun].rows = rows]
  /\ IF Kind = "batch"
     THEN saved' = [saved EXCEPT ![Mine].result = result,
                                 ![Mine].content = IF Reviewed THEN @ ELSE attempt.content]
     ELSE saved' = saved

LEMMA ReviewsIs ==
  ASSUME Reviews
  PROVE  /\ Doing("review") /\ UNCHANGED <<thread, mapping, answered, torn>>
         /\ seen' = IF Reviewed THEN seen ELSE seen \cup Offered(Snapshot, attempt.previous, attempt.scope)
         /\ \E result, step, rows, content : ReviewGives(result, step, rows, content)
<1>1. /\ Doing("review") /\ UNCHANGED <<thread, mapping, answered, torn>>
      /\ seen' = IF Reviewed THEN seen ELSE seen \cup Offered(Snapshot, attempt.previous, attempt.scope)
  BY Zenon DEF Reviews
<1>2. PICK found \in SUBSET Topics, closed \in SUBSET {f \in Topics : attempt.threads[f] # "none"} :
       LET result == IF Reviewed THEN saved[Mine].result ELSE [found |-> found, closed |-> closed]
       IN  /\ attempt' = [attempt EXCEPT !.result = result,
                            !.step = IF Kind = "test" \/ (Checkpointed /\ saved[Mine].published)
                                     THEN "complete" ELSE "publish"]
           /\ saved' = IF Kind = "batch"
                       THEN [saved EXCEPT ![Mine].result = result,
                               ![Mine].content = IF Reviewed THEN @ ELSE attempt.content]
                       ELSE saved
           /\ reviews' = [reviews EXCEPT ![NewRun].rows =
                            [f \in Topics |-> IF f \in result.found THEN "open" ELSE "none"]]
  BY Zenon DEF Reviews
<1>3. PICK result : result = IF Reviewed THEN saved[Mine].result ELSE [found |-> found, closed |-> closed]
  OBVIOUS
<1>4. PICK step : step = IF Kind = "test" \/ (Checkpointed /\ saved[Mine].published) THEN "complete" ELSE "publish"
  OBVIOUS
<1>5. PICK rows : rows = [f \in Topics |-> IF f \in result.found THEN "open" ELSE "none"]
  OBVIOUS
<1>6. PICK content : content = IF Reviewed THEN saved[Mine].content ELSE attempt.content
  OBVIOUS
<1>7. /\ attempt' = [attempt EXCEPT !.result = result, !.step = step]
      /\ reviews' = [reviews EXCEPT ![NewRun].rows = rows]
  BY Zenon, <1>2, <1>3, <1>4, <1>5
<1>8. IF Kind = "batch"
      THEN saved' = [saved EXCEPT ![Mine].result = result,
                                  ![Mine].content = IF Reviewed THEN @ ELSE attempt.content]
      ELSE saved' = saved
  BY Zenon, <1>2, <1>3
<1>9. ResultOf(result)
  <2>1. CASE Reviewed
    BY Zenon, <1>3, <2>1 DEF ResultOf
  <2>2. CASE ~Reviewed
    <3>1. result = [found |-> found, closed |-> closed]
      BY Zenon, <1>3, <2>2
    <3>2. result.closed = closed /\ DOMAIN result = {"found", "closed"}
      BY <3>1
    <3>3. result # <<>>
      <4>1. "found" \notin DOMAIN <<>>
        OBVIOUS
      <4>2. QED
        BY <3>2, <4>1
    <3>4. \A f \in result.closed : f \in Topics /\ attempt.threads[f] # "none"
      BY <1>2, <3>2
    <3>5. QED
      BY Zenon, <2>2, <3>3, <3>4 DEF ResultOf
  <2>3. QED
    BY Zenon, <2>1, <2>2
<1>10. ReviewGives(result, step, rows, content)
  BY Zenon, <1>4, <1>5, <1>6, <1>7, <1>8, <1>9 DEF ReviewGives
<1>11. QED
  BY Zenon, <1>1, <1>10

LEMMA ReviewKeeps == ASSUME HistoryInv, Reviews PROVE HistoryInv'
<1>1. /\ Doing("review") /\ ~Doing("none") /\ ~Doing("commit")
      /\ UNCHANGED <<thread, mapping, answered, torn>>
      /\ thread' = thread /\ mapping' = mapping /\ answered' = answered /\ torn' = torn
      /\ seen' = IF Reviewed THEN seen ELSE seen \cup Offered(Snapshot, attempt.previous, attempt.scope)
  <2>1. /\ Doing("review") /\ UNCHANGED <<thread, mapping, answered, torn>>
        /\ seen' = IF Reviewed THEN seen ELSE seen \cup Offered(Snapshot, attempt.previous, attempt.scope)
    BY Zenon, ReviewsIs
  <2>2. QED
    BY <2>1 DEF Doing
<1>2. PICK result, step, rows, content : ReviewGives(result, step, rows, content)
  BY Zenon, ReviewsIs
<1>3. AttemptShape(attempt) /\ RunsShape(reviews) /\ SavedShape(saved)
  BY DEF HistoryInv, HistoryShape
<1>4. /\ AttemptShape(attempt') /\ SameTask(attempt, attempt') /\ attempt'.step = step
      /\ attempt'.todo = attempt.todo /\ attempt'.scope = attempt.scope /\ attempt'.ready = attempt.ready
      /\ attempt'.result = result
  <2>1. attempt' = [attempt EXCEPT !.result = result, !.step = step]
    BY Zenon, <1>2 DEF ReviewGives
  <2>2. ChangedTo(attempt, attempt', step, attempt.todo, attempt.previous, attempt.scope,
                  result, attempt.ready)
    BY Zenon, <1>3, <2>1, AttemptChanges
  <2>3. QED
    BY Zenon, <2>2 DEF ChangedTo
<1>5. PICK n \in DOMAIN reviews : n = NewRun
  BY Zenon, <1>1, NewRunIs
<1>6. WrittenTo(reviews, reviews', n, reviews[n].status, reviews[n].at, reviews[n].result, reviews[n].snapshot, rows)
  <2>1. reviews' = [reviews EXCEPT ![n].rows = rows]
    BY Zenon, <1>2, <1>5 DEF ReviewGives
  <2>2. QED
    BY Zenon, <1>3, <2>1, RunChanges
<1>7. /\ ~attempt.ready /\ attempt.scope # "none" /\ attempt.todo = {}
      /\ \A f \in Topics : mapping[f] = attempt.threads[f]
      /\ RunOfAttempt
  BY <1>1 DEF HistoryInv, AttemptHolds, Doing
<1>8. /\ Len(reviews) > 0 /\ Mine \in HistoryJobs /\ reviews[n].job = Mine
      /\ attempt.format \in {"git-raw-v2", "provider-diff"}
      /\ reviews[n].status = "in_progress" /\ ~reviews[n].result /\ reviews[n].at = 0
  BY Zenon, <1>1, <1>5, <1>7 DEF RunOfAttempt
<1>9. reviews[n].snapshot = Snapshot
  <2>1. attempt.step \notin {"sync", "finding", "hydrate"}
    BY <1>1 DEF Doing
  <2>2. QED
    BY Zenon, <1>5, <1>7, <2>1 DEF RunOfAttempt
<1>10. Kind = "batch" => SavedBy(result, content)
  BY Zenon, <1>2, <1>3, <1>8, CheckpointWritten DEF ReviewGives
<1>11. Kind # "batch" => saved' = saved
  BY Zenon, <1>2 DEF ReviewGives
<1>12. Reviewed => /\ result = saved[Mine].result /\ content = saved[Mine].content
                   /\ saved[Mine].result # <<>> /\ Kind = "batch"
  BY Zenon, <1>2 DEF ReviewGives, ResultOf, Reviewed, Checkpointed
<1>13. ~Reviewed => /\ result # <<>> /\ content = attempt.content
                    /\ \A f \in result.closed : f \in Topics /\ attempt.threads[f] # "none"
  BY Zenon, <1>2 DEF ReviewGives, ResultOf
<1>14. ~Reviewed /\ Kind = "batch" => saved[Mine].result = <<>> /\ ~saved[Mine].published
  <2>1. NoSaved.result = <<>>
    <3>1. PICK no, nothing : no = FALSE /\ nothing = NoSaved
      OBVIOUS
    <3>2. nothing = [head |-> 0, scope |-> "none", result |-> <<>>, published |-> no, content |-> <<>>]
      BY Zenon, <3>1 DEF NoSaved
    <3>3. nothing.result = <<>>
      BY <3>2
    <3>4. QED
      BY Zenon, <3>1, <3>3
  <2>2. ~Reviewed /\ Kind = "batch" => saved[Mine].result = <<>>
    BY Zenon, <2>1 DEF Reviewed, Checkpointed
  <2>3. CheckpointHolds(Mine)
    BY Zenon, <1>8 DEF HistoryInv
  <2>4. QED
    BY Zenon, <2>2, <2>3 DEF CheckpointHolds
<1>15. SavedShape(saved')
  BY Zenon, <1>3, <1>10, <1>11 DEF SavedBy, SavedShape
<1>16. \A k \in HistoryJobs :
         saved[k].published => /\ saved'[k].result = saved[k].result /\ saved'[k].content = saved[k].content
                               /\ saved'[k].published
  <2>1. CASE Kind # "batch"
    BY Zenon, <1>11, <2>1
  <2>2. CASE Kind = "batch" /\ ~Reviewed
    BY Zenon, <1>10, <1>14, <2>2 DEF SavedBy
  <2>3. CASE Kind = "batch" /\ Reviewed
    BY Zenon, <1>10, <1>12, <2>3 DEF SavedBy
  <2>4. QED
    BY Zenon, <2>1, <2>2, <2>3
<1>17. Carried /\ \A r \in DOMAIN reviews' : r # n => RunHolds(r)'
  <2>1. PICK status, at, ended, snapshot :
          /\ status = reviews[n].status /\ at = reviews[n].at /\ ended = reviews[n].result
          /\ snapshot = reviews[n].snapshot
    OBVIOUS
  <2>2. WrittenTo(reviews, reviews', NewRun, status, at, ended, snapshot, rows)
    BY Zenon, <1>5, <1>6, <2>1
  <2>3. ~reviews[NewRun].result /\ snapshot = reviews[NewRun].snapshot
    BY Zenon, <1>5, <1>8, <2>1
  <2>4. seen \subseteq seen'
    BY <1>1
  <2>5. QED
    BY Zenon, <1>1, <1>5, <1>16, <2>2, <2>3, <2>4, OwnRunWritten
<1>18. DOMAIN rows = Topics /\ \A f \in Topics : rows[f] = IF f \in result.found THEN "open" ELSE "none"
  <2>1. rows = [f \in Topics |-> IF f \in result.found THEN "open" ELSE "none"]
    BY Zenon, <1>2 DEF ReviewGives
  <2>2. QED
    BY <2>1
<1>19. FindingsHold'
  <2>1. PICK status, at, ended, snapshot :
          /\ status = reviews[n].status /\ at = reviews[n].at /\ ended = reviews[n].result
          /\ snapshot = reviews[n].snapshot
    OBVIOUS
  <2>2. WrittenTo(reviews, reviews', NewRun, status, at, ended, snapshot, rows)
    BY Zenon, <1>5, <1>6, <2>1
  <2>3. DOMAIN rows = Topics /\ \A f \in Topics : rows[f] \in {"none", "open"}
    BY <1>18
  <2>4. QED
    BY Zenon, <1>1, <2>2, <2>3, OwnRowsWritten
<1>20. /\ RunsShape(reviews') /\ Len(reviews') = Len(reviews) /\ DOMAIN reviews' = DOMAIN reviews
       /\ reviews'[n].job = reviews[n].job /\ reviews'[n].status = reviews[n].status
       /\ reviews'[n].at = reviews[n].at /\ reviews'[n].result = reviews[n].result
       /\ reviews'[n].snapshot = reviews[n].snapshot /\ reviews'[n].rows = rows
  BY Zenon, <1>6 DEF WrittenTo
<1>21. RunHolds(n)'
  <2>1. RunHolds(n)
    BY Zenon DEF HistoryInv
  <2>2. reviews'[n].status # "completed" /\ ~reviews'[n].result
    BY <1>8, <1>20
  <2>3. reviews'[n].at \in 0 .. Len(reviews')
    BY Zenon, <1>20, <2>1 DEF RunHolds
  <2>4. QED
    BY Zenon, <1>20, <2>1, <2>2, <2>3 DEF RunHolds
<1>22. PICK mine : mine = attempt.content
  OBVIOUS
<1>23. ~Reviewed => KnownOf(mine)'
  <2>1. reviews'[NewRun].snapshot = Snapshot
    BY Zenon, <1>5, <1>9, <1>20
  <2>2. QED
    BY Zenon, <1>1, <1>17, <1>22, <2>1, OfferIsKnown
<1>24. Reviewed => KnownOf(content)'
  <2>1. CheckpointHolds(Mine)
    BY Zenon, <1>8 DEF HistoryInv
  <2>2. Reviewed => KnownOf(content)
    BY Zenon, <1>12, <2>1 DEF CheckpointHolds
  <2>3. QED
    BY Zenon, <1>17, <2>2, KnownStays DEF HistoryInv
<1>25. \A f \in result.closed : f \in Topics => thread'[f] # "none"
  <2>1. CASE Reviewed
    <3>1. CheckpointHolds(Mine)
      BY Zenon, <1>8 DEF HistoryInv
    <3>2. QED
      BY Zenon, <1>1, <1>12, <2>1, <3>1 DEF CheckpointHolds
  <2>2. CASE ~Reviewed
    <3>1. \A f \in Topics : mapping[f] # "none" => thread[f] # "none"
      BY Zenon DEF HistoryInv, FindingsHold, FindingHolds
    <3>2. QED
      BY Zenon, <1>1, <1>7, <1>13, <2>2, <3>1
  <2>3. QED
    BY Zenon, <2>1, <2>2
<1>26. ASSUME NEW k \in HistoryJobs PROVE CheckpointHolds(k)'
  <2>1. CASE saved'[k] = saved[k]
    <3>1. \A f \in Topics : thread[f] # "none" => thread'[f] # "none"
      BY Zenon, <1>1
    <3>2. QED
      BY Zenon, <1>17, <2>1, <3>1, CheckpointStays DEF HistoryInv
  <2>2. CASE k = Mine /\ Kind = "batch"
    <3>1. /\ saved'[k].result = result /\ saved'[k].content = content /\ KindOf[k] = "batch"
      BY Zenon, <1>10, <2>2 DEF SavedBy, Kind
    <3>2. KnownOf(content)'
      BY Zenon, <1>13, <1>22, <1>23, <1>24
    <3>3. result # <<>>
      BY Zenon, <1>12, <1>13
    <3>4. KnownOf(saved[k].content)'
      BY Zenon, <3>1, <3>2 DEF KnownOf
    <3>5. QED
      BY Zenon, <1>25, <3>1, <3>3, <3>4 DEF CheckpointHolds
  <2>3. QED
    BY Zenon, <1>10, <1>11, <2>1, <2>2 DEF SavedBy
<1>27. NewRun' = n /\ Mine' = Mine /\ attempt'.format = attempt.format /\ attempt'.content = attempt.content
       /\ Snapshot' = Snapshot /\ Kind' = Kind
  BY Zenon, <1>4, <1>5, <1>20 DEF NewRun, Mine, SameTask, Snapshot, Kind
<1>28. step \in {"publish", "complete"}
  BY Zenon, <1>2 DEF ReviewGives
<1>29. RunOfAttempt'
  <2>1. attempt'.step \notin {"sync", "finding", "hydrate"} /\ attempt'.scope # "none"
    BY <1>4, <1>7, <1>28
  <2>2. Len(reviews') > 0 /\ Mine' \in HistoryJobs /\ reviews'[n].job = Mine'
        /\ attempt'.format \in {"git-raw-v2", "provider-diff"}
    BY Zenon, <1>8, <1>20, <1>27
  <2>3. /\ reviews'[n].status = "in_progress" /\ ~reviews'[n].result /\ reviews'[n].at = 0
        /\ \A f \in Topics : reviews'[n].rows[f] \in {"none", "open"}
    BY <1>8, <1>18, <1>20
  <2>4. reviews'[n].snapshot = IF attempt'.step \in {"sync", "finding", "hydrate"} \/ attempt'.scope = "none"
                               THEN NoSnapshot ELSE Snapshot'
    BY Zenon, <1>9, <1>20, <1>27, <2>1
  <2>5. QED
    BY Zenon, <1>27, <2>2, <2>3, <2>4 DEF RunOfAttempt, NoSnapshot
<1>30. KnownOf(attempt.content)' \/ (saved'[Mine].result # <<>> /\ saved'[Mine].content # attempt'.content)
  <2>1. attempt'.content = mine
    BY Zenon, <1>22, <1>27
  <2>2. KnownOf(mine)' => KnownOf(attempt.content)'
    BY Zenon, <2>1 DEF KnownOf
  <2>3. CASE ~Reviewed
    BY Zenon, <1>23, <2>2, <2>3
  <2>4. CASE Reviewed /\ content = mine
    BY Zenon, <1>24, <2>2, <2>4
  <2>5. CASE Reviewed /\ content # mine
    BY Zenon, <1>10, <1>12, <2>1, <2>5 DEF SavedBy
  <2>6. QED
    BY Zenon, <2>3, <2>4, <2>5
<1>31. step = "complete" /\ Kind = "batch" => saved'[Mine].published
  <2>1. CASE Kind = "batch" /\ step = "complete"
    <3>1. Checkpointed /\ saved[Mine].published
      <4>1. Kind # "test" /\ step # "publish"
        BY <2>1
      <4>2. QED
        BY Zenon, <1>2, <4>1 DEF ReviewGives
    <3>2. QED
      BY Zenon, <1>10, <2>1, <3>1 DEF SavedBy
  <2>2. QED
    BY Zenon, <2>1
<1>32. AttemptHolds'
  <2>1. \A f \in Topics : f \in attempt'.todo \/ mapping'[f] = attempt'.threads[f]
    BY Zenon, <1>1, <1>4, <1>7 DEF SameTask
  <2>2. \A f \in Topics : reviews'[NewRun'].rows[f] = "open" => f \in attempt'.result.found
    BY <1>4, <1>18, <1>20, <1>27
  <2>3. \A f \in attempt'.result.closed : f \in Topics => thread'[f] # "none"
    BY Zenon, <1>4, <1>25
  <2>4. ~attempt'.ready /\ attempt'.todo = {} /\ attempt'.scope # "none"
    BY <1>4, <1>7
  <2>5. KnownOf(attempt.content)' \/ (saved'[Mine'].result # <<>> /\ saved'[Mine'].content # attempt'.content)
    BY Zenon, <1>27, <1>30
  <2>6. attempt'.step = "complete" /\ Kind' = "batch" => saved'[Mine'].published
    BY Zenon, <1>4, <1>27, <1>31
  <2>7. Kind' = "batch" => saved'[Mine'].result # <<>>
    BY Zenon, <1>10, <1>12, <1>13, <1>27 DEF SavedBy
  <2>8. CASE attempt'.step = "publish"
    BY <1>29, <2>1, <2>2, <2>3, <2>4, <2>5, <2>7, <2>8 DEF AttemptHolds, Doing
  <2>9. CASE attempt'.step = "complete"
    BY <1>29, <2>4, <2>5, <2>6, <2>9 DEF AttemptHolds, Doing
  <2>10. QED
    BY <1>4, <1>28, <2>8, <2>9
<1>33. QED
  BY Zenon, <1>4, <1>15, <1>17, <1>19, <1>20, <1>21, <1>26, <1>32 DEF HistoryInv, HistoryShape

\* What a publication writes.
RowsOf(end, closed, r) ==
  [f \in Topics |-> IF f \in attempt.result.found \cup closed /\ r \in With(f, Completed)
                    THEN IF f \in closed THEN end ELSE "open" ELSE reviews[r].rows[f]]
StatusIs(status, closed) ==
  /\ DOMAIN status = Topics
  /\ \A f \in Topics :
       /\ f \in attempt.result.found => status[f] = "open"
       /\ f \in closed => status[f] = "resolved" \/ status[f] = thread[f]
       /\ f \notin attempt.result.found \cup closed => status[f] = thread[f]
PublishGives(end, closed, status, ready) ==
  /\ closed = {f \in attempt.result.closed : f \notin attempt.result.found}
  /\ end \in {"resolved", "dismissed"} /\ StatusIs(status, closed)
  /\ ready = ReadyToMerge(OpenIn(Completed), attempt.result)
  /\ thread' = status
  /\ mapping' = [f \in Topics |-> IF f \in attempt.result.found \cup closed THEN status[f] ELSE mapping[f]]
  /\ reviews' = [r \in DOMAIN reviews |-> [reviews[r] EXCEPT !.rows = RowsOf(end, closed, r)]]
  /\ answered' = (answered \cup closed) \ attempt.result.found
  /\ torn' = torn \ (attempt.result.found \cup closed)
  /\ attempt' = [attempt EXCEPT !.step = "complete", !.ready = ready]
  /\ IF Kind = "batch" THEN saved' = [saved EXCEPT ![Mine].published = TRUE] ELSE saved' = saved

LEMMA PublishesIs ==
  ASSUME Publishes
  PROVE  /\ Doing("publish") /\ seen' = seen
         /\ \E end, closed, status, ready : PublishGives(end, closed, status, ready)
<1>1. Doing("publish") /\ seen' = seen
  BY DEF Publishes
<1>2. PICK refused \in SUBSET attempt.result.closed, end \in {"resolved", "dismissed"} :
       LET closed == {f \in attempt.result.closed : f \notin attempt.result.found}
           status == [f \in Topics |-> IF f \in attempt.result.found THEN "open"
                        ELSE IF f \in closed \ refused THEN "resolved" ELSE thread[f]]
           touched == attempt.result.found \cup closed
           marked(r, f) == IF f \in touched /\ r \in With(f, Completed)
                           THEN IF f \in closed THEN end ELSE "open"
                           ELSE reviews[r].rows[f]
       IN  /\ thread' = status
           /\ mapping' = [f \in Topics |-> IF f \in touched THEN status[f] ELSE mapping[f]]
           /\ reviews' = [r \in DOMAIN reviews |->
                            [reviews[r] EXCEPT !.rows = [f \in Topics |-> marked(r, f)]]]
           /\ answered' = (answered \cup closed) \ attempt.result.found
           /\ torn' = torn \ touched
           /\ attempt' = [attempt EXCEPT !.step = "complete",
                            !.ready = ReadyToMerge(OpenIn(Completed), attempt.result)]
           /\ saved' = IF Kind = "batch" THEN [saved EXCEPT ![Mine].published = TRUE] ELSE saved
  BY Zenon DEF Publishes
<1>3. PICK closed : closed = {f \in attempt.result.closed : f \notin attempt.result.found}
  OBVIOUS
<1>4. PICK status : status = [f \in Topics |-> IF f \in attempt.result.found THEN "open"
                        ELSE IF f \in closed \ refused THEN "resolved" ELSE thread[f]]
  OBVIOUS
<1>5. PICK ready : ready = ReadyToMerge(OpenIn(Completed), attempt.result)
  OBVIOUS
<1>6. StatusIs(status, closed)
  BY <1>3, <1>4 DEF StatusIs
<1>7. /\ thread' = status
      /\ mapping' = [f \in Topics |-> IF f \in attempt.result.found \cup closed THEN status[f] ELSE mapping[f]]
  BY Zenon, <1>2, <1>3, <1>4
<1>8. /\ answered' = (answered \cup closed) \ attempt.result.found
      /\ torn' = torn \ (attempt.result.found \cup closed)
      /\ attempt' = [attempt EXCEPT !.step = "complete", !.ready = ready]
  BY Zenon, <1>2, <1>3, <1>5
<1>9. IF Kind = "batch" THEN saved' = [saved EXCEPT ![Mine].published = TRUE] ELSE saved' = saved
  BY Zenon, <1>2
<1>10. reviews' = [r \in DOMAIN reviews |-> [reviews[r] EXCEPT !.rows = RowsOf(end, closed, r)]]
  BY Zenon, <1>2, <1>3 DEF RowsOf
<1>11. PublishGives(end, closed, status, ready)
  BY Zenon, <1>2, <1>3, <1>5, <1>6, <1>7, <1>8, <1>9, <1>10 DEF PublishGives
<1>12. QED
  BY Zenon, <1>1, <1>11

\* Rows that are set are rows.
LEMMA RowsAreSet ==
  ASSUME NEW old, RunShape(old), NEW rows, NEW run, run = [old EXCEPT !.rows = rows]
  PROVE  run.rows = rows
<1>1. PICK j, s, a, u, c, w : /\ j = old.job /\ s = old.status /\ a = old.at
                              /\ u = old.result /\ c = old.snapshot /\ w = old.rows
  OBVIOUS
<1>2. old = [job |-> j, status |-> s, at |-> a, result |-> u, snapshot |-> c, rows |-> w]
  BY Zenon, <1>1 DEF RunShape
<1>3. run = [job |-> j, status |-> s, at |-> a, result |-> u, snapshot |-> c, rows |-> rows]
  BY <1>2
<1>4. QED
  BY <1>3

\* A checkpoint is published.
LEMMA PublishedIs ==
  ASSUME SavedShape(saved), Mine \in HistoryJobs, saved' = [saved EXCEPT ![Mine].published = TRUE]
  PROVE  /\ SavedShape(saved') /\ saved'[Mine].published
         /\ saved'[Mine].result = saved[Mine].result /\ saved'[Mine].content = saved[Mine].content
         /\ \A k \in HistoryJobs : k # Mine => saved'[k] = saved[k]
<1>1. PICK mine, yes : mine = Mine /\ yes = TRUE
  OBVIOUS
<1>2. PICK h, s, u, b, c : /\ h = saved[mine].head /\ s = saved[mine].scope /\ u = saved[mine].result
                           /\ b = saved[mine].published /\ c = saved[mine].content
  OBVIOUS
<1>3. mine \in HistoryJobs /\ DOMAIN saved = HistoryJobs
  BY <1>1 DEF SavedShape
<1>4. PICK old : old = saved[mine]
  OBVIOUS
<1>5. old = [head |-> h, scope |-> s, result |-> u, published |-> b, content |-> c]
  BY Zenon, <1>2, <1>3, <1>4 DEF SavedShape
<1>6. saved' = [saved EXCEPT ![mine].published = yes]
  BY Zenon, <1>1
<1>7. /\ DOMAIN saved' = HistoryJobs /\ saved'[mine] = [old EXCEPT !.published = yes]
      /\ \A k \in HistoryJobs : k # mine => saved'[k] = saved[k]
  BY <1>3, <1>4, <1>6
<1>8. PICK new : new = saved'[mine]
  OBVIOUS
<1>9. new = [head |-> h, scope |-> s, result |-> u, published |-> yes, content |-> c]
  BY <1>5, <1>7, <1>8
<1>10. /\ new.result = u /\ new.content = c /\ new.published = yes
       /\ new = [head |-> new.head, scope |-> new.scope, result |-> new.result,
                 published |-> new.published, content |-> new.content]
  BY <1>9
<1>11. SavedShape(saved')
  <2>1. ASSUME NEW k \in HistoryJobs
        PROVE  saved'[k] = [head |-> saved'[k].head, scope |-> saved'[k].scope, result |-> saved'[k].result,
                            published |-> saved'[k].published, content |-> saved'[k].content]
    <3>1. CASE k = mine
      BY Zenon, <1>8, <1>10, <3>1
    <3>2. CASE k # mine
      BY Zenon, <1>7, <3>2 DEF SavedShape
    <3>3. QED
      BY Zenon, <3>1, <3>2
  <2>2. QED
    BY Zenon, <1>7, <2>1 DEF SavedShape
<1>12. QED
  BY Zenon, <1>1, <1>2, <1>7, <1>8, <1>10, <1>11

\* A review that is ready has found nothing, and closed what was open.
LEMMA ReadyMeans ==
  ASSUME NEW prior, NEW result, ReadyToMerge(prior, result)
  PROVE  /\ \A f : f \notin result.found
         /\ \A f \in prior : f \in result.closed
<1>1. \A f : f \notin (prior \cup result.found) \ (result.closed \ result.found)
  BY DEF ReadyToMerge, Active
<1>2. QED
  BY Zenon, <1>1

LEMMA PublishKeeps == ASSUME HistoryInv, Publishes PROVE HistoryInv'
<1>1. Doing("publish") /\ ~Doing("none") /\ ~Doing("commit") /\ seen' = seen
  <2>1. Doing("publish") /\ seen' = seen
    BY Zenon, PublishesIs
  <2>2. QED
    BY <2>1 DEF Doing
<1>2. PICK end, closed, status, ready : PublishGives(end, closed, status, ready)
  BY Zenon, PublishesIs
<1>3. PICK found : found = attempt.result.found
  OBVIOUS
<1>4. AttemptShape(attempt) /\ RunsShape(reviews) /\ SavedShape(saved)
  BY DEF HistoryInv, HistoryShape
<1>5. /\ AttemptShape(attempt') /\ SameTask(attempt, attempt') /\ attempt'.step = "complete"
      /\ attempt'.scope = attempt.scope /\ attempt'.ready = ready
  <2>1. attempt' = [attempt EXCEPT !.step = "complete", !.ready = ready]
    BY Zenon, <1>2 DEF PublishGives
  <2>2. ChangedTo(attempt, attempt', "complete", attempt.todo, attempt.previous, attempt.scope,
                  attempt.result, ready)
    BY Zenon, <1>4, <2>1, AttemptChanges
  <2>3. QED
    BY Zenon, <2>2 DEF ChangedTo
<1>6. PICK n \in DOMAIN reviews : n = NewRun
  BY Zenon, <1>1, NewRunIs
<1>7. /\ attempt.scope # "none" /\ attempt.todo = {}
      /\ \A f \in Topics : mapping[f] = attempt.threads[f]
      /\ \A f \in Topics : reviews[n].rows[f] = "open" => f \in found
      /\ \A f \in attempt.result.closed : f \in Topics => thread[f] # "none"
      /\ Kind = "batch" => saved[Mine].result # <<>>
      /\ KnownOf(attempt.content) \/ (saved[Mine].result # <<>> /\ saved[Mine].content # attempt.content)
      /\ RunOfAttempt
  BY <1>1, <1>3, <1>6 DEF HistoryInv, AttemptHolds, Doing
<1>8. /\ Len(reviews) > 0 /\ Mine \in HistoryJobs /\ reviews[n].job = Mine
      /\ attempt.format \in {"git-raw-v2", "provider-diff"}
      /\ reviews[n].status = "in_progress" /\ ~reviews[n].result /\ reviews[n].at = 0
      /\ \A f \in Topics : reviews[n].rows[f] \in {"none", "open"}
  BY Zenon, <1>1, <1>6, <1>7 DEF RunOfAttempt
<1>9. reviews[n].snapshot = Snapshot
  <2>1. attempt.step \notin {"sync", "finding", "hydrate"}
    BY <1>1 DEF Doing
  <2>2. QED
    BY Zenon, <1>6, <1>7, <2>1 DEF RunOfAttempt
<1>10. /\ closed = {f \in attempt.result.closed : f \notin found}
       /\ end \in {"resolved", "dismissed"} /\ thread' = status /\ DOMAIN status = Topics
       /\ ready = ReadyToMerge(OpenIn(Completed), attempt.result)
       /\ mapping' = [f \in Topics |-> IF f \in found \cup closed THEN status[f] ELSE mapping[f]]
       /\ answered' = (answered \cup closed) \ found
       /\ torn' = torn \ (found \cup closed)
  BY Zenon, <1>2, <1>3 DEF PublishGives, StatusIs
<1>11. \A f \in Topics : /\ f \in found => status[f] = "open"
                         /\ f \in closed => status[f] = "resolved" \/ status[f] = thread[f]
                         /\ f \notin found \cup closed => status[f] = thread[f]
  BY Zenon, <1>2, <1>3 DEF PublishGives, StatusIs
<1>12. \A f \in closed : f \in Topics => thread[f] # "none"
  BY <1>7, <1>10
<1>13. \A f \in Topics : thread[f] # "none" => thread'[f] # "none"
  BY <1>10, <1>11
<1>14. \A r \in DOMAIN reviews : RunShape(reviews[r]) /\ DOMAIN reviews[r].rows = Topics
  BY Zenon, <1>4, RunsKnown DEF HistoryInv, FindingsHold
<1>15. reviews' = [r \in DOMAIN reviews |-> [reviews[r] EXCEPT !.rows = RowsOf(end, closed, r)]]
  BY Zenon, <1>2 DEF PublishGives
<1>16. ASSUME NEW r \in DOMAIN reviews
       PROVE  WithRows(reviews, reviews', r) /\ reviews'[r].rows = RowsOf(end, closed, r)
  <2>1. PICK old, run, rows : old = reviews[r] /\ run = reviews'[r] /\ rows = RowsOf(end, closed, r)
    OBVIOUS
  <2>2. reviews'[r] = [reviews[r] EXCEPT !.rows = RowsOf(end, closed, r)]
    BY <1>15
  <2>3. run = [old EXCEPT !.rows = rows]
    BY Zenon, <2>1, <2>2
  <2>4. RunShape(old)
    BY Zenon, <1>14, <2>1
  <2>5. run.rows = rows
    BY Zenon, <2>3, <2>4, RowsAreSet
  <2>6. WithRows(reviews, reviews', r)
    BY Zenon, <2>1, <2>3 DEF WithRows
  <2>7. QED
    BY Zenon, <2>1, <2>5, <2>6
<1>17. OnlyRows(reviews, reviews')
  <2>1. reviews' = [r \in DOMAIN reviews |-> reviews'[r]]
    BY <1>15
  <2>2. QED
    BY Zenon, <1>4, <1>16, <2>1, RowsChange
<1>18. /\ RunsShape(reviews') /\ Len(reviews') = Len(reviews) /\ DOMAIN reviews' = DOMAIN reviews
       /\ \A r \in DOMAIN reviews :
            /\ reviews'[r].job = reviews[r].job /\ reviews'[r].status = reviews[r].status
            /\ reviews'[r].at = reviews[r].at
            /\ reviews'[r].result = reviews[r].result /\ reviews'[r].snapshot = reviews[r].snapshot
  BY Zenon, <1>17 DEF OnlyRows
<1>19. Completed' = Completed /\ Completed \subseteq DOMAIN reviews
  BY <1>18 DEF Completed
<1>20. ASSUME NEW r \in DOMAIN reviews, NEW f \in Topics
       PROVE  reviews'[r].rows[f] = IF f \in found \cup closed /\ r \in Completed /\ reviews[r].rows[f] # "none"
                                    THEN IF f \in closed THEN end ELSE "open" ELSE reviews[r].rows[f]
  <2>1. RowsOf(end, closed, r)[f] = IF f \in found \cup closed /\ r \in With(f, Completed)
                                    THEN IF f \in closed THEN end ELSE "open" ELSE reviews[r].rows[f]
    BY <1>3 DEF RowsOf
  <2>2. r \in With(f, Completed) <=> r \in Completed /\ reviews[r].rows[f] # "none"
    BY DEF With
  <2>3. QED
    BY <1>16, <2>1, <2>2
<1>21. ASSUME NEW r \in DOMAIN reviews PROVE DOMAIN reviews'[r].rows = Topics
  BY <1>16 DEF RowsOf
<1>22. /\ SavedShape(saved')
       /\ saved'[Mine].result = saved[Mine].result /\ saved'[Mine].content = saved[Mine].content
       /\ saved[Mine].published => saved'[Mine].published
       /\ Kind = "batch" => saved'[Mine].published
       /\ Kind # "batch" => saved'[Mine].published = saved[Mine].published
       /\ \A k \in HistoryJobs : k # Mine => saved'[k] = saved[k]
  <2>1. CASE Kind = "batch"
    <3>1. saved' = [saved EXCEPT ![Mine].published = TRUE]
      BY Zenon, <1>2, <2>1 DEF PublishGives
    <3>2. QED
      BY Zenon, <1>4, <1>8, <2>1, <3>1, PublishedIs
  <2>2. CASE Kind # "batch"
    <3>1. saved' = saved
      BY Zenon, <1>2, <2>2 DEF PublishGives
    <3>2. SavedShape(saved')
      BY Zenon, <1>4, <3>1 DEF SavedShape
    <3>3. QED
      BY Zenon, <2>2, <3>1, <3>2
  <2>3. QED
    BY Zenon, <2>1, <2>2
<1>23. \A k \in HistoryJobs :
         saved[k].published => /\ saved'[k].result = saved[k].result /\ saved'[k].content = saved[k].content
                               /\ saved'[k].published
  BY Zenon, <1>22
<1>24. /\ Carried
       /\ \A j \in HistoryJobs : saved'[j] = saved[j] => CheckpointHolds(j)'
       /\ \A r \in DOMAIN reviews' : RunHolds(r)'
  BY Zenon, <1>1, <1>13, <1>17, <1>23, RowsOnly
<1>25. ASSUME NEW k \in HistoryJobs PROVE CheckpointHolds(k)'
  <2>1. CASE k # Mine
    BY Zenon, <1>22, <1>24, <2>1
  <2>2. CASE k = Mine
    <3>1. PICK old : old = saved[k].content
      OBVIOUS
    <3>2. CheckpointHolds(k)
      BY Zenon DEF HistoryInv
    <3>3. saved[k].result # <<>> => KnownOf(old)
      BY Zenon, <3>1, <3>2 DEF CheckpointHolds
    <3>4. KnownOf(old) => KnownOf(old)'
      BY Zenon, <1>24, KnownStays DEF HistoryInv
    <3>5. saved'[k].content = old /\ saved'[k].result = saved[k].result
      BY Zenon, <1>22, <2>2, <3>1
    <3>6. saved'[k].result # <<>> => KnownOf(saved[k].content)'
      BY Zenon, <3>3, <3>4, <3>5 DEF KnownOf
    <3>7. saved'[k].published => saved'[k].result # <<>>
      BY Zenon, <1>7, <1>22, <2>2, <3>2, <3>5 DEF CheckpointHolds
    <3>8. QED
      BY Zenon, <1>13, <3>2, <3>5, <3>6, <3>7 DEF CheckpointHolds
  <2>3. QED
    BY Zenon, <2>1, <2>2
<1>26. ASSUME NEW f \in Topics PROVE FindingHolds(f)'
  <2>1. FindingHolds(f)
    BY Zenon DEF HistoryInv, FindingsHold
  <2>2. /\ thread'[f] = status[f]
        /\ mapping'[f] = IF f \in found \cup closed THEN status[f] ELSE mapping[f]
    BY <1>10
  <2>3. ASSUME NEW r \in DOMAIN reviews
        PROVE  /\ reviews'[r].rows[f] \in {"none", "open", "resolved", "dismissed"}
               /\ r \in Completed =>
                    /\ reviews'[r].rows[f] = "dismissed" => f \in answered'
                    /\ reviews'[r].rows[f] = "resolved" /\ mapping'[f] = "open" => f \in answered' \cup torn'
    <3>1. reviews[r].rows[f] \in {"none", "open", "resolved", "dismissed"}
      BY <2>1 DEF FindingHolds
    <3>2. CASE f \in closed
      BY <1>10, <1>20, <3>1, <3>2
    <3>3. CASE f \in found
      <4>1. f \notin closed
        BY <1>10, <3>3
      <4>2. QED
        BY <1>20, <3>1, <3>3, <4>1
    <3>4. CASE f \notin found \cup closed
      <4>1. reviews'[r].rows[f] = reviews[r].rows[f] /\ mapping'[f] = mapping[f]
        BY <1>20, <2>2, <3>4
      <4>2. (f \in answered => f \in answered') /\ (f \in torn => f \in torn')
        BY <1>10, <3>4
      <4>3. QED
        BY <2>1, <3>1, <4>1, <4>2 DEF FindingHolds
    <3>5. QED
      BY <3>2, <3>3, <3>4
  <2>4. /\ thread'[f] \in {"none", "open", "resolved"} /\ mapping'[f] \in {"none", "open", "resolved"}
        /\ thread'[f] = "none" <=> mapping'[f] = "none"
    <3>1. /\ thread[f] \in {"none", "open", "resolved"} /\ mapping[f] \in {"none", "open", "resolved"}
          /\ thread[f] = "none" <=> mapping[f] = "none"
      BY <2>1 DEF FindingHolds
    <3>2. QED
      BY <1>11, <2>2, <3>1
  <2>5. QED
    BY Zenon, <1>18, <1>19, <2>3, <2>4 DEF FindingHolds
<1>27. FindingsHold'
  <2>1. DOMAIN thread' = Topics /\ DOMAIN mapping' = Topics
    BY <1>10
  <2>2. QED
    BY Zenon, <1>18, <1>21, <1>26, <2>1 DEF FindingsHold
<1>28. NewRun' = n /\ Mine' = Mine /\ attempt'.format = attempt.format /\ attempt'.content = attempt.content
       /\ Snapshot' = Snapshot /\ Kind' = Kind /\ attempt'.threads = attempt.threads
  BY Zenon, <1>5, <1>6, <1>18 DEF NewRun, Mine, SameTask, Snapshot, Kind
<1>29. \A f \in Topics : reviews'[n].rows[f] = reviews[n].rows[f]
  <2>1. n \notin Completed
    BY <1>8 DEF Completed
  <2>2. QED
    BY <1>20, <2>1
<1>30. RunOfAttempt'
  <2>1. attempt'.step \notin {"sync", "finding", "hydrate"} /\ attempt'.scope # "none"
    BY <1>5, <1>7
  <2>2. Len(reviews') > 0 /\ Mine' \in HistoryJobs /\ reviews'[n].job = Mine'
        /\ attempt'.format \in {"git-raw-v2", "provider-diff"}
    BY Zenon, <1>8, <1>18, <1>28
  <2>3. /\ reviews'[n].status = "in_progress" /\ ~reviews'[n].result /\ reviews'[n].at = 0
        /\ \A f \in Topics : reviews'[n].rows[f] \in {"none", "open"}
    BY Zenon, <1>8, <1>18, <1>29
  <2>4. reviews'[n].snapshot = IF attempt'.step \in {"sync", "finding", "hydrate"} \/ attempt'.scope = "none"
                               THEN NoSnapshot ELSE Snapshot'
    BY Zenon, <1>9, <1>18, <1>28, <2>1
  <2>5. QED
    BY Zenon, <1>28, <2>2, <2>3, <2>4 DEF RunOfAttempt, NoSnapshot
<1>31. ASSUME ready
       PROVE  /\ \A f \in Topics : reviews'[n].rows[f] = "none"
              /\ \A f \in Topics : attempt'.threads[f] = "open" /\ With(f, Completed)' # {}
                                     => f \in answered' \cup torn'
  <2>1. /\ \A f : f \notin found
        /\ \A f \in OpenIn(Completed) : f \in attempt.result.closed
    BY Zenon, <1>3, <1>10, <1>31, ReadyMeans
  <2>2. \A f \in Topics : reviews'[n].rows[f] = "none"
    BY <1>7, <1>8, <1>29, <2>1
  <2>3. ASSUME NEW f \in Topics, attempt'.threads[f] = "open", With(f, Completed)' # {}
        PROVE  f \in answered' \cup torn'
    <3>1. CASE f \in attempt.result.closed
      BY <1>10, <2>1, <3>1
    <3>2. CASE f \notin attempt.result.closed
      <4>1. f \notin found \cup closed /\ f \notin OpenIn(Completed)
        BY <1>10, <2>1, <3>2
      <4>2. PICK rs : rs = With(f, Completed)
        OBVIOUS
      <4>3. PICK q \in DOMAIN reviews' : reviews'[q].status = "completed" /\ reviews'[q].rows[f] # "none"
        BY <2>3 DEF With, Completed
      <4>4. q \in rs
        BY <1>18, <1>20, <4>1, <4>2, <4>3 DEF With, Completed
      <4>5. rs \subseteq DOMAIN reviews /\ rs # {}
        BY <4>2, <4>4 DEF With, Completed
      <4>6. PICK r : r = Latest(rs)
        OBVIOUS
      <4>7. r \in rs
        BY Zenon, <4>5, <4>6, LatestIs
      <4>8. r \in Completed /\ reviews[r].rows[f] # "none"
        BY <4>2, <4>7 DEF With
      <4>9. reviews[r].rows[f] # "open"
        BY Zenon, <4>1, <4>2, <4>5, <4>6 DEF OpenIn
      <4>10. mapping[f] = "open"
        BY <1>7, <1>28, <2>3
      <4>11. f \in answered \cup torn
        <5>1. FindingHolds(f)
          BY Zenon DEF HistoryInv, FindingsHold
        <5>2. QED
          BY <1>19, <4>8, <4>9, <4>10, <5>1 DEF FindingHolds
      <4>12. QED
        BY <1>10, <4>1, <4>11
    <3>3. QED
      BY <3>1, <3>2
  <2>4. QED
    BY Zenon, <2>2, <2>3
<1>32. KnownOf(attempt.content)' \/ (saved'[Mine].result # <<>> /\ saved'[Mine].content # attempt'.content)
  <2>1. PICK mine : mine = attempt.content
    OBVIOUS
  <2>2. KnownOf(mine) => KnownOf(mine)'
    BY Zenon, <1>24, KnownStays DEF HistoryInv
  <2>3. attempt'.content = mine
    BY Zenon, <1>28, <2>1
  <2>4. KnownOf(mine)' => KnownOf(attempt.content)'
    BY Zenon, <2>3 DEF KnownOf
  <2>5. QED
    BY Zenon, <1>7, <1>22, <2>1, <2>2, <2>3, <2>4
<1>33. AttemptHolds'
  <2>1. KnownOf(attempt.content)' \/ (saved'[Mine'].result # <<>> /\ saved'[Mine'].content # attempt'.content)
    BY Zenon, <1>28, <1>32
  <2>2. Kind' = "batch" => saved'[Mine'].published
    BY Zenon, <1>22, <1>28
  <2>3. attempt'.ready => /\ ReadyIsEarned' /\ \A f \in Topics : reviews'[NewRun'].rows[f] = "none"
    BY Zenon, <1>5, <1>28, <1>31 DEF ReadyIsEarned
  <2>4. attempt'.scope # "none"
    BY <1>5, <1>7
  <2>5. QED
    BY <1>5, <1>30, <2>1, <2>2, <2>3, <2>4 DEF AttemptHolds, Doing
<1>34. QED
  BY Zenon, <1>4, <1>5, <1>18, <1>22, <1>24, <1>25, <1>27, <1>33 DEF HistoryInv, HistoryShape

\* What there was before the jobs.
StartsWith(past, found, content) ==
  /\ found \in {"none", "open"}
  /\ content = [p \in Paths |-> IF past = "unreadable" THEN 0 ELSE 1]
  /\ reviews = IF past = "none" THEN <<>>
               ELSE <<[job |-> 0, status |-> "completed", at |-> 1, result |-> TRUE,
                       snapshot |-> [format |-> past, content |-> content],
                       rows |-> [f \in Topics |-> found]]>>
  /\ seen = IF past = "none" THEN {} ELSE ShownOf(content)
  /\ thread = [f \in Topics |-> found] /\ mapping = thread

LEMMA HistoryInitInv == HistoryInit => HistoryInv
<1> SUFFICES ASSUME HistoryInit PROVE HistoryInv
  OBVIOUS
<1>1. PICK past, found, content : StartsWith(past, found, content)
  <2>1. PICK past \in {"none", "content-signature-v1", "unreadable"}, found \in {"none", "open"} :
          LET content == [p \in Paths |-> IF past = "unreadable" THEN 0 ELSE 1]
          IN  /\ past = "none" => found = "none"
              /\ reviews = IF past = "none" THEN <<>>
                           ELSE <<[job |-> 0, status |-> "completed", at |-> 1, result |-> TRUE,
                                   snapshot |-> [format |-> past, content |-> content],
                                   rows |-> [f \in Topics |-> found]]>>
              /\ seen = IF past = "none" THEN {} ELSE ShownOf(content)
              /\ thread = [f \in Topics |-> found] /\ mapping = thread
    BY Zenon DEF HistoryInit
  <2>2. PICK content : content = [p \in Paths |-> IF past = "unreadable" THEN 0 ELSE 1]
    OBVIOUS
  <2>3. found \in {"none", "open"}
    OBVIOUS
  <2>4. StartsWith(past, found, content)
    BY Zenon, <2>1, <2>2, <2>3 DEF StartsWith
  <2>5. QED
    BY Zenon, <2>4
<1>2. /\ saved = [j \in HistoryJobs |-> NoSaved] /\ attempt = Nobody
  BY DEF HistoryInit
<1>3. PICK yes, no, nothing, snapshot, rows :
        /\ yes = TRUE /\ no = FALSE /\ nothing = NoSaved
        /\ snapshot = [format |-> past, content |-> content] /\ rows = [f \in Topics |-> found]
  OBVIOUS
<1>4. PICK run : run = [job |-> 0, status |-> "completed", at |-> 1, result |-> yes,
                        snapshot |-> snapshot, rows |-> rows]
  OBVIOUS
<1>5. /\ RunShape(run) /\ run.job = 0 /\ run.status = "completed" /\ run.at = 1 /\ run.result
      /\ run.snapshot.content = content /\ run.rows = rows
  <2>1. snapshot.content = content
    BY <1>3
  <2>2. QED
    BY <1>3, <1>4, <2>1 DEF RunShape
<1>6. reviews = <<>> \/ (reviews = <<run>> /\ seen = ShownOf(content))
  <2>1. past # "none" => reviews = <<run>> /\ seen = ShownOf(content)
    BY Zenon, <1>1, <1>3, <1>4 DEF StartsWith
  <2>2. past = "none" => reviews = <<>>
    BY Zenon, <1>1 DEF StartsWith
  <2>3. QED
    BY Zenon, <2>1, <2>2
<1>7. RunsShape(reviews) /\ \A r \in DOMAIN reviews : r = 1 /\ reviews = <<run>> /\ seen = ShownOf(content)
  <2>1. CASE reviews = <<>>
    <3>1. Len(reviews) = 0 /\ reviews = [r \in 1 .. 0 |-> reviews[r]] /\ DOMAIN reviews = {}
      BY <2>1
    <3>2. QED
      BY <3>1 DEF RunsShape
  <2>2. CASE reviews = <<run>> /\ seen = ShownOf(content)
    <3>1. PICK n \in Nat : n = 1
      OBVIOUS
    <3>2. Len(reviews) = n /\ reviews = [r \in 1 .. n |-> reviews[r]] /\ DOMAIN reviews = 1 .. n
          /\ reviews[1] = run
      BY <2>2, <3>1
    <3>3. \A r \in 1 .. n : r = 1
      BY <3>1
    <3>4. RunsShape(reviews)
      <4>1. \A r \in 1 .. n : RunShape(reviews[r])
        BY Zenon, <1>5, <3>2, <3>3
      <4>2. reviews = [r \in 1 .. n |-> reviews[r]]
        BY <3>2
      <4>3. QED
        BY Zenon, <4>1, <4>2, RunsAre
    <3>5. QED
      BY Zenon, <2>2, <3>2, <3>3, <3>4
  <2>3. QED
    BY Zenon, <1>6, <2>1, <2>2
<1>8. \A r \in DOMAIN reviews : reviews[r] = run
  BY <1>7
<1>9. /\ DOMAIN saved = HistoryJobs
      /\ nothing = [head |-> 0, scope |-> "none", result |-> <<>>, published |-> no, content |-> <<>>]
      /\ \A j \in HistoryJobs : saved[j] = nothing
  <2>1. nothing = [head |-> 0, scope |-> "none", result |-> <<>>, published |-> no, content |-> <<>>]
    BY Zenon, <1>3 DEF NoSaved
  <2>2. saved = [j \in HistoryJobs |-> nothing]
    BY Zenon, <1>2, <1>3
  <2>3. QED
    BY <2>1, <2>2
<1>10. /\ nothing.result = <<>> /\ ~nothing.published
       /\ nothing = [head |-> nothing.head, scope |-> nothing.scope, result |-> nothing.result,
                     published |-> nothing.published, content |-> nothing.content]
  BY <1>3, <1>9
<1>11. SavedShape(saved)
  BY Zenon, <1>9, <1>10 DEF SavedShape
<1>12. ASSUME NEW j \in HistoryJobs PROVE CheckpointHolds(j)
  BY Zenon, <1>9, <1>10 DEF CheckpointHolds
<1>13. ASSUME NEW r \in DOMAIN reviews PROVE RunHolds(r)
  <2>1. reviews[r] = run /\ Len(reviews) = 1 /\ seen = ShownOf(content)
    BY <1>7, <1>8
  <2>2. KnownOf(content)
    BY <2>1 DEF KnownOf, Known, ShownOf, ChangedIn
  <2>3. reviews[r].at \in 0 .. Len(reviews) /\ reviews[r].job \in HistoryJobs \cup {0}
    BY <1>5, <2>1
  <2>4. reviews[r].job = 0 /\ reviews[r].result /\ reviews[r].snapshot.content = content
    BY Zenon, <1>5, <2>1
  <2>5. QED
    BY Zenon, <2>2, <2>3, <2>4 DEF RunHolds
<1>14. FindingsHold
  <2>1. DOMAIN rows = Topics /\ thread = rows /\ mapping = rows /\ \A f \in Topics : rows[f] = found
    <3>1. thread = [f \in Topics |-> found] /\ mapping = thread
      BY Zenon, <1>1 DEF StartsWith
    <3>2. QED
      BY <1>3, <3>1
  <2>2. ASSUME NEW r \in DOMAIN reviews PROVE reviews[r].rows = rows
    BY Zenon, <1>5, <1>8
  <2>3. ASSUME NEW f \in Topics PROVE FindingHolds(f)
    <3>1. found \in {"none", "open"}
      BY Zenon, <1>1 DEF StartsWith
    <3>2. QED
      BY <2>1, <2>2, <3>1 DEF FindingHolds, Completed
  <2>4. QED
    BY Zenon, <2>1, <2>2, <2>3 DEF FindingsHold
<1>15. AttemptHolds /\ AttemptShape(attempt)
  <2>1. attempt = [step |-> "none", job |-> 0, content |-> <<>>, format |-> "none", threads |-> <<>>,
                   todo |-> {}, previous |-> 0, scope |-> "none", result |-> <<>>, ready |-> no]
    BY Zenon, <1>2, <1>3 DEF Nobody
  <2>2. attempt.step = "none" /\ ~attempt.ready /\ AttemptShape(attempt)
    BY <1>3, <2>1 DEF AttemptShape
  <2>3. QED
    BY <2>2 DEF AttemptHolds, Doing
<1>16. QED
  BY Zenon, <1>7, <1>11, <1>12, <1>13, <1>14, <1>15 DEF HistoryInv, HistoryShape

LEMMA HistoryNextInv == HistoryInv /\ [HistoryNext]_historyVars => HistoryInv'
<1> SUFFICES ASSUME HistoryInv, [HistoryNext]_historyVars PROVE HistoryInv'
  OBVIOUS
<1>1. CASE PeopleMove
  BY <1>1, PeopleKeep
<1>2. ASSUME NEW j \in HistoryJobs, Begins(j) PROVE HistoryInv'
  BY <1>2, BeginKeeps
<1>3. ASSUME NEW f \in Topics, SyncsMapping(f) PROVE HistoryInv'
  BY <1>3, MappingKeeps
<1>4. ASSUME NEW f \in Topics, SyncsFinding(f) PROVE HistoryInv'
  BY <1>4, FindingKeeps
<1>5. CASE Routes
  BY <1>5, RouteKeeps
<1>6. CASE Hydrates
  BY <1>6, HydrateKeeps
<1>15. CASE AnswersRequests
  BY <1>15, AnswersKeep
<1>7. CASE Reviews
  BY <1>7, ReviewKeeps
<1>8. CASE Publishes
  BY <1>8, PublishKeeps
<1>9. CASE EndsRun
  BY <1>9, EndKeeps
<1>10. CASE CommitsJob \/ CommitIsLost
  BY <1>10, CommitKeeps
<1>11. CASE AttemptFails
  BY <1>11, FailureKeeps
<1>12. ASSUME NEW r \in DOMAIN reviews, RunReconciled(r) PROVE HistoryInv'
  BY <1>12, ReconcileKeeps
<1>13. CASE UNCHANGED historyVars
  <2>1. /\ UNCHANGED <<thread, mapping, answered, torn, saved, seen, reviews>>
        /\ thread' = thread /\ mapping' = mapping /\ saved' = saved /\ reviews' = reviews /\ attempt' = attempt
        /\ answered' = answered /\ torn' = torn /\ seen' = seen
    BY <1>13 DEF historyVars
  <2>2. /\ Carried /\ FindingsHold' /\ RunsShape(reviews') /\ SavedShape(saved')
        /\ \A j \in HistoryJobs : CheckpointHolds(j)'
        /\ \A r \in DOMAIN reviews' : RunHolds(r)'
    BY Zenon, <2>1, NothingWritten
  <2>3. AttemptHolds' /\ AttemptShape(attempt')
    <3>1. RunOfAttempt => RunOfAttempt'
      BY Zenon, <2>1 DEF RunOfAttempt, NewRun, Mine, Doing, Snapshot, NoSnapshot
    <3>2. KnownOf(attempt.content) => KnownOf(attempt.content)'
      <4>1. PICK c : c = attempt.content
        OBVIOUS
      <4>2. KnownOf(c) => KnownOf(c)'
        BY Zenon, <2>2, KnownStays DEF HistoryInv
      <4>3. QED
        BY Zenon, <2>1, <4>1, <4>2 DEF KnownOf
    <3>3. ReadyIsEarned => ReadyIsEarned'
      BY Zenon, <2>1 DEF ReadyIsEarned, With, Completed
    <3>4. NewRun' = NewRun /\ Mine' = Mine /\ Kind' = Kind /\ \A step : Doing(step)' <=> Doing(step)
      BY Zenon, <2>1 DEF NewRun, Mine, Kind, Doing
    <3>5. AttemptHolds'
      BY Zenon, <2>1, <3>1, <3>2, <3>3, <3>4 DEF HistoryInv, AttemptHolds
    <3>6. QED
      BY Zenon, <2>1, <3>5 DEF HistoryInv, HistoryShape, AttemptShape
  <2>4. QED
    BY Zenon, <2>2, <2>3 DEF HistoryInv, HistoryShape
<1>14. QED
  BY <1>1, <1>2, <1>3, <1>4, <1>5, <1>6, <1>7, <1>8, <1>9, <1>10, <1>11, <1>12, <1>13, <1>15 DEF HistoryNext

LEMMA HistoryInvSound == HistoryInv => HistoryIsSound
<1> SUFFICES ASSUME HistoryInv PROVE HistoryIsSound
  OBVIOUS
<1>1. ASSUME NEW r \in Completed, NEW shown \in ShownOf(reviews[r].snapshot.content)
      PROVE  shown \in seen \/ Missed(shown[1], shown[2])
  <2>1. PICK content : content = reviews[r].snapshot.content
    OBVIOUS
  <2>2. PICK p \in Paths : content[p] # 0 /\ shown = <<p, content[p]>>
    BY <1>1, <2>1 DEF ShownOf, ChangedIn
  <2>3. RunHolds(r) /\ reviews[r].status = "completed"
    BY <1>1 DEF HistoryInv, Completed
  <2>4. reviews[r].result
    <3>1. NoSnapshot.content[p] = 0
      BY DEF NoSnapshot
    <3>2. QED
      BY Zenon, <2>1, <2>2, <2>3, <3>1 DEF RunHolds
  <2>5. Known(p, content[p])
    BY Zenon, <2>1, <2>2, <2>3, <2>4 DEF RunHolds, KnownOf
  <2>6. PICK c : c = content[p]
    OBVIOUS
  <2>7. shown = <<p, c>> /\ shown[1] = p /\ shown[2] = c
    BY <2>2, <2>6
  <2>8. <<p, c>> \in seen \/ Missed(p, c)
    BY Zenon, <2>5, <2>6 DEF Known
  <2>9. QED
    BY Zenon, <2>7, <2>8
<1>2. NoChangeUnseen
  BY Zenon, <1>1 DEF NoChangeUnseen
<1>3. ReadyIsEarned
  BY DEF HistoryInv, AttemptHolds, ReadyIsEarned
<1>4. QED
  BY <1>2, <1>3 DEF HistoryIsSound

\* What a completed review found changed was shown to some review, and a review
\* that calls the code review ready leaves nothing open that it knows of
\* (buildScopedReviewContext, listLatestFindingsForCodeReview).
THEOREM NothingIsHidden == HistorySpec => []HistoryIsSound
<1>1. HistorySpec => []HistoryInv
  BY HistoryInitInv, HistoryNextInv, PTL DEF HistorySpec
<1>2. QED
  BY <1>1, HistoryInvSound, PTL

=============================================================================
