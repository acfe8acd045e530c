------------------------- MODULE SingleWorkerProofs -------------------------
(***************************************************************************)
(* Machine-checked proofs about SingleWorkerAdmission: what holds between  *)
(* any two writes of the adapter, for every number of failed writes and    *)
(* deaths of the process and every set of requests.                        *)
(***************************************************************************)
EXTENDS SingleWorkerAdmission, BatchProofs

----------------------------------------------------------------------------
(* The inductive invariant *)

OneUnfinished == \A p, q \in Pending : p = q

LinkedExists ==
  \A r \in Requests : requests[r].job # None =>
    /\ Exists(requests[r].job)
    /\ requests[r].job \in BatchJobs
         => jobs[requests[r].job].review = requests[r].review

AdmittedLinked == \A r \in Requests : requests[r].admitted => requests[r].job # None

\* A batch exists before its first request is linked, but no other request can
\* join it in between: recovery finishes the first one before.
Owned ==
  \A r \in Requests : Exists(Batch(r)) =>
    /\ Saved(r) /\ requests[r].job \in {None, Batch(r)}
    /\ jobs[Batch(r)].review = requests[r].review

FounderLinked ==
  \A q, r \in Requests : requests[q].job = Batch(r) => requests[r].job = Batch(r)

StartedHasMember ==
  \A b \in BatchJobs : jobs[b].started => \E r \in Requests : requests[r].job = b

\* What the rows keep to after every write.
StagedRows ==
  /\ RowsTypeOK
  /\ OneUnfinished /\ UnsavedClean /\ LinkedExists /\ AdmittedLinked
  /\ Owned /\ FounderLinked
  /\ AbsentUnstarted /\ RunningStarted /\ StartedHasMember
  /\ NoHalfBatchClaimed

Attaching == op.stage \in {"attach", "schedule", "admit"}

\* What the operation in progress knows of the rows: outside an attachment the
\* requests still to be finished are all there are.
OpKnows ==
  /\ op \in Op
  /\ op.stage = "recover" => Pending = op.todo
  /\ op.stage # "idle" /\ op.kind = "admit" => op.new \in Requests
  /\ Attaching => op.cur \in Pending /\ op.todo = {}
  /\ op.stage \in {"schedule", "admit"} => requests[op.cur].job # None

StagedInv ==
  /\ StagedRows
  /\ OpKnows
  /\ attempt \in Jobs \cup {None}
  /\ faults \in Nat

----------------------------------------------------------------------------
(* Steps that leave the requests alone *)

\* No request changes, and the row of a batch only moves forward; a batch that
\* starts has a request, and no request is unfinished then.
RowsMove ==
  /\ requests' = requests /\ jobs' \in [Jobs -> Job] /\ clock' \in Nat
  /\ \A j \in Jobs : Exists(j) => Exists(j)'
  /\ \A b \in BatchJobs :
       /\ jobs'[b].review = jobs[b].review
       /\ Exists(b)' => Exists(b)
       /\ jobs[b].started => jobs'[b].started
       /\ jobs'[b].status = "in_progress" => jobs'[b].started
       /\ jobs'[b].started =>
            jobs[b].started \/ (Pending = {} /\ Members(requests, b) # {})

LEMMA MovedRows ==
  ASSUME StagedRows, RowsMove
  PROVE  StagedRows' /\ Pending' = Pending
<1>1. /\ requests' = requests /\ Pending' = Pending
      /\ requests \in [Requests -> Request] /\ BatchJobs \subseteq Jobs
  BY JobNames DEF RowsMove, Pending, Saved, StagedRows, RowsTypeOK
<1>2. RowsTypeOK'
  BY DEF RowsMove, StagedRows, RowsTypeOK
<1>3. (OneUnfinished /\ UnsavedClean /\ AdmittedLinked /\ FounderLinked)'
  BY <1>1 DEF StagedRows, OneUnfinished, UnsavedClean, AdmittedLinked, FounderLinked, Saved
<1>4. LinkedExists'
  <2>1. ASSUME NEW r \in Requests, NEW j, j = requests[r].job, j # None
        PROVE  Exists(j)' /\ (j \in BatchJobs => jobs'[j].review = requests[r].review)
    <3>1. j \in Jobs /\ Exists(j) /\ (j \in BatchJobs => jobs[j].review = requests[r].review)
      BY <1>1, <2>1 DEF StagedRows, LinkedExists, Request
    <3>2. QED
      BY <3>1 DEF RowsMove
  <2>2. QED
    BY <1>1, <2>1 DEF LinkedExists, Exists
<1>5. Owned'
  BY <1>1, JobNames DEF StagedRows, Owned, RowsMove, Saved, Exists
<1>6. (AbsentUnstarted /\ RunningStarted)'
  <2>1. SUFFICES ASSUME NEW b \in BatchJobs
                 PROVE  /\ ~Exists(b)' => ~jobs'[b].started
                        /\ jobs'[b].status = "in_progress" => jobs'[b].started
    BY DEF AbsentUnstarted, RunningStarted, Exists
  <2>2. ASSUME ~Exists(b)'
        PROVE  ~jobs'[b].started
    <3>1. ~Exists(b) /\ ~jobs[b].started
      BY <1>1, <2>2 DEF RowsMove, StagedRows, AbsentUnstarted
    <3>2. Members(requests, b) = {}
      BY <1>1, <3>1, JobNames DEF StagedRows, LinkedExists, Members, Exists
    <3>3. QED
      BY <3>1, <3>2 DEF RowsMove
  <2>3. QED
    BY <2>2 DEF RowsMove
<1>7. StartedHasMember'
  <2>1. ASSUME NEW b \in BatchJobs, jobs'[b].started
        PROVE  \E r \in Requests : requests[r].job = b
    BY <2>1 DEF RowsMove, StagedRows, StartedHasMember, Members
  <2>2. QED
    BY <1>1, <2>1 DEF StartedHasMember
<1>8. NoHalfBatchClaimed'
  <2>1. ASSUME NEW r \in Pending, NEW b \in BatchJobs, b = requests[r].job
        PROVE  ~jobs'[b].started
    BY <2>1 DEF RowsMove, StagedRows, NoHalfBatchClaimed
  <2>2. QED
    BY <1>1, <2>1 DEF NoHalfBatchClaimed
<1>9. QED
  BY <1>1, <1>2, <1>3, <1>4, <1>5, <1>6, <1>7, <1>8 DEF StagedRows

\* A batch that collects after the step did so before, and is ready no later.
Sooner(b) ==
  Collecting(b)' => Collecting(b) /\ jobs'[b].availableAt <= jobs[b].availableAt

\* Steps that change no row move the rows.
LEMMA StillRows ==
  ASSUME StagedRows, UNCHANGED <<clock, requests, jobs>>
  PROVE  RowsMove /\ \A b \in BatchJobs : Sooner(b)
BY JobNames
   DEF StagedRows, RowsTypeOK, RowsMove, Exists, RunningStarted, Sooner, Collecting, Job

\* So do the steps of the queue.
LEMMA ForwardRows ==
  ASSUME StagedRows, requests' = requests, clock' = clock, jobs' \in [Jobs -> Job],
         \A j \in Jobs : Exists(j) => Exists(j)',
         \A b \in BatchJobs : jobs'[b] = jobs[b] \/ Forward(b),
         \A b \in BatchJobs : jobs'[b].started = jobs[b].started
  PROVE  RowsMove /\ \A b \in BatchJobs : Sooner(b)
<1>1. clock' \in Nat /\ \A b \in BatchJobs : jobs[b].availableAt \in Nat
  BY JobNames DEF StagedRows, RowsTypeOK, Job
<1>2. ASSUME NEW b \in BatchJobs
      PROVE  /\ jobs'[b].review = jobs[b].review
             /\ Exists(b)' => Exists(b)
             /\ jobs[b].started => jobs'[b].started
             /\ jobs'[b].status = "in_progress" => jobs'[b].started
             /\ jobs'[b].started => jobs[b].started
  BY <1>2 DEF Forward, Exists, StagedRows, RunningStarted
<1>3. \A b \in BatchJobs : Sooner(b)
  BY <1>1 DEF Forward, Sooner, Collecting
<1>4. QED
  BY <1>1, <1>2, <1>3 DEF RowsMove

\* Steps of the process other than those of an attachment, and of its queue.
QuietStep ==
  \/ Tick
  \/ UNCHANGED <<clock, requests, jobs>>
  \/ \E r \in Locals : SubmitLocal(r)
  \/ \E j \in Jobs : Expire(j) /\ UNCHANGED clock
  \/ \E j \in Jobs : AttemptEnds(j) /\ UNCHANGED clock
  \/ \E j \in Jobs : RecoverLease(j)
  \/ Seal \/ Schedule

\* The first request of a batch and a quiet period give an instant.
LEMMA ScheduledRows ==
  ASSUME StagedRows, OpKnows, Schedule
  PROVE  /\ requests' = requests /\ clock' = clock
         /\ LET b == Cur.job
            IN  \/ jobs' = jobs /\ (b \in BatchJobs => ~Collecting(b))
               \/ \E at \in ReadyTimes(requests, Members(requests, b)) :
                    /\ at \in Nat /\ b \in BatchJobs
                    /\ jobs' = [jobs EXCEPT ![b].availableAt = at]
         /\ op.cur \in Members(requests, Cur.job) /\ Cur.job \in Jobs
<1> DEFINE b == Cur.job
           unseen == b \in BatchJobs /\ ~jobs[b].started /\ jobs[b].retryCount = 0
<1>1. /\ requests' = requests /\ clock' = clock /\ op.stage = "schedule"
      /\ jobs' \in IF unseen
                     THEN {[jobs EXCEPT ![b].availableAt = at] :
                             at \in ReadyTimes(requests, Members(requests, b))}
                     ELSE {jobs}
  BY DEF Schedule
<1>2. /\ op.cur \in Requests /\ Saved(op.cur) /\ b # None
      /\ requests \in [Requests -> Request]
  BY <1>1 DEF OpKnows, Attaching, Pending, Cur, StagedRows, RowsTypeOK
<1>3. op.cur \in Members(requests, b) /\ b \in Jobs
  BY <1>2 DEF Members, Saved, Cur, Request
<1>4. CASE ~unseen
  BY <1>1, <1>3, <1>4 DEF Collecting
<1>5. CASE unseen
  <2>1. PICK at \in ReadyTimes(requests, Members(requests, b)) :
          jobs' = [jobs EXCEPT ![b].availableAt = at]
    BY <1>1, <1>5
  <2>2. at \in Nat
    BY <1>2, <1>3, <2>1, ReadyBound DEF Members
  <2>3. QED
    BY <1>1, <1>3, <1>5, <2>1, <2>2
<1>6. QED
  BY <1>4, <1>5

LEMMA QuietRows ==
  ASSUME StagedRows, OpKnows, QuietStep
  PROVE  /\ RowsMove
         /\ \A b \in BatchJobs : jobs'[b].started = jobs[b].started
         /\ Schedule \/ \A b \in BatchJobs : Sooner(b)
<1>1. /\ RowsTypeOK /\ RunningStarted /\ BatchJobs \subseteq Jobs
      /\ jobs \in [Jobs -> Job]
  BY JobNames DEF StagedRows, RowsTypeOK
<1>2. CASE Tick
  BY <1>1, <1>2 DEF Tick, rowVars, RowsMove, RowsTypeOK, Exists, RunningStarted, Sooner,
     Collecting, Job
<1>3. CASE UNCHANGED <<clock, requests, jobs>>
  BY <1>3, StillRows
<1>4. ASSUME NEW r \in Locals, SubmitLocal(r)
      PROVE  /\ RowsMove /\ \A b \in BatchJobs : Sooner(b)
             /\ \A b \in BatchJobs : jobs'[b].started = jobs[b].started
  <2>1. jobs' \in [Jobs -> Job] /\ \A b \in BatchJobs : jobs'[b] = jobs[b]
    BY <1>1, <1>4, SubmitLocalForward
  <2>2. \A j \in Jobs : Exists(j) => Exists(j)'
    BY <1>1, <1>4 DEF SubmitLocal, Exists, NoJob
  <2>3. requests' = requests /\ clock' = clock
    BY <1>4 DEF SubmitLocal
  <2>4. QED
    BY <2>1, <2>2, <2>3, ForwardRows
<1>5. ASSUME NEW j \in Jobs, Expire(j) \/ AttemptEnds(j), UNCHANGED clock
      PROVE  /\ RowsMove /\ \A b \in BatchJobs : Sooner(b)
             /\ \A b \in BatchJobs : jobs'[b].started = jobs[b].started
  <2>1. jobs' \in [Jobs -> Job] /\ \A b \in BatchJobs : Forward(b)
    BY <1>1, <1>5, ExpireForward, AttemptEndsForward
  <2>2. /\ \A k \in Jobs : Exists(k) => Exists(k)'
        /\ \A k \in Jobs : jobs'[k].started = jobs[k].started
        /\ requests' = requests
    BY <1>1, <1>5 DEF Expire, AttemptEnds, Settle, Retry, Release, Exists, Job
  <2>3. QED
    BY <1>1, <1>5, <2>1, <2>2, ForwardRows
<1>6. ASSUME NEW j \in Jobs, RecoverLease(j)
      PROVE  /\ RowsMove /\ \A b \in BatchJobs : Sooner(b)
             /\ \A b \in BatchJobs : jobs'[b].started = jobs[b].started
  <2>1. /\ jobs' = [jobs EXCEPT ![j] = LeaseLost(jobs[j], op.at)]
        /\ requests' = requests /\ clock' = clock
        /\ jobs[j].status = "in_progress" /\ jobs[j] \in Job /\ op.at \in Nat
    BY <1>1, <1>6 DEF RecoverLease, Running, OpKnows, Op
  <2>2. /\ jobs' \in [Jobs -> Job] /\ jobs'[j] = LeaseLost(jobs[j], op.at)
        /\ \A k \in Jobs : k # j => jobs'[k] = jobs[k]
        /\ jobs'[j].status \in {"queued", "settled"} /\ jobs'[j].retryCount # 0
        /\ jobs'[j].review = jobs[j].review /\ jobs'[j].started = jobs[j].started
    BY <1>1, <2>1, LeaseLostType
  <2>3. ASSUME NEW b \in BatchJobs
        PROVE  /\ jobs'[b] = jobs[b] \/ Forward(b)
               /\ jobs'[b].started = jobs[b].started
    BY <1>1, <2>1, <2>2 DEF Forward, Exists, Collecting, RunningStarted
  <2>4. \A k \in Jobs : Exists(k) => Exists(k)'
    BY <2>1, <2>2 DEF Exists
  <2>5. QED
    BY <2>1, <2>2, <2>3, <2>4, ForwardRows
<1>7. ASSUME NEW b \in BatchJobs, NEW at \in Nat, requests' = requests, clock' = clock,
             jobs' = [jobs EXCEPT ![b].availableAt = at]
      PROVE  RowsMove /\ \A c \in BatchJobs : jobs'[c].started = jobs[c].started
  <2>1. /\ jobs' \in [Jobs -> Job]
        /\ \A j \in Jobs : /\ jobs'[j].status = jobs[j].status
                           /\ jobs'[j].review = jobs[j].review
                           /\ jobs'[j].started = jobs[j].started
    BY <1>1, <1>7 DEF Job
  <2>2. QED
    BY <1>1, <1>7, <2>1 DEF RowsMove, RowsTypeOK, Exists, RunningStarted
<1>8. CASE Seal
  <2>1. PICK b \in Newest(Open) : jobs' = [jobs EXCEPT ![b].availableAt = op.at]
    BY <1>8 DEF Seal
  <2>2. b \in BatchJobs /\ op.at \in Nat /\ requests' = requests /\ clock' = clock
    BY <1>8, <2>1 DEF Seal, Newest, Open, Candidates, OpKnows, Op
  <2>3. \A c \in BatchJobs : Sooner(c)
    <3>1. jobs[b].availableAt > op.at
      BY <2>1 DEF Newest, Open, Candidates
    <3>2. ASSUME NEW c \in BatchJobs
          PROVE  /\ jobs'[c].status = jobs[c].status /\ jobs'[c].started = jobs[c].started
                 /\ jobs'[c].retryCount = jobs[c].retryCount
                 /\ jobs'[c].availableAt <= jobs[c].availableAt
      BY <1>1, <2>1, <2>2, <3>1 DEF Job
    <3>3. QED
      BY <3>2 DEF Sooner, Collecting
  <2>4. QED
    BY <1>7, <2>1, <2>2, <2>3
<1>9. CASE Schedule
  BY <1>3, <1>7, <1>9, ScheduledRows, StillRows
<1>10. QED
  BY <1>2, <1>3, <1>4, <1>5, <1>6, <1>8, <1>9 DEF QuietStep

\* A claim moves the rows: it comes after a recovery that left nothing to do, and
\* takes no batch without a request.
LEMMA ClaimRows ==
  ASSUME StagedRows, OpKnows, NEW j \in Jobs, ClaimNext(j)
  PROVE  /\ RowsMove
         /\ jobs'[j].started
         /\ j \in BatchJobs => Members(requests, j) # {}
         /\ \A b \in BatchJobs : b # j => jobs'[b].started = jobs[b].started
<1>1. /\ BatchJobs \subseteq Jobs /\ jobs \in [Jobs -> Job] /\ RunningStarted
      /\ clock \in Nat
  BY JobNames DEF StagedRows, RowsTypeOK
<1>2. /\ requests' = requests /\ clock' = clock /\ jobs' = Claimed(jobs, j)
      /\ jobs[j].status = "queued" /\ Pending = {}
      /\ j \in BatchJobs => Members(requests, j) # {}
  BY DEF ClaimNext, Recovered, FirstOf, Claimable, Eligible, OpKnows
<1>3. /\ jobs' \in [Jobs -> Job]
      /\ \A k \in Jobs : k # j => jobs'[k] = jobs[k]
      /\ jobs'[j].status = "in_progress" /\ jobs'[j].started
      /\ jobs'[j].review = jobs[j].review
  BY <1>1, <1>2 DEF Claimed, Job, JobStatus
<1>4. \A k \in Jobs : Exists(k) => Exists(k)'
  BY <1>3 DEF Exists
<1>5. ASSUME NEW b \in BatchJobs
      PROVE  /\ jobs'[b].review = jobs[b].review
             /\ Exists(b)' => Exists(b)
             /\ jobs[b].started => jobs'[b].started
             /\ jobs'[b].status = "in_progress" => jobs'[b].started
             /\ jobs'[b].started =>
                  jobs[b].started \/ (Pending = {} /\ Members(requests, b) # {})
  BY <1>1, <1>2, <1>3 DEF Exists, RunningStarted
<1>6. QED
  BY <1>1, <1>2, <1>3, <1>4, <1>5 DEF RowsMove

----------------------------------------------------------------------------
(* The writes of an admission *)

LEMMA SaveRows ==
  ASSUME StagedRows, OpKnows, SaveRequest
  PROVE  /\ StagedRows' /\ Pending' = {op.new} /\ op.new \in Requests
         /\ jobs' = jobs /\ ~Saved(op.new)
         /\ \A r \in Requests : requests'[r].job = requests[r].job
         /\ \A r \in Requests : r # op.new => requests'[r] = requests[r]
         /\ \A b \in Jobs : Members(requests', b) = Members(requests, b)
<1>1. PICK review \in Reviews, debounce \in Debounces, bytes \in Sizes :
        requests' = [requests EXCEPT ![op.new] =
                       NewRequest(review, op.at, debounce, bytes)]
  BY DEF SaveRequest
<1> DEFINE req == NewRequest(review, op.at, debounce, bytes)
           n == op.new
<1>2. /\ n \in Requests /\ ~Saved(n) /\ Pending = {} /\ op.at \in Nat
      /\ jobs' = jobs /\ clock' = clock
  BY DEF SaveRequest, Recovered, OpKnows, Op
<1>3. /\ req \in Request /\ req.saved /\ ~req.admitted /\ req.job = None
  BY <1>2, BatchAssumption DEF NewRequest, Request
<1> HIDE DEF req
<1>4. /\ requests' \in [Requests -> Request] /\ requests'[n] = req
      /\ \A r \in Requests : r # n => requests'[r] = requests[r]
      /\ requests[n].job = None
  BY <1>1, <1>2, <1>3 DEF StagedRows, RowsTypeOK, UnsavedClean, req
<1>5. RowsTypeOK' /\ Pending' = {n}
  BY <1>2, <1>3, <1>4 DEF StagedRows, RowsTypeOK, Pending, Saved
<1>6. /\ \A r \in Requests : requests'[r].job = requests[r].job
      /\ (OneUnfinished /\ UnsavedClean)'
  BY <1>2, <1>3, <1>4, <1>5 DEF StagedRows, OneUnfinished, UnsavedClean, Saved
<1>7. (LinkedExists /\ AdmittedLinked)'
  BY <1>2, <1>3, <1>4 DEF StagedRows, LinkedExists, AdmittedLinked, Exists
<1>8. Owned'
  <2>1. ASSUME NEW r \in Requests, Exists(Batch(r))'
        PROVE  /\ Saved(r)' /\ requests'[r].job \in {None, Batch(r)}
               /\ jobs'[Batch(r)].review = requests'[r].review
    BY <1>2, <1>4, <2>1 DEF StagedRows, Owned, Exists, Saved
  <2>2. QED
    BY <2>1 DEF Owned
<1>9. (FounderLinked /\ StartedHasMember)'
  BY <1>2, <1>6 DEF StagedRows, FounderLinked, StartedHasMember
<1>10. (AbsentUnstarted /\ RunningStarted)'
  BY <1>2 DEF StagedRows, AbsentUnstarted, RunningStarted, Exists
<1>11. NoHalfBatchClaimed'
  BY <1>3, <1>4, <1>5, JobNames DEF NoHalfBatchClaimed
<1>12. \A b \in Jobs : Members(requests', b) = Members(requests, b)
  BY <1>2, <1>3, <1>4, JobNames DEF Members, Saved
<1>13. QED
  BY <1>2, <1>4, <1>5, <1>6, <1>7, <1>8, <1>9, <1>10, <1>11, <1>12 DEF StagedRows

\* The job that an unfinished request is linked to: its own, or a batch that
\* still collects; an attempt has seen neither.
LEMMA LinkTarget ==
  ASSUME StagedRows, OpKnows, LinkOwn \/ Append
  PROVE  \E b \in Jobs :
           /\ op.cur \in Pending /\ requests[op.cur].job = None
           /\ Link(b) /\ Exists(b)
           /\ b \in BatchJobs => ~jobs[b].started /\ jobs[b].review = Cur.review
           /\ \A r \in Requests : b = Batch(r) /\ r # op.cur => requests[r].job = b
           /\ Exists(Batch(op.cur)) => b = Batch(op.cur)
           /\ b = Batch(op.cur) \/ b \notin BatchJobs \/ (CanAppend(b, Cur) /\ b \in Open)
           /\ b = Batch(op.cur) => Members(requests, b) = {}
<1>1. /\ op.cur \in Pending /\ op.cur \in Requests /\ requests[op.cur].job = None
      /\ Saved(op.cur) /\ requests \in [Requests -> Request]
  BY DEF LinkOwn, Append, Locating, Cur, OpKnows, Attaching, Pending, StagedRows,
     RowsTypeOK
<1>2. /\ \A r \in Requests : requests[r].job # Batch(op.cur)
      /\ Members(requests, Batch(op.cur)) = {}
      /\ ~jobs[Batch(op.cur)].started
  <2>1. \A r \in Requests : requests[r].job # Batch(op.cur)
    BY <1>1, JobNames DEF StagedRows, FounderLinked
  <2>2. QED
    BY <1>1, <2>1, JobNames DEF StagedRows, StartedHasMember, Members
<1>3. CASE LinkOwn
  <2>1. PICK b \in OwnJobs : Link(b)
    BY <1>3 DEF LinkOwn
  <2>2. CASE Exists(Batch(op.cur))
    <3>1. b = Batch(op.cur)
      BY <2>1, <2>2 DEF OwnJobs
    <3>2. b \in Jobs /\ Exists(b) /\ jobs[b].review = Cur.review
      BY <1>1, <2>2, <3>1, JobNames DEF StagedRows, Owned, Cur
    <3>3. QED
      BY <1>1, <1>2, <2>1, <3>1, <3>2, JobNames
  <2>3. CASE ~Exists(Batch(op.cur))
    <3>1. b \in Jobs /\ b = Single(op.cur) /\ Exists(b)
      BY <2>1, <2>3 DEF OwnJobs
    <3>2. b \notin BatchJobs /\ \A r \in Requests : b # Batch(r)
      BY <3>1 DEF BatchJobs, Batch, Single
    <3>3. QED
      BY <1>1, <2>1, <2>3, <3>1, <3>2
  <2>4. QED
    BY <2>2, <2>3
<1>4. CASE Append
  <2>1. PICK b \in Newest(Open) : CanAppend(b, Cur) /\ Link(b)
    BY <1>4 DEF Append
  <2>2. /\ b \in BatchJobs /\ b \in Jobs /\ Exists(b) /\ ~jobs[b].started /\ b \in Open
        /\ jobs[b].review = Cur.review /\ ~Exists(Batch(op.cur))
    BY <1>4, <2>1, JobNames
       DEF Append, OwnJobs, Newest, Open, Candidates, Collecting, Exists
  <2>3. ASSUME NEW r \in Requests, b = Batch(r), r # op.cur
        PROVE  requests[r].job = b
    <3>1. Saved(r) /\ requests[r].job \in {None, Batch(r)}
      BY <2>2, <2>3 DEF StagedRows, Owned
    <3>2. r \notin Pending
      BY <1>1, <2>3 DEF StagedRows, OneUnfinished
    <3>3. QED
      BY <2>3, <3>1, <3>2 DEF Pending, StagedRows, AdmittedLinked
  <2>4. QED
    BY <1>1, <2>1, <2>2, <2>3
<1>5. QED
  BY <1>3, <1>4

LEMMA LinkRows ==
  ASSUME StagedRows, OpKnows, NEW b \in Jobs,
         op.cur \in Pending, requests[op.cur].job = None, Link(b), Exists(b),
         b \in BatchJobs => ~jobs[b].started /\ jobs[b].review = Cur.review,
         \A r \in Requests : b = Batch(r) /\ r # op.cur => requests[r].job = b,
         Exists(Batch(op.cur)) => b = Batch(op.cur)
  PROVE  /\ StagedRows' /\ Pending' = Pending /\ jobs' = jobs
         /\ requests'[op.cur].job = b
         /\ requests'[op.cur].receivedAt = requests[op.cur].receivedAt
         /\ requests'[op.cur].debounce = requests[op.cur].debounce
         /\ ~requests'[op.cur].admitted
         /\ \A r \in Requests : r # op.cur => requests'[r] = requests[r]
         /\ op.cur \notin Members(requests, b)
         /\ Members(requests', b) = Members(requests, b) \cup {op.cur}
         /\ \A c \in Jobs : c # b => Members(requests', c) = Members(requests, c)
<1> DEFINE n == op.cur
<1>1. /\ n \in Requests /\ Saved(n) /\ ~requests[n].admitted
      /\ requests \in [Requests -> Request] /\ jobs' = jobs /\ clock' = clock
      /\ requests' = [requests EXCEPT ![n].job = b]
  BY DEF Pending, Link, StagedRows, RowsTypeOK
<1>2. /\ requests' \in [Requests -> Request] /\ requests'[n].job = b
      /\ requests'[n].saved = requests[n].saved
      /\ requests'[n].admitted = requests[n].admitted
      /\ requests'[n].review = requests[n].review
      /\ requests'[n].receivedAt = requests[n].receivedAt
      /\ requests'[n].debounce = requests[n].debounce
      /\ \A r \in Requests : r # n => requests'[r] = requests[r]
  BY <1>1 DEF Request
<1>3. \A r \in Requests : /\ requests'[r].saved = requests[r].saved
                          /\ requests'[r].admitted = requests[r].admitted
                          /\ requests'[r].review = requests[r].review
                          /\ requests'[r].job = IF r = n THEN b ELSE requests[r].job
  BY <1>2
<1>4. RowsTypeOK' /\ Pending' = Pending
  BY <1>1, <1>2, <1>3 DEF StagedRows, RowsTypeOK, Pending, Saved
<1>5. OneUnfinished'
  BY <1>4 DEF StagedRows, OneUnfinished
<1>6. (UnsavedClean /\ AdmittedLinked)'
  BY <1>1, <1>3, JobNames DEF StagedRows, UnsavedClean, AdmittedLinked, Saved
<1>7. LinkedExists'
  <2>1. ASSUME NEW r \in Requests, requests'[r].job # None
        PROVE  /\ Exists(requests'[r].job)
               /\ requests'[r].job \in BatchJobs
                    => jobs[requests'[r].job].review = requests'[r].review
    BY <1>3, <2>1 DEF StagedRows, LinkedExists, Cur
  <2>2. QED
    BY <1>1, <2>1 DEF LinkedExists, Exists
<1>8. Owned'
  <2>1. ASSUME NEW r \in Requests, Exists(Batch(r))
        PROVE  /\ requests'[r].saved /\ requests'[r].job \in {None, Batch(r)}
               /\ jobs[Batch(r)].review = requests'[r].review
    BY <1>3, <2>1 DEF StagedRows, Owned, Saved
  <2>2. QED
    BY <1>1, <2>1 DEF Owned, Exists, Saved
<1>9. FounderLinked'
  <2>1. ASSUME NEW q \in Requests, NEW r \in Requests, requests'[q].job = Batch(r)
        PROVE  requests'[r].job = Batch(r)
    <3>1. CASE q = n
      BY <1>3, <2>1, <3>1
    <3>2. CASE q # n
      <4>1. requests[r].job = Batch(r)
        BY <1>3, <2>1, <3>2 DEF StagedRows, FounderLinked
      <4>2. QED
        BY <1>3, <4>1, JobNames
    <3>3. QED
      BY <3>1, <3>2
  <2>2. QED
    BY <2>1 DEF FounderLinked
<1>10. (AbsentUnstarted /\ RunningStarted)'
  BY <1>1 DEF StagedRows, AbsentUnstarted, RunningStarted, Exists
<1>11. StartedHasMember'
  <2>1. ASSUME NEW c \in BatchJobs, jobs[c].started
        PROVE  \E r \in Requests : requests'[r].job = c
    BY <1>3, <2>1, JobNames DEF StagedRows, StartedHasMember
  <2>2. QED
    BY <1>1, <2>1 DEF StartedHasMember
<1>12. NoHalfBatchClaimed'
  <2>1. ASSUME NEW r \in Pending, requests'[r].job \in BatchJobs
        PROVE  ~jobs[requests'[r].job].started
    BY <1>1, <1>3, <2>1 DEF StagedRows, OneUnfinished
  <2>2. QED
    BY <1>1, <1>4, <2>1 DEF NoHalfBatchClaimed
<1>13. \A c \in Jobs : n \notin Members(requests, c)
  BY JobNames DEF Members
<1>14. /\ Members(requests', b) = Members(requests, b) \cup {n}
       /\ \A c \in Jobs : c # b => Members(requests', c) = Members(requests, c)
  BY <1>1, <1>3, <1>13 DEF Members, Saved
<1>15. StagedRows'
  BY <1>4, <1>5, <1>6, <1>7, <1>8, <1>9, <1>10, <1>11, <1>12 DEF StagedRows
<1>16. QED
  BY <1>1, <1>2, <1>4, <1>13, <1>14, <1>15

LEMMA CreateRows ==
  ASSUME StagedRows, OpKnows, Create
  PROVE  /\ StagedRows' /\ Pending' = Pending /\ requests' = requests
         /\ Members(requests, Batch(op.cur)) = {}
         /\ Batch(op.cur) \in BatchJobs
         /\ ~jobs'[Batch(op.cur)].started /\ ~jobs[Batch(op.cur)].started
         /\ \A j \in Jobs : j # Batch(op.cur) => jobs'[j] = jobs[j]
<1> DEFINE b == Batch(op.cur)
<1>1. /\ op.cur \in Pending /\ op.cur \in Requests /\ requests[op.cur].job = None
      /\ Saved(op.cur) /\ requests \in [Requests -> Request] /\ ~Exists(b)
      /\ requests' = requests /\ clock' = clock
      /\ jobs' = [jobs EXCEPT ![b] = NewBatch(Cur)]
      /\ b \in BatchJobs /\ b \in Jobs
  BY JobNames DEF Create, Locating, OwnJobs, Cur, OpKnows, Attaching, Pending,
     StagedRows, RowsTypeOK
<1>2. /\ NewBatch(Cur) \in Job /\ NewBatch(Cur).status = "queued"
      /\ ~NewBatch(Cur).started /\ NewBatch(Cur).review = Cur.review
  <2>1. /\ Cur.review \in Reviews \cup {None} /\ Cur.receivedAt \in Nat
        /\ Cur.debounce \in Nat /\ MaxBatchWait \in Nat
    BY <1>1, BatchAssumption DEF Cur, Request
  <2>2. Cur.receivedAt
          + Earlier(MaxBatchWait, IF MaxBatchRequests = 1 \/ Cur.bytes >= MaxBatchBytes
                                    THEN 0 ELSE Cur.debounce) \in Nat
    BY <2>1 DEF Earlier
  <2>3. QED
    BY <2>1, <2>2 DEF NewBatch, NoJob, Job, JobStatus
<1>3. /\ jobs' \in [Jobs -> Job] /\ jobs'[b] = NewBatch(Cur)
      /\ \A j \in Jobs : j # b => jobs'[j] = jobs[j]
  BY <1>1, <1>2 DEF StagedRows, RowsTypeOK
<1>4. RowsTypeOK' /\ Pending' = Pending
  BY <1>1, <1>3 DEF StagedRows, RowsTypeOK, Pending, Saved
<1>5. (OneUnfinished /\ UnsavedClean /\ AdmittedLinked /\ FounderLinked)'
  BY <1>1, <1>4
     DEF StagedRows, OneUnfinished, UnsavedClean, AdmittedLinked, FounderLinked, Saved
<1>6. \A r \in Requests : requests[r].job # b
  BY <1>1, JobNames DEF StagedRows, FounderLinked
<1>7. LinkedExists'
  <2>1. ASSUME NEW r \in Requests, requests[r].job # None
        PROVE  /\ requests[r].job \in Jobs /\ requests[r].job # b
               /\ Exists(requests[r].job)
               /\ requests[r].job \in BatchJobs
                    => jobs[requests[r].job].review = requests[r].review
    BY <1>1, <1>6, <2>1 DEF StagedRows, LinkedExists, Request
  <2>2. QED
    BY <1>1, <1>3, <2>1 DEF LinkedExists, Exists
<1>8. Owned'
  <2>1. ASSUME NEW r \in Requests, Exists(Batch(r))'
        PROVE  /\ Saved(r) /\ requests[r].job \in {None, Batch(r)}
               /\ jobs'[Batch(r)].review = requests[r].review
    <3>1. CASE r = op.cur
      BY <1>1, <1>2, <1>3, <3>1 DEF Cur
    <3>2. CASE r # op.cur
      <4>1. Batch(r) # b /\ Batch(r) \in Jobs
        BY <1>1, <3>2, JobNames
      <4>2. QED
        BY <1>3, <2>1, <4>1 DEF StagedRows, Owned, Exists
    <3>3. QED
      BY <3>1, <3>2
  <2>2. QED
    BY <1>1, <2>1 DEF Owned, Saved
<1>9. ASSUME NEW c \in BatchJobs
      PROVE  /\ ~Exists(c)' => ~jobs'[c].started
             /\ jobs'[c].status = "in_progress" => jobs'[c].started
             /\ jobs'[c].started => jobs[c].started
  BY <1>1, <1>2, <1>3, JobNames DEF StagedRows, AbsentUnstarted, RunningStarted, Exists
<1>10. (AbsentUnstarted /\ RunningStarted /\ StartedHasMember)'
  BY <1>1, <1>9 DEF StagedRows, AbsentUnstarted, RunningStarted, StartedHasMember, Exists
<1>11. NoHalfBatchClaimed'
  BY <1>1, <1>4, <1>9 DEF StagedRows, NoHalfBatchClaimed
<1>12. ~jobs'[b].started /\ ~jobs[b].started
  BY <1>1, <1>2, <1>3 DEF StagedRows, AbsentUnstarted
<1>13. StagedRows'
  BY <1>4, <1>5, <1>7, <1>8, <1>10, <1>11 DEF StagedRows
<1>14. QED
  BY <1>1, <1>3, <1>4, <1>6, <1>12, <1>13 DEF Members

LEMMA MarkRows ==
  ASSUME StagedRows, OpKnows, MarkAdmitted
  PROVE  /\ StagedRows' /\ Pending' = Pending \ {op.cur} /\ jobs' = jobs
         /\ op.cur \in Pending
         /\ \A r \in Requests : /\ requests'[r].job = requests[r].job
                               /\ requests'[r].saved = requests[r].saved
                               /\ requests'[r].receivedAt = requests[r].receivedAt
                               /\ requests'[r].admitted
                                    = (r = op.cur \/ requests[r].admitted)
<1> DEFINE n == op.cur
<1>1. /\ n \in Pending /\ n \in Requests /\ requests[n].job # None /\ Saved(n)
      /\ requests \in [Requests -> Request] /\ jobs' = jobs /\ clock' = clock
      /\ requests' = [requests EXCEPT ![n].admitted = TRUE]
  BY DEF MarkAdmitted, OpKnows, Attaching, Pending, StagedRows, RowsTypeOK
<1>2. /\ requests' \in [Requests -> Request]
      /\ \A r \in Requests : /\ requests'[r].job = requests[r].job
                            /\ requests'[r].saved = requests[r].saved
                            /\ requests'[r].review = requests[r].review
                            /\ requests'[r].receivedAt = requests[r].receivedAt
                            /\ requests'[r].admitted
                                 = (r = n \/ requests[r].admitted)
  BY <1>1 DEF Request
<1>3. RowsTypeOK' /\ Pending' = Pending \ {n}
  BY <1>1, <1>2 DEF StagedRows, RowsTypeOK, Pending, Saved
<1>4. (OneUnfinished /\ UnsavedClean /\ AdmittedLinked /\ FounderLinked)'
  BY <1>1, <1>2, <1>3
     DEF StagedRows, OneUnfinished, UnsavedClean, AdmittedLinked, FounderLinked, Saved
<1>5. (LinkedExists /\ Owned)'
  BY <1>1, <1>2 DEF StagedRows, LinkedExists, Owned, Exists, Saved
<1>6. (AbsentUnstarted /\ RunningStarted /\ StartedHasMember)'
  BY <1>1, <1>2 DEF StagedRows, AbsentUnstarted, RunningStarted, StartedHasMember, Exists
<1>7. NoHalfBatchClaimed'
  <2>1. ASSUME NEW r \in Pending, requests'[r].job \in BatchJobs
        PROVE  ~jobs[requests'[r].job].started
    BY <1>2, <2>1 DEF Pending, StagedRows, NoHalfBatchClaimed
  <2>2. QED
    BY <1>1, <1>3, <2>1 DEF NoHalfBatchClaimed
<1>8. QED
  BY <1>1, <1>2, <1>3, <1>4, <1>5, <1>6, <1>7 DEF StagedRows

----------------------------------------------------------------------------
(* The operation in progress *)

\* Steps that change no row.
OpOnly ==
  /\ UNCHANGED <<clock, requests, jobs>>
  /\ \/ \E r \in Requests : BeginAdmit(r) \/ RecoverNext(r)
     \/ BeginClaim \/ Duplicate \/ Relink \/ ClaimNone \/ WriteFails \/ Die

LEMMA StagedSteps ==
  ASSUME Next, attempt \in Jobs \cup {None}
  PROVE  \/ OpOnly
         \/ /\ QuietStep /\ op' = op
            /\ attempt' \in {attempt, None} /\ faults' = faults
         \/ Schedule
         \/ \E j \in Jobs : ClaimNext(j)
         \/ SaveRequest \/ LinkOwn \/ Append \/ Create \/ MarkAdmitted
<1>1. CASE OpOnly
  BY <1>1
<1>2. CASE \/ \E r \in Requests : BeginAdmit(r) \/ RecoverNext(r)
           \/ BeginClaim \/ Duplicate \/ Relink \/ ClaimNone \/ WriteFails \/ Die
  <2>1. UNCHANGED <<clock, requests, jobs>>
    BY <1>2 DEF BeginAdmit, RecoverNext, BeginClaim, Begin, Duplicate, Relink, ClaimNone,
       WriteFails, Die
  <2>2. QED
    BY <1>2, <2>1 DEF OpOnly
<1>3. CASE EndAttempt
  <2>1. /\ op' = op /\ clock' = clock /\ attempt' = None /\ faults' = faults
        /\ attempt \in Jobs
        /\ AttemptEnds(attempt) \/ UNCHANGED <<clock, requests, jobs>>
    BY <1>3 DEF EndAttempt, rowVars
  <2>2. QED
    BY <2>1 DEF QuietStep
<1>4. QED
  BY <1>2, <1>3
     DEF Next, OpStep, AttachStep, QuietStep, ExpireQueued, RecoverLease, Seal, Schedule,
         Tick, SubmitLocal

LEMMA OpOnlyKnows ==
  ASSUME StagedInv, OpOnly
  PROVE  OpKnows' /\ attempt' \in Jobs \cup {None} /\ faults' \in Nat
<1>1. /\ OpKnows /\ Pending' = Pending /\ requests' = requests /\ op \in Op
      /\ RowsTypeOK /\ attempt \in Jobs \cup {None} /\ faults \in Nat
      /\ OneUnfinished /\ Pending \subseteq Requests
  BY DEF StagedInv, StagedRows, OpOnly, Pending, Saved, OpKnows
<1>2. Idle \in Op /\ Idle.stage = "idle"
  BY DEF Idle, Op, Stage
<1>3. CASE op' = Idle /\ attempt' \in {attempt, None} /\ faults' \in {faults, faults + 1}
  BY <1>1, <1>2, <1>3 DEF OpKnows, Attaching
<1>4. ASSUME NEW kind \in {"admit", "claim"}, NEW new \in Requests \cup {None},
             Begin(kind, new), kind = "admit" => new \in Requests
      PROVE  OpKnows' /\ attempt' = attempt /\ faults' = faults
  <2>1. PICK now \in CallTimes :
          op' = [Idle EXCEPT !.stage = "recover", !.kind = kind, !.at = now,
                             !.todo = Pending, !.new = new]
    BY <1>4 DEF Begin
  <2>2. now \in Nat
    BY <1>1, CallTimesBound DEF CallTimesNat
  <2>3. /\ op' \in Op /\ op'.stage = "recover" /\ op'.kind = kind /\ op'.new = new
        /\ op'.todo = Pending
    BY <1>1, <2>1, <2>2 DEF Idle, Op, Stage
  <2>4. QED
    BY <1>1, <1>4, <2>3 DEF OpKnows, Attaching, Begin
<1>5. ASSUME NEW r \in Requests, RecoverNext(r)
      PROVE  OpKnows' /\ attempt' = attempt /\ faults' = faults
  <2>1. /\ op.stage = "recover" /\ r \in Pending /\ op.todo = Pending
        /\ op' = [op EXCEPT !.stage = "attach", !.cur = r, !.todo = op.todo \ {r}]
    BY <1>1, <1>5 DEF RecoverNext, OpKnows
  <2>2. /\ op' \in Op /\ op'.stage = "attach" /\ op'.kind = op.kind
        /\ op'.new = op.new /\ op'.cur = r /\ op'.todo = op.todo \ {r}
    BY <1>1, <2>1 DEF Op, Stage
  <2>3. op.todo \ {r} = {}
    BY <1>1, <2>1 DEF OneUnfinished
  <2>4. QED
    BY <1>1, <1>5, <2>1, <2>2, <2>3 DEF OpKnows, Attaching, RecoverNext
<1>6. CASE Relink
  <2>1. /\ op.stage = "attach" /\ requests[op.cur].job # None
        /\ op' = Idle \/ op' = [op EXCEPT !.stage = "schedule"]
        /\ attempt' = attempt /\ faults' = faults
    BY <1>6 DEF Relink, Cur
  <2>2. CASE op' = [op EXCEPT !.stage = "schedule"]
    <3>1. /\ op' \in Op /\ op'.stage = "schedule" /\ op'.kind = op.kind
          /\ op'.new = op.new /\ op'.cur = op.cur /\ op'.todo = op.todo
      BY <1>1, <2>2 DEF Op, Stage
    <3>2. QED
      BY <1>1, <2>1, <3>1 DEF OpKnows, Attaching
  <2>3. QED
    BY <1>1, <1>3, <2>1, <2>2
<1>7. CASE Duplicate \/ ClaimNone \/ WriteFails \/ Die
  BY <1>3, <1>7 DEF Duplicate, ClaimNone, WriteFails, Die
<1>8. QED
  BY <1>1, <1>4, <1>5, <1>6, <1>7 DEF OpOnly, BeginAdmit, BeginClaim

LEMMA StagedInvNext ==
  ASSUME StagedInv, [Next]_vars
  PROVE  StagedInv'
<1>1. /\ StagedRows /\ OpKnows /\ op \in Op /\ attempt \in Jobs \cup {None}
      /\ faults \in Nat
  BY DEF StagedInv, OpKnows
<1>2. CASE UNCHANGED vars
  BY <1>1, <1>2, StillRows, MovedRows DEF vars, StagedInv, OpKnows, Attaching
<1>3. CASE OpOnly
  BY <1>1, <1>3, StillRows, MovedRows, OpOnlyKnows DEF OpOnly, StagedInv
<1>4. CASE QuietStep /\ op' = op /\ attempt' \in {attempt, None} /\ faults' = faults
  <2>1. StagedRows' /\ Pending' = Pending /\ requests' = requests
    BY <1>1, <1>4, QuietRows, MovedRows DEF RowsMove
  <2>2. attempt' \in Jobs \cup {None} /\ faults' \in Nat
    BY <1>1, <1>4
  <2>3. OpKnows'
    BY <1>1, <1>4, <2>1 DEF OpKnows, Attaching
  <2>4. QED
    BY <2>1, <2>2, <2>3 DEF StagedInv
<1>5. CASE Schedule
  <2>1. StagedRows' /\ Pending' = Pending /\ requests' = requests
    BY <1>1, <1>5, QuietRows, MovedRows DEF RowsMove, QuietStep
  <2>2. /\ op.stage = "schedule" /\ op' = [op EXCEPT !.stage = "admit"]
        /\ attempt' = attempt /\ faults' = faults
    BY <1>5 DEF Schedule
  <2>3. /\ op' \in Op /\ op'.stage = "admit" /\ op'.kind = op.kind
        /\ op'.new = op.new /\ op'.cur = op.cur /\ op'.todo = op.todo
    BY <1>1, <2>2 DEF Op, Stage
  <2>4. QED
    BY <1>1, <2>1, <2>2, <2>3 DEF StagedInv, OpKnows, Attaching
<1>6. ASSUME NEW j \in Jobs, ClaimNext(j)
      PROVE  StagedInv'
  <2>1. StagedRows'
    BY <1>1, <1>6, ClaimRows, MovedRows
  <2>2. /\ op' = Idle /\ attempt' = j /\ faults' = faults
    BY <1>6 DEF ClaimNext
  <2>3. QED
    BY <1>1, <2>1, <2>2 DEF StagedInv, OpKnows, Attaching, Idle, Op, Stage
<1>7. CASE SaveRequest
  <2>1. /\ StagedRows' /\ Pending' = {op.new} /\ op.new \in Requests
    BY <1>1, <1>7, SaveRows
  <2>2. /\ op.stage = "recover" /\ op.todo = {}
        /\ op' = [op EXCEPT !.stage = "attach", !.cur = op.new]
        /\ attempt' = attempt /\ faults' = faults
    BY <1>7 DEF SaveRequest, Recovered
  <2>3. /\ op' \in Op /\ op'.stage = "attach" /\ op'.kind = op.kind
        /\ op'.new = op.new /\ op'.cur = op.new /\ op'.todo = {}
    BY <1>1, <2>1, <2>2 DEF Op, Stage
  <2>4. QED
    BY <1>1, <2>1, <2>2, <2>3 DEF StagedInv, OpKnows, Attaching
<1>8. CASE LinkOwn \/ Append
  <2>1. PICK b \in Jobs :
           /\ op.cur \in Pending /\ requests[op.cur].job = None
           /\ Link(b) /\ Exists(b)
           /\ b \in BatchJobs => ~jobs[b].started /\ jobs[b].review = Cur.review
           /\ \A r \in Requests : b = Batch(r) /\ r # op.cur => requests[r].job = b
           /\ Exists(Batch(op.cur)) => b = Batch(op.cur)
    BY <1>1, <1>8, LinkTarget
  <2>2. StagedRows' /\ Pending' = Pending /\ requests'[op.cur].job = b /\ b # None
    BY <1>1, <2>1, LinkRows, JobNames
  <2>3. /\ op.stage = "attach" /\ op' = [op EXCEPT !.stage = "schedule"]
        /\ attempt' = attempt /\ faults' = faults
    BY <1>8, <2>1 DEF LinkOwn, Append, Locating, Link
  <2>4. /\ op' \in Op /\ op'.stage = "schedule" /\ op'.kind = op.kind
        /\ op'.new = op.new /\ op'.cur = op.cur /\ op'.todo = op.todo
    BY <1>1, <2>3 DEF Op, Stage
  <2>5. QED
    BY <1>1, <2>2, <2>3, <2>4 DEF StagedInv, OpKnows, Attaching
<1>9. CASE Create
  <2>1. StagedRows' /\ Pending' = Pending /\ requests' = requests
    BY <1>1, <1>9, CreateRows
  <2>2. op' = op /\ attempt' = attempt /\ faults' = faults
    BY <1>9 DEF Create
  <2>3. QED
    BY <1>1, <2>1, <2>2 DEF StagedInv, OpKnows, Attaching
<1>10. CASE MarkAdmitted
  <2>1. StagedRows' /\ Pending' = Pending \ {op.cur} /\ op.cur \in Pending
    BY <1>1, <1>10, MarkRows
  <2>2. /\ op.stage = "admit" /\ attempt' = attempt /\ faults' = faults
        /\ op' = Idle \/ op' = [op EXCEPT !.stage = "recover", !.cur = None]
    BY <1>10 DEF MarkAdmitted
  <2>3. CASE op' = Idle
    BY <1>1, <2>1, <2>2, <2>3 DEF StagedInv, OpKnows, Attaching, Idle, Op, Stage
  <2>4. CASE op' = [op EXCEPT !.stage = "recover", !.cur = None]
    <3>1. /\ op' \in Op /\ op'.stage = "recover" /\ op'.kind = op.kind
          /\ op'.new = op.new /\ op'.todo = op.todo
      BY <1>1, <2>4 DEF Op, Stage
    <3>2. Pending' = {} /\ op.todo = {}
      BY <1>1, <2>1, <2>2 DEF OpKnows, Attaching, StagedRows, OneUnfinished
    <3>3. QED
      BY <1>1, <2>1, <2>2, <3>1, <3>2 DEF StagedInv, OpKnows, Attaching
  <2>5. QED
    BY <2>2, <2>3, <2>4
<1>11. QED
  BY <1>1, <1>2, <1>3, <1>4, <1>5, <1>6, <1>7, <1>8, <1>9, <1>10, StagedSteps

LEMMA StagedInvInit ==
  ASSUME Init
  PROVE  StagedInv
<1>1. /\ clock = 0 /\ requests = [r \in Requests |-> NoRequest]
      /\ jobs = [j \in Jobs |-> NoJob] /\ op = Idle /\ attempt = None /\ faults = 0
  BY DEF Init, RowsInit
<1>2. RowsTypeOK /\ op \in Op
  BY <1>1 DEF RowsTypeOK, NoRequest, Request, NoJob, Job, JobStatus, Idle, Op, Stage
<1>3. Pending = {}
  BY <1>1 DEF Pending, Saved, NoRequest
<1>4. /\ \A r \in Requests : requests[r].job = None /\ ~requests[r].admitted
      /\ \A j \in Jobs : ~Exists(j) /\ ~jobs[j].started /\ jobs[j].status = "absent"
  BY <1>1 DEF Exists, NoRequest, NoJob
<1>5. StagedRows
  BY <1>2, <1>3, <1>4, JobNames
     DEF StagedRows, OneUnfinished, UnsavedClean, LinkedExists, AdmittedLinked, Owned,
         FounderLinked, AbsentUnstarted, RunningStarted, StartedHasMember,
         NoHalfBatchClaimed
<1>6. QED
  BY <1>1, <1>2, <1>5 DEF StagedInv, OpKnows, Attaching, Idle

----------------------------------------------------------------------------
(* What a write that fails leaves behind *)

\* The rows, the operation and the attempt keep their types.
THEOREM StagedTypes == Spec => []TypeOK
<1>1. StagedInv => TypeOK
  BY DEF StagedInv, StagedRows, OpKnows, TypeOK
<1>2. QED
  BY <1>1, StagedInvInit, StagedInvNext, PTL DEF Spec

\* At most one saved request is unfinished at any time, wherever operations broke
\* off: each one finishes what it finds before it saves a request of its own.
THEOREM OneUnfinishedRequest == Spec => []OnePending
<1>1. StagedInv => OnePending
  <2>1. ASSUME OneUnfinished
        PROVE  Cardinality(Pending) <= 1
    <3>1. CASE Pending = {}
      BY <3>1, FS_EmptySet
    <3>2. ASSUME NEW p \in Pending
          PROVE  Cardinality(Pending) <= 1
      <4>1. Pending = {p}
        BY <2>1 DEF OneUnfinished
      <4>2. QED
        BY <4>1, FS_Singleton
    <3>3. QED
      BY <3>1, <3>2
  <2>2. QED
    BY <2>1 DEF StagedInv, StagedRows, OnePending
<1>2. QED
  BY <1>1, StagedInvInit, StagedInvNext, PTL DEF Spec

\* No batch is claimed while a request of it is unfinished, so recovery neither
\* changes a batch under an attempt nor fails for good.
THEOREM WholeBatchesClaimed == Spec => []NoHalfBatchClaimed
<1>1. StagedInv => NoHalfBatchClaimed
  BY DEF StagedInv, StagedRows
<1>2. QED
  BY <1>1, StagedInvInit, StagedInvNext, PTL DEF Spec

\* The staged writes, too, admit no request without a job of its review.
THEOREM StagedLeavesNothingBehind == Spec => []AdmittedHasJob
<1>1. StagedInv => AdmittedHasJob
  BY DEF StagedInv, StagedRows, LinkedExists, AdmittedLinked, AdmittedHasJob
<1>2. QED
  BY <1>1, StagedInvInit, StagedInvNext, PTL DEF Spec

----------------------------------------------------------------------------
(* The promise about batches *)

LEMMA SameBatches ==
  ASSUME \A r \in Requests : requests'[r].job = requests[r].job,
         \A b \in BatchJobs : jobs'[b].started = jobs[b].started
  PROVE  [Batches!Next]_(Batches!batchVars)
BY AbstractSteps DEF OwnerOf, StartedOf

LEMMA LinkRefines ==
  ASSUME StagedInv, LinkOwn \/ Append
  PROVE  [Batches!Next]_(Batches!batchVars)
<1>1. StagedRows /\ OpKnows
  BY DEF StagedInv
<1>2. PICK b \in Jobs :
        /\ op.cur \in Pending /\ requests[op.cur].job = None
        /\ Link(b) /\ Exists(b)
        /\ b \in BatchJobs => ~jobs[b].started /\ jobs[b].review = Cur.review
        /\ \A r \in Requests : b = Batch(r) /\ r # op.cur => requests[r].job = b
        /\ Exists(Batch(op.cur)) => b = Batch(op.cur)
  BY <1>1, LinkTarget
<1>3. PICK n \in Requests : n = op.cur
  BY <1>2 DEF Pending
<1>4. /\ jobs' = jobs /\ requests'[n].job = b /\ requests[n].job = None
      /\ \A r \in Requests : r # n => requests'[r] = requests[r]
  BY <1>1, <1>2, <1>3, LinkRows
<1>5. CASE b \in BatchJobs
  <2>1. /\ ~StartedOf(b) /\ OwnerOf(n) = None /\ OwnerOf(n)' = b
    BY <1>2, <1>4, <1>5, JobNames DEF StartedOf, OwnerOf
  <2>2. /\ \A q \in Requests : q # n => OwnerOf(q)' = OwnerOf(q)
        /\ \A c \in BatchJobs : StartedOf(c)' = StartedOf(c)
    BY <1>4 DEF StartedOf, OwnerOf
  <2>3. QED
    BY <1>5, <2>1, <2>2, AbstractSteps
<1>6. CASE b \notin BatchJobs
  <2>1. /\ \A r \in Requests : OwnerOf(r)' = OwnerOf(r)
        /\ \A c \in BatchJobs : StartedOf(c)' = StartedOf(c)
    BY <1>4, <1>6, JobNames DEF StartedOf, OwnerOf
  <2>2. QED
    BY <2>1, AbstractSteps
<1>7. QED
  BY <1>5, <1>6

LEMMA ClaimRefines ==
  ASSUME StagedInv, NEW j \in Jobs, ClaimNext(j)
  PROVE  [Batches!Next]_(Batches!batchVars)
<1>1. /\ StagedRows /\ RowsMove /\ requests' = requests
      /\ jobs'[j].started
      /\ j \in BatchJobs => Members(requests, j) # {}
      /\ \A b \in BatchJobs : b # j => jobs'[b].started = jobs[b].started
  BY ClaimRows DEF StagedInv, RowsMove
<1>2. \A b \in BatchJobs : jobs[b].started \in BOOLEAN /\ jobs'[b].started \in BOOLEAN
  BY <1>1, JobNames DEF StagedRows, RowsTypeOK, RowsMove, Job
<1>3. CASE j \in BatchJobs /\ ~jobs[j].started
  <2>1. \E r \in Requests : OwnerOf(r) = j
    BY <1>1, <1>3 DEF Members, OwnerOf
  <2>2. ~StartedOf(j) /\ StartedOf(j)' = TRUE
    BY <1>1, <1>2, <1>3 DEF StartedOf
  <2>3. /\ \A c \in BatchJobs : c # j => StartedOf(c)' = StartedOf(c)
        /\ \A r \in Requests : OwnerOf(r)' = OwnerOf(r)
    BY <1>1 DEF StartedOf, OwnerOf
  <2>4. QED
    BY <1>3, <2>1, <2>2, <2>3, AbstractSteps
<1>4. CASE ~(j \in BatchJobs /\ ~jobs[j].started)
  <2>1. \A b \in BatchJobs : jobs'[b].started = jobs[b].started
    BY <1>1, <1>2, <1>4
  <2>2. QED
    BY <1>1, <2>1, SameBatches
<1>5. QED
  BY <1>3, <1>4

\* The staged writes implement the abstract admission, just as the transaction
\* does, whatever fails between them.
THEOREM StagedBatchesImplemented == Spec => ImplementsCommentBatches
<1>1. Init => Batches!Init
  <2>1. ASSUME Init
        PROVE  /\ \A r \in Requests : requests[r].job = None
               /\ \A b \in BatchJobs : jobs[b].started = FALSE
    BY <2>1, JobNames DEF Init, RowsInit, NoRequest, NoJob
  <2>2. None \notin BatchJobs
    BY JobNames
  <2>3. QED
    BY <2>1, <2>2 DEF Batches!Init
<1>2. ASSUME StagedInv, [Next]_vars
      PROVE  [Batches!Next]_(Batches!batchVars)
  <2>1. StagedRows /\ OpKnows /\ attempt \in Jobs \cup {None}
    BY <1>2 DEF StagedInv
  <2>2. CASE UNCHANGED vars
    BY <2>2 DEF vars, Batches!batchVars
  <2>3. CASE OpOnly
    BY <2>3 DEF OpOnly, Batches!batchVars
  <2>4. CASE QuietStep
    BY <2>1, <2>4, QuietRows, SameBatches DEF RowsMove
  <2>5. CASE Schedule
    BY <2>1, <2>5, QuietRows, SameBatches DEF RowsMove, QuietStep
  <2>6. CASE SaveRequest
    BY <2>1, <2>6, SaveRows, SameBatches
  <2>7. CASE Create
    <3>1. /\ requests' = requests
          /\ ~jobs'[Batch(op.cur)].started /\ ~jobs[Batch(op.cur)].started
          /\ \A j \in Jobs : j # Batch(op.cur) => jobs'[j] = jobs[j]
          /\ StagedRows' /\ BatchJobs \subseteq Jobs
      BY <2>1, <2>7, CreateRows, JobNames
    <3>2. \A b \in Jobs : jobs[b].started \in BOOLEAN /\ jobs'[b].started \in BOOLEAN
      BY <2>1, <3>1 DEF StagedRows, RowsTypeOK, Job
    <3>3. \A b \in BatchJobs : jobs'[b].started = jobs[b].started
      BY <3>1, <3>2
    <3>4. QED
      BY <3>1, <3>3, SameBatches
  <2>8. CASE MarkAdmitted
    BY <2>1, <2>8, MarkRows, SameBatches
  <2>9. QED
    BY <1>2, <2>1, <2>2, <2>3, <2>4, <2>5, <2>6, <2>7, <2>8, StagedSteps, LinkRefines,
       ClaimRefines
<1>3. QED
  BY <1>1, <1>2, StagedInvInit, StagedInvNext, PTL
     DEF Spec, ImplementsCommentBatches, Batches!Spec

----------------------------------------------------------------------------
(* The limits of a batch *)

AdmittedOf(b) == {r \in Members(requests, b) : requests[r].admitted}

\* What an attachment has scheduled and not yet marked.
ScheduledWait ==
  op.stage = "admit" =>
    \A b \in BatchJobs : requests[op.cur].job = b /\ Collecting(b) =>
      jobs[b].availableAt <= FirstReceived(requests, Members(requests, b)) + MaxBatchWait

StagedLimits == CountLimit /\ BytesLimit /\ WaitLimit /\ ScheduledWait

\* The bytes of a batch change only with its requests.
LEMMA BytesKept ==
  ASSUME StagedRows, StagedLimits,
         \A b \in BatchJobs : Members(requests', b) = Members(requests, b),
         \A r \in Requests : Saved(r) => requests'[r].bytes = requests[r].bytes
  PROVE  BytesLimit'
<1>1. ASSUME NEW b \in BatchJobs
      PROVE  Bytes(requests', Members(requests, b)) = Bytes(requests, Members(requests, b))
  <2>1. /\ IsFiniteSet(Members(requests, b))
        /\ \A r \in Members(requests, b) :
             requests[r].bytes \in Nat /\ requests'[r].bytes = requests[r].bytes
    BY DEF StagedLimits, CountLimit, StagedRows, RowsTypeOK, Request, Members, Saved
  <2>2. QED
    BY <2>1, SameBytes
<1>2. QED
  BY <1>1 DEF StagedLimits, BytesLimit

\* Fewer requests are first received no earlier.
LEMMA FewerLater ==
  ASSUME NEW rows \in [Requests -> Request], NEW S \in SUBSET Requests,
         NEW T \in SUBSET S, T # {}
  PROVE  FirstReceived(rows, S) <= FirstReceived(rows, T)
<1>1. /\ Received(rows, S) \in SUBSET Nat /\ Received(rows, T) \in SUBSET Nat
      /\ Received(rows, T) \subseteq Received(rows, S) /\ Received(rows, T) # {}
  BY DEF Received, Request
<1>2. QED
  BY <1>1, FirstExists DEF FirstReceived

\* Steps that change no request and hold no batch back.
LEMMA SoonerLimits ==
  ASSUME StagedRows, StagedRows', OpKnows, StagedLimits,
         \A b \in BatchJobs : Sooner(b),
         requests' = requests,
         op'.stage = "admit" => op.stage = "admit" /\ op'.cur = op.cur
  PROVE  StagedLimits'
<1>1. /\ \A b : Members(requests', b) = Members(requests, b)
      /\ requests \in [Requests -> Request] /\ MaxBatchWait \in Nat
      /\ \A b \in BatchJobs : /\ jobs[b].availableAt \in Nat
                             /\ jobs'[b].availableAt \in Nat
  BY JobNames, BatchAssumption DEF StagedRows, RowsTypeOK, Job
<1>2. (CountLimit /\ BytesLimit)'
  BY <1>1, BytesKept DEF StagedLimits, CountLimit
<1>3. ASSUME NEW b \in BatchJobs, NEW S \in SUBSET Requests, S # {}, Collecting(b)',
             jobs[b].availableAt <= FirstReceived(requests, S) + MaxBatchWait
      PROVE  jobs'[b].availableAt <= FirstReceived(requests', S) + MaxBatchWait
  BY <1>1, <1>3, FirstReceivedType DEF Sooner
<1>4. WaitLimit'
  <2>1. ASSUME NEW b \in BatchJobs, Collecting(b)', AdmittedOf(b) # {}
        PROVE  jobs'[b].availableAt <= FirstReceived(requests', AdmittedOf(b)) + MaxBatchWait
    <3>1. /\ Collecting(b) /\ AdmittedOf(b) \in SUBSET Requests
          /\ jobs[b].availableAt <= FirstReceived(requests, AdmittedOf(b)) + MaxBatchWait
      BY <2>1 DEF StagedLimits, WaitLimit, Sooner, AdmittedOf, Members
    <3>2. QED
      BY <1>3, <2>1, <3>1
  <2>2. QED
    BY <2>1 DEF WaitLimit, AdmittedOf, Members, Collecting
<1>5. ScheduledWait'
  <2>1. ASSUME NEW b \in BatchJobs, op.stage = "admit", requests[op.cur].job = b,
               Collecting(b)', op.cur \in Requests, Saved(op.cur)
        PROVE  jobs'[b].availableAt
                 <= FirstReceived(requests', Members(requests', b)) + MaxBatchWait
    <3>1. /\ Collecting(b) /\ op.cur \in Members(requests, b)
          /\ Members(requests, b) \in SUBSET Requests
          /\ jobs[b].availableAt
               <= FirstReceived(requests, Members(requests, b)) + MaxBatchWait
      BY <2>1 DEF StagedLimits, ScheduledWait, Sooner, Members, Saved
    <3>2. QED
      BY <1>1, <1>3, <2>1, <3>1
  <2>2. op.stage = "admit" => op.cur \in Requests /\ Saved(op.cur)
    BY DEF OpKnows, Attaching, Pending
  <2>3. QED
    BY <2>1, <2>2 DEF ScheduledWait, Collecting
<1>6. QED
  BY <1>2, <1>4, <1>5 DEF StagedLimits

LEMMA StagedLimitsInit ==
  ASSUME Init
  PROVE  StagedLimits
<1>1. op.stage = "idle" /\ \A b : Members(requests, b) = {}
  BY DEF Init, RowsInit, Idle, Members, NoRequest
<1>2. IsFiniteSet({}) /\ Cardinality({}) = 0 /\ 0 <= MaxBatchRequests
  BY FS_EmptySet, BatchAssumption
<1>3. CountLimit
  BY <1>1, <1>2 DEF CountLimit
<1>4. BytesLimit
  BY <1>1, <1>2 DEF BytesLimit
<1>5. QED
  BY <1>1, <1>3, <1>4 DEF StagedLimits, WaitLimit, ScheduledWait

LEMMA ScheduleLimits ==
  ASSUME StagedRows, OpKnows, StagedLimits, Schedule
  PROVE  StagedLimits'
<1> DEFINE b == Cur.job
<1>1. /\ requests' = requests /\ b \in Jobs /\ op.cur \in Members(requests, b)
      /\ requests \in [Requests -> Request] /\ jobs \in [Jobs -> Job]
      /\ op' = [op EXCEPT !.stage = "admit"] /\ op \in Op
      /\ BatchJobs \subseteq Jobs
  BY ScheduledRows, JobNames DEF StagedRows, RowsTypeOK, Schedule, OpKnows
<1>2. op'.cur = op.cur
  BY <1>1 DEF Op
<1>3. CASE jobs' = jobs /\ (b \in BatchJobs => ~Collecting(b))
  BY <1>1, <1>2, <1>3
     DEF StagedLimits, CountLimit, BytesLimit, WaitLimit, ScheduledWait, Members,
         FirstReceived, Received, Collecting, Cur
<1>4. ASSUME NEW at \in ReadyTimes(requests, Members(requests, b)), at \in Nat,
             b \in BatchJobs, jobs' = [jobs EXCEPT ![b].availableAt = at]
      PROVE  StagedLimits'
  <2>1. /\ jobs'[b].availableAt = at
        /\ \A c \in BatchJobs : c # b => jobs'[c] = jobs[c]
    BY <1>1, <1>4 DEF Job
  <2>2. /\ at <= FirstReceived(requests, Members(requests, b)) + MaxBatchWait
        /\ Members(requests, b) \in SUBSET Requests
        /\ FirstReceived(requests, Members(requests, b)) \in Nat
        /\ MaxBatchWait \in Nat
    BY <1>1, <1>4, ReadyBound, FirstReceivedType, BatchAssumption DEF Members
  <2>3. (CountLimit /\ BytesLimit)'
    BY <1>1 DEF StagedLimits, CountLimit, BytesLimit, Members
  <2>4. ScheduledWait'
    <3>1. \A c \in BatchJobs : requests'[op'.cur].job = c => c = b
      BY <1>1, <1>2 DEF Cur
    <3>2. QED
      BY <1>1, <2>1, <2>2, <3>1
         DEF ScheduledWait, Members, FirstReceived, Received
  <2>5. WaitLimit'
    <3>1. ASSUME NEW c \in BatchJobs, Collecting(c)', AdmittedOf(c) # {}
          PROVE  jobs'[c].availableAt <= FirstReceived(requests, AdmittedOf(c)) + MaxBatchWait
      <4>1. CASE c = b
        <5>1. /\ AdmittedOf(b) \in SUBSET Members(requests, b)
              /\ AdmittedOf(b) \in SUBSET Requests
          BY DEF AdmittedOf, Members
        <5>2. /\ FirstReceived(requests, Members(requests, b))
                   <= FirstReceived(requests, AdmittedOf(b))
              /\ FirstReceived(requests, AdmittedOf(b)) \in Nat
          BY <1>1, <2>2, <3>1, <4>1, <5>1, FewerLater, FirstReceivedType
        <5>3. QED
          BY <1>4, <2>1, <2>2, <4>1, <5>2
      <4>2. CASE c # b
        BY <2>1, <3>1, <4>2 DEF StagedLimits, WaitLimit, AdmittedOf, Collecting
      <4>3. QED
        BY <4>1, <4>2
    <3>2. QED
      BY <1>1, <3>1
         DEF WaitLimit, AdmittedOf, Members, FirstReceived, Received, Collecting
  <2>6. QED
    BY <2>3, <2>4, <2>5 DEF StagedLimits
<1>5. QED
  BY <1>3, <1>4, ScheduledRows

LEMMA LinkLimits ==
  ASSUME StagedRows, OpKnows, StagedLimits, LinkOwn \/ Append
  PROVE  StagedLimits'
<1>1. PICK b \in Jobs :
        /\ op.cur \in Pending /\ requests[op.cur].job = None
        /\ Link(b) /\ Exists(b)
        /\ b \in BatchJobs => ~jobs[b].started /\ jobs[b].review = Cur.review
        /\ \A r \in Requests : b = Batch(r) /\ r # op.cur => requests[r].job = b
        /\ Exists(Batch(op.cur)) => b = Batch(op.cur)
        /\ b = Batch(op.cur) \/ b \notin BatchJobs \/ CanAppend(b, Cur)
        /\ b = Batch(op.cur) => Members(requests, b) = {}
  BY LinkTarget
<1>2. PICK n \in Requests : n = op.cur
  BY <1>1 DEF Pending
<1>3. /\ jobs' = jobs /\ ~requests'[n].admitted
      /\ ~requests[n].admitted
      /\ \A r \in Requests : r # n => requests'[r] = requests[r]
      /\ n \notin Members(requests, b)
      /\ Members(requests', b) = Members(requests, b) \cup {n}
      /\ \A c \in Jobs : c # b => Members(requests', c) = Members(requests, c)
      /\ BatchJobs \subseteq Jobs
  BY <1>1, <1>2, LinkRows, JobNames DEF Pending
<1>4. CountLimit'
  <2>1. ASSUME NEW c \in BatchJobs
        PROVE  /\ IsFiniteSet(Members(requests', c))
               /\ Cardinality(Members(requests', c)) <= MaxBatchRequests
    <3>1. /\ IsFiniteSet(Members(requests, c)) /\ c \in Jobs
          /\ Cardinality(Members(requests, c)) \in Nat
          /\ Cardinality(Members(requests, c)) <= MaxBatchRequests
          /\ MaxBatchRequests \in Nat /\ MaxBatchRequests >= 1
      BY <1>3, BatchAssumption, FS_CardinalityType DEF StagedLimits, CountLimit
    <3>2. CASE c # b
      BY <1>3, <3>1, <3>2
    <3>3. CASE c = b
      <4>1. Cardinality(Members(requests, b)) + 1 <= MaxBatchRequests
        BY <1>1, <3>1, <3>3, FS_EmptySet DEF CanAppend
      <4>2. /\ IsFiniteSet(Members(requests, b) \cup {n})
            /\ Cardinality(Members(requests, b) \cup {n})
                 = Cardinality(Members(requests, b)) + 1
        BY <1>3, <3>1, <3>3, FS_AddElement
      <4>3. QED
        BY <1>3, <3>3, <4>1, <4>2
    <3>4. QED
      BY <3>2, <3>3
  <2>2. QED
    BY <2>1 DEF CountLimit
<1>5. \A c \in BatchJobs :
        {r \in Members(requests', c) : requests'[r].admitted} = AdmittedOf(c)
  <2>1. ASSUME NEW c \in BatchJobs, NEW r \in Requests
        PROVE  r \in Members(requests', c) /\ requests'[r].admitted
                 <=> r \in Members(requests, c) /\ requests[r].admitted
    BY <1>3, <2>1
  <2>2. QED
    BY <2>1 DEF AdmittedOf, Members
<1>6. \A c \in BatchJobs : \A r \in AdmittedOf(c) : r \in Requests /\ r # n
  BY <1>3 DEF AdmittedOf, Members
<1>7. WaitLimit'
  <2>1. ASSUME NEW c \in BatchJobs, Collecting(c), AdmittedOf(c) # {}
        PROVE  jobs[c].availableAt <= FirstReceived(requests', AdmittedOf(c)) + MaxBatchWait
    <3>1. FirstReceived(requests', AdmittedOf(c)) = FirstReceived(requests, AdmittedOf(c))
      BY <1>3, <1>6, SameFirst
    <3>2. QED
      BY <2>1, <3>1 DEF StagedLimits, WaitLimit, AdmittedOf
  <2>2. QED
    BY <1>3, <1>5, <2>1 DEF WaitLimit, Collecting
<1>8. op'.stage = "schedule"
  BY <1>1 DEF Link, OpKnows, Op
<1>9. BytesLimit'
  <2>1. /\ \A r \in Requests : requests'[r].bytes = requests[r].bytes /\ requests[r].bytes \in Nat
        /\ Cur.bytes = requests[n].bytes
    BY <1>1, <1>2 DEF Link, Cur, StagedRows, RowsTypeOK, Request
  <2>2. ASSUME NEW c \in BatchJobs, Cardinality(Members(requests', c)) > 1
        PROVE  Bytes(requests', Members(requests', c)) <= MaxBatchBytes
    <3>1. /\ IsFiniteSet(Members(requests, c)) /\ c \in Jobs
          /\ \A r \in Members(requests, c) :
               requests[r].bytes \in Nat /\ requests'[r].bytes = requests[r].bytes
      BY <1>3, <2>1 DEF StagedLimits, CountLimit, Members
    <3>2. CASE c # b
      <4>1. Bytes(requests', Members(requests, c)) = Bytes(requests, Members(requests, c))
        BY <3>1, SameBytes
      <4>2. QED
        BY <1>3, <2>2, <3>1, <3>2, <4>1 DEF StagedLimits, BytesLimit
    <3>3. CASE c = b
      <4>1. Members(requests, b) # {}
              => requests'[n].bytes + Bytes(requests, Members(requests, b)) <= MaxBatchBytes
        BY <1>1, <2>1, <3>3 DEF CanAppend
      <4>2. requests'[n].bytes \in Nat /\ Cardinality(Members(requests, b) \cup {n}) > 1
        BY <1>3, <2>1, <2>2, <3>3
      <4>3. Bytes(requests', Members(requests, b) \cup {n}) <= MaxBatchBytes
        BY <1>3, <3>1, <3>3, <4>1, <4>2, JoinKeepsBytes
      <4>4. QED
        BY <1>3, <3>3, <4>3
    <3>4. QED
      BY <3>2, <3>3
  <2>3. QED
    BY <2>2 DEF BytesLimit
<1>10. QED
  BY <1>4, <1>7, <1>8, <1>9 DEF StagedLimits, ScheduledWait

LEMMA MarkLimits ==
  ASSUME StagedRows, OpKnows, StagedLimits, MarkAdmitted
  PROVE  StagedLimits'
<1>1. /\ StagedRows' /\ jobs' = jobs /\ op.cur \in Pending /\ op.stage = "admit"
      /\ \A r \in Requests : /\ requests'[r].job = requests[r].job
                            /\ requests'[r].saved = requests[r].saved
                            /\ requests'[r].receivedAt = requests[r].receivedAt
                            /\ requests'[r].admitted
                                 = (r = op.cur \/ requests[r].admitted)
  BY MarkRows DEF MarkAdmitted
<1>2. /\ \A b : Members(requests', b) = Members(requests, b)
      /\ \A S \in SUBSET Requests : FirstReceived(requests', S) = FirstReceived(requests, S)
  BY <1>1, SameFirst DEF Members
<1>3. PICK n \in Requests : n = op.cur /\ Saved(n)
  BY <1>1 DEF Pending
<1>4. WaitLimit'
  <2>1. ASSUME NEW b \in BatchJobs, Collecting(b), NEW T, T # {},
               T = {r \in Members(requests', b) : requests'[r].admitted}
        PROVE  jobs[b].availableAt <= FirstReceived(requests', T) + MaxBatchWait
    <3>1. T \in SUBSET Members(requests, b) /\ T \in SUBSET Requests
      BY <1>2, <2>1 DEF Members
    <3>2. CASE requests[n].job = b
      <4>1. jobs[b].availableAt
              <= FirstReceived(requests, Members(requests, b)) + MaxBatchWait
        BY <1>1, <1>3, <2>1, <3>2 DEF StagedLimits, ScheduledWait
      <4>2. /\ FirstReceived(requests, Members(requests, b)) <= FirstReceived(requests, T)
            /\ FirstReceived(requests, Members(requests, b)) \in Nat
            /\ FirstReceived(requests, T) \in Nat
            /\ MaxBatchWait \in Nat /\ jobs[b].availableAt \in Nat
        <5>1. requests \in [Requests -> Request] /\ Members(requests, b) \in SUBSET Requests
          BY DEF StagedRows, RowsTypeOK, Members
        <5>2. Members(requests, b) # {}
          BY <2>1, <3>1
        <5>3. QED
          BY <2>1, <3>1, <5>1, <5>2, FewerLater, FirstReceivedType, BatchAssumption, JobNames
             DEF StagedRows, RowsTypeOK, Job
      <4>3. QED
        BY <1>2, <3>1, <4>1, <4>2
    <3>3. CASE requests[n].job # b
      <4>1. T = AdmittedOf(b)
        BY <1>1, <1>2, <1>3, <2>1, <3>3 DEF AdmittedOf, Members
      <4>2. QED
        BY <1>2, <2>1, <3>1, <4>1 DEF StagedLimits, WaitLimit, AdmittedOf
    <3>4. QED
      BY <3>2, <3>3
  <2>2. QED
    BY <1>1, <2>1 DEF WaitLimit, Collecting
<1>5. op'.stage # "admit"
  BY <1>1 DEF MarkAdmitted, OpKnows, Op, Idle
<1>6. BytesLimit'
  <2>1. \A r \in Requests : requests'[r].bytes = requests[r].bytes
    BY DEF MarkAdmitted, StagedRows, RowsTypeOK, Request
  <2>2. QED
    BY <1>2, <2>1, BytesKept
<1>7. QED
  BY <1>1, <1>2, <1>4, <1>5, <1>6 DEF StagedLimits, CountLimit, ScheduledWait

LEMMA SaveLimits ==
  ASSUME StagedRows, OpKnows, StagedLimits, SaveRequest
  PROVE  StagedLimits'
<1>1. /\ StagedRows' /\ jobs' = jobs /\ ~Saved(op.new) /\ op.new \in Requests
      /\ \A r \in Requests : r # op.new => requests'[r] = requests[r]
      /\ \A b \in Jobs : Members(requests', b) = Members(requests, b)
      /\ BatchJobs \subseteq Jobs
  BY SaveRows, JobNames
<1>2. op'.stage = "attach"
  BY DEF SaveRequest, OpKnows, Op
<1>3. WaitLimit'
  <2>1. ASSUME NEW b \in BatchJobs, Collecting(b), NEW T, T # {},
               T = {r \in Members(requests', b) : requests'[r].admitted}
        PROVE  jobs[b].availableAt <= FirstReceived(requests', T) + MaxBatchWait
    <3>1. \A r \in Members(requests, b) : r \in Requests /\ r # op.new
      BY <1>1 DEF Members, Saved
    <3>2. T = AdmittedOf(b)
      BY <1>1, <2>1, <3>1 DEF AdmittedOf
    <3>3. FirstReceived(requests', T) = FirstReceived(requests, T)
      BY <1>1, <3>1, <3>2, SameFirst DEF AdmittedOf
    <3>4. QED
      BY <2>1, <3>2, <3>3 DEF StagedLimits, WaitLimit, AdmittedOf
  <2>2. QED
    BY <1>1, <2>1 DEF WaitLimit, Collecting
<1>4. BytesLimit'
  BY <1>1, BytesKept
<1>5. QED
  BY <1>1, <1>2, <1>3, <1>4 DEF StagedLimits, CountLimit, ScheduledWait

LEMMA CreateLimits ==
  ASSUME StagedRows, OpKnows, StagedLimits, Create
  PROVE  StagedLimits'
<1>1. /\ requests' = requests /\ Members(requests, Batch(op.cur)) = {}
      /\ \A j \in Jobs : j # Batch(op.cur) => jobs'[j] = jobs[j]
      /\ BatchJobs \subseteq Jobs
  BY CreateRows, JobNames
<1>2. op'.stage = "attach"
  BY DEF Create, Locating
<1>3. WaitLimit'
  <2>1. ASSUME NEW b \in BatchJobs, Collecting(b)', AdmittedOf(b) # {}
        PROVE  jobs'[b].availableAt <= FirstReceived(requests, AdmittedOf(b)) + MaxBatchWait
    <3>1. b # Batch(op.cur)
      BY <1>1, <2>1 DEF AdmittedOf
    <3>2. QED
      BY <1>1, <2>1, <3>1 DEF StagedLimits, WaitLimit, AdmittedOf, Collecting
  <2>2. QED
    BY <1>1, <2>1 DEF WaitLimit, AdmittedOf, Members, FirstReceived, Received, Collecting
<1>4. QED
  BY <1>1, <1>2, <1>3 DEF StagedLimits, CountLimit, BytesLimit, ScheduledWait, Members

LEMMA StagedLimitsNext ==
  ASSUME StagedInv, StagedLimits, [Next]_vars
  PROVE  StagedLimits'
<1>1. /\ StagedRows /\ OpKnows /\ StagedRows' /\ attempt \in Jobs \cup {None}
  BY StagedInvNext DEF StagedInv
<1>2. CASE UNCHANGED vars
  <2>1. requests' = requests /\ op' = op /\ \A b \in BatchJobs : Sooner(b)
    BY <1>1, <1>2, StillRows DEF vars
  <2>2. QED
    BY <1>1, <2>1, SoonerLimits
<1>3. CASE OpOnly
  <2>1. requests' = requests /\ \A b \in BatchJobs : Sooner(b)
    BY <1>1, <1>3, StillRows DEF OpOnly
  <2>2. op'.stage # "admit"
    <3>1. CASE op' = Idle
      BY <3>1 DEF Idle
    <3>2. ASSUME NEW r, NEW kind, Begin(kind, r)
          PROVE  op'.stage # "admit"
      BY <3>2 DEF Begin, Idle
    <3>3. CASE Relink \/ \E r \in Requests : RecoverNext(r)
      BY <1>1, <3>1, <3>3 DEF Relink, RecoverNext, OpKnows, Op
    <3>4. CASE Duplicate \/ ClaimNone \/ WriteFails \/ Die
      BY <3>1, <3>4 DEF Duplicate, ClaimNone, WriteFails, Die
    <3>5. QED
      BY <1>3, <3>2, <3>3, <3>4 DEF OpOnly, BeginAdmit, BeginClaim
  <2>3. QED
    BY <1>1, <2>1, <2>2, SoonerLimits
<1>4. CASE QuietStep /\ op' = op /\ ~Schedule
  <2>1. requests' = requests /\ \A b \in BatchJobs : Sooner(b)
    BY <1>1, <1>4, QuietRows DEF RowsMove
  <2>2. QED
    BY <1>1, <1>4, <2>1, SoonerLimits
<1>5. CASE Schedule
  BY <1>1, <1>5, ScheduleLimits
<1>6. ASSUME NEW j \in Jobs, ClaimNext(j)
      PROVE  StagedLimits'
  <2>1. /\ jobs' = Claimed(jobs, j) /\ requests' = requests /\ op' = Idle
        /\ jobs \in [Jobs -> Job] /\ BatchJobs \subseteq Jobs
    BY <1>1, <1>6, JobNames DEF ClaimNext, StagedRows, RowsTypeOK
  <2>2. \A b \in BatchJobs : Sooner(b)
    BY <2>1 DEF Claimed, Sooner, Collecting, Job
  <2>3. op'.stage # "admit"
    BY <2>1 DEF Idle
  <2>4. QED
    BY <1>1, <2>1, <2>2, <2>3, SoonerLimits
<1>7. CASE SaveRequest
  BY <1>1, <1>7, SaveLimits
<1>8. CASE LinkOwn \/ Append
  BY <1>1, <1>8, LinkLimits
<1>9. CASE Create
  BY <1>1, <1>9, CreateLimits
<1>10. CASE MarkAdmitted
  BY <1>1, <1>10, MarkLimits
<1>11. QED
  BY <1>1, <1>2, <1>3, <1>4, <1>5, <1>6, <1>7, <1>8, <1>9, <1>10, StagedSteps

\* The staged writes keep the requests and the bytes of a batch within their
\* limits, also where a write that failed left a request for the next operation
\* to attach.
THEOREM StagedBatchesLimited == Spec => []BatchLimits
<1>1. StagedLimits => BatchLimits
  BY BothLimits DEF StagedLimits
<1>2. QED
  BY <1>1, StagedInvInit, StagedInvNext, StagedLimitsInit, StagedLimitsNext, PTL DEF Spec

\* They hold no admitted request back beyond the maximum wait, also where one is
\* attached long after it was received.
THEOREM StagedWaitLimited == Spec => []WaitLimit
<1>1. StagedLimits => WaitLimit
  BY DEF StagedLimits
<1>2. QED
  BY <1>1, StagedInvInit, StagedInvNext, StagedLimitsInit, StagedLimitsNext, PTL DEF Spec

----------------------------------------------------------------------------
(* One waiting batch *)

\* An operation goes by the instant at which it began.
Horizon == IF op.stage = "idle" THEN clock ELSE op.at

Waits(b) == Collecting(b) /\ jobs[b].availableAt > Horizon

OneWaits ==
  \A b, c \in BatchJobs :
    Waits(b) /\ Waits(c) /\ jobs[b].review = jobs[c].review => b = c

\* The batch that an unfinished request is in, or that was made for it.
BoundFor(r, b) ==
  requests[r].job = b \/ (requests[r].job = None /\ b = Batch(r) /\ Exists(b))

\* No other batch of the review waits while a schedule is due that may make this
\* one wait.
AloneWhileBound ==
  \A r \in Pending : requests[r].debounce > 0 =>
    \A b, c \in BatchJobs :
      BoundFor(r, b) /\ Waits(c) /\ jobs[c].review = jobs[b].review => c = b

\* A request that is not held back is alone in a batch that does not wait.
HastyAlone ==
  \A r \in Pending : requests[r].debounce = 0 =>
    /\ \A b \in BatchJobs : BoundFor(r, b) => b = Batch(r)
    /\ Members(requests, Batch(r)) \subseteq {r}

InTime ==
  /\ \A r \in Requests : Saved(r) => requests[r].receivedAt <= Horizon
  /\ Horizon <= clock

WaitingInv == OneWaits /\ AloneWhileBound /\ HastyAlone /\ InTime

LEMMA HorizonType ==
  ASSUME StagedRows, OpKnows
  PROVE  /\ Horizon \in Nat /\ clock \in Nat
         /\ \A b \in BatchJobs : b \in Jobs /\ jobs[b].availableAt \in Nat
BY JobNames DEF Horizon, StagedRows, RowsTypeOK, OpKnows, Op, Job

\* Steps that change no request and after which no batch waits that did not wait.
LEMMA FewerWait ==
  ASSUME WaitingInv, requests' = requests, Horizon' >= Horizon, Horizon' <= clock',
         Horizon \in Nat, Horizon' \in Nat, requests \in [Requests -> Request],
         \A b \in BatchJobs : Waits(b)' => Waits(b),
         \A b \in BatchJobs : jobs'[b].review = jobs[b].review /\ (Exists(b)' => Exists(b))
  PROVE  WaitingInv'
<1>1. /\ Pending' = Pending /\ \A b : Members(requests', b) = Members(requests, b)
      /\ \A r \in Requests : Saved(r)' <=> Saved(r)
  BY DEF Pending, Saved, Members
<1>2. \A r \in Requests : \A b \in BatchJobs : BoundFor(r, b)' => BoundFor(r, b)
  BY DEF BoundFor
<1>3. OneWaits'
  BY DEF WaitingInv, OneWaits
<1>4. AloneWhileBound'
  <2>1. SUFFICES ASSUME NEW r \in Pending, requests[r].debounce > 0,
                        NEW b \in BatchJobs, NEW c \in BatchJobs,
                        BoundFor(r, b)', Waits(c)', jobs'[c].review = jobs'[b].review
                 PROVE  c = b
    BY <1>1 DEF AloneWhileBound
  <2>2. BoundFor(r, b) /\ Waits(c) /\ jobs[c].review = jobs[b].review
    BY <1>2, <2>1 DEF Pending
  <2>3. QED
    BY <2>1, <2>2 DEF WaitingInv, AloneWhileBound
<1>5. HastyAlone'
  <2>1. SUFFICES ASSUME NEW r \in Pending, requests[r].debounce = 0
                 PROVE  /\ \A b \in BatchJobs : BoundFor(r, b)' => b = Batch(r)
                        /\ Members(requests, Batch(r)) \subseteq {r}
    BY <1>1 DEF HastyAlone
  <2>2. QED
    BY <1>2, <2>1 DEF WaitingInv, HastyAlone, Pending
<1>6. InTime'
  <2>1. SUFFICES ASSUME NEW r \in Requests, Saved(r)
                 PROVE  requests[r].receivedAt <= Horizon'
    BY <1>1 DEF InTime
  <2>2. requests[r].receivedAt \in Nat /\ requests[r].receivedAt <= Horizon
    BY <2>1 DEF WaitingInv, InTime, Request
  <2>3. QED
    BY <2>2
<1>7. QED
  BY <1>3, <1>4, <1>5, <1>6 DEF WaitingInv

\* The same for steps that hold no batch back.
LEMMA SoonerWait ==
  ASSUME StagedRows, OpKnows, StagedRows', OpKnows', WaitingInv, RowsMove,
         \A b \in BatchJobs : Sooner(b), Horizon' >= Horizon, Horizon' <= clock'
  PROVE  WaitingInv'
<1>1. /\ Horizon \in Nat /\ Horizon' \in Nat
      /\ \A b \in BatchJobs : jobs[b].availableAt \in Nat /\ jobs'[b].availableAt \in Nat
  BY HorizonType, JobNames DEF Horizon, StagedRows, RowsTypeOK, OpKnows, Op, Job
<1>2. \A b \in BatchJobs : Waits(b)' => Waits(b)
  BY <1>1 DEF Sooner, Waits
<1>3. /\ requests' = requests /\ requests \in [Requests -> Request]
      /\ \A b \in BatchJobs :
           jobs'[b].review = jobs[b].review /\ (Exists(b)' => Exists(b))
  BY DEF RowsMove, StagedRows, RowsTypeOK
<1>4. QED
  BY <1>1, <1>2, <1>3, FewerWait

\* A claim, or an operation, begins with the clock of its process and ends later.
LEMMA OpOnlyHorizon ==
  ASSUME MaxSkew = 0, StagedRows, OpKnows, InTime, OpOnly
  PROVE  Horizon' >= Horizon /\ Horizon' <= clock' /\ clock' = clock
<1>1. /\ clock' = clock /\ op \in Op /\ op.at \in Nat /\ clock \in Nat /\ Horizon \in Nat
      /\ Horizon <= clock
  BY HorizonType DEF OpOnly, OpKnows, Op, InTime
<1>2. CASE op' = Idle
  BY <1>1, <1>2 DEF Horizon, Idle
<1>3. ASSUME NEW r, NEW kind, Begin(kind, r)
      PROVE  Horizon' = clock
  <2>1. PICK now \in CallTimes :
          op' = [Idle EXCEPT !.stage = "recover", !.kind = kind, !.at = now,
                             !.todo = Pending, !.new = r]
    BY <1>3 DEF Begin
  <2>2. now = clock
    BY <1>1 DEF CallTimes
  <2>3. QED
    BY <2>1, <2>2 DEF Horizon, Idle
<1>4. CASE Relink \/ \E r \in Requests : RecoverNext(r)
  <2>1. CASE op' # Idle
    <3>1. op.stage # "idle" /\ op'.stage # "idle" /\ op'.at = op.at
      BY <1>1, <1>4, <2>1 DEF Relink, RecoverNext, Op
    <3>2. QED
      BY <1>1, <3>1 DEF Horizon
  <2>2. QED
    BY <1>2, <2>1
<1>5. CASE Duplicate \/ ClaimNone \/ WriteFails \/ Die
  BY <1>2, <1>5 DEF Duplicate, ClaimNone, WriteFails, Die
<1>6. QED
  BY <1>1, <1>3, <1>4, <1>5 DEF OpOnly, BeginAdmit, BeginClaim

LEMMA ScheduleWaits ==
  ASSUME StagedRows, OpKnows, WaitingInv, Schedule
  PROVE  WaitingInv'
<1>0. PICK n \in Requests, b \in Jobs : n = op.cur /\ b = Cur.job
  BY ScheduledRows DEF Members
<1>1. /\ requests' = requests /\ clock' = clock
      /\ n \in Pending /\ requests[n].job = b
      /\ requests \in [Requests -> Request] /\ jobs \in [Jobs -> Job]
      /\ op.stage = "schedule" /\ op' = [op EXCEPT !.stage = "admit"] /\ op \in Op
      /\ BatchJobs \subseteq Jobs
  BY <1>0, ScheduledRows, JobNames
     DEF Schedule, OpKnows, Attaching, Pending, Cur, StagedRows, RowsTypeOK
<1>2. /\ Horizon' = Horizon /\ Horizon \in Nat /\ Horizon <= clock
      /\ Pending' = Pending /\ \A r \in Pending : r = n
  BY <1>0, <1>1, HorizonType
     DEF Horizon, Op, WaitingInv, InTime, Pending, Saved, StagedRows, OneUnfinished
<1>3. CASE jobs' = jobs
  BY <1>1, <1>2, <1>3, FewerWait DEF Waits, Collecting, Exists
<1>4. ASSUME NEW at \in ReadyTimes(requests, Members(requests, b)), at \in Nat,
             b \in BatchJobs, jobs' = [jobs EXCEPT ![b].availableAt = at]
      PROVE  WaitingInv'
  <2>1. /\ jobs'[b].availableAt = at
        /\ \A c \in BatchJobs : c # b => jobs'[c] = jobs[c]
        /\ \A c \in BatchJobs : /\ jobs'[c].review = jobs[c].review
                               /\ jobs'[c].status = jobs[c].status
    BY <1>1, <1>4 DEF Job
  <2>2. \A c \in BatchJobs : c # b /\ Waits(c)' => Waits(c)
    BY <1>2, <2>1 DEF Waits, Collecting
  <2>3. BoundFor(n, b) /\ b # None
    BY <1>1, <1>4, JobNames DEF BoundFor
  <2>4. CASE requests[n].debounce = 0
    <3>1. /\ b = Batch(n) /\ Members(requests, b) \subseteq {n}
          /\ n \in Members(requests, b)
      BY <1>1, <1>4, <2>3, <2>4 DEF WaitingInv, HastyAlone, Pending, Members, Saved
    <3>2. at <= requests[n].receivedAt + requests[n].debounce
      BY <1>1, <1>4, <3>1, ReadyBound DEF Members
    <3>3. /\ requests[n].receivedAt <= Horizon
          /\ requests[n].receivedAt \in Nat
      BY <1>1 DEF WaitingInv, InTime, Pending, Request
    <3>4. ~Waits(b)'
      BY <1>2, <1>4, <2>1, <2>4, <3>2, <3>3 DEF Waits
    <3>5. QED
      BY <1>1, <1>2, <2>1, <2>2, <3>4, FewerWait DEF Exists
  <2>5. CASE requests[n].debounce > 0
    <3>1. ASSUME NEW c \in BatchJobs, Waits(c)', jobs'[c].review = jobs'[b].review
          PROVE  c = b
      BY <1>1, <1>4, <2>1, <2>2, <2>3, <2>5, <3>1 DEF WaitingInv, AloneWhileBound
    <3>2. OneWaits'
      <4>1. SUFFICES ASSUME NEW c \in BatchJobs, NEW d \in BatchJobs, Waits(c)', Waits(d)',
                            jobs'[c].review = jobs'[d].review
                     PROVE  c = d
        BY DEF OneWaits
      <4>2. CASE c = b \/ d = b
        BY <3>1, <4>1, <4>2
      <4>3. CASE c # b /\ d # b
        BY <2>1, <2>2, <4>1, <4>3 DEF WaitingInv, OneWaits
      <4>4. QED
        BY <4>2, <4>3
    <3>3. /\ AloneWhileBound' /\ HastyAlone'
      <4>1. \A c \in BatchJobs : BoundFor(n, c)' => c = b
        BY <1>1, <2>3 DEF BoundFor
      <4>2. QED
        BY <1>1, <1>2, <2>5, <3>1, <4>1 DEF AloneWhileBound, HastyAlone
    <3>4. InTime'
      BY <1>1, <1>2 DEF WaitingInv, InTime, Saved
    <3>5. QED
      BY <3>2, <3>3, <3>4 DEF WaitingInv
  <2>6. requests[n].debounce \in Nat
    BY <1>1 DEF Request
  <2>7. QED
    BY <2>4, <2>5, <2>6
<1>5. QED
  BY <1>0, <1>3, <1>4, ScheduledRows

LEMMA SaveWaits ==
  ASSUME StagedRows, OpKnows, WaitingInv, SaveRequest
  PROVE  WaitingInv'
<1>0. PICK n \in Requests : n = op.new
  BY SaveRows
<1>1. /\ StagedRows' /\ Pending' = {n} /\ jobs' = jobs /\ ~Saved(n)
      /\ \A r \in Requests : requests'[r].job = requests[r].job
      /\ \A r \in Requests : r # n => requests'[r] = requests[r]
      /\ \A b \in Jobs : Members(requests', b) = Members(requests, b)
  BY <1>0, SaveRows
<1>2. /\ op' = [op EXCEPT !.stage = "attach", !.cur = n] /\ op \in Op
      /\ op.stage # "idle" /\ clock' = clock
  BY <1>0 DEF SaveRequest, Recovered, OpKnows
<1>3. Horizon' = Horizon /\ Horizon = op.at /\ op.at \in Nat
  BY <1>2 DEF Horizon, Op
<1>4. requests'[n].receivedAt = op.at
  BY <1>0, <1>1 DEF SaveRequest, NewRequest, StagedRows, RowsTypeOK
<1>5. /\ requests'[n].job = None /\ ~Exists(Batch(n))
      /\ Members(requests', Batch(n)) = {}
  <2>1. requests[n].job = None /\ ~Exists(Batch(n)) /\ Batch(n) \in Jobs
    BY <1>1, JobNames DEF StagedRows, UnsavedClean, Owned
  <2>2. Members(requests, Batch(n)) = {}
    BY <1>1, <2>1, JobNames DEF StagedRows, FounderLinked, Members
  <2>3. QED
    BY <1>1, <2>1, <2>2
<1>6. \A b \in BatchJobs : ~BoundFor(n, b)'
  BY <1>1, <1>5, JobNames DEF BoundFor, Exists
<1>7. (OneWaits /\ AloneWhileBound /\ HastyAlone)'
  BY <1>1, <1>3, <1>5, <1>6
     DEF WaitingInv, OneWaits, Waits, Collecting, AloneWhileBound, HastyAlone
<1>8. InTime'
  BY <1>1, <1>2, <1>3, <1>4 DEF WaitingInv, InTime, Saved
<1>9. QED
  BY <1>7, <1>8 DEF WaitingInv

LEMMA LinkWaits ==
  ASSUME StagedRows, OpKnows, WaitingInv, LinkOwn \/ Append
  PROVE  WaitingInv'
<1>1. PICK b \in Jobs :
        /\ op.cur \in Pending /\ requests[op.cur].job = None
        /\ Link(b) /\ Exists(b)
        /\ b \in BatchJobs => ~jobs[b].started /\ jobs[b].review = Cur.review
        /\ \A r \in Requests : b = Batch(r) /\ r # op.cur => requests[r].job = b
        /\ Exists(Batch(op.cur)) => b = Batch(op.cur)
        /\ b = Batch(op.cur) \/ b \notin BatchJobs \/ (CanAppend(b, Cur) /\ b \in Open)
        /\ b = Batch(op.cur) => Members(requests, b) = {}
  BY LinkTarget
<1>2. PICK n \in Requests : n = op.cur
  BY <1>1 DEF Pending
<1>3. /\ jobs' = jobs /\ Pending' = Pending /\ StagedRows'
      /\ requests'[n].job = b /\ b # None
      /\ requests'[n].receivedAt = requests[n].receivedAt
      /\ requests'[n].debounce = requests[n].debounce
      /\ \A r \in Requests : r # n => requests'[r] = requests[r]
      /\ Members(requests', b) = Members(requests, b) \cup {n}
      /\ \A c \in Jobs : c # b => Members(requests', c) = Members(requests, c)
      /\ Batch(n) \in Jobs
  BY <1>1, <1>2, LinkRows, JobNames
<1>4. /\ op' = [op EXCEPT !.stage = "schedule"] /\ op \in Op /\ op.stage = "attach"
      /\ clock' = clock
  BY <1>1 DEF Link, LinkOwn, Append, Locating, OpKnows
<1>5. /\ Horizon' = Horizon /\ Horizon = op.at /\ op.at \in Nat
      /\ \A r \in Pending : r = n
  BY <1>1, <1>2, <1>4 DEF Horizon, Op, StagedRows, OneUnfinished
<1>6. \A c \in BatchJobs : BoundFor(n, c)' => c = b
  BY <1>3 DEF BoundFor
<1>7. \A c \in BatchJobs : /\ Waits(c)' <=> Waits(c)
                          /\ jobs'[c].review = jobs[c].review
  BY <1>3, <1>5 DEF Waits, Collecting
<1>8. OneWaits'
  BY <1>7 DEF WaitingInv, OneWaits
<1>9. AloneWhileBound'
  <2>1. SUFFICES ASSUME requests[n].debounce > 0, b \in BatchJobs,
                        NEW c \in BatchJobs, Waits(c), jobs[c].review = jobs[b].review
                 PROVE  c = b
    BY <1>3, <1>5, <1>6, <1>7 DEF AloneWhileBound
  <2>2. CASE b = Batch(n)
    <3>1. BoundFor(n, b)
      BY <1>1, <1>2, <2>2 DEF BoundFor
    <3>2. QED
      BY <1>1, <1>2, <2>1, <3>1 DEF WaitingInv, AloneWhileBound
  <2>3. CASE b \in Open
    <3>1. Waits(b)
      BY <1>5, <2>3 DEF Open, Candidates, Waits
    <3>2. QED
      BY <2>1, <3>1 DEF WaitingInv, OneWaits
  <2>4. QED
    BY <1>1, <1>2, <2>1, <2>2, <2>3
<1>10. HastyAlone'
  <2>1. SUFFICES ASSUME requests[n].debounce = 0
                 PROVE  /\ b \in BatchJobs => b = Batch(n)
                        /\ Members(requests', Batch(n)) \subseteq {n}
    BY <1>3, <1>5, <1>6 DEF HastyAlone
  <2>2. b \in BatchJobs => b = Batch(n)
    BY <1>1, <1>2, <2>1 DEF CanAppend, Cur
  <2>3. Members(requests, Batch(n)) \subseteq {n}
    BY <1>1, <1>2, <2>1 DEF WaitingInv, HastyAlone
  <2>4. QED
    BY <1>3, <2>2, <2>3
<1>11. InTime'
  BY <1>3, <1>4, <1>5, LinkRows, <1>1, <1>2 DEF WaitingInv, InTime, Saved, Pending
<1>12. QED
  BY <1>8, <1>9, <1>10, <1>11 DEF WaitingInv

LEMMA CreateWaits ==
  ASSUME StagedRows, OpKnows, WaitingInv, Create
  PROVE  WaitingInv'
<1>0. PICK n \in Requests, b \in Jobs : n = op.cur /\ b = Batch(n)
  BY JobNames DEF Create, Locating, OpKnows, Attaching, Pending
<1>1. /\ StagedRows' /\ Pending' = Pending /\ requests' = requests
      /\ Members(requests, b) = {} /\ b \in BatchJobs
      /\ \A j \in Jobs : j # b => jobs'[j] = jobs[j]
      /\ BatchJobs \subseteq Jobs /\ b # None
  BY <1>0, CreateRows, JobNames
<1>2. /\ n \in Pending /\ requests[n].job = None
      /\ Open = {} \/ Cur.debounce = 0
      /\ jobs' = [jobs EXCEPT ![b] = NewBatch(Cur)] /\ jobs \in [Jobs -> Job]
      /\ op' = op /\ clock' = clock /\ op.stage = "attach"
      /\ requests \in [Requests -> Request] /\ Cur = requests[n]
  BY <1>0 DEF Create, Locating, Cur, OpKnows, Attaching, Pending, StagedRows, RowsTypeOK
<1>3. /\ Horizon' = Horizon /\ Horizon = op.at /\ op.at \in Nat
      /\ \A r \in Pending : r = n
  BY <1>0, <1>2 DEF Horizon, OpKnows, Op, StagedRows, OneUnfinished
<1>4. /\ jobs'[b] = NewBatch(Cur) /\ jobs'[b].review = Cur.review
  BY <1>1, <1>2 DEF NewBatch, NoJob
<1>5. \A c \in BatchJobs : c # b =>
        (Waits(c)' <=> Waits(c)) /\ jobs'[c].review = jobs[c].review
  BY <1>1, <1>3 DEF Waits, Collecting
<1>6. \A c \in BatchJobs : BoundFor(n, c)' => c = b
  BY <1>0, <1>1, <1>2, JobNames DEF BoundFor
<1>7. HastyAlone' /\ InTime'
  BY <1>0, <1>1, <1>2, <1>3, <1>6 DEF WaitingInv, HastyAlone, InTime, Saved
<1>8. CASE Open = {}
  <2>1. ASSUME NEW c \in BatchJobs, Waits(c)', jobs'[c].review = jobs'[b].review
        PROVE  c = b
    <3>1. SUFFICES ASSUME c # b
                   PROVE  FALSE
      OBVIOUS
    <3>2. Waits(c) /\ jobs[c].review = Cur.review
      BY <1>4, <1>5, <2>1, <3>1
    <3>3. c \in Open
      BY <1>3, <3>2 DEF Open, Candidates, Waits
    <3>4. QED
      BY <1>8, <3>3
  <2>2. OneWaits'
    <3>1. SUFFICES ASSUME NEW c \in BatchJobs, NEW d \in BatchJobs, Waits(c)', Waits(d)',
                          jobs'[c].review = jobs'[d].review
                   PROVE  c = d
      BY DEF OneWaits
    <3>2. CASE c = b \/ d = b
      BY <2>1, <3>1, <3>2
    <3>3. CASE c # b /\ d # b
      BY <1>5, <3>1, <3>3 DEF WaitingInv, OneWaits
    <3>4. QED
      BY <3>2, <3>3
  <2>3. AloneWhileBound'
    BY <1>1, <1>3, <1>6, <2>1 DEF AloneWhileBound
  <2>4. QED
    BY <1>7, <2>2, <2>3 DEF WaitingInv
<1>9. CASE Cur.debounce = 0
  <2>1. ~Waits(b)'
    <3>1. /\ Cur.receivedAt \in Nat /\ Cur.receivedAt <= Horizon /\ MaxBatchWait \in Nat
      BY <1>2, BatchAssumption DEF WaitingInv, InTime, Pending, Request
    <3>2. jobs'[b].availableAt = Cur.receivedAt + Earlier(MaxBatchWait, 0)
      BY <1>4, <1>9 DEF NewBatch, NoJob
    <3>3. Earlier(MaxBatchWait, 0) = 0
      BY <3>1 DEF Earlier
    <3>4. QED
      BY <1>3, <3>1, <3>2, <3>3 DEF Waits
  <2>2. OneWaits'
    BY <1>5, <2>1 DEF WaitingInv, OneWaits
  <2>3. AloneWhileBound'
    BY <1>1, <1>2, <1>3, <1>9 DEF AloneWhileBound
  <2>4. QED
    BY <1>7, <2>2, <2>3 DEF WaitingInv
<1>10. QED
  BY <1>2, <1>8, <1>9

LEMMA MarkWaits ==
  ASSUME StagedRows, OpKnows, WaitingInv, MarkAdmitted
  PROVE  WaitingInv'
<1>1. /\ StagedRows' /\ Pending' = Pending \ {op.cur} /\ jobs' = jobs
      /\ op.cur \in Pending
      /\ \A r \in Requests : /\ requests'[r].saved = requests[r].saved
                            /\ requests'[r].receivedAt = requests[r].receivedAt
  BY MarkRows
<1>2. Pending' = {}
  BY <1>1 DEF StagedRows, OneUnfinished
<1>3. /\ Horizon' >= Horizon /\ Horizon' <= clock' /\ clock' = clock
      /\ Horizon \in Nat /\ Horizon' \in Nat
  <2>1. /\ op.stage = "admit" /\ clock' = clock /\ clock \in Nat /\ op \in Op
        /\ op' = Idle \/ op' = [op EXCEPT !.stage = "recover", !.cur = None]
        /\ Horizon <= clock /\ op.at \in Nat
    BY HorizonType DEF MarkAdmitted, OpKnows, Op, WaitingInv, InTime
  <2>2. CASE op' = Idle
    BY <2>1, <2>2, HorizonType DEF Horizon, Idle
  <2>3. CASE op' = [op EXCEPT !.stage = "recover", !.cur = None]
    <3>1. op'.stage = "recover" /\ op'.at = op.at
      BY <2>1, <2>3 DEF Op
    <3>2. QED
      BY <2>1, <3>1 DEF Horizon
  <2>4. QED
    BY <2>1, <2>2, <2>3
<1>4. \A b \in BatchJobs : /\ Waits(b)' => Waits(b)
                          /\ jobs'[b].review = jobs[b].review
  BY <1>1, <1>3, HorizonType DEF Waits, Collecting
<1>5. OneWaits'
  BY <1>4 DEF WaitingInv, OneWaits
<1>6. InTime'
  <2>1. SUFFICES ASSUME NEW r \in Requests, Saved(r)
                 PROVE  requests[r].receivedAt <= Horizon'
    BY <1>1, <1>3 DEF InTime, Saved
  <2>2. requests[r].receivedAt <= Horizon /\ requests[r].receivedAt \in Nat
    BY <2>1 DEF WaitingInv, InTime, StagedRows, RowsTypeOK, Request
  <2>3. QED
    BY <1>3, <2>2
<1>7. QED
  BY <1>2, <1>5, <1>6 DEF WaitingInv, AloneWhileBound, HastyAlone

LEMMA WaitingInit ==
  ASSUME Init
  PROVE  WaitingInv
<1>1. /\ clock = 0 /\ op.stage = "idle" /\ Pending = {}
      /\ \A r \in Requests : ~Saved(r)
      /\ \A b \in BatchJobs : ~Collecting(b)
  BY JobNames DEF Init, RowsInit, Idle, Pending, Saved, NoRequest, NoJob, Collecting
<1>2. QED
  BY <1>1 DEF WaitingInv, OneWaits, Waits, AloneWhileBound, HastyAlone, InTime, Horizon

LEMMA WaitingNext ==
  ASSUME MaxSkew = 0, StagedInv, WaitingInv, [Next]_vars
  PROVE  WaitingInv'
<1>1. /\ StagedRows /\ OpKnows /\ StagedRows' /\ OpKnows' /\ attempt \in Jobs \cup {None}
      /\ InTime /\ Horizon \in Nat /\ Horizon <= clock /\ clock \in Nat
  BY StagedInvNext, HorizonType DEF StagedInv, WaitingInv, InTime
<1>2. CASE UNCHANGED vars
  <2>1. Horizon' = Horizon /\ clock' = clock /\ RowsMove /\ \A b \in BatchJobs : Sooner(b)
    BY <1>1, <1>2, StillRows DEF vars, Horizon
  <2>2. QED
    BY <1>1, <2>1, SoonerWait
<1>3. CASE OpOnly
  <2>1. RowsMove /\ \A b \in BatchJobs : Sooner(b)
    BY <1>1, <1>3, StillRows DEF OpOnly
  <2>2. QED
    BY <1>1, <1>3, <2>1, OpOnlyHorizon, SoonerWait
<1>4. CASE QuietStep /\ op' = op /\ ~Schedule
  <2>1. RowsMove /\ \A b \in BatchJobs : Sooner(b)
    BY <1>1, <1>4, QuietRows
  <2>2. clock' = clock \/ clock' = clock + 1
    BY <1>4 DEF QuietStep, Tick, SubmitLocal, RecoverLease, Seal, Schedule
  <2>3. Horizon' >= Horizon /\ Horizon' <= clock'
    BY <1>1, <1>4, <2>2 DEF Horizon
  <2>4. QED
    BY <1>1, <2>1, <2>3, SoonerWait
<1>5. CASE Schedule
  BY <1>1, <1>5, ScheduleWaits
<1>6. ASSUME NEW j \in Jobs, ClaimNext(j)
      PROVE  WaitingInv'
  <2>1. /\ jobs' = Claimed(jobs, j) /\ op' = Idle /\ clock' = clock
        /\ jobs \in [Jobs -> Job] /\ BatchJobs \subseteq Jobs
    BY <1>1, <1>6, JobNames DEF ClaimNext, StagedRows, RowsTypeOK
  <2>2. \A b \in BatchJobs : Sooner(b)
    BY <2>1 DEF Claimed, Sooner, Collecting, Job
  <2>3. Horizon' = clock
    BY <2>1 DEF Horizon, Idle
  <2>4. QED
    BY <1>1, <1>6, <2>1, <2>2, <2>3, ClaimRows, SoonerWait
<1>7. CASE SaveRequest
  BY <1>1, <1>7, SaveWaits
<1>8. CASE LinkOwn \/ Append
  BY <1>1, <1>8, LinkWaits
<1>9. CASE Create
  BY <1>1, <1>9, CreateWaits
<1>10. CASE MarkAdmitted
  BY <1>1, <1>10, MarkWaits
<1>11. QED
  BY <1>1, <1>2, <1>3, <1>4, <1>5, <1>6, <1>7, <1>8, <1>9, <1>10, StagedSteps

\* The requests of a review that are held back wait in one batch at a time,
\* although it takes several writes to seal the others, any of which may fail, and
\* a request may be attached by a later operation than the one that saved it.
THEOREM StagedOneBatchAtATime ==
  ASSUME MaxSkew = 0
  PROVE  Spec => []OneOpenBatch
<1>1. StagedInv /\ WaitingInv => OneOpenBatch
  <2>1. SUFFICES ASSUME StagedInv, WaitingInv, NEW b \in BatchJobs, NEW c \in BatchJobs,
                        Collecting(b), jobs[b].availableAt > clock,
                        Collecting(c), jobs[c].availableAt > clock,
                        jobs[b].review = jobs[c].review
                 PROVE  b = c
    BY DEF OneOpenBatch
  <2>2. Waits(b) /\ Waits(c)
    BY <2>1, HorizonType DEF StagedInv, WaitingInv, InTime, Waits
  <2>3. QED
    BY <2>1, <2>2 DEF WaitingInv, OneWaits
<1>2. StagedInv /\ WaitingInv /\ [Next]_vars => WaitingInv'
  BY WaitingNext
<1>3. QED
  BY <1>1, <1>2, StagedInvInit, StagedInvNext, WaitingInit, PTL DEF Spec

=============================================================================
