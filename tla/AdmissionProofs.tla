--------------------------- MODULE AdmissionProofs ---------------------------
(***************************************************************************)
(* Machine-checked proofs about InteractionAdmission, for every set of     *)
(* requests and reviews, all limits and any skew of the callers' clocks.   *)
(***************************************************************************)
EXTENDS InteractionAdmission, BatchProofs

----------------------------------------------------------------------------
(* The inductive invariant *)

\* A request is known from the step that links it: nothing is half admitted.
SavedAdmitted == \A r \in Requests : Saved(r) => requests[r].admitted

\* A batch has the request that created it: else a batch could be started with
\* no request, or created twice.
Founded ==
  \A r \in Requests : Exists(Batch(r)) => Saved(r) /\ requests[r].job = Batch(r)

RowInv ==
  /\ RowsTypeOK
  /\ UnsavedClean /\ SavedAdmitted /\ Founded
  /\ AbsentUnstarted /\ RunningStarted
  /\ AdmittedHasJob

AdmissionInv == RowInv /\ CountLimit /\ BytesLimit /\ WaitLimit

LEMMA MembersExist ==
  ASSUME RowInv, NEW b, NEW r \in Members(requests, b)
  PROVE  Exists(b) /\ r \in Requests /\ Saved(r)
BY DEF RowInv, SavedAdmitted, AdmittedHasJob, Members, Saved

LEMMA AdmittedMembers ==
  ASSUME RowInv, NEW b
  PROVE  {r \in Members(requests, b) : requests[r].admitted} = Members(requests, b)
BY DEF RowInv, SavedAdmitted, Members, Saved

----------------------------------------------------------------------------
(* Steps of the queue *)

\* A step starts at most one batch, and one that exists.
OneStarts ==
  \A b \in BatchJobs : jobs'[b].started # jobs[b].started =>
    Exists(b) /\ \A c \in BatchJobs : c # b => jobs'[c].started = jobs[c].started

LEMMA ClaimForward ==
  ASSUME RowsTypeOK, RunningStarted, ClaimNext
  PROVE  /\ jobs' \in [Jobs -> Job]
         /\ \A b \in BatchJobs : Forward(b)
         /\ OneStarts
<1>0. PICK now \in CallTimes :
        \E rows \in Recovered(now) :
          \/ jobs' = rows
          \/ \E j \in Jobs : rows[j].status = "queued" /\ jobs' = Claimed(rows, j)
  BY DEF ClaimNext, FirstOf, Eligible
<1>1. PICK rows \in Recovered(now) :
        \/ jobs' = rows
        \/ \E j \in Jobs : rows[j].status = "queued" /\ jobs' = Claimed(rows, j)
  BY <1>0
<1>2. /\ jobs \in [Jobs -> Job] /\ BatchJobs \subseteq Jobs /\ now \in Nat
  BY JobNames, CallTimesBound DEF RowsTypeOK, CallTimesNat
<1>3. /\ rows \in [Jobs -> Job]
      /\ \A b \in Jobs :
           \/ rows[b] = jobs[b]
           \/ /\ jobs[b].status = "in_progress"
              /\ rows[b] = LeaseLost(jobs[b], now)
  <2>1. CASE rows = jobs
    BY <1>2, <2>1
  <2>2. ASSUME NEW j \in Running(jobs),
               rows = [jobs EXCEPT ![j] = LeaseLost(jobs[j], now)]
        PROVE  /\ rows \in [Jobs -> Job]
               /\ \A b \in Jobs :
                    \/ rows[b] = jobs[b]
                    \/ /\ jobs[b].status = "in_progress"
                       /\ rows[b] = LeaseLost(jobs[b], now)
    <3>1. j \in Jobs /\ jobs[j].status = "in_progress" /\ jobs[j] \in Job
      BY <1>2 DEF Running
    <3>2. LeaseLost(jobs[j], now) \in Job
      BY <1>2, <3>1, LeaseLostType
    <3>3. QED
      BY <1>2, <2>2, <3>1, <3>2
  <2>3. QED
    BY <1>1, <2>1, <2>2 DEF Recovered
<1>4. ASSUME NEW b \in BatchJobs
      PROVE  /\ rows[b] \in Job /\ jobs[b] \in Job
             /\ rows[b].review = jobs[b].review /\ rows[b].started = jobs[b].started
             /\ rows[b] = jobs[b]
                \/ /\ jobs[b].status = "in_progress" /\ jobs[b].started
                   /\ rows[b].status \in {"queued", "settled"}
  BY <1>2, <1>3, LeaseLostType DEF RunningStarted
<1>5. CASE jobs' = rows
  <2>1. \A b \in BatchJobs : Forward(b) /\ jobs'[b].started = jobs[b].started
    BY <1>4, <1>5 DEF Forward, Exists, Collecting, RunningStarted
  <2>2. QED
    BY <1>3, <1>5, <2>1 DEF OneStarts
<1>6. ASSUME NEW j \in Jobs, rows[j].status = "queued", jobs' = Claimed(rows, j)
      PROVE  /\ jobs' \in [Jobs -> Job]
             /\ \A b \in BatchJobs : Forward(b)
             /\ OneStarts
  <2>1. jobs' \in [Jobs -> Job]
    BY <1>3, <1>6 DEF Claimed, Job, JobStatus
  <2>2. ASSUME NEW b \in BatchJobs, b # j
        PROVE  Forward(b) /\ jobs'[b].started = jobs[b].started
    <3>1. jobs'[b] = rows[b]
      BY <1>2, <1>3, <1>6, <2>2 DEF Claimed
    <3>2. QED
      BY <1>4, <3>1 DEF Forward, Exists, Collecting, RunningStarted
  <2>3. ASSUME j \in BatchJobs
        PROVE  Forward(j) /\ Exists(j)
    <3>1. /\ jobs'[j].status = "in_progress" /\ jobs'[j].started
          /\ jobs'[j].review = rows[j].review
      BY <1>3, <1>6 DEF Claimed, Job
    <3>2. QED
      BY <1>4, <1>6, <2>3, <3>1 DEF Forward, Exists, Collecting
  <2>4. QED
    BY <2>1, <2>2, <2>3 DEF OneStarts
<1>7. QED
  BY <1>1, <1>5, <1>6

\* The steps other than an admission: time, the command line, and the queue.
QueueStep ==
  \/ Tick
  \/ \E r \in Locals : SubmitLocal(r)
  \/ ClaimNext
  \/ \E j \in Jobs : Queue(j)

LEMMA QueueForward ==
  ASSUME RowInv, QueueStep
  PROVE  /\ RowsTypeOK' /\ requests' = requests
         /\ \A b \in BatchJobs : jobs'[b] = jobs[b] \/ Forward(b)
         /\ \A j \in Jobs : Exists(j) => Exists(j)'
         /\ OneStarts
<1>1. /\ RowsTypeOK /\ RunningStarted /\ AbsentUnstarted
      /\ jobs \in [Jobs -> Job] /\ BatchJobs \subseteq Jobs
  BY JobNames DEF RowInv, RowsTypeOK
<1>2. CASE Tick
  BY <1>1, <1>2 DEF Tick, rowVars, RowsTypeOK, OneStarts, Exists
<1>3. ASSUME NEW r \in Locals, SubmitLocal(r)
      PROVE  /\ RowsTypeOK' /\ requests' = requests
             /\ \A b \in BatchJobs : jobs'[b] = jobs[b] \/ Forward(b)
             /\ \A j \in Jobs : Exists(j) => Exists(j)'
             /\ OneStarts
  <2>1. /\ jobs' \in [Jobs -> Job] /\ \A b \in BatchJobs : jobs'[b] = jobs[b]
    BY <1>1, <1>3, SubmitLocalForward
  <2>2. \A j \in Jobs : Exists(j) => Exists(j)'
    BY <1>1, <1>3 DEF SubmitLocal, Exists, NoJob
  <2>3. QED
    BY <1>1, <1>3, <2>1, <2>2 DEF SubmitLocal, RowsTypeOK, OneStarts
<1>4. CASE ClaimNext
  <2>1. \A j \in Jobs : Exists(j) => Exists(j)'
    <3>1. PICK now \in CallTimes :
            \E rows \in Recovered(now) :
              jobs' = rows \/ \E j \in Jobs : jobs' = Claimed(rows, j)
      BY <1>4 DEF ClaimNext, FirstOf, Eligible
    <3>2. PICK rows \in Recovered(now) :
            jobs' = rows \/ \E j \in Jobs : jobs' = Claimed(rows, j)
      BY <3>1
    <3>3. now \in Nat
      BY <1>1, CallTimesBound DEF CallTimesNat
    <3>4. /\ \A j \in Jobs : jobs[j].status # "absent" => rows[j].status # "absent"
          /\ DOMAIN rows = Jobs /\ \A j \in Jobs : rows[j] \in Job
      BY <1>1, <3>2, <3>3, LeaseLostType DEF Recovered, Running
    <3>5. QED
      BY <3>2, <3>4 DEF Claimed, Exists, Job
  <2>2. QED
    BY <1>1, <1>4, <2>1, ClaimForward DEF ClaimNext, RowsTypeOK
<1>5. ASSUME NEW j \in Jobs, Queue(j)
      PROVE  /\ RowsTypeOK' /\ requests' = requests
             /\ \A b \in BatchJobs : jobs'[b] = jobs[b] \/ Forward(b)
             /\ \A k \in Jobs : Exists(k) => Exists(k)'
             /\ OneStarts
  <2>1. /\ jobs' \in [Jobs -> Job] /\ \A b \in BatchJobs : Forward(b)
    BY <1>1, <1>5, ExpireForward, AttemptEndsForward DEF Queue
  <2>2. /\ \A k \in Jobs : Exists(k) => Exists(k)'
        /\ \A k \in Jobs : jobs'[k].started = jobs[k].started
        /\ requests' = requests /\ clock' = clock
    BY <1>1, <1>5 DEF Queue, Expire, AttemptEnds, Settle, Retry, Release, Exists, Job
  <2>3. QED
    BY <1>1, <2>1, <2>2 DEF RowsTypeOK, OneStarts
<1>6. QED
  BY <1>2, <1>3, <1>4, <1>5 DEF QueueStep

LEMMA QueueKeepsRows ==
  ASSUME RowInv, QueueStep
  PROVE  RowInv'
<1>1. /\ RowsTypeOK' /\ requests' = requests
      /\ \A b \in BatchJobs : jobs'[b] = jobs[b] \/ Forward(b)
      /\ \A j \in Jobs : Exists(j) => Exists(j)'
  BY QueueForward
<1>2. \A b \in BatchJobs : Exists(b)' <=> Exists(b)
  BY <1>1 DEF Forward, Exists
<1>3. (UnsavedClean /\ SavedAdmitted)'
  BY <1>1 DEF RowInv, UnsavedClean, SavedAdmitted, Saved
<1>4. Founded'
  BY <1>1, <1>2, JobNames DEF RowInv, Founded, Saved
<1>5. (AbsentUnstarted /\ RunningStarted)'
  BY <1>1, <1>2 DEF RowInv, AbsentUnstarted, RunningStarted, Forward
<1>6. AdmittedHasJob'
  <2>1. SUFFICES ASSUME NEW r \in Requests, requests[r].admitted
                 PROVE  /\ requests[r].job # None /\ Exists(requests[r].job)'
                        /\ requests[r].job \in BatchJobs
                             => jobs'[requests[r].job].review = requests[r].review
    BY <1>1 DEF AdmittedHasJob, Exists
  <2>2. /\ requests[r].job \in Jobs /\ Exists(requests[r].job)
        /\ requests[r].job \in BatchJobs
             => jobs[requests[r].job].review = requests[r].review
    BY <2>1 DEF RowInv, RowsTypeOK, Request, AdmittedHasJob
  <2>3. QED
    BY <1>1, <2>2, BatchAssumption, JobNames DEF Forward
<1>7. QED
  BY <1>1, <1>3, <1>4, <1>5, <1>6 DEF RowInv

LEMMA QueueKeepsLimits ==
  ASSUME AdmissionInv, QueueStep
  PROVE  AdmissionInv'
<1>1. /\ RowInv' /\ requests' = requests
      /\ \A b \in BatchJobs : jobs'[b] = jobs[b] \/ Forward(b)
  BY QueueForward, QueueKeepsRows DEF AdmissionInv
<1>2. (CountLimit /\ BytesLimit)'
  BY <1>1 DEF AdmissionInv, CountLimit, BytesLimit, Members
<1>3. WaitLimit'
  BY <1>1 DEF AdmissionInv, WaitLimit, Forward, Collecting, Members, FirstReceived,
     Received
<1>4. QED
  BY <1>1, <1>2, <1>3 DEF AdmissionInv

----------------------------------------------------------------------------
(* Admissions *)

\* What an admission of r with the values of req to job b does to the requests.
LEMMA LinkedRows ==
  ASSUME RowsTypeOK, NEW r \in Requests, ~Saved(r), NEW b \in Jobs,
         NEW now \in Nat, NEW review \in Reviews, NEW debounce \in Debounces,
         NEW bytes \in Sizes, NEW req, req = NewRequest(review, now, debounce, bytes),
         requests' = Linked(r, req, b)
  PROVE  /\ requests' \in [Requests -> Request]
         /\ \A q \in Requests : q # r => requests'[q] = requests[q]
         /\ requests'[r].saved /\ requests'[r].admitted /\ requests'[r].job = b
         /\ requests'[r].review = review /\ requests'[r].receivedAt = now
         /\ requests'[r].debounce = debounce
         /\ r \notin Members(requests, b)
         /\ Members(requests', b) = Members(requests, b) \cup {r}
         /\ \A c \in Jobs : c # b => Members(requests', c) = Members(requests, c)
<1> DEFINE row == [req EXCEPT !.job = b, !.admitted = TRUE]
<1>1. req \in Request
  BY BatchAssumption DEF NewRequest, Request
<1>2. /\ row \in Request
      /\ row.saved /\ row.admitted /\ row.job = b
      /\ row.review = review /\ row.receivedAt = now /\ row.debounce = debounce
  <2>1. row \in Request
    BY <1>1 DEF Request
  <2>2. /\ req.saved /\ req.review = review /\ req.receivedAt = now
        /\ req.debounce = debounce
    BY DEF NewRequest
  <2>3. QED
    BY <1>1, <2>1, <2>2 DEF Request
<1> HIDE DEF row
<1>3. /\ requests' \in [Requests -> Request]
      /\ \A q \in Requests : q # r => requests'[q] = requests[q]
      /\ requests'[r] = row
  <2>1. requests' = [requests EXCEPT ![r] = row]
    BY DEF Linked, row
  <2>2. QED
    BY <1>2, <2>1 DEF RowsTypeOK
<1>4. \A c \in Jobs : r \notin Members(requests, c)
  BY DEF Members, Saved
<1>5. QED
  BY <1>2, <1>3, <1>4 DEF Members


\* An admission links one request to one job b and changes no status: b is the
\* new batch of r, a batch that collects and has room, or the single job of r;
\* the other batches are ready no later than before, and those beside which a
\* batch is made for a debounced request are ready now.
AdmitsTo(r, req, b) ==
  /\ b \in Jobs
  /\ requests' = Linked(r, req, b)
  /\ jobs' \in [Jobs -> Job]
  /\ \A j \in Jobs : Exists(j) =>
       /\ jobs'[j].status = jobs[j].status /\ jobs'[j].review = jobs[j].review
       /\ jobs'[j].started = jobs[j].started
       /\ jobs'[j].retryCount = jobs[j].retryCount
       /\ j # b => jobs'[j].availableAt <= jobs[j].availableAt
  /\ \A j \in Jobs : ~Exists(j) /\ j # b => jobs'[j] = jobs[j]
  /\ Exists(b) /\ b \in BatchJobs =>
       b \in Candidates(req.review, req.receivedAt) /\ CanAppend(b, req)
  /\ ~Exists(b) =>
       /\ b = Batch(r) /\ jobs'[b].status = "queued" /\ ~jobs'[b].started
       /\ jobs'[b].review = req.review
       /\ req.debounce > 0 =>
            \A j \in Candidates(req.review, req.receivedAt) :
              jobs'[j].availableAt = req.receivedAt
  /\ b \in BatchJobs =>
       jobs'[b].availableAt \in ReadyTimes(requests', Members(requests', b))

\* What Sealed does to a row.
LEMMA SealedRows ==
  ASSUME jobs \in [Jobs -> Job], NEW now \in Nat, NEW req,
         NEW S \in SUBSET Candidates(req.review, now)
  PROVE  /\ Sealed(jobs, S, req, now) \in [Jobs -> Job]
         /\ \A j \in Jobs :
              LET row == Sealed(jobs, S, req, now)[j]
              IN  /\ row.status = jobs[j].status /\ row.review = jobs[j].review
                  /\ row.started = jobs[j].started
                  /\ row.retryCount = jobs[j].retryCount
                  /\ row.availableAt <= jobs[j].availableAt
                  /\ ~Exists(j) => row = jobs[j]
                  /\ req.debounce > 0 /\ j \in S => row.availableAt = now
<1>1. \A j \in S : jobs[j].availableAt > now /\ Exists(j)
  BY DEF Candidates, Collecting, Exists
<1>2. \A j \in Jobs : jobs[j] \in Job /\ jobs[j].availableAt \in Nat
  BY DEF Job
<1>3. Sealed(jobs, S, req, now) \in [Jobs -> Job]
  BY <1>2 DEF Sealed, Job
<1>4. \A j \in Jobs :
        Sealed(jobs, S, req, now)[j]
          = IF j \in S /\ req.debounce > 0 THEN [jobs[j] EXCEPT !.availableAt = now]
            ELSE jobs[j]
  BY DEF Sealed
<1> HIDE DEF Sealed
<1>5. QED
  BY <1>1, <1>2, <1>3, <1>4 DEF Job

LEMMA AppendAdmits ==
  ASSUME RowInv, NEW r \in Requests, ~Saved(r),
         NEW now \in Nat, NEW review \in Reviews, NEW debounce \in Debounces,
         NEW bytes \in Sizes, NEW req, req = NewRequest(review, now, debounce, bytes),
         Append(r, req, now)
  PROVE  \E b \in BatchJobs : AdmitsTo(r, req, b)
<1> DEFINE cands == Candidates(req.review, now)
           fitting == {c \in cands : CanAppend(c, req)}
<1>1. PICK b \in Newest(fitting) :
        /\ requests' = Linked(r, req, b)
        /\ \E passed \in PassedOver(b, req, cands) :
             jobs' \in Scheduled(Sealed(jobs, passed, req, now), b)
  BY DEF Append
<1>2. PICK passed \in PassedOver(b, req, cands) :
        jobs' \in Scheduled(Sealed(jobs, passed, req, now), b)
  BY <1>1
<1>3. /\ b \in BatchJobs /\ b \in Jobs /\ Exists(b) /\ CanAppend(b, req)
      /\ b \in Candidates(req.review, req.receivedAt)
  BY <1>1, JobNames DEF Newest, Candidates, Collecting, Exists, NewRequest
<1>4. passed \in SUBSET cands
  BY <1>2 DEF PassedOver
<1>5. /\ RowsTypeOK /\ jobs \in [Jobs -> Job]
  BY DEF RowInv, RowsTypeOK
<1> DEFINE rows == Sealed(jobs, passed, req, now)
<1>6. /\ rows \in [Jobs -> Job]
      /\ \A j \in Jobs :
           /\ rows[j].status = jobs[j].status /\ rows[j].review = jobs[j].review
           /\ rows[j].started = jobs[j].started
           /\ rows[j].retryCount = jobs[j].retryCount
           /\ rows[j].availableAt <= jobs[j].availableAt
           /\ ~Exists(j) => rows[j] = jobs[j]
  BY <1>4, <1>5, SealedRows
<1> HIDE DEF rows, cands, fitting
<1>7. PICK at \in ReadyTimes(requests', Members(requests', b)) :
        jobs' = [rows EXCEPT ![b].availableAt = at]
  BY <1>2 DEF Scheduled, rows
<1>8. at \in Nat
  <2>1. /\ requests' \in [Requests -> Request] /\ r \in Members(requests', b)
        /\ Members(requests', b) \in SUBSET Requests
    BY <1>1, <1>3, <1>5, LinkedRows DEF Members
  <2>2. QED
    BY <1>7, <2>1, ReadyBound
<1>9. /\ jobs' \in [Jobs -> Job] /\ jobs'[b] = [rows[b] EXCEPT !.availableAt = at]
      /\ \A j \in Jobs : j # b => jobs'[j] = rows[j]
  BY <1>3, <1>6, <1>7, <1>8 DEF Job
<1>10. /\ jobs'[b].status = rows[b].status /\ jobs'[b].review = rows[b].review
       /\ jobs'[b].started = rows[b].started /\ jobs'[b].availableAt = at
       /\ jobs'[b].retryCount = rows[b].retryCount
  BY <1>3, <1>6, <1>9 DEF Job
<1>11. QED
  BY <1>1, <1>3, <1>6, <1>7, <1>9, <1>10 DEF AdmitsTo

LEMMA CreateAdmits ==
  ASSUME RowInv, NEW r \in Requests, ~Saved(r),
         NEW now \in Nat, NEW review \in Reviews, NEW debounce \in Debounces,
         NEW bytes \in Sizes, NEW req, req = NewRequest(review, now, debounce, bytes),
         Create(r, req, now)
  PROVE  AdmitsTo(r, req, Batch(r)) /\ ~Exists(Batch(r))
<1> DEFINE cands == Candidates(req.review, now)
           b == Batch(r)
           rows == Sealed(jobs, cands, req, now)
<1>1. /\ RowsTypeOK /\ jobs \in [Jobs -> Job] /\ b \in Jobs /\ b \in BatchJobs
      /\ ~Exists(b)
  BY JobNames DEF RowInv, RowsTypeOK, Founded
<1>2. /\ requests' = Linked(r, req, b)
      /\ jobs' \in Scheduled([rows EXCEPT ![b] = NewBatch(req)], b)
  BY DEF Create
<1>3. /\ rows \in [Jobs -> Job]
      /\ \A j \in Jobs :
           /\ rows[j].status = jobs[j].status /\ rows[j].review = jobs[j].review
           /\ rows[j].started = jobs[j].started
           /\ rows[j].retryCount = jobs[j].retryCount
           /\ rows[j].availableAt <= jobs[j].availableAt
           /\ ~Exists(j) => rows[j] = jobs[j]
           /\ req.debounce > 0 /\ j \in cands => rows[j].availableAt = now
  BY <1>1, SealedRows
<1> HIDE DEF rows, cands, b
<1>4. PICK at \in ReadyTimes(requests', Members(requests', b)) :
        jobs' = [[rows EXCEPT ![b] = NewBatch(req)] EXCEPT ![b].availableAt = at]
  BY <1>2 DEF Scheduled
<1>5. at \in Nat
  <2>1. /\ requests' \in [Requests -> Request] /\ r \in Members(requests', b)
        /\ Members(requests', b) \in SUBSET Requests
    BY <1>1, <1>2, LinkedRows DEF Members
  <2>2. QED
    BY <1>4, <2>1, ReadyBound
<1>6. /\ NewBatch(req) \in Job /\ NewBatch(req).status = "queued"
      /\ ~NewBatch(req).started /\ NewBatch(req).review = review
  <2>1. /\ req.review = review /\ req.receivedAt = now /\ req.debounce = debounce
        /\ debounce \in Nat /\ MaxBatchWait \in Nat
    BY BatchAssumption DEF NewRequest
  <2>2. now + Earlier(MaxBatchWait, IF MaxBatchRequests = 1 \/ req.bytes >= MaxBatchBytes
                                      THEN 0 ELSE debounce) \in Nat
    BY <2>1 DEF Earlier
  <2>3. QED
    BY <2>1, <2>2 DEF NewBatch, NoJob, Job, JobStatus
<1>7. /\ jobs' \in [Jobs -> Job]
      /\ jobs'[b] = [NewBatch(req) EXCEPT !.availableAt = at]
      /\ \A j \in Jobs : j # b => jobs'[j] = rows[j]
  BY <1>1, <1>3, <1>4, <1>5, <1>6 DEF Job
<1>8. /\ jobs'[b].status = "queued" /\ ~jobs'[b].started
      /\ jobs'[b].review = req.review /\ jobs'[b].availableAt = at
  BY <1>6, <1>7 DEF Job, NewRequest
<1>9. req.debounce > 0 =>
        \A j \in Candidates(req.review, req.receivedAt) :
          jobs'[j].availableAt = req.receivedAt
  <2>1. req.receivedAt = now
    BY DEF NewRequest
  <2>2. \A j \in cands : j \in Jobs /\ j # b
    BY <1>1, JobNames DEF cands, Candidates, Collecting, Exists
  <2>3. QED
    BY <1>3, <1>7, <2>1, <2>2 DEF cands
<1>10. QED
  BY <1>1, <1>2, <1>3, <1>4, <1>7, <1>8, <1>9 DEF AdmitsTo, b

\* Every admission is of this kind.
LEMMA AdmitAdmits ==
  ASSUME RowInv, NEW r \in Requests, Admit(r)
  PROVE  /\ ~Saved(r) /\ clock' = clock
         /\ \E now \in CallTimes, review \in Reviews, debounce \in Debounces,
               bytes \in Sizes, b \in Jobs :
              AdmitsTo(r, NewRequest(review, now, debounce, bytes), b)
<1>1. PICK now \in CallTimes, review \in Reviews, debounce \in Debounces, bytes \in Sizes :
        LET req == NewRequest(review, now, debounce, bytes)
        IN  IF r \in Locals /\ Exists(Single(r))
              THEN LinkSingle(r, req)
              ELSE Append(r, req, now) \/ Create(r, req, now)
  BY DEF Admit
<1> DEFINE req == NewRequest(review, now, debounce, bytes)
<1>2. ~Saved(r) /\ clock' = clock /\ now \in Nat
  BY CallTimesBound DEF Admit, RowInv, CallTimesNat
<1>3. CASE r \in Locals /\ LinkSingle(r, req) /\ Exists(Single(r))
  <2>1. /\ Single(r) \in Jobs /\ Single(r) \notin BatchJobs
        /\ jobs \in [Jobs -> Job] /\ jobs' = jobs
        /\ requests' = Linked(r, req, Single(r))
    BY <1>3, JobNames DEF LinkSingle, Linked, RowInv, RowsTypeOK
  <2>2. \A j \in Jobs : jobs[j].availableAt \in Nat
    BY <2>1 DEF Job
  <2>3. AdmitsTo(r, req, Single(r))
    BY <1>3, <2>1, <2>2 DEF AdmitsTo
  <2>4. QED
    BY <1>2, <2>1, <2>3
<1>4. CASE Append(r, req, now)
  BY <1>2, <1>4, AppendAdmits, JobNames
<1>5. CASE Create(r, req, now)
  BY <1>2, <1>5, CreateAdmits, JobNames
<1>6. QED
  BY <1>1, <1>3, <1>4, <1>5


LEMMA AdmitKeepsRows ==
  ASSUME RowInv, clock' = clock, NEW r \in Requests, ~Saved(r),
         NEW now \in Nat, NEW review \in Reviews, NEW debounce \in Debounces,
         NEW bytes \in Sizes, NEW req, req = NewRequest(review, now, debounce, bytes),
         NEW b, AdmitsTo(r, req, b)
  PROVE  RowInv'
<1>1. /\ b \in Jobs /\ requests' = Linked(r, req, b) /\ jobs' \in [Jobs -> Job]
      /\ jobs \in [Jobs -> Job] /\ req.review = review
  BY DEF AdmitsTo, RowInv, RowsTypeOK, NewRequest
<1>2. /\ requests' \in [Requests -> Request]
      /\ \A q \in Requests : q # r => requests'[q] = requests[q]
      /\ requests'[r].saved /\ requests'[r].admitted /\ requests'[r].job = b
      /\ requests'[r].review = review
  BY <1>1, LinkedRows DEF RowInv
<1>3. RowsTypeOK'
  BY <1>1, <1>2 DEF RowInv, RowsTypeOK
<1>4. /\ \A j \in Jobs : Exists(j) =>
           /\ Exists(j)' /\ jobs'[j].status = jobs[j].status
           /\ jobs'[j].review = jobs[j].review /\ jobs'[j].started = jobs[j].started
      /\ \A j \in Jobs : ~Exists(j) /\ j # b => jobs'[j] = jobs[j]
      /\ Exists(b)' /\ b \in BatchJobs => jobs'[b].review = review
      /\ ~Exists(b) => b = Batch(r) /\ jobs'[b].status = "queued" /\ ~jobs'[b].started
      /\ Exists(b)'
  BY <1>1 DEF AdmitsTo, Candidates, Exists
<1>5. (UnsavedClean /\ SavedAdmitted)'
  BY <1>2 DEF RowInv, UnsavedClean, SavedAdmitted, Saved
<1>6. Founded'
  <2>1. ASSUME NEW q \in Requests, Exists(Batch(q))'
        PROVE  Saved(q)' /\ requests'[q].job = Batch(q)
    <3>1. CASE Exists(Batch(q))
      BY <1>2, <3>1 DEF RowInv, Founded, Saved
    <3>2. CASE ~Exists(Batch(q))
      <4>1. Batch(q) = b /\ b = Batch(r) /\ q = r
        BY <1>4, <2>1, <3>2, JobNames DEF Exists
      <4>2. QED
        BY <1>2, <4>1 DEF Saved
    <3>3. QED
      BY <3>1, <3>2
  <2>2. QED
    BY <2>1 DEF Founded
<1>7. (AbsentUnstarted /\ RunningStarted)'
  <2>1. SUFFICES ASSUME NEW c \in BatchJobs
                 PROVE  /\ ~Exists(c)' => ~jobs'[c].started
                        /\ jobs'[c].status = "in_progress" => jobs'[c].started
    BY DEF AbsentUnstarted, RunningStarted, Exists
  <2>2. /\ c \in Jobs
        /\ ~Exists(c) => ~jobs[c].started
        /\ jobs[c].status = "in_progress" => jobs[c].started
    BY JobNames DEF RowInv, AbsentUnstarted, RunningStarted
  <2>3. jobs[c].started \in BOOLEAN /\ jobs'[c].started \in BOOLEAN
    BY <1>1, <2>2 DEF Job
  <2>4. CASE Exists(c)
    BY <1>4, <2>2, <2>3, <2>4 DEF Exists
  <2>5. CASE ~Exists(c) /\ c # b
    BY <1>4, <2>2, <2>5 DEF Exists
  <2>6. CASE ~Exists(c) /\ c = b
    BY <1>4, <2>2, <2>6 DEF Exists
  <2>7. QED
    BY <2>4, <2>5, <2>6
<1>8. AdmittedHasJob'
  <2>1. ASSUME NEW q \in Requests, requests'[q].admitted, NEW j, j = requests'[q].job
        PROVE  /\ j # None /\ Exists(j)'
               /\ j \in BatchJobs => jobs'[j].review = requests'[q].review
    <3>1. CASE q = r
      BY <1>1, <1>2, <1>4, <2>1, <3>1, JobNames
    <3>2. CASE q # r
      <4>1. /\ j = requests[q].job /\ requests'[q] = requests[q]
            /\ j # None /\ Exists(j)
            /\ j \in BatchJobs => jobs[j].review = requests[q].review
        BY <1>2, <2>1, <3>2 DEF RowInv, AdmittedHasJob
      <4>2. j \in Jobs
        BY <4>1 DEF RowInv, RowsTypeOK, Request
      <4>3. QED
        BY <1>4, <4>1, <4>2
    <3>3. QED
      BY <3>1, <3>2
  <2>2. QED
    BY <2>1 DEF AdmittedHasJob, Exists
<1>9. QED
  BY <1>3, <1>5, <1>6, <1>7, <1>8 DEF RowInv

LEMMA AdmitKeepsLimits ==
  ASSUME AdmissionInv, clock' = clock, NEW r \in Requests, ~Saved(r),
         NEW now \in Nat, NEW review \in Reviews, NEW debounce \in Debounces,
         NEW bytes \in Sizes, NEW req, req = NewRequest(review, now, debounce, bytes),
         NEW b, AdmitsTo(r, req, b)
  PROVE  AdmissionInv'
<1>1. /\ RowInv /\ RowInv' /\ RowsTypeOK
  BY AdmitKeepsRows DEF AdmissionInv, RowInv
<1>2. /\ b \in Jobs /\ requests' \in [Requests -> Request]
      /\ r \notin Members(requests, b)
      /\ Members(requests', b) = Members(requests, b) \cup {r}
      /\ \A c \in Jobs : c # b => Members(requests', c) = Members(requests, c)
      /\ \A q \in Requests : q # r => requests'[q] = requests[q]
  BY <1>1, LinkedRows DEF AdmitsTo
<1>3. CountLimit'
  <2>1. ASSUME NEW c \in BatchJobs
        PROVE  /\ IsFiniteSet(Members(requests', c))
               /\ Cardinality(Members(requests', c)) <= MaxBatchRequests
    <3>1. /\ IsFiniteSet(Members(requests, c)) /\ c \in Jobs
          /\ Cardinality(Members(requests, c)) \in Nat
          /\ Cardinality(Members(requests, c)) <= MaxBatchRequests
          /\ MaxBatchRequests \in Nat /\ MaxBatchRequests >= 1
      BY BatchAssumption, JobNames, FS_CardinalityType DEF AdmissionInv, CountLimit
    <3>2. CASE c # b
      BY <1>2, <3>1, <3>2
    <3>3. CASE c = b
      <4>1. Cardinality(Members(requests, b)) + 1 <= MaxBatchRequests
        <5>1. CASE Exists(b)
          BY <3>1, <3>3, <5>1 DEF AdmitsTo, CanAppend
        <5>2. CASE ~Exists(b)
          <6>1. Members(requests, b) = {}
            BY <1>1, <5>2, MembersExist
          <6>2. QED
            BY <3>1, <6>1, FS_EmptySet
        <5>3. QED
          BY <5>1, <5>2
      <4>2. /\ IsFiniteSet(Members(requests, b) \cup {r})
            /\ Cardinality(Members(requests, b) \cup {r})
                 = Cardinality(Members(requests, b)) + 1
        BY <1>2, <3>1, <3>3, FS_AddElement
      <4>3. QED
        BY <1>2, <3>3, <4>1, <4>2
    <3>4. QED
      BY <3>2, <3>3
  <2>2. QED
    BY <2>1 DEF CountLimit
<1>4. BytesLimit'
  <2>1. ASSUME NEW c \in BatchJobs, Cardinality(Members(requests', c)) > 1
        PROVE  Bytes(requests', Members(requests', c)) <= MaxBatchBytes
    <3>1. /\ IsFiniteSet(Members(requests, c)) /\ c \in Jobs
          /\ \A q \in Members(requests, c) :
               /\ requests[q].bytes \in Nat
               /\ c # b \/ q # r => requests'[q].bytes = requests[q].bytes
      BY <1>1, <1>2, JobNames
         DEF AdmissionInv, CountLimit, RowsTypeOK, Request, Members, Saved
    <3>2. CASE c # b
      <4>1. Members(requests', c) = Members(requests, c)
        BY <1>2, <3>1, <3>2
      <4>2. Bytes(requests', Members(requests, c)) = Bytes(requests, Members(requests, c))
        BY <3>1, <3>2, SameBytes
      <4>3. QED
        BY <2>1, <4>1, <4>2 DEF AdmissionInv, BytesLimit
    <3>3. CASE c = b
      <4>1. Members(requests, b) # {} => Exists(b)
        BY <1>1, MembersExist
      <4>2. requests'[r].bytes = bytes /\ bytes \in Nat /\ req.bytes = bytes
        BY <1>2, BatchAssumption DEF AdmitsTo, Linked, NewRequest
      <4>3. Members(requests, b) # {}
              => requests'[r].bytes + Bytes(requests, Members(requests, b)) <= MaxBatchBytes
        BY <3>3, <4>1, <4>2 DEF AdmitsTo, CanAppend
      <4>4. \A q \in Members(requests, b) :
              requests[q].bytes \in Nat /\ requests'[q].bytes = requests[q].bytes
        BY <1>2, <3>1, <3>3
      <4>5. Cardinality(Members(requests, b) \cup {r}) > 1
        BY <1>2, <2>1, <3>3
      <4>6. Bytes(requests', Members(requests, b) \cup {r}) <= MaxBatchBytes
        BY <1>2, <3>1, <3>3, <4>2, <4>3, <4>4, <4>5, JoinKeepsBytes
      <4>7. QED
        BY <1>2, <3>3, <4>6
    <3>4. QED
      BY <3>2, <3>3
  <2>2. QED
    BY <2>1 DEF BytesLimit
<1>5. WaitLimit'
  <2>1. ASSUME NEW c \in BatchJobs, Collecting(c)', Members(requests', c) # {}
        PROVE  jobs'[c].availableAt
                 <= FirstReceived(requests', Members(requests', c)) + MaxBatchWait
    <3>1. CASE c = b
      BY <1>2, <2>1, <3>1, ReadyBound DEF AdmitsTo, Members
    <3>2. CASE c # b
      <4>1. /\ c \in Jobs /\ Members(requests', c) = Members(requests, c)
            /\ \A q \in Members(requests, c) : q \in Requests /\ q # r
        BY <1>2, <3>2, JobNames DEF Members, Saved
      <4>2. Exists(c)
        BY <1>1, <2>1, <4>1, MembersExist
      <4>3. /\ Collecting(c) /\ jobs'[c].availableAt <= jobs[c].availableAt
        BY <2>1, <3>2, <4>1, <4>2 DEF AdmitsTo, Collecting
      <4>4. jobs[c].availableAt <= FirstReceived(requests, Members(requests, c)) + MaxBatchWait
        BY <1>1, <2>1, <4>1, <4>3, AdmittedMembers DEF AdmissionInv, WaitLimit
      <4>5. /\ FirstReceived(requests', Members(requests', c))
                 = FirstReceived(requests, Members(requests, c))
        BY <1>2, <4>1, SameFirst
      <4>6. /\ jobs'[c].availableAt \in Nat /\ jobs[c].availableAt \in Nat
            /\ FirstReceived(requests, Members(requests, c)) \in Nat
            /\ MaxBatchWait \in Nat
        BY <1>1, <2>1, <4>1, FirstReceivedType, BatchAssumption
           DEF RowInv, RowsTypeOK, Job, Members
      <4>7. QED
        BY <4>3, <4>4, <4>5, <4>6
    <3>3. QED
      BY <3>1, <3>2
  <2>2. \A c : {q \in Members(requests', c) : requests'[q].admitted} = Members(requests', c)
    BY <1>1 DEF RowInv, SavedAdmitted, Members, Saved
  <2>3. QED
    BY <2>1, <2>2 DEF WaitLimit, Collecting
<1>6. QED
  BY <1>1, <1>3, <1>4, <1>5 DEF AdmissionInv

----------------------------------------------------------------------------
(* The invariant *)

LEMMA AdmissionInvInit ==
  ASSUME Init
  PROVE  AdmissionInv
<1>1. /\ clock = 0 /\ requests = [r \in Requests |-> NoRequest]
      /\ jobs = [j \in Jobs |-> NoJob]
  BY DEF Init, RowsInit
<1>2. RowsTypeOK
  BY <1>1 DEF RowsTypeOK, NoRequest, Request, NoJob, Job, JobStatus
<1>3. RowInv
  BY <1>1, <1>2, JobNames
     DEF RowInv, UnsavedClean, SavedAdmitted, Founded, AbsentUnstarted, RunningStarted,
         AdmittedHasJob, Saved, Exists, NoRequest, NoJob
<1>4. \A b : Members(requests, b) = {}
  BY <1>1 DEF Members, NoRequest
<1>5. CountLimit /\ BytesLimit /\ WaitLimit
  <2>1. /\ IsFiniteSet({}) /\ Cardinality({}) = 0 /\ 0 <= MaxBatchRequests
    BY FS_EmptySet, BatchAssumption
  <2>2. CountLimit
    BY <1>4, <2>1 DEF CountLimit
  <2>3. WaitLimit
    BY <1>4 DEF WaitLimit
  <2>4. BytesLimit
    BY <1>4, <2>1 DEF BytesLimit
  <2>5. QED
    BY <2>2, <2>3, <2>4
<1>6. QED
  BY <1>3, <1>5 DEF AdmissionInv

LEMMA NextSteps ==
  ASSUME Next
  PROVE  QueueStep \/ \E r \in Requests : Admit(r)
BY DEF Next, QueueStep

LEMMA AdmissionInvNext ==
  ASSUME AdmissionInv, [Next]_vars
  PROVE  AdmissionInv'
<1>1. CASE UNCHANGED vars
  BY <1>1 DEF vars, AdmissionInv, RowInv, RowsTypeOK, UnsavedClean, SavedAdmitted,
     Founded, AbsentUnstarted, RunningStarted, AdmittedHasJob, CountLimit, BytesLimit, WaitLimit,
     Saved, Exists, Members, FirstReceived, Received, Collecting
<1>2. CASE QueueStep
  BY <1>2, QueueKeepsLimits
<1>3. ASSUME NEW r \in Requests, Admit(r)
      PROVE  AdmissionInv'
  <2>1. /\ RowInv /\ ~Saved(r) /\ clock' = clock
    BY <1>3, AdmitAdmits DEF AdmissionInv
  <2>2. PICK now \in CallTimes, review \in Reviews, debounce \in Debounces,
             bytes \in Sizes, b \in Jobs :
          AdmitsTo(r, NewRequest(review, now, debounce, bytes), b)
    BY <1>3, AdmitAdmits DEF AdmissionInv
  <2>3. now \in Nat
    BY <2>1, CallTimesBound DEF RowInv, CallTimesNat
  <2>4. QED
    BY <2>1, <2>2, <2>3, AdmitKeepsLimits
<1>4. QED
  BY <1>1, <1>2, <1>3, NextSteps

\* The rows keep their types, whatever the order of admissions, claims and ends.
THEOREM RowTypes == Spec => []RowsTypeOK
<1>1. AdmissionInv => RowsTypeOK
  BY DEF AdmissionInv, RowInv
<1>2. QED
  BY <1>1, AdmissionInvInit, AdmissionInvNext, PTL DEF Spec

\* An admitted request always has a job that exists, of its own review when the
\* job is a batch: no admission loses a comment.
THEOREM NothingLeftBehind == Spec => []AdmittedHasJob
<1>1. AdmissionInv => AdmittedHasJob
  BY DEF AdmissionInv, RowInv
<1>2. QED
  BY <1>1, AdmissionInvInit, AdmissionInvNext, PTL DEF Spec

\* No batch ever has more requests than MAX_BATCH_REQUESTS, nor, unless a
\* request is alone in it, more bytes than MAX_BATCH_BYTES (canAppendRequest).
THEOREM BatchesLimited == Spec => []BatchLimits
<1>1. AdmissionInv => BatchLimits
  BY BothLimits DEF AdmissionInv
<1>2. QED
  BY <1>1, AdmissionInvInit, AdmissionInvNext, PTL DEF Spec

\* A batch that still collects is ready within the maximum wait of its first
\* request, however old the clocks of the callers are.
THEOREM WaitLimited == Spec => []WaitLimit
<1>1. AdmissionInv => WaitLimit
  BY DEF AdmissionInv
<1>2. QED
  BY <1>1, AdmissionInvInit, AdmissionInvNext, PTL DEF Spec


----------------------------------------------------------------------------
(* The promise about batches *)

LEMMA QueueRefines ==
  ASSUME AdmissionInv, QueueStep
  PROVE  [Batches!Next]_(Batches!batchVars)
<1>1. /\ RowInv /\ RowInv' /\ requests' = requests /\ OneStarts
      /\ \A b \in BatchJobs : jobs'[b] = jobs[b] \/ Forward(b)
  BY QueueForward, QueueKeepsRows DEF AdmissionInv
<1>2. /\ \A r \in Requests : OwnerOf(r)' = OwnerOf(r)
      /\ \A b \in BatchJobs :
           StartedOf(b) \in BOOLEAN /\ StartedOf(b)' \in BOOLEAN
  BY <1>1, JobNames DEF OwnerOf, StartedOf, RowInv, RowsTypeOK, Job
<1>3. CASE \A b \in BatchJobs : StartedOf(b)' = StartedOf(b)
  BY <1>2, <1>3, AbstractSteps
<1>4. ASSUME NEW b \in BatchJobs, StartedOf(b)' # StartedOf(b)
      PROVE  [Batches!Next]_(Batches!batchVars)
  <2>1. /\ Exists(b)
        /\ \A c \in BatchJobs : c # b => StartedOf(c)' = StartedOf(c)
    BY <1>1, <1>4 DEF OneStarts, StartedOf
  <2>2. ~StartedOf(b) /\ StartedOf(b)' = TRUE
    BY <1>1, <1>2, <1>4 DEF Forward, StartedOf
  <2>3. \E r \in Requests : OwnerOf(r) = b
    BY <1>1, <2>1, JobNames DEF RowInv, Founded, OwnerOf
  <2>4. QED
    BY <1>2, <2>1, <2>2, <2>3, AbstractSteps
<1>5. QED
  BY <1>3, <1>4

LEMMA AdmitRefines ==
  ASSUME AdmissionInv, NEW r \in Requests, Admit(r)
  PROVE  [Batches!Next]_(Batches!batchVars)
<1>1. /\ RowInv /\ RowsTypeOK /\ ~Saved(r)
  BY AdmitAdmits DEF AdmissionInv, RowInv
<1>2. PICK now \in CallTimes, review \in Reviews, debounce \in Debounces,
           bytes \in Sizes, b \in Jobs :
        AdmitsTo(r, NewRequest(review, now, debounce, bytes), b)
  BY <1>1, AdmitAdmits
<1>3. now \in Nat
  BY <1>1, CallTimesBound DEF CallTimesNat
<1>4. /\ \A q \in Requests : q # r => requests'[q] = requests[q]
      /\ requests'[r].job = b /\ requests[r].job = None
  BY <1>1, <1>2, <1>3, LinkedRows DEF AdmitsTo, RowInv, UnsavedClean
<1>5. /\ \A q \in Requests : q # r => OwnerOf(q)' = OwnerOf(q)
      /\ OwnerOf(r) = None /\ OwnerOf(r)' = IF b \in BatchJobs THEN b ELSE None
  BY <1>4, JobNames DEF OwnerOf
<1>6. \A c \in BatchJobs : StartedOf(c)' = StartedOf(c)
  <2>1. SUFFICES ASSUME NEW c \in BatchJobs
                 PROVE  jobs'[c].started = jobs[c].started
    BY DEF StartedOf
  <2>2. /\ c \in Jobs /\ jobs[c].started \in BOOLEAN /\ jobs'[c].started \in BOOLEAN
    BY <1>1, <1>2, JobNames DEF RowsTypeOK, AdmitsTo, Job
  <2>3. CASE Exists(c)
    BY <1>2, <2>2, <2>3 DEF AdmitsTo
  <2>4. CASE ~Exists(c)
    BY <1>1, <1>2, <2>2, <2>4 DEF AdmitsTo, RowInv, AbsentUnstarted
  <2>5. QED
    BY <2>3, <2>4
<1>7. CASE b \in BatchJobs
  <2>1. ~StartedOf(b)
    BY <1>1, <1>2, <1>7
       DEF AdmitsTo, Candidates, Collecting, RowInv, AbsentUnstarted, StartedOf
  <2>2. QED
    BY <1>5, <1>6, <1>7, <2>1, AbstractSteps
<1>8. CASE b \notin BatchJobs
  <2>1. \A q \in Requests : OwnerOf(q)' = OwnerOf(q)
    BY <1>5, <1>8
  <2>2. QED
    BY <1>6, <2>1, AbstractSteps
<1>9. QED
  BY <1>7, <1>8

\* The adapter implements the abstract admission: a request joins one batch and
\* stays in it, and a batch starts with a request and is closed from then on.
THEOREM BatchesImplemented == Spec => ImplementsCommentBatches
<1>1. Init => Batches!Init
  <2>1. ASSUME Init
        PROVE  /\ \A r \in Requests : requests[r].job = None
               /\ \A b \in BatchJobs : jobs[b].started = FALSE
    BY <2>1, JobNames DEF Init, RowsInit, NoRequest, NoJob
  <2>2. None \notin BatchJobs
    BY JobNames
  <2>3. QED
    BY <2>1, <2>2 DEF Batches!Init
<1>2. AdmissionInv /\ [Next]_vars => [Batches!Next]_(Batches!batchVars)
  <2>1. ASSUME UNCHANGED vars
        PROVE  UNCHANGED (Batches!batchVars)
    BY <2>1 DEF vars, Batches!batchVars
  <2>2. QED
    BY <2>1, NextSteps, QueueRefines, AdmitRefines
<1>3. QED
  BY <1>1, <1>2, AdmissionInvInit, AdmissionInvNext, PTL
     DEF Spec, ImplementsCommentBatches, Batches!Spec


----------------------------------------------------------------------------
(* One open batch *)

Open(b) == Collecting(b) /\ jobs[b].availableAt > clock

LEMMA OpenShrinks ==
  ASSUME OneOpenBatch, \A b \in BatchJobs : jobs'[b].review = jobs[b].review \/ ~Open(b)',
         \A b \in BatchJobs : Open(b)' => Open(b)
  PROVE  OneOpenBatch'
BY DEF OneOpenBatch, Open, Collecting

LEMMA QueueKeepsOneOpen ==
  ASSUME RowInv, OneOpenBatch, QueueStep
  PROVE  OneOpenBatch'
<1>1. /\ RowsTypeOK' /\ RowsTypeOK
      /\ \A b \in BatchJobs : jobs'[b] = jobs[b] \/ Forward(b)
  BY QueueForward DEF RowInv
<1>2. clock' >= clock
  BY <1>1 DEF QueueStep, Tick, SubmitLocal, ClaimNext, Queue, RowsTypeOK
<1>3. \A b \in BatchJobs : Open(b)' => jobs'[b] = jobs[b]
  BY <1>1 DEF Open, Forward
<1>4. \A b \in BatchJobs : jobs[b].availableAt \in Nat
  BY <1>1, JobNames DEF RowsTypeOK, Job
<1>5. \A b \in BatchJobs : Open(b)' => Open(b)
  BY <1>1, <1>2, <1>3, <1>4 DEF Open, Collecting, RowsTypeOK
<1>6. QED
  BY <1>3, <1>5, OpenShrinks

LEMMA AdmitKeepsOneOpen ==
  ASSUME MaxSkew = 0, RowInv, OneOpenBatch, NEW r \in Requests, Admit(r)
  PROVE  OneOpenBatch'
<1>1. /\ RowsTypeOK /\ ~Saved(r) /\ clock' = clock /\ clock \in Nat
      /\ jobs \in [Jobs -> Job]
  BY AdmitAdmits DEF RowInv, RowsTypeOK
<1>2. PICK now \in CallTimes, review \in Reviews, debounce \in Debounces,
           bytes \in Sizes, b \in Jobs :
        AdmitsTo(r, NewRequest(review, now, debounce, bytes), b)
  BY AdmitAdmits
<1> DEFINE req == NewRequest(review, now, debounce, bytes)
<1>3. /\ now = clock /\ req.receivedAt = clock /\ req.review = review
      /\ req.debounce = debounce /\ debounce \in Nat
  BY <1>1, BatchAssumption DEF CallTimes, NewRequest
<1>4. /\ AdmitsTo(r, req, b) /\ jobs' \in [Jobs -> Job]
      /\ requests' = Linked(r, req, b)
  BY <1>2 DEF AdmitsTo
<1>5. \A c \in BatchJobs : c # b =>
        /\ Open(c)' => Open(c)
        /\ jobs'[c].review = jobs[c].review
  <2>1. ASSUME NEW c \in BatchJobs, c # b
        PROVE  (Open(c)' => Open(c)) /\ jobs'[c].review = jobs[c].review
    <3>1. /\ c \in Jobs
          /\ jobs[c].availableAt \in Nat /\ jobs'[c].availableAt \in Nat
      BY <1>1, <1>4, JobNames DEF Job
    <3>2. CASE Exists(c)
      BY <1>1, <1>4, <2>1, <3>1, <3>2 DEF AdmitsTo, Open, Collecting
    <3>3. CASE ~Exists(c)
      BY <1>1, <1>4, <2>1, <3>1, <3>3 DEF AdmitsTo, Open, Collecting
    <3>4. QED
      BY <3>2, <3>3
  <2>2. QED
    BY <2>1
<1>6. CASE Exists(b) \/ b \notin BatchJobs
  <2>1. b \in BatchJobs => Open(b) /\ jobs'[b].review = jobs[b].review
    BY <1>3, <1>4, <1>6 DEF AdmitsTo, Candidates, Open
  <2>2. QED
    BY <1>5, <2>1, OpenShrinks
<1>7. CASE ~Exists(b) /\ b \in BatchJobs /\ debounce = 0
  <2>1. ~Open(b)'
    <3>1. /\ requests' \in [Requests -> Request] /\ requests'[r].receivedAt = now
          /\ requests'[r].debounce = debounce
          /\ Members(requests', b) = Members(requests, b) \cup {r}
      BY <1>1, <1>2, <1>3, <1>4, LinkedRows
    <3>2. Members(requests', b) = {r}
      BY <1>7, <3>1, MembersExist
    <3>3. jobs'[b].availableAt \in ReadyTimes(requests', {r})
      BY <1>4, <1>7, <3>2 DEF AdmitsTo
    <3>4. /\ jobs'[b].availableAt \in Nat
          /\ jobs'[b].availableAt <= requests'[r].receivedAt + requests'[r].debounce
      BY <3>1, <3>3, ReadyBound
    <3>5. QED
      BY <1>1, <1>3, <1>7, <3>1, <3>4 DEF Open
  <2>2. QED
    BY <1>5, <2>1, OpenShrinks
<1>8. CASE ~Exists(b) /\ b \in BatchJobs /\ debounce # 0
  <2>1. /\ jobs'[b].review = review
        /\ \A c \in Candidates(review, clock) : jobs'[c].availableAt = clock
    BY <1>3, <1>4, <1>8 DEF AdmitsTo
  <2>2. ASSUME NEW c \in BatchJobs, c # b, Open(c)', jobs'[c].review = review
        PROVE  FALSE
    <3>1. c \in Candidates(review, clock)
      BY <1>5, <2>2 DEF Candidates, Open
    <3>2. QED
      BY <1>1, <2>1, <2>2, <3>1 DEF Open
  <2>3. QED
    <3>1. SUFFICES ASSUME NEW c \in BatchJobs, NEW d \in BatchJobs, Open(c)', Open(d)',
                          jobs'[c].review = jobs'[d].review
                   PROVE  c = d
      BY DEF OneOpenBatch, Open, Collecting
    <3>2. CASE c = b \/ d = b
      BY <2>1, <2>2, <3>1, <3>2
    <3>3. CASE c # b /\ d # b
      BY <1>5, <3>1, <3>3 DEF OneOpenBatch, Open
    <3>4. QED
      BY <3>2, <3>3
<1>9. QED
  BY <1>6, <1>7, <1>8

\* While no admission carries an older reading of the clock than the last one,
\* as in one process, which reads it in the step of the transaction, the comments
\* of a review never wait in two batches side by side.
THEOREM OneBatchAtATime ==
  ASSUME MaxSkew = 0
  PROVE  Spec => []OneOpenBatch
<1>1. Init => OneOpenBatch
  BY JobNames DEF Init, RowsInit, OneOpenBatch, Collecting, NoJob
<1>2. AdmissionInv /\ OneOpenBatch /\ [Next]_vars => OneOpenBatch'
  <2>1. CASE UNCHANGED vars
    BY <2>1 DEF vars, OneOpenBatch, Collecting
  <2>2. ASSUME AdmissionInv, OneOpenBatch, QueueStep
        PROVE  OneOpenBatch'
    BY <2>2, QueueKeepsOneOpen DEF AdmissionInv
  <2>3. ASSUME AdmissionInv, OneOpenBatch, NEW r \in Requests, Admit(r)
        PROVE  OneOpenBatch'
    BY <2>3, AdmitKeepsOneOpen DEF AdmissionInv
  <2>4. QED
    BY <2>1, <2>2, <2>3, NextSteps
<1>3. QED
  BY <1>1, <1>2, AdmissionInvInit, AdmissionInvNext, PTL DEF Spec

=============================================================================
