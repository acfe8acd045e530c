-------------------------- MODULE InteractionBatches --------------------------
(***************************************************************************)
(* The rows that collect comment requests into batches, the rules of       *)
(* interaction-batches.ts about them, and what the rest of the queue does  *)
(* to a batch (InteractionJobStore and JobRunner model that in full): it   *)
(* is claimed, retried, given back, settled or expired.                    *)
(*                                                                         *)
(* A request is named by its dedupe key.  Two jobs can carry a key: the    *)
(* batch whose id is derived from the id of the request that created it,   *)
(* and the single job that the command line makes of a comment.            *)
(***************************************************************************)
EXTENDS Integers, FiniteSets, FiniteSetsExt

CONSTANTS
  Requests,          \* request ids, one per tenant and dedupe key
  Reviews,           \* pairs of a tenant and a code review
  Debounces,         \* the debounceMs a process may be configured with
  Sizes,             \* requestBytes of a request
  Locals,            \* bound: the keys that the command line may submit
  MaxBatchWait,      \* MAX_BATCH_WAIT_MS
  MaxBatchRequests,  \* MAX_BATCH_REQUESTS
  MaxBatchBytes,     \* MAX_BATCH_BYTES
  MaxAge,            \* REVIEWPHIN_MAX_QUEUED_JOB_AGE_MS
  MaxRetries,        \* MAX_JOB_RETRIES
  Backoff,           \* bound: the largest backoff of a retry
  MaxSkew,           \* bound: how old the `now' of a call may be
  MaxClock,          \* bound: the last instant modelled
  None               \* SQL NULL of a job id or a review

ASSUME BatchAssumption ==
  /\ Debounces \subseteq Nat /\ Sizes \subseteq Nat /\ Locals \subseteq Requests
  /\ MaxBatchWait \in Nat /\ MaxBatchRequests \in Nat \ {0}
  /\ MaxBatchBytes \in Nat /\ MaxAge \in Nat /\ MaxRetries \in Nat
  /\ Backoff \in Nat /\ MaxSkew \in Nat /\ MaxClock \in Nat
  /\ None \notin Requests /\ None \notin Reviews
  /\ \A r \in Requests : None # <<r, "comment">> /\ None # <<r, "single">>

VARIABLES
  clock,             \* wall-clock time
  requests,          \* the interaction_requests rows
  jobs               \* the interaction_jobs rows

rowVars == <<requests, jobs>>

Batch(r) == <<r, "comment">>

Single(r) == <<r, "single">>

BatchJobs == {Batch(r) : r \in Requests}

Jobs == BatchJobs \cup {Single(r) : r \in Locals}

----------------------------------------------------------------------------
(* Rows *)

Request ==
  [saved: BOOLEAN, review: Reviews \cup {None}, receivedAt: Nat, debounce: Nat,
   bytes: Nat, job: Jobs \cup {None}, admitted: BOOLEAN]

JobStatus == {"absent", "queued", "in_progress", "settled", "expired"}

Job ==
  [status: JobStatus, review: Reviews \cup {None}, enqueuedAt: Nat,
   availableAt: Nat, started: BOOLEAN, retryCount: Nat]

NoRequest ==
  [saved |-> FALSE, review |-> None, receivedAt |-> 0, debounce |-> 0,
   bytes |-> 0, job |-> None, admitted |-> FALSE]

NoJob ==
  [status |-> "absent", review |-> None, enqueuedAt |-> 0, availableAt |-> 0,
   started |-> FALSE, retryCount |-> 0]

RowsTypeOK ==
  /\ clock \in Nat
  /\ requests \in [Requests -> Request]
  /\ jobs \in [Jobs -> Job]

RowsInit ==
  /\ clock = 0
  /\ requests = [r \in Requests |-> NoRequest]
  /\ jobs = [j \in Jobs |-> NoJob]

----------------------------------------------------------------------------
(* interaction-batches.ts *)

Exists(j) == jobs[j].status # "absent"

Saved(r) == requests[r].saved

\* createInteractionRequest: linked to no job yet.
NewRequest(review, now, debounce, bytes) ==
  [saved |-> TRUE, review |-> review, receivedAt |-> now,
   debounce |-> debounce, bytes |-> bytes, job |-> None, admitted |-> FALSE]

Members(rows, b) == {r \in Requests : rows[r].saved /\ rows[r].job = b}

Bytes(rows, S) == MapThenSumSet(LAMBDA r : rows[r].bytes, S)

Received(rows, S) == {rows[r].receivedAt : r \in S}

FirstReceived(rows, S) == Min(Received(rows, S))

Full(rows, S) ==
  \/ Cardinality(S) >= MaxBatchRequests
  \/ Bytes(rows, S) >= MaxBatchBytes

Earlier(m, n) == IF m <= n THEN m ELSE n

\* Mutant: only the quiet period counts.
ReadyTimesUncapped(rows, S) ==
  {rows[r].receivedAt + (IF Full(rows, S) THEN 0 ELSE rows[r].debounce) :
     r \in {q \in S : rows[q].receivedAt = Max(Received(rows, S))}}

\* Mutant: the quiet period is counted backwards.
ReadyTimesBefore(rows, S) ==
  {rows[r].receivedAt - (IF Full(rows, S) THEN 0 ELSE rows[r].debounce) :
     r \in {q \in S : rows[q].receivedAt = Max(Received(rows, S))}}

\* batchReadyAt: the quiet period after the last request, or nothing if the
\* batch is full, but within the wait of the first one.  Of several requests
\* received last, the one with the greatest id counts, and ids are arbitrary.
ReadyTimes(rows, S) ==
  {Earlier(FirstReceived(rows, S) + MaxBatchWait,
           rows[r].receivedAt + (IF Full(rows, S) THEN 0 ELSE rows[r].debounce)) :
     r \in {q \in S : rows[q].receivedAt = Max(Received(rows, S))}}

\* Mutant: a batch that is queued again after an attempt collects once more.
CollectingQueued(b) == jobs[b].status = "queued"

\* The batch still collects: no attempt has seen it.
Collecting(b) ==
  jobs[b].status = "queued" /\ ~jobs[b].started /\ jobs[b].retryCount = 0

\* Mutant: the review is not compared.
CandidatesOfAnyReview(review, now) ==
  {b \in BatchJobs : Collecting(b) /\ jobs[b].availableAt > now}

\* The jobs that an admission at instant now of a request for review examines.
Candidates(review, now) ==
  {b \in BatchJobs : Collecting(b) /\ jobs[b].review = review
                    /\ jobs[b].availableAt > now}

\* Mutant: one request too many.
CanAppendOneMore(b, req) ==
  LET members == Members(requests, b)
  IN  /\ req.debounce > 0
      /\ Cardinality(members) <= MaxBatchRequests
      /\ req.bytes + Bytes(requests, members) <= MaxBatchBytes

\* Mutant: the bytes of the request itself do not count.
CanAppendOfAnySize(b, req) ==
  LET members == Members(requests, b)
  IN  /\ req.debounce > 0
      /\ Cardinality(members) < MaxBatchRequests
      /\ Bytes(requests, members) <= MaxBatchBytes

\* canAppendRequest, for one of the candidates.
CanAppend(b, req) ==
  LET members == Members(requests, b)
  IN  /\ req.debounce > 0
      /\ Cardinality(members) < MaxBatchRequests
      /\ req.bytes + Bytes(requests, members) <= MaxBatchBytes

\* The newest of a set of candidates come first; ties are in any order.
Newest(S) == {b \in S : \A c \in S : jobs[c].enqueuedAt <= jobs[b].enqueuedAt}

\* createBatchJob; batchReadyAt of the request alone.
NewBatch(req) ==
  LET full == MaxBatchRequests = 1 \/ req.bytes >= MaxBatchBytes
      quiet == IF full THEN 0 ELSE req.debounce
  IN  [NoJob EXCEPT
         !.status = "queued", !.review = req.review,
         !.enqueuedAt = req.receivedAt,
         !.availableAt = req.receivedAt + Earlier(MaxBatchWait, quiet)]

----------------------------------------------------------------------------
(* What the rest of the queue does *)

\* The readings of the clock that a call may carry.
CallTimes == {n \in 0..clock : n + MaxSkew >= clock}

Tick ==
  /\ clock < MaxClock
  /\ clock' = clock + 1
  /\ UNCHANGED rowVars

\* The command line makes a single job of comment r (createOrGetInteractionJob,
\* which looks for a job with that very dedupe key).
SubmitLocal(r) ==
  /\ ~Exists(Single(r))
  /\ jobs' = [jobs EXCEPT ![Single(r)] = [NoJob EXCEPT !.status = "queued",
                                                       !.enqueuedAt = clock,
                                                       !.availableAt = clock]]
  /\ UNCHANGED <<clock, requests>>

Running(rows) == {j \in Jobs : rows[j].status = "in_progress"}

\* What a claim at instant now makes of a job whose lease has expired.
LeaseLost(job, now) ==
  [job EXCEPT !.status = IF job.retryCount < MaxRetries THEN "queued" ELSE "settled",
              !.retryCount = @ + 1,
              !.availableAt = IF job.retryCount < MaxRetries THEN now ELSE @]

Eligible(rows, now) ==
  {j \in Jobs : rows[j].status = "queued" /\ rows[j].availableAt <= now
                /\ rows[j].enqueuedAt + MaxAge >= now}

\* The claim takes an earliest job of S, by available_at, then enqueued_at.
FirstOf(rows, S) ==
  {j \in S : \A k \in S :
     \/ rows[j].availableAt < rows[k].availableAt
     \/ /\ rows[j].availableAt = rows[k].availableAt
        /\ rows[j].enqueuedAt <= rows[k].enqueuedAt}

Claimed(rows, j) ==
  [rows EXCEPT ![j].status = "in_progress", ![j].started = TRUE]

Expire(j) ==
  /\ jobs[j].status = "queued" /\ jobs[j].enqueuedAt + MaxAge < clock
  /\ jobs' = [jobs EXCEPT ![j].status = "expired"]
  /\ UNCHANGED requests

\* An attempt completes, cancels or fails its job.
Settle(j) ==
  /\ jobs[j].status = "in_progress"
  /\ jobs' = [jobs EXCEPT ![j].status = "settled"]
  /\ UNCHANGED requests

\* A failed attempt puts its job back.
Retry(j) ==
  /\ jobs[j].status = "in_progress" /\ jobs[j].retryCount < MaxRetries
  /\ \E delay \in 0..Backoff :
       jobs' = [jobs EXCEPT ![j].status = "queued", ![j].retryCount = @ + 1,
                            ![j].availableAt = clock + delay]
  /\ UNCHANGED requests

\* A stopping runner gives its claim back; started_at stays set.
Release(j) ==
  /\ jobs[j].status = "in_progress"
  /\ jobs' = [jobs EXCEPT ![j].status = "queued"]
  /\ UNCHANGED requests

AttemptEnds(j) == Settle(j) \/ Retry(j) \/ Release(j)

----------------------------------------------------------------------------
(* Properties of the rows, for the admissions of both kinds of adapter *)

\* Nothing admitted is left behind: an admitted request has a job, of its own
\* review if the job is a batch.
AdmittedHasJob ==
  \A r \in Requests : requests[r].admitted =>
    /\ requests[r].job # None /\ Exists(requests[r].job)
    /\ requests[r].job \in BatchJobs
         => jobs[requests[r].job].review = requests[r].review

\* The limits of a batch hold whatever the order of requests and claims; only a
\* request alone in its batch may exceed the bytes.
BatchLimits ==
  \A b \in BatchJobs :
    LET members == Members(requests, b)
    IN  /\ Cardinality(members) <= MaxBatchRequests
        /\ Cardinality(members) > 1 => Bytes(requests, members) <= MaxBatchBytes

\* Requests are not held back: a batch that still collects is ready within the
\* maximum wait of its first request.
WaitLimit ==
  \A b \in BatchJobs :
    LET members == {r \in Members(requests, b) : requests[r].admitted}
    IN  Collecting(b) /\ members # {} =>
          jobs[b].availableAt <= FirstReceived(requests, members) + MaxBatchWait

\* At most one batch of a review collects at any time, so its requests do not
\* scatter over batches that wait side by side.  Only where no admission carries
\* an older reading of the clock than the last one (MaxSkew = 0, one process): a
\* late one finds a batch open that another has sealed, and opens it again.
OneOpenBatch ==
  \A b, c \in BatchJobs :
    /\ Collecting(b) /\ jobs[b].availableAt > clock
    /\ Collecting(c) /\ jobs[c].availableAt > clock
    /\ jobs[b].review = jobs[c].review
    => b = c

\* Both adapters keep the promise to the worker, one in a transaction and one in
\* staged writes: membership is permanent and a claimed batch is closed, also when
\* it is queued again by a retry, a lost lease or a stop.
Batches == INSTANCE CommentBatches WITH
  Batches <- BatchJobs,
  owner <- [r \in Requests |->
              IF requests[r].job \in BatchJobs THEN requests[r].job ELSE None],
  started <- [b \in BatchJobs |-> jobs[b].started]

ImplementsCommentBatches == Batches!Spec

\* A comment is handled once, "comment submissions use the same deduplication
\* identity as webhook submissions": no key has a single job and a batch.
OneJobPerComment ==
  \A r \in Locals :
    Exists(Single(r)) /\ requests[r].admitted => requests[r].job = Single(r)

=============================================================================
