------------------------ MODULE InteractionAdmission ------------------------
(***************************************************************************)
(* Admission of comment requests by the SQLite adapter: deduplication,     *)
(* choice of a batch, sealing of the batches that could not take the       *)
(* request, and scheduling, all inside one BEGIN IMMEDIATE transaction.    *)
(* Any number of processes admit, claim and expire concurrently; each of   *)
(* these is one atomic step, taken with a `now' that the caller read       *)
(* before.  The redelivery of an admitted request changes no row.          *)
(***************************************************************************)
EXTENDS InteractionBatches

vars == <<clock, requests, jobs>>

Init == RowsInit

----------------------------------------------------------------------------

\* The command line has made a job of the comment: link that one, whatever its
\* state.
LinkSingle(r, req) ==
  /\ requests' = [requests EXCEPT ![r] = [req EXCEPT !.job = Single(r),
                                                   !.admitted = TRUE]]
  /\ UNCHANGED jobs

\* The candidates that are passed over before b is reached: all newer ones, and
\* some of those as new.  Every candidate is passed over when none can take req.
PassedOver(b, req, cands) ==
  LET fitting == {c \in cands : CanAppend(c, req)}
      newer == {c \in cands : jobs[c].enqueuedAt > jobs[b].enqueuedAt}
      ties == {c \in cands \ fitting : jobs[c].enqueuedAt = jobs[b].enqueuedAt}
  IN  {newer \cup T : T \in SUBSET ties}

\* A debounced request seals the batches that could not take it.
Sealed(rows, S, req, now) ==
  [b \in Jobs |->
     IF b \in S /\ req.debounce > 0 THEN [rows[b] EXCEPT !.availableAt = now]
                                    ELSE rows[b]]

\* The request, linked to job b; it then belongs to the batch's schedule.
Linked(r, req, b) ==
  [requests EXCEPT ![r] = [req EXCEPT !.job = b, !.admitted = TRUE]]

Scheduled(rows, b) ==
  {[rows EXCEPT ![b].availableAt = at] :
     at \in ReadyTimes(requests', Members(requests', b))}

Append(r, req, now) ==
  LET cands == Candidates(req.review, now)
      fitting == {c \in cands : CanAppend(c, req)}
  IN  \E b \in Newest(fitting) :
        /\ requests' = Linked(r, req, b)
        /\ \E passed \in PassedOver(b, req, cands) :
             jobs' \in Scheduled(Sealed(jobs, passed, req, now), b)

Create(r, req, now) ==
  LET cands == Candidates(req.review, now)
      b == Batch(r)
  IN  /\ \A c \in cands : ~CanAppend(c, req)
      /\ requests' = Linked(r, req, b)
      /\ jobs' \in Scheduled([Sealed(jobs, cands, req, now)
                                EXCEPT ![b] = NewBatch(req)], b)

\* admitInteractionTrigger of a request that is not a duplicate.
Admit(r) ==
  /\ ~Saved(r)
  /\ \E now \in CallTimes, review \in Reviews, debounce \in Debounces,
        bytes \in Sizes :
       LET req == NewRequest(review, now, debounce, bytes)
       IN  IF r \in Locals /\ Exists(Single(r))
             THEN LinkSingle(r, req)
             ELSE Append(r, req, now) \/ Create(r, req, now)
  /\ UNCHANGED clock

----------------------------------------------------------------------------

\* The rows after claimNext has dealt with expired leases; whether a lease has
\* expired is left open here.
Recovered(now) ==
  {jobs} \cup {[jobs EXCEPT ![j] = LeaseLost(@, now)] : j \in Running(jobs)}

\* claimNextInteractionJob; with a lease still active, or no eligible job, it
\* claims nothing.
ClaimNext ==
  /\ \E now \in CallTimes : \E rows \in Recovered(now) :
       LET ready == IF Running(rows) = {} THEN Eligible(rows, now) ELSE {}
       IN  IF ready = {} THEN jobs' = rows
           ELSE \E j \in FirstOf(rows, ready) : jobs' = Claimed(rows, j)
  /\ UNCHANGED <<clock, requests>>

Queue(j) == (Expire(j) \/ AttemptEnds(j)) /\ UNCHANGED clock

Next ==
  \/ Tick
  \/ \E r \in Requests : Admit(r)
  \/ \E r \in Locals : SubmitLocal(r)
  \/ ClaimNext
  \/ \E j \in Jobs : Queue(j)

Spec == Init /\ [][Next]_vars

=============================================================================
