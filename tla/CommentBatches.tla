--------------------------- MODULE CommentBatches ---------------------------
(***************************************************************************)
(* What admission promises about comment batches, whatever the storage     *)
(* adapter: a request joins one batch and stays in it, and a batch starts  *)
(* with at least one request and is closed from then on, so every attempt  *)
(* of its job, the first one and the retries, sees the same requests.      *)
(***************************************************************************)

CONSTANTS
  Requests,      \* ids of the requests
  Batches,       \* ids of the comment batches
  None           \* no batch

VARIABLES
  owner,         \* the batch of each request
  started        \* whether a batch has ever been claimed

batchVars == <<owner, started>>

Init ==
  /\ owner = [r \in Requests |-> None]
  /\ started = [b \in Batches |-> FALSE]

\* Request r joins a batch that no attempt has seen yet.
Join(r, b) ==
  /\ owner[r] = None
  /\ ~started[b]
  /\ owner' = [owner EXCEPT ![r] = b]
  /\ UNCHANGED started

\* The first claim of batch b.
Start(b) ==
  /\ ~started[b]
  /\ \E r \in Requests : owner[r] = b
  /\ started' = [started EXCEPT ![b] = TRUE]
  /\ UNCHANGED owner

Next ==
  \E b \in Batches : Start(b) \/ \E r \in Requests : Join(r, b)

Spec == Init /\ [][Next]_batchVars

=============================================================================
