---------------------------- MODULE ReviewQueue ----------------------------
(***************************************************************************)
(* What the persisted queue promises, with neither leases, tokens, clocks  *)
(* nor processes: jobs wait, at most one is under review, a review ends    *)
(* its job or gives it back, and each unsuccessful review is counted.      *)
(***************************************************************************)
EXTENDS Naturals

CONSTANTS Jobs, MaxRetries

VARIABLES
  phase,      \* the status of each job
  failures    \* the reviews of each job that ended without completing it

queueVars == <<phase, failures>>

Reviewing == {j \in Jobs : phase[j] = "in_progress"}

Init ==
  /\ phase = [j \in Jobs |-> "absent"]
  /\ failures = [j \in Jobs |-> 0]

Submit(j) ==
  /\ phase[j] = "absent"
  /\ phase' = [phase EXCEPT ![j] = "queued"]
  /\ UNCHANGED failures

\* Jobs that waited too long, some of them at a time.
Expire(batch) ==
  /\ \A j \in batch : phase[j] = "queued"
  /\ phase' = [j \in Jobs |-> IF j \in batch THEN "expired" ELSE phase[j]]
  /\ UNCHANGED failures

Complete(j) ==
  /\ phase[j] = "in_progress"
  /\ phase' = [phase EXCEPT ![j] = "completed"]
  /\ UNCHANGED failures

\* A review given back by a process that stops is not counted.
GiveBack(j) ==
  /\ phase[j] = "in_progress"
  /\ phase' = [phase EXCEPT ![j] = "queued"]
  /\ UNCHANGED failures

EndUnsuccessfully(j) ==
  /\ phase[j] = "in_progress"
  /\ \E next \in {"queued", "failed", "cancelled"} :
       /\ next = "queued" => failures[j] < MaxRetries
       /\ phase' = [phase EXCEPT ![j] = next]
  /\ failures' = [failures EXCEPT ![j] = @ + 1]

\* What becomes of the job under review when its process is given up on.
PhaseIfLost(j) ==
  IF j \in Reviewing
    THEN IF failures[j] < MaxRetries THEN "queued" ELSE "failed"
    ELSE phase[j]

CountLost ==
  failures' =
    [j \in Jobs |-> IF j \in Reviewing THEN failures[j] + 1 ELSE failures[j]]

LoseReview ==
  /\ phase' = [j \in Jobs |-> PhaseIfLost(j)]
  /\ CountLost

\* A review starts only once any other has been given up on.
StartReview(j) ==
  /\ PhaseIfLost(j) = "queued"
  /\ phase' = [k \in Jobs |-> IF k = j THEN "in_progress" ELSE PhaseIfLost(k)]
  /\ CountLost

Next ==
  \/ \E j \in Jobs : \/ Submit(j) \/ Complete(j) \/ GiveBack(j)
                     \/ EndUnsuccessfully(j) \/ StartReview(j)
  \/ \E batch \in SUBSET Jobs : Expire(batch)
  \/ LoseReview

Spec == Init /\ [][Next]_queueVars

=============================================================================
