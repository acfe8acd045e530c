-------------------------- MODULE TriggerLifecycle --------------------------
(***************************************************************************)
(* What people are shown of one job while it waits, runs and ends:         *)
(* reactions on the comments that asked for it, or the state of a GitHub   *)
(* check run.  Admission, the worker, the expiry of old jobs and the       *)
(* reconciliation of orphaned runs each tell the platform, from what they  *)
(* know of the job when they make the call.  A call may fail without       *)
(* anybody noticing, and it may arrive after calls made later by others.   *)
(***************************************************************************)
EXTENDS Naturals

CONSTANTS
  Comments,       \* the comments of the job's requests
  First,          \* the one that the job row itself names
  LifecycleTries  \* bound: attempts that may be made

ASSUME LifecycleAssumption ==
  First \in Comments /\ LifecycleTries \in Nat

VARIABLES
  trigger,   \* "comments", or the "check run" of a button that was pressed
  status,    \* of the job
  tries,     \* attempts begun
  step,      \* of the attempt in progress
  run,       \* of the newest attempt: "none", "in_progress", "failed", "completed"
  calls,     \* calls to the platform under way: [by, comment, phase]
  shown,     \* what each comment shows
  admitted,  \* comments for which admission has told the platform
  history    \* [completed, lost, failed]: did a run complete, a lease get lost, a call fail

lifecycleVars == <<trigger, status, tries, step, run, calls, shown, admitted, history>>

Phases == {"queued", "in_progress", "completed", "retry", "failed"}
Failing == {"failed", "cancelled", "expired"}
PhaseOf(s) == IF s \in Failing THEN "failed" ELSE s

LifecycleTypeOK ==
  /\ trigger \in {"comments", "check run"}
  /\ status \in {"queued", "in_progress", "completed"} \cup Failing
  /\ tries \in 0 .. LifecycleTries
  /\ step \in {"idle", "begin", "work", "completed", "retry", "failed", "cancelled"}
  /\ run \in {"none", "in_progress", "failed", "completed"}
  /\ calls \subseteq [by : {"admission", "worker", "expiry", "orphan"},
                      comment : Comments, phase : Phases]
  /\ shown \in [Comments -> SUBSET {"eyes", "done", "sorry", "waiting"}]
  /\ admitted \subseteq Comments
  /\ history \in [completed : BOOLEAN, lost : BOOLEAN, failed : BOOLEAN]

LifecycleInit ==
  /\ trigger \in {"comments", "check run"}
  /\ status = "queued" /\ tries = 0 /\ step = "idle" /\ run = "none"
  /\ calls = {} /\ shown = [c \in Comments |-> {}] /\ admitted = {}
  /\ history = [completed |-> FALSE, lost |-> FALSE, failed |-> FALSE]

CallsBy(who) == {call \in calls : call.by = who}
Tell(who, cs, phase) == [by : {who}, comment : cs, phase : {phase}]

\* Mutant of TellBatch: only the comment that the job names.
TellFirst(who, phase) == Tell(who, {First}, phase)

\* Comments are batched, and the worker and the expiry tell all of them; a
\* check run is a job of its own, and First stands for it.
Told == IF trigger = "comments" THEN Comments ELSE {First}
TellBatch(who, phase) == Tell(who, Told, phase)

\* A reaction is added once and stays; a retry adds none.
Reaction(phase) ==
  CASE phase \in {"queued", "in_progress"} -> {"eyes"}
    [] phase = "completed" -> {"done"}
    [] phase = "failed" -> {"sorry"}
    [] phase = "retry" -> {}

\* The state of a check run replaces the one before.
CheckState(phase) == IF phase \in {"queued", "retry"} THEN {"waiting"} ELSE Reaction(phase)

Deliver ==
  /\ \E call \in calls :
       /\ calls' = calls \ {call}
       /\ shown' = [shown EXCEPT ![call.comment] =
            IF trigger = "check run" THEN CheckState(call.phase)
            ELSE @ \cup Reaction(call.phase)]
  /\ UNCHANGED <<trigger, status, tries, step, run, admitted, history>>

CallFails ==
  /\ \E call \in calls : calls' = calls \ {call}
  /\ history' = [history EXCEPT !.failed = TRUE]
  /\ UNCHANGED <<trigger, status, tries, step, run, shown, admitted>>

\* Admission tells the comment what it has just read of the job.
SyncAdmitted ==
  /\ \E c \in Told \ admitted :
       /\ admitted' = admitted \cup {c}
       /\ calls' = calls \cup Tell("admission", {c}, PhaseOf(status))
  /\ UNCHANGED <<trigger, status, tries, step, run, shown, history>>

ClaimJob ==
  /\ status = "queued" /\ tries < LifecycleTries
  /\ status' = "in_progress" /\ tries' = tries + 1 /\ step' = "begin"
  /\ calls' = calls \cup TellBatch("worker", "in_progress")
  /\ UNCHANGED <<trigger, run, shown, admitted, history>>

\* The worker waits for its calls before it goes on.
StartRun ==
  /\ step = "begin" /\ CallsBy("worker") = {}
  /\ step' = "work" /\ run' = "in_progress"
  /\ UNCHANGED <<trigger, status, tries, calls, shown, admitted, history>>

CompleteRun ==
  /\ step = "work"
  /\ run' = "completed" /\ step' = "completed"
  /\ history' = [history EXCEPT !.completed = TRUE]
  /\ calls' = calls \cup TellBatch("worker", "completed")
  /\ UNCHANGED <<trigger, status, tries, shown, admitted>>

FailAttempt ==
  /\ step \in {"begin", "work"} /\ CallsBy("worker") = {}
  /\ run' = IF step = "work" THEN "failed" ELSE run
  /\ \E end \in {"failed", "cancelled"} \cup (IF tries < LifecycleTries THEN {"retry"} ELSE {}) :
       /\ step' = end
       /\ calls' = calls \cup TellBatch("worker", IF end = "retry" THEN "retry" ELSE "failed")
  /\ UNCHANGED <<trigger, status, tries, shown, admitted, history>>

CommitJob ==
  /\ step \in {"completed", "retry", "failed", "cancelled"} /\ CallsBy("worker") = {}
  /\ status' = IF step = "retry" THEN "queued" ELSE step
  /\ step' = "idle"
  /\ UNCHANGED <<trigger, tries, run, calls, shown, admitted, history>>

\* The attempt dies or loses its lease; its calls may still arrive.
LoseLease ==
  /\ step # "idle"
  /\ status' = IF tries < LifecycleTries THEN "queued" ELSE "failed"
  /\ step' = "idle"
  /\ history' = [history EXCEPT !.lost = TRUE]
  /\ UNCHANGED <<trigger, tries, run, calls, shown, admitted>>

ExpireJob ==
  /\ status = "queued"
  /\ status' = "expired"
  /\ calls' = calls \cup TellBatch("expiry", "failed")
  /\ UNCHANGED <<trigger, tries, step, run, shown, admitted, history>>

\* The run that a lost attempt has left is failed; the comment that the job
\* names is told, unless somebody else is at work or has finished.
ReconcileOrphan ==
  /\ run = "in_progress" /\ step \notin {"work", "completed"}
  /\ run' = "failed"
  /\ calls' = calls \cup (IF status = "queued" THEN Tell("orphan", {First}, "retry")
                          ELSE IF status \in Failing THEN Tell("orphan", {First}, "failed")
                          ELSE {})
  /\ UNCHANGED <<trigger, status, tries, step, shown, admitted, history>>

LifecycleNext ==
  \/ Deliver \/ CallFails \/ SyncAdmitted \/ ClaimJob \/ StartRun \/ CompleteRun
  \/ FailAttempt \/ CommitJob \/ LoseLease \/ ExpireJob \/ ReconcileOrphan

-----------------------------------------------------------------------------
\* Nothing is shown as finished before a run was completed, nothing as failed
\* unless the job has failed or an attempt lost its lease on the way there;
\* and if no call failed and no lease was lost, every comment of an ended job
\* shows how it ended, whoever ended it.
OutcomeIsTold ==
  \A c \in Comments :
    /\ "done" \in shown[c] => history.completed
    /\ "sorry" \in shown[c] => \/ status \in Failing \/ history.lost
                              \/ step \in {"failed", "cancelled"}
    /\ (/\ status \in Failing \cup {"completed"} /\ calls = {}
        /\ ~history.failed /\ ~history.lost /\ trigger = "comments")
         => (IF status = "completed" THEN "done" ELSE "sorry") \in shown[c]

=============================================================================
