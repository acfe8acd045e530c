---------------------------- MODULE ServiceProofs ----------------------------
(***************************************************************************)
(* Proofs about services around the queue: the shutdown of a process, what *)
(* people are shown of a job, the memory of a project, the directories of  *)
(* a job's attempts, the setup of a GitHub connection and the webhook      *)
(* service.  Each service has its own variables and steps, and its theorem *)
(* is about the specification made of them.  The last theorem is about all *)
(* services, those of RecordProofs and AdministrationProofs included.      *)
(***************************************************************************)
EXTENDS MCServices, RecordProofs, AdministrationProofs

-----------------------------------------------------------------------------
(* The shutdown of a process *)

ShutdownSpec == ShutdownInit /\ [][ProcessNext]_shutdownVars

ShutdownTypes ==
  /\ server \in {"starting", "listening", "closing", "closed"}
  /\ handlers \in 0 .. MaxRequests
  /\ stage \in {"none", "app", "runner", "aside", "storage", "done", "error", "killed"}
  /\ stopping \in BOOLEAN /\ late \in BOOLEAN
  /\ loop \in {"off", "timer", "expire", "reconcile", "claim", "claimed", "release", "work"}
  /\ aside \in [left : 0 .. MaxExpired, abandoned : BOOLEAN]
  /\ claim \in {"none", "held", "stuck"}
  /\ storage \in {"open", "closed"}

\* The phases after the one that drains the requests, and after the runner's.
AfterApp == stage \in {"runner", "aside", "storage", "done"}
AfterLoop == stage \in {"aside", "storage", "done"}
AfterAside == stage \in {"storage", "done"}

\* What each phase has settled, it leaves settled: no request arrives once a
\* signal was seen, no tick begins once the loop was told to stop, and a claim
\* is held by a tick only.
ShutdownInv ==
  /\ ShutdownTypes
  /\ storage = "closed" => stage = "done"
  /\ stage # "none" => server # "listening"
  /\ server = "starting" => loop = "off" /\ ~late
  /\ AfterApp => handlers = 0
  /\ AfterApp /\ ~late => stopping /\ loop # "timer"
  /\ AfterLoop /\ ~late => loop = "off"
  /\ AfterAside /\ ~late => (aside.left > 0 => aside.abandoned)
  /\ claim = "held" => loop \in {"claimed", "release", "work"}

LEMMA ShutdownBegins == ShutdownInit => ShutdownInv
<1> SUFFICES ASSUME ShutdownInit PROVE ShutdownInv
  OBVIOUS
<1>1. stopping \in BOOLEAN /\ late \in BOOLEAN
  BY Zenon DEF ShutdownInit
<1>2. ShutdownTypes
  <2>1. 0 \in 0 .. MaxRequests /\ 0 \in 0 .. MaxExpired
    BY ShutdownAssumption
  <2>2. QED
    BY <1>1, <2>1 DEF ShutdownInit, ShutdownTypes
<1> QED
  BY <1>2 DEF ShutdownInit, ShutdownInv, AfterApp, AfterLoop, AfterAside

LEMMA ShutdownSteps == ShutdownInv /\ [ProcessNext]_shutdownVars => ShutdownInv'
<1> SUFFICES ASSUME ShutdownInv, [ProcessNext]_shutdownVars PROVE ShutdownInv'
  OBVIOUS
<1> USE ShutdownAssumption DEF ShutdownInv, ShutdownTypes, AfterApp, AfterLoop, AfterAside
<1>1. CASE Listens
  <2>1. PICK enabled \in BOOLEAN :
          /\ loop' = IF enabled THEN "timer" ELSE "off"
          /\ late' = (enabled /\ stage \notin {"none", "app"})
          /\ stopping' = (stopping /\ ~enabled)
    BY <1>1, Zenon DEF Listens
  <2>2. late' \in BOOLEAN /\ stopping' \in BOOLEAN
    BY <2>1, Zenon
  <2>3. late' <=> enabled /\ stage \notin {"none", "app"}
    BY <2>1, Zenon
  <2>4. stopping' <=> stopping /\ ~enabled
    BY <2>1, Zenon
  <2>5. /\ server = "starting" /\ server' \in {"listening", "closed"}
        /\ stage # "none" => server' = "closed"
        /\ loop' = IF enabled THEN "timer" ELSE "off"
        /\ UNCHANGED <<handlers, stage, aside, claim, storage>>
    BY <1>1, <2>1 DEF Listens
  <2>6. ShutdownTypes'
    BY <2>2, <2>5
  <2>7. AfterApp' /\ ~late' => stopping' /\ loop' # "timer"
    BY <2>2, <2>3, <2>4, <2>5
  <2>8. AfterLoop' /\ ~late' => loop' = "off"
    BY <2>2, <2>3, <2>4, <2>5
  <2>9. AfterAside' /\ ~late' => (aside'.left > 0 => aside'.abandoned)
    BY <2>2, <2>3, <2>4, <2>5
  <2> QED
    BY <2>2, <2>5, <2>6, <2>7, <2>8, <2>9
<1>2. CASE ListenFails
  BY <1>2 DEF ListenFails
<1>3. CASE RequestArrives
  BY <1>3 DEF RequestArrives
<1>4. CASE RequestEnds
  BY <1>4 DEF RequestEnds
<1>5. CASE FirstSignal
  BY <1>5 DEF FirstSignal
<1>6. CASE SecondSignal
  BY <1>6 DEF SecondSignal
<1>7. CASE AppCloses
  BY <1>7 DEF AppCloses
<1>8. CASE LoopDrains
  BY <1>8 DEF LoopDrains, LoopSettled
<1>9. CASE AsideSettles
  BY <1>9 DEF AsideSettles
<1>10. CASE StorageCloses
  BY <1>10 DEF StorageCloses
<1>11. CASE PhaseFails
  BY <1>11 DEF PhaseFails
<1>12. CASE TimerFires
  BY <1>12 DEF TimerFires, ShutdownSame
<1>13. CASE Expires
  BY <1>13 DEF Expires, ShutdownSame
<1>14. CASE ReconcilesOrphans
  BY <1>14 DEF ReconcilesOrphans, ShutdownSame, LoopEnds
<1>15. CASE ClaimsNext
  BY <1>15 DEF ClaimsNext, ShutdownSame, LoopEnds
<1>16. CASE TakesUp
  BY <1>16 DEF TakesUp, ShutdownSame
<1>17. CASE ReleasesClaim
  BY <1>17 DEF ReleasesClaim, ShutdownSame, LoopEnds
<1>18. CASE AttemptEnds
  BY <1>18 DEF AttemptEnds, ShutdownSame, LoopEnds
<1>19. CASE TickFails
  BY <1>19 DEF TickFails, ShutdownSame, LoopEnds
<1>20. CASE AsideTells
  BY <1>20 DEF AsideTells, ShutdownSame
<1>21. CASE UNCHANGED shutdownVars
  BY <1>21 DEF shutdownVars
<1> QED
  BY <1>1, <1>2, <1>3, <1>4, <1>5, <1>6, <1>7, <1>8, <1>9, <1>10, <1>11, <1>12, <1>13,
     <1>14, <1>15, <1>16, <1>17, <1>18, <1>19, <1>20, <1>21 DEF ProcessNext

\* Once the storage is closed nothing of the process works on it any more, but
\* for what the shutdown has given up on or a start that overtook it: in any
\* order of requests, ticks, signals and failures of the phases.
THEOREM ClosedAfterWork == ShutdownSpec => []StorageOutlivesWork
<1>1. ShutdownInv => StorageOutlivesWork
  BY DEF ShutdownInv, ShutdownTypes, AfterApp, AfterLoop, AfterAside, StorageOutlivesWork
<1> QED
  BY ShutdownBegins, ShutdownSteps, <1>1, PTL DEF ShutdownSpec

-----------------------------------------------------------------------------
(* What people are shown of a job *)

LifecycleSpec == LifecycleInit /\ [][LifecycleNext]_lifecycleVars

\* Nobody interfered, so that the calls of the worker and of the expiry are
\* all that is needed.
Unhindered == trigger = "comments" /\ ~history.failed /\ ~history.lost

\* The end was reached, or the attempt is on its way to it.
Completing == status = "completed" \/ step = "completed"
GivingUp == status \in Failing \/ step \in {"failed", "cancelled"}

\* A call that is under way knows of a job no more than has happened: one that
\* tells of an end follows it.
CallsAreTrue ==
  \A call \in calls :
    /\ call.phase = "completed" => history.completed
    /\ call.phase = "failed" => GivingUp \/ history.lost

ShownIsTrue ==
  \A c \in Comments :
    /\ "done" \in shown[c] => history.completed
    /\ "sorry" \in shown[c] => GivingUp \/ history.lost

\* Each comment has been told of the end, or is being told.
EndIsTold(tell, mark) ==
  \A c \in Comments :
    mark \in shown[c] \/ \E call \in calls : call.comment = c /\ call.phase = tell

LifecycleInv ==
  /\ LifecycleTypeOK
  /\ step # "idle" => status = "in_progress"
  /\ Completing => history.completed
  /\ CallsAreTrue
  /\ ShownIsTrue
  /\ Unhindered /\ Completing => EndIsTold("completed", "done")
  /\ Unhindered /\ GivingUp => EndIsTold("failed", "sorry")

LEMMA LifecycleBegins == LifecycleInit => LifecycleInv
<1> SUFFICES ASSUME LifecycleInit PROVE LifecycleInv
  OBVIOUS
<1>1. LifecycleTypeOK
  <2>1. shown \in [Comments -> SUBSET {"eyes", "done", "sorry", "waiting"}]
    BY DEF LifecycleInit
  <2>2. history \in [completed : BOOLEAN, lost : BOOLEAN, failed : BOOLEAN]
    BY DEF LifecycleInit
  <2>3. LifecycleTries \in Nat /\ tries = 0
    BY LifecycleAssumption DEF LifecycleInit
  <2>4. tries \in 0 .. LifecycleTries
    BY <2>3
  <2> QED
    BY <2>1, <2>2, <2>4 DEF LifecycleInit, LifecycleTypeOK
<1>2. ~Completing /\ ~GivingUp
  BY DEF LifecycleInit, Completing, GivingUp, Failing
<1>3. CallsAreTrue /\ ShownIsTrue
  BY DEF LifecycleInit, CallsAreTrue, ShownIsTrue
<1> QED
  BY <1>1, <1>2, <1>3 DEF LifecycleInit, LifecycleInv

\* A call that is made tells some comments of one phase.
LEMMA ToldCalls ==
  ASSUME NEW who \in {"admission", "worker", "expiry", "orphan"}, NEW cs \in SUBSET Comments,
         NEW tell \in Phases
  PROVE  /\ Tell(who, cs, tell) \subseteq [by : {"admission", "worker", "expiry", "orphan"},
                                             comment : Comments, phase : Phases]
         /\ \A call \in Tell(who, cs, tell) : call.phase = tell
         /\ \A c \in cs : \E call \in Tell(who, cs, tell) : call.comment = c /\ call.phase = tell
<1>1. \A c \in cs : [by |-> who, comment |-> c, phase |-> tell] \in Tell(who, cs, tell)
  BY DEF Tell
<1> QED
  BY <1>1 DEF Tell

\* More calls keep what is true and told of those that are there.
LEMMA MoreCalls ==
  ASSUME LifecycleInv, NEW more, calls' = calls \cup more,
         UNCHANGED <<trigger, shown>>,
         more \subseteq [by : {"admission", "worker", "expiry", "orphan"},
                         comment : Comments, phase : Phases],
         history.completed => history.completed', history.lost => history.lost',
         history.failed => history.failed', GivingUp => GivingUp' \/ history'.lost,
         \A call \in more : /\ call.phase = "completed" => history'.completed
                            /\ call.phase = "failed" => GivingUp' \/ history'.lost
  PROVE  CallsAreTrue' /\ ShownIsTrue'
  BY DEF LifecycleInv, LifecycleTypeOK, CallsAreTrue, ShownIsTrue

LEMMA LifecycleSteps == LifecycleInv /\ [LifecycleNext]_lifecycleVars => LifecycleInv'
<1> SUFFICES ASSUME LifecycleInv, [LifecycleNext]_lifecycleVars PROVE LifecycleInv'
  OBVIOUS
<1> USE LifecycleAssumption
<1>0. LifecycleTypeOK
  BY DEF LifecycleInv
<1>1. CASE Deliver
  <2>1. PICK call \in calls :
          /\ calls' = calls \ {call}
          /\ shown' = [shown EXCEPT ![call.comment] =
               IF trigger = "check run" THEN CheckState(call.phase)
               ELSE @ \cup Reaction(call.phase)]
    BY <1>1 DEF Deliver
  <2>2. UNCHANGED <<trigger, status, tries, step, run, admitted, history>>
    BY <1>1 DEF Deliver
  <2>3. /\ call.comment \in Comments /\ call.phase \in Phases
        /\ CheckState(call.phase) \in SUBSET {"eyes", "done", "sorry", "waiting"}
        /\ Reaction(call.phase) \in SUBSET {"eyes", "done", "sorry", "waiting"}
    BY <1>0, <2>1 DEF LifecycleTypeOK, Phases, CheckState, Reaction
  <2>4. LifecycleTypeOK'
    BY <1>0, <2>1, <2>2, <2>3 DEF LifecycleTypeOK
  <2>5. \A c \in Comments :
          /\ "done" \in shown'[c] => "done" \in shown[c] \/ (c = call.comment /\ call.phase = "completed")
          /\ "sorry" \in shown'[c] => "sorry" \in shown[c] \/ (c = call.comment /\ call.phase = "failed")
    BY <1>0, <2>1, <2>3 DEF LifecycleTypeOK, Phases, CheckState, Reaction
  <2>6. CallsAreTrue' /\ ShownIsTrue'
    BY <2>1, <2>2, <2>5 DEF LifecycleInv, CallsAreTrue, ShownIsTrue, GivingUp
  <2>7. trigger = "comments" =>
          \A c \in Comments :
            /\ shown[c] \subseteq shown'[c]
            /\ c = call.comment => Reaction(call.phase) \subseteq shown'[c]
    BY <1>0, <2>1, <2>3 DEF LifecycleTypeOK
  <2>8. ASSUME Unhindered
        PROVE  /\ EndIsTold("completed", "done") => EndIsTold("completed", "done")'
               /\ EndIsTold("failed", "sorry") => EndIsTold("failed", "sorry")'
    BY <2>1, <2>7, <2>8 DEF Unhindered, EndIsTold, Reaction
  <2>9. /\ Completing' <=> Completing
        /\ GivingUp' <=> GivingUp
        /\ Unhindered' <=> Unhindered
    BY <2>2 DEF Completing, GivingUp, Unhindered
  <2>10. /\ Unhindered' /\ Completing' => EndIsTold("completed", "done")'
         /\ Unhindered' /\ GivingUp' => EndIsTold("failed", "sorry")'
    BY <2>8, <2>9 DEF LifecycleInv
  <2>11. /\ step' # "idle" => status' = "in_progress"
         /\ Completing' => history'.completed
    BY <2>2, <2>9 DEF LifecycleInv
  <2> QED
    BY <2>4, <2>6, <2>10, <2>11 DEF LifecycleInv
<1>2. CASE CallFails
  <2>1. PICK call \in calls : calls' = calls \ {call}
    BY <1>2 DEF CallFails
  <2>2. /\ history' = [history EXCEPT !.failed = TRUE]
        /\ UNCHANGED <<trigger, status, tries, step, run, shown, admitted>>
    BY <1>2 DEF CallFails
  <2>3. /\ history' \in [completed : BOOLEAN, lost : BOOLEAN, failed : BOOLEAN]
        /\ history'.failed /\ history'.completed = history.completed /\ history'.lost = history.lost
    BY <1>0, <2>2 DEF LifecycleTypeOK
  <2>4. LifecycleTypeOK'
    BY <1>0, <2>1, <2>2, <2>3 DEF LifecycleTypeOK
  <2>5. CallsAreTrue' /\ ShownIsTrue'
    BY <2>1, <2>2, <2>3 DEF LifecycleInv, CallsAreTrue, ShownIsTrue, GivingUp
  <2> QED
    BY <2>2, <2>3, <2>4, <2>5 DEF LifecycleInv, Completing, GivingUp, Unhindered
<1>3. CASE SyncAdmitted
  <2>1. PICK c \in Told \ admitted :
          /\ admitted' = admitted \cup {c}
          /\ calls' = calls \cup Tell("admission", {c}, PhaseOf(status))
    BY <1>3 DEF SyncAdmitted
  <2>2. UNCHANGED <<trigger, status, tries, step, run, shown, history>>
    BY <1>3 DEF SyncAdmitted
  <2>3. c \in Comments /\ PhaseOf(status) \in Phases
    BY <1>0, <2>1 DEF Told, LifecycleTypeOK, PhaseOf, Phases, Failing
  <2>4. /\ PhaseOf(status) = "completed" => Completing
        /\ PhaseOf(status) = "failed" => GivingUp
    BY <1>0 DEF LifecycleTypeOK, PhaseOf, Completing, GivingUp, Failing
  <2>5. \A call \in Tell("admission", {c}, PhaseOf(status)) : call.phase = PhaseOf(status)
    BY <2>3, ToldCalls
  <2>6. \A call \in Tell("admission", {c}, PhaseOf(status)) :
          /\ call.phase = "completed" => history'.completed
          /\ call.phase = "failed" => GivingUp' \/ history'.lost
    BY <2>2, <2>4, <2>5 DEF LifecycleInv, GivingUp
  <2>7. Tell("admission", {c}, PhaseOf(status)) \subseteq
          [by : {"admission", "worker", "expiry", "orphan"}, comment : Comments, phase : Phases]
    BY <2>3, ToldCalls
  <2>8. LifecycleTypeOK'
    BY <1>0, <2>1, <2>2, <2>3, <2>7 DEF LifecycleTypeOK
  <2>9. CallsAreTrue' /\ ShownIsTrue'
    BY <2>1, <2>2, <2>6, <2>7, MoreCalls DEF GivingUp
  <2> QED
    BY <2>1, <2>2, <2>8, <2>9 DEF LifecycleInv, Completing, GivingUp, Unhindered, EndIsTold
<1>4. CASE ClaimJob
  <2>1. /\ status = "queued" /\ status' = "in_progress" /\ step' = "begin" /\ tries' = tries + 1
        /\ tries < LifecycleTries
        /\ calls' = calls \cup Tell("worker", Told, "in_progress")
        /\ UNCHANGED <<trigger, run, shown, admitted, history>>
    BY <1>4 DEF ClaimJob, TellBatch
  <2>2. Told \in SUBSET Comments /\ "in_progress" \in Phases
    BY DEF Told, Phases
  <2>3. /\ Tell("worker", Told, "in_progress") \subseteq
             [by : {"admission", "worker", "expiry", "orphan"}, comment : Comments, phase : Phases]
        /\ \A call \in Tell("worker", Told, "in_progress") : call.phase = "in_progress"
    BY <2>2, ToldCalls
  <2>4. LifecycleTries \in Nat /\ tries \in 0 .. LifecycleTries /\ tries < LifecycleTries /\ tries' = tries + 1
    BY <1>0, <2>1 DEF LifecycleTypeOK
  <2>5. tries' \in 0 .. LifecycleTries
    BY <2>4
  <2>6. LifecycleTypeOK'
    BY <1>0, <2>1, <2>3, <2>5 DEF LifecycleTypeOK
  <2>7. ~Completing' /\ ~GivingUp' /\ ~GivingUp
    BY <2>1 DEF LifecycleInv, Completing, GivingUp, Failing
  <2>8. CallsAreTrue' /\ ShownIsTrue'
    BY <2>1, <2>3, <2>7, MoreCalls
  <2> QED
    BY <2>1, <2>6, <2>7, <2>8 DEF LifecycleInv
<1>5. CASE StartRun
  <2>1. /\ step = "begin" /\ step' = "work" /\ run' = "in_progress"
        /\ UNCHANGED <<trigger, status, tries, calls, shown, admitted, history>>
    BY <1>5 DEF StartRun
  <2>2. LifecycleTypeOK'
    BY <1>0, <2>1 DEF LifecycleTypeOK
  <2> QED
    BY <2>1, <2>2 DEF LifecycleInv, Completing, GivingUp, Unhindered, EndIsTold, CallsAreTrue, ShownIsTrue
<1>6. CASE CompleteRun
  <2>1. /\ step = "work" /\ step' = "completed" /\ run' = "completed"
        /\ history' = [history EXCEPT !.completed = TRUE]
        /\ calls' = calls \cup Tell("worker", Told, "completed")
        /\ UNCHANGED <<trigger, status, tries, shown, admitted>>
    BY <1>6 DEF CompleteRun, TellBatch
  <2>2. Told \in SUBSET Comments /\ "completed" \in Phases
    BY DEF Told, Phases
  <2>3. /\ Tell("worker", Told, "completed") \subseteq
             [by : {"admission", "worker", "expiry", "orphan"}, comment : Comments, phase : Phases]
        /\ \A call \in Tell("worker", Told, "completed") : call.phase = "completed"
        /\ \A c \in Told : \E call \in Tell("worker", Told, "completed") :
             call.comment = c /\ call.phase = "completed"
    BY <2>2, ToldCalls
  <2>4. /\ history' \in [completed : BOOLEAN, lost : BOOLEAN, failed : BOOLEAN]
        /\ history'.completed /\ history'.lost = history.lost /\ history'.failed = history.failed
    BY <1>0, <2>1 DEF LifecycleTypeOK
  <2>5. LifecycleTypeOK'
    BY <1>0, <2>1, <2>3, <2>4 DEF LifecycleTypeOK
  <2>6. ~GivingUp' /\ ~GivingUp
    BY <2>1 DEF LifecycleInv, GivingUp, Failing
  <2>7. CallsAreTrue' /\ ShownIsTrue'
    BY <2>1, <2>3, <2>4, <2>6, MoreCalls
  <2>8. trigger = "comments" => EndIsTold("completed", "done")'
    BY <2>1, <2>3 DEF EndIsTold, Told
  <2> QED
    BY <2>1, <2>4, <2>5, <2>6, <2>7, <2>8 DEF LifecycleInv, Unhindered
<1>7. CASE FailAttempt
  <2>1. PICK end \in {"failed", "cancelled"} \cup (IF tries < LifecycleTries THEN {"retry"} ELSE {}) :
          /\ step' = end
          /\ calls' = calls \cup TellBatch("worker", IF end = "retry" THEN "retry" ELSE "failed")
    BY <1>7 DEF FailAttempt
  <2> DEFINE tell == IF end = "retry" THEN "retry" ELSE "failed"
  <2>2. /\ step \in {"begin", "work"} /\ run' \in {"failed", run}
        /\ UNCHANGED <<trigger, status, tries, shown, admitted, history>>
        /\ end \in {"failed", "cancelled", "retry"}
    BY <1>7, <2>1 DEF FailAttempt
  <2>3. Told \in SUBSET Comments /\ tell \in Phases
    BY DEF Told, Phases
  <2>4. /\ Tell("worker", Told, tell) \subseteq
             [by : {"admission", "worker", "expiry", "orphan"}, comment : Comments, phase : Phases]
        /\ \A call \in Tell("worker", Told, tell) : call.phase = tell
        /\ \A c \in Told : \E call \in Tell("worker", Told, tell) :
             call.comment = c /\ call.phase = tell
    BY <2>3, ToldCalls
  <2>5. calls' = calls \cup Tell("worker", Told, tell)
    BY <2>1 DEF TellBatch
  <2>6. LifecycleTypeOK'
    BY <1>0, <2>1, <2>2, <2>4, <2>5 DEF LifecycleTypeOK
  <2>7. /\ ~GivingUp /\ ~Completing'
        /\ GivingUp' <=> end # "retry"
    BY <2>1, <2>2 DEF LifecycleInv, GivingUp, Completing, Failing
  <2>8. \A call \in Tell("worker", Told, tell) :
          /\ call.phase # "completed"
          /\ call.phase = "failed" => GivingUp'
    BY <2>4, <2>7
  <2>9. UNCHANGED <<trigger, shown, history>>
    BY <2>2
  <2> HIDE DEF tell
  <2>10. CallsAreTrue' /\ ShownIsTrue'
    BY <2>2, <2>4, <2>5, <2>7, <2>8, <2>9, MoreCalls
  <2>11. trigger = "comments" /\ end # "retry" => EndIsTold("failed", "sorry")'
    BY <2>4, <2>5 DEF EndIsTold, Told, tell
  <2>12. step' # "idle" => status' = "in_progress"
    BY <2>2 DEF LifecycleInv
  <2> QED
    BY <2>2, <2>6, <2>7, <2>10, <2>11, <2>12 DEF LifecycleInv, Unhindered
<1>8. CASE CommitJob
  <2>1. /\ step \in {"completed", "retry", "failed", "cancelled"}
        /\ status' = IF step = "retry" THEN "queued" ELSE step
        /\ step' = "idle"
        /\ UNCHANGED <<trigger, tries, run, calls, shown, admitted, history>>
    BY <1>8 DEF CommitJob
  <2>2. LifecycleTypeOK'
    BY <1>0, <2>1 DEF LifecycleTypeOK, Failing
  <2>3. (Completing' => Completing) /\ (GivingUp' <=> GivingUp)
    BY <2>1 DEF LifecycleInv, Completing, GivingUp, Failing
  <2> QED
    BY <2>1, <2>2, <2>3 DEF LifecycleInv, Unhindered, EndIsTold, CallsAreTrue, ShownIsTrue
<1>9. CASE LoseLease
  <2>1. /\ step # "idle" /\ step' = "idle" /\ status' \in {"queued", "failed"}
        /\ history' = [history EXCEPT !.lost = TRUE]
        /\ UNCHANGED <<trigger, tries, run, calls, shown, admitted>>
    BY <1>9 DEF LoseLease
  <2>2. /\ history' \in [completed : BOOLEAN, lost : BOOLEAN, failed : BOOLEAN]
        /\ history'.lost /\ history'.completed = history.completed
    BY <1>0, <2>1 DEF LifecycleTypeOK
  <2>3. LifecycleTypeOK'
    BY <1>0, <2>1, <2>2 DEF LifecycleTypeOK, Failing
  <2> QED
    BY <2>1, <2>2, <2>3 DEF LifecycleInv, Unhindered, Completing, CallsAreTrue, ShownIsTrue
<1>10. CASE ExpireJob
  <2>1. /\ status = "queued" /\ status' = "expired"
        /\ calls' = calls \cup Tell("expiry", Told, "failed")
        /\ UNCHANGED <<trigger, tries, step, run, shown, admitted, history>>
    BY <1>10 DEF ExpireJob, TellBatch
  <2>2. Told \in SUBSET Comments /\ "failed" \in Phases
    BY DEF Told, Phases
  <2>3. /\ Tell("expiry", Told, "failed") \subseteq
             [by : {"admission", "worker", "expiry", "orphan"}, comment : Comments, phase : Phases]
        /\ \A call \in Tell("expiry", Told, "failed") : call.phase = "failed"
        /\ \A c \in Told : \E call \in Tell("expiry", Told, "failed") :
             call.comment = c /\ call.phase = "failed"
    BY <2>2, ToldCalls
  <2>4. LifecycleTypeOK'
    BY <1>0, <2>1, <2>3 DEF LifecycleTypeOK, Failing
  <2>5. GivingUp' /\ ~Completing' /\ step = "idle"
    BY <2>1 DEF LifecycleInv, GivingUp, Completing, Failing
  <2>6. CallsAreTrue' /\ ShownIsTrue'
    BY <2>1, <2>3, <2>5, MoreCalls
  <2>7. trigger = "comments" => EndIsTold("failed", "sorry")'
    BY <2>1, <2>3 DEF EndIsTold, Told
  <2> QED
    BY <2>1, <2>4, <2>5, <2>6, <2>7 DEF LifecycleInv, Unhindered
<1>11. CASE ReconcileOrphan
  <2> DEFINE more == IF status = "queued" THEN Tell("orphan", {First}, "retry")
                     ELSE IF status \in Failing THEN Tell("orphan", {First}, "failed")
                     ELSE {}
  <2>1. /\ run' = "failed" /\ calls' = calls \cup more
        /\ UNCHANGED <<trigger, status, tries, step, shown, admitted, history>>
    BY <1>11 DEF ReconcileOrphan
  <2>2. {First} \in SUBSET Comments /\ "retry" \in Phases /\ "failed" \in Phases
    BY DEF Phases
  <2>3. /\ more \subseteq [by : {"admission", "worker", "expiry", "orphan"},
                           comment : Comments, phase : Phases]
        /\ \A call \in more : /\ call.phase \in {"retry", "failed"}
                              /\ call.phase = "failed" => status \in Failing
    BY <2>2, ToldCalls
  <2>4. LifecycleTypeOK'
    BY <1>0, <2>1, <2>3 DEF LifecycleTypeOK
  <2>5. GivingUp' <=> GivingUp
    BY <2>1 DEF GivingUp
  <2>6. \A call \in more : call.phase # "completed" /\ (call.phase = "failed" => GivingUp')
    BY <2>3, <2>5 DEF GivingUp
  <2> HIDE DEF more
  <2>7. CallsAreTrue' /\ ShownIsTrue'
    BY <2>1, <2>3, <2>5, <2>6, MoreCalls
  <2> QED
    BY <2>1, <2>4, <2>7 DEF LifecycleInv, Unhindered, Completing, GivingUp, EndIsTold
<1>12. CASE UNCHANGED lifecycleVars
  BY <1>12 DEF lifecycleVars, LifecycleInv, LifecycleTypeOK, Unhindered, Completing, GivingUp,
               EndIsTold, CallsAreTrue, ShownIsTrue
<1> QED
  BY <1>1, <1>2, <1>3, <1>4, <1>5, <1>6, <1>7, <1>8, <1>9, <1>10, <1>11, <1>12
     DEF LifecycleNext

\* Nothing is shown as finished or failed that is not, in whatever order the
\* calls of the four parties arrive; and where no call failed and no lease was
\* lost, every comment of an ended job shows its end.
THEOREM EndsAreShown == LifecycleSpec => []OutcomeIsTold
<1>1. LifecycleInv => OutcomeIsTold
  <2> SUFFICES ASSUME LifecycleInv, NEW c \in Comments
               PROVE  /\ "done" \in shown[c] => history.completed
                      /\ "sorry" \in shown[c] => \/ status \in Failing \/ history.lost
                                                 \/ step \in {"failed", "cancelled"}
                      /\ (/\ status \in Failing \cup {"completed"} /\ calls = {}
                          /\ ~history.failed /\ ~history.lost /\ trigger = "comments")
                           => (IF status = "completed" THEN "done" ELSE "sorry") \in shown[c]
    BY DEF OutcomeIsTold
  <2> QED
    BY DEF LifecycleInv, ShownIsTrue, GivingUp, Completing, Unhindered, EndIsTold
<1> QED
  BY LifecycleBegins, LifecycleSteps, <1>1, PTL DEF LifecycleSpec

-----------------------------------------------------------------------------
(* The memory of a project: the queue of calls *)

MemorySpec == MemoryInit /\ [][MemoryNext]_memoryVars

CallType ==
  [step : {"idle", "queue", "save", "check", "put", "replace", "coalesce", "coalesced",
           "done", "ended"},
   local : BOOLEAN, ahead : Askers \cup {0}, base : SUBSET Memories, next : SUBSET Memories,
   result : SUBSET Memories, tries : Nat, on : {"store", "wiki"}]

MemoryTypes ==
  /\ row \subseteq Memories /\ wiki \subseteq Memories \ Italic /\ hasWiki \in BOOLEAN
  /\ asker \in [Askers -> CallType] /\ tail \in Askers \cup {0}
  /\ owed \subseteq Memories /\ gone \subseteq Memories

\* Calls come in the order of their numbers, and the queue knows the last one.
InOrder ==
  \A a, b \in Askers : b < a /\ ~Awaits(a, "idle") => ~Awaits(b, "idle")
TailIsLast ==
  IF tail = 0 THEN \A a \in Askers : ~Ongoing(a)
  ELSE Ongoing(tail) /\ \A b \in Askers : tail < b => ~Ongoing(b)

\* Between a call and the one it waits for, no other call goes on.
Behind(a) ==
  IF asker[a].ahead = 0 THEN \A b \in Askers : b < a => ~Ongoing(b)
  ELSE asker[a].ahead < a /\ \A b \in Askers : asker[a].ahead < b /\ b < a => ~Ongoing(b)

\* A call works only once all the calls before it have ended.
FirstOut ==
  \A a, b \in Askers : b < a /\ Ongoing(b) => asker[a].step \in {"idle", "queue"}

QueueInv ==
  /\ InOrder /\ TailIsLast /\ FirstOut
  /\ \A a \in Askers : Ongoing(a) => Behind(a)

\* A call whose turn it is is alone: the others have not begun to work or ended.
Alone(a) ==
  \A b \in Askers : b # a => asker[b].step \in {"idle", "queue", "ended"} /\ (b < a => ~Ongoing(b))

LEMMA TurnIsAlone ==
  ASSUME MemoryTypes, QueueInv, NEW a \in Askers, Ongoing(a),
         ItsTurn(a) \/ ~Awaits(a, "queue")
  PROVE  Alone(a)
<1> USE MemoryAssumption
<1>1. \A b \in Askers : b < a => ~Ongoing(b)
  <2>1. CASE ~Awaits(a, "queue")
    BY <2>1 DEF QueueInv, FirstOut, Ongoing, Awaits
  <2>2. CASE ItsTurn(a) /\ asker[a].ahead = 0
    BY <2>2 DEF QueueInv, Behind
  <2>3. CASE ItsTurn(a) /\ asker[a].ahead # 0
    <3> DEFINE p == asker[a].ahead
    <3>1. p \in Askers /\ asker[p].step = "ended"
      BY <2>3 DEF MemoryTypes, CallType, ItsTurn, Awaits
    <3>2. ~Ongoing(p) /\ \A b \in Askers : b < p => ~Ongoing(b)
      BY <3>1 DEF QueueInv, FirstOut, Ongoing
    <3>3. \A b \in Askers : p < b /\ b < a => ~Ongoing(b)
      BY <2>3 DEF QueueInv, Behind
    <3> HIDE DEF p
    <3>4. \A b \in Askers : b < p \/ b = p \/ p < b
      <4> SUFFICES ASSUME NEW b \in Askers PROVE b < p \/ b = p \/ p < b
        OBVIOUS
      <4>1. p \in Nat /\ b \in Nat
        BY <3>1
      <4> QED
        BY <4>1
    <3> QED
      BY <3>2, <3>3, <3>4
  <2> QED
    BY <2>1, <2>2, <2>3
<1>2. \A b \in Askers : a < b => asker[b].step \in {"idle", "queue"}
  BY DEF QueueInv, FirstOut
<1>3. \A b \in Askers : b < a \/ b = a \/ a < b
  OBVIOUS
<1> QED
  BY <1>1, <1>2, <1>3 DEF Alone, Ongoing

\* A call joins behind the last one.
LEMMA QueueGrows == ASSUME MemoryTypes, QueueInv, NEW a \in Askers, Asks(a) PROVE QueueInv'
<1> USE MemoryAssumption
<1>1. /\ asker[a].step = "idle" /\ tail' = a
      /\ \A b \in Askers : b < a => asker[b].step # "idle"
  BY DEF Asks, Awaits
<1>2. PICK local \in BOOLEAN :
        asker' = [asker EXCEPT ![a] = [NoCall EXCEPT !.step = "queue", !.local = local, !.ahead = tail]]
  BY DEF Asks
<1>3. /\ asker'[a].step = "queue" /\ asker'[a].ahead = tail
      /\ \A b \in Askers : b # a => asker'[b] = asker[b]
  BY <1>2 DEF MemoryTypes, NoCall
<1>4. \A b \in Askers : a < b => asker[b].step = "idle"
  BY <1>1 DEF QueueInv, InOrder, Awaits
<1>5. \A b \in Askers : Ongoing(b)' <=> (Ongoing(b) \/ b = a)
  BY <1>3 DEF Ongoing
<1>6. InOrder'
  BY <1>1, <1>3 DEF QueueInv, InOrder, Awaits
<1>7. TailIsLast'
  BY <1>1, <1>4, <1>5 DEF TailIsLast, Ongoing
<1>8. FirstOut'
  <2> SUFFICES ASSUME NEW c \in Askers, NEW b \in Askers, b < c, Ongoing(b)'
               PROVE  asker'[c].step \in {"idle", "queue"}
    BY DEF FirstOut
  <2>1. CASE c = a
    BY <1>3, <2>1
  <2>2. CASE c # a /\ b = a
    BY <1>3, <1>4, <2>2
  <2>3. CASE c # a /\ b # a
    BY <1>3, <1>5, <2>3 DEF QueueInv, FirstOut
  <2> QED
    BY <2>1, <2>2, <2>3
<1>9. ASSUME NEW c \in Askers, Ongoing(c)' PROVE Behind(c)'
  <2>1. CASE c = a /\ tail = 0
    BY <1>3, <1>5, <2>1 DEF QueueInv, TailIsLast, Behind
  <2>2. CASE c = a /\ tail # 0
    <3>1. tail \in Askers /\ Ongoing(tail) /\ \A b \in Askers : tail < b => ~Ongoing(b)
      BY <2>2 DEF QueueInv, TailIsLast, MemoryTypes
    <3>2. tail # a /\ ~(a < tail)
      BY <1>1, <1>4, <3>1 DEF Ongoing
    <3>3. tail < a
      BY <3>1, <3>2
    <3> QED
      BY <1>3, <1>5, <2>2, <3>1, <3>3 DEF Behind
  <2>3. CASE c # a
    <3>1. Ongoing(c) /\ ~(a < c)
      BY <1>4, <1>5, <1>9, <2>3 DEF Ongoing
    <3>2. c < a
      BY <2>3, <3>1
    <3> QED
      BY <1>3, <1>5, <2>3, <3>1, <3>2 DEF QueueInv, Behind
  <2> QED
    BY <2>1, <2>2, <2>3
<1> QED
  BY <1>6, <1>7, <1>8, <1>9 DEF QueueInv

\* A call that works on stays where it is in the queue.
LEMMA QueueStays ==
  ASSUME MemoryTypes, QueueInv, NEW a \in Askers, Ongoing(a), Alone(a), tail' = tail,
         \A b \in Askers : b # a => asker'[b] = asker[b],
         asker'[a].ahead = asker[a].ahead, asker'[a].step \notin {"idle", "ended"}
  PROVE  QueueInv'
<1> USE MemoryAssumption
<1>1. \A b \in Askers : Ongoing(b)' <=> Ongoing(b)
  BY DEF Ongoing
<1>2. InOrder'
  BY DEF QueueInv, InOrder, Awaits, Ongoing
<1>3. TailIsLast'
  BY <1>1 DEF QueueInv, TailIsLast, MemoryTypes
<1>4. FirstOut'
  BY <1>1 DEF QueueInv, FirstOut, Alone
<1>5. \A c \in Askers : Ongoing(c)' => Behind(c)'
  BY <1>1 DEF QueueInv, Behind
<1> QED
  BY <1>2, <1>3, <1>4, <1>5 DEF QueueInv

\* A call that ends leaves the queue to those behind it.
LEMMA QueueShrinks ==
  ASSUME MemoryTypes, QueueInv, NEW a \in Askers, Ongoing(a), Alone(a),
         asker' = CallEnded(a), tail' = QueueAfter(a)
  PROVE  QueueInv'
<1> USE MemoryAssumption
<1>1. /\ asker'[a].step = "ended"
      /\ \A b \in Askers : b # a => asker'[b] = asker[b]
  BY DEF MemoryTypes, CallEnded, NoCall
<1>2. \A b \in Askers : Ongoing(b)' <=> (Ongoing(b) /\ b # a)
  BY <1>1 DEF Ongoing
<1>3. InOrder'
  BY <1>1 DEF QueueInv, InOrder, Awaits, Ongoing
<1>4. TailIsLast'
  <2>1. tail \in Askers
    BY DEF QueueInv, TailIsLast, MemoryTypes
  <2>2. Ongoing(tail) /\ \A b \in Askers : tail < b => ~Ongoing(b)
    BY <2>1 DEF QueueInv, TailIsLast
  <2>3. CASE tail = a
    BY <1>2, <2>2, <2>3 DEF QueueAfter, TailIsLast, Alone
  <2>4. CASE tail # a
    BY <1>2, <2>1, <2>2, <2>4 DEF QueueAfter, TailIsLast
  <2> QED
    BY <2>3, <2>4
<1>5. FirstOut'
  BY <1>1, <1>2 DEF QueueInv, FirstOut, Alone
<1>6. \A c \in Askers : Ongoing(c)' => Behind(c)'
  BY <1>1, <1>2 DEF QueueInv, Behind
<1> QED
  BY <1>3, <1>4, <1>5, <1>6 DEF QueueInv

-----------------------------------------------------------------------------
(* The memory of a project: what is owed and what is gone *)

\* What a call is about to write has all that is owed and nothing that is gone
\* but for what the call itself takes back and brings; it writes to a page only
\* once there is one.
SaveIsFresh(a) ==
  /\ owed \ Asked[a].supersedes \subseteq asker[a].result
  /\ gone \cap asker[a].result \subseteq {Asked[a].memory}
  /\ Asked[a].memory \in asker[a].result
  /\ asker[a].on = "wiki" => hasWiki

RewriteIsFresh(a) ==
  /\ owed \ (asker[a].base \ asker[a].next) \subseteq asker[a].result
  /\ gone \cap asker[a].result \subseteq asker[a].next \ asker[a].base
  /\ asker[a].next \ asker[a].base \subseteq asker[a].result
  /\ asker[a].on = "wiki" => hasWiki

WritesFresh(a) ==
  /\ Awaits(a, "save") => asker[a].next = Merged(asker[a].base, a)
  /\ Awaits(a, "put") => SaveIsFresh(a)
  /\ Awaits(a, "replace") => RewriteIsFresh(a)

MemoryInv ==
  /\ MemoryTypes /\ QueueInv /\ MemoryIsKept
  /\ \A a \in Askers : WritesFresh(a)

LEMMA MemoryBegins == MemoryInit => MemoryInv
<1> SUFFICES ASSUME MemoryInit PROVE MemoryInv
  OBVIOUS
<1>1. NoCall \in CallType /\ NoCall.step = "idle"
  BY DEF NoCall, CallType
<1>2. MemoryTypes
  BY <1>1 DEF MemoryInit, MemoryTypes
<1>3. \A a \in Askers : asker[a].step = "idle"
  BY <1>1 DEF MemoryInit
<1>4. QueueInv
  BY <1>3 DEF MemoryInit, QueueInv, InOrder, TailIsLast, FirstOut, Ongoing, Awaits
<1>5. MemoryIsKept
  BY DEF MemoryInit, MemoryIsKept
<1> QED
  BY <1>2, <1>3, <1>4, <1>5 DEF MemoryInv, WritesFresh, Awaits

\* Beside a call that works, no other one has anything to write.
LEMMA OthersHaveNoWrite ==
  ASSUME NEW a \in Askers, Alone(a), \A b \in Askers : b # a => asker'[b] = asker[b]
  PROVE  \A b \in Askers : b # a => WritesFresh(b)'
  BY DEF Alone, WritesFresh, Awaits

\* A call that has ended, or that goes on without a write, owes nothing.
LEMMA NothingToWrite ==
  ASSUME NEW a \in Askers, asker'[a].step \notin {"save", "put", "replace"}
  PROVE  WritesFresh(a)'
  BY DEF WritesFresh, Awaits

LEMMA EndedCall ==
  ASSUME MemoryTypes, NEW a \in Askers, asker' = CallEnded(a), tail' = QueueAfter(a)
  PROVE  /\ asker' \in [Askers -> CallType] /\ tail' \in Askers \cup {0}
         /\ asker'[a].step = "ended"
         /\ \A b \in Askers : b # a => asker'[b] = asker[b]
<1>1. [NoCall EXCEPT !.step = "ended"] \in CallType
  BY DEF NoCall, CallType
<1>2. [NoCall EXCEPT !.step = "ended"].step = "ended"
  BY DEF NoCall
<1> QED
  BY <1>1, <1>2 DEF MemoryTypes, CallEnded, QueueAfter

\* A write that is fresh, by the call that lost and brings entries, keeps what is
\* owed and what is gone right, wherever the memory is by now.
LEMMA FreshWriteKeeps ==
  ASSUME MemoryTypes, MemoryIsKept, NEW a \in Askers,
         NEW lost, NEW brings \in SUBSET Memories, UNCHANGED hasWiki,
         Written(a), Accounts(a, lost, brings),
         owed \ lost \subseteq asker[a].result,
         gone \cap asker[a].result \subseteq brings,
         brings \subseteq asker[a].result,
         asker[a].on = "wiki" => hasWiki
  PROVE  /\ MemoryIsKept'
         /\ row' \subseteq Memories /\ wiki' \subseteq Memories \ Italic
         /\ owed' \subseteq Memories /\ gone' \subseteq Memories
<1>1. asker[a].result \subseteq Memories /\ asker[a].on \in {"store", "wiki"}
  BY DEF MemoryTypes, CallType
<1>2. row' \subseteq Memories /\ wiki' \subseteq Memories \ Italic
  BY <1>1 DEF MemoryTypes, Written, Rendered
<1>3. owed' \subseteq Memories /\ gone' \subseteq Memories /\ gone' = gone \ brings
  BY DEF MemoryTypes, Accounts
<1>4. CASE hasWiki /\ asker[a].on = "wiki"
  <2>1. wiki' = asker[a].result \ Italic /\ Kept = wiki /\ Kept' = wiki'
    BY <1>4 DEF Written, Rendered, Kept
  <2>2. owed' = (owed \ lost) \cup (brings \ Italic)
    BY <1>4 DEF Accounts, Backend
  <2>3. owed \cap Italic = {}
    BY <2>1 DEF MemoryIsKept, MemoryTypes
  <2> QED
    BY <1>2, <1>3, <2>1, <2>2, <2>3 DEF MemoryIsKept
<1>5. CASE hasWiki /\ asker[a].on = "store"
  <2>1. wiki' = wiki /\ Kept = wiki /\ Kept' = wiki'
    BY <1>5 DEF Written, Kept
  <2>2. owed' = owed \ lost
    BY <1>5 DEF Accounts, Backend
  <2> QED
    BY <1>2, <1>3, <2>1, <2>2 DEF MemoryIsKept
<1>6. CASE ~hasWiki
  <2>1. row' = asker[a].result /\ Kept' = row'
    BY <1>1, <1>6 DEF Written, Kept
  <2>2. owed' = (owed \ lost) \cup brings
    BY <1>1, <1>6 DEF Accounts, Backend
  <2> QED
    BY <1>2, <1>3, <2>1, <2>2 DEF MemoryIsKept
<1> QED
  BY <1>1, <1>4, <1>5, <1>6

LEMMA AskedTypes ==
  ASSUME NEW a \in Askers
  PROVE  Asked[a].memory \in Memories /\ Asked[a].supersedes \subseteq Memories
  BY MemoryAssumption

\* resolveBackend deletes a row that is not the memory.
LEMMA RowMayGo ==
  ASSUME MemoryTypes, row' = RowResolved, UNCHANGED <<wiki, hasWiki>>
  PROVE  row' \subseteq Memories /\ Kept' = Kept
  BY DEF MemoryTypes, RowResolved, Kept

LEMMA MemorySteps == MemoryInv /\ [MemoryNext]_memoryVars => MemoryInv'
<1> SUFFICES ASSUME MemoryInv, [MemoryNext]_memoryVars PROVE MemoryInv'
  OBVIOUS
<1>0. MemoryTypes /\ QueueInv /\ MemoryIsKept /\ \A a \in Askers : WritesFresh(a)
  BY DEF MemoryInv
<1>1. ASSUME NEW a \in Askers, Asks(a) PROVE MemoryInv'
  <2>1. /\ UNCHANGED <<row, wiki, hasWiki, edits, owed, gone>> /\ tail' = a
    BY <1>1 DEF Asks
  <2>2. PICK local \in BOOLEAN :
          asker' = [asker EXCEPT ![a] = [NoCall EXCEPT !.step = "queue", !.local = local, !.ahead = tail]]
    BY <1>1 DEF Asks
  <2>3. [NoCall EXCEPT !.step = "queue", !.local = local, !.ahead = tail] \in CallType
    BY <1>0 DEF MemoryTypes, NoCall, CallType
  <2>4. /\ asker' \in [Askers -> CallType] /\ asker'[a].step = "queue"
        /\ \A b \in Askers : b # a => asker'[b] = asker[b]
    BY <1>0, <2>2, <2>3 DEF MemoryTypes, NoCall
  <2>5. MemoryTypes' /\ MemoryIsKept'
    BY <1>0, <2>1, <2>4 DEF MemoryTypes, MemoryIsKept, Kept
  <2>6. \A b \in Askers : WritesFresh(b)'
    BY <1>0, <2>1, <2>4 DEF WritesFresh, Awaits, Merged, SaveIsFresh, RewriteIsFresh
  <2> QED
    BY <1>0, <1>1, <2>5, <2>6, QueueGrows DEF MemoryInv
<1>2. ASSUME NEW a \in Askers, LoadsMemory(a) PROVE MemoryInv'
  <2> DEFINE next == Merged(Kept, a)
  <2>1. /\ asker[a].step = "queue" /\ ItsTurn(a) /\ row' = RowResolved
        /\ UNCHANGED <<wiki, hasWiki>>
    BY <1>2 DEF LoadsMemory, Awaits
  <2>2. Ongoing(a) /\ Alone(a)
    BY <1>0, <2>1, TurnIsAlone DEF Ongoing
  <2>3. row' \subseteq Memories /\ Kept' = Kept
    BY <1>0, <2>1, RowMayGo
  <2>4. CASE next = Kept
    <3>1. /\ asker' = CallEnded(a) /\ tail' = QueueAfter(a)
          /\ owed' = owed \cup {Asked[a].memory} /\ gone' = gone \ {Asked[a].memory}
      BY <1>2, <2>4 DEF LoadsMemory
    <3>2. Asked[a].memory \in Kept
      BY <2>4 DEF Merged
    <3>3. MemoryIsKept'
      BY <1>0, <2>3, <3>1, <3>2 DEF MemoryIsKept
    <3>4. MemoryTypes'
      BY <1>0, <2>1, <2>3, <3>1, AskedTypes, EndedCall DEF MemoryTypes
    <3>5. \A b \in Askers : WritesFresh(b)'
      BY <1>0, <2>2, <3>1, EndedCall, OthersHaveNoWrite, NothingToWrite
    <3> QED
      BY <1>0, <2>2, <3>1, <3>3, <3>4, <3>5, QueueShrinks DEF MemoryInv
  <2>5. CASE next # Kept
    <3>1. /\ asker' = [asker EXCEPT ![a].step = "save", ![a].base = Kept, ![a].next = next]
          /\ UNCHANGED <<tail, owed, gone>>
      BY <1>2, <2>5 DEF LoadsMemory
    <3>2. Kept \subseteq Memories /\ next \subseteq Memories
      BY <1>0, AskedTypes DEF MemoryTypes, Kept, Merged
    <3> HIDE DEF next
    <3>3. [asker[a] EXCEPT !.step = "save", !.base = Kept, !.next = next] \in CallType
      BY <1>0, <3>2 DEF MemoryTypes, CallType
    <3>4. /\ asker' \in [Askers -> CallType]
          /\ asker'[a].step = "save" /\ asker'[a].base = Kept /\ asker'[a].next = next
          /\ asker'[a].ahead = asker[a].ahead
          /\ \A b \in Askers : b # a => asker'[b] = asker[b]
      BY <1>0, <3>1, <3>2, <3>3 DEF MemoryTypes, CallType
    <3>5. MemoryTypes' /\ MemoryIsKept'
      BY <1>0, <2>1, <2>3, <3>1, <3>4 DEF MemoryTypes, MemoryIsKept
    <3>6. WritesFresh(a)'
      BY <3>4 DEF WritesFresh, Awaits, Merged, next
    <3>7. \A b \in Askers : WritesFresh(b)'
      BY <2>2, <3>4, <3>6, OthersHaveNoWrite
    <3> QED
      BY <1>0, <2>2, <3>1, <3>4, <3>5, <3>7, QueueStays DEF MemoryInv
  <2> QED
    BY <2>4, <2>5
<1>3. ASSUME NEW a \in Askers, ReadsMemory(a) PROVE MemoryInv'
  <2> DEFINE writes == Mergeable(a) /\ ~(asker[a].local /\ hasWiki)
                       /\ (hasWiki \/ MergedOver(a) # Kept)
             finds == IF writes THEN MergedOver(a) ELSE Kept
             goesTo == IF ~writes THEN (IF Awaits(a, "save") THEN "check" ELSE "done")
                     ELSE IF Awaits(a, "save") THEN "put" ELSE "replace"
  <2>1. /\ asker[a].step \in {"save", "coalesced"} /\ row' = RowResolved
        /\ asker' = [asker EXCEPT ![a].step = goesTo, ![a].result = finds, ![a].on = Backend]
        /\ UNCHANGED <<wiki, hasWiki, tail, owed, gone>>
    BY <1>3 DEF ReadsMemory, Awaits
  <2>2. Ongoing(a) /\ Alone(a)
    BY <1>0, <2>1, TurnIsAlone DEF Ongoing, Awaits
  <2>3. row' \subseteq Memories /\ Kept' = Kept
    BY <1>0, <2>1, RowMayGo
  <2>4. Kept \subseteq Memories /\ finds \subseteq Memories
    BY <1>0 DEF MemoryTypes, CallType, Kept, MergedOver
  <2>5. Backend \in {"store", "wiki"} /\ (Backend = "wiki" => hasWiki)
    BY DEF Backend
  <2>6. /\ ~writes => goesTo \in {"check", "done"}
        /\ writes /\ asker[a].step = "save" => goesTo = "put"
        /\ writes /\ asker[a].step = "coalesced" => goesTo = "replace"
        /\ writes => /\ finds = asker[a].next \cup (Kept \ asker[a].base)
                     /\ asker[a].base \subseteq Kept
    BY DEF Awaits, Mergeable, MergedOver
  <2> HIDE DEF writes, finds, goesTo
  <2>7. goesTo \in {"check", "done", "put", "replace"}
    BY <2>1, <2>6
  <2>8. [asker[a] EXCEPT !.step = goesTo, !.result = finds, !.on = Backend] \in CallType
    BY <1>0, <2>4, <2>5, <2>7 DEF MemoryTypes, CallType
  <2>9. /\ asker' \in [Askers -> CallType]
        /\ asker'[a].step = goesTo /\ asker'[a].result = finds /\ asker'[a].on = Backend
        /\ asker'[a].ahead = asker[a].ahead /\ asker'[a].base = asker[a].base
        /\ asker'[a].next = asker[a].next
        /\ \A b \in Askers : b # a => asker'[b] = asker[b]
    BY <1>0, <2>1, <2>4, <2>5, <2>8 DEF MemoryTypes, CallType
  <2>10. MemoryTypes' /\ MemoryIsKept'
    BY <1>0, <2>1, <2>3, <2>9 DEF MemoryTypes, MemoryIsKept
  <2>11. ASSUME writes, asker[a].step = "save" PROVE SaveIsFresh(a)' /\ asker'[a].step = "put"
    <3>1. asker[a].next = (asker[a].base \ Asked[a].supersedes) \cup {Asked[a].memory}
      BY <1>0, <2>11 DEF WritesFresh, Awaits, Merged
    <3>2. /\ asker'[a].result = asker[a].next \cup (Kept \ asker[a].base)
          /\ asker[a].base \subseteq Kept
      BY <2>6, <2>9, <2>11
    <3> QED
      BY <1>0, <2>1, <2>5, <2>6, <2>9, <2>11, <3>1, <3>2 DEF MemoryIsKept, SaveIsFresh
  <2>12. ASSUME writes, asker[a].step = "coalesced"
         PROVE  RewriteIsFresh(a)' /\ asker'[a].step = "replace"
    <3>1. /\ asker'[a].result = asker[a].next \cup (Kept \ asker[a].base)
          /\ asker[a].base \subseteq Kept
      BY <2>6, <2>9, <2>12
    <3> QED
      BY <1>0, <2>1, <2>5, <2>6, <2>9, <2>12, <3>1 DEF MemoryIsKept, RewriteIsFresh
  <2>13. ~writes => asker'[a].step \in {"check", "done"}
    BY <2>6, <2>9
  <2>14. WritesFresh(a)'
    BY <2>1, <2>11, <2>12, <2>13 DEF WritesFresh, Awaits
  <2>15. \A b \in Askers : WritesFresh(b)'
    BY <2>2, <2>9, <2>14, OthersHaveNoWrite
  <2>16. asker'[a].step \notin {"idle", "ended"}
    BY <2>7, <2>9
  <2> QED
    BY <1>0, <2>1, <2>2, <2>9, <2>10, <2>15, <2>16, QueueStays DEF MemoryInv
<1>4. ASSUME NEW a \in Askers, Puts(a) PROVE MemoryInv'
  <2>1. /\ asker[a].step = "put" /\ asker' = [asker EXCEPT ![a].step = "check"]
        /\ Written(a) /\ Accounts(a, Asked[a].supersedes, {Asked[a].memory})
        /\ UNCHANGED <<hasWiki, tail>>
    BY <1>4 DEF Puts, Awaits
  <2>2. Ongoing(a) /\ Alone(a)
    BY <1>0, <2>1, TurnIsAlone DEF Ongoing, Awaits
  <2>3. /\ asker' \in [Askers -> CallType] /\ asker'[a].step = "check"
        /\ asker'[a].ahead = asker[a].ahead
        /\ \A b \in Askers : b # a => asker'[b] = asker[b]
    BY <1>0, <2>1 DEF MemoryTypes, CallType
  <2>4. SaveIsFresh(a)
    BY <1>0, <2>1 DEF WritesFresh, Awaits
  <2>5. /\ MemoryIsKept'
        /\ row' \subseteq Memories /\ wiki' \subseteq Memories \ Italic
        /\ owed' \subseteq Memories /\ gone' \subseteq Memories
    BY <1>0, <2>1, <2>4, AskedTypes, FreshWriteKeeps DEF SaveIsFresh
  <2>6. MemoryTypes'
    BY <1>0, <2>1, <2>3, <2>5 DEF MemoryTypes
  <2>7. \A b \in Askers : WritesFresh(b)'
    BY <2>2, <2>3, OthersHaveNoWrite, NothingToWrite
  <2> QED
    BY <1>0, <2>1, <2>2, <2>3, <2>5, <2>6, <2>7, QueueStays DEF MemoryInv
<1>5. ASSUME NEW a \in Askers, ChecksSave(a) PROVE MemoryInv'
  <2> DEFINE again == Merged(asker[a].result, a)
  <2>1. asker[a].step = "check" /\ UNCHANGED <<row, wiki, hasWiki, owed, gone>>
    BY <1>5 DEF ChecksSave, Awaits
  <2>2. Ongoing(a) /\ Alone(a)
    BY <1>0, <2>1, TurnIsAlone DEF Ongoing, Awaits
  <2>3. asker[a].result \subseteq Memories /\ again \subseteq Memories /\ asker[a].tries \in Nat
    BY <1>0, AskedTypes DEF MemoryTypes, CallType, Merged
  <2>4. MemoryIsKept'
    BY <1>0, <2>1 DEF MemoryIsKept, Kept
  <2>5. CASE asker' = CallEnded(a) /\ tail' = QueueAfter(a)
    <3>1. MemoryTypes'
      BY <1>0, <2>1, <2>5, EndedCall DEF MemoryTypes
    <3>2. \A b \in Askers : WritesFresh(b)'
      BY <1>0, <2>2, <2>5, EndedCall, OthersHaveNoWrite, NothingToWrite
    <3> QED
      BY <1>0, <2>2, <2>4, <2>5, <3>1, <3>2, QueueShrinks DEF MemoryInv
  <2>6. CASE asker' = [asker EXCEPT ![a] = [asker[a] EXCEPT !.step = "coalesce"]] /\ tail' = tail
    <3>1. /\ asker' \in [Askers -> CallType] /\ asker'[a].step = "coalesce"
          /\ asker'[a].ahead = asker[a].ahead
          /\ \A b \in Askers : b # a => asker'[b] = asker[b]
      BY <1>0, <2>6 DEF MemoryTypes, CallType
    <3>2. MemoryTypes'
      BY <1>0, <2>1, <2>6, <3>1 DEF MemoryTypes
    <3>3. \A b \in Askers : WritesFresh(b)'
      BY <2>2, <3>1, OthersHaveNoWrite, NothingToWrite
    <3> QED
      BY <1>0, <2>2, <2>4, <2>6, <3>1, <3>2, <3>3, QueueStays DEF MemoryInv
  <2>7. CASE /\ asker' = [asker EXCEPT ![a].step = "save", ![a].tries = @ + 1,
                                       ![a].base = asker[a].result, ![a].next = again]
             /\ tail' = tail
    <3>1. /\ asker' \in [Askers -> CallType] /\ asker'[a].step = "save"
          /\ asker'[a].ahead = asker[a].ahead
          /\ asker'[a].base = asker[a].result /\ asker'[a].next = again
          /\ \A b \in Askers : b # a => asker'[b] = asker[b]
      BY <1>0, <2>3, <2>7 DEF MemoryTypes, CallType
    <3>2. MemoryTypes'
      BY <1>0, <2>1, <2>7, <3>1 DEF MemoryTypes
    <3>3. WritesFresh(a)'
      BY <3>1 DEF WritesFresh, Awaits, Merged
    <3>4. \A b \in Askers : WritesFresh(b)'
      BY <2>2, <3>1, <3>3, OthersHaveNoWrite
    <3> QED
      BY <1>0, <2>2, <2>4, <2>7, <3>1, <3>2, <3>4, QueueStays DEF MemoryInv
  <2> QED
    BY <1>5, <2>5, <2>6, <2>7 DEF ChecksSave
<1>6. ASSUME NEW a \in Askers, Coalesces(a) PROVE MemoryInv'
  <2>1. asker[a].step = "coalesce" /\ UNCHANGED <<row, wiki, hasWiki, tail, edits, owed, gone>>
    BY <1>6 DEF Coalesces, Awaits
  <2>2. PICK rewritten \in SUBSET Memories \ {{}} :
          asker' = [asker EXCEPT ![a].step = "coalesced", ![a].base = asker[a].result, ![a].next = rewritten]
    BY <1>6 DEF Coalesces
  <2>3. Ongoing(a) /\ Alone(a)
    BY <1>0, <2>1, TurnIsAlone DEF Ongoing, Awaits
  <2>4. [asker[a] EXCEPT !.step = "coalesced", !.base = asker[a].result, !.next = rewritten] \in CallType
    BY <1>0, <2>2 DEF MemoryTypes, CallType
  <2>5. /\ asker' \in [Askers -> CallType] /\ asker'[a].step = "coalesced"
        /\ asker'[a].ahead = asker[a].ahead
        /\ \A b \in Askers : b # a => asker'[b] = asker[b]
    BY <1>0, <2>2, <2>4 DEF MemoryTypes, CallType
  <2>6. MemoryTypes' /\ MemoryIsKept'
    BY <1>0, <2>1, <2>5 DEF MemoryTypes, MemoryIsKept, Kept
  <2>7. \A b \in Askers : WritesFresh(b)'
    BY <2>3, <2>5, OthersHaveNoWrite, NothingToWrite
  <2> QED
    BY <1>0, <2>1, <2>3, <2>5, <2>6, <2>7, QueueStays DEF MemoryInv
<1>7. ASSUME NEW a \in Askers, Replaces(a) PROVE MemoryInv'
  <2>1. /\ asker[a].step = "replace" /\ asker' = [asker EXCEPT ![a].step = "done"]
        /\ Written(a)
        /\ Accounts(a, asker[a].base \ asker[a].next, asker[a].next \ asker[a].base)
        /\ UNCHANGED <<hasWiki, tail>>
    BY <1>7 DEF Replaces, Awaits
  <2>2. Ongoing(a) /\ Alone(a)
    BY <1>0, <2>1, TurnIsAlone DEF Ongoing, Awaits
  <2>3. /\ asker' \in [Askers -> CallType] /\ asker'[a].step = "done"
        /\ asker'[a].ahead = asker[a].ahead
        /\ \A b \in Askers : b # a => asker'[b] = asker[b]
    BY <1>0, <2>1 DEF MemoryTypes, CallType
  <2>4. RewriteIsFresh(a) /\ asker[a].next \ asker[a].base \in SUBSET Memories
    BY <1>0, <2>1 DEF WritesFresh, Awaits, MemoryTypes, CallType
  <2>5. /\ MemoryIsKept'
        /\ row' \subseteq Memories /\ wiki' \subseteq Memories \ Italic
        /\ owed' \subseteq Memories /\ gone' \subseteq Memories
    BY <1>0, <2>1, <2>4, FreshWriteKeeps DEF RewriteIsFresh
  <2>6. MemoryTypes'
    BY <1>0, <2>1, <2>3, <2>5 DEF MemoryTypes
  <2>7. \A b \in Askers : WritesFresh(b)'
    BY <2>2, <2>3, OthersHaveNoWrite, NothingToWrite
  <2> QED
    BY <1>0, <2>1, <2>2, <2>3, <2>5, <2>6, <2>7, QueueStays DEF MemoryInv
<1>8. ASSUME NEW a \in Askers, EndsCall(a) PROVE MemoryInv'
  <2>1. /\ asker[a].step = "done" /\ asker' = CallEnded(a) /\ tail' = QueueAfter(a)
        /\ UNCHANGED <<row, wiki, hasWiki, edits, owed, gone>>
    BY <1>8 DEF EndsCall, Awaits
  <2>2. Ongoing(a) /\ Alone(a)
    BY <1>0, <2>1, TurnIsAlone DEF Ongoing, Awaits
  <2>3. MemoryTypes' /\ MemoryIsKept'
    BY <1>0, <2>1, EndedCall DEF MemoryTypes, MemoryIsKept, Kept
  <2>4. \A b \in Askers : WritesFresh(b)'
    BY <1>0, <2>1, <2>2, EndedCall, OthersHaveNoWrite, NothingToWrite
  <2> QED
    BY <1>0, <2>1, <2>2, <2>3, <2>4, QueueShrinks DEF MemoryInv
<1>9. ASSUME NEW a \in Askers, MemoryCallFails(a) PROVE MemoryInv'
  <2>1. /\ Ongoing(a) /\ ItsTurn(a) /\ asker' = CallEnded(a) /\ tail' = QueueAfter(a)
        /\ UNCHANGED hasWiki
    BY <1>9 DEF MemoryCallFails
  <2>2. Alone(a)
    BY <1>0, <2>1, TurnIsAlone
  <2>3. /\ MemoryIsKept'
        /\ row' \subseteq Memories /\ wiki' \subseteq Memories \ Italic
        /\ owed' \subseteq Memories /\ gone' \subseteq Memories
    <3>1. CASE UNCHANGED <<row, wiki, owed, gone>>
      BY <1>0, <2>1, <3>1 DEF MemoryIsKept, MemoryTypes, Kept
    <3>2. CASE /\ Awaits(a, "put")
               /\ Written(a) /\ Accounts(a, Asked[a].supersedes, {Asked[a].memory})
      <4>1. SaveIsFresh(a)
        BY <1>0, <3>2 DEF WritesFresh
      <4> QED
        BY <1>0, <2>1, <3>2, <4>1, AskedTypes, FreshWriteKeeps DEF SaveIsFresh
    <3>3. CASE /\ Awaits(a, "replace")
               /\ Written(a)
               /\ Accounts(a, asker[a].base \ asker[a].next, asker[a].next \ asker[a].base)
      <4>1. RewriteIsFresh(a) /\ asker[a].next \ asker[a].base \in SUBSET Memories
        BY <1>0, <3>3 DEF WritesFresh, MemoryTypes, CallType
      <4> QED
        BY <1>0, <2>1, <3>3, <4>1, FreshWriteKeeps DEF RewriteIsFresh
    <3> QED
      BY <1>9, <3>1, <3>2, <3>3 DEF MemoryCallFails
  <2>4. MemoryTypes'
    BY <1>0, <2>1, <2>3, EndedCall DEF MemoryTypes
  <2>5. \A b \in Askers : WritesFresh(b)'
    BY <1>0, <2>1, <2>2, EndedCall, OthersHaveNoWrite, NothingToWrite
  <2> QED
    BY <1>0, <2>1, <2>2, <2>3, <2>4, <2>5, QueueShrinks DEF MemoryInv
<1>10. CASE OthersEdit
  <2> DEFINE Edited(m) == IF m \in Kept THEN Kept \ {m} ELSE Kept \cup {m}
  <2>1. PICK m \in Memories :
          /\ m \in Kept \/ m \notin Italic
          /\ IF hasWiki THEN wiki' = Edited(m) /\ UNCHANGED row ELSE row' = Edited(m) /\ UNCHANGED wiki
          /\ owed' = IF m \in Edited(m) /\ ~UnderWay THEN owed \cup {m} ELSE owed \ {m}
          /\ gone' = IF m \notin Edited(m) /\ ~UnderWay THEN gone \cup {m} ELSE gone \ {m}
    BY <1>10 DEF OthersEdit
  <2>2. UNCHANGED <<hasWiki, asker, tail>>
    BY <1>10 DEF OthersEdit
  <2>3. Kept' = Edited(m)
    BY <2>1, <2>2 DEF Kept
  <2>4. row' \subseteq Memories /\ wiki' \subseteq Memories \ Italic
    BY <1>0, <2>1 DEF MemoryTypes, Kept
  <2>5. MemoryTypes'
    BY <1>0, <2>1, <2>2, <2>4 DEF MemoryTypes
  <2>6. MemoryIsKept'
    BY <1>0, <2>1, <2>3 DEF MemoryIsKept
  <2>7. \A a \in Askers : WritesFresh(a)'
    <3>1. CASE UnderWay
      <4>1. owed' \subseteq owed /\ gone' \subseteq gone
        BY <2>1, <3>1
      <4> QED
        BY <1>0, <2>2, <4>1 DEF WritesFresh, Awaits, Merged, SaveIsFresh, RewriteIsFresh
    <3>2. CASE ~UnderWay
      BY <1>0, <2>2, <3>2 DEF WritesFresh, Awaits, Merged, UnderWay
    <3> QED
      BY <3>1, <3>2
  <2>8. QueueInv'
    BY <1>0, <2>2 DEF QueueInv, InOrder, TailIsLast, FirstOut, Behind, Ongoing, Awaits
  <2> QED
    BY <2>5, <2>6, <2>7, <2>8 DEF MemoryInv
<1>11. CASE WikiEnabled
  <2>1. /\ hasWiki' = TRUE /\ owed' = {} /\ gone' = {}
        /\ UNCHANGED <<row, wiki, asker, tail>>
    BY <1>11 DEF WikiEnabled
  <2>2. MemoryTypes' /\ MemoryIsKept'
    BY <1>0, <2>1 DEF MemoryTypes, MemoryIsKept
  <2>3. \A a \in Askers : WritesFresh(a)'
    BY <1>0, <2>1 DEF WritesFresh, Awaits, Merged, SaveIsFresh, RewriteIsFresh
  <2>4. QueueInv'
    BY <1>0, <2>1 DEF QueueInv, InOrder, TailIsLast, FirstOut, Behind, Ongoing, Awaits
  <2> QED
    BY <2>2, <2>3, <2>4 DEF MemoryInv
<1>12. CASE UNCHANGED memoryVars
  <2>1. UNCHANGED <<row, wiki, hasWiki, asker, tail, owed, gone>>
    BY <1>12 DEF memoryVars
  <2>2. MemoryTypes' /\ MemoryIsKept'
    BY <1>0, <2>1 DEF MemoryTypes, MemoryIsKept, Kept
  <2>3. \A a \in Askers : WritesFresh(a)'
    BY <1>0, <2>1 DEF WritesFresh, Awaits, Merged, SaveIsFresh, RewriteIsFresh
  <2>4. QueueInv'
    BY <1>0, <2>1 DEF QueueInv, InOrder, TailIsLast, FirstOut, Behind, Ongoing, Awaits
  <2> QED
    BY <2>2, <2>3, <2>4 DEF MemoryInv
<1> QED
  BY <1>1, <1>2, <1>3, <1>4, <1>5, <1>6, <1>7, <1>8, <1>9, <1>10, <1>11, <1>12 DEF MemoryNext

\* Entries that were written or confirmed are remembered, and those that were
\* taken back stay away, whatever calls, failures, people and the change to a
\* wiki come between the reading and the writing of a call.
THEOREM EntriesAreKept == MemorySpec => []MemoryIsKept
<1>1. MemoryInv => MemoryIsKept
  BY DEF MemoryInv
<1> QED
  BY MemoryBegins, MemorySteps, <1>1, PTL DEF MemorySpec

-----------------------------------------------------------------------------
(* The directories of a job's attempts *)

WorkspaceSpec == WorkspaceInit /\ [][WorkspaceNext]_workspaceVars

DirType ==
  [there : BOOLEAN, remote : BOOLEAN, head : Nat, base : Nat, tree : Nat, whole : BOOLEAN,
   config : BOOLEAN]
GitSteps == {"fetch", "base", "manifest", "checkout", "detach"}
ReadySteps == {"register", "work", "session"}
TryType ==
  [step : {"idle", "reset", "archive", "files", "cleanup", "ended"} \cup GitSteps \cup ReadySteps,
   owned : BOOLEAN, head : Nat, base : Nat, strategy : {"none", "git", "archive", "files"},
   manifest : Nat \X Nat, looked : SUBSET (Nat \X Nat), sessions : 0 .. MaxSessions, turns : 0 .. MaxTurns,
   left : {"nothing", "not removed", "not prepared", "lease lost", "crash", "no attempt"}]

WorkspaceTypes ==
  /\ site \in {"github", "gitlab"} /\ pushed \in 1 .. MaxPushes /\ swept \subseteq Tries
  /\ disk \in [Tries \cup {0} -> DirType] /\ prep \in [Tries -> TryType]

\* What each step of Git has brought about in the directory is there at the
\* next one, and until a session runs no model has looked at anything.
Underway(a) ==
  LET d == disk[a]
      t == prep[a]
  IN  /\ t.step \in {"idle", "reset", "archive", "files", "register"} \cup GitSteps
           => t.looked = {}
      /\ t.step \in {"base", "manifest", "checkout", "detach"} => d.there /\ d.head = t.head
      /\ t.step \in {"manifest", "checkout", "detach"} => d.base = t.base
      /\ t.step \in {"checkout", "detach"} => t.manifest = <<d.base, d.head>>
      /\ t.step = "detach" => d.tree = t.head /\ d.whole
      /\ t.step \in ReadySteps => Exact(a)

\* An attempt that ended with nothing to leave behind has left nothing.
NothingLeft(a) == In(a, "ended") /\ prep[a].left = "nothing" => ~disk[a].there

WorkspaceInv ==
  /\ WorkspaceTypes
  /\ \A a \in Tries : (a \notin swept => Underway(a)) /\ NothingLeft(a)

LEMMA NoTryYet ==
  /\ NoTry \in TryType /\ NoTry.step = "idle" /\ NoTry.looked = {}
  /\ NoTry.sessions = 0 /\ NoTry.turns = 0
<1>1. 0 \in 0 .. MaxSessions /\ 0 \in 0 .. MaxTurns
  BY WorkspaceAssumption
<1>2. QED
  BY <1>1 DEF NoTry, TryType

LEMMA DirTypes ==
  ASSUME WorkspaceTypes, NEW a \in Tries
  PROVE  /\ disk[a] \in DirType /\ prep[a] \in TryType
         /\ NoDir \in DirType /\ NewDir \in DirType /\ RootReset(a) \in DirType
         /\ RootReset(a).there /\ ~RootReset(a).remote
         /\ RootReset(a).head = 0 /\ RootReset(a).base = 0 /\ RootReset(a).tree = 0
         /\ NewDir.there /\ ~NoDir.there
<1>1. disk[a] \in DirType /\ prep[a] \in TryType
  BY DEF WorkspaceTypes
<1>2. NoDir \in DirType /\ ~NoDir.there
  BY DEF NoDir, DirType
<1>3. /\ NewDir \in DirType /\ NewDir.there /\ ~NewDir.remote
      /\ NewDir.head = 0 /\ NewDir.base = 0 /\ NewDir.tree = 0
  BY DEF NewDir, NoDir, DirType
<1>4. disk[a].config \in BOOLEAN /\ RootReset(a) = [NewDir EXCEPT !.config = disk[a].config]
  BY <1>1 DEF DirType, RootReset, Dir, DirOf
<1>5. /\ RootReset(a) \in DirType /\ RootReset(a).there /\ ~RootReset(a).remote
      /\ RootReset(a).head = 0 /\ RootReset(a).base = 0 /\ RootReset(a).tree = 0
  BY <1>3, <1>4 DEF DirType
<1> QED
  BY <1>1, <1>2, <1>3, <1>5

\* The invariant of an attempt depends on its record and its directory only.
LEMMA OtherTries ==
  ASSUME WorkspaceInv, NEW a, swept' = swept,
         \A b \in Tries : b # a => disk'[b] = disk[b] /\ prep'[b] = prep[b]
  PROVE  \A b \in Tries : b # a => (b \notin swept' => Underway(b)') /\ NothingLeft(b)'
  BY DEF WorkspaceInv, Underway, NothingLeft, Exact, Dir, DirOf, In

\* A step of one attempt, that may change its directory.
LEMMA OneTry ==
  ASSUME WorkspaceInv, NEW a \in Tries, NEW d \in DirType, NEW t \in TryType,
         disk' = [disk EXCEPT ![a] = d], prep' = [prep EXCEPT ![a] = t],
         UNCHANGED <<site, pushed, swept>>,
         a \notin swept => Underway(a)', NothingLeft(a)'
  PROVE  WorkspaceInv'
<1>1. WorkspaceTypes'
  BY DEF WorkspaceInv, WorkspaceTypes
<1>2. \A b \in Tries : b # a => disk'[b] = disk[b] /\ prep'[b] = prep[b]
  BY DEF WorkspaceInv, WorkspaceTypes
<1> QED
  BY <1>1, <1>2, OtherTries DEF WorkspaceInv

\* An attempt stops: only a directory that is gone is said to be.
LEMMA TryStops ==
  ASSUME WorkspaceInv, NEW a \in Tries, NEW d \in DirType, NEW reason,
         reason \in {"nothing", "not removed", "not prepared", "lease lost", "crash", "no attempt"},
         reason = "nothing" => ~d.there,
         disk' = [disk EXCEPT ![a] = d], prep' = Stops(a, reason),
         UNCHANGED <<site, pushed, swept>>
  PROVE  WorkspaceInv'
<1> DEFINE t == [NoTry EXCEPT !.step = "ended", !.left = reason]
<1>1. t \in TryType /\ t.step = "ended" /\ t.left = reason
  BY NoTryYet DEF TryType
<1>2. prep' = [prep EXCEPT ![a] = t]
  BY DEF Stops
<1> HIDE DEF t
<1>3. disk'[a] = d /\ prep'[a] = t
  BY <1>2 DEF WorkspaceInv, WorkspaceTypes
<1>4. Underway(a)' /\ NothingLeft(a)'
  BY <1>1, <1>3 DEF Underway, NothingLeft, GitSteps, ReadySteps, In
<1> QED
  BY <1>1, <1>2, <1>4, OneTry

LEMMA WorkspaceBegins == WorkspaceInit => WorkspaceInv
<1> SUFFICES ASSUME WorkspaceInit PROVE WorkspaceInv
  OBVIOUS
<1>1. NoDir \in DirType
  BY DEF NoDir, DirType
<1>2. NoTry \in TryType /\ NoTry.step = "idle" /\ NoTry.looked = {}
  BY NoTryYet
<1>3. WorkspaceTypes
  <2>1. 1 \in 1 .. MaxPushes
    BY WorkspaceAssumption
  <2>2. QED
    BY <1>1, <1>2, <2>1 DEF WorkspaceInit, WorkspaceTypes
<1>4. \A a \in Tries : prep[a].step = "idle" /\ prep[a].looked = {}
  BY <1>2 DEF WorkspaceInit
<1> QED
  BY <1>3, <1>4 DEF WorkspaceInv, Underway, NothingLeft, GitSteps, ReadySteps, In

\* A step of one attempt that goes on, with what it leaves in the directory.
LEMMA TryWorks ==
  ASSUME WorkspaceInv, NEW a \in Tries, NEW d \in DirType, NEW t \in TryType,
         disk' = [disk EXCEPT ![a] = d], prep' = [prep EXCEPT ![a] = t],
         UNCHANGED <<site, pushed, swept>>, t.step # "ended", a \notin swept => Underway(a)'
  PROVE  WorkspaceInv'
<1>1. prep'[a] = t
  BY DEF WorkspaceInv, WorkspaceTypes
<1> QED
  BY <1>1, OneTry DEF NothingLeft, In

\* The same without a look at the disk.
LEMMA TryGoesOn ==
  ASSUME WorkspaceInv, NEW a \in Tries, NEW t \in TryType, prep' = [prep EXCEPT ![a] = t],
         UNCHANGED <<site, pushed, disk, swept>>, t.step # "ended",
         a \notin swept => Underway(a)'
  PROVE  WorkspaceInv'
<1>1. disk[a] \in DirType /\ disk' = [disk EXCEPT ![a] = disk[a]]
  BY DEF WorkspaceInv, WorkspaceTypes
<1> QED
  BY <1>1, TryWorks

\* An attempt that takes its next step keeps the rest of its record.
LEMMA NextStep ==
  ASSUME WorkspaceTypes, NEW a \in Tries,
         NEW s \in {"reset", "archive", "files", "cleanup"} \cup GitSteps \cup ReadySteps
  PROVE  LET t == [prep[a] EXCEPT !.step = s]
         IN  /\ t \in TryType /\ t.step = s /\ StepTo(a, s) = [prep EXCEPT ![a] = t]
             /\ t.head = prep[a].head /\ t.base = prep[a].base
             /\ t.strategy = prep[a].strategy /\ t.manifest = prep[a].manifest
             /\ t.looked = prep[a].looked
<1> DEFINE t == [prep[a] EXCEPT !.step = s]
<1>1. prep[a] \in TryType
  BY DEF WorkspaceTypes
<1>2. t \in TryType
  BY <1>1 DEF TryType
<1>3. /\ t.step = s /\ t.head = prep[a].head /\ t.base = prep[a].base
      /\ t.strategy = prep[a].strategy /\ t.manifest = prep[a].manifest
      /\ t.looked = prep[a].looked
  BY <1>1 DEF TryType
<1>4. StepTo(a, s) = [prep EXCEPT ![a] = t]
  BY DEF StepTo
<1> QED
  BY <1>2, <1>3, <1>4

LEMMA WorkspaceSteps == WorkspaceInv /\ [WorkspaceNext]_workspaceVars => WorkspaceInv'
<1> SUFFICES ASSUME WorkspaceInv, [WorkspaceNext]_workspaceVars PROVE WorkspaceInv'
  OBVIOUS
<1>0. WorkspaceTypes /\ \A a \in Tries : (a \notin swept => Underway(a)) /\ NothingLeft(a)
  BY DEF WorkspaceInv
<1>1. CASE Pushes
  <2>1. pushed' \in 1 .. MaxPushes /\ UNCHANGED <<site, disk, prep, swept>>
    BY <1>0, <1>1, WorkspaceAssumption DEF Pushes, WorkspaceTypes
  <2>2. WorkspaceTypes'
    BY <1>0, <2>1 DEF WorkspaceTypes
  <2> QED
    BY <1>0, <2>1, <2>2 DEF WorkspaceInv, Underway, NothingLeft, Exact, Dir, DirOf, In
<1>2. ASSUME NEW a \in Tries, ClaimsJob(a) PROVE WorkspaceInv'
  <2>1. prep[a].step = "idle" /\ UNCHANGED <<site, pushed, disk, swept>>
    BY <1>2 DEF ClaimsJob, In
  <2>2. PICK head \in 1..pushed : \E base \in {0, head} :
          prep' = [prep EXCEPT ![a].step = "reset", ![a].owned = TRUE,
                               ![a].head = head, ![a].base = base]
    BY <1>2 DEF ClaimsJob
  <2>3. PICK base \in {0, head} :
          prep' = [prep EXCEPT ![a].step = "reset", ![a].owned = TRUE,
                               ![a].head = head, ![a].base = base]
    BY <2>2
  <2> DEFINE t == [prep[a] EXCEPT !.step = "reset", !.owned = TRUE, !.head = head, !.base = base]
  <2>4. head \in Nat /\ base \in Nat
    BY <1>0, <2>2, <2>3 DEF WorkspaceTypes
  <2>5. prep[a] \in TryType
    BY <1>0 DEF WorkspaceTypes
  <2>6. t \in TryType
    BY <2>4, <2>5 DEF TryType
  <2>7. t.step = "reset" /\ t.looked = prep[a].looked /\ prep' = [prep EXCEPT ![a] = t]
    BY <1>0, <2>3 DEF WorkspaceTypes, TryType
  <2> HIDE DEF t
  <2>8. prep'[a] = t
    BY <1>0, <2>7 DEF WorkspaceTypes
  <2>9. a \notin swept => Underway(a)'
    BY <1>0, <2>1, <2>7, <2>8 DEF Underway, GitSteps, ReadySteps
  <2>10. t.step # "ended"
    BY <2>7
  <2> QED
    BY <2>1, <2>6, <2>7, <2>9, <2>10, TryGoesOn
<1>3. ASSUME NEW a \in Tries, ClaimIsLost(a) PROVE WorkspaceInv'
  <2> DEFINE t == [prep[a] EXCEPT !.owned = FALSE]
  <2>1. /\ prep[a].step # "ended" /\ prep' = [prep EXCEPT ![a].owned = FALSE]
        /\ UNCHANGED <<site, pushed, disk, swept>>
    BY <1>3 DEF ClaimIsLost, Over, In
  <2>2. t \in TryType
    <3>1. prep[a] \in TryType
      BY <1>0 DEF WorkspaceTypes
    <3>2. QED
      BY <3>1 DEF TryType
  <2>3. /\ t.step = prep[a].step /\ t.head = prep[a].head /\ t.base = prep[a].base
        /\ t.strategy = prep[a].strategy /\ t.manifest = prep[a].manifest
        /\ t.looked = prep[a].looked /\ prep' = [prep EXCEPT ![a] = t]
    BY <1>0, <2>1 DEF WorkspaceTypes, TryType
  <2> HIDE DEF t
  <2>4. prep'[a] = t
    BY <1>0, <2>3 DEF WorkspaceTypes
  <2>5. a \notin swept => Underway(a)'
    BY <1>0, <2>1, <2>3, <2>4 DEF Underway, Exact, Dir, DirOf
  <2> QED
    BY <2>1, <2>2, <2>3, <2>5, TryGoesOn
<1>4. ASSUME NEW a \in Tries, ResetsDirectory(a) PROVE WorkspaceInv'
  <2> DEFINE to == IF prep[a].base = 0 THEN "archive" ELSE "fetch"
             t == [prep[a] EXCEPT !.step = to]
  <2>1. /\ prep[a].step = "reset" /\ disk' = [disk EXCEPT ![a] = NewDir] /\ prep' = StepTo(a, to)
        /\ UNCHANGED <<site, pushed, swept>> /\ to \in {"archive", "fetch"}
    BY <1>4 DEF ResetsDirectory, In, OnDisk, DirOf
  <2> HIDE DEF to
  <2>2. /\ t \in TryType /\ t.step = to /\ prep' = [prep EXCEPT ![a] = t]
        /\ t.looked = prep[a].looked
    BY <1>0, <2>1, NextStep DEF GitSteps
  <2> HIDE DEF t
  <2>3. prep'[a] = t
    BY <1>0, <2>2 DEF WorkspaceTypes
  <2>4. t.step # "ended" /\ (a \notin swept => Underway(a)')
    BY <1>0, <2>1, <2>2, <2>3 DEF Underway, GitSteps, ReadySteps
  <2> QED
    BY <1>0, <2>1, <2>2, <2>4, DirTypes, TryWorks
<1>5. ASSUME NEW a \in Tries, FetchesHead(a) PROVE WorkspaceInv'
  <2> DEFINE d == [RootReset(a) EXCEPT !.remote = TRUE, !.head = prep[a].head]
             t == [prep[a] EXCEPT !.step = "base"]
  <2>1. /\ prep[a].step = "fetch" /\ disk[a].there
        /\ disk' = [disk EXCEPT ![a] = d] /\ prep' = StepTo(a, "base")
        /\ UNCHANGED <<site, pushed, swept>>
    BY <1>5 DEF FetchesHead, OnDisk, In, Dir, DirOf, Fetched
  <2>2. /\ d \in DirType
        /\ d.there /\ d.head = prep[a].head
    BY <1>0, <2>1, DirTypes DEF DirType, TryType
  <2>3. /\ t \in TryType /\ t.step = "base" /\ prep' = [prep EXCEPT ![a] = t]
        /\ t.head = prep[a].head /\ t.base = prep[a].base
        /\ t.manifest = prep[a].manifest /\ t.looked = prep[a].looked
    BY <1>0, <2>1, NextStep DEF GitSteps, ReadySteps
  <2> HIDE DEF d, t
  <2>4. disk'[a] = d /\ prep'[a] = t
    BY <1>0, <2>1, <2>3 DEF WorkspaceTypes
  <2>5. t.step # "ended" /\ (a \notin swept => Underway(a)')
    BY <1>0, <2>1, <2>2, <2>3, <2>4 DEF Underway, Exact, Dir, DirOf, GitSteps, ReadySteps
  <2> QED
    BY <2>1, <2>2, <2>3, <2>5, TryWorks
<1>6. ASSUME NEW a \in Tries, FetchesBase(a) PROVE WorkspaceInv'
  <2> DEFINE d == [disk[a] EXCEPT !.base = prep[a].base]
             t == [prep[a] EXCEPT !.step = "manifest"]
  <2>1. /\ prep[a].step = "base" /\ disk[a].head = prep[a].head
        /\ disk' = [disk EXCEPT ![a] = d] /\ prep' = StepTo(a, "manifest")
        /\ UNCHANGED <<site, pushed, swept>>
    BY <1>6 DEF FetchesBase, OnDisk, In, Dir, DirOf
  <2>2. /\ d \in DirType
        /\ d.there = disk[a].there /\ d.head = disk[a].head /\ d.base = prep[a].base
    BY <1>0, <2>1, DirTypes DEF DirType, TryType
  <2>3. /\ t \in TryType /\ t.step = "manifest" /\ prep' = [prep EXCEPT ![a] = t]
        /\ t.head = prep[a].head /\ t.base = prep[a].base
        /\ t.manifest = prep[a].manifest /\ t.looked = prep[a].looked
    BY <1>0, <2>1, NextStep DEF GitSteps, ReadySteps
  <2> HIDE DEF d, t
  <2>4. disk'[a] = d /\ prep'[a] = t
    BY <1>0, <2>1, <2>3 DEF WorkspaceTypes
  <2>5. t.step # "ended" /\ (a \notin swept => Underway(a)')
    BY <1>0, <2>1, <2>2, <2>3, <2>4 DEF Underway, Exact, Dir, DirOf, GitSteps, ReadySteps
  <2> QED
    BY <2>1, <2>2, <2>3, <2>5, TryWorks
<1>7. ASSUME NEW a \in Tries, ListsChanges(a) PROVE WorkspaceInv'
  <2> DEFINE t == [prep[a] EXCEPT !.step = "checkout", !.manifest = <<disk[a].base, disk[a].head>>]
  <2>1. /\ prep[a].step = "manifest"
        /\ prep' = [prep EXCEPT ![a] = t] /\ UNCHANGED <<site, pushed, disk, swept>>
    BY <1>0, <1>7 DEF ListsChanges, In, Dir, DirOf, StepTo, WorkspaceTypes, TryType
  <2>2. disk[a] \in DirType /\ prep[a] \in TryType
    BY <1>0 DEF WorkspaceTypes
  <2>3. t \in TryType
    BY <2>2 DEF TryType, DirType, GitSteps, ReadySteps
  <2>4. /\ t.step = "checkout" /\ t.manifest = <<disk[a].base, disk[a].head>>
        /\ t.head = prep[a].head /\ t.base = prep[a].base /\ t.looked = prep[a].looked
    BY <2>2 DEF TryType
  <2> HIDE DEF t
  <2>5. prep'[a] = t
    BY <1>0, <2>1 DEF WorkspaceTypes
  <2>6. t.step # "ended" /\ (a \notin swept => Underway(a)')
    BY <1>0, <2>1, <2>4, <2>5 DEF Underway, Exact, Dir, DirOf, GitSteps, ReadySteps
  <2> QED
    BY <2>1, <2>3, <2>6, TryGoesOn
<1>8. ASSUME NEW a \in Tries, ChecksOut(a) PROVE WorkspaceInv'
  <2> DEFINE d == [disk[a] EXCEPT !.tree = disk[a].head, !.whole = TRUE]
             t == [prep[a] EXCEPT !.step = "detach"]
  <2>1. /\ prep[a].step = "checkout"
        /\ disk' = [disk EXCEPT ![a] = d] /\ prep' = StepTo(a, "detach")
        /\ UNCHANGED <<site, pushed, swept>>
    BY <1>8 DEF ChecksOut, OnDisk, In, Dir, DirOf
  <2>2. /\ d \in DirType
        /\ d.there = disk[a].there /\ d.head = disk[a].head /\ d.base = disk[a].base
        /\ d.tree = disk[a].head /\ d.whole
    BY <1>0, <2>1, DirTypes DEF DirType, TryType
  <2>3. /\ t \in TryType /\ t.step = "detach" /\ prep' = [prep EXCEPT ![a] = t]
        /\ t.head = prep[a].head /\ t.base = prep[a].base
        /\ t.manifest = prep[a].manifest /\ t.looked = prep[a].looked
    BY <1>0, <2>1, NextStep DEF GitSteps, ReadySteps
  <2> HIDE DEF d, t
  <2>4. disk'[a] = d /\ prep'[a] = t
    BY <1>0, <2>1, <2>3 DEF WorkspaceTypes
  <2>5. t.step # "ended" /\ (a \notin swept => Underway(a)')
    BY <1>0, <2>1, <2>2, <2>3, <2>4 DEF Underway, Exact, Dir, DirOf, GitSteps, ReadySteps
  <2> QED
    BY <2>1, <2>2, <2>3, <2>5, TryWorks
<1>9. ASSUME NEW a \in Tries, Detaches(a) PROVE WorkspaceInv'
  <2> DEFINE d == [disk[a] EXCEPT !.remote = FALSE, !.config = TRUE]
             t == [prep[a] EXCEPT !.step = "register", !.strategy = "git"]
  <2>1. /\ prep[a].step = "detach"
        /\ disk' = [disk EXCEPT ![a] = d] /\ prep' = [prep EXCEPT ![a] = t]
        /\ UNCHANGED <<site, pushed, swept>>
    BY <1>0, <1>9 DEF Detaches, OnDisk, In, Dir, DirOf, WorkspaceTypes, TryType
  <2>2. disk[a] \in DirType /\ prep[a] \in TryType
    BY <1>0 DEF WorkspaceTypes
  <2>3. /\ d \in DirType
        /\ d.there = disk[a].there /\ d.head = disk[a].head /\ d.base = disk[a].base
        /\ d.tree = disk[a].tree /\ d.whole = disk[a].whole /\ ~d.remote
    BY <1>0, <2>2, DirTypes DEF DirType, TryType
  <2>4. t \in TryType
    BY <2>2 DEF TryType, ReadySteps
  <2>5. /\ t.step = "register" /\ t.strategy = "git"
        /\ t.head = prep[a].head /\ t.base = prep[a].base
        /\ t.manifest = prep[a].manifest /\ t.looked = prep[a].looked
    BY <2>2 DEF TryType
  <2> HIDE DEF d, t
  <2>6. disk'[a] = d /\ prep'[a] = t
    BY <1>0, <2>1 DEF WorkspaceTypes
  <2>7. t.step # "ended" /\ (a \notin swept => Underway(a)')
    BY <1>0, <2>1, <2>3, <2>5, <2>6 DEF Underway, Exact, Dir, DirOf, GitSteps, ReadySteps
  <2> QED
    BY <2>1, <2>3, <2>4, <2>7, TryWorks
<1>10. ASSUME NEW a \in Tries, GitFails(a) PROVE WorkspaceInv'
  <2> DEFINE t == [prep[a] EXCEPT !.step = "archive", !.manifest = <<0, 0>>]
  <2>1. /\ prep[a].step \in GitSteps
        /\ prep' = [prep EXCEPT ![a] = t] /\ UNCHANGED <<site, pushed, disk, swept>>
    BY <1>0, <1>10 DEF GitFails, In, Dir, DirOf, StepTo, WorkspaceTypes, TryType, GitSteps
  <2>2. disk[a] \in DirType /\ prep[a] \in TryType
    BY <1>0 DEF WorkspaceTypes
  <2>3. t \in TryType
    BY <2>2 DEF TryType, DirType, GitSteps, ReadySteps
  <2>4. t.step = "archive" /\ t.looked = prep[a].looked
    BY <2>2 DEF TryType
  <2> HIDE DEF t
  <2>5. prep'[a] = t
    BY <1>0, <2>1 DEF WorkspaceTypes
  <2>6. t.step # "ended" /\ (a \notin swept => Underway(a)')
    BY <1>0, <2>1, <2>4, <2>5 DEF Underway, Exact, Dir, DirOf, GitSteps, ReadySteps
  <2> QED
    BY <2>1, <2>3, <2>6, TryGoesOn
<1>11. ASSUME NEW a \in Tries, UnpacksArchive(a) PROVE WorkspaceInv'
  <2> DEFINE d == [RootReset(a) EXCEPT !.tree = prep[a].head, !.whole = TRUE]
             t == [prep[a] EXCEPT !.step = "register", !.strategy = "archive"]
  <2>1. /\ prep[a].step = "archive"
        /\ disk' = [disk EXCEPT ![a] = d] /\ prep' = [prep EXCEPT ![a] = t]
        /\ UNCHANGED <<site, pushed, swept>>
    BY <1>0, <1>11 DEF UnpacksArchive, OnDisk, In, Dir, DirOf, WorkspaceTypes, TryType
  <2>2. disk[a] \in DirType /\ prep[a] \in TryType
    BY <1>0 DEF WorkspaceTypes
  <2>3. /\ d \in DirType
        /\ d.there /\ ~d.remote /\ d.head = 0 /\ d.base = 0 /\ d.tree = prep[a].head /\ d.whole
    BY <1>0, <2>2, DirTypes DEF DirType, TryType
  <2>4. t \in TryType
    BY <2>2 DEF TryType, ReadySteps
  <2>5. /\ t.step = "register" /\ t.strategy = "archive"
        /\ t.head = prep[a].head /\ t.base = prep[a].base
        /\ t.manifest = prep[a].manifest /\ t.looked = prep[a].looked
    BY <2>2 DEF TryType
  <2> HIDE DEF d, t
  <2>6. disk'[a] = d /\ prep'[a] = t
    BY <1>0, <2>1 DEF WorkspaceTypes
  <2>7. t.step # "ended" /\ (a \notin swept => Underway(a)')
    BY <1>0, <2>1, <2>3, <2>5, <2>6 DEF Underway, Exact, Dir, DirOf, GitSteps, ReadySteps
  <2> QED
    BY <2>1, <2>3, <2>4, <2>7, TryWorks
<1>12. ASSUME NEW a \in Tries, ArchiveFails(a) PROVE WorkspaceInv'
  <2>1. prep[a].step = "archive" /\ UNCHANGED <<site, pushed, swept>>
    BY <1>12 DEF ArchiveFails, In
  <2>2. ASSUME NEW got \in BOOLEAN, prep' = StepTo(a, "files"),
               disk' = [disk EXCEPT ![a] = [RootReset(a) EXCEPT !.tree = IF got THEN prep[a].head ELSE 0]]
        PROVE  WorkspaceInv'
    <3> DEFINE d == [RootReset(a) EXCEPT !.tree = IF got THEN prep[a].head ELSE 0]
               t == [prep[a] EXCEPT !.step = "files"]
    <3>1. d \in DirType
      BY <1>0, DirTypes DEF DirType, TryType
    <3>2. /\ t \in TryType /\ t.step = "files" /\ prep' = [prep EXCEPT ![a] = t]
          /\ t.looked = prep[a].looked
      BY <1>0, <2>2, NextStep
    <3> HIDE DEF t
    <3>3. prep'[a] = t
      BY <1>0, <3>2 DEF WorkspaceTypes
    <3>4. t.step # "ended" /\ (a \notin swept => Underway(a)')
      BY <1>0, <2>1, <3>2, <3>3 DEF Underway, GitSteps, ReadySteps
    <3> QED
      BY <2>1, <2>2, <3>1, <3>2, <3>4, TryWorks
  <2>3. CASE OnDisk(a, NoDir) /\ prep' = Stops(a, "nothing")
    BY <1>0, <2>1, <2>3, DirTypes, TryStops DEF OnDisk, DirOf
  <2>4. CASE OnDisk(a, RootReset(a)) /\ prep' = Stops(a, "not removed")
    BY <1>0, <2>1, <2>4, DirTypes, TryStops DEF OnDisk, DirOf
  <2> QED
    BY <1>12, <2>2, <2>3, <2>4 DEF ArchiveFails, OnDisk, DirOf
<1>13. ASSUME NEW a \in Tries, WritesFiles(a) PROVE WorkspaceInv'
  <2> DEFINE d == [RootReset(a) EXCEPT !.tree = prep[a].head]
             t == [prep[a] EXCEPT !.step = "register", !.strategy = "files"]
  <2>1. /\ prep[a].step = "files" /\ disk' = [disk EXCEPT ![a] = d]
        /\ UNCHANGED <<site, pushed, swept>>
    BY <1>13 DEF WritesFiles, OnDisk, In, DirOf
  <2>2. disk[a] \in DirType /\ prep[a] \in TryType
    BY <1>0 DEF WorkspaceTypes
  <2>3. /\ d \in DirType
        /\ d.there /\ ~d.remote /\ d.head = 0 /\ d.base = 0 /\ d.tree = prep[a].head
    BY <1>0, <2>2, DirTypes DEF DirType, TryType
  <2>4. CASE prep' = [prep EXCEPT ![a].step = "register", ![a].strategy = "files"]
    <3>1. t \in TryType
      BY <2>2 DEF TryType, ReadySteps
    <3>2. /\ t.step = "register" /\ t.strategy = "files" /\ prep' = [prep EXCEPT ![a] = t]
          /\ t.head = prep[a].head /\ t.looked = prep[a].looked
      BY <1>0, <2>2, <2>4 DEF TryType, WorkspaceTypes
    <3> HIDE DEF d, t
    <3>3. disk'[a] = d /\ prep'[a] = t
      BY <1>0, <2>1, <3>2 DEF WorkspaceTypes
    <3>4. t.step # "ended" /\ (a \notin swept => Underway(a)')
      BY <1>0, <2>1, <2>3, <3>2, <3>3 DEF Underway, Exact, Dir, DirOf, GitSteps, ReadySteps
    <3> QED
      BY <2>1, <2>3, <3>1, <3>2, <3>4, TryWorks
  <2>5. CASE prep' = Stops(a, "not prepared")
    BY <2>1, <2>3, <2>5, TryStops
  <2> QED
    BY <1>13, <2>4, <2>5 DEF WritesFiles
<1>14. ASSUME NEW a \in Tries, Registers(a) PROVE WorkspaceInv'
  <2>1. prep[a].step = "register" /\ UNCHANGED <<site, pushed, disk, swept>>
    BY <1>14 DEF Registers, In
  <2>2. CASE prep' = StepTo(a, "work")
    <3> DEFINE t == [prep[a] EXCEPT !.step = "work"]
    <3>1. /\ t \in TryType /\ t.step = "work" /\ prep' = [prep EXCEPT ![a] = t]
          /\ t.head = prep[a].head /\ t.base = prep[a].base /\ t.strategy = prep[a].strategy
          /\ t.manifest = prep[a].manifest /\ t.looked = prep[a].looked
      BY <1>0, <2>2, NextStep DEF ReadySteps
    <3> HIDE DEF t
    <3>2. prep'[a] = t
      BY <1>0, <3>1 DEF WorkspaceTypes
    <3>3. t.step # "ended" /\ (a \notin swept => Underway(a)')
      BY <1>0, <2>1, <3>1, <3>2 DEF Underway, Exact, Dir, DirOf, GitSteps, ReadySteps
    <3> QED
      BY <2>1, <3>1, <3>3, TryGoesOn
  <2>3. CASE prep' = Stops(a, "lease lost")
    <3>1. disk[a] \in DirType /\ disk' = [disk EXCEPT ![a] = disk[a]]
      BY <1>0, <2>1 DEF WorkspaceTypes
    <3> QED
      BY <2>1, <2>3, <3>1, TryStops
  <2> QED
    BY <1>14, <2>2, <2>3 DEF Registers
<1>15. ASSUME NEW a \in Tries, RefusesLinks(a) PROVE WorkspaceInv'
  <2> DEFINE t == [prep[a] EXCEPT !.step = "cleanup"]
  <2>1. /\ prep[a].step = "work"
        /\ prep' = [prep EXCEPT ![a] = t] /\ UNCHANGED <<site, pushed, disk, swept>>
    BY <1>0, <1>15 DEF RefusesLinks, In, Dir, DirOf, StepTo, WorkspaceTypes, TryType
  <2>2. disk[a] \in DirType /\ prep[a] \in TryType
    BY <1>0 DEF WorkspaceTypes
  <2>3. t \in TryType
    BY <2>2 DEF TryType, DirType, GitSteps, ReadySteps
  <2>4. t.step = "cleanup"
    BY <2>2 DEF TryType
  <2> HIDE DEF t
  <2>5. prep'[a] = t
    BY <1>0, <2>1 DEF WorkspaceTypes
  <2>6. t.step # "ended" /\ (a \notin swept => Underway(a)')
    BY <1>0, <2>1, <2>4, <2>5 DEF Underway, Exact, Dir, DirOf, GitSteps, ReadySteps
  <2> QED
    BY <2>1, <2>3, <2>6, TryGoesOn
<1>16. ASSUME NEW a \in Tries, RefusesDiffs(a) PROVE WorkspaceInv'
  <2> DEFINE t == [prep[a] EXCEPT !.step = "cleanup"]
  <2>1. /\ prep[a].step = "work"
        /\ prep' = [prep EXCEPT ![a] = t] /\ UNCHANGED <<site, pushed, disk, swept>>
    BY <1>0, <1>16 DEF RefusesDiffs, In, Dir, DirOf, StepTo, WorkspaceTypes, TryType
  <2>2. disk[a] \in DirType /\ prep[a] \in TryType
    BY <1>0 DEF WorkspaceTypes
  <2>3. t \in TryType
    BY <2>2 DEF TryType, DirType, GitSteps, ReadySteps
  <2>4. t.step = "cleanup"
    BY <2>2 DEF TryType
  <2> HIDE DEF t
  <2>5. prep'[a] = t
    BY <1>0, <2>1 DEF WorkspaceTypes
  <2>6. t.step # "ended" /\ (a \notin swept => Underway(a)')
    BY <1>0, <2>1, <2>4, <2>5 DEF Underway, Exact, Dir, DirOf, GitSteps, ReadySteps
  <2> QED
    BY <2>1, <2>3, <2>6, TryGoesOn
<1>17. ASSUME NEW a \in Tries, StartsSession(a) PROVE WorkspaceInv'
  <2> DEFINE t == [prep[a] EXCEPT !.step = "session", !.sessions = @ + 1, !.turns = 1]
  <2>1. /\ prep[a].step = "work"
        /\ prep' = [prep EXCEPT ![a] = t] /\ UNCHANGED <<site, pushed, disk, swept>>
    BY <1>0, <1>17 DEF StartsSession, In, Dir, DirOf, StepTo, WorkspaceTypes, TryType
  <2>2. disk[a] \in DirType /\ prep[a] \in TryType
    BY <1>0 DEF WorkspaceTypes
  <2>3. prep[a].sessions \in 0 .. MaxSessions /\ prep[a].sessions < MaxSessions
    BY <1>17, <2>2 DEF TryType, StartsSession
  <2>4. prep[a].sessions + 1 \in 0 .. MaxSessions /\ 1 \in 0 .. MaxTurns
    BY <2>3, WorkspaceAssumption
  <2>5. t \in TryType
    BY <2>2, <2>4 DEF TryType, ReadySteps
  <2>6. /\ t.step = "session"
        /\ t.head = prep[a].head /\ t.base = prep[a].base /\ t.strategy = prep[a].strategy
        /\ t.manifest = prep[a].manifest /\ t.looked = prep[a].looked
    BY <2>2 DEF TryType
  <2> HIDE DEF t
  <2>7. prep'[a] = t
    BY <1>0, <2>1 DEF WorkspaceTypes
  <2>8. t.step # "ended" /\ (a \notin swept => Underway(a)')
    BY <1>0, <2>1, <2>6, <2>7 DEF Underway, Exact, Dir, DirOf, GitSteps, ReadySteps
  <2> QED
    BY <2>1, <2>5, <2>8, TryGoesOn
<1>18. ASSUME NEW a \in Tries, Inspects(a) PROVE WorkspaceInv'
  <2> DEFINE t == [prep[a] EXCEPT !.looked = @ \cup {<<disk[a].base, disk[a].head>>}]
  <2>1. /\ prep[a].step = "session" /\ prep[a].strategy = "git"
        /\ prep' = [prep EXCEPT ![a] = t] /\ UNCHANGED <<site, pushed, disk, swept>>
    BY <1>0, <1>18 DEF Inspects, In, Dir, DirOf, StepTo, WorkspaceTypes, TryType, Tools
  <2>2. disk[a] \in DirType /\ prep[a] \in TryType
    BY <1>0 DEF WorkspaceTypes
  <2>3. /\ disk[a].base \in Nat /\ disk[a].head \in Nat
        /\ prep[a].looked \in SUBSET (Nat \X Nat)
    BY <2>2 DEF TryType, DirType
  <2>4. prep[a].looked \cup {<<disk[a].base, disk[a].head>>} \in SUBSET (Nat \X Nat)
    BY <2>3
  <2>5. t \in TryType
    BY <2>2, <2>4 DEF TryType, ReadySteps
  <2>6. /\ t.step = prep[a].step /\ t.head = prep[a].head /\ t.base = prep[a].base /\ t.strategy = prep[a].strategy
        /\ t.manifest = prep[a].manifest
        /\ t.looked = prep[a].looked \cup {<<disk[a].base, disk[a].head>>}
    BY <2>2 DEF TryType
  <2> HIDE DEF t
  <2>7. prep'[a] = t
    BY <1>0, <2>1 DEF WorkspaceTypes
  <2>8. t.step # "ended" /\ (a \notin swept => Underway(a)')
    BY <1>0, <2>1, <2>6, <2>7 DEF Underway, Exact, Dir, DirOf, GitSteps, ReadySteps
  <2> QED
    BY <2>1, <2>5, <2>8, TryGoesOn
<1>19. ASSUME NEW a \in Tries, CorrectsAnswer(a) PROVE WorkspaceInv'
  <2> DEFINE t == [prep[a] EXCEPT !.turns = @ + 1]
  <2>1. /\ prep[a].step = "session"
        /\ prep' = [prep EXCEPT ![a] = t] /\ UNCHANGED <<site, pushed, disk, swept>>
    BY <1>0, <1>19 DEF CorrectsAnswer, In, Dir, DirOf, StepTo, WorkspaceTypes, TryType
  <2>2. disk[a] \in DirType /\ prep[a] \in TryType
    BY <1>0 DEF WorkspaceTypes
  <2>3. prep[a].turns \in 0 .. MaxTurns /\ prep[a].turns < MaxTurns
    BY <1>19, <2>2 DEF TryType, CorrectsAnswer
  <2>4. prep[a].turns + 1 \in 0 .. MaxTurns
    BY <2>3, WorkspaceAssumption
  <2>5. t \in TryType
    BY <2>2, <2>4 DEF TryType, ReadySteps
  <2>6. /\ t.step = prep[a].step
        /\ t.head = prep[a].head /\ t.base = prep[a].base /\ t.strategy = prep[a].strategy
        /\ t.manifest = prep[a].manifest /\ t.looked = prep[a].looked
    BY <2>2 DEF TryType
  <2> HIDE DEF t
  <2>7. prep'[a] = t
    BY <1>0, <2>1 DEF WorkspaceTypes
  <2>8. t.step # "ended" /\ (a \notin swept => Underway(a)')
    BY <1>0, <2>1, <2>6, <2>7 DEF Underway, Exact, Dir, DirOf, GitSteps, ReadySteps
  <2> QED
    BY <2>1, <2>5, <2>8, TryGoesOn
<1>20. ASSUME NEW a \in Tries, EndsSession(a) PROVE WorkspaceInv'
  <2>1. prep[a].step = "session" /\ UNCHANGED <<site, pushed, disk, swept>>
    BY <1>20 DEF EndsSession, In
  <2>2. PICK s \in {"work", "cleanup"} : prep' = [prep EXCEPT ![a].step = s, ![a].turns = 0]
    BY <1>20 DEF EndsSession
  <2> DEFINE t == [prep[a] EXCEPT !.step = s, !.turns = 0]
  <2>3. prep[a] \in TryType
    BY <1>0 DEF WorkspaceTypes
  <2>4. t \in TryType
    <3>1. 0 \in 0 .. MaxTurns
      BY WorkspaceAssumption
    <3>2. QED
      BY <2>2, <2>3, <3>1 DEF TryType, ReadySteps
  <2>5. /\ t.step = s /\ prep' = [prep EXCEPT ![a] = t]
        /\ t.head = prep[a].head /\ t.base = prep[a].base /\ t.strategy = prep[a].strategy
        /\ t.manifest = prep[a].manifest /\ t.looked = prep[a].looked
    BY <1>0, <2>2, <2>3 DEF TryType, WorkspaceTypes
  <2> HIDE DEF t
  <2>6. prep'[a] = t
    BY <1>0, <2>5 DEF WorkspaceTypes
  <2>7. t.step # "ended" /\ (a \notin swept => Underway(a)')
    BY <1>0, <2>1, <2>2, <2>5, <2>6 DEF Underway, Exact, Dir, DirOf, GitSteps, ReadySteps
  <2> QED
    BY <2>1, <2>4, <2>5, <2>7, TryGoesOn
<1>21. ASSUME NEW a \in Tries, FinishesWork(a) PROVE WorkspaceInv'
  <2> DEFINE t == [prep[a] EXCEPT !.step = "cleanup"]
  <2>1. /\ prep[a].step = "work"
        /\ prep' = [prep EXCEPT ![a] = t] /\ UNCHANGED <<site, pushed, disk, swept>>
    BY <1>0, <1>21 DEF FinishesWork, In, Dir, DirOf, StepTo, WorkspaceTypes, TryType
  <2>2. disk[a] \in DirType /\ prep[a] \in TryType
    BY <1>0 DEF WorkspaceTypes
  <2>3. t \in TryType
    BY <2>2 DEF TryType, DirType, GitSteps, ReadySteps
  <2>4. t.step = "cleanup"
    BY <2>2 DEF TryType
  <2> HIDE DEF t
  <2>5. prep'[a] = t
    BY <1>0, <2>1 DEF WorkspaceTypes
  <2>6. t.step # "ended" /\ (a \notin swept => Underway(a)')
    BY <1>0, <2>1, <2>4, <2>5 DEF Underway, Exact, Dir, DirOf, GitSteps, ReadySteps
  <2> QED
    BY <2>1, <2>3, <2>6, TryGoesOn
<1>22. ASSUME NEW a \in Tries, CleansUp(a) PROVE WorkspaceInv'
  <2>1. UNCHANGED <<site, pushed, swept>>
    BY <1>22 DEF CleansUp
  <2>2. CASE OnDisk(a, NoDir) /\ prep' = Stops(a, "nothing")
    BY <1>0, <2>1, <2>2, DirTypes, TryStops DEF OnDisk, DirOf
  <2>3. CASE prep' = Stops(a, "not removed") /\ UNCHANGED disk
    <3>1. disk[a] \in DirType /\ disk' = [disk EXCEPT ![a] = disk[a]]
      BY <1>0, <2>3 DEF WorkspaceTypes
    <3> QED
      BY <2>1, <2>3, <3>1, TryStops
  <2> QED
    BY <1>22, <2>2, <2>3 DEF CleansUp
<1>23. ASSUME NEW a \in Tries, ProcessDies(a) PROVE WorkspaceInv'
  <2>1. prep' = Stops(a, "crash") /\ UNCHANGED <<site, pushed, disk, swept>>
    BY <1>23 DEF ProcessDies
  <2>2. disk[a] \in DirType /\ disk' = [disk EXCEPT ![a] = disk[a]]
    BY <1>0, <2>1 DEF WorkspaceTypes
  <2> QED
    BY <2>1, <2>2, TryStops
<1>24. CASE TenantRemoved
  <2> DEFINE unused == [NoTry EXCEPT !.step = "ended", !.left = "no attempt"]
  <2>1. /\ swept' = {a \in Tries : ~Over(a)}
        /\ disk' = IF site = "gitlab" THEN [d \in DOMAIN disk |-> NoDir] ELSE disk
        /\ prep' = [a \in Tries |-> IF prep[a].step = "idle" THEN unused ELSE prep[a]]
        /\ UNCHANGED <<site, pushed>>
    BY <1>24 DEF TenantRemoved, In
  <2>2. unused \in TryType /\ unused.step = "ended" /\ unused.left = "no attempt"
    BY NoTryYet DEF TryType
  <2>3. NoDir \in DirType /\ ~NoDir.there
    BY DEF NoDir, DirType
  <2> HIDE DEF unused
  <2>4. WorkspaceTypes'
    BY <1>0, <2>1, <2>2, <2>3 DEF WorkspaceTypes
  <2>5. ASSUME NEW a \in Tries, a \notin swept' PROVE Underway(a)'
    <3>1. prep[a].step \in {"idle", "ended"}
      BY <2>1, <2>5 DEF Over, In
    <3>2. prep'[a].step = "ended"
      BY <2>1, <2>2, <3>1
    <3> QED
      BY <3>2 DEF Underway, GitSteps, ReadySteps
  <2>6. ASSUME NEW a \in Tries PROVE NothingLeft(a)'
    <3>1. disk'[a] = NoDir \/ disk'[a] = disk[a]
      BY <1>0, <2>1 DEF WorkspaceTypes
    <3>2. prep'[a] = unused \/ prep'[a] = prep[a]
      BY <2>1
    <3> QED
      BY <1>0, <2>2, <2>3, <3>1, <3>2 DEF NothingLeft, In
  <2> QED
    BY <2>4, <2>5, <2>6 DEF WorkspaceInv
<1>25. CASE UNCHANGED workspaceVars
  <2>1. UNCHANGED <<site, pushed, disk, prep, swept>>
    BY <1>25 DEF workspaceVars
  <2> QED
    BY <1>0, <2>1 DEF WorkspaceInv, WorkspaceTypes, Underway, NothingLeft, Exact, Dir, DirOf, In
<1> QED
  BY <1>1, <1>2, <1>3, <1>4, <1>5, <1>6, <1>7, <1>8, <1>9, <1>10, <1>11, <1>12, <1>13, <1>14,
     <1>15, <1>16, <1>17, <1>18, <1>19, <1>20, <1>21, <1>22, <1>23, <1>24, <1>25
     DEF WorkspaceNext

\* While a session of an attempt runs its directory holds exactly what the attempt
\* prepared, whichever of Git, the archive and the files prepared it, beside
\* attempts that lost their lease, pushes and deaths; and what is said to be
\* removed is.
THEOREM SessionsReadTheirHead == WorkspaceSpec => []WorkspaceIsExact
<1>1. WorkspaceInv => WorkspaceIsExact
  BY DEF WorkspaceInv, Underway, NothingLeft, WorkspaceIsExact, In, ReadySteps, Dir, DirOf
<1> QED
  BY WorkspaceBegins, WorkspaceSteps, <1>1, PTL DEF WorkspaceSpec

-----------------------------------------------------------------------------
(* Setting up a GitHub connection *)

SetupSpec == SetupInit /\ [][SetupPageNext]_setupVars

RowType ==
  [status: {"gone", "setup_required", "ready"}, config: {"none", "pending", "registered", "ready"},
   token: Nat, app: Nat, installation: Nat, previous: Nat]

VisitType ==
  [step: {"none", "read", "ask", "count", "write"}, action: {"page", "return", "installed"},
   token: Nat, seen: RowType, given: Nat]

SetupTypes ==
  /\ link \in RowType /\ issued \in Nat
  /\ hubApps \in Seq([owner: {"ours", "other"}, code: BOOLEAN])
  /\ installs \in Seq([app: Nat, account: {"ours", "other"}])
  /\ visit \in [Visits -> VisitType]
  /\ recreate \in [step: {"none", "write"}, seen: RowType]
  /\ overlapped \in BOOLEAN

Ours(a) == a \in DOMAIN hubApps /\ hubApps[a].owner = "ours"

\* A row as it may be read at any time: what it names on GitHub is there and fits.
Whole(held) ==
  /\ held.status = "setup_required" =>
       /\ held.token # 0 /\ held.installation = 0
       /\ held.config = "registered" => Ours(held.app)
  /\ held.status = "ready" =>
       /\ held.token = 0 /\ Ours(held.app)
       /\ held.installation \in DOMAIN installs
       /\ installs[held.installation] = [app |-> held.app, account |-> "ours"]
  /\ held.app = 0 \/ held.app \in DOMAIN hubApps
  /\ held.token \in 0 .. issued
  /\ held.installation = 0 \/ held.installation \in DOMAIN installs

\* What a visit has seen and asked: a setup that had not ended, and things that
\* GitHub has confirmed.
Confirmed(v) ==
  LET act == visit[v].action
      given == visit[v].given
  IN  /\ visit[v].step \in {"ask", "count", "write"} =>
           /\ visit[v].seen.status = "setup_required" /\ Whole(visit[v].seen)
           /\ act = "installed" => visit[v].seen.config = "registered"
      /\ visit[v].step \in {"read", "ask", "count", "write"} =>
           /\ visit[v].token # 0
           /\ act = "return" => given \in DOMAIN hubApps
           /\ act = "installed" => given \in DOMAIN installs
      /\ visit[v].step \in {"ask", "count", "write"} => act # "page"
      /\ visit[v].step = "count" => act = "installed"
      /\ visit[v].step \in {"count", "write"} =>
           /\ act = "return" => Ours(given)
           /\ act = "installed" => InstallationFits(v)

SetupInv ==
  /\ SetupTypes
  /\ Whole(link)
  /\ \A v \in Visits : Confirmed(v)
  /\ recreate.step = "write" => Whole(recreate.seen)
  /\ UsedLinkIsDead

LEMMA Entries ==
  ASSUME NEW S, NEW list \in Seq(S), NEW i \in DOMAIN list
  PROVE  list[i] \in S
OBVIOUS

LEMMA EntryReplaced ==
  ASSUME NEW S, NEW list \in Seq(S), NEW i \in DOMAIN list, NEW e, e \in S
  PROVE  [list EXCEPT ![i] = e] \in Seq(S)
OBVIOUS

LEMMA PendingRows ==
  ASSUME NEW t \in Nat, NEW p \in Nat
  PROVE  /\ PendingRow(t, p) \in RowType
         /\ PendingRow(t, p).status = "setup_required"
         /\ PendingRow(t, p).config = "pending" /\ PendingRow(t, p).token = t
         /\ PendingRow(t, p).app = 0 /\ PendingRow(t, p).installation = 0
BY DEF PendingRow, Row0, RowType

LEMMA EmptyRow ==
  /\ Row0 \in RowType /\ Row0.status = "gone" /\ Row0.app = 0
  /\ Row0.token = 0 /\ Row0.installation = 0
  /\ NoVisit \in VisitType /\ NoVisit.step = "none"
BY DEF Row0, RowType, NoVisit, VisitType

LEMMA SetupBegins == SetupInit => SetupInv
<1> SUFFICES ASSUME SetupInit PROVE SetupInv
  OBVIOUS
<1>1. /\ link \in RowType /\ link.status = "setup_required" /\ link.config = "pending"
      /\ link.token = 1 /\ link.app = 0 /\ link.installation = 0
  BY PendingRows DEF SetupInit
<1>2. SetupTypes
  <2>1. recreate \in [step: {"none", "write"}, seen: RowType] /\ overlapped \in BOOLEAN
    BY EmptyRow DEF SetupInit
  <2>2. visit \in [Visits -> VisitType]
    BY EmptyRow DEF SetupInit
  <2>3. hubApps = <<>> /\ installs = <<>> /\ issued = 1
    BY DEF SetupInit
  <2>4. QED
    BY <1>1, <2>1, <2>2, <2>3 DEF SetupTypes
<1>3. Whole(link) /\ UsedLinkIsDead
  <2>1. issued = 1 /\ 1 \in 0 .. 1
    BY DEF SetupInit
  <2>2. QED
    BY <1>1, <2>1 DEF Whole, UsedLinkIsDead
<1>4. \A v \in Visits : Confirmed(v)
  BY EmptyRow DEF Confirmed, SetupInit
<1> QED
  BY <1>2, <1>3, <1>4 DEF SetupInv, SetupInit

\* GitHub forgets nothing: Apps keep their owner, installations what they are.
\* Links that were issued have been.
Remembered ==
  /\ 0 .. issued \subseteq 0 .. issued'
  /\ \A a \in DOMAIN hubApps : a \in DOMAIN hubApps' /\ hubApps'[a].owner = hubApps[a].owner
  /\ \A i \in DOMAIN installs : i \in DOMAIN installs' /\ installs'[i] = installs[i]

LEMMA WholeStays ==
  ASSUME Remembered
  PROVE  /\ \A held : Whole(held) => Whole(held)'
         /\ \A a : Ours(a) => Ours(a)'
BY DEF Remembered, Whole, Ours

\* Steps of GitHub alone: what was read and confirmed stays so.
LEMMA RowsRemembered ==
  ASSUME SetupInv, Remembered, SetupTypes', UNCHANGED <<link, issued, visit, recreate, overlapped>>
  PROVE  SetupInv'
<1>1. Whole(link)' /\ (recreate'.step = "write" => Whole(recreate.seen)')
  BY WholeStays DEF SetupInv
<1>2. ASSUME NEW v \in Visits
      PROVE  Confirmed(v)'
  <2>1. Confirmed(v) /\ visit' = visit
    BY DEF SetupInv
  <2>2. /\ visit[v].step \in {"ask", "count", "write"} => Whole(visit[v].seen)'
        /\ Ours(visit[v].given) => Ours(visit[v].given)'
    BY <2>1, WholeStays DEF Confirmed
  <2>3. visit[v].given \in DOMAIN installs /\ InstallationFits(v) => InstallationFits(v)'
    BY <2>1 DEF Remembered, InstallationFits
  <2>4. QED
    BY <2>1, <2>2, <2>3 DEF Confirmed, Remembered
<1>3. UsedLinkIsDead'
  BY DEF SetupInv, UsedLinkIsDead
<1>4. QED
  BY <1>1, <1>2, <1>3 DEF SetupInv

\* Steps of one visit that leave the row alone.
LEMMA VisitMoves ==
  ASSUME SetupInv, Remembered, NEW v \in Visits, NEW x \in VisitType,
         visit' = [visit EXCEPT ![v] = x], Confirmed(v)',
         hubApps' \in Seq([owner: {"ours", "other"}, code: BOOLEAN]),
         UNCHANGED <<link, issued, installs, recreate, overlapped>>
  PROVE  SetupInv'
<1>1. SetupTypes' /\ \A w \in Visits : w # v => visit'[w] = visit[w]
  BY DEF SetupInv, SetupTypes
<1>2. Whole(link)' /\ (recreate'.step = "write" => Whole(recreate.seen)')
  BY WholeStays DEF SetupInv
<1>3. ASSUME NEW w \in Visits, w # v
      PROVE  Confirmed(w)'
  <2>1. Confirmed(w) /\ visit'[w] = visit[w]
    BY <1>1, <1>3 DEF SetupInv
  <2>2. /\ visit[w].step \in {"ask", "count", "write"} => Whole(visit[w].seen)'
        /\ Ours(visit[w].given) => Ours(visit[w].given)'
    BY <2>1, WholeStays DEF Confirmed
  <2>3. QED
    BY <2>1, <2>2 DEF Confirmed, Remembered, InstallationFits
<1>4. UsedLinkIsDead'
  BY DEF SetupInv, UsedLinkIsDead
<1>5. QED
  BY <1>1, <1>2, <1>3, <1>4 DEF SetupInv

\* A visit that has its answer holds nothing any more.
LEMMA VisitAnswers ==
  ASSUME SetupInv, Remembered, NEW v \in Visits, Answers(v),
         hubApps' \in Seq([owner: {"ours", "other"}, code: BOOLEAN]),
         UNCHANGED <<link, issued, installs, recreate, overlapped>>
  PROVE  SetupInv'
<1>1. visit' = [visit EXCEPT ![v] = NoVisit] /\ visit'[v] = NoVisit
  BY DEF Answers, SetupInv, SetupTypes
<1>2. Confirmed(v)'
  BY <1>1, EmptyRow DEF Confirmed
<1>3. QED
  BY <1>1, <1>2, EmptyRow, VisitMoves

\* What visits hold stays so while only rows are written.
LEMMA SeenStays ==
  ASSUME \A v \in Visits : Confirmed(v), Remembered, UNCHANGED <<hubApps, installs, visit>>
  PROVE  \A v \in Visits : Confirmed(v)'
BY DEF Confirmed, Whole, Ours, InstallationFits, Remembered

\* A visit writes the row and answers.
LEMMA RowWritten ==
  ASSUME SetupInv, NEW v \in Visits, Answers(v), link' \in RowType, Whole(link)',
         UsedLinkIsDead', overlapped' \in BOOLEAN,
         UNCHANGED <<issued, hubApps, installs, recreate>>
  PROVE  SetupInv'
<1>1. visit' = [visit EXCEPT ![v] = NoVisit] /\ NoVisit \in VisitType
  BY EmptyRow DEF Answers
<1>2. SetupTypes' /\ visit'[v] = NoVisit /\ \A w \in Visits : w # v => visit'[w] = visit[w]
  BY <1>1 DEF SetupInv, SetupTypes
<1>3. recreate'.step = "write" => Whole(recreate.seen)'
  BY DEF SetupInv, Whole, Ours
<1>4. ASSUME NEW w \in Visits
      PROVE  Confirmed(w)'
  <2>1. CASE w = v
    BY <1>2, <2>1, EmptyRow DEF Confirmed
  <2>2. CASE w # v
    BY <1>2, <2>2 DEF SetupInv, Confirmed, Whole, Ours, InstallationFits
  <2>3. QED
    BY <2>1, <2>2
<1>5. QED
  BY <1>2, <1>3, <1>4 DEF SetupInv

LEMMA SetupSteps == SetupInv /\ [SetupPageNext]_setupVars => SetupInv'
<1> SUFFICES ASSUME SetupInv, [SetupPageNext]_setupVars PROVE SetupInv'
  OBVIOUS
<1>1. /\ SetupTypes /\ \A v \in Visits : visit[v] \in VisitType /\ Confirmed(v)
      /\ hubApps \in Seq([owner: {"ours", "other"}, code: BOOLEAN])
      /\ installs \in Seq([app: Nat, account: {"ours", "other"}])
  BY DEF SetupInv, SetupTypes
<1>2. UNCHANGED <<issued, hubApps, installs>> => Remembered
  BY DEF Remembered
<1>3. CASE UNCHANGED setupVars
  BY <1>1, <1>2, <1>3, RowsRemembered DEF setupVars, SetupTypes
<1>4. CASE HubMakesApp
  <2>1. PICK owner \in {"ours", "other"} :
          hubApps' = Append(hubApps, [owner |-> owner, code |-> TRUE])
    BY <1>4 DEF HubMakesApp
  <2>2. Remembered /\ SetupTypes'
    BY <1>1, <1>4, <2>1 DEF HubMakesApp, Remembered, SetupTypes
  <2>3. QED
    BY <1>4, <2>2, RowsRemembered DEF HubMakesApp
<1>5. CASE HubInstalls
  <2>1. PICK a \in DOMAIN hubApps, account \in {"ours", "other"} :
          installs' = Append(installs, [app |-> a, account |-> account])
    BY <1>5 DEF HubInstalls
  <2>2. a \in Nat
    BY <1>1
  <2>3. Remembered /\ SetupTypes'
    BY <1>1, <1>5, <2>1, <2>2 DEF HubInstalls, Remembered, SetupTypes
  <2>4. QED
    BY <1>5, <2>3, RowsRemembered DEF HubInstalls
<1>6. CASE VisitBegins
  <2>1. PICK v \in Visits, t \in 1..issued, action \in {"page", "return", "installed"} :
          \E given \in IF action = "return" THEN DOMAIN hubApps
                       ELSE IF action = "installed" THEN DOMAIN installs ELSE {0} :
            visit' = [visit EXCEPT ![v] = [NoVisit EXCEPT !.step = "read", !.action = action,
                                                          !.token = t, !.given = given]]
    BY <1>6 DEF VisitBegins
  <2>2. PICK given \in IF action = "return" THEN DOMAIN hubApps
                      ELSE IF action = "installed" THEN DOMAIN installs ELSE {0} :
          visit' = [visit EXCEPT ![v] = [NoVisit EXCEPT !.step = "read", !.action = action,
                                                        !.token = t, !.given = given]]
    BY <2>1
  <2> DEFINE x == [NoVisit EXCEPT !.step = "read", !.action = action,
                                  !.token = t, !.given = given]
  <2>3. given \in Nat /\ t \in Nat /\ t # 0
    BY <1>1 DEF SetupTypes
  <2>4. /\ x \in VisitType /\ x.step = "read" /\ x.action = action
        /\ x.token = t /\ x.given = given
    BY <2>3, EmptyRow DEF NoVisit, VisitType
  <2> HIDE DEF x
  <2>5. visit'[v] = x /\ UNCHANGED <<link, issued, hubApps, installs, recreate, overlapped>>
    BY <1>1, <1>6, <2>2 DEF VisitBegins, SetupTypes, x
  <2>6. Confirmed(v)'
    BY <2>2, <2>3, <2>4, <2>5 DEF Confirmed
  <2>7. QED
    BY <1>1, <1>2, <2>2, <2>4, <2>5, <2>6, VisitMoves DEF x
<1>7. ASSUME NEW v \in Visits, ReadsConnection(v)
      PROVE  SetupInv'
  <2>1. OnlyVisits /\ visit[v].step = "read"
    BY <1>7 DEF ReadsConnection
  <2>2. CASE Answers(v)
    BY <1>1, <1>2, <2>1, <2>2, VisitAnswers DEF OnlyVisits
  <2>3. CASE ~Answers(v)
    <3>1. /\ visit' = [visit EXCEPT ![v].seen = link, ![v].step = "ask"]
          /\ ByToken(visit[v].token) /\ visit[v].action # "page"
          /\ visit[v].action = "installed" => link.config = "registered"
      BY <1>7, <2>3 DEF ReadsConnection
    <3>2. PICK x : x = [visit[v] EXCEPT !.seen = link, !.step = "ask"]
      OBVIOUS
    <3>3. /\ x \in VisitType /\ x.step = "ask" /\ x.seen = link
          /\ x.action = visit[v].action /\ x.token = visit[v].token
          /\ x.given = visit[v].given
      BY <1>1, <3>2 DEF SetupTypes, VisitType
    <3>4. visit' = [visit EXCEPT ![v] = x] /\ visit'[v] = x
      BY <1>1, <3>1, <3>2 DEF SetupTypes
    <3>5. link.status = "setup_required" /\ Whole(link) /\ link \in RowType
      <4>1. Whole(link) /\ link \in RowType /\ link.status # "gone" /\ link.token # 0
        BY <1>1, <2>1, <3>1 DEF SetupInv, SetupTypes, ByToken, Confirmed
      <4>2. QED
        BY <4>1 DEF Whole, RowType
    <3>6. Whole(x.seen)'
      BY <1>2, <2>1, <3>3, <3>5, WholeStays DEF OnlyVisits
    <3>7. Confirmed(v)'
      BY <1>1, <2>1, <3>1, <3>3, <3>4, <3>5, <3>6 DEF Confirmed, OnlyVisits
    <3>8. QED
      BY <1>1, <1>2, <2>1, <3>3, <3>4, <3>7, VisitMoves DEF OnlyVisits
  <2>4. QED
    BY <2>2, <2>3
<1>8. ASSUME NEW v \in Visits, NEW s \in {"count", "write"}, Leads(v, s), Remembered,
             visit[v].step \in {"ask", "count"},
             hubApps' \in Seq([owner: {"ours", "other"}, code: BOOLEAN]),
             UNCHANGED <<link, issued, installs, recreate, overlapped>>,
             s = "count" => visit[v].action = "installed",
             visit[v].action = "return" => Ours(visit[v].given),
             visit[v].action = "installed" => InstallationFits(v)
      PROVE  SetupInv'
  <2>1. PICK x : x = [visit[v] EXCEPT !.step = s]
    OBVIOUS
  <2>2. /\ x \in VisitType /\ x.step = s /\ x.seen = visit[v].seen
        /\ x.action = visit[v].action /\ x.token = visit[v].token
        /\ x.given = visit[v].given
    BY <1>1, <2>1 DEF VisitType
  <2>3. visit' = [visit EXCEPT ![v] = x] /\ visit'[v] = x
    BY <1>1, <1>8, <2>1 DEF Leads, SetupTypes
  <2>4. Whole(x.seen)' /\ (Ours(visit[v].given) => Ours(x.given)')
    BY <1>1, <1>8, <2>2, WholeStays DEF Confirmed
  <2>5. Confirmed(v)'
    BY <1>1, <1>8, <2>2, <2>3, <2>4 DEF Confirmed, Remembered, InstallationFits
  <2>6. QED
    BY <1>8, <2>2, <2>3, <2>5, VisitMoves
<1>9. ASSUME NEW v \in Visits, ConvertsManifest(v)
      PROVE  SetupInv'
  <2> DEFINE a == visit[v].given
  <2>1. /\ visit[v].step = "ask" /\ visit[v].action = "return" /\ a \in DOMAIN hubApps
        /\ hubApps' = [hubApps EXCEPT ![a].code = FALSE]
        /\ UNCHANGED <<link, issued, installs, recreate, overlapped>>
        /\ IF hubApps[a].owner = "ours" THEN Leads(v, "write") ELSE Answers(v)
    BY <1>1, <1>9 DEF ConvertsManifest, Confirmed
  <2>2. /\ hubApps' \in Seq([owner: {"ours", "other"}, code: BOOLEAN])
        /\ Remembered
    <3>1. hubApps[a] \in [owner: {"ours", "other"}, code: BOOLEAN]
      BY <1>1, <2>1, Entries
    <3>2. PICK e : e = [hubApps[a] EXCEPT !.code = FALSE]
      OBVIOUS
    <3>3. e \in [owner: {"ours", "other"}, code: BOOLEAN] /\ e.owner = hubApps[a].owner
      BY <3>1, <3>2
    <3>4. hubApps' = [hubApps EXCEPT ![a] = e]
      BY <2>1, <3>2
    <3>5. hubApps' \in Seq([owner: {"ours", "other"}, code: BOOLEAN])
      BY <1>1, <2>1, <3>3, <3>4, EntryReplaced
    <3>6. /\ DOMAIN hubApps' = DOMAIN hubApps /\ hubApps'[a] = e
          /\ \A b \in DOMAIN hubApps : b # a => hubApps'[b] = hubApps[b]
      BY <1>1, <2>1, <3>4
    <3>7. QED
      BY <2>1, <3>3, <3>5, <3>6 DEF Remembered
  <2>3. QED
    BY <1>1, <1>8, <2>1, <2>2, VisitAnswers DEF Ours
<1>10. ASSUME NEW v \in Visits, ChecksInstallation(v)
       PROVE  SetupInv'
  <2>1. /\ visit[v].step = "ask" /\ visit[v].action = "installed" /\ OnlyVisits
        /\ IF InstallationFits(v) THEN Leads(v, "count") ELSE Answers(v)
    BY <1>10 DEF ChecksInstallation
  <2>2. QED
    BY <1>1, <1>2, <1>8, <2>1, VisitAnswers DEF OnlyVisits
<1>11. ASSUME NEW v \in Visits, CountsRepositories(v)
       PROVE  SetupInv'
  <2>1. visit[v].step = "count" /\ Leads(v, "write") /\ OnlyVisits
    BY <1>11 DEF CountsRepositories
  <2>2. visit[v].action = "installed" /\ InstallationFits(v)
    BY <1>1, <2>1 DEF Confirmed
  <2>3. QED
    BY <1>1, <1>2, <1>8, <2>1, <2>2 DEF OnlyVisits
<1>12. ASSUME NEW v \in Visits, GitHubFails(v)
       PROVE  SetupInv'
  BY <1>1, <1>2, <1>12, VisitAnswers DEF GitHubFails, OnlyVisits
<1>13. ASSUME NEW v \in Visits, WritesConnection(v)
       PROVE  SetupInv'
  <2> DEFINE read == visit[v].seen
             held == IF visit[v].action = "return" THEN Registered(v) ELSE ReadyRow(v)
  <2>1. /\ visit[v].step = "write" /\ Answers(v)
        /\ UNCHANGED <<issued, hubApps, installs, recreate>>
    BY <1>13 DEF WritesConnection
  <2>2. CASE link.status = "gone"
    BY <1>1, <1>2, <1>13, <2>1, <2>2, VisitAnswers DEF WritesConnection
  <2>3. CASE link.status # "gone"
    <3>1. link' = held /\ overlapped' = (overlapped \/ link # read)
      BY <1>13, <2>3 DEF WritesConnection
    <3>2. /\ read \in RowType /\ read.status = "setup_required" /\ Whole(read)
          /\ read.token # 0 /\ visit[v].given \in Nat
          /\ visit[v].action \in {"return", "installed"}
          /\ visit[v].action = "return" => Ours(visit[v].given)
          /\ visit[v].action = "installed" =>
               /\ InstallationFits(v) /\ visit[v].given \in DOMAIN installs
               /\ read.config = "registered" /\ Ours(read.app)
      BY <1>1, <2>1 DEF Confirmed, VisitType, Whole
    <3>3. CASE visit[v].action = "return"
      <4>1. /\ link' \in RowType /\ link'.status = "setup_required"
            /\ link'.config = "registered" /\ link'.token = read.token
            /\ link'.app = visit[v].given /\ link'.installation = 0
        BY <3>1, <3>2, <3>3 DEF Registered, RowType
      <4>2. Whole(link)'
        <5>1. read.token \in 0 .. issued
          BY <3>2 DEF Whole
        <5>2. QED
          BY <2>1, <3>2, <3>3, <4>1, <5>1 DEF Whole, Ours
      <4>3. UsedLinkIsDead'
        BY <2>1, <2>3, <3>1, <3>2, <4>1 DEF SetupInv, UsedLinkIsDead
      <4>4. QED
        BY <1>1, <2>1, <3>1, <4>1, <4>2, <4>3, RowWritten
    <3>4. CASE visit[v].action = "installed"
      <4>1. /\ link' \in RowType /\ link'.status = "ready" /\ link'.token = 0
            /\ link'.app = read.app /\ link'.installation = visit[v].given
        BY <3>1, <3>2, <3>4 DEF ReadyRow, RowType
      <4>2. installs[visit[v].given] = [app |-> read.app, account |-> "ours"]
        <5>1. installs[visit[v].given] \in [app: Nat, account: {"ours", "other"}]
          BY <1>1, <3>2, <3>4, Entries
        <5>2. QED
          BY <3>2, <3>4, <5>1 DEF InstallationFits
      <4>3. Whole(link)'
        <5>1. 0 \in 0 .. issued
          BY <1>1 DEF SetupTypes
        <5>2. QED
          BY <2>1, <3>2, <3>4, <4>1, <4>2, <5>1 DEF Whole, Ours
      <4>4. UsedLinkIsDead'
        BY <4>1 DEF UsedLinkIsDead
      <4>5. QED
        BY <1>1, <2>1, <3>1, <4>1, <4>3, <4>4, RowWritten
    <3>5. QED
      BY <3>2, <3>3, <3>4
  <2>4. QED
    BY <2>2, <2>3
<1>14. CASE RecreateBegins
  <2>1. /\ recreate' = [step |-> "write", seen |-> link]
        /\ UNCHANGED <<link, issued, hubApps, installs, visit, overlapped>>
    BY <1>14 DEF RecreateBegins
  <2>2. SetupTypes' /\ Whole(link)' /\ UsedLinkIsDead' /\ Whole(recreate.seen)'
    BY <1>1, <1>2, <2>1, WholeStays DEF SetupInv, SetupTypes, UsedLinkIsDead
  <2>3. \A v \in Visits : Confirmed(v)'
    BY <1>1, <1>2, <2>1, SeenStays
  <2>4. QED
    BY <2>2, <2>3 DEF SetupInv
<1>15. CASE RecreateWrites
  <2>1. /\ recreate.step = "write" /\ recreate' = [step |-> "none", seen |-> Row0]
        /\ UNCHANGED <<hubApps, installs, visit>>
    BY <1>15 DEF RecreateWrites
  <2>2. recreate' \in [step: {"none", "write"}, seen: RowType] /\ recreate'.step = "none"
    BY <2>1, EmptyRow
  <2>3. CASE link.status = "gone"
    <3>1. UNCHANGED <<link, issued, overlapped>>
      BY <1>15, <2>3 DEF RecreateWrites
    <3>2. SetupTypes' /\ Whole(link)' /\ UsedLinkIsDead'
      BY <1>1, <1>2, <2>1, <2>2, <3>1, WholeStays DEF SetupInv, SetupTypes, UsedLinkIsDead
    <3>3. QED
      BY <1>1, <1>2, <2>1, <2>2, <3>1, <3>2, SeenStays DEF SetupInv
  <2>4. CASE link.status # "gone"
    <3>1. /\ link' = PendingRow(issued + 1, recreate.seen.app) /\ issued' = issued + 1
          /\ overlapped' \in BOOLEAN /\ issued + 1 \in Nat /\ recreate.seen.app \in Nat
      BY <1>1, <1>15, <2>4 DEF RecreateWrites, SetupTypes, RowType
    <3>2. /\ link' \in RowType /\ link'.status = "setup_required" /\ link'.config = "pending"
          /\ link'.token = issued' /\ link'.app = 0 /\ link'.installation = 0
      BY <3>1, PendingRows
    <3>3. issued' \in 0 .. issued' /\ Remembered
      BY <1>1, <2>1, <3>1 DEF SetupTypes, Remembered
    <3>4. SetupTypes' /\ Whole(link)' /\ UsedLinkIsDead'
      BY <1>1, <2>1, <2>2, <3>1, <3>2, <3>3 DEF SetupTypes, Whole, UsedLinkIsDead
    <3>5. QED
      BY <1>1, <2>1, <2>2, <3>3, <3>4, SeenStays DEF SetupInv
  <2>5. QED
    BY <2>3, <2>4
<1>16. CASE ConnectionGoes
  <2>1. link' = Row0 /\ UNCHANGED <<issued, hubApps, installs, visit, recreate, overlapped>>
    BY <1>16 DEF ConnectionGoes
  <2>2. SetupTypes' /\ Whole(link)' /\ UsedLinkIsDead'
    <3>1. 0 \in 0 .. issued
      BY <1>1 DEF SetupTypes
    <3>2. QED
      BY <1>1, <2>1, <3>1, EmptyRow DEF SetupTypes, Whole, UsedLinkIsDead
  <2>3. recreate'.step = "write" => Whole(recreate.seen)'
    BY <1>2, <2>1, WholeStays DEF SetupInv
  <2>4. QED
    BY <1>1, <1>2, <2>1, <2>2, <2>3, SeenStays DEF SetupInv
<1>17. QED
  BY <1>3, <1>4, <1>5, <1>6, <1>7, <1>9, <1>10, <1>11, <1>12, <1>13, <1>14, <1>15, <1>16
     DEF SetupPageNext

\* A connection is ready only as a whole, and unless visits or commands
\* overlapped only the newest link works, until it was used: for any number of
\* visits, links, Apps and installations, in any order of their steps.
THEOREM SetupsAreWhole == SetupSpec => []SetupIsWhole
<1>1. SetupInv => SetupIsWhole
  BY DEF SetupInv, SetupIsWhole, ReadyIsWhole, Whole, Ours
<1>2. QED
  BY <1>1, SetupBegins, SetupSteps, PTL DEF SetupSpec
-----------------------------------------------------------------------------
(* The webhook service *)

HookSpec == HookInit /\ [][HookNext]_hookVars

Unanswered == {"tenant", "connection", "list", "create", "classify", "resolve", "head", "store"}

HookRequest ==
  [step: {"none", "tell", "done"} \cup Unanswered, event: Events \cup {NoEvent},
   secret: {0, 1, 2}, head: {0, 1, 2}, after: SUBSET Requests,
   kind: {"none", "action", "follow-up", "mention", "summary-follow-up"},
   reply: {"none", "invalid", "no-trigger", "not-found", "event-handled", "error",
           "created", "duplicate"}]

HookTypes ==
  /\ platform \in {"github", "gitlab"}
  /\ tenant \in [status: {"ready", "pending", "gone"}, secret: {1, 2}, named: BOOLEAN]
  /\ hub \in [head: {1, 2}, checks: [{1, 2} -> Nat], thread: BOOLEAN]
  /\ request \in [Requests -> HookRequest]

\* What a request has shown by the time it stands at its step; nothing that
\* happens around it takes this back.
Established(r) ==
  LET e == EventOf(r)
      at == request[r].step
  IN  /\ at = "none" => request[r] = NoRequest
      /\ at # "none" => e \in Events
      /\ at \in Unanswered => request[r].reply = "none"
      /\ at \in {"connection", "classify", "resolve", "head", "store"} => e.repo = "ours"
      /\ at = "connection" => request[r].secret \in 1..tenant.secret
      /\ at \in {"classify", "resolve", "head", "store"} => e.key \in 1..tenant.secret
      /\ at \in {"resolve", "head", "store"} =>
           e.by # "self" /\ (request[r].kind = "action" => platform = "github")
      /\ at = "store" /\ request[r].kind = "action" => request[r].head = e.head
      /\ at \in {"list", "create"} => e.event = "pull"
      /\ request[r].after \subseteq Replied
      /\ request[r].reply = "event-handled" => hub.checks[e.head] > 0

Makes(r, h) == EventOf(r).event = "pull" /\ EventOf(r).head = h

\* A request that is about to make a check run where one has appeared since it
\* looked overlaps with the one that made it.
Raced(r) ==
  IsAt(r, "create") /\ hub.checks[EventOf(r).head] > 0 =>
    \E q \in Requests : Makes(q, EventOf(r).head) /\ Overlap(r, q)

TwoRaced ==
  \A h \in {1, 2} : hub.checks[h] > 1 =>
    \E r, q \in Requests : Makes(r, h) /\ Makes(q, h) /\ Overlap(r, q)

\* Whoever stored a job was told that it is new or that it failed, one at most is
\* told that it is new, and every request told of a job finds it.
AnswersTold ==
  /\ \A r \in Got("created") : \E j \in stored : j.id = EventOf(r).id /\ j.kind = request[r].kind
  /\ \A r \in Got("duplicate") : KnownJobs(r) # {}
  /\ \A j \in stored : \E r \in Got("created") \cup Got("error") :
       EventOf(r).id = j.id /\ request[r].kind = j.kind
  /\ \A r, q \in Got("created") :
       EventOf(r).id = EventOf(q).id /\ request[r].kind = request[q].kind => r = q

HookInv ==
  /\ HookTypes
  /\ \A r \in Requests : Established(r)
  /\ \A r \in Requests : Raced(r)
  /\ TwoRaced /\ AnswersTold /\ JobsAreAuthorized

LEMMA NothingRequested ==
  /\ NoRequest \in HookRequest /\ NoRequest.step = "none" /\ NoRequest.reply = "none"
  /\ NoRequest.event = NoEvent /\ NoEvent.event = "none" /\ NoRequest.after = {}
BY DEF NoRequest, NoEvent, HookRequest, Unanswered

LEMMA HookBegins == HookInit => HookInv
<1> SUFFICES ASSUME HookInit PROVE HookInv
  OBVIOUS
<1>1. PICK provisioned \in {0, 1} :
        hub = [head |-> 1, checks |-> [h \in {1, 2} |-> IF h = 1 THEN provisioned ELSE 0],
               thread |-> TRUE]
  BY DEF HookInit
<1>2. request \in [Requests -> HookRequest] /\ \A r \in Requests : request[r] = NoRequest
  BY NothingRequested DEF HookInit
<1>3. HookTypes
  <2>1. hub \in [head: {1, 2}, checks: [{1, 2} -> Nat], thread: BOOLEAN]
    BY <1>1
  <2>2. QED
    BY <1>2, <2>1 DEF HookTypes, HookInit
<1>4. \A r \in Requests : Established(r)
  BY <1>2, NothingRequested DEF Established, EventOf, Unanswered
<1>5. \A r \in Requests : Raced(r)
  BY <1>2, NothingRequested DEF Raced, IsAt
<1>6. TwoRaced
  <2>1. \A h \in {1, 2} : ~(hub.checks[h] > 1)
    BY <1>1
  <2>2. QED
    BY <2>1 DEF TwoRaced
<1>7. AnswersTold /\ JobsAreAuthorized
  BY <1>2, NothingRequested DEF AnswersTold, JobsAreAuthorized, Got, HookInit
<1>8. QED
  BY <1>3, <1>4, <1>5, <1>6, <1>7 DEF HookInv

\* The world only adds secrets and check runs.
Grows ==
  /\ platform' = platform /\ tenant'.secret >= tenant.secret
  /\ \A h \in {1, 2} : hub'.checks[h] >= hub.checks[h]

LEMMA EstablishedStays ==
  ASSUME HookInv, HookTypes', Grows, Replied \subseteq Replied',
         NEW w \in Requests, request'[w] = request[w]
  PROVE  Established(w)'
<1>1. Established(w) /\ EventOf(w)' = EventOf(w) /\ Events' = Events
  BY DEF HookInv, EventOf, Grows, Events
<1>2. request[w].reply = "event-handled" => hub'.checks[EventOf(w).head] > 0
  <2>1. SUFFICES ASSUME request[w].reply = "event-handled"
                 PROVE  hub'.checks[EventOf(w).head] > 0
    OBVIOUS
  <2>2. EventOf(w).head \in {1, 2}
    BY <1>1, <2>1, NothingRequested, EventsAssumption DEF Established, Events
  <2>3. /\ hub.checks[EventOf(w).head] \in Nat /\ hub'.checks[EventOf(w).head] \in Nat
        /\ hub.checks[EventOf(w).head] > 0
    BY <1>1, <2>1, <2>2 DEF Established, HookInv, HookTypes
  <2>4. QED
    BY <2>2, <2>3 DEF Grows
<1>3. \A k \in 1..tenant.secret : k \in 1..tenant'.secret
  BY DEF HookInv, HookTypes, Grows
<1>4. QED
  BY <1>1, <1>2, <1>3 DEF Established, Grows

\* A request keeps its event and what it came after.
Recalled ==
  \A w \in Requests : request[w].step # "none" =>
    EventOf(w)' = EventOf(w) /\ request'[w].after = request[w].after

LEMMA OverlapStays ==
  ASSUME HookInv, Recalled, NEW w \in Requests, NEW q \in Requests, NEW h,
         Makes(q, h), Overlap(w, q), request[w].step # "none"
  PROVE  Makes(q, h)' /\ Overlap(w, q)'
<1>1. request[q].step # "none"
  BY NothingRequested DEF HookInv, Established, Makes, EventOf
<1>2. QED
  BY <1>1 DEF Recalled, Makes, Overlap

LEMMA TwoStay ==
  ASSUME HookInv, Recalled, NEW h \in {1, 2},
         \E r, q \in Requests : Makes(r, h) /\ Makes(q, h) /\ Overlap(r, q)
  PROVE  \E r, q \in Requests : Makes(r, h)' /\ Makes(q, h)' /\ Overlap(r, q)'
<1>1. PICK r \in Requests, q \in Requests : Makes(r, h) /\ Makes(q, h) /\ Overlap(r, q)
  OBVIOUS
<1>2. request[r].step # "none"
  BY <1>1, NothingRequested DEF HookInv, Established, Makes, EventOf
<1>3. Makes(r, h)'
  BY <1>1, <1>2 DEF Recalled, Makes
<1>4. QED
  BY <1>1, <1>2, <1>3, OverlapStays

\* Where no job is stored, the requests that were told of one stay as they are.
LEMMA ToldStays ==
  ASSUME HookInv, HookTypes', Grows, stored' = stored,
         \A w \in Requests :
           \/ /\ request'[w].reply \notin {"created", "duplicate"}
              /\ request[w].reply \notin {"created", "duplicate", "error"}
           \/ /\ request'[w].reply = request[w].reply /\ request'[w].kind = request[w].kind
              /\ EventOf(w)' = EventOf(w)
  PROVE  AnswersTold' /\ JobsAreAuthorized'
<1>1. /\ Got("created")' = Got("created") /\ Got("duplicate")' = Got("duplicate")
      /\ Got("error") \subseteq Got("error")'
  BY DEF Got
<1>2. \A w \in Got("created") \cup Got("duplicate") \cup Got("error") :
        request'[w].kind = request[w].kind /\ EventOf(w)' = EventOf(w)
  BY DEF Got
<1>3. \A w \in Got("duplicate") : KnownJobs(w)' = KnownJobs(w)
  BY <1>2 DEF KnownJobs, Grows
<1>4. AnswersTold'
  BY <1>1, <1>2, <1>3 DEF HookInv, AnswersTold
<1>5. \A k \in 1..tenant.secret : k \in 1..tenant'.secret
  BY DEF HookInv, HookTypes, Grows
<1>6. QED
  BY <1>4, <1>5 DEF HookInv, JobsAreAuthorized
\* A request takes a step of its own.
RequestMoved(r, x) ==
  /\ x \in HookRequest /\ x.step # "none"
  /\ request' = [request EXCEPT ![r] = x]
  /\ request[r].step # "done"
  /\ request[r].step # "none" => x.event = EventOf(r) /\ x.after = request[r].after

LEMMA Movement ==
  ASSUME HookInv, NEW r \in Requests, NEW x, RequestMoved(r, x)
  PROVE  /\ request' \in [Requests -> HookRequest] /\ request'[r] = x
         /\ \A w \in Requests : w # r => request'[w] = request[w]
         /\ Replied \subseteq Replied' /\ Recalled /\ r \notin Replied
<1>1. /\ request' \in [Requests -> HookRequest] /\ request'[r] = x
      /\ \A w \in Requests : w # r => request'[w] = request[w]
  BY DEF HookInv, HookTypes, RequestMoved
<1>2. Replied \subseteq Replied' /\ r \notin Replied
  BY <1>1 DEF Replied, RequestMoved
<1>3. Recalled
  BY <1>1 DEF Recalled, RequestMoved, EventOf
<1>4. QED
  BY <1>1, <1>2, <1>3

\* While no check run is made, a step of a request disturbs no other request.
LEMMA MoveKeeps ==
  ASSUME HookInv, NEW r \in Requests, NEW x, RequestMoved(r, x), Established(r)',
         UNCHANGED <<platform, hub>>,
         tenant' \in [status: {"ready", "pending", "gone"}, secret: {1, 2}, named: BOOLEAN],
         tenant'.secret = tenant.secret,
         x.step = "create" => hub.checks[x.event.head] = 0
  PROVE  /\ HookTypes' /\ Grows /\ TwoRaced'
         /\ \A w \in Requests : Established(w)' /\ Raced(w)'
<1>1. /\ request' \in [Requests -> HookRequest] /\ request'[r] = x
      /\ \A w \in Requests : w # r => request'[w] = request[w]
      /\ Replied \subseteq Replied' /\ Recalled
  BY Movement
<1>2. HookTypes' /\ Grows
  <2>1. HookTypes'
    <3>1. HookRequest' = HookRequest
      BY DEF HookRequest, Events
    <3>2. QED
      BY <1>1, <3>1 DEF HookInv, HookTypes
  <2>2. tenant.secret \in Nat /\ \A h \in {1, 2} : hub.checks[h] \in Nat
    BY DEF HookInv, HookTypes
  <2>3. QED
    BY <2>1, <2>2 DEF Grows
<1>3. \A w \in Requests : Established(w)'
  BY <1>1, <1>2, EstablishedStays
<1>4. ASSUME NEW w \in Requests
      PROVE  Raced(w)'
  <2>1. CASE w = r
    BY <1>1, <2>1 DEF Raced, IsAt, EventOf
  <2>2. CASE w # r
    <3>1. SUFFICES ASSUME IsAt(w, "create"), hub.checks[EventOf(w).head] > 0
                   PROVE  \E q \in Requests : Makes(q, EventOf(w).head)' /\ Overlap(w, q)'
      BY <1>1, <2>2 DEF Raced, IsAt, EventOf
    <3>2. PICK q \in Requests : Makes(q, EventOf(w).head) /\ Overlap(w, q)
      BY <3>1 DEF HookInv, Raced
    <3>3. PICK h : h = EventOf(w).head
      OBVIOUS
    <3>4. EventOf(w)' = EventOf(w)
      BY <1>1, <2>2 DEF EventOf
    <3>5. QED
      BY <1>1, <3>1, <3>2, <3>3, <3>4, OverlapStays DEF IsAt
  <2>3. QED
    BY <2>1, <2>2
<1>5. TwoRaced'
  BY <1>1, TwoStay DEF HookInv, TwoRaced
<1>6. QED
  BY <1>2, <1>3, <1>4, <1>5

\* A request learns something, or is answered without a job.
LEMMA QuietMove ==
  ASSUME HookInv, NEW r \in Requests, NEW x, RequestMoved(r, x), Established(r)',
         UNCHANGED <<platform, hub, stored>>,
         tenant' \in [status: {"ready", "pending", "gone"}, secret: {1, 2}, named: BOOLEAN],
         tenant'.secret = tenant.secret,
         x.step = "create" => hub.checks[x.event.head] = 0,
         \/ /\ x.reply \notin {"created", "duplicate"}
            /\ request[r].reply \notin {"created", "duplicate", "error"}
         \/ x.reply = request[r].reply /\ x.kind = request[r].kind /\ x.event = EventOf(r)
  PROVE  HookInv'
<1>1. /\ request'[r] = x
      /\ \A w \in Requests : w # r => request'[w] = request[w]
  BY Movement
<1>2. /\ HookTypes' /\ Grows /\ TwoRaced'
      /\ \A w \in Requests : Established(w)' /\ Raced(w)'
  BY MoveKeeps
<1>3. AnswersTold' /\ JobsAreAuthorized'
  BY <1>1, <1>2, ToldStays DEF EventOf
<1>4. QED
  BY <1>2, <1>3 DEF HookInv

\* A check run is made, whatever the request hears of it.
LEMMA CheckRunMade ==
  ASSUME HookInv, NEW r \in Requests, IsAt(r, "create"), NEW reply \in {"event-handled", "error"},
         Replies(r, reply), hub' = [hub EXCEPT !.checks[EventOf(r).head] = @ + 1],
         UNCHANGED <<platform, tenant, stored>>
  PROVE  HookInv'
<1>1. PICK x : x = [request[r] EXCEPT !.step = "done", !.reply = reply]
  OBVIOUS
<1>2. PICK h : h = EventOf(r).head
  OBVIOUS
<1>3. /\ request[r] \in HookRequest /\ Established(r)
      /\ EventOf(r) \in Events /\ EventOf(r).event = "pull" /\ request[r].reply = "none"
  BY DEF HookInv, HookTypes, Established, IsAt, Unanswered
<1>4. h \in {1, 2}
  BY <1>2, <1>3, EventsAssumption DEF Events
<1>5. RequestMoved(r, x) /\ x.step = "done" /\ x.reply = reply /\ x.event = EventOf(r)
  <2>1. /\ x \in HookRequest /\ x.step = "done" /\ x.reply = reply
        /\ x.event = EventOf(r) /\ x.after = request[r].after
    BY <1>1, <1>3 DEF HookRequest, EventOf
  <2>2. request' = [request EXCEPT ![r] = x]
    BY <1>1 DEF Replies
  <2>3. QED
    BY <2>1, <2>2 DEF RequestMoved, IsAt
<1>6. /\ request' \in [Requests -> HookRequest] /\ request'[r] = x
      /\ \A w \in Requests : w # r => request'[w] = request[w]
      /\ Replied \subseteq Replied' /\ Recalled /\ r \notin Replied
  BY <1>5, Movement
<1>7. /\ hub' \in [head: {1, 2}, checks: [{1, 2} -> Nat], thread: BOOLEAN]
      /\ hub'.checks[h] = hub.checks[h] + 1
      /\ \A k \in {1, 2} : k # h => hub'.checks[k] = hub.checks[k]
  <2>1. PICK c : c = [hub.checks EXCEPT ![h] = @ + 1]
    OBVIOUS
  <2>2. c \in [{1, 2} -> Nat] /\ c[h] = hub.checks[h] + 1
        /\ \A k \in {1, 2} : k # h => c[k] = hub.checks[k]
    BY <1>4, <2>1 DEF HookInv, HookTypes
  <2>3. hub' = [hub EXCEPT !.checks = c]
    BY <1>2, <2>1
  <2>4. QED
    BY <2>2, <2>3 DEF HookInv, HookTypes
<1>8. HookTypes' /\ Grows
  <2>1. tenant.secret \in Nat /\ \A k \in {1, 2} : hub.checks[k] \in Nat
    BY DEF HookInv, HookTypes
  <2>2. HookTypes'
    <3>1. HookRequest' = HookRequest
      BY DEF HookRequest, Events
    <3>2. QED
      BY <1>6, <1>7, <3>1 DEF HookInv, HookTypes
  <2>3. \A k \in {1, 2} : hub'.checks[k] >= hub.checks[k]
    BY <1>7, <2>1
  <2>4. QED
    BY <2>1, <2>2, <2>3 DEF Grows
<1>9. hub.checks[h] \in Nat /\ hub'.checks[h] > 0
  BY <1>4, <1>7 DEF HookInv, HookTypes
<1>10. ASSUME NEW w \in Requests
       PROVE  Established(w)'
  <2>1. CASE w = r
    <3>1. /\ request'[w].step = "done" /\ request'[w].event = EventOf(r)
          /\ request'[w].after = request[r].after
      BY <1>5, <1>6, <2>1 DEF RequestMoved, IsAt
    <3>2. Events' = Events
      BY DEF Events
    <3>3. QED
      BY <1>2, <1>3, <1>6, <1>9, <2>1, <3>1, <3>2 DEF Established, EventOf, Unanswered
  <2>2. CASE w # r
    BY <1>6, <1>8, <2>2, EstablishedStays
  <2>3. QED
    BY <2>1, <2>2
<1>11. ASSUME NEW w \in Requests
       PROVE  Raced(w)'
  <2>1. CASE w = r
    BY <1>5, <1>6, <2>1 DEF Raced, IsAt
  <2>2. CASE w # r
    <3>1. SUFFICES ASSUME IsAt(w, "create"), hub'.checks[EventOf(w).head] > 0
                   PROVE  \E q \in Requests : Makes(q, EventOf(w).head)' /\ Overlap(w, q)'
      BY <1>6, <2>2 DEF Raced, IsAt, EventOf
    <3>2. PICK k : k = EventOf(w).head
      OBVIOUS
    <3>3. EventOf(w)' = EventOf(w) /\ k \in {1, 2}
      <4>1. EventOf(w) \in Events
        BY <3>1 DEF HookInv, Established, IsAt
      <4>2. QED
        BY <1>6, <2>2, <3>2, <4>1, EventsAssumption DEF EventOf, Events
    <3>4. \E q \in Requests : Makes(q, k) /\ Overlap(w, q)
      <4>1. CASE k = h
        <5>1. w \notin Replied /\ r \notin Replied
          BY <1>6, <3>1 DEF Replied, IsAt
        <5>2. Makes(r, k) /\ Overlap(w, r)
          BY <1>2, <1>3, <2>2, <4>1, <5>1 DEF Makes, Overlap, HookInv, Established
        <5>3. QED
          BY <5>2
      <4>2. CASE k # h
        BY <1>7, <3>1, <3>2, <3>3, <4>2 DEF HookInv, Raced
      <4>3. QED
        BY <4>1, <4>2
    <3>5. QED
      BY <1>6, <3>1, <3>2, <3>3, <3>4, OverlapStays DEF IsAt
  <2>3. QED
    BY <2>1, <2>2
<1>12. ASSUME NEW k \in {1, 2}, hub'.checks[k] > 1
       PROVE  \E p, q \in Requests : Makes(p, k)' /\ Makes(q, k)' /\ Overlap(p, q)'
  <2>1. \E p, q \in Requests : Makes(p, k) /\ Makes(q, k) /\ Overlap(p, q)
    <3>1. CASE k = h
      <4>1. hub.checks[h] > 0
        BY <1>7, <1>9, <1>12, <3>1
      <4>2. PICK q \in Requests : Makes(q, h) /\ Overlap(r, q)
        BY <1>2, <4>1 DEF HookInv, Raced
      <4>3. QED
        BY <1>2, <1>3, <3>1, <4>2 DEF Makes
    <3>2. CASE k # h
      BY <1>7, <1>12, <3>2 DEF HookInv, TwoRaced
    <3>3. QED
      BY <3>1, <3>2
  <2>2. QED
    BY <1>6, <2>1, TwoStay
<1>13. AnswersTold' /\ JobsAreAuthorized'
  BY <1>3, <1>5, <1>6, <1>8, ToldStays DEF EventOf
<1>14. QED
  BY <1>8, <1>10, <1>11, <1>12, <1>13 DEF HookInv, TwoRaced
\* What a request must have shown to be let on as x.
Permitted(r, x) ==
  LET e == EventOf(r)
  IN  /\ x.step \in Unanswered => x.reply = "none"
      /\ x.step \in {"connection", "classify", "resolve", "head", "store"} => e.repo = "ours"
      /\ x.step = "connection" => x.secret \in 1..tenant.secret
      /\ x.step \in {"classify", "resolve", "head", "store"} => e.key \in 1..tenant.secret
      /\ x.step \in {"resolve", "head", "store"} =>
           e.by # "self" /\ (x.kind = "action" => platform = "github")
      /\ x.step = "store" /\ x.kind = "action" => x.head = e.head
      /\ x.step \in {"list", "create"} => e.event = "pull"
      /\ x.step = "create" => hub.checks[e.head] = 0
      /\ x.reply = "event-handled" => hub.checks[e.head] > 0

LEMMA StepTaken ==
  ASSUME HookInv, NEW r \in Requests, request[r].step # "none", NEW x, RequestMoved(r, x), Permitted(r, x),
         UNCHANGED <<platform, hub, stored>>,
         tenant' \in [status: {"ready", "pending", "gone"}, secret: {1, 2}, named: BOOLEAN],
         tenant'.secret = tenant.secret,
         \/ /\ x.reply \notin {"created", "duplicate"}
            /\ request[r].reply \notin {"created", "duplicate", "error"}
         \/ x.reply = request[r].reply /\ x.kind = request[r].kind
  PROVE  HookInv'
<1>1. request'[r] = x /\ Replied \subseteq Replied'
  BY Movement
<1>2. x.event = EventOf(r) /\ x.after = request[r].after /\ x.step # "none"
  BY DEF RequestMoved
<1>3. EventOf(r) \in Events /\ request[r].after \subseteq Replied /\ Events' = Events
  BY DEF HookInv, Established, Events
<1>4. Established(r)'
  BY <1>1, <1>2, <1>3 DEF Permitted, Established, EventOf
<1>5. x.step = "create" => hub.checks[x.event.head] = 0
  BY <1>2 DEF Permitted
<1>6. QED
  BY <1>2, <1>4, <1>5, QuietMove

\* A request that stands at a step has the record of that step.
LEMMA Standing ==
  ASSUME HookInv, NEW r \in Requests, request[r].step \in Unanswered
  PROVE  /\ request[r] \in HookRequest /\ Established(r) /\ request[r].reply = "none"
         /\ request[r].step # "none" /\ request[r].step # "done"
         /\ EventOf(r) \in Events /\ EventOf(r).head \in {1, 2}
BY EventsAssumption DEF HookInv, HookTypes, Established, Unanswered, Events

LEMMA Answered ==
  ASSUME HookInv, NEW r \in Requests, request[r].step \in Unanswered,
         NEW reply \in {"no-trigger", "not-found", "event-handled", "error"}, Replies(r, reply),
         reply = "event-handled" => hub.checks[EventOf(r).head] > 0,
         UNCHANGED <<platform, tenant, hub, stored>>
  PROVE  HookInv'
<1>1. PICK x : x = [request[r] EXCEPT !.step = "done", !.reply = reply]
  OBVIOUS
<1>2. /\ x \in HookRequest /\ x.step = "done" /\ x.reply = reply
      /\ x.event = EventOf(r) /\ x.after = request[r].after
  BY <1>1, Standing DEF HookRequest, EventOf
<1>3. request' = [request EXCEPT ![r] = x]
  BY <1>1 DEF Replies
<1>4. RequestMoved(r, x) /\ Permitted(r, x)
  BY <1>2, <1>3, Standing DEF RequestMoved, Permitted, Unanswered
<1>5. QED
  BY <1>2, <1>4, Standing, StepTaken DEF HookInv, HookTypes

LEMMA Proceeded ==
  ASSUME HookInv, NEW r \in Requests, request[r].step \in Unanswered,
         NEW next \in Unanswered, Proceeds(r, next),
         UNCHANGED <<platform, hub, stored>>,
         tenant' \in [status: {"ready", "pending", "gone"}, secret: {1, 2}, named: BOOLEAN],
         tenant'.secret = tenant.secret,
         \A x \in HookRequest : x.step = next /\ x.reply = "none" /\ x.kind = request[r].kind
                                => Permitted(r, x)
  PROVE  HookInv'
<1>1. PICK x : x = [request[r] EXCEPT !.step = next]
  OBVIOUS
<1>2. /\ x \in HookRequest /\ x.step = next /\ x.reply = "none" /\ x.kind = request[r].kind
      /\ x.event = EventOf(r) /\ x.after = request[r].after
  BY <1>1, Standing DEF HookRequest, EventOf
<1>3. request' = [request EXCEPT ![r] = x]
  BY <1>1 DEF Proceeds
<1>4. RequestMoved(r, x) /\ Permitted(r, x)
  BY <1>2, <1>3, Standing DEF RequestMoved, Unanswered
<1>5. QED
  BY <1>2, <1>4, Standing, StepTaken
\* The storage finds the job of this very event or keeps a new one, and the
\* request is told of it, or of a failure.
StoreTells(r, next, reply) == request' = [request EXCEPT ![r].step = next, ![r].reply = reply]
LEMMA JobKept ==
  ASSUME HookInv, NEW r \in Requests, IsAt(r, "store"), UNCHANGED <<platform, tenant, hub>>,
         NEW next \in {"tell", "done"}, NEW reply \in {"created", "duplicate", "error"},
         StoreTells(r, next, reply), stored' = WithJob(r),
         reply = "created" => KnownJobs(r) = {},
         reply = "duplicate" => KnownJobs(r) # {}
  PROVE  HookInv'
<1>1. request[r].step \in Unanswered
  BY DEF IsAt, Unanswered
<1>2. PICK x : x = [request[r] EXCEPT !.step = next, !.reply = reply]
  OBVIOUS
<1>3. /\ x \in HookRequest /\ x.step = next /\ x.reply = reply
      /\ x.event = EventOf(r) /\ x.after = request[r].after
      /\ x.kind = request[r].kind /\ x.head = request[r].head
  BY <1>1, <1>2, Standing DEF HookRequest, EventOf
<1>4. RequestMoved(r, x)
  <2>1. request' = [request EXCEPT ![r] = x]
    BY <1>2 DEF StoreTells
  <2>2. QED
    BY <1>1, <1>3, <2>1 DEF RequestMoved, IsAt
<1>5. /\ request'[r] = x /\ \A w \in Requests : w # r => request'[w] = request[w]
      /\ Replied \subseteq Replied'
  BY <1>4, Movement
<1>6. Established(r)'
  <2>1. Events' = Events /\ Established(r) /\ EventOf(r) \in Events
    BY <1>1, Standing DEF Events
  <2>2. /\ request'[r].step \in {"tell", "done"} /\ request'[r].step \notin Unanswered
        /\ request'[r].reply # "event-handled" /\ request'[r].after = request[r].after
        /\ EventOf(r)' = EventOf(r)
    BY <1>3, <1>5 DEF EventOf, Unanswered
  <2>3. /\ request[r].after \subseteq Replied /\ request[r].after \subseteq Replied'
        /\ EventOf(r)' \in Events'
    BY <1>5, <2>1, <2>2 DEF Established
  <2>4. QED
    BY <2>2, <2>3 DEF Established, Unanswered
<1>7. /\ HookTypes' /\ TwoRaced' /\ Grows
      /\ \A w \in Requests : Established(w)' /\ Raced(w)'
  BY <1>3, <1>4, <1>6, MoveKeeps DEF HookInv, HookTypes
<1>8. /\ request[r].reply = "none" /\ Established(r)
      /\ \A w \in Requests : request'[w].kind = request[w].kind /\ EventOf(w)' = EventOf(w)
  BY <1>1, <1>3, <1>5, Standing DEF EventOf
<1>9. /\ \A w \in Requests : w # r => request'[w].reply = request[w].reply
      /\ request'[r].reply = reply
  BY <1>3, <1>5
<1>10. /\ Got("error") \subseteq Got("error")'
       /\ reply = "created" => Got("created")' = Got("created") \cup {r}
       /\ reply # "created" => Got("created")' = Got("created")
       /\ reply = "duplicate" => Got("duplicate")' = Got("duplicate") \cup {r}
       /\ reply # "duplicate" => Got("duplicate")' = Got("duplicate")
       /\ reply = "error" => r \in Got("error")'
       /\ r \notin Got("created") /\ r \notin Got("duplicate")
  <2>1. /\ r \notin Got("created") /\ r \notin Got("duplicate") /\ r \notin Got("error")
    BY <1>8 DEF Got
  <2>2. \A w \in Requests, y \in {"created", "duplicate", "error"} :
          w # r => (w \in Got(y) <=> w \in Got(y)')
    BY <1>9 DEF Got
  <2>3. \A y \in {"created", "duplicate", "error"} : r \in Got(y)' <=> reply = y
    BY <1>9 DEF Got
  <2>4. \A y \in {"created", "duplicate", "error"} : Got(y) \subseteq Requests /\ Got(y)' \subseteq Requests
    BY DEF Got
  <2>5. QED
    BY <2>1, <2>2, <2>3, <2>4
<1>11. CASE KnownJobs(r) # {}
  <2>1. stored' = stored /\ reply # "created"
    BY <1>11 DEF WithJob
  <2>2. \A w \in Requests : KnownJobs(w)' = KnownJobs(w)
    BY <1>8, <2>1 DEF KnownJobs
  <2>3. AnswersTold'
    <3>1. Got("created")' = Got("created") /\ Got("created") \subseteq Requests
          /\ Got("error") \subseteq Requests /\ Got("duplicate")' \subseteq Requests
      BY <1>10, <2>1 DEF Got
    <3>2. \A w \in Got("duplicate")' : w = r \/ w \in Got("duplicate")
      BY <1>10
    <3>3. \A w \in Got("duplicate")' : KnownJobs(w)' # {}
      BY <1>11, <2>2, <3>1, <3>2 DEF HookInv, AnswersTold
    <3>4. /\ \A w \in Got("created")' :
               \E k \in stored' : k.id = EventOf(w)'.id /\ k.kind = request'[w].kind
          /\ \A w, q \in Got("created")' :
               EventOf(w)'.id = EventOf(q)'.id /\ request'[w].kind = request'[q].kind => w = q
      BY <1>8, <2>1, <3>1 DEF HookInv, AnswersTold
    <3>5. \A k \in stored' : \E w \in Got("created")' \cup Got("error")' :
            EventOf(w)'.id = k.id /\ request'[w].kind = k.kind
      BY <1>8, <1>10, <2>1, <3>1 DEF HookInv, AnswersTold
    <3>6. QED
      BY <3>3, <3>4, <3>5 DEF AnswersTold
  <2>4. JobsAreAuthorized'
    BY <2>1 DEF HookInv, JobsAreAuthorized
  <2>5. QED
    BY <1>7, <2>3, <2>4 DEF HookInv
<1>12. CASE KnownJobs(r) = {}
  <2>1. PICK j : j = [id |-> EventOf(r).id, kind |-> request[r].kind,
                      head |-> request[r].head, event |-> EventOf(r)]
    OBVIOUS
  <2>2. stored' = stored \cup {j} /\ reply # "duplicate"
    BY <1>12, <2>1 DEF WithJob
  <2>3. /\ j.id = EventOf(r).id /\ j.kind = request[r].kind
        /\ j.head = request[r].head /\ j.event = EventOf(r)
    BY <2>1
  <2>4. ASSUME NEW q \in Got("created"), EventOf(q).id = EventOf(r).id,
               request[q].kind = request[r].kind
        PROVE  FALSE
    <3>1. PICK k \in stored : k.id = EventOf(q).id /\ k.kind = request[q].kind
      BY DEF HookInv, AnswersTold
    <3>2. k \in KnownJobs(r)
      BY <2>4, <3>1 DEF KnownJobs
    <3>3. QED
      BY <1>12, <3>2
  <2>5. AnswersTold'
    <3>1. \A w \in Got("created")' :
            \E k \in stored' : k.id = EventOf(w)'.id /\ k.kind = request'[w].kind
      <4>1. \A w \in Got("created")' : w \in Got("created") \/ w = r
        BY <1>10
      <4>2. Got("created") \subseteq Requests
        BY DEF Got
      <4>3. QED
        BY <1>8, <2>2, <2>3, <4>1, <4>2 DEF HookInv, AnswersTold
    <3>2. \A w \in Got("duplicate")' : KnownJobs(w)' # {}
      <4>1. \A w \in Requests : KnownJobs(w) \subseteq KnownJobs(w)'
        BY <1>8, <2>2 DEF KnownJobs
      <4>2. QED
        BY <1>10, <2>2, <4>1 DEF HookInv, AnswersTold, Got
    <3>3. \A k \in stored' : \E w \in Got("created")' \cup Got("error")' :
            EventOf(w)'.id = k.id /\ request'[w].kind = k.kind
      <4>1. r \in Got("created")' \cup Got("error")'
        BY <1>10, <2>2
      <4>2. Got("created") \cup Got("error") \subseteq Got("created")' \cup Got("error")'
        BY <1>10
      <4>3. QED
        BY <1>8, <2>2, <2>3, <4>1, <4>2 DEF HookInv, AnswersTold, Got
    <3>4. \A w, q \in Got("created")' :
            EventOf(w)'.id = EventOf(q)'.id /\ request'[w].kind = request'[q].kind => w = q
      BY <1>8, <1>10, <2>4 DEF HookInv, AnswersTold, Got
    <3>5. QED
      BY <3>1, <3>2, <3>3, <3>4 DEF AnswersTold
  <2>6. JobsAreAuthorized'
    <3>1. /\ j.event.key \in 1..tenant.secret /\ j.event.repo = "ours" /\ j.event.by # "self"
          /\ j.kind = "action" => j.head = j.event.head
      BY <1>8, <2>3 DEF Established, IsAt
    <3>2. QED
      BY <2>2, <3>1 DEF HookInv, JobsAreAuthorized
  <2>7. QED
    BY <1>7, <2>5, <2>6 DEF HookInv
<1>13. QED
  BY <1>11, <1>12

LEMMA JobStored ==
  ASSUME HookInv, NEW r \in Requests, StoresJob(r)
  PROVE  HookInv'
<1>1. IsAt(r, "store") /\ request[r].step \in Unanswered /\ UNCHANGED <<platform, tenant, hub>>
  BY DEF StoresJob, IsAt, Unanswered
<1>2. CASE tenant.status = "gone"
  BY <1>1, <1>2, Answered DEF StoresJob, HookInv, HookTypes
<1>3. CASE tenant.status # "gone"
  BY <1>1, <1>3, JobKept DEF StoresJob, StoreTells
<1>4. QED
  BY <1>2, <1>3

LEMMA HubMoves ==
  ASSUME HookInv, HookTypes', Grows, UNCHANGED <<request, stored>>, hub'.checks = hub.checks
  PROVE  HookInv'
<1>1. Replied' = Replied /\ Recalled
  BY DEF Replied, Recalled, EventOf
<1>2. \A w \in Requests : Established(w)'
  BY <1>1, EstablishedStays
<1>3. (\A w \in Requests : Raced(w)') /\ TwoRaced'
  BY DEF HookInv, Raced, TwoRaced, IsAt, EventOf, Makes, Overlap
<1>4. AnswersTold' /\ JobsAreAuthorized'
  BY ToldStays DEF EventOf
<1>5. QED
  BY <1>2, <1>3, <1>4 DEF HookInv
LEMMA HookSteps == HookInv /\ [HookNext]_hookVars => HookInv'
<1> SUFFICES ASSUME HookInv, [HookNext]_hookVars PROVE HookInv'
  OBVIOUS
<1>1. /\ tenant \in [status: {"ready", "pending", "gone"}, secret: {1, 2}, named: BOOLEAN]
      /\ \A r \in Requests : request[r] \in HookRequest /\ Established(r)
      /\ platform \in {"github", "gitlab"} /\ tenant.secret \in Nat
      /\ \A h \in {1, 2} : hub.checks[h] \in Nat
  BY DEF HookInv, HookTypes
<1>2. CASE UNCHANGED hookVars
  <2>1. HookTypes' /\ Grows
    <3>1. HookRequest' = HookRequest
      BY <1>2 DEF hookVars, HookRequest, Events
    <3>2. QED
      BY <1>1, <1>2, <3>1 DEF HookInv, HookTypes, Grows, hookVars
  <2>2. QED
    BY <1>2, <2>1, HubMoves DEF hookVars
<1>3. CASE WorldChanges
  <2>1. HookRequest' = HookRequest
    BY <1>3 DEF WorldChanges, HookRequest, Events
  <2>2. /\ UNCHANGED <<platform, request, stored>> /\ hub'.checks = hub.checks
        /\ hub' \in [head: {1, 2}, checks: [{1, 2} -> Nat], thread: BOOLEAN]
    BY <1>3 DEF WorldChanges, HookInv, HookTypes
  <2>3. /\ tenant' \in [status: {"ready", "pending", "gone"}, secret: {1, 2}, named: BOOLEAN]
        /\ tenant'.secret = tenant.secret \/ tenant'.secret = 2
    BY <1>1, <1>3 DEF WorldChanges
  <2>4. HookTypes'
    BY <2>1, <2>2, <2>3 DEF HookInv, HookTypes
  <2>5. Grows
    BY <1>1, <2>2, <2>3 DEF Grows
  <2>6. QED
    BY <2>2, <2>4, <2>5, HubMoves
<1>4. ASSUME NEW r \in Requests, Arrives(r)
      PROVE  HookInv'
  <2>1. PICK e \in Events :
          request' = [request EXCEPT ![r] = [NoRequest EXCEPT
            !.step = IF FirstReply(e) = "none" THEN "tenant" ELSE "done",
            !.event = e, !.reply = FirstReply(e), !.after = Replied]]
    BY <1>4 DEF Arrives
  <2>2. PICK x : x = [NoRequest EXCEPT
            !.step = IF FirstReply(e) = "none" THEN "tenant" ELSE "done",
            !.event = e, !.reply = FirstReply(e), !.after = Replied]
    OBVIOUS
  <2>3. FirstReply(e) \in {"none", "invalid", "no-trigger", "not-found"}
    BY DEF FirstReply
  <2>4. /\ x \in HookRequest /\ x.step = IF FirstReply(e) = "none" THEN "tenant" ELSE "done"
        /\ x.event = e /\ x.reply = FirstReply(e) /\ x.after = Replied
    <3>1. Replied \subseteq Requests
      BY DEF Replied
    <3>2. QED
      BY <2>2, <2>3, <3>1, NothingRequested DEF NoRequest, HookRequest, Unanswered
  <2>5. /\ RequestMoved(r, x) /\ UNCHANGED <<platform, tenant, hub, stored>>
        /\ request[r].step = "none"
    <3>1. request[r].step = "none" /\ UNCHANGED <<platform, tenant, hub, stored>>
      BY <1>4 DEF Arrives, IsAt, OnlyRequests
    <3>2. request' = [request EXCEPT ![r] = x] /\ x.step # "none"
      BY <2>1, <2>2, <2>4
    <3>3. QED
      BY <2>4, <3>1, <3>2 DEF RequestMoved
  <2>6. request'[r] = x /\ Replied \subseteq Replied'
    BY <2>5, Movement
  <2>7. Established(r)'
    <3>1. Events' = Events
      BY <2>5 DEF Events
    <3>2. QED
      BY <2>3, <2>4, <2>6, <3>1 DEF Established, EventOf, Unanswered
  <2>8. request[r].reply = "none"
    BY <1>1, <2>5, NothingRequested DEF Established
  <2>9. QED
    BY <1>1, <2>3, <2>4, <2>5, <2>7, <2>8, QuietMove
<1>5. ASSUME NEW r \in Requests, FindsTenant(r)
      PROVE  HookInv'
  <2>1. /\ UNCHANGED <<platform, tenant, hub, stored>>
        /\ request[r].step = "tenant" /\ request[r].step \in Unanswered
    BY <1>5 DEF FindsTenant, IsAt, OnlyRequests, Unanswered
  <2>2. CASE tenant.status = "gone" \/ EventOf(r).repo # "ours"
    BY <1>5, <2>1, <2>2, Answered DEF FindsTenant
  <2>3. CASE ~(tenant.status = "gone" \/ EventOf(r).repo # "ours")
    <3>1. PICK x : x = [request[r] EXCEPT !.step = "connection", !.secret = tenant.secret]
      OBVIOUS
    <3>2. /\ x \in HookRequest /\ x.step = "connection" /\ x.secret = tenant.secret
          /\ x.event = EventOf(r) /\ x.after = request[r].after /\ x.reply = "none"
      <4>1. "connection" \in Unanswered /\ tenant.secret \in {0, 1, 2}
        BY <1>1 DEF Unanswered
      <4>2. QED
        BY <2>1, <3>1, <4>1, Standing DEF HookRequest, EventOf
    <3>3. RequestMoved(r, x)
      <4>1. request' = [request EXCEPT ![r] = x]
        BY <1>5, <2>3, <3>1 DEF FindsTenant
      <4>2. QED
        BY <2>1, <3>2, <4>1 DEF RequestMoved
    <3>4. Permitted(r, x)
      BY <1>1, <2>3, <3>2 DEF Permitted
    <3>5. QED
      BY <1>1, <2>1, <3>2, <3>3, <3>4, Standing, StepTaken
  <2>4. QED
    BY <2>2, <2>3
<1>6. ASSUME NEW r \in Requests, Authorizes(r)
      PROVE  HookInv'
  <2>1. /\ UNCHANGED <<platform, tenant, hub, stored>>
        /\ request[r].step = "connection" /\ request[r].step \in Unanswered
    BY <1>6 DEF Authorizes, IsAt, OnlyRequests, Unanswered
  <2>2. PICK secret : secret = IF platform = "github" THEN tenant.secret ELSE request[r].secret
    OBVIOUS
  <2>3. CASE tenant.status = "ready" /\ KnowsSecret(r, secret)
    <3>1. PICK next : next = IF platform = "github" /\ EventOf(r).event = "pull"
                             THEN "list" ELSE "classify"
      OBVIOUS
    <3>2. Proceeds(r, next) /\ next \in {"list", "classify"} /\ next \in Unanswered
      BY <1>6, <2>2, <2>3, <3>1 DEF Authorizes, Unanswered
    <3>3. EventOf(r).key \in 1..tenant.secret /\ EventOf(r).repo = "ours"
      BY <1>1, <2>1, <2>2, <2>3 DEF Established, KnowsSecret
    <3>4. \A x \in HookRequest : x.step = next /\ x.reply = "none" /\ x.kind = request[r].kind
                                 => Permitted(r, x)
      BY <3>1, <3>2, <3>3 DEF Permitted
    <3>5. QED
      BY <1>1, <2>1, <3>2, <3>4, Proceeded
  <2>4. CASE ~(tenant.status = "ready" /\ KnowsSecret(r, secret))
    BY <1>6, <2>1, <2>2, <2>4, Answered DEF Authorizes
  <2>5. QED
    BY <2>3, <2>4
<1>7. ASSUME NEW r \in Requests, ListsCheckRuns(r)
      PROVE  HookInv'
  <2>1. /\ UNCHANGED <<platform, tenant, hub, stored>>
        /\ request[r].step = "list" /\ request[r].step \in Unanswered
        /\ "create" \in Unanswered
    BY <1>7 DEF ListsCheckRuns, IsAt, OnlyRequests, Unanswered
  <2>2. CASE hub.checks[EventOf(r).head] > 0
    BY <1>7, <2>1, <2>2, Answered DEF ListsCheckRuns
  <2>3. CASE ~(hub.checks[EventOf(r).head] > 0)
    <3>1. EventOf(r).event = "pull" /\ hub.checks[EventOf(r).head] = 0
      <4>1. EventOf(r).head \in {1, 2} /\ EventOf(r).event = "pull"
        BY <1>1, <2>1, Standing DEF Established
      <4>2. QED
        BY <1>1, <2>3, <4>1
    <3>2. \A x \in HookRequest : x.step = "create" /\ x.reply = "none" /\ x.kind = request[r].kind
                                 => Permitted(r, x)
      BY <3>1 DEF Permitted
    <3>3. QED
      BY <1>1, <1>7, <2>1, <2>3, <3>2, Proceeded DEF ListsCheckRuns
  <2>4. QED
    BY <2>2, <2>3
<1>8. ASSUME NEW r \in Requests, CreatesCheckRun(r)
      PROVE  HookInv'
  BY <1>8, CheckRunMade DEF CreatesCheckRun
<1>9. ASSUME NEW r \in Requests, Classifies(r)
      PROVE  HookInv'
  <2>1. /\ UNCHANGED <<platform, tenant, hub, stored>>
        /\ request[r].step = "classify" /\ request[r].step \in Unanswered
    BY <1>9 DEF Classifies, IsAt, OnlyRequests, Unanswered
  <2>2. PICK kind : kind = IF platform = "github" THEN GitHubKind(EventOf(r))
                           ELSE GitLabKind(EventOf(r))
    OBVIOUS
  <2>3. CASE kind = "none"
    BY <1>9, <2>1, <2>2, <2>3, Answered DEF Classifies
  <2>4. CASE kind # "none"
    <3>1. /\ kind \in {"action", "follow-up", "mention", "summary-follow-up"}
          /\ kind = "action" => platform = "github"
          /\ EventOf(r).by # "self"
      <4>1. CASE platform = "github"
        <5>1. EventOf(r) \in GitHubEvents
          BY <2>1, <4>1, Standing DEF Events
        <5>2. QED
          BY <2>2, <2>4, <4>1, <5>1, EventsAssumption DEF GitHubKind
      <4>2. CASE platform # "github"
        BY <2>2, <2>4, <4>2 DEF GitLabKind
      <4>3. QED
        BY <4>1, <4>2
    <3>2. PICK x : x = [request[r] EXCEPT !.kind = kind,
                          !.step = IF platform = "github" THEN "resolve" ELSE "store",
                          !.head = EventOf(r).head]
      OBVIOUS
    <3>3. /\ x \in HookRequest /\ x.step = IF platform = "github" THEN "resolve" ELSE "store"
          /\ x.event = EventOf(r) /\ x.after = request[r].after /\ x.reply = "none"
          /\ x.kind = kind /\ x.head = EventOf(r).head
      <4>1. "resolve" \in Unanswered /\ "store" \in Unanswered
            /\ EventOf(r).head \in {0, 1, 2}
        BY <2>1, Standing DEF Unanswered
      <4>2. QED
        BY <2>1, <3>1, <3>2, <4>1, Standing DEF HookRequest, EventOf
    <3>4. RequestMoved(r, x)
      <4>1. request' = [request EXCEPT ![r] = x]
        BY <1>9, <2>2, <2>4, <3>2 DEF Classifies
      <4>2. QED
        BY <2>1, <3>3, <4>1 DEF RequestMoved
    <3>5. Permitted(r, x)
      BY <1>1, <2>1, <3>1, <3>3 DEF Permitted, Established
    <3>6. QED
      BY <1>1, <2>1, <3>3, <3>4, <3>5, Standing, StepTaken
  <2>5. QED
    BY <2>3, <2>4
<1>10. ASSUME NEW r \in Requests, ResolvesRepository(r)
       PROVE  HookInv'
  <2>1. /\ UNCHANGED <<platform, hub, stored>> /\ Proceeds(r, "head")
        /\ request[r].step = "resolve" /\ request[r].step \in Unanswered
        /\ "head" \in Unanswered
    BY <1>10 DEF ResolvesRepository, IsAt, Unanswered
  <2>2. /\ tenant' \in [status: {"ready", "pending", "gone"}, secret: {1, 2}, named: BOOLEAN]
        /\ tenant'.secret = tenant.secret
    BY <1>1, <1>10 DEF ResolvesRepository
  <2>3. \A x \in HookRequest : x.step = "head" /\ x.reply = "none" /\ x.kind = request[r].kind
                               => Permitted(r, x)
    BY <1>1, <2>1 DEF Permitted, Established
  <2>4. QED
    BY <2>1, <2>2, <2>3, Proceeded
<1>11. ASSUME NEW r \in Requests, ReadsHead(r)
       PROVE  HookInv'
  <2>1. /\ UNCHANGED <<platform, tenant, hub, stored>>
        /\ request[r].step = "head" /\ request[r].step \in Unanswered
    BY <1>11 DEF ReadsHead, IsAt, OnlyRequests, Unanswered
  <2>2. CASE request[r].kind = "action" /\ EventOf(r).head # hub.head
    BY <1>11, <2>1, <2>2, Answered DEF ReadsHead
  <2>3. CASE ~(request[r].kind = "action" /\ EventOf(r).head # hub.head)
    <3>1. PICK x : x = [request[r] EXCEPT !.step = "store", !.head = hub.head]
      OBVIOUS
    <3>2. /\ x \in HookRequest /\ x.step = "store" /\ x.head = hub.head
          /\ x.event = EventOf(r) /\ x.after = request[r].after /\ x.reply = "none"
          /\ x.kind = request[r].kind
      <4>1. "store" \in Unanswered /\ hub.head \in {0, 1, 2}
        BY DEF HookInv, HookTypes, Unanswered
      <4>2. QED
        BY <2>1, <3>1, <4>1, Standing DEF HookRequest, EventOf
    <3>3. RequestMoved(r, x)
      <4>1. request' = [request EXCEPT ![r] = x]
        BY <1>11, <2>3, <3>1 DEF ReadsHead
      <4>2. QED
        BY <2>1, <3>2, <4>1 DEF RequestMoved
    <3>4. Permitted(r, x)
      BY <1>1, <2>1, <2>3, <3>2 DEF Permitted, Established
    <3>5. QED
      BY <1>1, <2>1, <3>2, <3>3, <3>4, Standing, StepTaken
  <2>4. QED
    BY <2>2, <2>3
<1>12. ASSUME NEW r \in Requests, RequestFails(r)
       PROVE  HookInv'
  <2>1. /\ request[r].step \in Unanswered /\ Replies(r, "error")
        /\ UNCHANGED <<platform, tenant>>
    BY <1>12 DEF RequestFails, Unanswered
  <2>2. CASE UNCHANGED <<hub, stored>>
    BY <2>1, <2>2, Answered
  <2>3. CASE /\ IsAt(r, "create") /\ hub' = [hub EXCEPT !.checks[EventOf(r).head] = @ + 1]
             /\ UNCHANGED stored
    BY <2>1, <2>3, CheckRunMade
  <2>4. CASE IsAt(r, "store") /\ stored' = WithJob(r) /\ UNCHANGED hub
    BY <2>1, <2>4, JobKept DEF Replies, StoreTells
  <2>5. QED
    BY <1>12, <2>2, <2>3, <2>4 DEF RequestFails
<1>13. ASSUME NEW r \in Requests, StoresJob(r)
       PROVE  HookInv'
  BY <1>13, JobStored
<1>14. ASSUME NEW r \in Requests, TellsProvider(r)
       PROVE  HookInv'
  <2>1. /\ UNCHANGED <<platform, tenant, hub, stored>>
        /\ request[r].step = "tell" /\ Proceeds(r, "done")
    BY <1>14 DEF TellsProvider, IsAt, OnlyRequests
  <2>2. PICK x : x = [request[r] EXCEPT !.step = "done"]
    OBVIOUS
  <2>3. /\ x \in HookRequest /\ x.step = "done" /\ x.reply = request[r].reply
        /\ x.kind = request[r].kind /\ x.event = EventOf(r) /\ x.after = request[r].after
    BY <1>1, <2>2 DEF HookRequest, EventOf
  <2>4. RequestMoved(r, x)
    <3>1. request' = [request EXCEPT ![r] = x]
      BY <2>1, <2>2 DEF Proceeds
    <3>2. QED
      BY <2>1, <2>3, <3>1 DEF RequestMoved
  <2>5. Permitted(r, x)
    BY <1>1, <2>3 DEF Permitted, Established, Unanswered
  <2>6. QED
    BY <1>1, <2>1, <2>3, <2>4, <2>5, StepTaken
<1>15. QED
  BY <1>2, <1>3, <1>4, <1>5, <1>6, <1>7, <1>8, <1>9, <1>10, <1>11, <1>12, <1>13, <1>14
     DEF HookNext

\* At most one of a set is as many as it says.
LEMMA OneAtMost ==
  ASSUME NEW S, NEW C, \A p, q \in S : p = q, C = Cardinality(S)
  PROVE  C <= 1
<1>1. CASE S = {}
  BY <1>1, FS_EmptySet
<1>2. CASE S # {}
  <2>1. PICK s : s \in S
    BY <1>2
  <2>2. S = {s}
    BY <2>1
  <2>3. Cardinality({s}) = 1
    BY Zenon, FS_Singleton
  <2>4. QED
    BY <2>2, <2>3
<1>3. QED
  BY <1>1, <1>2

\* Of repeated and overlapping deliveries at most one is told of a new job, all
\* that are told of it find it, a job nobody was told is new comes from one that
\* failed, every job was asked for by someone who knew the secret, and a pull
\* request that was handled has its button: for any number of requests, any
\* events of the shapes the platforms send, and any changes in between.
THEOREM WebhooksAnswerTruly == HookSpec => []RepliesAreTrue
<1>1. HookInv => RepliesAreTrue
  <2> SUFFICES ASSUME HookInv PROVE RepliesAreTrue
    OBVIOUS
  <2>1. AnswersTold /\ JobsAreAuthorized /\ TwoRaced /\ \A r \in Requests : Established(r)
    BY DEF HookInv
  <2>2. ASSUME NEW r \in Got("created") \cup Got("duplicate")
        PROVE  /\ KnownJobs(r) # {}
               /\ Cardinality({q \in Got("created") : EventOf(q).id = EventOf(r).id
                                           /\ request[q].kind = request[r].kind}) <= 1
    <3>1. KnownJobs(r) # {}
      BY <2>1 DEF AnswersTold, KnownJobs
    <3>2. \A p, q \in {q \in Got("created") : EventOf(q).id = EventOf(r).id
                                              /\ request[q].kind = request[r].kind} : p = q
      BY <2>1 DEF AnswersTold
    <3>3. QED
      BY <3>1, <3>2, OneAtMost
  <2>3. HandledHasCheckRun
    <3>1. \A r \in Got("event-handled") : hub.checks[EventOf(r).head] > 0
      BY <2>1 DEF Got, Established
    <3>2. QED
      BY <2>1, <3>1 DEF HandledHasCheckRun, TwoRaced, Makes
  <2>4. QED
    BY <2>1, <2>2, <2>3 DEF RepliesAreTrue, OneIsNew, AnswersTold
<1>2. QED
  BY <1>1, HookBegins, HookSteps, PTL DEF HookSpec

\* Requests that are about to make a check run for a head.  Each makes one, and
\* none comes to it where there is one already.
Creating(h) == {r \in Requests : IsAt(r, "create") /\ EventOf(r).head = h}
CheckRunsFew ==
  \A h \in {1, 2} : \/ hub.checks[h] = 0
                    \/ hub.checks[h] + Cardinality(Creating(h)) <= Cardinality(Requests)

HookTyped == HookInv /\ CheckRunsFew

LEMMA CreatingFew ==
  ASSUME NEW h
  PROVE  IsFiniteSet(Creating(h)) /\ Cardinality(Creating(h)) \in 0..Cardinality(Requests)
<1>1. Creating(h) \subseteq Requests
  BY DEF Creating
<1>2. QED
  BY <1>1, RequestsAssumption, FS_Subset, FS_CardinalityType

LEMMA HookTypesBegin == HookInit => HookTyped
<1> SUFFICES ASSUME HookInit PROVE CheckRunsFew
  BY HookBegins DEF HookTyped
<1>1. PICK provisioned \in {0, 1} :
        hub = [head |-> 1, checks |-> [h \in {1, 2} |-> IF h = 1 THEN provisioned ELSE 0],
               thread |-> TRUE]
  BY DEF HookInit
<1>2. \A h : Creating(h) = {}
  <2>1. \A r \in Requests : request[r].step = "none"
    BY NothingRequested DEF HookInit
  <2>2. QED
    BY <2>1 DEF Creating, IsAt
<1>3. Cardinality({}) = 0 /\ Cardinality(Requests) \in Nat /\ Cardinality(Requests) # 0
  BY RequestsAssumption, FS_EmptySet, FS_CardinalityType
<1>4. QED
  BY <1>1, <1>2, <1>3 DEF CheckRunsFew

\* A step that makes no check run keeps them few.
LEMMA FewStay ==
  ASSUME HookTyped, hub'.checks = hub.checks,
         \A h \in {1, 2} : \A r \in Requests : r \in Creating(h)' => r \in Creating(h) \/ hub.checks[h] = 0
  PROVE  CheckRunsFew'
<1> SUFFICES ASSUME NEW h \in {1, 2}, hub'.checks[h] # 0
             PROVE  hub'.checks[h] + Cardinality(Creating(h)') <= Cardinality(Requests)
  BY DEF CheckRunsFew
<1>1. Creating(h)' \subseteq Creating(h)
  BY DEF Creating
<1>2. Cardinality(Creating(h)') <= Cardinality(Creating(h)) /\ Cardinality(Creating(h)') \in Nat
  BY <1>1, CreatingFew, FS_Subset, FS_CardinalityType
<1>3. hub.checks[h] + Cardinality(Creating(h)) <= Cardinality(Requests) /\ hub.checks[h] \in Nat
  BY DEF HookTyped, CheckRunsFew, HookInv, HookTypes
<1>4. QED
  BY <1>2, <1>3, CreatingFew, RequestsAssumption, FS_CardinalityType

\* The request that makes a check run is no longer about to.
LEMMA FewMore ==
  ASSUME HookTyped, HookInv', NEW r \in Requests, IsAt(r, "create"), IsAt(r, "done")',
         hub' = [hub EXCEPT !.checks[EventOf(r).head] = @ + 1],
         \A q \in Requests : q # r => request'[q] = request[q]
  PROVE  CheckRunsFew'
<1> DEFINE e == EventOf(r).head
<1>1. /\ hub.checks \in [{1, 2} -> Nat] /\ e \in {1, 2}
      /\ hub'.checks = [hub.checks EXCEPT ![e] = @ + 1]
  <2>1. hub \in [head: {1, 2}, checks: [{1, 2} -> Nat], thread: BOOLEAN]
    BY DEF HookTyped, HookInv, HookTypes
  <2>2. QED
    BY <2>1, Standing DEF HookTyped, Unanswered, IsAt
<1> SUFFICES ASSUME NEW h \in {1, 2}, hub'.checks[h] # 0
             PROVE  hub'.checks[h] + Cardinality(Creating(h)') <= Cardinality(Requests)
  BY DEF CheckRunsFew
<1>2. Creating(h)' \subseteq Creating(h) \ {r}
  BY DEF Creating, IsAt, EventOf
<1>3. CASE h = e
  <2>1. r \in Creating(h)
    BY <1>3 DEF Creating
  <2>2. /\ Cardinality(Creating(h) \ {r}) = Cardinality(Creating(h)) - 1
        /\ IsFiniteSet(Creating(h) \ {r})
    BY <2>1, CreatingFew, FS_RemoveElement
  <2>3. Cardinality(Creating(h)') <= Cardinality(Creating(h)) - 1 /\ Cardinality(Creating(h)') \in Nat
    BY <1>2, <2>2, FS_Subset, FS_CardinalityType
  <2>4. hub'.checks[h] = hub.checks[h] + 1 /\ hub.checks[h] \in Nat
    BY <1>1, <1>3
  <2>5. Cardinality(Creating(h)) \in 0..Cardinality(Requests) /\ Cardinality(Requests) \in Nat
    BY CreatingFew, RequestsAssumption, FS_CardinalityType
  <2>6. hub.checks[h] = 0 \/ hub.checks[h] + Cardinality(Creating(h)) <= Cardinality(Requests)
    BY DEF HookTyped, CheckRunsFew
  <2>7. QED
    BY <2>3, <2>4, <2>5, <2>6
<1>4. CASE h # e
  <2>1. Cardinality(Creating(h)') <= Cardinality(Creating(h)) /\ Cardinality(Creating(h)') \in Nat
    BY <1>2, CreatingFew, FS_Subset, FS_CardinalityType
  <2>2. hub'.checks[h] = hub.checks[h] /\ hub.checks[h] \in Nat
    BY <1>1, <1>4
  <2>3. hub.checks[h] + Cardinality(Creating(h)) <= Cardinality(Requests)
    BY <2>2 DEF HookTyped, CheckRunsFew
  <2>4. QED
    BY <2>1, <2>2, <2>3, CreatingFew, RequestsAssumption, FS_CardinalityType
<1>5. QED
  BY <1>3, <1>4

\* A step of one request that does not come to making a check run, or only
\* where there is none.
LEMMA FewElsewhere ==
  ASSUME HookTyped, HookInv', NEW r \in Requests, hub'.checks = hub.checks,
         \A q \in Requests : q # r => request'[q] = request[q],
         \/ request'[r].step # "create"
         \/ request'[r].event = request[r].event /\ hub.checks[EventOf(r).head] = 0
  PROVE  CheckRunsFew'
<1>1. \A h \in {1, 2} : \A q \in Requests : q \in Creating(h)' => q \in Creating(h) \/ hub.checks[h] = 0
  BY DEF Creating, IsAt, EventOf
<1>2. QED
  BY <1>1, FewStay

LEMMA HookTypesStep == HookTyped /\ [HookNext]_hookVars => HookTyped'
<1> SUFFICES ASSUME HookTyped, [HookNext]_hookVars PROVE CheckRunsFew'
  BY HookSteps DEF HookTyped
<1>1. /\ HookInv /\ HookInv' /\ request \in [Requests -> HookRequest]
      /\ hub \in [head: {1, 2}, checks: [{1, 2} -> Nat], thread: BOOLEAN]
  BY HookSteps DEF HookTyped, HookInv, HookTypes
<1>2. CASE UNCHANGED hookVars
  BY <1>2, FewStay DEF hookVars, Creating, IsAt, EventOf
<1>3. CASE WorldChanges
  <2>1. hub'.checks = hub.checks /\ request' = request
    BY <1>1, <1>3 DEF WorldChanges
  <2>2. QED
    BY <2>1, FewStay DEF Creating, IsAt, EventOf
<1>4. ASSUME NEW r \in Requests,
             Arrives(r) \/ FindsTenant(r) \/ Authorizes(r) \/ Classifies(r) \/ ResolvesRepository(r)
             \/ ReadsHead(r) \/ StoresJob(r) \/ TellsProvider(r)
      PROVE  CheckRunsFew'
  <2>1. request'[r].step # "create" /\ \A q \in Requests : q # r => request'[q] = request[q]
    <3>1. CASE Arrives(r)
      <4>1. PICK e : request' = [request EXCEPT ![r] = [NoRequest EXCEPT
                !.step = IF FirstReply(e) = "none" THEN "tenant" ELSE "done",
                !.event = e, !.reply = FirstReply(e), !.after = Replied]]
        BY <3>1 DEF Arrives
      <4>2. request'[r].step \in {"tenant", "done"}
        BY <1>1, <4>1 DEF NoRequest
      <4>3. QED
        BY <1>1, <4>1, <4>2
    <3>2. CASE FindsTenant(r)
      BY <1>1, <3>2 DEF FindsTenant, Replies, HookRequest
    <3>3. CASE Authorizes(r)
      BY <1>1, <3>3 DEF Authorizes, Replies, Proceeds, HookRequest
    <3>4. CASE Classifies(r)
      <4>1. PICK kind : kind = IF platform = "github" THEN GitHubKind(EventOf(r))
                               ELSE GitLabKind(EventOf(r))
        OBVIOUS
      <4>2. IF kind = "none" THEN Replies(r, "no-trigger")
            ELSE request' = [request EXCEPT ![r].kind = kind,
                                            ![r].step = IF platform = "github" THEN "resolve" ELSE "store",
                                            ![r].head = EventOf(r).head]
        BY Zenon, <3>4, <4>1 DEF Classifies
      <4>3. QED
        BY <1>1, <4>2 DEF Replies, HookRequest
    <3>5. CASE ResolvesRepository(r)
      BY <1>1, <3>5 DEF ResolvesRepository, Proceeds, HookRequest
    <3>6. CASE ReadsHead(r)
      BY <1>1, <3>6 DEF ReadsHead, Replies, HookRequest
    <3>7. CASE StoresJob(r)
      <4>1. PICK reply : \/ request' = [request EXCEPT ![r].step = "done", ![r].reply = reply]
                         \/ request' = [request EXCEPT ![r].step = "tell", ![r].reply = reply]
        BY <3>7 DEF StoresJob, Replies
      <4>2. QED
        BY <1>1, <4>1 DEF HookRequest
    <3>8. CASE TellsProvider(r)
      BY <1>1, <3>8 DEF TellsProvider, Proceeds, HookRequest
    <3>9. QED
      BY <1>4, <3>1, <3>2, <3>3, <3>4, <3>5, <3>6, <3>7, <3>8
  <2>2. hub' = hub
    BY <1>4 DEF Arrives, FindsTenant, Authorizes, Classifies, ResolvesRepository, ReadsHead,
         StoresJob, TellsProvider, OnlyRequests
  <2>3. QED
    BY <1>1, <2>1, <2>2, FewElsewhere
<1>5. ASSUME NEW r \in Requests, ListsCheckRuns(r) PROVE CheckRunsFew'
  <2>1. IsAt(r, "list") /\ hub' = hub
    BY <1>5 DEF ListsCheckRuns, OnlyRequests
  <2>2. EventOf(r).head \in {1, 2}
    BY <1>1, <2>1, Standing DEF IsAt, Unanswered
  <2>3. /\ \A q \in Requests : q # r => request'[q] = request[q]
        /\ \/ request'[r].step # "create"
           \/ request'[r].event = request[r].event /\ ~(hub.checks[EventOf(r).head] > 0)
    BY <1>1, <1>5 DEF ListsCheckRuns, Replies, Proceeds, HookRequest
  <2>4. hub.checks[EventOf(r).head] \in Nat
    BY <1>1, <2>2
  <2>5. QED
    BY <1>1, <2>1, <2>3, <2>4, FewElsewhere
<1>6. ASSUME NEW r \in Requests, IsAt(r, "create"), \E reply : Replies(r, reply),
             hub' = [hub EXCEPT !.checks[EventOf(r).head] = @ + 1]
      PROVE  CheckRunsFew'
  <2>1. request'[r].step = "done" /\ \A q \in Requests : q # r => request'[q] = request[q]
    BY <1>1, <1>6 DEF Replies, HookRequest
  <2>2. IsAt(r, "done")'
    BY <2>1 DEF IsAt
  <2>3. QED
    BY <1>1, <1>6, <2>1, <2>2, FewMore
<1>7. ASSUME NEW r \in Requests, RequestFails(r) PROVE CheckRunsFew'
  <2>1. CASE hub' = hub
    <3>1. request'[r].step # "create" /\ \A q \in Requests : q # r => request'[q] = request[q]
      BY <1>1, <1>7 DEF RequestFails, Replies, HookRequest
    <3>2. QED
      BY <1>1, <2>1, <3>1, FewElsewhere
  <2>2. QED
    BY <1>6, <1>7, <2>1 DEF RequestFails
<1>8. ASSUME NEW r \in Requests, CreatesCheckRun(r) PROVE CheckRunsFew'
  BY <1>6, <1>8 DEF CreatesCheckRun
<1>9. QED
  BY <1>2, <1>3, <1>4, <1>5, <1>7, <1>8 DEF HookNext

LEMMA HookTypesSuffice == HookTyped => HookTypeOK
<1> SUFFICES ASSUME HookTyped PROVE HookTypeOK
  OBVIOUS
<1>1. \A h \in {1, 2} : hub.checks[h] \in 0..Cardinality(Requests)
  <2> SUFFICES ASSUME NEW h \in {1, 2} PROVE hub.checks[h] \in 0..Cardinality(Requests)
    OBVIOUS
  <2>1. Cardinality(Creating(h)) \in Nat /\ Cardinality(Requests) \in Nat
    BY CreatingFew, RequestsAssumption, FS_CardinalityType
  <2>2. QED
    BY <2>1 DEF HookTyped, CheckRunsFew, HookInv, HookTypes
<1>2. QED
  BY <1>1 DEF HookTyped, HookInv, HookTypes, HookTypeOK, HookRequest

-----------------------------------------------------------------------------
(* What a review knows of the earlier ones: types *)

ThreadStates == {"none", "open", "resolved"}
RowsType == [Topics -> ThreadStates \cup {"dismissed"}]
ContentType == [Paths -> Contents]
ResultType == [found : SUBSET Topics, closed : SUBSET Topics]
NoResult == <<>>

TaskType(heads) ==
  [status : {"queued", "in_progress", "completed", "failed", "cancelled"}, head : heads, tries : Nat]
SavedType ==
  [head : Nat, scope : Routings, result : ResultType \cup {NoResult}, published : BOOLEAN,
   content : ContentType \cup {<<>>}]

\* The records of runs and attempts have fields that no type depends on.
RunType(review) ==
  review \in [job : {review.job}, status : {review.status}, at : {review.at}, result : {review.result},
           snapshot : {review.snapshot}, rows : RowsType]

AttemptType(a) ==
  a \in [step : {"sync", "finding", "hydrate", "review", "publish", "reply", "complete", "commit"},
         job : HistoryJobs, content : ContentType, format : {a.format},
         threads : [Topics -> ThreadStates], todo : SUBSET Topics, previous : {a.previous},
         scope : {a.scope}, result : ResultType \cup {NoResult}, ready : {a.ready}]

RunsType ==
  /\ DOMAIN reviews = 1..Len(reviews) /\ Len(reviews) \in Nat
  /\ reviews = [r \in 1..Len(reviews) |-> reviews[r]]
  /\ \A r \in DOMAIN reviews : RunType(reviews[r])

AttemptTypes ==
  /\ attempt = Nobody \/ AttemptType(attempt)
  /\ Doing("publish") => attempt.result \in ResultType

HistoryTypes ==
  /\ change \in Seq(ContentType) /\ change # <<>>
  /\ thread \in [Topics -> ThreadStates] /\ mapping \in [Topics -> ThreadStates]
  /\ task \in [HistoryJobs -> TaskType(DOMAIN change)]
  /\ saved \in [HistoryJobs -> SavedType]
  /\ RunsType
  /\ AttemptTypes
  /\ seen \subseteq Paths \X Contents

LEMMA HistoryTypesSuffice == HistoryTypes => HistoryTypeOK
BY DEF HistoryTypes, RunsType, HistoryTypeOK, RunType, RowsType, ThreadStates

LEMMA HistoryTypesBegin == HistoryInit => HistoryTypes
<1> SUFFICES ASSUME HistoryInit PROVE HistoryTypes
  OBVIOUS
<1>1. PICK past \in {"none", "content-signature-v1", "unreadable"}, found \in {"none", "open"} :
       LET content == [p \in Paths |-> IF past = "unreadable" THEN 0 ELSE 1]
       IN  /\ reviews = IF past = "none" THEN <<>>
                        ELSE <<[job |-> 0, status |-> "completed", at |-> 1, result |-> TRUE,
                                snapshot |-> [format |-> past, content |-> content],
                                rows |-> [f \in Topics |-> found]]>>
           /\ seen = IF past = "none" THEN {} ELSE ShownOf(content)
           /\ thread = [f \in Topics |-> found] /\ mapping = thread
  BY Zenon DEF HistoryInit
<1> DEFINE content == [p \in Paths |-> IF past = "unreadable" THEN 0 ELSE 1]
<1>2. change \in Seq(ContentType) /\ change # <<>> /\ 1 \in DOMAIN change
  <2>1. change = <<[p \in Paths |-> 1]>> /\ [p \in Paths |-> 1] \in ContentType
    BY HistoryAssumption DEF HistoryInit, ContentType
  <2>2. QED
    BY <2>1
<1>3. thread \in [Topics -> ThreadStates] /\ mapping \in [Topics -> ThreadStates]
  BY <1>1 DEF ThreadStates
<1>4. task \in [HistoryJobs -> TaskType(DOMAIN change)] /\ saved \in [HistoryJobs -> SavedType]
  <2>1. NoSaved \in SavedType
    BY DEF NoSaved, SavedType, Routings, NoResult
  <2>2. QED
    BY <1>2, <2>1 DEF HistoryInit, TaskType
<1>5. RunsType
  <2>1. CASE past = "none"
    BY <1>1, <2>1 DEF RunsType
  <2>2. CASE past # "none"
    <3>1. [f \in Topics |-> found] \in RowsType
      BY DEF RowsType, ThreadStates
    <3>2. PICK review : review = [job |-> 0, status |-> "completed", at |-> 1, result |-> TRUE,
                            snapshot |-> [format |-> past, content |-> content],
                            rows |-> [f \in Topics |-> found]]
      OBVIOUS
    <3>3. reviews = <<review>>
      BY Zenon, <1>1, <2>2, <3>2
    <3>4. RunType(review)
      BY <3>1, <3>2 DEF RunType
    <3>5. QED
      BY <3>3, <3>4 DEF RunsType
  <2>3. QED
    BY <2>1, <2>2
<1>6. seen \subseteq Paths \X Contents
  <2>1. ShownOf(content) \subseteq Paths \X Contents
    BY HistoryAssumption DEF ShownOf, ChangedIn
  <2>2. QED
    BY <1>1, <2>1
<1>7. AttemptTypes
  BY DEF HistoryInit, AttemptTypes, Doing, Nobody
<1>8. QED
  BY <1>2, <1>3, <1>4, <1>5, <1>6, <1>7 DEF HistoryTypes

\* Runs that are rewritten in their places.
LEMMA RunsRewritten ==
  ASSUME RunsType, DOMAIN reviews' = DOMAIN reviews, reviews' = [r \in DOMAIN reviews |-> reviews'[r]],
         \A r \in DOMAIN reviews : RunType(reviews'[r])
  PROVE  RunsType'
<1> DEFINE S == {reviews'[r] : r \in DOMAIN reviews}
<1>1. DOMAIN reviews = 1..Len(reviews) /\ Len(reviews) \in Nat
  BY DEF RunsType
<1>2. reviews' \in [1..Len(reviews) -> S]
  BY Zenon, <1>1
<1>3. reviews' \in Seq(S)
  BY <1>1, <1>2
<1>4. Len(reviews') = Len(reviews)
  BY <1>1, <1>2, <1>3, LenProperties
<1>5. QED
  BY Zenon, <1>1, <1>4 DEF RunsType

\* One run is written, and its rows are rows.
LEMMA RunWritten ==
  ASSUME RunsType, NEW n, NEW review, reviews' = [reviews EXCEPT ![n] = review],
         n \in DOMAIN reviews => RunType(review)
  PROVE  RunsType'
<1>1. reviews = [r \in DOMAIN reviews |-> reviews[r]]
  BY DEF RunsType
<1>2. DOMAIN reviews' = DOMAIN reviews /\ reviews' = [r \in DOMAIN reviews |-> reviews'[r]]
  BY <1>1
<1>3. \A r \in DOMAIN reviews : RunType(reviews'[r])
  BY <1>1 DEF RunsType
<1>4. QED
  BY Zenon, <1>2, <1>3, RunsRewritten

LEMMA RunAdded ==
  ASSUME RunsType, NEW review, RunType(review), reviews' = Append(reviews, review)
  PROVE  RunsType'
<1> DEFINE S == {reviews[r] : r \in DOMAIN reviews} \cup {review}
<1>1. DOMAIN reviews = 1..Len(reviews) /\ Len(reviews) \in Nat /\ reviews = [r \in 1..Len(reviews) |-> reviews[r]]
  BY DEF RunsType
<1>2. reviews \in [1..Len(reviews) -> S]
  BY Zenon, <1>1
<1>3. reviews \in Seq(S) /\ review \in S
  BY <1>1, <1>2
<1>4. /\ reviews' \in Seq(S) /\ Len(reviews') = Len(reviews) + 1
      /\ \A r \in 1..Len(reviews) : reviews'[r] = reviews[r]
      /\ reviews'[Len(reviews) + 1] = review
  BY <1>3, AppendProperties
<1>5. DOMAIN reviews' = 1..Len(reviews') /\ Len(reviews') \in Nat
      /\ reviews' = [r \in 1..Len(reviews') |-> reviews'[r]]
  BY <1>4, LenProperties
<1>6. \A r \in DOMAIN reviews' : RunType(reviews'[r])
  <2> SUFFICES ASSUME NEW r \in DOMAIN reviews' PROVE RunType(reviews'[r])
    OBVIOUS
  <2>1. r \in 1..Len(reviews) \/ r = Len(reviews) + 1
    BY <1>1, <1>4, <1>5
  <2>2. QED
    BY <1>1, <1>4, <2>1 DEF RunsType
<1>7. QED
  BY Zenon, <1>5, <1>6 DEF RunsType

LEMMA SomebodyTyped ==
  ASSUME HistoryTypes, ~Doing("none")
  PROVE  AttemptType(attempt) /\ attempt # Nobody /\ Mine \in HistoryJobs
BY DEF HistoryTypes, AttemptTypes, Doing, Nobody, AttemptType, Mine

\* The step that follows of an attempt.
LEMMA Turned ==
  ASSUME HistoryTypes, ~Doing("none"), NEW next \in {"sync", "finding", "review", "complete", "commit"},
         Turns(next)
  PROVE  AttemptTypes'
<1>1. attempt' = [attempt EXCEPT !.step = next] /\ AttemptType(attempt)
  BY SomebodyTyped DEF Turns
<1>2. AttemptType(attempt') /\ attempt'.step = next
  BY <1>1 DEF AttemptType
<1>3. QED
  BY <1>2 DEF AttemptTypes, Doing

LEMMA NobodyTyped == ASSUME attempt' = Nobody PROVE AttemptTypes'
BY DEF AttemptTypes, Doing, Nobody

LEMMA RetriedTyped ==
  ASSUME HistoryTypes, NEW j \in HistoryJobs
  PROVE  Retried(j) \in [HistoryJobs -> TaskType(DOMAIN change)]
<1>1. task \in [HistoryJobs -> TaskType(DOMAIN change)] /\ task[j] \in TaskType(DOMAIN change)
  BY DEF HistoryTypes
<1>2. PICK end \in {"queued", "failed"} : end = IF task[j].tries < HistoryRetries THEN "queued" ELSE "failed"
  OBVIOUS
<1>3. PICK count : count = task[j].tries + 1
  OBVIOUS
<1>4. count \in Nat
  BY <1>1, <1>3 DEF TaskType
<1>5. Retried(j) = [task EXCEPT ![j].status = end, ![j].tries = count]
  BY Zenon, <1>2, <1>3 DEF Retried
<1>6. QED
  BY <1>1, <1>4, <1>5 DEF TaskType

\* The rows of a finding take a status.
LEMMA MarkedTyped ==
  ASSUME RunsType, NEW f \in Topics, NEW state \in ThreadStates, NEW from, reviews' = Marked(f, state, from)
  PROVE  RunsType'
<1>1. DOMAIN reviews' = DOMAIN reviews /\ reviews' = [r \in DOMAIN reviews |-> reviews'[r]]
  BY DEF Marked
<1>2. \A r \in DOMAIN reviews : RunType(reviews'[r])
  <2> SUFFICES ASSUME NEW r \in DOMAIN reviews PROVE RunType(reviews'[r])
    OBVIOUS
  <2>1. RunType(reviews[r])
    BY DEF RunsType
  <2>2. reviews'[r] = reviews[r] \/ reviews'[r] = [reviews[r] EXCEPT !.rows[f] = state]
    BY DEF Marked
  <2>3. [reviews[r].rows EXCEPT ![f] = state] \in RowsType
    BY <2>1 DEF RunType, RowsType
  <2>4. [reviews[r] EXCEPT !.rows[f] = state] = [reviews[r] EXCEPT !.rows = [reviews[r].rows EXCEPT ![f] = state]]
    OBVIOUS
  <2>5. RunType([reviews[r] EXCEPT !.rows = [reviews[r].rows EXCEPT ![f] = state]])
    BY <2>1, <2>3 DEF RunType
  <2>6. QED
    BY <2>1, <2>2, <2>4, <2>5
<1>3. QED
  BY <1>1, <1>2, RunsRewritten

LEMMA PeopleTyped == ASSUME HistoryTypes, PeopleMove PROVE HistoryTypes'
<1>1. UNCHANGED <<hosting, task, saved, reviews, mapping, attempt, seen, answered, torn>>
  BY DEF PeopleMove
<1>2. change \in Seq(ContentType) /\ change # <<>> /\ Tip \in DOMAIN change /\ Tip \in Nat
  BY DEF HistoryTypes, Tip
<1>3. change[Tip] \in ContentType
  BY <1>2
<1>4. thread' \in [Topics -> ThreadStates]
  BY DEF PeopleMove, HistoryTypes, ThreadStates
<1>5. change' \in Seq(ContentType) /\ change' # <<>> /\ DOMAIN change \subseteq DOMAIN change'
  <2>1. CASE \E p \in Paths, c \in Contents : change' = Append(change, [change[Tip] EXCEPT ![p] = c])
    <3>1. PICK p \in Paths, c \in Contents : change' = Append(change, [change[Tip] EXCEPT ![p] = c])
      BY <2>1
    <3>2. [change[Tip] EXCEPT ![p] = c] \in ContentType
      BY <1>3 DEF ContentType
    <3>3. QED
      BY <1>2, <3>1, <3>2, AppendProperties
  <2>2. CASE \E p \in Paths, c \in Contents : change' = [change EXCEPT ![Tip][p] = c]
    <3>1. PICK p \in Paths, c \in Contents : change' = [change EXCEPT ![Tip][p] = c]
      BY <2>2
    <3>2. [change[Tip] EXCEPT ![p] = c] \in ContentType
      BY <1>3 DEF ContentType
    <3>3. change' = [change EXCEPT ![Tip] = [change[Tip] EXCEPT ![p] = c]]
      BY <3>1
    <3>4. QED
      BY <1>2, <3>2, <3>3, ExceptSeq
  <2>3. CASE change' = change
    BY <1>2, <2>3
  <2>4. QED
    BY <2>1, <2>2, <2>3 DEF PeopleMove
<1>6. task' \in [HistoryJobs -> TaskType(DOMAIN change')]
  <2>1. TaskType(DOMAIN change) \subseteq TaskType(DOMAIN change')
    BY <1>5 DEF TaskType
  <2>2. QED
    BY <1>1, <2>1 DEF HistoryTypes
<1>7. QED
  BY Zenon, <1>1, <1>4, <1>5, <1>6 DEF HistoryTypes, RunsType, AttemptTypes, Doing

LEMMA BeginTyped == ASSUME HistoryTypes, NEW j \in HistoryJobs, Begins(j) PROVE HistoryTypes'
<1>1. UNCHANGED <<change, thread, mapping, seen>>
  BY Zenon DEF Begins
<1>2. Tip \in DOMAIN change /\ DOMAIN change \subseteq Nat
  BY DEF HistoryTypes, Tip
<1>3. PICK head : head = IF KindOf[j] = "batch" THEN Tip ELSE task[j].head
  OBVIOUS
<1>4. head \in DOMAIN change
  BY <1>2, <1>3 DEF HistoryTypes, TaskType
<1>5. task' \in [HistoryJobs -> TaskType(DOMAIN change')]
  <2>1. \/ task' = Retried(j)
        \/ task' = [task EXCEPT ![j].status = "cancelled"]
        \/ task' = [task EXCEPT ![j].status = "in_progress", ![j].head = head]
    BY Zenon, <1>3 DEF Begins
  <2>2. task \in [HistoryJobs -> TaskType(DOMAIN change)]
    BY DEF HistoryTypes
  <2>3. CASE task' = [task EXCEPT ![j].status = "cancelled"]
    BY <1>1, <2>2, <2>3 DEF TaskType
  <2>4. CASE task' = [task EXCEPT ![j].status = "in_progress", ![j].head = head]
    BY <1>1, <1>4, <2>2, <2>4 DEF TaskType
  <2>5. QED
    BY <1>1, <2>1, <2>3, <2>4, RetriedTyped
<1>6. saved' \in [HistoryJobs -> SavedType]
  <2>1. saved' = saved \/ saved' = [saved EXCEPT ![j] = NoSaved]
    BY Zenon DEF Begins
  <2>2. NoSaved \in SavedType
    BY DEF NoSaved, SavedType, Routings, NoResult
  <2>3. QED
    BY <2>1, <2>2 DEF HistoryTypes
<1>7. RunsType'
  <2>1. PICK review : review = [job |-> j, status |-> "in_progress", at |-> 0, result |-> FALSE,
                          snapshot |-> NoSnapshot, rows |-> NoRows]
    OBVIOUS
  <2>2. NoRows \in RowsType
    BY DEF NoRows, RowsType, ThreadStates
  <2>3. RunType(review)
    BY <2>1, <2>2 DEF RunType
  <2>4. reviews' = reviews \/ reviews' = Append(reviews, review)
    BY Zenon, <2>1 DEF Begins
  <2>5. CASE reviews' = reviews
    BY Zenon, <2>5 DEF HistoryTypes, RunsType
  <2>6. QED
    BY Zenon, <2>3, <2>4, <2>5, RunAdded DEF HistoryTypes
<1>8. AttemptTypes'
  <2>1. \/ attempt' = attempt
        \/ \E format \in {"git-raw-v2", "provider-diff"} :
             attempt' = [Nobody EXCEPT !.step = "sync", !.job = j, !.format = format,
               !.content = FilesOf(head, format), !.threads = thread, !.todo = Differing]
    BY Zenon, <1>3 DEF Begins
  <2>2. CASE attempt' = attempt
    BY Zenon, <2>2 DEF HistoryTypes, AttemptTypes, Doing
  <2>3. ASSUME NEW format \in {"git-raw-v2", "provider-diff"},
               attempt' = [Nobody EXCEPT !.step = "sync", !.job = j, !.format = format,
                 !.content = FilesOf(head, format), !.threads = thread, !.todo = Differing]
        PROVE  AttemptTypes'
    <3>1. FilesOf(head, format) \in ContentType /\ Differing \subseteq Topics
          /\ thread \in [Topics -> ThreadStates]
      BY <1>2, <1>4 DEF FilesOf, Differing, HistoryTypes
    <3>2. AttemptType(attempt') /\ attempt'.step = "sync"
      BY <2>3, <3>1 DEF Nobody, AttemptType, NoResult
    <3>3. QED
      BY <3>2 DEF AttemptTypes, Doing
  <2>4. QED
    BY Zenon, <2>1, <2>2, <2>3
<1>9. QED
  BY Zenon, <1>1, <1>5, <1>6, <1>7, <1>8 DEF HistoryTypes

LEMMA SyncTyped ==
  ASSUME HistoryTypes, NEW f \in Topics, SyncsMapping(f) \/ SyncsFinding(f)
  PROVE  HistoryTypes'
<1>1. UNCHANGED <<change, thread, task, saved, seen>>
  BY Zenon DEF SyncsMapping, SyncsFinding
<1>2. ~Doing("none")
  BY DEF SyncsMapping, SyncsFinding, Doing
<1>3. AttemptType(attempt) /\ attempt.threads[f] \in ThreadStates
  BY <1>2, SomebodyTyped DEF AttemptType
<1>4. CASE SyncsMapping(f)
  <2>1. reviews' = reviews /\ mapping' = [mapping EXCEPT ![f] = attempt.threads[f]]
        /\ attempt' = [attempt EXCEPT !.step = "finding", !.todo = @ \ {f}]
    BY Zenon, <1>4 DEF SyncsMapping
  <2>2. AttemptTypes'
    <3>1. PICK todo : todo = attempt.todo \ {f}
      OBVIOUS
    <3>2. attempt' = [attempt EXCEPT !.step = "finding", !.todo = todo]
      BY Zenon, <2>1, <3>1
    <3>3. todo \in SUBSET Topics
      BY <1>3, <3>1 DEF AttemptType
    <3>4. AttemptType(attempt') /\ attempt'.step = "finding"
      BY <1>3, <3>2, <3>3 DEF AttemptType
    <3>5. QED
      BY <3>4 DEF AttemptTypes, Doing
  <2>3. mapping' \in [Topics -> ThreadStates]
    BY <1>3, <2>1 DEF HistoryTypes
  <2>4. QED
    BY Zenon, <1>1, <2>1, <2>2, <2>3 DEF HistoryTypes, RunsType
<1>5. CASE SyncsFinding(f)
  <2>1. /\ mapping' = mapping /\ Turns("sync")
        /\ reviews' = Marked(f, attempt.threads[f], {"open", "resolved"})
    BY Zenon, <1>5 DEF SyncsFinding
  <2>2. AttemptTypes'
    BY Zenon, <1>2, <2>1, Turned
  <2>3. RunsType'
    BY Zenon, <1>3, <2>1, MarkedTyped DEF HistoryTypes
  <2>4. QED
    BY Zenon, <1>1, <2>1, <2>2, <2>3 DEF HistoryTypes
<1>6. QED
  BY <1>4, <1>5

LEMMA RouteTyped == ASSUME HistoryTypes, Routes PROVE HistoryTypes'
<1>1. UNCHANGED <<change, thread, task, reviews, mapping, seen>> /\ ~Doing("none")
  BY DEF Routes, Doing
<1>2. AttemptType(attempt) /\ Mine \in HistoryJobs
  BY <1>1, SomebodyTyped
<1>3. PICK scope \in IF Kind # "batch" THEN {"incremental"}
                     ELSE IF Checkpointed THEN {saved[Mine].scope} ELSE Routings :
        /\ attempt' = [attempt EXCEPT !.previous = Previous(Mine), !.scope = scope,
                         !.step = IF scope = "none" THEN "reply" ELSE "hydrate"]
        /\ saved' = IF Kind = "batch" /\ ~Checkpointed
                    THEN [saved EXCEPT ![Mine] = [NoSaved EXCEPT !.head = task[Mine].head, !.scope = scope]]
                    ELSE saved
  BY Zenon DEF Routes
<1>4. AttemptTypes'
  <2>1. PICK next \in {"reply", "hydrate"}, previous \in {Previous(Mine)} :
          attempt' = [attempt EXCEPT !.previous = previous, !.scope = scope, !.step = next]
    BY <1>3
  <2>2. AttemptType(attempt') /\ attempt'.step = next
    BY <1>2, <2>1 DEF AttemptType
  <2>3. QED
    BY <2>2 DEF AttemptTypes, Doing
<1>5. saved' \in [HistoryJobs -> SavedType]
  <2>1. CASE Kind = "batch" /\ ~Checkpointed
    <3>1. scope \in Routings
      BY <1>3, <2>1
    <3>2. task[Mine].head \in Nat
      BY <1>2 DEF HistoryTypes, TaskType
    <3>3. [NoSaved EXCEPT !.head = task[Mine].head, !.scope = scope] \in SavedType
      BY <3>1, <3>2 DEF NoSaved, SavedType, NoResult
    <3>4. saved' = [saved EXCEPT ![Mine] = [NoSaved EXCEPT !.head = task[Mine].head, !.scope = scope]]
      BY Zenon, <1>3, <2>1
    <3>5. QED
      BY <3>3, <3>4 DEF HistoryTypes
  <2>2. QED
    BY Zenon, <1>3, <2>1 DEF HistoryTypes
<1>6. QED
  BY Zenon, <1>1, <1>4, <1>5 DEF HistoryTypes, RunsType

LEMMA AnswersTyped == ASSUME HistoryTypes, AnswersRequests PROVE HistoryTypes'
<1>1. UNCHANGED <<change, thread, task, saved, reviews, mapping, seen>> /\ ~Doing("none") /\ Turns("complete")
  BY DEF AnswersRequests, Doing
<1>2. QED
  BY Zenon, <1>1, Turned DEF HistoryTypes, RunsType

LEMMA HydrateTyped == ASSUME HistoryTypes, Hydrates PROVE HistoryTypes'
<1>1. UNCHANGED <<change, thread, task, saved, mapping, seen>> /\ ~Doing("none") /\ Turns("review")
  BY DEF Hydrates, Doing
<1>2. RunsType'
  <2>1. PICK review : review = [reviews[NewRun] EXCEPT !.snapshot = Snapshot]
    OBVIOUS
  <2>2. reviews' = [reviews EXCEPT ![NewRun] = review]
    BY Zenon, <2>1 DEF Hydrates
  <2>3. NewRun \in DOMAIN reviews => RunType(review)
    BY <2>1 DEF HistoryTypes, RunsType, RunType
  <2>4. QED
    BY Zenon, <2>2, <2>3, RunWritten DEF HistoryTypes
<1>3. QED
  BY Zenon, <1>1, <1>2, Turned DEF HistoryTypes

LEMMA RunEndTyped == ASSUME HistoryTypes, EndsRun PROVE HistoryTypes'
<1>1. UNCHANGED <<change, thread, task, saved, mapping, seen>> /\ ~Doing("none") /\ Turns("commit")
  BY DEF EndsRun, Doing
<1>2. RunsType'
  <2>1. PICK at, result : at = Stamp /\ result = (attempt.scope # "none")
    OBVIOUS
  <2>2. PICK review : review = [reviews[NewRun] EXCEPT !.status = "completed", !.at = at, !.result = result]
    OBVIOUS
  <2>3. reviews' = [reviews EXCEPT ![NewRun].status = "completed", ![NewRun].at = at, ![NewRun].result = result]
    BY Zenon, <2>1 DEF EndsRun
  <2>4. reviews' = [reviews EXCEPT ![NewRun] = review]
    BY <2>2, <2>3
  <2>5. NewRun \in DOMAIN reviews => RunType(review)
    BY <2>2 DEF HistoryTypes, RunsType, RunType
  <2>6. QED
    BY Zenon, <2>4, <2>5, RunWritten DEF HistoryTypes
<1>3. QED
  BY Zenon, <1>1, <1>2, Turned DEF HistoryTypes

\* A run takes a status.
LEMMA StatusWritten ==
  ASSUME RunsType, NEW n, NEW end, reviews' = [reviews EXCEPT ![n].status = end]
  PROVE  RunsType'
<1>1. PICK review : review = [reviews[n] EXCEPT !.status = end]
  OBVIOUS
<1>2. reviews' = [reviews EXCEPT ![n] = review]
  BY Zenon, <1>1
<1>3. n \in DOMAIN reviews => RunType(review)
  BY <1>1 DEF RunsType, RunType
<1>4. QED
  BY Zenon, <1>2, <1>3, RunWritten

LEMMA EndTyped ==
  ASSUME HistoryTypes, CommitsJob \/ AttemptFails \/ CommitIsLost
  PROVE  HistoryTypes'
<1>1. UNCHANGED <<change, thread, saved, mapping, seen>> /\ attempt' = Nobody /\ ~Doing("none")
  BY DEF CommitsJob, AttemptFails, CommitIsLost, Doing
<1>2. Mine \in HistoryJobs
  BY <1>1, SomebodyTyped
<1>3. task' \in [HistoryJobs -> TaskType(DOMAIN change)]
  <2>1. task' = Retried(Mine) \/ task' = [task EXCEPT ![Mine].status = "completed"]
    BY Zenon DEF CommitsJob, AttemptFails, CommitIsLost
  <2>2. QED
    BY <1>2, <2>1, RetriedTyped DEF HistoryTypes, TaskType
<1>4. RunsType'
  <2>1. reviews' = reviews \/ reviews' = [reviews EXCEPT ![NewRun].status = "failed"]
    BY Zenon DEF CommitsJob, AttemptFails, CommitIsLost
  <2>2. CASE reviews' = reviews
    BY Zenon, <2>2 DEF HistoryTypes, RunsType
  <2>3. QED
    BY Zenon, <2>1, <2>2, StatusWritten DEF HistoryTypes
<1>5. QED
  BY Zenon, <1>1, <1>3, <1>4, NobodyTyped DEF HistoryTypes

LEMMA ReconcileTyped ==
  ASSUME HistoryTypes, NEW r \in DOMAIN reviews, RunReconciled(r)
  PROVE  HistoryTypes'
<1>1. UNCHANGED <<change, thread, task, saved, mapping, attempt, seen>>
      /\ reviews' = [reviews EXCEPT ![r].status = "failed"]
  BY Zenon DEF RunReconciled
<1>2. RunsType'
  BY Zenon, <1>1, StatusWritten DEF HistoryTypes
<1>3. QED
  BY Zenon, <1>1, <1>2 DEF HistoryTypes, AttemptTypes, Doing

LEMMA ReviewTyped == ASSUME HistoryTypes, Reviews PROVE HistoryTypes'
<1>1. UNCHANGED <<change, thread, task, mapping>> /\ ~Doing("none")
  BY DEF Reviews, Doing
<1>2. AttemptType(attempt) /\ Mine \in HistoryJobs
  BY <1>1, SomebodyTyped
<1>3. PICK found \in SUBSET Topics, closed \in SUBSET {f \in Topics : attempt.threads[f] # "none"} :
       LET result == IF Reviewed THEN saved[Mine].result ELSE [found |-> found, closed |-> closed]
       IN  /\ attempt' = [attempt EXCEPT !.result = result,
                            !.step = IF Kind = "test" \/ (Checkpointed /\ saved[Mine].published)
                                     THEN "complete" ELSE "publish"]
           /\ saved' = IF Kind = "batch"
                       THEN [saved EXCEPT ![Mine].result = result,
                               ![Mine].content = IF Reviewed THEN @ ELSE attempt.content]
                       ELSE saved
           /\ reviews' = [reviews EXCEPT ![NewRun].rows =
                            [f \in Topics |-> IF f \in result.found THEN "open" ELSE "none"]]
  BY Zenon DEF Reviews
<1>4. PICK result : result = IF Reviewed THEN saved[Mine].result ELSE [found |-> found, closed |-> closed]
  OBVIOUS
<1>5. result \in ResultType
  <2>1. CASE Reviewed
    <3>1. saved[Mine].result \in ResultType \cup {NoResult} /\ saved[Mine].result # NoResult
      BY <1>2, <2>1 DEF HistoryTypes, SavedType, Reviewed, NoResult
    <3>2. QED
      BY <1>4, <2>1, <3>1
  <2>2. CASE ~Reviewed
    BY <1>4, <2>2 DEF ResultType
  <2>3. QED
    BY <2>1, <2>2
<1>6. AttemptTypes'
  <2>1. PICK next \in {"complete", "publish"} :
          next = IF Kind = "test" \/ (Checkpointed /\ saved[Mine].published) THEN "complete" ELSE "publish"
    OBVIOUS
  <2>2. attempt' = [attempt EXCEPT !.result = result, !.step = next]
    BY Zenon, <1>3, <1>4, <2>1
  <2>3. AttemptType(attempt') /\ attempt'.result = result
    BY <1>2, <1>5, <2>2 DEF AttemptType
  <2>4. QED
    BY <1>5, <2>3 DEF AttemptTypes
<1>7. saved' \in [HistoryJobs -> SavedType]
  <2>1. CASE Kind = "batch"
    <3>1. PICK content : content = IF Reviewed THEN saved[Mine].content ELSE attempt.content
      OBVIOUS
    <3>2. content \in ContentType \cup {<<>>}
      BY <1>2, <3>1 DEF HistoryTypes, SavedType, AttemptType
    <3>3. saved' = [saved EXCEPT ![Mine].result = result, ![Mine].content = IF Reviewed THEN @ ELSE attempt.content]
      BY Zenon, <1>3, <1>4, <2>1
    <3>4. saved \in [HistoryJobs -> SavedType] /\ saved[Mine] \in SavedType
      BY <1>2 DEF HistoryTypes
    <3>5. PICK one : one = [saved EXCEPT ![Mine].result = result]
      OBVIOUS
    <3>6. one \in [HistoryJobs -> SavedType] /\ one[Mine].content = saved[Mine].content
      BY <1>2, <1>5, <3>4, <3>5 DEF SavedType
    <3>7. saved' = [one EXCEPT ![Mine].content = content]
      <4>1. saved' = [one EXCEPT ![Mine].content = IF Reviewed THEN one[Mine].content ELSE attempt.content]
        BY Zenon, <3>3, <3>5
      <4>2. QED
        BY <3>1, <3>6, <4>1
    <3>8. QED
      BY <1>2, <3>2, <3>6, <3>7 DEF SavedType
  <2>2. QED
    BY Zenon, <1>3, <2>1 DEF HistoryTypes
<1>8. RunsType'
  <2>1. PICK rows : rows = [f \in Topics |-> IF f \in result.found THEN "open" ELSE "none"]
    OBVIOUS
  <2>2. rows \in RowsType
    BY <2>1 DEF RowsType, ThreadStates
  <2>3. PICK review : review = [reviews[NewRun] EXCEPT !.rows = rows]
    OBVIOUS
  <2>4. reviews' = [reviews EXCEPT ![NewRun] = review]
    BY Zenon, <1>3, <1>4, <2>1, <2>3
  <2>5. NewRun \in DOMAIN reviews => RunType(review)
    BY <2>2, <2>3 DEF HistoryTypes, RunsType, RunType
  <2>6. QED
    BY Zenon, <2>4, <2>5, RunWritten DEF HistoryTypes
<1>9. seen' \subseteq Paths \X Contents
  <2>1. Snapshot.content \in ContentType
    BY <1>2 DEF AttemptType, Snapshot
  <2>2. Offered(Snapshot, attempt.previous, attempt.scope) \subseteq Paths \X Contents
    BY <2>1 DEF Offered, ShownOf, ChangedIn, Delta, ContentType
  <2>3. seen' = seen \/ seen' = seen \cup Offered(Snapshot, attempt.previous, attempt.scope)
    BY Zenon DEF Reviews
  <2>4. QED
    BY <2>2, <2>3 DEF HistoryTypes
<1>10. QED
  BY Zenon, <1>1, <1>6, <1>7, <1>8, <1>9 DEF HistoryTypes

LEMMA PublishTyped == ASSUME HistoryTypes, Publishes PROVE HistoryTypes'
<1>1. UNCHANGED <<change, task, seen>> /\ Doing("publish") /\ ~Doing("none")
  BY DEF Publishes, Doing
<1>2. AttemptType(attempt) /\ Mine \in HistoryJobs /\ attempt.result \in ResultType
  BY <1>1, SomebodyTyped DEF HistoryTypes, AttemptTypes
<1>3. PICK refused \in SUBSET attempt.result.closed, end \in {"resolved", "dismissed"} :
       LET closed == {f \in attempt.result.closed : f \notin attempt.result.found}
           state == [f \in Topics |-> IF f \in attempt.result.found THEN "open"
                        ELSE IF f \in closed \ refused THEN "resolved" ELSE thread[f]]
           touched == attempt.result.found \cup closed
           marked(r, f) == IF f \in touched /\ r \in With(f, Completed)
                           THEN IF f \in closed THEN end ELSE "open"
                           ELSE reviews[r].rows[f]
       IN  /\ thread' = state
           /\ mapping' = [f \in Topics |-> IF f \in touched THEN state[f] ELSE mapping[f]]
           /\ reviews' = [r \in DOMAIN reviews |->
                            [reviews[r] EXCEPT !.rows = [f \in Topics |-> marked(r, f)]]]
           /\ attempt' = [attempt EXCEPT !.step = "complete",
                            !.ready = ReadyToMerge(OpenIn(Completed), attempt.result)]
           /\ saved' = IF Kind = "batch" THEN [saved EXCEPT ![Mine].published = TRUE] ELSE saved
  BY Zenon DEF Publishes
<1> DEFINE closed == {f \in attempt.result.closed : f \notin attempt.result.found}
           state == [f \in Topics |-> IF f \in attempt.result.found THEN "open"
                        ELSE IF f \in closed \ refused THEN "resolved" ELSE thread[f]]
           touched == attempt.result.found \cup closed
           marked(r, f) == IF f \in touched /\ r \in With(f, Completed)
                           THEN IF f \in closed THEN end ELSE "open"
                           ELSE reviews[r].rows[f]
<1>4. /\ thread' = state
      /\ mapping' = [f \in Topics |-> IF f \in touched THEN state[f] ELSE mapping[f]]
      /\ reviews' = [r \in DOMAIN reviews |-> [reviews[r] EXCEPT !.rows = [f \in Topics |-> marked(r, f)]]]
  BY Zenon, <1>3
<1>5. thread' \in [Topics -> ThreadStates] /\ mapping' \in [Topics -> ThreadStates]
  <2>1. \A f \in Topics : thread[f] \in ThreadStates /\ mapping[f] \in ThreadStates
    BY DEF HistoryTypes
  <2>2. state \in [Topics -> ThreadStates]
    BY <2>1 DEF ThreadStates
  <2> HIDE DEF state, touched
  <2>3. QED
    BY <1>4, <2>1, <2>2
<1>6. RunsType'
  <2>1. DOMAIN reviews' = DOMAIN reviews /\ reviews' = [r \in DOMAIN reviews |-> reviews'[r]]
    BY Zenon, <1>4
  <2>2. ASSUME NEW r \in DOMAIN reviews PROVE RunType(reviews'[r])
    <3>1. RunType(reviews[r])
      BY DEF HistoryTypes, RunsType
    <3>2. PICK rows : rows = [f \in Topics |-> marked(r, f)]
      OBVIOUS
    <3>3. rows \in RowsType
      <4>1. \A f \in Topics : marked(r, f) \in ThreadStates \cup {"dismissed"}
        BY <3>1 DEF RunType, RowsType, ThreadStates
      <4> HIDE DEF marked
      <4>2. QED
        BY <3>2, <4>1 DEF RowsType
    <3>4. reviews'[r] = [reviews[r] EXCEPT !.rows = rows]
      BY Zenon, <1>4, <3>2
    <3>5. QED
      BY <3>1, <3>3, <3>4 DEF RunType
  <2>3. QED
    BY Zenon, <2>1, <2>2, RunsRewritten DEF HistoryTypes
<1>7. AttemptTypes'
  <2>1. PICK ready : ready = ReadyToMerge(OpenIn(Completed), attempt.result)
    OBVIOUS
  <2>2. attempt' = [attempt EXCEPT !.step = "complete", !.ready = ready]
    BY Zenon, <1>3, <2>1
  <2>3. AttemptType(attempt') /\ attempt'.step = "complete"
    BY <1>2, <2>2 DEF AttemptType
  <2>4. QED
    BY <2>3 DEF AttemptTypes, Doing
<1>8. saved' \in [HistoryJobs -> SavedType]
  <2>1. saved' = saved \/ saved' = [saved EXCEPT ![Mine].published = TRUE]
    BY Zenon, <1>3
  <2>2. QED
    BY <1>2, <2>1 DEF HistoryTypes, SavedType
<1>9. QED
  BY Zenon, <1>1, <1>5, <1>6, <1>7, <1>8 DEF HistoryTypes

LEMMA HistoryTypesStep == HistoryTypes /\ [HistoryNext]_historyVars => HistoryTypes'
<1> SUFFICES ASSUME HistoryTypes, [HistoryNext]_historyVars PROVE HistoryTypes'
  OBVIOUS
<1>1. CASE UNCHANGED historyVars
  BY Zenon, <1>1 DEF historyVars, HistoryTypes, RunsType, AttemptTypes, Doing
<1>2. QED
  BY Zenon, <1>1, PeopleTyped, BeginTyped, SyncTyped, RouteTyped, AnswersTyped, HydrateTyped, ReviewTyped, PublishTyped,
     RunEndTyped, EndTyped, ReconcileTyped DEF HistoryNext

-----------------------------------------------------------------------------
(* All the services *)

\* The service that runs has the invariant of its own proof.
ServicesInv ==
  /\ part \in {"lifecycle", "administration", "storage", "schema", "runs", "watch", "setup",
               "shutdown", "webhooks", "history", "memory", "workspaces"}
  /\ Is("lifecycle") => LifecycleInv
  /\ Is("administration") => AdminInv
  /\ Is("storage") => MigrationInv
  /\ Is("schema") => SchemaTyped
  /\ Is("runs") => WorkTyped
  /\ Is("watch") => WatchTyped
  /\ Is("setup") => SetupInv
  /\ Is("shutdown") => ShutdownInv
  /\ Is("webhooks") => HookTyped
  /\ Is("history") => HistoryTypes
  /\ Is("memory") => MemoryInv
  /\ Is("workspaces") => WorkspaceInv

\* The invariants of the types say what the types of the runs say.
LEMMA SmallTypesSuffice ==
  /\ LifecycleInv => LifecycleTypeOK
  /\ AdminInv => AdminTypeOK
  /\ MigrationInv => MigrationTypeOK
  /\ SetupInv => SetupTypeOK
  /\ ShutdownInv => ProcessTypeOK
  /\ MemoryInv => MemoryTypeOK
  /\ WorkspaceInv => WorkspaceTypeOK
<1>1. AdminInv => AdminTypeOK
  <2> SUFFICES ASSUME AdminInv PROVE AdminTypeOK
    OBVIOUS
  <2>1. \A k \in DOMAIN db : db[k].refs \subseteq DOMAIN db
    BY DEF AdminInv, Tables, RowStands
  <2>2. QED
    BY <2>1 DEF AdminInv, AdminTypeOK, ProcessOK
<1>2. MigrationInv => MigrationTypeOK
  BY StepsInOrder DEF MigrationInv, RowsStand, MigrationTypeOK
<1>3. SetupInv => SetupTypeOK
  <2> SUFFICES ASSUME SetupInv PROVE SetupTypeOK
    OBVIOUS
  <2>1. /\ link \in RowType /\ issued \in Nat
        /\ DOMAIN hubApps = 1..Len(hubApps) /\ Len(hubApps) \in Nat
        /\ DOMAIN installs = 1..Len(installs) /\ Len(installs) \in Nat
    BY DEF SetupInv, SetupTypes
  <2>2. QED
    BY <2>1 DEF SetupInv, Whole, RowType, SetupTypeOK
<1>4. ShutdownInv => ProcessTypeOK
  BY DEF ShutdownInv, ShutdownTypes, ProcessTypeOK
<1>5. MemoryInv => MemoryTypeOK
  BY DEF MemoryInv, MemoryTypes, MemoryTypeOK
<1>6. WorkspaceInv => WorkspaceTypeOK
  BY DEF WorkspaceInv, WorkspaceTypes, TryType, WorkspaceTypeOK
<1>7. QED
  BY <1>1, <1>2, <1>3, <1>4, <1>5, <1>6 DEF LifecycleInv

LEMMA ServicesBegin == Init => ServicesInv
BY Zenon, LifecycleBegins, AdminBegins, MigrationBegins, SchemaTypesBegin, WorkTypesBegin, WatchTypesBegin,
   SetupBegins, ShutdownBegins, HookTypesBegin, HistoryTypesBegin, MemoryBegins, WorkspaceBegins
   DEF Init, ServicesInv, Is

\* A service that stands still keeps its invariant, and so does one that moves.
LEMMA ServicesStep ==
  ServicesInv /\ [Next]_<<part, lifecycleVars, adminVars, migrationVars, schemaVars, workVars, watchVars,
                          setupVars, shutdownVars, hookVars, historyVars, memoryVars, workspaceVars>>
  => ServicesInv'
<1> SUFFICES ASSUME ServicesInv,
                    [Next]_<<part, lifecycleVars, adminVars, migrationVars, schemaVars, workVars, watchVars,
                             setupVars, shutdownVars, hookVars, historyVars, memoryVars, workspaceVars>>
             PROVE  ServicesInv'
  OBVIOUS
<1>1. part' = part
  BY Zenon DEF Next
<1>2. ASSUME Is("lifecycle") PROVE LifecycleInv'
  <2>1. [LifecycleNext]_lifecycleVars
    BY Zenon, <1>2 DEF Next, Is
  <2>2. QED
    BY Zenon, <1>2, <2>1, LifecycleSteps DEF ServicesInv
<1>3. ASSUME Is("administration") PROVE AdminInv'
  <2>1. [AdminNext]_adminVars
    BY Zenon, <1>3 DEF Next, Is
  <2>2. QED
    BY Zenon, <1>3, <2>1, AdminSteady DEF ServicesInv
<1>4. ASSUME Is("storage") PROVE MigrationInv'
  <2>1. [MigrationNext]_migrationVars
    BY Zenon, <1>4 DEF Next, Is
  <2>2. QED
    BY Zenon, <1>4, <2>1, MigrationSteady DEF ServicesInv
<1>5. ASSUME Is("schema") PROVE SchemaTyped'
  <2>1. [SchemaNext]_schemaVars
    BY Zenon, <1>5 DEF Next, Is
  <2>2. QED
    BY Zenon, <1>5, <2>1, SchemaTypesStep DEF ServicesInv
<1>6. ASSUME Is("runs") PROVE WorkTyped'
  <2>1. [WorkNext]_workVars
    BY Zenon, <1>6 DEF Next, Is
  <2>2. QED
    BY Zenon, <1>6, <2>1, WorkTypesStep DEF ServicesInv
<1>7. ASSUME Is("watch") PROVE WatchTyped'
  <2>1. [WatchNext]_watchVars
    BY Zenon, <1>7 DEF Next, Is
  <2>2. QED
    BY Zenon, <1>7, <2>1, WatchTypesStep DEF ServicesInv
<1>8. ASSUME Is("setup") PROVE SetupInv'
  <2>1. [SetupPageNext]_setupVars
    BY Zenon, <1>8 DEF Next, Is
  <2>2. QED
    BY Zenon, <1>8, <2>1, SetupSteps DEF ServicesInv
<1>9. ASSUME Is("shutdown") PROVE ShutdownInv'
  <2>1. [ProcessNext]_shutdownVars
    BY Zenon, <1>9 DEF Next, Is
  <2>2. QED
    BY Zenon, <1>9, <2>1, ShutdownSteps DEF ServicesInv
<1>10. ASSUME Is("webhooks") PROVE HookTyped'
  <2>1. [HookNext]_hookVars
    BY Zenon, <1>10 DEF Next, Is
  <2>2. QED
    BY Zenon, <1>10, <2>1, HookTypesStep DEF ServicesInv
<1>11. ASSUME Is("history") PROVE HistoryTypes'
  <2>1. [HistoryNext]_historyVars
    BY Zenon, <1>11 DEF Next, Is
  <2>2. QED
    BY Zenon, <1>11, <2>1, HistoryTypesStep DEF ServicesInv
<1>12. ASSUME Is("memory") PROVE MemoryInv'
  <2>1. [MemoryNext]_memoryVars
    BY Zenon, <1>12 DEF Next, Is
  <2>2. QED
    BY Zenon, <1>12, <2>1, MemorySteps DEF ServicesInv
<1>13. ASSUME Is("workspaces") PROVE WorkspaceInv'
  <2>1. [WorkspaceNext]_workspaceVars
    BY Zenon, <1>13 DEF Next, Is
  <2>2. QED
    BY Zenon, <1>13, <2>1, WorkspaceSteps DEF ServicesInv
<1>14. QED
  BY Zenon, <1>1, <1>2, <1>3, <1>4, <1>5, <1>6, <1>7, <1>8, <1>9, <1>10, <1>11, <1>12, <1>13 DEF ServicesInv, Is

\* Every service keeps the types of its state: what the rows, the requests, the
\* calls and the attempts of each may be, with references that lead somewhere
\* and counters within their bounds, for any sizes of all of them.
THEOREM ServicesKeepTypes == Spec => []TypeOK
<1>1. ServicesInv => TypeOK
  BY Zenon, SmallTypesSuffice, SchemaTypesSuffice, WorkTypesSuffice, WatchTypesSuffice, HookTypesSuffice,
     HistoryTypesSuffice DEF ServicesInv, TypeOK, Is
<1>2. QED
  BY <1>1, ServicesBegin, ServicesStep, PTL DEF Spec

=============================================================================
