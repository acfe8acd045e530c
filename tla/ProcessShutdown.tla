-------------------------- MODULE ProcessShutdown --------------------------
(***************************************************************************)
(* One server process from its start to its end: HTTP requests and the     *)
(* poll loop of the runner use the storage provider, and a signal stops    *)
(* them in phases, so that storage is closed under nobody's feet.          *)
(***************************************************************************)
EXTENDS Naturals

CONSTANTS
  MaxRequests,  \* bound: HTTP requests in flight at once
  MaxExpired    \* bound: expired jobs whose comments wait to be told

ASSUME ShutdownAssumption == MaxRequests \in Nat /\ MaxExpired \in Nat

VARIABLES
  server,    \* "starting" (listen is awaited), "listening", "closing", "closed"
  handlers,  \* requests in flight
  stage,     \* of the shutdown: "none", "app", "runner", "aside", "storage", "done",
             \* "error" or "killed"
  stopping,  \* the runner's flag
  loop,      \* its poll loop: "off", "timer", or where the tick in flight is
  aside,     \* lifecycle reconciliation beside the loop: [left, abandoned]
  claim,     \* "none", "held", or "stuck": neither ended nor given back
  late,      \* the runner was started after it had been stopped
  storage    \* "open", "closed"

shutdownVars ==
  <<server, handlers, stage, stopping, loop, aside, claim, late, storage>>

ShutdownInit ==
  /\ server = "starting" /\ handlers = 0 /\ stage = "none"
  /\ stopping = FALSE /\ loop = "off"
  /\ aside = [left |-> 0, abandoned |-> FALSE]
  /\ claim = "none" /\ late = FALSE /\ storage = "open"

Lives == stage # "killed"

----------------------------------------------------------------------------
(* main() *)

\* Listening ends; then the runner starts, whatever a signal has done since.
Listens ==
  /\ Lives /\ server = "starting"
  /\ server' = IF stage = "none" THEN "listening" ELSE "closed"
  /\ \E enabled \in BOOLEAN :
       /\ loop' = IF enabled THEN "timer" ELSE "off"
       /\ late' = (enabled /\ stage \notin {"none", "app"})
       /\ stopping' = (stopping /\ ~enabled)
  /\ UNCHANGED <<handlers, stage, aside, claim, storage>>

\* The port is taken, or the server was closed first: a fatal error, and
\* nothing is left to keep the process alive.
ListenFails ==
  /\ Lives /\ server = "starting"
  /\ server' = "closed"
  /\ stage' = IF stage = "none" THEN "error" ELSE stage
  /\ UNCHANGED <<handlers, stopping, loop, aside, claim, late, storage>>

RequestArrives ==
  /\ Lives /\ server = "listening" /\ handlers < MaxRequests
  /\ handlers' = handlers + 1
  /\ UNCHANGED <<server, stage, stopping, loop, aside, claim, late, storage>>

RequestEnds ==
  /\ Lives /\ handlers > 0
  /\ handlers' = handlers - 1
  /\ UNCHANGED <<server, stage, stopping, loop, aside, claim, late, storage>>

----------------------------------------------------------------------------
(* shutdown() *)

FirstSignal ==
  /\ stage = "none"
  /\ stage' = "app"
  /\ server' = IF server = "listening" THEN "closing" ELSE server
  /\ UNCHANGED <<handlers, stopping, loop, aside, claim, late, storage>>

SecondSignal ==
  /\ stage \notin {"none", "done", "killed"}
  /\ stage' = "killed"
  /\ UNCHANGED <<server, handlers, stopping, loop, aside, claim, late, storage>>

\* Phase 1 has drained the requests; phase 2 begins by telling the runner:
\* no other tick, and of the comments beside the loop only the one at hand.
AppCloses ==
  /\ stage = "app" /\ handlers = 0
  /\ stage' = "runner"
  /\ server' = IF server = "closing" THEN "closed" ELSE server
  /\ stopping' = TRUE
  /\ aside' = [aside EXCEPT !.left = IF @ > 0 THEN 1 ELSE 0]
  /\ loop' = IF loop = "timer" THEN "off" ELSE loop
  /\ UNCHANGED <<handlers, claim, late, storage>>

\* Mutant: the tick in flight is not waited for.
LoopLeft == TRUE

\* stop() waits for the tick that is in flight.
LoopSettled == loop \in {"off", "timer"}

LoopDrains ==
  /\ stage = "runner" /\ LoopSettled
  /\ stage' = "aside"
  /\ UNCHANGED <<server, handlers, stopping, loop, aside, claim, late, storage>>

\* ... and, for a while only, for what the loop has left beside it.
AsideSettles ==
  /\ stage = "aside"
  /\ stage' = "storage"
  /\ aside' = [aside EXCEPT !.abandoned = (@ \/ aside.left > 0)]
  /\ UNCHANGED <<server, handlers, stopping, loop, claim, late, storage>>

StorageCloses ==
  /\ stage = "storage"
  /\ stage' = "done" /\ storage' = "closed"
  /\ UNCHANGED <<server, handlers, stopping, loop, aside, claim, late>>

\* Any phase may throw: the error is logged and no later phase runs.
PhaseFails ==
  /\ stage \in {"app", "storage"}
  /\ stage' = "error"
  /\ UNCHANGED <<server, handlers, stopping, loop, aside, claim, late, storage>>

----------------------------------------------------------------------------
(* The poll loop of the runner *)

ShutdownSame == UNCHANGED <<server, handlers, stage, stopping, late, storage>>
LoopEnds == loop' = IF stopping THEN "off" ELSE "timer"

TimerFires ==
  /\ Lives /\ loop = "timer"
  /\ loop' = "expire"
  /\ ShutdownSame /\ UNCHANGED <<aside, claim>>

\* The comments of expired jobs are told beside the loop, unless it stops.
Expires ==
  /\ Lives /\ loop = "expire" /\ storage = "open"
  /\ loop' = "reconcile"
  /\ \E n \in 0..MaxExpired - aside.left :
       aside' = IF stopping \/ n = 0 THEN aside
                ELSE [aside EXCEPT !.left = @ + n]
  /\ ShutdownSame /\ UNCHANGED claim

ReconcilesOrphans ==
  /\ Lives /\ loop = "reconcile" /\ storage = "open"
  /\ IF stopping THEN LoopEnds ELSE loop' = "claim"
  /\ ShutdownSame /\ UNCHANGED <<aside, claim>>

\* The claim is taken while a stop may arrive.
ClaimsNext ==
  /\ Lives /\ loop = "claim" /\ storage = "open"
  /\ \/ loop' = "claimed" /\ claim' = "held"
     \/ LoopEnds /\ UNCHANGED claim
  /\ ShutdownSame /\ UNCHANGED aside

TakesUp ==
  /\ Lives /\ loop = "claimed"
  /\ loop' = IF stopping THEN "release" ELSE "work"
  /\ ShutdownSame /\ UNCHANGED <<aside, claim>>

\* releaseClaim: back to the queue; an error leaves the claim to its lease.
ReleasesClaim ==
  /\ Lives /\ loop = "release"
  /\ LoopEnds
  /\ claim' \in IF storage = "open" THEN {"none", "stuck"} ELSE {"stuck"}
  /\ ShutdownSame /\ UNCHANGED aside

\* The attempt ends, and its claim with it when the storage lets it.
AttemptEnds ==
  /\ Lives /\ loop = "work"
  /\ LoopEnds
  /\ claim' \in IF storage = "open" THEN {"none", "stuck"} ELSE {"stuck"}
  /\ ShutdownSame /\ UNCHANGED aside

\* An error of the storage ends a tick before it holds a claim, whatever the
\* tick was at; so does a storage that is closed.
TickFails ==
  /\ Lives /\ loop \in {"expire", "reconcile", "claim"}
  /\ LoopEnds
  /\ ShutdownSame /\ UNCHANGED <<aside, claim>>

\* One job is told, or the attempt to tell it fails.
AsideTells ==
  /\ Lives /\ aside.left > 0
  /\ aside' = [aside EXCEPT !.left = @ - 1]
  /\ ShutdownSame /\ UNCHANGED <<loop, claim>>

ProcessNext ==
  \/ Listens \/ ListenFails \/ RequestArrives \/ RequestEnds
  \/ FirstSignal \/ SecondSignal \/ AppCloses \/ LoopDrains \/ AsideSettles
  \/ StorageCloses \/ PhaseFails
  \/ TimerFires \/ Expires \/ ReconcilesOrphans \/ ClaimsNext \/ TakesUp
  \/ ReleasesClaim \/ AttemptEnds \/ TickFails \/ AsideTells

ProcessTypeOK ==
  /\ server \in {"starting", "listening", "closing", "closed"}
  /\ handlers \in 0..MaxRequests /\ aside.left \in 0..MaxExpired
  /\ loop \in {"off", "timer", "expire", "reconcile", "claim", "claimed", "release", "work"}

----------------------------------------------------------------------------
(* Properties *)

\* Once storage is closed, no request is in flight, no tick runs, no claim is
\* held, and what still tells comments was given up after its grace.  A
\* signal while the process still starts to listen may start the runner after
\* its stop: then only the requests are sure to be over.
StorageOutlivesWork ==
  storage = "closed" =>
    /\ handlers = 0
    /\ ~late => /\ loop = "off" /\ claim # "held"
                /\ aside.left > 0 => aside.abandoned

=============================================================================
