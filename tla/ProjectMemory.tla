--------------------------- MODULE ProjectMemory ---------------------------
(***************************************************************************)
(* The memory of a project: what model sessions ask to remember, one write *)
(* at a time by a queue of promises, each write an optimistic load, merge  *)
(* and save against a store row or a wiki page that people and other       *)
(* processes edit.  An attempt that lost its lease still writes: nothing   *)
(* fences a memory.  Entries are their normalised texts.                   *)
(***************************************************************************)
EXTENDS Naturals, FiniteSets

CONSTANTS
  Memories,      \* entries, by their normalised text
  Italic,        \* of them: texts a page shows as a note and is not read back
  Askers,        \* calls of add_memory_entry: 1, 2, ...
  Asked,         \* what each asks: [memory, supersedes]
  FewEntries,    \* entries that are fewer than the coalescing threshold
  MaxEdits       \* bound: edits by people and other processes, failed calls

ASSUME MemoryAssumption ==
  /\ Askers \subseteq Nat \ {0}
  /\ Asked \in [Askers -> [memory : Memories, supersedes : SUBSET Memories]]

VARIABLES
  row, wiki,     \* entries of the store's row and of the wiki page
  hasWiki,       \* the project has a wiki: only ever turned on
  asker,         \* each call: [step, local, ahead, base, next, result, tries, on]
  tail,          \* tenantWriteQueues: the last call in the queue, or 0
  edits,
  owed,          \* ghost: written or confirmed, and not taken back since
  gone           \* ghost: taken back, and not remembered again

memoryVars == <<row, wiki, hasWiki, asker, tail, edits, owed, gone>>

NoCall == [step |-> "idle", local |-> FALSE, ahead |-> 0, base |-> {}, next |-> {},
           result |-> {}, tries |-> 0, on |-> "store"]

MemoryInit ==
  /\ row = {} /\ wiki = {} /\ hasWiki \in BOOLEAN
  /\ asker = [a \in Askers |-> NoCall] /\ tail = 0 /\ edits = 0
  /\ owed = {} /\ gone = {}

Ongoing(a) == asker[a].step \notin {"idle", "ended"}
Awaits(a, step) == asker[a].step = step
Backend == IF hasWiki THEN "wiki" ELSE "store"
Kept == IF hasWiki THEN wiki ELSE row

----------------------------------------------------------------------------
(* runSerializedWrite *)

\* Mutant: whoever ends forgets the queue.
QueueForgotten(a) == 0

\* The queue is forgotten by its last call only.
QueueAfter(a) == IF tail = a THEN 0 ELSE tail

\* A session calls the tool; of a local test, nothing is written to a platform.
Asks(a) ==
  /\ Awaits(a, "idle") /\ \A b \in Askers : b < a => ~Awaits(b, "idle")
  /\ \E local \in BOOLEAN :
       asker' = [asker EXCEPT ![a] = [NoCall EXCEPT !.step = "queue", !.local = local, !.ahead = tail]]
  /\ tail' = a
  /\ UNCHANGED <<row, wiki, hasWiki, edits, owed, gone>>

\* It waits for the call that was the last one then.
ItsTurn(a) == asker[a].ahead # 0 => Awaits(asker[a].ahead, "ended")

CallEnded(a) == [asker EXCEPT ![a] = [NoCall EXCEPT !.step = "ended"]]

----------------------------------------------------------------------------
(* ProjectMemoryService.addEntry *)

\* mergeProjectMemoryEntries, up to order.
Merged(entries, a) == (entries \ Asked[a].supersedes) \cup {Asked[a].memory}

\* resolveBackend deletes the store's row of a project with a wiki.
RowResolved == IF hasWiki THEN {} ELSE row

LoadsMemory(a) ==
  /\ Awaits(a, "queue") /\ ItsTurn(a)
  /\ row' = RowResolved
  /\ LET next == Merged(Kept, a)
     IN  IF next = Kept
         THEN /\ asker' = CallEnded(a) /\ tail' = QueueAfter(a)
              /\ owed' = owed \cup {Asked[a].memory} /\ gone' = gone \ {Asked[a].memory}
         ELSE /\ asker' = [asker EXCEPT ![a].step = "save", ![a].base = Kept, ![a].next = next]
              /\ UNCHANGED <<tail, owed, gone>>
  /\ UNCHANGED <<wiki, hasWiki, edits>>

\* mergeConcurrentProjectMemoryEntries: nothing, if a base entry is missing.
Mergeable(a) == asker[a].base \subseteq Kept
MergedOver(a) == asker[a].next \cup (Kept \ asker[a].base)

\* saveEntries begins: the backend of now, its entries of now.  The backend of
\* a local test does not write to a wiki.
ReadsMemory(a) ==
  /\ Awaits(a, "save") \/ Awaits(a, "coalesced")
  /\ row' = RowResolved
  /\ LET writes == Mergeable(a) /\ ~(asker[a].local /\ hasWiki)
                   /\ (hasWiki \/ MergedOver(a) # Kept)
         then == IF Awaits(a, "save") THEN "check" ELSE "done"
     IN  asker' = [asker EXCEPT
           ![a].step = IF ~writes THEN then ELSE IF then = "check" THEN "put" ELSE "replace",
           ![a].result = IF writes THEN MergedOver(a) ELSE Kept,
           ![a].on = Backend]
  /\ UNCHANGED <<wiki, hasWiki, tail, edits, owed, gone>>

\* What a page with these entries is read back as.
Rendered(entries) == entries \ Italic

Written(a) ==
  IF asker[a].on = "wiki"
  THEN wiki' = Rendered(asker[a].result) /\ UNCHANGED row
  ELSE row' = asker[a].result /\ UNCHANGED wiki

\* What a write settles: what it replaces is owed no more, what it brings is.
Accounts(a, lost, brings) ==
  /\ owed' = IF asker[a].on # Backend THEN owed \ lost
             ELSE (owed \ lost) \cup (brings \ (IF hasWiki THEN Italic ELSE {}))
  /\ gone' = gone \ brings

\* The write reaches its backend.
Puts(a) ==
  /\ Awaits(a, "put")
  /\ Written(a) /\ Accounts(a, Asked[a].supersedes, {Asked[a].memory})
  /\ asker' = [asker EXCEPT ![a].step = "check"]
  /\ UNCHANGED <<hasWiki, tail, edits>>

\* saveEntryUpdate: again from the result, unless the memory is in it.
ChecksSave(a) ==
  /\ Awaits(a, "check")
  /\ LET c == asker[a]
         again == Merged(c.result, a)
     IN  IF again = c.result
         THEN IF Cardinality(c.result) > FewEntries
              THEN asker' = [asker EXCEPT ![a].step = "coalesce"] /\ UNCHANGED tail
              ELSE asker' = CallEnded(a) /\ tail' = QueueAfter(a)
         ELSE IF c.tries = 2
              THEN asker' = CallEnded(a) /\ tail' = QueueAfter(a)
              ELSE /\ asker' = [asker EXCEPT ![a].step = "save", ![a].tries = @ + 1,
                                             ![a].base = c.result, ![a].next = again]
                   /\ UNCHANGED tail
  /\ UNCHANGED <<row, wiki, hasWiki, edits, owed, gone>>

\* A model rewrites the entries into some entries, at least one.
Coalesces(a) ==
  /\ Awaits(a, "coalesce")
  /\ \E rewritten \in SUBSET Memories \ {{}} :
       asker' = [asker EXCEPT ![a].step = "coalesced", ![a].base = asker[a].result, ![a].next = rewritten]
  /\ UNCHANGED <<row, wiki, hasWiki, tail, edits, owed, gone>>

Replaces(a) ==
  /\ Awaits(a, "replace")
  /\ Written(a) /\ Accounts(a, asker[a].base \ asker[a].next, asker[a].next \ asker[a].base)
  /\ asker' = [asker EXCEPT ![a].step = "done"]
  /\ UNCHANGED <<hasWiki, tail, edits>>

EndsCall(a) ==
  /\ Awaits(a, "done")
  /\ asker' = CallEnded(a) /\ tail' = QueueAfter(a)
  /\ UNCHANGED <<row, wiki, hasWiki, edits, owed, gone>>

\* A call to the backend or the model fails; a write may have arrived.
MemoryCallFails(a) ==
  /\ Ongoing(a) /\ asker[a].step \notin {"check", "done"} /\ ItsTurn(a)
  /\ edits < MaxEdits /\ edits' = edits + 1
  /\ \/ UNCHANGED <<row, wiki, owed, gone>>
     \/ /\ Awaits(a, "put")
        /\ Written(a) /\ Accounts(a, Asked[a].supersedes, {Asked[a].memory})
     \/ /\ Awaits(a, "replace")
        /\ Written(a) /\ Accounts(a, asker[a].base \ asker[a].next, asker[a].next \ asker[a].base)
  /\ asker' = CallEnded(a) /\ tail' = QueueAfter(a)
  /\ UNCHANGED hasWiki

----------------------------------------------------------------------------
(* Others *)

\* A write under way replaces what others change: no revision is compared.
UnderWay == \E a \in Askers : Awaits(a, "put") \/ Awaits(a, "replace")

OthersEdit ==
  /\ edits < MaxEdits /\ edits' = edits + 1
  /\ \E m \in Memories :
       LET kept == IF m \in Kept THEN Kept \ {m} ELSE Kept \cup {m}
       IN  /\ m \in Kept \/ m \notin Italic
           /\ IF hasWiki THEN wiki' = kept /\ UNCHANGED row ELSE row' = kept /\ UNCHANGED wiki
           /\ owed' = IF m \in kept /\ ~UnderWay THEN owed \cup {m} ELSE owed \ {m}
           /\ gone' = IF m \notin kept /\ ~UnderWay THEN gone \cup {m} ELSE gone \ {m}
  /\ UNCHANGED <<hasWiki, asker, tail>>

\* An administrator enables the wiki: it wins, and the row is not copied.
WikiEnabled ==
  /\ ~hasWiki /\ hasWiki' = TRUE
  /\ owed' = {} /\ gone' = {}
  /\ UNCHANGED <<row, wiki, asker, tail, edits>>

MemoryNext ==
  \/ \E a \in Askers :
       \/ Asks(a) \/ LoadsMemory(a) \/ ReadsMemory(a) \/ Puts(a) \/ ChecksSave(a)
       \/ Coalesces(a) \/ Replaces(a) \/ EndsCall(a) \/ MemoryCallFails(a)
  \/ OthersEdit \/ WikiEnabled

MemoryTypeOK ==
  /\ row \subseteq Memories /\ wiki \subseteq Memories \ Italic
  /\ tail \in Askers \cup {0} /\ owed \subseteq Memories /\ gone \subseteq Memories

----------------------------------------------------------------------------
(* Properties *)

\* What a call wrote or confirmed, or somebody wrote while no write was under
\* way, is remembered until another call supersedes it, a model leaves it out
\* or somebody removes it; what was removed while no write was under way does
\* not come back by a stale base.  So the calls of a process never run over
\* each other, whatever fails.
MemoryIsKept == owed \subseteq Kept /\ gone \cap Kept = {}

=============================================================================
