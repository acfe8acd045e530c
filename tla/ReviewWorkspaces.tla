-------------------------- MODULE ReviewWorkspaces --------------------------
(***************************************************************************)
(* The directories that attempts of one review job prepare for their model *)
(* sessions: from Git, from an archive or from single files, one directory *)
(* for each attempt, since an attempt that lost its lease goes on beside   *)
(* the next one, until its cleanup.  Heads are numbers in the order they   *)
(* are pushed; the base of a head is that number too.                      *)
(***************************************************************************)
EXTENDS Naturals, FiniteSets, Sequences

CONSTANTS
  Tries,         \* attempts of the job: 1, 2, ...
  MaxPushes,     \* bound: heads of the code review
  MaxSessions,   \* bound: model sessions of an attempt
  MaxTurns       \* STRUCTURED_OUTPUT_CORRECTION_LIMIT + 1

ASSUME WorkspaceAssumption ==
  /\ Tries \subseteq Nat \ {0}
  /\ MaxPushes \in Nat \ {0} /\ MaxSessions \in Nat /\ MaxTurns \in Nat \ {0}

VARIABLES
  site,          \* "github" or "gitlab"
  pushed,        \* the newest head of the code review
  disk,          \* the directories below workspaceRoot
  prep,          \* each attempt
  swept          \* attempts under way when the tenant was removed

workspaceVars == <<site, pushed, disk, prep, swept>>

\* A directory: the refs and the remote of its repository, what is checked out
\* or unpacked, and the empty Git configuration beside it.
NoDir == [there |-> FALSE, remote |-> FALSE, head |-> 0, base |-> 0,
          tree |-> 0, whole |-> FALSE, config |-> FALSE]
NewDir == [NoDir EXCEPT !.there = TRUE]

\* left: why the directory of the attempt may stay behind.
NoTry == [step |-> "idle", owned |-> FALSE, head |-> 0, base |-> 0, strategy |-> "none",
          manifest |-> <<0, 0>>, looked |-> {}, sessions |-> 0, turns |-> 0, left |-> "nothing"]

WorkspaceInit ==
  /\ site \in {"github", "gitlab"} /\ pushed = 1
  /\ disk = [d \in Tries \cup {0} |-> NoDir] /\ prep = [a \in Tries |-> NoTry]
  /\ swept = {}

In(a, step) == prep[a].step = step
Over(a) == In(a, "idle") \/ In(a, "ended")

\* Mutant: the directory of the job.
DirOfJob(a) == 0

\* GitLab's is named by the job and the claim, GitHub's by mkdtemp.
DirOf(a) == a
Dir(a) == disk[DirOf(a)]

StepTo(a, step) == [prep EXCEPT ![a].step = step]
Stops(a, reason) == [prep EXCEPT ![a] = [NoTry EXCEPT !.step = "ended", !.left = reason]]
OnDisk(a, dir) == disk' = [disk EXCEPT ![DirOf(a)] = dir]

\* resetDirectory(rootPath): what lies beside the root stays.
RootReset(a) == [NewDir EXCEPT !.config = Dir(a).config]

----------------------------------------------------------------------------
(* The code review and the job *)

Pushes ==
  /\ pushed < MaxPushes /\ pushed' = pushed + 1
  /\ UNCHANGED <<site, disk, prep, swept>>

\* An attempt begins when the lease of the one before is over.  The head is
\* that of its job; the base is unknown when the platform does not tell it.
ClaimsJob(a) ==
  /\ In(a, "idle") /\ \A b \in Tries : b < a => ~In(b, "idle") /\ ~prep[b].owned
  /\ \E head \in 1..pushed : \E base \in {0, head} :
       prep' = [prep EXCEPT ![a].step = "reset", ![a].owned = TRUE,
                            ![a].head = head, ![a].base = base]
  /\ UNCHANGED <<site, pushed, disk, swept>>

ClaimIsLost(a) ==
  /\ ~Over(a) /\ prep[a].owned
  /\ prep' = [prep EXCEPT ![a].owned = FALSE]
  /\ UNCHANGED <<site, pushed, disk, swept>>

----------------------------------------------------------------------------
(* materialize *)

\* GitLab removes what is there, GitHub makes a new directory; Git needs the base.
ResetsDirectory(a) ==
  /\ In(a, "reset")
  /\ OnDisk(a, NewDir)
  /\ prep' = StepTo(a, IF prep[a].base = 0 THEN "archive" ELSE "fetch")
  /\ UNCHANGED <<site, pushed, swept>>

\* By its id, or by the ref of the code review if that is still the head.
Fetched(a) == {got \in {prep[a].head, pushed} : got = prep[a].head}

FetchesHead(a) ==
  /\ In(a, "fetch") /\ Dir(a).there
  /\ \E got \in Fetched(a) : OnDisk(a, [RootReset(a) EXCEPT !.remote = TRUE, !.head = got])
  /\ prep' = StepTo(a, "base")
  /\ UNCHANGED <<site, pushed, swept>>

\* Both refs are compared with what was asked for.
FetchesBase(a) ==
  /\ In(a, "base") /\ Dir(a).remote /\ Dir(a).head = prep[a].head
  /\ OnDisk(a, [Dir(a) EXCEPT !.base = prep[a].base])
  /\ prep' = StepTo(a, "manifest")
  /\ UNCHANGED <<site, pushed, swept>>

\* buildGitReviewChanges: two listings, which agree on the paths.
ListsChanges(a) ==
  /\ In(a, "manifest") /\ Dir(a).head # 0 /\ Dir(a).base # 0
  /\ prep' = [prep EXCEPT ![a].step = "checkout", ![a].manifest = <<Dir(a).base, Dir(a).head>>]
  /\ UNCHANGED <<site, pushed, disk, swept>>

ChecksOut(a) ==
  /\ In(a, "checkout") /\ Dir(a).head # 0
  /\ OnDisk(a, [Dir(a) EXCEPT !.tree = Dir(a).head, !.whole = TRUE])
  /\ prep' = StepTo(a, "detach")
  /\ UNCHANGED <<site, pushed, swept>>

\* The remote is removed; the configuration must not exist yet (flag wx).
Detaches(a) ==
  /\ In(a, "detach") /\ Dir(a).remote /\ ~Dir(a).config
  /\ OnDisk(a, [Dir(a) EXCEPT !.remote = FALSE, !.config = TRUE])
  /\ prep' = [prep EXCEPT ![a].step = "register", ![a].strategy = "git"]
  /\ UNCHANGED <<site, pushed, swept>>

\* Any step of Git may fail: the archive is next.
GitFails(a) ==
  /\ prep[a].step \in {"fetch", "base", "manifest", "checkout", "detach"}
  /\ prep' = [prep EXCEPT ![a].step = "archive", ![a].manifest = <<0, 0>>]
  /\ UNCHANGED <<site, pushed, disk, swept>>

\* The repository is gone before another tree is put in its place.
UnpacksArchive(a) ==
  /\ In(a, "archive")
  /\ OnDisk(a, [RootReset(a) EXCEPT !.tree = prep[a].head, !.whole = TRUE])
  /\ prep' = [prep EXCEPT ![a].step = "register", ![a].strategy = "archive"]
  /\ UNCHANGED <<site, pushed, swept>>

\* At any point of it.  GitHub removes the directory, if it can, and gives up.
ArchiveFails(a) ==
  /\ In(a, "archive")
  /\ \/ /\ site = "gitlab" /\ prep' = StepTo(a, "files")
        /\ \E got \in BOOLEAN : OnDisk(a, [RootReset(a) EXCEPT !.tree = IF got THEN prep[a].head ELSE 0])
     \/ /\ site = "github"
        /\ \/ OnDisk(a, NoDir) /\ prep' = Stops(a, "nothing")
           \/ OnDisk(a, RootReset(a)) /\ prep' = Stops(a, "not removed")
  /\ UNCHANGED <<site, pushed, swept>>

\* The changed files, the instructions and the customizations, all of one head.
\* When one cannot be had, nobody removes the directory.
WritesFiles(a) ==
  /\ In(a, "files")
  /\ OnDisk(a, [RootReset(a) EXCEPT !.tree = prep[a].head])
  /\ \/ prep' = [prep EXCEPT ![a].step = "register", ![a].strategy = "files"]
     \/ prep' = Stops(a, "not prepared")
  /\ UNCHANGED <<site, pushed, swept>>

----------------------------------------------------------------------------
(* processClaimedJob and HarnessSessionRuntime.run *)

\* The workspace is known to the cleanup only after a look at the lease.
Registers(a) ==
  /\ In(a, "register")
  /\ prep' = IF prep[a].owned THEN StepTo(a, "work") ELSE Stops(a, "lease lost")
  /\ UNCHANGED <<site, pushed, disk, swept>>

\* Sessions follow each other: routing, memory, review and reply.  An attempt
\* without its lease begins no other one, but does not stop the one it runs.
StartsSession(a) ==
  /\ In(a, "work") /\ prep[a].owned /\ prep[a].sessions < MaxSessions
  /\ prep' = [prep EXCEPT ![a].step = "session", ![a].sessions = @ + 1, ![a].turns = 1]
  /\ UNCHANGED <<site, pushed, disk, swept>>

\* Links among the repository's customizations end the attempt before a session.
RefusesLinks(a) ==
  /\ In(a, "work") /\ prep[a].owned
  /\ prep' = StepTo(a, "cleanup")
  /\ UNCHANGED <<site, pushed, disk, swept>>

\* So do diffs of the platform that are missing or too long, without Git.
RefusesDiffs(a) ==
  /\ In(a, "work") /\ prep[a].owned /\ prep[a].strategy # "git"
  /\ prep' = StepTo(a, "cleanup")
  /\ UNCHANGED <<site, pushed, disk, swept>>

Tools(a) == {"view"} \cup IF prep[a].strategy = "git" THEN {"git_readonly"} ELSE {}

Inspects(a) ==
  /\ In(a, "session") /\ "git_readonly" \in Tools(a)
  /\ prep' = [prep EXCEPT ![a].looked = @ \cup {<<Dir(a).base, Dir(a).head>>}]
  /\ UNCHANGED <<site, pushed, disk, swept>>

\* The objects in an answer as they are tried, the whole of it, a fenced block
\* and the last ones first: one that is meant is taken, or else one that fits.
Responses == UNION {[1..n -> {"broken", "other", "fits", "meant"}] : n \in 0..2}
Taken(answer) ==
  LET meant == {i \in DOMAIN answer : answer[i] = "meant"}
      fit == {i \in DOMAIN answer : answer[i] = "fits"}
      among == IF meant # {} THEN meant ELSE fit
  IN  {i \in among : \A j \in among : i <= j}

\* An answer with nothing to take is asked for again.
CorrectsAnswer(a) ==
  /\ In(a, "session") /\ prep[a].turns < MaxTurns
  /\ \E answer \in Responses : Taken(answer) = {}
  /\ prep' = [prep EXCEPT ![a].turns = @ + 1]
  /\ UNCHANGED <<site, pushed, disk, swept>>

\* It answers, times out, fails or has no turn left; it is disconnected first.
EndsSession(a) ==
  /\ In(a, "session")
  /\ \/ /\ \E answer \in Responses : Taken(answer) # {}
        /\ prep' = [prep EXCEPT ![a].step = "work", ![a].turns = 0]
     \/ prep' = [prep EXCEPT ![a].step = "cleanup", ![a].turns = 0]
  /\ UNCHANGED <<site, pushed, disk, swept>>

\* The end of the attempt, good or bad.
FinishesWork(a) ==
  /\ In(a, "work")
  /\ prep' = StepTo(a, "cleanup")
  /\ UNCHANGED <<site, pushed, disk, swept>>

\* finally: an error is only logged.
CleansUp(a) ==
  /\ In(a, "cleanup")
  /\ \/ OnDisk(a, NoDir) /\ prep' = Stops(a, "nothing")
     \/ prep' = Stops(a, "not removed") /\ UNCHANGED disk
  /\ UNCHANGED <<site, pushed, swept>>

ProcessDies(a) ==
  /\ ~Over(a)
  /\ prep' = Stops(a, "crash")
  /\ UNCHANGED <<site, pushed, disk, swept>>

\* `tenant remove`, when the store knows of no attempt: it removes the directory
\* named by the job, which is no directory of GitHub's.
TenantRemoved ==
  /\ \A a \in Tries : ~prep[a].owned
  /\ \E a \in Tries : ~In(a, "idle")
  /\ swept = {} /\ swept' = {a \in Tries : ~Over(a)}
  /\ disk' = IF site = "gitlab" THEN [d \in DOMAIN disk |-> NoDir] ELSE disk
  /\ prep' = [a \in Tries |-> IF In(a, "idle")
                           THEN [NoTry EXCEPT !.step = "ended", !.left = "no attempt"]
                           ELSE prep[a]]
  /\ UNCHANGED <<site, pushed>>

WorkspaceNext ==
  \/ Pushes \/ TenantRemoved
  \/ \E a \in Tries :
       \/ ClaimsJob(a) \/ ClaimIsLost(a) \/ ResetsDirectory(a) \/ FetchesHead(a)
       \/ FetchesBase(a) \/ ListsChanges(a) \/ ChecksOut(a) \/ Detaches(a) \/ GitFails(a)
       \/ UnpacksArchive(a) \/ ArchiveFails(a) \/ WritesFiles(a) \/ Registers(a)
       \/ RefusesLinks(a) \/ RefusesDiffs(a) \/ StartsSession(a) \/ Inspects(a) \/ CorrectsAnswer(a)
       \/ EndsSession(a) \/ FinishesWork(a) \/ CleansUp(a) \/ ProcessDies(a)

WorkspaceTypeOK ==
  /\ pushed \in 1..MaxPushes /\ swept \subseteq Tries
  /\ \A a \in Tries : prep[a].turns \in 0..MaxTurns /\ prep[a].sessions \in 0..MaxSessions

----------------------------------------------------------------------------
(* Properties *)

\* What a model may read is the head of its attempt, complete unless it was
\* fetched file by file, and of no other revision, even beside another attempt.
Exact(a) ==
  LET d == Dir(a)
      t == prep[a]
  IN  /\ d.there /\ d.tree = t.head /\ (t.strategy # "files" => d.whole)
      /\ ~d.remote
      /\ IF t.strategy = "git"
         THEN t.manifest = <<t.base, t.head>> /\ d.base = t.base /\ d.head = t.head
         ELSE d.base = 0 /\ d.head = 0
      /\ t.looked \subseteq {<<t.base, t.head>>}

\* While a session of an attempt runs, its workspace is exactly what the attempt
\* prepared: its head, the changes between its base and its head, no remote;
\* an attempt that lost its lease neither changes nor removes what the next one
\* reads, except that the removal of the tenant may remove what a stale attempt
\* reads.  A directory outlives its attempt only after a crash, a lease lost
\* during the preparation, a preparation that failed or a removal that failed.
WorkspaceIsExact ==
  \A a \in Tries :
    /\ In(a, "session") /\ a \notin swept => Exact(a)
    /\ In(a, "ended") /\ prep[a].left = "nothing" => ~Dir(a).there

=============================================================================
