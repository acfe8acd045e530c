----------------------------- MODULE MCServices -----------------------------
(***************************************************************************)
(* The services around the queue and the pipeline, each on its own: a      *)
(* behaviour picks one of them, and the others stay as they begin.         *)
(***************************************************************************)
EXTENDS TriggerLifecycle, Administration, StorageMigration, SchemaMigrations,
        SingleWorkerRuns, ReviewWatch, GitHubSetup, ProcessShutdown, WebhookService,
        ReviewHistory, ProjectMemory, ReviewWorkspaces

LOCAL INSTANCE TLC

VARIABLE part  \* the service that runs

MCComments == {"first", "second"}
MCAdminJobs == {"j", "k"}
MCIdOrder == <<"a", "b", "c", "d">>

\* A database with three jobs, of which two have runs; "a" may be another.
MCSource(job, default) ==
  LET base == UpsertConnection(UpsertProfile(UpsertProfile(<<>>, "a", default = "a"), "d", default = "d"), "a", "ready")
      jobs == UpsertJob(UpsertJob(UpsertJob(MemoryRow(UpsertTenant(base, "a", "a", "a"), "a"), "a", "b", "completed"),
                          "a", "c", job), "a", "d", "queued")
      all == RunRow(RunRow(RequestRow(RequestRow(RequestRow(jobs, "a", "b"), "a", "c"), "a", "d"), "a", "b"), "a", "c")
  IN MappingRow(FindingRow(MetricsRow(SnapshotRow(SnapshotRow(all, "a", "b"), "a", "c"), "b"), "b"), "a", "b")
MCSources == {MCSource(job, "a") : job \in {"queued", "in_progress", "completed"}} \cup {MCSource("queued", "none")}

MCTwo == {1, 2}
MCTenants == {"t1", "t2"}
MCKindOf == <<"batch", "manual">>
MCAsked == << [memory |-> 1, supersedes |-> {}],
              [memory |-> 2, supersedes |-> {1}],
              [memory |-> 3, supersedes |-> {}] >>

\* Deliveries: other editions of a comment and other deliveries are other ids.
Ev(event, id, by, asks, on, repo, key, head) ==
  [event |-> event, id |-> id, by |-> by, asks |-> asks, on |-> on,
   repo |-> repo, key |-> key, head |-> head]
MCGitHubEvents ==
  {Ev("comment", 1, "person", TRUE, "none", "ours", 1, 1),
   Ev("comment", 1, "person", TRUE, "none", "ours", 0, 1),
   Ev("comment", 2, "person", TRUE, "finding", "ours", 1, 1),
   Ev("comment", 3, "self", TRUE, "finding", "ours", 1, 1),
   Ev("comment", 4, "bot", TRUE, "finding", "unknown", 1, 1),
   Ev("comment", 5, "bot", FALSE, "finding", "ours", 2, 1),
   Ev("action", 6, "person", FALSE, "none", "ours", 1, 1),
   Ev("action", 7, "person", FALSE, "none", "ours", 2, 2),
   Ev("pull", 8, "person", FALSE, "none", "ours", 1, 1),
   Ev("pull", 9, "person", FALSE, "none", "ours", 1, 2),
   Ev("other", 10, "person", FALSE, "none", "none", 1, 1)}
MCGitLabEvents ==
  {Ev("comment", 1, "person", TRUE, "none", "ours", 1, 1),
   Ev("comment", 1, "person", TRUE, "none", "ours", 0, 1),
   Ev("comment", 2, "person", TRUE, "summary", "ours", 1, 1),
   Ev("comment", 3, "bot", FALSE, "finding", "ours", 2, 2),
   Ev("comment", 4, "self", TRUE, "finding", "ours", 1, 1),
   Ev("other", 6, "person", TRUE, "none", "ours", 1, 1),
   Ev("broken", 7, "person", TRUE, "none", "ours", 1, 1),
   Ev("comment", 8, "person", TRUE, "none", "none", 1, 1)}
Symmetry == Permutations(Admins)

Is(name) == part = name

\* The beginnings of a history that are looked at: after a review that found
\* something, on GitHub, and before the first one, on GitLab.
PastOf(looked) ==
  \/ hosting = "gitlab" /\ reviews = <<>>
  \/ /\ looked /\ hosting = "github" /\ reviews # <<>>
     /\ reviews[1].snapshot.format # "unreadable" /\ \A f \in Topics : thread[f] = "open"

\* Bound: people move once an attempt has been made.
Tried == \E r \in DOMAIN reviews : reviews[r].job # 0
OnceTried == moves' # moves => Tried

\* Bound: two commands that overlap meet one step of the server, one command
\* meets two.
FewMoves == commands' + served' <= 3

Init ==
  /\ part \in {"lifecycle", "administration", "storage", "schema", "runs", "watch", "setup",
             "shutdown", "webhooks", "history", "memory", "workspaces"}
  /\ LifecycleInit /\ (Is("lifecycle") \/ trigger = "comments")
  /\ IF Is("administration") THEN AdminInit
     ELSE db = <<>> /\ admin = [a \in Admins |-> Idle] /\ served = 0 /\ commands = 0 /\ crossed = {}
  /\ IF Is("storage") THEN MigrationInit
     ELSE /\ source = <<>> /\ target = <<>> /\ copied = {} /\ phase = "idle" /\ quiet = TRUE
          /\ store = 1 /\ page = 1 /\ pages = 0 /\ runs = 0 /\ batch = <<>>
  /\ IF Is("schema") THEN SchemaInit
     ELSE /\ adapter = "none" /\ data = <<>> /\ recorded = {} /\ starter = [p \in Starters |-> Down]
          /\ crashes = 0 /\ repeated = {}
  /\ WorkInit /\ WatchInit /\ SetupInit /\ ShutdownInit
  /\ HookInit /\ (Is("webhooks") \/ (platform = "github" /\ hub.checks[1] = 0))
  /\ HistoryInit /\ PastOf(Is("history"))
  /\ MemoryInit /\ (Is("memory") \/ ~hasWiki)
  /\ WorkspaceInit /\ (Is("workspaces") \/ site = "github")

Next ==
  \/ /\ Is("lifecycle") /\ LifecycleNext
     /\ UNCHANGED <<part, adminVars, migrationVars, schemaVars, workVars,
                    watchVars, setupVars, shutdownVars, hookVars, historyVars, memoryVars, workspaceVars>>
  \/ /\ Is("administration") /\ AdminNext /\ FewMoves
     /\ UNCHANGED <<part, lifecycleVars, migrationVars, schemaVars, workVars,
                    watchVars, setupVars, shutdownVars, hookVars, historyVars, memoryVars, workspaceVars>>
  \/ /\ Is("storage") /\ MigrationNext
     /\ UNCHANGED <<part, lifecycleVars, adminVars, schemaVars, workVars,
                    watchVars, setupVars, shutdownVars, hookVars, historyVars, memoryVars, workspaceVars>>
  \/ /\ Is("schema") /\ SchemaNext
     /\ UNCHANGED <<part, lifecycleVars, adminVars, migrationVars, workVars,
                    watchVars, setupVars, shutdownVars, hookVars, historyVars, memoryVars, workspaceVars>>
  \/ /\ Is("runs") /\ WorkNext
     /\ UNCHANGED <<part, lifecycleVars, adminVars, migrationVars, schemaVars,
                    watchVars, setupVars, shutdownVars, hookVars, historyVars, memoryVars, workspaceVars>>
  \/ /\ Is("watch") /\ WatchNext
     /\ UNCHANGED <<part, lifecycleVars, adminVars, migrationVars, schemaVars,
                    workVars, setupVars, shutdownVars, hookVars, historyVars, memoryVars, workspaceVars>>
  \/ /\ Is("setup") /\ SetupPageNext
     /\ UNCHANGED <<part, lifecycleVars, adminVars, migrationVars, schemaVars,
                    workVars, watchVars, shutdownVars, hookVars, historyVars, memoryVars, workspaceVars>>
  \/ /\ Is("shutdown") /\ ProcessNext
     /\ UNCHANGED <<part, lifecycleVars, adminVars, migrationVars, schemaVars,
                    workVars, watchVars, setupVars, hookVars, historyVars, memoryVars, workspaceVars>>
  \/ /\ Is("webhooks") /\ HookNext
     /\ UNCHANGED <<part, lifecycleVars, adminVars, migrationVars, schemaVars,
                    workVars, watchVars, setupVars, shutdownVars, historyVars, memoryVars, workspaceVars>>
  \/ /\ Is("history") /\ HistoryNext /\ OnceTried
     /\ UNCHANGED <<part, lifecycleVars, adminVars, migrationVars, schemaVars,
                    workVars, watchVars, setupVars, shutdownVars, hookVars, memoryVars, workspaceVars>>
  \/ /\ Is("memory") /\ MemoryNext
     /\ UNCHANGED <<part, lifecycleVars, adminVars, migrationVars, schemaVars, workVars, watchVars,
                    setupVars, shutdownVars, hookVars, historyVars, workspaceVars>>
  \/ /\ Is("workspaces") /\ WorkspaceNext
     /\ UNCHANGED <<part, lifecycleVars, adminVars, migrationVars, schemaVars, workVars, watchVars,
                    setupVars, shutdownVars, hookVars, historyVars, memoryVars>>

Spec ==
  Init /\ [][Next]_<<part, lifecycleVars, adminVars, migrationVars, schemaVars, workVars, watchVars,
                     setupVars, shutdownVars, hookVars, historyVars, memoryVars, workspaceVars>>

TypeOK ==
  CASE Is("lifecycle") -> LifecycleTypeOK
    [] Is("administration") -> AdminTypeOK
    [] Is("storage") -> MigrationTypeOK
    [] Is("schema") -> SchemaTypeOK
    [] Is("runs") -> WorkTypeOK
    [] Is("watch") -> WatchTypeOK
    [] Is("setup") -> SetupTypeOK
    [] Is("shutdown") -> ProcessTypeOK
    [] Is("webhooks") -> HookTypeOK
    [] Is("history") -> HistoryTypeOK
    [] Is("memory") -> MemoryTypeOK
    [] Is("workspaces") -> WorkspaceTypeOK

=============================================================================
