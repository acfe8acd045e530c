-------------------------- MODULE StorageMigration --------------------------
(***************************************************************************)
(* "storage migrate": the stores of a source are copied one after another, *)
(* page by page in ascending order, to a target.  The rows of a store are  *)
(* counted first, and as many pages are read as that makes.  A page of     *)
(* jobs is written by one transaction, any other page row by row.  The     *)
(* command may be killed and given again; the server may still write to    *)
(* the source.                                                             *)
(***************************************************************************)
EXTENDS Integers, Sequences, FiniteSets, StoreTables

CONSTANTS
  IdOrder,       \* the ids that rows may have, in ascending order
  Sources,       \* the databases that may be migrated
  PageSize,
  MigrationRuns  \* bound: how often the command is given

Ids == {IdOrder[i] : i \in DOMAIN IdOrder}

\* The tables that the rows of a table may refer to.
ForeignKeys == [
  model_profiles          |-> {},
  platform_connections    |-> {},
  tenants                 |-> {"platform_connections"},
  project_memories        |-> {"tenants"},
  interaction_jobs        |-> {"tenants"},
  interaction_requests    |-> {"tenants", "interaction_jobs"},
  code_review_snapshots   |-> {"tenants", "interaction_jobs"},
  interaction_runs        |-> {"tenants", "interaction_jobs"},
  interaction_run_metrics |-> {"interaction_runs"},
  review_findings         |-> {"interaction_runs"},
  discussion_mappings     |-> {"tenants", "interaction_runs"}]

\* What the schema promises of a database, with the profile of a tenant, which
\* the calls look up.
IsDatabase(d) ==
  /\ IsFiniteSet(DOMAIN d)
  /\ d = [k \in DOMAIN d |-> [refs |-> d[k].refs, value |-> d[k].value]]
  /\ \A k \in DOMAIN d :
       /\ k = Key(k.table, k.id) /\ k.table \in DOMAIN ForeignKeys /\ k.id \in Ids
       /\ d[k].refs \subseteq {r \in DOMAIN d : r.table \in ForeignKeys[k.table]}
       /\ k.table = "model_profiles" => d[k].value \in BOOLEAN
       /\ k.table = "tenants" => ProfileKnown(d, d[k].value)
  /\ \A k, l \in RowsIn(d, "model_profiles") : d[k].value /\ d[l].value => k = l

ASSUME MigrationAssumption ==
  /\ PageSize \in Nat \ {0} /\ MigrationRuns \in Nat
  /\ DOMAIN IdOrder \subseteq Nat
  /\ \A d \in Sources : IsDatabase(d)

VARIABLES
  source, target,
  copied,   \* keys this run has copied: what its id maps know
  store, page, pages,  \* the step, the next page of it, and how many were counted
  batch,    \* the rows of the page, as they were read, that are still to be written
  phase,    \* "idle", "count", "pages", "rows", "done", "failed"
  runs,     \* how often the command was given
  quiet     \* has the source stayed as it was since the first time

migrationVars == <<source, target, copied, store, page, pages, batch, phase, runs, quiet>>

\* Mutant of Steps: memories before the tenants they belong to.
StepsSwapped == <<"model_profiles", "platform_connections", "project_memories", "tenants",
  "interaction_jobs", "interaction_requests", "code_review_snapshots", "interaction_runs",
  "interaction_run_metrics", "review_findings", "discussion_mappings">>

Steps == <<"model_profiles", "platform_connections", "tenants", "project_memories",
  "interaction_jobs", "interaction_requests", "code_review_snapshots", "interaction_runs",
  "interaction_run_metrics", "review_findings", "discussion_mappings">>

\* A page holds the rows of its places in the order.
Position(id) == CHOOSE i \in DOMAIN IdOrder : IdOrder[i] = id
RankOf(d, k) == Cardinality({l \in RowsIn(d, k.table) : Position(l.id) < Position(k.id)})
Page(d, table, n) ==
  {k \in RowsIn(d, table) : (n - 1) * PageSize <= RankOf(d, k) /\ RankOf(d, k) < n * PageSize}

MigrationInit ==
  /\ source \in Sources
  /\ target \in {<<>>} \cup {UpsertProfile(<<>>, n, TRUE) : n \in Ids}
  /\ copied = {} /\ store = 1 /\ page = 1 /\ pages = 0 /\ batch = <<>>
  /\ phase = "idle" /\ runs = 0 /\ quiet = TRUE

Start ==
  /\ phase \in {"idle", "failed", "done"} /\ runs < MigrationRuns
  /\ runs' = runs + 1 /\ phase' = "count" /\ store' = 1 /\ page' = 1 /\ copied' = {}
  /\ UNCHANGED <<source, target, pages, batch, quiet>>

Killed ==
  /\ phase \in {"count", "pages", "rows"}
  /\ phase' = "idle" /\ copied' = {} /\ batch' = <<>>
  /\ UNCHANGED <<source, target, store, page, pages, runs, quiet>>

Count ==
  /\ phase = "count"
  /\ pages' = (Cardinality(RowsIn(source, Steps[store])) + PageSize - 1) \div PageSize
  /\ page' = 1 /\ phase' = "pages"
  /\ UNCHANGED <<source, target, copied, store, batch, runs, quiet>>

\* Ids that must be known to the run's own maps before a page is written.
Mapped(table, refs) == IF table \in {"interaction_requests", "tenants"} THEN {} ELSE refs

ReadPage ==
  /\ phase = "pages" /\ page <= pages
  /\ LET rows == Page(source, Steps[store], page)
         known == \A k \in rows : Mapped(k.table, source[k].refs) \subseteq copied
     IN \/ ~known /\ phase' = "failed" /\ UNCHANGED <<page, batch>>
        \/ rows = {} /\ page' = page + 1 /\ UNCHANGED <<phase, batch>>
        \/ known /\ rows # {} /\ phase' = "rows" /\ batch' = [k \in rows |-> source[k]] /\ UNCHANGED page
  /\ UNCHANGED <<source, target, copied, store, pages, runs, quiet>>

\* A write is refused that refers to what is not there, and so is a page with a
\* job that is in progress in the target.
MayCopy(d, k, row) ==
  /\ MayPut(d, row.refs)
  /\ k.table = "tenants" => ProfileKnown(d, row.value)

PageFails == phase' = "failed" /\ batch' = <<>> /\ UNCHANGED <<target, copied, page>>

\* One transaction.  A job that is there stays as it is.
CopyJobs ==
  /\ phase = "rows" /\ Steps[store] = "interaction_jobs"
  /\ IF Mutable(target, DOMAIN batch) /\ \A k \in DOMAIN batch : MayCopy(target, k, batch[k])
     THEN /\ target' = [k \in DOMAIN target \cup DOMAIN batch |->
                          IF k \in DOMAIN target THEN target[k] ELSE batch[k]]
          /\ copied' = copied \cup DOMAIN batch
          /\ batch' = <<>> /\ page' = page + 1 /\ phase' = "pages"
     ELSE PageFails
  /\ UNCHANGED <<source, store, pages, runs, quiet>>

Copy(d, k, row) ==
  IF k.table = "model_profiles" THEN UpsertProfile(d, k.id, row.value)
  ELSE Put(d, k, row.refs, row.value)

\* The next row of the page.
CopyRow(k) ==
  /\ phase = "rows" /\ Steps[store] # "interaction_jobs"
  /\ k \in DOMAIN batch /\ \A l \in DOMAIN batch : Position(k.id) <= Position(l.id)
  /\ IF MayCopy(target, k, batch[k])
     THEN LET rest == DOMAIN batch \ {k}
          IN /\ target' = Copy(target, k, batch[k]) /\ copied' = copied \cup {k}
             /\ batch' = [l \in rest |-> batch[l]]
             /\ IF rest = {} THEN page' = page + 1 /\ phase' = "pages" ELSE UNCHANGED <<page, phase>>
     ELSE PageFails
  /\ UNCHANGED <<source, store, pages, runs, quiet>>

NextStore ==
  /\ phase = "pages" /\ page > pages
  /\ IF store = Len(Steps) THEN phase' = "done" /\ UNCHANGED store
     ELSE phase' = "count" /\ store' = store + 1
  /\ UNCHANGED <<source, target, copied, page, pages, batch, runs, quiet>>

\* The server was not stopped, or a tenant is removed: a job is admitted or
\* ends, or a mapping goes.
SourceWritten ==
  /\ quiet /\ runs > 0
  /\ \/ \E t \in RowsIn(source, "tenants"), j \in Ids :
          /\ Key("interaction_jobs", j) \notin DOMAIN source
          /\ source' = RequestRow(UpsertJob(source, t.id, j, "queued"), t.id, j)
     \/ \E j \in RowsIn(source, "interaction_jobs") :
          source[j].value # "completed" /\ source' = Patch(source, j, "failed")
     \/ \E k \in RowsIn(source, "discussion_mappings") : source' = Delete(source, {k})
  /\ quiet' = FALSE
  /\ UNCHANGED <<target, copied, store, page, pages, batch, phase, runs>>

MigrationNext ==
  \/ Start \/ Killed \/ Count \/ ReadPage \/ CopyJobs \/ NextStore \/ SourceWritten
  \/ \E k \in DOMAIN batch : CopyRow(k)

MigrationTypeOK ==
  /\ \A k \in DOMAIN target : target[k].refs \subseteq DOMAIN target
  /\ store \in DOMAIN Steps /\ page \in Nat /\ pages \in Nat
  /\ phase \in {"idle", "count", "pages", "rows", "done", "failed"} /\ runs \in 0 .. MigrationRuns

\* If the source stays quiet, a migration that ends well has copied every row
\* as it is, also after it was killed and given again; and it only fails if it
\* finds a job in the target that was in progress when it was copied.
QuietMigrationCopies ==
  quiet =>
    /\ phase = "done" => \A k \in DOMAIN source : k \in DOMAIN target /\ target[k] = source[k]
    /\ phase = "failed" => runs > 1 /\ \E k \in RowsIn(target, "interaction_jobs") : target[k].value = "in_progress"

=============================================================================
