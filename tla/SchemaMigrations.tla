-------------------------- MODULE SchemaMigrations --------------------------
(***************************************************************************)
(* What the storage adapters do to a database of an older version when a   *)
(* process starts.  Migrations are applied in order and recorded; some are *)
(* one transaction with their record, others (all those of Flotiq) are     *)
(* several steps, and a process that dies among them runs the migration    *)
(* again.  Several processes may start on one SQLite file.                 *)
(***************************************************************************)
EXTENDS Naturals, Sequences

CONSTANTS
  Starters,     \* processes that start on the database
  OldTenants, OldJobs, OldMetrics,  \* rows of the old version
  SchemaCrashes \* bound: processes that die

VARIABLES
  adapter,   \* "sqlite" or "flotiq"
  data,      \* the database: [columns, tenants, connections, jobs, metrics, requests]
  recorded,  \* migrations that are recorded as applied
  starter,   \* each process: [step, known, pending]
  crashes,
  repeated   \* migrations that a late process ran on a newer version of their table

schemaVars == <<adapter, data, recorded, starter, crashes, repeated>>

SqliteOrder == <<"s01", "s02", "s03", "s04", "s05", "s06", "s07", "s08", "s09", "s10", "s11", "s12", "s13">>
FlotiqOrder == <<"v002", "v003", "v004", "v005", "v006", "v007">>
Order == IF adapter = "sqlite" THEN SqliteOrder ELSE FlotiqOrder

\* A tenant's credentials are columns of its row, then a part of its JSON
\* configuration, and in the end they belong to a connection.
Tenant0(secret) == [secret |-> secret, columns |-> TRUE, json |-> FALSE, connection |-> "none"]
Down == [step |-> "down", known |-> {}, pending |-> {}]

SchemaInit ==
  /\ adapter \in {"sqlite", "flotiq"}
  /\ \E secrets \in [OldTenants -> {"a", "b", "malformed"}] :
       /\ adapter = "flotiq" => \A t \in OldTenants : secrets[t] = "a"
       /\ data = [columns |-> IF adapter = "sqlite" THEN {"base_url", "project_id", "merge_request_iid", "note_id"}
                              ELSE {"interaction_job"},
                  tenants |-> [t \in OldTenants |-> Tenant0(secrets[t])], connections |-> {},
                  jobs |-> [j \in OldJobs |-> {}], metrics |-> [m \in OldMetrics |-> {}], requests |-> {}]
  /\ recorded = {} /\ starter = [p \in Starters |-> Down] /\ crashes = 0 /\ repeated = {}

\* --- columns, jobs and metrics of the SQLite tables --------------------------
Has(d, column) == column \in d.columns
Add(d, columns) == [d EXCEPT !.columns = @ \cup columns]
Drop(d, columns) == [d EXCEPT !.columns = @ \ columns]
Rename(d, old, new) ==
  IF Has(d, old) /\ ~Has(d, new) THEN [d EXCEPT !.columns = (@ \ {old}) \cup {new}] ELSE d

Baseline(d) == IF d.columns = {} THEN Add(d, {"base_url", "project_id", "merge_request_iid"}) ELSE d

WithJson(d) == [d EXCEPT !.tenants = [t \in DOMAIN d.tenants |-> [@[t] EXCEPT !.json = TRUE]]]
PlatformTenants(d) == IF Has(d, "base_url") THEN WithJson(Add(d, {"platform"})) ELSE d
ReviewEntityIds(d) ==
  Rename(Rename(d, "project_id", "repository_id"), "merge_request_iid", "code_review_id")
TenantScopedReviews(d) == Drop(d, {"repository_id"})
CodeReviewSnapshots(d) == Rename(d, "merge_request_snapshots", "code_review_snapshots")

\* A table that is rebuilt has the columns of that version: newer ones go, with
\* what they held.
DropLegacyColumns(d) ==
  [Drop(d, {"base_url", "platform_connection_id"}) EXCEPT
     !.tenants = [t \in DOMAIN d.tenants |-> [@[t] EXCEPT !.columns = FALSE, !.connection = "none"]]]
GenericNames(d) == Rename(d, "note_id", "comment_id")

\* Mutant of Connections: a connection for every tenant, whatever its secret.
ConnectionsApart(d) ==
  [Add(d, {"platform_connection_id"}) EXCEPT
     !.tenants = [t \in DOMAIN d.tenants |-> [@[t] EXCEPT !.json = FALSE, !.connection = t]],
     !.connections = @ \cup {[id |-> t, secret |-> d.tenants[t].secret, ready |-> d.tenants[t].json] : t \in DOMAIN d.tenants}]

\* Tenants whose configuration holds valid credentials share a connection;
\* any other has one of its own that is to be set up.
Connections(d) ==
  LET valid(t) == d.tenants[t].json /\ d.tenants[t].secret # "malformed"
      id(t) == IF valid(t) THEN d.tenants[t].secret ELSE t
      made == {[id |-> id(t), secret |-> IF d.tenants[t].json THEN d.tenants[t].secret ELSE "none", ready |-> valid(t)] :
                 t \in DOMAIN d.tenants}
  IN [Add(d, {"platform_connection_id"}) EXCEPT
        !.tenants = [t \in DOMAIN d.tenants |-> [@[t] EXCEPT !.json = FALSE, !.connection = id(t)]],
        !.connections = @ \cup made]

ProviderTriggers(d) ==
  [Drop(Add(d, {"trigger_json"}), {"available_at", "batch_kind"}) EXCEPT
     !.jobs = [j \in DOMAIN d.jobs |-> {"trigger"}]]
ProjectMemories(d) == Add(d, {"project_memories"})
ClaimColumns(d) == Add(d, {"reasoning_effort", "claim_token", "snapshot_run_id"})
AvailableAt(d) ==
  [Drop(Add(d, {"available_at"}), {"batch_kind"}) EXCEPT
     !.jobs = [j \in DOMAIN d.jobs |-> @[j] \cup {"available"}]]
SessionMetrics(d) ==
  [Add(d, {"harness_session_key"}) EXCEPT !.metrics = [m \in DOMAIN d.metrics |-> {"session"}]]
InteractionRequests(d) == [Add(d, {"batch_kind"}) EXCEPT !.requests = DOMAIN d.jobs]

\* --- a process -------------------------------------------------------------
Pending(p) == {i \in DOMAIN Order : Order[i] \notin starter[p].known}
Current(p) ==
  IF Pending(p) = {} THEN "none"
  ELSE Order[CHOOSE i \in Pending(p) : \A k \in Pending(p) : i <= k]
To(p, step) == starter' = [starter EXCEPT ![p].step = step, ![p].pending = {}]
Fails(p) == starter' = [starter EXCEPT ![p] = Down]

Launch(p) ==
  /\ starter[p].step = "down" /\ (adapter = "flotiq" => \A q \in Starters : starter[q].step = "down")
  /\ starter' = [starter EXCEPT ![p] = [step |-> "apply", known |-> recorded, pending |-> {}]]
  /\ UNCHANGED <<adapter, data, recorded, crashes, repeated>>

Die(p) ==
  /\ starter[p].step \notin {"down", "ready"} /\ crashes < SchemaCrashes
  /\ crashes' = crashes + 1 /\ Fails(p)
  /\ UNCHANGED <<adapter, data, recorded, repeated>>

Ready(p) ==
  /\ starter[p].step = "apply" /\ Current(p) = "none" /\ To(p, "ready")
  /\ UNCHANGED <<adapter, data, recorded, crashes, repeated>>

\* The record's key is unique: a second one is an error.
Recording(p) ==
  IF Current(p) \in recorded THEN Fails(p) /\ UNCHANGED recorded
  ELSE /\ recorded' = recorded \cup {Current(p)}
       /\ starter' = [starter EXCEPT ![p].step = "apply", ![p].known = @ \cup {Current(p)}, ![p].pending = {}]

\* One transaction with the record, so that both happen or neither.
Transaction(p, id, d) ==
  /\ starter[p].step = "apply" /\ Current(p) = id
  /\ data' = IF id \in recorded THEN data ELSE d
  /\ Recording(p)
  /\ UNCHANGED <<adapter, crashes, repeated>>

\* A step that is committed on its own.
Commit(p, id, from, to, d) ==
  /\ starter[p].step = from /\ Current(p) = id
  /\ data' = d /\ To(p, to)
  /\ UNCHANGED <<adapter, recorded, crashes>>

Record(p) ==
  /\ starter[p].step = "record" /\ Recording(p)
  /\ UNCHANGED <<adapter, data, crashes, repeated>>

\* The columns are read once, before the table is rebuilt.
Look(p, id, found, then, else) ==
  Commit(p, id, "apply", IF Has(data, found) THEN then ELSE else, data) /\ UNCHANGED repeated

\* newer: the columns that show that the process comes late; it does not look.
Rebuild(p, id, from, newer, d) ==
  /\ Commit(p, id, from, "record", d)
  /\ repeated' = IF \E c \in newer : Has(data, c) THEN repeated \cup {id} ELSE repeated

\* A statement names a column that has gone, so that nothing is done.
ColumnGone(p, id, step) ==
  /\ starter[p].step = step /\ Current(p) = id /\ Fails(p)
  /\ UNCHANGED <<adapter, data, recorded, crashes, repeated>>

UpdateTenants(p) ==
  IF Has(data, "base_url") THEN Commit(p, "s06", "update", "rebuild", PlatformTenants(data)) /\ UNCHANGED repeated
  ELSE ColumnGone(p, "s06", "update")
RebuildMetrics(p) ==
  IF Has(data, "harness_session_key") THEN ColumnGone(p, "s12", "rebuild")
  ELSE Commit(p, "s12", "rebuild", "record", SessionMetrics(data)) /\ UNCHANGED repeated

SqliteStep(p) ==
  \/ Transaction(p, "s01", Baseline(data))
  \/ Transaction(p, "s02", PlatformTenants(data))
  \/ Transaction(p, "s03", ReviewEntityIds(data))
  \/ Transaction(p, "s04", TenantScopedReviews(data))
  \/ Transaction(p, "s05", CodeReviewSnapshots(data))
  \/ Look(p, "s06", "base_url", "update", "record") \/ UpdateTenants(p)
  \/ Rebuild(p, "s06", "rebuild", {"platform_connection_id"}, DropLegacyColumns(data))
  \/ Transaction(p, "s07", GenericNames(data))
  \/ Rebuild(p, "s08", "apply", {"platform_connection_id"}, Connections(data))
  \/ Look(p, "s09", "trigger_json", "record", "rebuild")
  \/ Rebuild(p, "s09", "rebuild", {"available_at", "batch_kind"}, ProviderTriggers(data))
  \/ Transaction(p, "s10", ProjectMemories(data))
  \/ Commit(p, "s11", "apply", "look", ClaimColumns(data)) /\ UNCHANGED repeated
  \/ Commit(p, "s11", "look", IF Has(data, "available_at") THEN "record" ELSE "rebuild", data) /\ UNCHANGED repeated
  \/ Rebuild(p, "s11", "rebuild", {"batch_kind"}, AvailableAt(data))
  \/ Look(p, "s12", "harness_session_key", "record", "rebuild") \/ RebuildMetrics(p)
  \/ Transaction(p, "s13", InteractionRequests(data))

\* --- Flotiq: definitions over HTTP, and rows in batches ------------------------
Define(p, id, from, to, column) ==
  Commit(p, id, from, to, Add(data, {column})) /\ UNCHANGED repeated

\* The rows to change are listed once, before the first is changed.
ListRows(p, id, to, rows) ==
  /\ starter[p].step = "list" /\ Current(p) = id
  /\ starter' = [starter EXCEPT ![p].step = to, ![p].pending = rows]
  /\ UNCHANGED <<adapter, data, recorded, crashes, repeated>>
Without(rows, field) == {r \in DOMAIN rows : field \notin rows[r]}

\* changed: the data once a row has been brought up to date.
Backfill(p, id, to, changed) ==
  /\ starter[p].step = "fill" /\ Current(p) = id
  /\ IF starter[p].pending = {} THEN To(p, to) /\ UNCHANGED data
     ELSE \E r \in starter[p].pending :
            data' = changed[r] /\ starter' = [starter EXCEPT ![p].pending = @ \ {r}]
  /\ UNCHANGED <<adapter, recorded, crashes, repeated>>

\* The field becomes required once every row has it.
Require(p, id) == Commit(p, id, "require", "record", data) /\ UNCHANGED repeated

FillTrigger(p) == Backfill(p, "v003", "require", [j \in OldJobs |-> [data EXCEPT !.jobs[j] = @ \cup {"trigger"}]])
FillAvailable(p) == Backfill(p, "v005", "require", [j \in OldJobs |-> [data EXCEPT !.jobs[j] = @ \cup {"available"}]])
FillMetrics(p) == Backfill(p, "v006", "require", [m \in OldMetrics |-> [data EXCEPT !.metrics[m] = {"session"}]])
FillRequests(p) == Backfill(p, "v007", "record", [j \in OldJobs |-> [data EXCEPT !.requests = @ \cup {j}]])

V002(p) == Define(p, "v002", "apply", "record", "v002 definitions")
V003(p) ==
  \/ Define(p, "v003", "apply", "list", "trigger_json")
  \/ ListRows(p, "v003", "fill", Without(data.jobs, "trigger")) \/ FillTrigger(p) \/ Require(p, "v003")
V004(p) == Define(p, "v004", "apply", "record", "project_memories")
V005(p) ==
  \/ Define(p, "v005", "apply", "list", "available_at")
  \/ ListRows(p, "v005", "fill", Without(data.jobs, "available")) \/ FillAvailable(p) \/ Require(p, "v005")
V006(p) ==
  \/ Define(p, "v006", "apply", "list", "harness_session_key")
  \/ ListRows(p, "v006", "fill", Without(data.metrics, "session")) \/ FillMetrics(p) \/ Require(p, "v006")
V007(p) ==
  \/ Define(p, "v007", "apply", "list", "batch_kind")
  \/ ListRows(p, "v007", "fill", DOMAIN data.jobs) \/ FillRequests(p)

FlotiqStep(p) == V002(p) \/ V003(p) \/ V004(p) \/ V005(p) \/ V006(p) \/ V007(p)

SchemaNext ==
  \E p \in Starters :
    \/ Launch(p) \/ Die(p) \/ Ready(p) \/ Record(p)
    \/ adapter = "sqlite" /\ SqliteStep(p)
    \/ adapter = "flotiq" /\ FlotiqStep(p)

SchemaTypeOK ==
  /\ DOMAIN data.jobs = OldJobs /\ DOMAIN data.tenants = OldTenants /\ DOMAIN data.metrics = OldMetrics
  /\ data.requests \subseteq OldJobs /\ recorded \subseteq {Order[i] : i \in DOMAIN Order}

-----------------------------------------------------------------------------
Started == \E p \in Starters : starter[p].step = "ready"

\* However often processes died on the way, and however many started at once,
\* a process that is ready finds every old row brought up to date: a session for
\* each metric, a request and a trigger for each job ...
RowsAreUpToDate ==
  Started => /\ \A j \in OldJobs : "trigger" \in data.jobs[j] /\ j \in data.requests
             /\ \A m \in OldMetrics : data.metrics[m] = {"session"}
\* ... and the times and kinds that jobs are claimed by, which migrations 0009
\* and 0011 take from a newer table when a late process runs them.
JobsAreClaimable ==
  Started => Has(data, "batch_kind") /\ \A j \in OldJobs : "available" \in data.jobs[j]

\* On SQLite each tenant has, from migration 0008 on, a connection with its own credentials,
\* which tenants share only if they had the same ...
Connected(t) ==
  \E c \in data.connections :
    /\ data.tenants[t].connection = c.id /\ c.secret = data.tenants[t].secret
    /\ c.ready = (c.secret # "malformed")
SharedRightly ==
  \A t, u \in OldTenants : data.tenants[t].secret = data.tenants[u].secret /\ data.tenants[t].secret # "malformed"
                             => data.tenants[t].connection = data.tenants[u].connection
TenantsConnected == "s08" \in recorded => SharedRightly /\ \A t \in OldTenants : Connected(t)
\* ... unless a late process ran 0006, which takes the connections away, or 0008,
\* which makes them again from what is left.
OldDataSurvives ==
  /\ RowsAreUpToDate
  /\ repeated \cap {"s09", "s11"} = {} => JobsAreClaimable
  /\ repeated \cap {"s06", "s08"} = {} => TenantsConnected

=============================================================================
