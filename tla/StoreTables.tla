---------------------------- MODULE StoreTables ----------------------------
(***************************************************************************)
(* The tables of the SQLite storage adapter: a database is a function from *)
(* the keys of its rows to the rows.  A row refers to rows that must exist *)
(* (foreign keys are on) and has a value.  Every operator is one call of a *)
(* store, and a call that breaks a constraint is refused and has no        *)
(* effect.                                                                 *)
(***************************************************************************)

Key(table, id) == [table |-> table, id |-> id]
Profile(n) == Key("model_profiles", n)
Connection(c) == Key("platform_connections", c)
Tenant(t) == Key("tenants", t)

RowsIn(db, table) == {k \in DOMAIN db : k.table = table}
Referring(db, key) == {k \in DOMAIN db : key \in db[k].refs}

\* A row is put under its key whether it was there or not.
Put(db, key, refs, value) ==
  [k \in DOMAIN db \cup {key} |-> IF k = key THEN [refs |-> refs, value |-> value] ELSE db[k]]
MayPut(db, refs) == refs \subseteq DOMAIN db
Patch(db, key, value) == [db EXCEPT ![key].value = value]

\* Mutants of MayDelete, Mutable and MayDeleteProfile: the check is left out.
DeletesAlways(db, keys) == TRUE
MutableAlways(db, keys) == TRUE
ProfileDeletesAlways(db, n) == TRUE

\* Requests go with their job; any other row that is referred to must stay.
WithCascade(db, keys) ==
  keys \cup {k \in RowsIn(db, "interaction_requests") : db[k].refs \cap keys # {}}
MayDelete(db, keys) ==
  \A k \in DOMAIN db \ WithCascade(db, keys) : db[k].refs \cap keys = {}
Delete(db, keys) == [k \in DOMAIN db \ WithCascade(db, keys) |-> db[k]]

\* The jobs' store refuses to touch a job that somebody has claimed.
Mutable(db, keys) ==
  \A k \in keys \cap DOMAIN db : db[k].value # "in_progress"

\* One transaction: the new default takes the place of the old one.
UpsertProfile(db, n, default) ==
  LET others == [k \in DOMAIN db |->
        IF default /\ k.table = "model_profiles" THEN [db[k] EXCEPT !.value = FALSE] ELSE db[k]]
  IN Put(others, Profile(n), {}, default)

\* The profile of a tenant is not a foreign key: the calls look it up, in a
\* statement of its own before the one that writes.
Users(db, n) == {k \in RowsIn(db, "tenants") : db[k].value = n}
ProfileKnown(db, n) == n = "none" \/ Profile(n) \in DOMAIN db
MayDeleteProfile(db, n) == Users(db, n) = {}
UpsertTenant(db, t, c, profile) == Put(db, Tenant(t), {Connection(c)}, profile)
UpsertConnection(db, c, status) == Put(db, Connection(c), {}, status)

\* A job that is there already, by its dedupe key, stays as it is.
UpsertJob(db, t, j, value) ==
  IF Key("interaction_jobs", j) \in DOMAIN db THEN db
  ELSE Put(db, Key("interaction_jobs", j), {Tenant(t)}, value)

\* The rows that a job collects, with what each refers to.
JobRefs(t, j) == {Tenant(t), Key("interaction_jobs", j)}
RequestRow(db, t, j) == Put(db, Key("interaction_requests", j), JobRefs(t, j), "row")
SnapshotRow(db, t, j) == Put(db, Key("code_review_snapshots", j), JobRefs(t, j), "row")
RunRow(db, t, j) == Put(db, Key("interaction_runs", j), JobRefs(t, j), "row")
RunRefs(j) == {Key("interaction_runs", j)}
FindingRow(db, j) == Put(db, Key("review_findings", j), RunRefs(j), "row")
MetricsRow(db, j) == Put(db, Key("interaction_run_metrics", j), RunRefs(j), "row")
MappingRefs(t, j) == {Tenant(t)} \cup RunRefs(j)
MappingRow(db, t, j) == Put(db, Key("discussion_mappings", j), MappingRefs(t, j), "row")
MemoryRow(db, t) == Put(db, Key("project_memories", t), {Tenant(t)}, "row")

=============================================================================
