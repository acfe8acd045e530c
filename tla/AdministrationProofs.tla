------------------------ MODULE AdministrationProofs ------------------------
(***************************************************************************)
(* Proofs about Administration, for every number of processes, jobs,       *)
(* commands and server steps.  The inductive invariant has two halves: the *)
(* tables are sound in every state, and a command that nobody disturbed    *)
(* still owes what it promised, of the database as it is now.  So every    *)
(* call of a command must keep the promise unchanged and establish what    *)
(* the next call builds on.  A second invariant follows the references to  *)
(* profiles, which no key keeps: what a removal and an assignment know     *)
(* before they write is true, or the two have crossed.                     *)
(*                                                                         *)
(* Then about StorageMigration, for all sources and sizes of a page: what  *)
(* a run has copied follows from its step, its page and the rest of it.    *)
(***************************************************************************)
EXTENDS Administration, StorageMigration, FiniteSetTheorems, TLAPS

-----------------------------------------------------------------------------
(* The inductive invariant *)

AdminSpec == AdminInit /\ [][AdminNext]_adminVars

RunData == {"review_findings", "interaction_run_metrics", "discussion_mappings"}
JobData == {"interaction_requests", "code_review_snapshots", "interaction_runs"}
TenantData == RunData \cup JobData \cup {"interaction_jobs", "project_memories"}

\* The rows that a row refers to: its key tells.
Needs(k) ==
  IF k.table \in {"model_profiles", "platform_connections"} THEN {}
  ELSE IF k.table = "tenants" THEN {Connection("c")}
  ELSE IF k.table \in {"interaction_jobs", "project_memories"} THEN {T}
  ELSE IF k.table \in JobData THEN JobRefs("t", k.id)
  ELSE IF k.table = "discussion_mappings" THEN MappingRefs("t", k.id)
  ELSE RunRefs(k.id)

IsKey(k) ==
  /\ k = Key(k.table, k.id)
  /\ k.table \in TenantData \cup {"model_profiles", "platform_connections", "tenants"}
  /\ k.table = "model_profiles" => k.id \in {"p", "q"}
  /\ k.table = "platform_connections" => k.id = "c"
  /\ k.table = "tenants" => k.id = "t"
  /\ k.table = "interaction_jobs" => k.id \in AdminJobs

RowStands(d, k) ==
  /\ IsKey(k)
  /\ d[k] = [refs |-> Needs(k), value |-> d[k].value]
  /\ Needs(k) \subseteq DOMAIN d
  /\ k.table = "model_profiles" => d[k].value \in BOOLEAN

\* Every row is what its table says, and no two profiles are the default.
Tables(d) ==
  /\ d = [k \in DOMAIN d |-> d[k]]
  /\ \A k \in DOMAIN d : RowStands(d, k)
  /\ \A k, l \in RowsIn(d, "model_profiles") : d[k].value /\ d[l].value => k = l

ProcessOK(p) ==
  /\ p = [cmd |-> p.cmd, at |-> p.at, read |-> p.read, outcome |-> p.outcome, promise |-> p.promise]
  /\ p.cmd \in Commands \cup {Idle.cmd}
  /\ p.outcome \in {"none", "done", "refused"}
  /\ p.cmd.op = "remove tenant" /\ p.at = "cancel" => \A k \in p.read : k.table = "interaction_jobs"
  /\ p.at = "put clear" => p.read \subseteq {"p", "q"}
  /\ p.cmd.op = "set default" /\ p.at = "put" => p.cmd.name # "none"

\* What a command knows of the database, if nobody has written since it began.
KnowsDefaults(p, d) ==
  /\ p.cmd.op = "add profile" =>
       /\ p.at \in {"find default", "clear", "put clear", "put default"} => Wanted(d, p.cmd)
       /\ p.at \in {"clear", "put clear"} => p.read = DefaultOf(d) \ {p.cmd.name}
       /\ p.at = "put" => ~Wanted(d, p.cmd)
  /\ p.cmd.op = "set default" =>
       /\ p.at \in {"clear", "put clear"} => p.read = DefaultOf(d) \ {p.cmd.name}
       /\ p.at = "get" => DefaultOf(d) \subseteq {p.cmd.name}
       /\ p.at = "put" => p.cmd.name # "none" /\ Profile(p.cmd.name) \in DOMAIN d
  /\ p.cmd.op = "remove profile" =>
       /\ p.at \in {"users", "delete", "count", "drop"} => Profile(p.cmd.name) \in DOMAIN d
       /\ p.at \in {"delete", "count", "drop"} => Users(d, p.cmd.name) = {}

KnowsConnection(p, d) ==
  /\ p.cmd.op = "add tenant" =>
       /\ p.at \in {"find", "check", "assert", "put"} => IsReady(d)
       /\ p.at \in {"check", "assert", "put"} =>
            p.read = {[profile |-> ProfileAfter(d, p.cmd), new |-> T \notin DOMAIN d]}
       /\ p.at \in {"assert", "put"} => ProfileKnown(d, ProfileAfter(d, p.cmd))
  /\ p.cmd.op = "set profile" =>
       /\ p.at \in {"patch", "assert", "put"} => T \in DOMAIN d /\ ProfileKnown(d, p.cmd.arg)
       /\ p.at \in {"assert", "put"} => p.read = {[profile |-> p.cmd.arg, new |-> FALSE]}
  /\ p.cmd.op = "add connection" => (p.at = "put" => Connection("c") \notin DOMAIN d)
  /\ p.cmd.op = "update connection" => (p.at \in {"patch", "put"} => Connection("c") \in DOMAIN d)
  /\ p.cmd.op = "remove connection" =>
       /\ p.at \in {"users", "delete"} => Connection("c") \in DOMAIN d
       /\ p.at = "delete" => Referring(d, Connection("c")) = {}

\* The removal of a tenant clears one table after the other.
Cleared(at) ==
  IF at = "metrics" THEN {"discussion_mappings"}
  ELSE IF at = "findings" THEN {"discussion_mappings", "interaction_run_metrics"}
  ELSE IF at = "snapshots" THEN RunData
  ELSE IF at = "memory" THEN RunData \cup {"code_review_snapshots"}
  ELSE IF at = "runs" THEN RunData \cup {"code_review_snapshots", "project_memories"}
  ELSE IF at = "requests" THEN RunData \cup {"code_review_snapshots", "project_memories", "interaction_runs"}
  ELSE IF at = "delete jobs" THEN RunData \cup JobData \cup {"project_memories"}
  ELSE IF at = "tenant" THEN TenantData
  ELSE {}

Listed(read, table) == {k \in read : k.table = table}

KnowsTenant(p, d) ==
  (p.cmd.op = "remove tenant" /\ p.at # "start") =>
    /\ T \in DOMAIN d
    /\ \A k \in RowsIn(d, "interaction_jobs") : d[k].value # "in_progress"
    /\ p.at = "cancel" => p.read \subseteq RowsIn(d, "interaction_jobs")
    /\ \A table \in Cleared(p.at) : RowsIn(d, table) = {}
    /\ p.at \in {"mappings", "metrics", "findings", "snapshots", "memory", "runs"} =>
         Listed(p.read, "interaction_runs") = RowsIn(d, "interaction_runs")
    /\ p.at \in {"mappings", "metrics", "findings", "snapshots", "memory", "runs", "requests", "delete jobs"} =>
         Listed(p.read, "interaction_jobs") = RowsIn(d, "interaction_jobs")

Knows(p, d) == KnowsDefaults(p, d) /\ KnowsConnection(p, d) /\ KnowsTenant(p, d)

\* A command that is undisturbed still owes what it promised, of the database
\* that it has before it.
OnTrack(p, d) ==
  (p.at # "idle" /\ Undisturbed(p)) =>
    IF p.at = "end" THEN p.promise = [outcome |-> p.outcome, left |-> d]
    ELSE p.promise = Promised(d, p.cmd) /\ Knows(p, d)

AdminInv ==
  /\ Tables(db)
  /\ admin = [a \in Admins |-> admin[a]]
  /\ \A a \in Admins : ProcessOK(admin[a]) /\ OnTrack(admin[a], db)
  /\ served \in 0 .. ServerSteps /\ commands \in 0 .. AdminSteps

-----------------------------------------------------------------------------
(* Writes that keep the tables *)

\* Writing one field of a row leaves the other.
LEMMA NewValue ==
  ASSUME NEW row, NEW refs, NEW v, row = [refs |-> refs, value |-> row.value]
  PROVE  [row EXCEPT !.value = v] = [refs |-> refs, value |-> v]
OBVIOUS

\* Rows that are neither profiles nor tenants may be put as their table says.
LEMMA PutStands ==
  ASSUME NEW d, Tables(d), NEW k, IsKey(k), Needs(k) \subseteq DOMAIN d, NEW v,
         k.table \notin {"model_profiles", "tenants"}
  PROVE  Tables(Put(d, k, Needs(k), v))
<1> DEFINE e == Put(d, k, Needs(k), v)
<1>1. /\ DOMAIN e = DOMAIN d \cup {k} /\ e = [l \in DOMAIN e |-> e[l]]
      /\ e[k] = [refs |-> Needs(k), value |-> v]
      /\ \A l \in DOMAIN d : l # k => e[l] = d[l]
  BY DEF Put
<1> HIDE DEF e
<1>2. ASSUME NEW l \in DOMAIN e
      PROVE  RowStands(e, l)
  <2>1. CASE l = k
    BY <1>1, <2>1 DEF RowStands
  <2>2. CASE l # k
    <3>1. RowStands(d, l) /\ e[l] = d[l]
      BY <1>1, <2>2 DEF Tables
    <3>2. QED
      BY <1>1, <3>1 DEF RowStands
  <2>3. QED
    BY <2>1, <2>2
<1>3. ASSUME NEW l \in RowsIn(e, "model_profiles")
      PROVE  l \in RowsIn(d, "model_profiles") /\ e[l] = d[l]
  BY <1>1 DEF RowsIn
<1>4. QED
  BY <1>1, <1>2, <1>3 DEF Tables, e

\* A patch writes the value of one row.
LEMMA Patched ==
  ASSUME NEW d, Tables(d), NEW k \in DOMAIN d, NEW v
  PROVE  /\ DOMAIN Patch(d, k, v) = DOMAIN d
         /\ Patch(d, k, v) = [l \in DOMAIN d |-> Patch(d, k, v)[l]]
         /\ Patch(d, k, v)[k] = [refs |-> Needs(k), value |-> v]
         /\ \A l \in DOMAIN d : l # k => Patch(d, k, v)[l] = d[l]
<1>1. d[k] = [refs |-> Needs(k), value |-> d[k].value]
  BY DEF Tables, RowStands
<1>2. [d[k] EXCEPT !.value = v] = [refs |-> Needs(k), value |-> v]
  BY <1>1
<1>3. d = [l \in DOMAIN d |-> d[l]]
  BY DEF Tables
<1>4. QED
  BY <1>2, <1>3 DEF Patch

\* So may any row that is there, but a profile, be given a value.
LEMMA PatchStands ==
  ASSUME NEW d, Tables(d), NEW k \in DOMAIN d, NEW v,
         k.table # "model_profiles"
  PROVE  Tables(Patch(d, k, v))
<1> DEFINE e == Patch(d, k, v)
<1>1. /\ DOMAIN e = DOMAIN d /\ e = [l \in DOMAIN e |-> e[l]]
      /\ e[k] = [refs |-> Needs(k), value |-> v]
      /\ \A l \in DOMAIN d : l # k => e[l] = d[l]
  BY Patched
<1> HIDE DEF e
<1>2. ASSUME NEW l \in DOMAIN e
      PROVE  RowStands(e, l)
  <2>1. RowStands(d, l)
    BY <1>1 DEF Tables
  <2>2. CASE l = k
    BY <1>1, <2>1, <2>2 DEF RowStands
  <2>3. CASE l # k
    BY <1>1, <2>1, <2>3 DEF RowStands
  <2>4. QED
    BY <2>2, <2>3
<1>3. ASSUME NEW l \in RowsIn(e, "model_profiles")
      PROVE  l \in RowsIn(d, "model_profiles") /\ e[l] = d[l]
  BY <1>1 DEF RowsIn
<1>4. QED
  BY <1>1, <1>2, <1>3 DEF Tables, e

\* A profile that takes the default takes it from all others.
Upserted(d, n, default, e) ==
  /\ DOMAIN e = DOMAIN d \cup {Profile(n)} /\ e = [l \in DOMAIN e |-> e[l]]
  /\ e[Profile(n)] = [refs |-> {}, value |-> default]
  /\ \A l \in DOMAIN d : l.table # "model_profiles" => e[l] = d[l]
  /\ \A l \in DOMAIN d : l # Profile(n) /\ l.table = "model_profiles" =>
       e[l] = IF default THEN [refs |-> {}, value |-> FALSE] ELSE d[l]

\* What the upsert of a profile leaves.
LEMMA ProfileRows ==
  ASSUME NEW d, Tables(d), NEW n, NEW default \in BOOLEAN
  PROVE  Upserted(d, n, default, UpsertProfile(d, n, default))
<1> SUFFICES ASSUME NEW e, e = UpsertProfile(d, n, default) PROVE Upserted(d, n, default, e)
  OBVIOUS
<1> DEFINE others == [k \in DOMAIN d |->
             IF default /\ k.table = "model_profiles" THEN [d[k] EXCEPT !.value = FALSE] ELSE d[k]]
<1>1. e = Put(others, Profile(n), {}, default)
  BY DEF UpsertProfile
<1>2. DOMAIN others = DOMAIN d
  OBVIOUS
<1>3. \A l \in DOMAIN d : l.table # "model_profiles" => others[l] = d[l]
  OBVIOUS
<1>4. ASSUME NEW l \in DOMAIN d, l.table = "model_profiles"
      PROVE  others[l] = IF default THEN [refs |-> {}, value |-> FALSE] ELSE d[l]
  <2>1. d[l] = [refs |-> {}, value |-> d[l].value]
    BY <1>4 DEF Tables, RowStands, Needs
  <2>2. [d[l] EXCEPT !.value = FALSE] = [refs |-> {}, value |-> FALSE]
    BY <2>1, NewValue
  <2>3. QED
    BY <1>4, <2>2
<1> HIDE DEF others
<1>5. Profile(n).table = "model_profiles"
  BY DEF Profile, Key
<1>6. /\ DOMAIN e = DOMAIN d \cup {Profile(n)} /\ e = [l \in DOMAIN e |-> e[l]]
      /\ e[Profile(n)] = [refs |-> {}, value |-> default]
      /\ \A l \in DOMAIN d : l # Profile(n) => e[l] = others[l]
  BY <1>1, <1>2 DEF Put
<1>7. QED
  BY <1>3, <1>4, <1>5, <1>6 DEF Upserted

\* A profile may always be put: at most it is the only default afterwards.
LEMMA ProfileStands ==
  ASSUME NEW d, Tables(d), NEW n \in {"p", "q"}, NEW default \in BOOLEAN
  PROVE  Tables(UpsertProfile(d, n, default))
<1> SUFFICES ASSUME NEW e, e = UpsertProfile(d, n, default) PROVE Tables(e)
  OBVIOUS
<1>1. /\ DOMAIN e = DOMAIN d \cup {Profile(n)} /\ e = [l \in DOMAIN e |-> e[l]]
      /\ e[Profile(n)] = [refs |-> {}, value |-> default]
      /\ \A l \in DOMAIN d : l.table # "model_profiles" => e[l] = d[l]
      /\ \A l \in DOMAIN d : l # Profile(n) /\ l.table = "model_profiles" =>
           e[l] = IF default THEN [refs |-> {}, value |-> FALSE] ELSE d[l]
  <2>1. Upserted(d, n, default, e)
    BY ProfileRows
  <2>2. QED
    BY <2>1 DEF Upserted
<1>2. Profile(n).table = "model_profiles" /\ IsKey(Profile(n)) /\ Needs(Profile(n)) = {}
  BY DEF Profile, Key, IsKey, Needs
<1>3. ASSUME NEW l \in DOMAIN e
      PROVE  RowStands(e, l)
  <2>1. CASE l = Profile(n)
    <3>1. e[l].value \in BOOLEAN /\ e[l].value = default /\ e[l].refs = {} /\ e[l] = [refs |-> {}, value |-> default]
      BY <1>1, <2>1
    <3>2. l.table # "tenants"
      BY <1>2, <2>1
    <3>3. QED
      BY <1>2, <2>1, <3>1, <3>2 DEF RowStands
  <2>2. CASE l # Profile(n) /\ l.table = "model_profiles"
    <3>1. RowStands(d, l) /\ Needs(l) = {}
      BY <1>1, <2>2 DEF Tables, Needs
    <3>2. CASE default
      <4>1. e[l] = [refs |-> {}, value |-> FALSE]
        BY <1>1, <2>2, <3>1, <3>2
      <4>2. e[l].refs = {} /\ e[l].value = FALSE
        BY <4>1
      <4>3. e[l].value \in BOOLEAN /\ e[l] = [refs |-> {}, value |-> e[l].value]
        BY <4>1, <4>2
      <4>4. QED
        BY <2>2, <3>1, <4>3 DEF RowStands
    <3>3. CASE ~default
      BY <1>1, <2>2, <3>1, <3>3 DEF RowStands
    <3>4. QED
      BY <3>2, <3>3
  <2>3. CASE l.table # "model_profiles"
    <3>1. RowStands(d, l) /\ e[l] = d[l]
      BY <1>1, <1>2, <2>3 DEF Tables
    <3>2. QED
      BY <1>1, <2>3, <3>1 DEF RowStands
  <2>4. QED
    BY <2>1, <2>2, <2>3
<1>4. ASSUME NEW k \in RowsIn(e, "model_profiles"), NEW l \in RowsIn(e, "model_profiles"),
             e[k].value, e[l].value
      PROVE  k = l
  <2>1. CASE default
    <3>1. \A m \in RowsIn(e, "model_profiles") : m # Profile(n) => e[m] = [refs |-> {}, value |-> FALSE]
      BY <1>1, <2>1 DEF RowsIn
    <3>2. \A m \in RowsIn(e, "model_profiles") : m # Profile(n) => ~e[m].value
      BY <3>1
    <3>3. QED
      BY <1>4, <3>2
  <2>2. CASE ~default
    <3>1. ~e[Profile(n)].value
      BY <1>1, <2>2
    <3>2. \A m \in RowsIn(e, "model_profiles") :
            m # Profile(n) => m \in RowsIn(d, "model_profiles") /\ e[m] = d[m]
      BY <1>1, <2>2 DEF RowsIn
    <3>3. k \in RowsIn(d, "model_profiles") /\ l \in RowsIn(d, "model_profiles") /\ d[k].value /\ d[l].value
      BY <1>4, <3>1, <3>2
    <3>4. QED
      BY <3>3 DEF Tables
  <2>3. QED
    BY <2>1, <2>2
<1>5. QED
  BY <1>1, <1>3, <1>4 DEF Tables

\* A tenant may be put on a connection that is there.
LEMMA TenantStands ==
  ASSUME NEW d, Tables(d), Connection("c") \in DOMAIN d, NEW profile
  PROVE  Tables(UpsertTenant(d, "t", "c", profile))
<1> SUFFICES ASSUME NEW e, e = UpsertTenant(d, "t", "c", profile) PROVE Tables(e)
  OBVIOUS
<1>1. /\ T.table = "tenants" /\ IsKey(T) /\ Needs(T) = {Connection("c")}
      /\ T = Tenant("t")
  BY DEF T, Tenant, Key, IsKey, Needs
<1>2. e = Put(d, T, {Connection("c")}, profile)
  BY <1>1 DEF UpsertTenant
<1>3. /\ DOMAIN e = DOMAIN d \cup {T} /\ e = [l \in DOMAIN e |-> e[l]]
      /\ e[T] = [refs |-> {Connection("c")}, value |-> profile]
      /\ \A l \in DOMAIN d : l # T => e[l] = d[l]
  BY <1>2 DEF Put
<1>4. ASSUME NEW l \in DOMAIN e
      PROVE  RowStands(e, l)
  <2>1. CASE l = T
    BY <1>1, <1>3, <2>1 DEF RowStands
  <2>2. CASE l # T
    <3>1. RowStands(d, l) /\ e[l] = d[l]
      BY <1>3, <2>2 DEF Tables
    <3>2. QED
      BY <1>3, <3>1 DEF RowStands
  <2>3. QED
    BY <2>1, <2>2
<1>5. ASSUME NEW l \in RowsIn(e, "model_profiles")
      PROVE  l \in RowsIn(d, "model_profiles") /\ e[l] = d[l]
  BY <1>1, <1>3 DEF RowsIn
<1>6. QED
  BY <1>3, <1>4, <1>5 DEF Tables

\* No row refers to a request, so a deletion that the store accepts leaves no
\* reference to nothing.
LEMMA DeletionStands ==
  ASSUME NEW d, Tables(d), NEW keys, MayDelete(d, keys)
  PROVE  Tables(Delete(d, keys))
<1> DEFINE gone == WithCascade(d, keys)
<1> SUFFICES ASSUME NEW e, e = Delete(d, keys) PROVE Tables(e)
  OBVIOUS
<1>1. /\ DOMAIN e = DOMAIN d \ gone /\ e = [l \in DOMAIN e |-> e[l]]
      /\ \A l \in DOMAIN e : l \in DOMAIN d /\ e[l] = d[l]
  BY DEF Delete
<1>2. \A k \in gone : k \in keys \/ k.table = "interaction_requests"
  BY DEF WithCascade, RowsIn
<1>3. \A k \in DOMAIN d \ gone : d[k].refs \cap keys = {}
  BY DEF MayDelete
<1> HIDE DEF gone
<1>4. ASSUME NEW l \in DOMAIN e
      PROVE  RowStands(e, l)
  <2>1. RowStands(d, l) /\ e[l] = d[l] /\ d[l].refs = Needs(l)
    BY <1>1 DEF Tables, RowStands
  <2>2. \A k \in Needs(l) : k.table # "interaction_requests"
    BY DEF Needs, RunRefs, JobRefs, MappingRefs, Connection, T, Tenant, Key
  <2>3. Needs(l) \subseteq DOMAIN e
    BY <1>1, <1>2, <1>3, <2>1, <2>2 DEF RowStands
  <2>4. QED
    BY <2>1, <2>3 DEF RowStands
<1>5. ASSUME NEW l \in RowsIn(e, "model_profiles")
      PROVE  l \in RowsIn(d, "model_profiles") /\ e[l] = d[l]
  BY <1>1 DEF RowsIn
<1>6. QED
  BY <1>1, <1>4, <1>5 DEF Tables

\* A cancellation changes the values of the jobs and nothing else.
CancelledFrom(d, jobs, e) ==
  /\ DOMAIN e = DOMAIN d
  /\ \A k \in DOMAIN d :
       e[k] = [refs |-> Needs(k), value |-> IF k \in jobs THEN "cancelled" ELSE d[k].value]

LEMMA CancellationStands ==
  ASSUME NEW d, Tables(d), NEW jobs, \A k \in jobs : k.table = "interaction_jobs"
  PROVE  Tables(Cancelled(d, jobs)) /\ CancelledFrom(d, jobs, Cancelled(d, jobs))
<1> SUFFICES ASSUME NEW e, e = Cancelled(d, jobs)
    PROVE Tables(e) /\ CancelledFrom(d, jobs, e)
  OBVIOUS
<1>1. /\ DOMAIN e = DOMAIN d /\ e = [l \in DOMAIN e |-> e[l]]
      /\ \A l \in DOMAIN d : e[l] = IF l \in jobs THEN [d[l] EXCEPT !.value = "cancelled"] ELSE d[l]
  BY DEF Cancelled
<1>2. ASSUME NEW l \in DOMAIN e
      PROVE  /\ RowStands(e, l)
             /\ e[l] = [refs |-> Needs(l), value |-> IF l \in jobs THEN "cancelled" ELSE d[l].value]
  <2>1. RowStands(d, l) /\ d[l] = [refs |-> Needs(l), value |-> d[l].value]
    BY <1>1 DEF Tables, RowStands
  <2>2. CASE l \in jobs
    <3>1. e[l] = [refs |-> Needs(l), value |-> "cancelled"]
      BY <1>1, <2>1, <2>2, NewValue
    <3>2. QED
      BY <1>1, <2>1, <2>2, <3>1 DEF RowStands
  <2>3. CASE l \notin jobs
    <3>1. e[l] = d[l]
      BY <1>1, <2>3
    <3>2. QED
      BY <1>1, <2>1, <2>3, <3>1 DEF RowStands
  <2>4. QED
    BY <2>2, <2>3
<1>3. ASSUME NEW l \in RowsIn(e, "model_profiles")
      PROVE  l \in RowsIn(d, "model_profiles") /\ e[l] = d[l]
  BY <1>1 DEF RowsIn
<1>4. QED
  BY <1>1, <1>2, <1>3 DEF Tables, CancelledFrom

-----------------------------------------------------------------------------
(* Calls of a process *)

\* No claimed job is lost or changed from one database to the other.
Spares(d, e) ==
  \A j \in AdminJobs :
    (Job(j) \in DOMAIN d /\ d[Job(j)].value = "in_progress")
      => Job(j) \in DOMAIN e /\ e[Job(j)] = d[Job(j)]

\* A process after a call, and what a call of one process does to the others.
Went(p, label, rows, outcome) ==
  [cmd |-> p.cmd, at |-> label, read |-> rows, outcome |-> outcome, promise |-> p.promise]

Elsewhere(b) ==
  \/ admin'[b] = admin[b] /\ (db' = db \/ admin[b].at = "idle")
  \/ admin'[b] = [admin[b] EXCEPT !.promise = Idle.promise]

Called(a, p, d) ==
  /\ db' = d
  /\ admin' = [b \in Admins |-> admin'[b]]
  /\ admin'[a] = p
  /\ \A b \in Admins \ {a} : Elsewhere(b)

\* Calls move a process on field by field.
LEMMA GoneTo ==
  ASSUME NEW p, ProcessOK(p), NEW l, NEW r
  PROVE  /\ [p EXCEPT !.at = l] = Went(p, l, p.read, p.outcome)
         /\ [[p EXCEPT !.at = l] EXCEPT !.read = r] = Went(p, l, r, p.outcome)
<1>1. p = [cmd |-> p.cmd, at |-> p.at, read |-> p.read, outcome |-> p.outcome, promise |-> p.promise]
  BY DEF ProcessOK
<1>2. [p EXCEPT !.at = l] = Went(p, l, p.read, p.outcome)
  BY <1>1 DEF Went
<1>3. [Went(p, l, p.read, p.outcome) EXCEPT !.read = r] = Went(p, l, r, p.outcome)
  BY DEF Went
<1>4. QED
  BY <1>2, <1>3

\* Each kind of call moves its process on and leaves the others or disturbs them.
LEMMA CallsGo ==
  ASSUME AdminInv, NEW a \in Admins, NEW label, NEW rows, NEW outcome, NEW d
  PROVE  /\ Reads(a, label, rows) => Called(a, Went(admin[a], label, rows, admin[a].outcome), db)
         /\ Writes(a, label, d) => Called(a, Went(admin[a], label, admin[a].read, admin[a].outcome), d)
         /\ Ends(a, outcome, d) => Called(a, Went(admin[a], "end", {}, outcome), d)
<1>1. ProcessOK(admin[a]) /\ admin = [b \in Admins |-> admin[b]]
  BY DEF AdminInv
<1>2. /\ Goes(a, label) = Went(admin[a], label, admin[a].read, admin[a].outcome)
      /\ [Goes(a, label) EXCEPT !.read = rows] = Went(admin[a], label, rows, admin[a].outcome)
      /\ [Goes(a, "end") EXCEPT !.outcome = outcome, !.read = {}] = Went(admin[a], "end", {}, outcome)
  <2>1. Goes(a, label) = Went(admin[a], label, admin[a].read, admin[a].outcome)
    BY <1>1, GoneTo DEF Goes
  <2>2. [Goes(a, label) EXCEPT !.read = rows] = Went(admin[a], label, rows, admin[a].outcome)
    BY <1>1, GoneTo DEF Goes
  <2>3. [Goes(a, "end") EXCEPT !.outcome = outcome, !.read = {}] = Went(admin[a], "end", {}, outcome)
    <3>1. PICK e : e = Goes(a, "end")
      OBVIOUS
    <3>2. e = Went(admin[a], "end", admin[a].read, admin[a].outcome)
      BY <1>1, <3>1, GoneTo DEF Goes
    <3>3. PICK q : q = [e EXCEPT !.outcome = outcome]
      OBVIOUS
    <3>4. q = Went(admin[a], "end", admin[a].read, outcome)
      BY <3>2, <3>3 DEF Went
    <3>5. [q EXCEPT !.read = {}] = Went(admin[a], "end", {}, outcome)
      BY <3>4 DEF Went
    <3>6. QED
      BY <3>1, <3>3, <3>5
  <2>4. QED
    BY <2>1, <2>2, <2>3
<1>3. ASSUME Reads(a, label, rows)
      PROVE  Called(a, Went(admin[a], label, rows, admin[a].outcome), db)
  BY <1>1, <1>2, <1>3 DEF Reads, Called, Elsewhere
<1>4. ASSUME NEW p, db' = d,
             admin' = [(IF d = db THEN admin ELSE Disturb(a)) EXCEPT ![a] = p]
      PROVE  Called(a, p, d)
  <2>1. CASE d = db
    BY <1>1, <1>4, <2>1 DEF Called, Elsewhere
  <2>2. CASE d # db
    <3>1. /\ Disturb(a) = [b \in Admins |-> Disturb(a)[b]]
          /\ \A b \in Admins \ {a} : Disturb(a)[b] =
               IF admin[b].at # "idle" THEN [admin[b] EXCEPT !.promise = Idle.promise] ELSE admin[b]
      BY DEF Disturb
    <3>2. /\ admin' = [b \in Admins |-> admin'[b]] /\ admin'[a] = p
          /\ \A b \in Admins \ {a} : admin'[b] = Disturb(a)[b]
      BY <1>4, <2>2, <3>1
    <3>3. QED
      BY <1>4, <3>1, <3>2 DEF Called, Elsewhere
  <2>3. QED
    BY <2>1, <2>2
<1>5. ASSUME Writes(a, label, d)
      PROVE  Called(a, Went(admin[a], label, admin[a].read, admin[a].outcome), d)
  BY <1>2, <1>4, <1>5 DEF Writes
<1>6. ASSUME Ends(a, outcome, d)
      PROVE  Called(a, Went(admin[a], "end", {}, outcome), d)
  BY <1>2, <1>4, <1>6 DEF Ends
<1>7. QED
  BY <1>3, <1>5, <1>6

\* A process that was disturbed owes nothing, so the others keep their part.
LEMMA ElsewhereStands ==
  ASSUME AdminInv, NEW b \in Admins, Elsewhere(b)
  PROVE  ProcessOK(admin'[b]) /\ OnTrack(admin'[b], db')
<1>1. ProcessOK(admin[b]) /\ OnTrack(admin[b], db)
  BY DEF AdminInv
<1>2. CASE admin'[b] = admin[b] /\ (db' = db \/ admin[b].at = "idle")
  BY <1>1, <1>2 DEF OnTrack
<1>3. CASE admin'[b] = [admin[b] EXCEPT !.promise = Idle.promise]
  <2>1. /\ admin'[b] = [cmd |-> admin[b].cmd, at |-> admin[b].at, read |-> admin[b].read,
                        outcome |-> admin[b].outcome, promise |-> Idle.promise]
        /\ Idle.promise.outcome = "nothing"
    BY <1>1, <1>3 DEF ProcessOK, Idle
  <2>2. ProcessOK(admin'[b])
    <3>1. /\ admin'[b].cmd = admin[b].cmd /\ admin'[b].at = admin[b].at
          /\ admin'[b].read = admin[b].read /\ admin'[b].outcome = admin[b].outcome
          /\ admin'[b].promise = Idle.promise
      BY <2>1
    <3>2. admin'[b] = [cmd |-> admin'[b].cmd, at |-> admin'[b].at, read |-> admin'[b].read,
                       outcome |-> admin'[b].outcome, promise |-> admin'[b].promise]
      BY <2>1, <3>1
    <3>3. QED
      BY <1>1, <3>1, <3>2 DEF ProcessOK
  <2>3. ~Undisturbed(admin'[b])
    BY <2>1 DEF Undisturbed
  <2>4. QED
    BY <2>2, <2>3 DEF OnTrack
<1>4. QED
  BY <1>2, <1>3 DEF Elsewhere

Stands == AdminInv' /\ Spares(db, db')

\* So a call must keep the tables and the claims, and its own process on track.
LEMMA CallStands ==
  ASSUME AdminInv, NEW a \in Admins, NEW p, NEW d, Called(a, p, d), UNCHANGED <<served, commands>>,
         Tables(d), Spares(db, d), ProcessOK(p), OnTrack(p, d)
  PROVE  Stands
<1>1. \A b \in Admins : ProcessOK(admin'[b]) /\ OnTrack(admin'[b], db')
  BY ElsewhereStands DEF Called
<1>2. db' = d /\ admin' = [b \in Admins |-> admin'[b]]
  BY DEF Called
<1>3. QED
  BY <1>1, <1>2 DEF Stands, AdminInv

Engaged(a) == admin[a].at \notin {"idle", "end"}

\* A call that only reads takes no claimed job away.
LEMMA NothingLost ==
  \A d : Spares(d, d)
BY DEF Spares

\* A process after a call, field by field.
LEMMA WentFields ==
  ASSUME NEW p, NEW l, NEW r, NEW o
  PROVE  /\ Went(p, l, r, o).cmd = p.cmd
         /\ Went(p, l, r, o).at = l
         /\ Went(p, l, r, o).read = r
         /\ Went(p, l, r, o).outcome = o
         /\ Went(p, l, r, o).promise = p.promise
         /\ Undisturbed(Went(p, l, r, o)) <=> Undisturbed(p)
BY DEF Went, Undisturbed

\* The three kinds of calls: a reader has learnt what its next call builds on,
\* a writer owes as much as before, the last one has done what was promised.
LEMMA ReadStands ==
  ASSUME AdminInv, NEW a \in Admins, Engaged(a), NEW label, NEW rows, Reads(a, label, rows),
         UNCHANGED <<served, commands>>, label \notin {"idle", "end"},
         (admin[a].cmd.op = "remove tenant" /\ label = "cancel") => \A k \in rows : k.table = "interaction_jobs",
         label = "put clear" => rows \subseteq {"p", "q"},
         (admin[a].cmd.op = "set default" /\ label = "put") => admin[a].cmd.name # "none",
         Undisturbed(admin[a]) => Knows(Went(admin[a], label, rows, admin[a].outcome), db)
  PROVE  Stands
<1> DEFINE q == Went(admin[a], label, rows, admin[a].outcome)
<1>1. Called(a, q, db)
  BY CallsGo
<1>2. Tables(db) /\ Spares(db, db) /\ ProcessOK(admin[a]) /\ OnTrack(admin[a], db)
  BY NothingLost DEF AdminInv
<1>3. ProcessOK(q)
  BY <1>2 DEF ProcessOK, Went
<1>4. OnTrack(q, db)
  <2>1. /\ q.cmd = admin[a].cmd /\ q.at = label /\ q.outcome = admin[a].outcome
        /\ q.promise = admin[a].promise
    BY DEF Went
  <2>3. Undisturbed(q) <=> Undisturbed(admin[a])
    BY DEF Went, Undisturbed
  <2> HIDE DEF q
  <2>2. QED
    BY <1>2, <2>1, <2>3 DEF OnTrack, Engaged, q
<1>5. QED
  BY <1>1, <1>2, <1>3, <1>4, CallStands

LEMMA WriteStands ==
  ASSUME AdminInv, NEW a \in Admins, Engaged(a), NEW label, NEW d, Writes(a, label, d),
         UNCHANGED <<served, commands>>, label \notin {"idle", "end", "cancel", "put clear", "put"},
         Tables(d), Spares(db, d),
         Undisturbed(admin[a]) =>
           /\ Promised(d, admin[a].cmd) = Promised(db, admin[a].cmd)
           /\ Knows(Went(admin[a], label, admin[a].read, admin[a].outcome), d)
  PROVE  Stands
<1> DEFINE q == Went(admin[a], label, admin[a].read, admin[a].outcome)
<1>1. Called(a, q, d)
  BY CallsGo
<1>2. ProcessOK(admin[a]) /\ OnTrack(admin[a], db)
  BY DEF AdminInv
<1>3. ProcessOK(q)
  BY <1>2 DEF ProcessOK, Went
<1>4. OnTrack(q, d)
  <2>1. /\ q.cmd = admin[a].cmd /\ q.at = label /\ q.outcome = admin[a].outcome
        /\ q.promise = admin[a].promise /\ (Undisturbed(q) <=> Undisturbed(admin[a]))
    BY ONLY WentFields
  <2> HIDE DEF q
  <2>2. QED
    BY <1>2, <2>1 DEF OnTrack, Engaged, q
<1>5. QED
  BY <1>1, <1>3, <1>4, CallStands

LEMMA EndStands ==
  ASSUME AdminInv, NEW a \in Admins, Engaged(a), NEW outcome \in {"done", "refused"}, NEW d,
         Ends(a, outcome, d), UNCHANGED <<served, commands>>, Tables(d), Spares(db, d),
         Undisturbed(admin[a]) => Promised(db, admin[a].cmd) = [outcome |-> outcome, left |-> d]
  PROVE  Stands
<1> DEFINE q == Went(admin[a], "end", {}, outcome)
<1>1. Called(a, q, d)
  BY CallsGo
<1>2. ProcessOK(admin[a]) /\ OnTrack(admin[a], db)
  BY DEF AdminInv
<1>3. ProcessOK(q)
  BY <1>2 DEF ProcessOK, Went
<1>4. OnTrack(q, d)
  <2>1. /\ q.cmd = admin[a].cmd /\ q.at = "end" /\ q.outcome = outcome
        /\ q.promise = admin[a].promise /\ (Undisturbed(q) <=> Undisturbed(admin[a]))
    BY WentFields
  <2> HIDE DEF q
  <2>2. QED
    BY <1>2, <2>1 DEF OnTrack, Engaged, q
<1>5. QED
  BY <1>1, <1>3, <1>4, CallStands

LEMMA RefusalStands ==
  ASSUME AdminInv, NEW a \in Admins, Engaged(a), Refuse(a), UNCHANGED <<served, commands>>,
         Undisturbed(admin[a]) => Promised(db, admin[a].cmd) = Refused(db)
  PROVE  Stands
BY EndStands, NothingLost DEF Refuse, Refused, AdminInv

-----------------------------------------------------------------------------
(* Commands on profiles, tenants and connections *)

\* What each command promises.
LEMMA Promises ==
  ASSUME NEW d, NEW cmd
  PROVE  /\ cmd.op = "add profile" =>
              Promised(d, cmd) = Done(UpsertProfile(d, cmd.name, Wanted(d, cmd)))
         /\ cmd.op = "remove profile" =>
              Promised(d, cmd) = IF Profile(cmd.name) \notin DOMAIN d \/ Users(d, cmd.name) # {}
                                 THEN Refused(d) ELSE Done(Delete(d, {Profile(cmd.name)}))
         /\ cmd.op = "set default" =>
              Promised(d, cmd) = IF cmd.name = "none" THEN Done(NoDefault(d))
                                 ELSE IF Profile(cmd.name) \in DOMAIN d
                                 THEN Done(UpsertProfile(d, cmd.name, TRUE)) ELSE Refused(NoDefault(d))
         /\ cmd.op = "add tenant" =>
              Promised(d, cmd) = IF IsReady(d) /\ ProfileKnown(d, ProfileAfter(d, cmd))
                                 THEN Done(UpsertTenant(d, "t", "c", ProfileAfter(d, cmd))) ELSE Refused(d)
         /\ cmd.op = "set profile" =>
              Promised(d, cmd) = IF T \in DOMAIN d /\ ProfileKnown(d, cmd.arg)
                                 THEN Done(UpsertTenant(d, "t", "c", cmd.arg)) ELSE Refused(d)
         /\ cmd.op = "remove tenant" =>
              Promised(d, cmd) =
                IF T \in DOMAIN d /\ \A j \in AdminJobs : Job(j) \in DOMAIN d => d[Job(j)].value # "in_progress"
                THEN Done([k \in DOMAIN d \ Owned(d, T) |-> d[k]]) ELSE Refused(d)
         /\ cmd.op = "add connection" =>
              Promised(d, cmd) = IF Connection(cmd.name) \in DOMAIN d THEN Refused(d)
                                 ELSE Done(UpsertConnection(d, "c", cmd.arg))
         /\ cmd.op = "update connection" =>
              Promised(d, cmd) = IF Connection(cmd.name) \in DOMAIN d
                                 THEN Done(Patch(d, Connection("c"), cmd.arg)) ELSE Refused(d)
         /\ cmd.op = "remove connection" =>
              Promised(d, cmd) = IF Connection(cmd.name) \in DOMAIN d /\ Referring(d, Connection("c")) = {}
                                 THEN Done(Delete(d, {Connection("c")})) ELSE Refused(d)
<1>1. cmd.op = "add profile" =>
           Promised(d, cmd) = Done(UpsertProfile(d, cmd.name, Wanted(d, cmd)))
  BY DEF Promised
<1>2. cmd.op = "remove profile" =>
           Promised(d, cmd) = IF Profile(cmd.name) \notin DOMAIN d \/ Users(d, cmd.name) # {}
                              THEN Refused(d) ELSE Done(Delete(d, {Profile(cmd.name)}))
  BY DEF Promised
<1>3. cmd.op = "set default" =>
           Promised(d, cmd) = IF cmd.name = "none" THEN Done(NoDefault(d))
                              ELSE IF Profile(cmd.name) \in DOMAIN d
                              THEN Done(UpsertProfile(d, cmd.name, TRUE)) ELSE Refused(NoDefault(d))
  BY DEF Promised
<1>4. cmd.op = "add tenant" =>
           Promised(d, cmd) = IF IsReady(d) /\ ProfileKnown(d, ProfileAfter(d, cmd))
                              THEN Done(UpsertTenant(d, "t", "c", ProfileAfter(d, cmd))) ELSE Refused(d)
  BY DEF Promised
<1>5. cmd.op = "set profile" =>
           Promised(d, cmd) = IF T \in DOMAIN d /\ ProfileKnown(d, cmd.arg)
                              THEN Done(UpsertTenant(d, "t", "c", cmd.arg)) ELSE Refused(d)
  BY DEF Promised
<1>6. cmd.op = "remove tenant" =>
           Promised(d, cmd) =
             IF T \in DOMAIN d /\ \A j \in AdminJobs : Job(j) \in DOMAIN d => d[Job(j)].value # "in_progress"
             THEN Done([k \in DOMAIN d \ Owned(d, T) |-> d[k]]) ELSE Refused(d)
  BY DEF Promised
<1>7. cmd.op = "add connection" =>
           Promised(d, cmd) = IF Connection(cmd.name) \in DOMAIN d THEN Refused(d)
                              ELSE Done(UpsertConnection(d, "c", cmd.arg))
  BY DEF Promised
<1>8. cmd.op = "update connection" =>
           Promised(d, cmd) = IF Connection(cmd.name) \in DOMAIN d
                              THEN Done(Patch(d, Connection("c"), cmd.arg)) ELSE Refused(d)
  BY DEF Promised
<1>9. cmd.op = "remove connection" =>
           Promised(d, cmd) = IF Connection(cmd.name) \in DOMAIN d /\ Referring(d, Connection("c")) = {}
                              THEN Done(Delete(d, {Connection("c")})) ELSE Refused(d)
  BY DEF Promised
<1>10. QED
  BY <1>1, <1>2, <1>3, <1>4, <1>5, <1>6, <1>7, <1>8, <1>9

\* What the arguments of a command may be.
LEMMA CommandFields ==
  ASSUME NEW cmd \in Commands
  PROVE  /\ cmd.op = "add profile" => cmd.name \in {"p", "q"} /\ cmd.arg \in {"default", "keep"}
         /\ cmd.op = "remove profile" => cmd.name \in {"p", "q"}
         /\ cmd.op = "set default" => cmd.name \in {"p", "q", "none"} /\ cmd.arg = ""
         /\ cmd.op \in {"add connection", "update connection", "remove connection"} => cmd.name = "c"
         /\ cmd.op = "remove tenant" => cmd.name = "t"
         /\ cmd.op # "none"
<1>1. CASE cmd \in ProfileCommands
  BY <1>1 DEF ProfileCommands
<1>2. CASE cmd \in ConnectionCommands
  BY <1>2 DEF ConnectionCommands
<1>3. CASE cmd \in TenantCommands
  BY <1>3 DEF TenantCommands
<1>4. QED
  BY <1>1, <1>2, <1>3 DEF Commands

\* What a call may build on.
LEMMA AtCall ==
  ASSUME AdminInv, NEW a \in Admins, NEW op, NEW label, At(a, op, label),
         op # "none", label \notin {"idle", "end"}
  PROVE  /\ Engaged(a) /\ admin[a].cmd \in Commands
         /\ ProcessOK(admin[a]) /\ Tables(db)
         /\ Undisturbed(admin[a]) => Knows(admin[a], db)
<1>1. ProcessOK(admin[a]) /\ OnTrack(admin[a], db) /\ Tables(db)
  BY DEF AdminInv
<1>2. admin[a].cmd.op = op /\ admin[a].at = label
  BY DEF At
<1>3. Idle.cmd.op = "none"
  BY DEF Idle, NoCommand
<1>4. QED
  BY <1>1, <1>2, <1>3 DEF ProcessOK, OnTrack, Engaged

\* At most one profile has the default.
LEMMA Defaults ==
  ASSUME NEW d, Tables(d)
  PROVE  /\ \A n : n \in DefaultOf(d) <=> (Profile(n) \in DOMAIN d /\ d[Profile(n)].value)
         /\ \A n, m \in DefaultOf(d) : n = m
         /\ DefaultOf(d) \subseteq {"p", "q"}
<1>1. \A k \in RowsIn(d, "model_profiles") : k = Profile(k.id) /\ k.id \in {"p", "q"}
  BY DEF Tables, RowStands, IsKey, RowsIn, Profile
<1>2. \A n : Profile(n).id = n /\ Profile(n).table = "model_profiles"
  BY DEF Profile, Key
<1>3. \A n : n \in DefaultOf(d) <=> (Profile(n) \in DOMAIN d /\ d[Profile(n)].value)
  BY <1>1, <1>2 DEF DefaultOf, RowsIn
<1>4. \A n, m \in DefaultOf(d) : Profile(n) = Profile(m)
  BY <1>2, <1>3 DEF Tables, RowsIn
<1>5. QED
  BY <1>1, <1>2, <1>3, <1>4 DEF RowsIn

\* Profiles are told apart by their names, and from other rows by their table.
LEMMA ProfileKeys ==
  /\ \A n, m : Profile(n) = Profile(m) => n = m
  /\ \A n : /\ Profile(n).table = "model_profiles" /\ Profile(n).id = n /\ Profile(n) # T
            /\ \A c : Profile(n) # Connection(c)
            /\ \A j : Profile(n) # Job(j)
BY DEF Profile, Key, T, Tenant, Connection, Job

\* To clear one default and then set another is to set the other.
LEMMA ClearedFirst ==
  ASSUME NEW d, Tables(d), NEW n, Profile(n) \in DOMAIN d, NEW m, m # n
  PROVE  LET e == UpsertProfile(d, n, FALSE)
         IN  UpsertProfile(e, m, TRUE) = UpsertProfile(d, m, TRUE)
<1> SUFFICES ASSUME NEW e, e = UpsertProfile(d, n, FALSE),
                    NEW f, f = UpsertProfile(e, m, TRUE),
                    NEW g, g = UpsertProfile(d, m, TRUE)
             PROVE  f = g
  OBVIOUS
<1>1. n \in {"p", "q"} /\ Tables(e)
  <2>1. n \in {"p", "q"}
    BY ProfileKeys DEF Tables, RowStands, IsKey
  <2>2. QED
    BY <2>1, ProfileStands
<1>2. Upserted(d, n, FALSE, e) /\ Upserted(e, m, TRUE, f) /\ Upserted(d, m, TRUE, g)
  BY <1>1, ProfileRows
<1>3. DOMAIN e = DOMAIN d /\ DOMAIN f = DOMAIN g /\ DOMAIN g = DOMAIN d \cup {Profile(m)}
      /\ f = [k \in DOMAIN f |-> f[k]] /\ g = [k \in DOMAIN g |-> g[k]]
  BY <1>2 DEF Upserted
<1>4. ASSUME NEW k \in DOMAIN g
      PROVE  f[k] = g[k]
  <2>1. CASE k = Profile(m)
    BY <1>2, <2>1 DEF Upserted
  <2>2. CASE k # Profile(m) /\ k.table = "model_profiles"
    BY <1>2, <1>3, <2>2 DEF Upserted
  <2>3. CASE k # Profile(m) /\ k.table # "model_profiles"
    BY <1>2, <1>3, <2>3 DEF Upserted
  <2>4. QED
    BY <2>1, <2>2, <2>3
<1>5. QED
  BY <1>3, <1>4

\* Clearing all defaults changes the values of profiles only.
LEMMA NoDefaultRows ==
  ASSUME NEW d, Tables(d)
  PROVE  /\ DOMAIN NoDefault(d) = DOMAIN d
         /\ NoDefault(d) = [k \in DOMAIN d |-> NoDefault(d)[k]]
         /\ \A k \in DOMAIN d : NoDefault(d)[k] =
              IF k.table = "model_profiles" THEN [refs |-> {}, value |-> FALSE] ELSE d[k]
<1>1. ASSUME NEW k \in DOMAIN d, k.table = "model_profiles"
      PROVE  [d[k] EXCEPT !.value = FALSE] = [refs |-> {}, value |-> FALSE]
  <2>1. d[k] = [refs |-> {}, value |-> d[k].value]
    BY <1>1 DEF Tables, RowStands, Needs
  <2>2. QED
    BY <2>1, NewValue
<1>2. QED
  BY <1>1 DEF NoDefault

\* To clear the one default is to clear them all.
LEMMA NoDefaultLeft ==
  ASSUME NEW d, Tables(d)
  PROVE  /\ DefaultOf(d) = {} => NoDefault(d) = d
         /\ \A n : Profile(n) \in DOMAIN d => NoDefault(UpsertProfile(d, n, FALSE)) = NoDefault(d)
<1>1. ASSUME DefaultOf(d) = {} PROVE NoDefault(d) = d
  <2>1. ASSUME NEW k \in DOMAIN d, k.table = "model_profiles"
        PROVE  d[k] = [refs |-> {}, value |-> FALSE]
    <3>1. d[k] = [refs |-> {}, value |-> d[k].value] /\ d[k].value \in BOOLEAN
          /\ k = Profile(k.id)
      BY <2>1 DEF Tables, RowStands, Needs, IsKey, Profile
    <3>2. ~d[k].value
      BY <1>1, <3>1, Defaults
    <3>3. d[k].value = FALSE
      BY <3>1, <3>2
    <3>4. QED
      BY <3>1, <3>3
  <2>2. \A k \in DOMAIN d : NoDefault(d)[k] = d[k]
    BY <2>1, NoDefaultRows
  <2>3. QED
    BY <2>2, NoDefaultRows DEF Tables
<1>2. ASSUME NEW n, Profile(n) \in DOMAIN d, NEW e, e = UpsertProfile(d, n, FALSE)
      PROVE  NoDefault(e) = NoDefault(d)
  <2>1. n \in {"p", "q"} /\ Tables(e)
    <3>1. n \in {"p", "q"}
      BY <1>2, ProfileKeys DEF Tables, RowStands, IsKey
    <3>2. QED
      BY <1>2, <3>1, ProfileStands
  <2>2. Upserted(d, n, FALSE, e)
    BY <1>2, ProfileRows
  <2>3. DOMAIN e = DOMAIN d /\ \A k \in DOMAIN d : k.table # "model_profiles" => e[k] = d[k]
    BY <1>2, <2>2 DEF Upserted
  <2>4. \A k \in DOMAIN d : NoDefault(e)[k] = NoDefault(d)[k]
    BY <2>1, <2>3, NoDefaultRows
  <2>5. QED
    BY <2>1, <2>3, <2>4, NoDefaultRows
<1>3. QED
  BY <1>1, <1>2

\* Profiles have one of the names that the commands know.
LEMMA ProfileNamed ==
  ASSUME NEW d, Tables(d), NEW n, Profile(n) \in DOMAIN d
  PROVE  n \in {"p", "q"}
BY ProfileKeys DEF Tables, RowStands, IsKey

\* A profile that loses the default: no other gains it, and jobs are as before.
LEMMA ClearedDefault ==
  ASSUME NEW d, Tables(d), NEW n \in DefaultOf(d)
  PROVE  LET e == UpsertProfile(d, n, FALSE)
         IN  /\ Tables(e) /\ DOMAIN e = DOMAIN d /\ DefaultOf(e) = {}
             /\ n \in {"p", "q"} /\ Profile(n) \in DOMAIN d
             /\ \A k \in DOMAIN d : k # Profile(n) => e[k].value = d[k].value
<1> SUFFICES ASSUME NEW e, e = UpsertProfile(d, n, FALSE)
    PROVE  /\ Tables(e) /\ DOMAIN e = DOMAIN d /\ DefaultOf(e) = {}
           /\ n \in {"p", "q"} /\ Profile(n) \in DOMAIN d
           /\ \A k \in DOMAIN d : k # Profile(n) => e[k].value = d[k].value
  OBVIOUS
<1>1. n \in {"p", "q"} /\ Profile(n) \in DOMAIN d /\ \A m \in DefaultOf(d) : m = n
  BY Defaults
<1>2. Tables(e) /\ Upserted(d, n, FALSE, e)
  BY <1>1, ProfileStands, ProfileRows
<1>3. /\ DOMAIN e = DOMAIN d /\ e[Profile(n)] = [refs |-> {}, value |-> FALSE]
      /\ \A k \in DOMAIN d : k # Profile(n) => e[k] = d[k]
  BY <1>1, <1>2 DEF Upserted
<1>4. \A m : m \notin DefaultOf(e)
  <2>1. ASSUME NEW m \in DefaultOf(e) PROVE FALSE
    <3>1. Profile(m) \in DOMAIN e /\ e[Profile(m)].value
      BY <1>2, <2>1, Defaults
    <3>2. m # n
      <4>1. e[Profile(n)] = [refs |-> {}, value |-> FALSE]
        BY <1>3
      <4>2. ~e[Profile(n)].value
        BY ONLY <4>1
      <4>3. QED
        BY <3>1, <4>2
    <3>3. Profile(m) \in DOMAIN d /\ d[Profile(m)].value
      BY <1>3, <3>1, <3>2, ProfileKeys
    <3>4. QED
      BY <1>1, <3>2, <3>3, Defaults
  <2>2. QED
    BY <2>1
<1>5. QED
  BY <1>1, <1>2, <1>3, <1>4

\* No write of a profile touches a job.
LEMMA ProfilesSpare ==
  ASSUME NEW d, Tables(d), NEW n, NEW default \in BOOLEAN
  PROVE  Spares(d, UpsertProfile(d, n, default))
<1>1. Upserted(d, n, default, UpsertProfile(d, n, default))
  BY ProfileRows
<1>2. \A j : Job(j).table = "interaction_jobs"
  BY DEF Job, Key
<1>3. QED
  BY <1>1, <1>2 DEF Spares, Upserted

\* The old default is cleared in a call of its own: it reads the row, and what
\* it writes leaves the promise as it was.
LEMMA ClearsDefault ==
  ASSUME AdminInv, NEW a \in Admins, NEW op, NEW next, Clear(a, op, next), UNCHANGED <<served, commands>>,
         (op = "add profile" /\ next = "put default") \/ (op = "set default" /\ next = "get")
  PROVE  Stands
<1> DEFINE cmd == admin[a].cmd
<1>1. /\ cmd.op = op /\ cmd \in Commands /\ Engaged(a) /\ Tables(db) /\ ProcessOK(admin[a])
      /\ Undisturbed(admin[a]) => Knows(admin[a], db)
      /\ admin[a].at \in {"clear", "put clear"}
  <2>1. PICK label \in {"clear", "put clear"} : At(a, op, label)
    BY DEF Clear
  <2>2. label \notin {"idle", "end"} /\ op # "none"
    OBVIOUS
  <2>3. /\ Engaged(a) /\ admin[a].cmd \in Commands /\ ProcessOK(admin[a]) /\ Tables(db)
        /\ Undisturbed(admin[a]) => Knows(admin[a], db)
    BY <2>1, <2>2, AtCall
  <2>4. admin[a].cmd.op = op /\ admin[a].at = label
    BY <2>1 DEF At
  <2>5. QED
    BY <2>3, <2>4
<1>2. Undisturbed(admin[a]) =>
        /\ admin[a].read = DefaultOf(db) \ {cmd.name}
        /\ op = "add profile" => Wanted(db, cmd)
  BY <1>1 DEF Knows, KnowsDefaults
<1> HIDE DEF cmd
<1>3. ASSUME At(a, op, "clear"), NEW n \in admin[a].read,
             IF Profile(n) \in DOMAIN db THEN Reads(a, "put clear", {n}) ELSE Refuse(a)
      PROVE  Stands
  <2>1. CASE Profile(n) \in DOMAIN db
    <3>1. PICK rows : rows = {n}
      OBVIOUS
    <3>2. Reads(a, "put clear", rows)
      BY <1>3, <2>1, <3>1
    <3>3. ASSUME Undisturbed(admin[a])
          PROVE  Knows(Went(admin[a], "put clear", rows, admin[a].outcome), db)
      <4>1. /\ admin[a].read = DefaultOf(db) \ {cmd.name} /\ n \in DefaultOf(db)
            /\ \A m \in DefaultOf(db) : m = n
        BY <1>1, <1>2, <1>3, <3>3, Defaults
      <4>2. rows = DefaultOf(db) \ {cmd.name}
        BY <1>3, <3>1, <4>1
      <4>3. QED
        BY <1>1, <1>2, <3>3, <4>2 DEF Knows, KnowsDefaults, KnowsConnection, KnowsTenant, Went, cmd
    <3>4. rows \subseteq {"p", "q"}
      BY <1>1, <2>1, <3>1, ProfileNamed
    <3>5. QED
      BY <1>1, <3>2, <3>3, <3>4, ReadStands DEF cmd
  <2>2. CASE Profile(n) \notin DOMAIN db
    <3>1. Refuse(a)
      BY <1>3, <2>2
    <3>2. ~Undisturbed(admin[a])
      BY <1>1, <1>2, <1>3, <2>2, Defaults
    <3>3. QED
      BY <1>1, <3>1, <3>2, RefusalStands
  <2>3. QED
    BY <2>1, <2>2
<1>4. ASSUME At(a, op, "put clear"), NEW n \in admin[a].read, Writes(a, next, UpsertProfile(db, n, FALSE))
      PROVE  Stands
  <2>1. PICK d : d = UpsertProfile(db, n, FALSE)
    OBVIOUS
  <2>2. Writes(a, next, d)
    BY <1>4, <2>1
  <2>3. n \in {"p", "q"} /\ Tables(d) /\ Spares(db, d)
    <3>1. n \in {"p", "q"}
      BY <1>1, <1>4 DEF ProcessOK, At
    <3>2. QED
      BY <1>1, <2>1, <3>1, ProfileStands, ProfilesSpare
  <2>4. ASSUME Undisturbed(admin[a])
        PROVE  /\ Promised(d, cmd) = Promised(db, cmd)
               /\ Knows(Went(admin[a], next, admin[a].read, admin[a].outcome), d)
    <3>1. n \in DefaultOf(db) /\ n # cmd.name /\ Profile(n) \in DOMAIN db
      BY <1>1, <1>2, <1>4, <2>4, Defaults
    <3>2. /\ DOMAIN d = DOMAIN db /\ DefaultOf(d) = {}
          /\ \A k \in DOMAIN db : k # Profile(n) => d[k].value = db[k].value
      <4>1. n \in DefaultOf(db) /\ Tables(db)
        BY <1>1, <3>1
      <4>2. QED
        BY ONLY <2>1, <4>1, ClearedDefault
    <3>3. UpsertProfile(d, cmd.name, TRUE) = UpsertProfile(db, cmd.name, TRUE)
      BY <1>1, <2>1, <3>1, ClearedFirst
    <3>4. CASE op = "add profile"
      <4>1. Wanted(d, cmd) /\ Wanted(db, cmd)
        BY <1>2, <2>4, <3>1, <3>2, <3>4, ProfileKeys DEF Wanted
      <4>2. Wanted(d, cmd) = TRUE /\ Wanted(db, cmd) = TRUE
        BY <4>1 DEF Wanted
      <4>3. /\ Promised(d, cmd) = Done(UpsertProfile(d, cmd.name, TRUE))
            /\ Promised(db, cmd) = Done(UpsertProfile(db, cmd.name, TRUE))
        BY <1>1, <3>4, <4>2, Promises
      <4>4. Knows(Went(admin[a], next, admin[a].read, admin[a].outcome), d)
        BY <1>1, <3>4, <4>1 DEF Knows, KnowsDefaults, KnowsConnection, KnowsTenant, Went, cmd
      <4>5. QED
        BY <3>3, <4>3, <4>4
    <3>5. CASE op = "set default"
      <4>1. NoDefault(d) = NoDefault(db)
        BY <1>1, <2>1, <3>1, NoDefaultLeft
      <4>2. \A e : Promised(e, cmd) =
              IF cmd.name = "none" THEN Done(NoDefault(e))
              ELSE IF Profile(cmd.name) \in DOMAIN e
              THEN Done(UpsertProfile(e, cmd.name, TRUE)) ELSE Refused(NoDefault(e))
        BY <1>1, <3>5, Promises
      <4>3. Promised(d, cmd) = Promised(db, cmd)
        BY <3>2, <3>3, <4>1, <4>2
      <4>4. Knows(Went(admin[a], next, admin[a].read, admin[a].outcome), d)
        BY <1>1, <3>2, <3>5 DEF Knows, KnowsDefaults, KnowsConnection, KnowsTenant, Went, cmd
      <4>5. QED
        BY <4>3, <4>4
    <3>6. QED
      BY <3>4, <3>5
  <2>5. QED
    BY <1>1, <2>2, <2>3, <2>4, WriteStands DEF cmd
<1>5. QED
  BY <1>3, <1>4 DEF Clear

\* Adding a profile: the old default is cleared in a call of its own.
LEMMA AddsProfile ==
  ASSUME AdminInv, NEW a \in Admins, AddProfile(a), UNCHANGED <<served, commands>>
  PROVE  Stands
<1> DEFINE cmd == admin[a].cmd
<1>1. /\ cmd.op = "add profile" /\ cmd \in Commands /\ Engaged(a) /\ Tables(db) /\ ProcessOK(admin[a])
      /\ Undisturbed(admin[a]) => Knows(admin[a], db)
      /\ admin[a].at \in {"start", "find default", "clear", "put clear", "put", "put default"}
  <2>1. PICK label \in {"start", "find default", "clear", "put clear", "put", "put default"} :
          At(a, "add profile", label)
    BY DEF AddProfile, Clear
  <2>2. label \notin {"idle", "end"}
    OBVIOUS
  <2>3. QED
    <3>1. /\ Engaged(a) /\ admin[a].cmd \in Commands /\ ProcessOK(admin[a]) /\ Tables(db)
          /\ Undisturbed(admin[a]) => Knows(admin[a], db)
      BY <2>1, <2>2, AtCall
    <3>2. admin[a].cmd.op = "add profile" /\ admin[a].at = label
      BY <2>1 DEF At
    <3>3. QED
      BY <3>1, <3>2
<1>2. cmd.name \in {"p", "q"} /\ Promised(db, cmd) = Done(UpsertProfile(db, cmd.name, Wanted(db, cmd)))
  BY <1>1, CommandFields, Promises
<1>3. Name(a) = cmd.name
  BY DEF Name
<1> HIDE DEF cmd
<1>4. CASE At(a, "add profile", "start")
  <2>1. CASE Wanted(db, cmd)
    <3>0. PICK rows : rows = {"default"}
      OBVIOUS
    <3>1. Reads(a, "find default", rows)
      BY <1>4, <2>1, <3>0 DEF AddProfile, Clear, At, cmd
    <3>2. Knows(Went(admin[a], "find default", rows, admin[a].outcome), db)
      BY <1>1, <2>1 DEF Knows, KnowsDefaults, KnowsConnection, KnowsTenant, Went, cmd
    <3>3. QED
      BY <1>1, <3>1, <3>2, ReadStands DEF cmd
  <2>2. CASE ~Wanted(db, cmd)
    <3>1. Reads(a, "put", {})
      BY <1>4, <2>2 DEF AddProfile, Clear, At, cmd
    <3>2. Knows(Went(admin[a], "put", {}, admin[a].outcome), db)
      BY <1>1, <2>2 DEF Knows, KnowsDefaults, KnowsConnection, KnowsTenant, Went, cmd
    <3>3. QED
      BY <1>1, <3>1, <3>2, ReadStands DEF cmd
  <2>3. QED
    BY <2>1, <2>2
<1>5. CASE At(a, "add profile", "find default")
  <2>1. Undisturbed(admin[a]) => Wanted(db, cmd)
    BY <1>1, <1>5 DEF Knows, KnowsDefaults, At, cmd
  <2>2. CASE OldDefaults(a) = {}
    <3>1. Reads(a, "put default", {})
      BY <1>5, <2>2 DEF AddProfile, Clear, At
    <3>2. Undisturbed(admin[a]) => Knows(Went(admin[a], "put default", {}, admin[a].outcome), db)
      BY <1>1, <2>1 DEF Knows, KnowsDefaults, KnowsConnection, KnowsTenant, Went, cmd
    <3>3. QED
      BY <1>1, <3>1, <3>2, ReadStands DEF cmd
  <2>3. CASE OldDefaults(a) # {}
    <3>1. Reads(a, "clear", OldDefaults(a))
      BY <1>5, <2>3 DEF AddProfile, Clear, At
    <3>2. Undisturbed(admin[a]) => Knows(Went(admin[a], "clear", OldDefaults(a), admin[a].outcome), db)
      BY <1>1, <1>3, <2>1 DEF Knows, KnowsDefaults, KnowsConnection, KnowsTenant, Went, OldDefaults, cmd
    <3>3. QED
      BY <1>1, <3>1, <3>2, ReadStands DEF cmd
  <2>4. QED
    BY <2>2, <2>3
<1>6. CASE Clear(a, "add profile", "put default")
  BY <1>6, ClearsDefault
<1>7. CASE At(a, "add profile", "put")
  <2>1. Ends(a, "done", UpsertProfile(db, cmd.name, FALSE))
    BY <1>3, <1>7 DEF AddProfile, Clear, At
  <2>2. ASSUME Undisturbed(admin[a])
        PROVE  Promised(db, cmd) = [outcome |-> "done", left |-> UpsertProfile(db, cmd.name, FALSE)]
    <3>1. ~Wanted(db, cmd)
      BY <1>1, <1>7, <2>2 DEF Knows, KnowsDefaults, At, cmd
    <3>2. Wanted(db, cmd) = FALSE
      BY <3>1 DEF Wanted
    <3>3. QED
      BY <1>2, <3>2 DEF Done
  <2>3. Tables(UpsertProfile(db, cmd.name, FALSE)) /\ Spares(db, UpsertProfile(db, cmd.name, FALSE))
    BY <1>1, <1>2, ProfileStands, ProfilesSpare
  <2>4. QED
    BY <1>1, <2>1, <2>2, <2>3, EndStands DEF cmd
<1>8. CASE At(a, "add profile", "put default")
  <2>1. Ends(a, "done", UpsertProfile(db, cmd.name, TRUE))
    BY <1>3, <1>8 DEF AddProfile, Clear, At
  <2>2. ASSUME Undisturbed(admin[a])
        PROVE  Promised(db, cmd) = [outcome |-> "done", left |-> UpsertProfile(db, cmd.name, TRUE)]
    <3>1. Wanted(db, cmd)
      BY <1>1, <1>8, <2>2 DEF Knows, KnowsDefaults, At, cmd
    <3>2. Wanted(db, cmd) = TRUE
      BY <3>1 DEF Wanted
    <3>3. QED
      BY <1>2, <3>2 DEF Done
  <2>3. Tables(UpsertProfile(db, cmd.name, TRUE)) /\ Spares(db, UpsertProfile(db, cmd.name, TRUE))
    BY <1>1, <1>2, ProfileStands, ProfilesSpare
  <2>4. QED
    BY <1>1, <2>1, <2>2, <2>3, EndStands DEF cmd
<1>9. QED
  BY <1>4, <1>5, <1>6, <1>7, <1>8 DEF AddProfile

\* A deletion that touches no claimed job takes none away: none goes by cascade.
LEMMA DeletionSpares ==
  ASSUME NEW d, NEW keys,
         \A k \in keys \cap DOMAIN d : k.table = "interaction_jobs" => d[k].value # "in_progress"
  PROVE  Spares(d, Delete(d, keys))
<1>1. \A j : Job(j).table = "interaction_jobs"
  BY DEF Job, Key
<1>2. ASSUME NEW j \in AdminJobs, Job(j) \in DOMAIN d, d[Job(j)].value = "in_progress"
      PROVE  Job(j) \in DOMAIN Delete(d, keys) /\ Delete(d, keys)[Job(j)] = d[Job(j)]
  <2>1. Job(j) \notin WithCascade(d, keys)
    BY <1>1, <1>2 DEF WithCascade, RowsIn
  <2>2. QED
    BY <1>2, <2>1 DEF Delete
<1>3. QED
  BY <1>2 DEF Spares

\* No row refers to a profile by a key.
LEMMA ProfileFree ==
  ASSUME NEW d, Tables(d), NEW n
  PROVE  MayDelete(d, {Profile(n)})
<1>1. \A k, l : l \in Needs(k) => l.table # "model_profiles"
  BY DEF Needs, RunRefs, JobRefs, MappingRefs, Connection, T, Tenant, Key
<1>2. \A k \in DOMAIN d : d[k].refs = Needs(k)
  BY DEF Tables, RowStands
<1>3. QED
  BY <1>1, <1>2, ProfileKeys DEF MayDelete

\* Setting the default, to a profile or to none.
LEMMA SetsDefault ==
  ASSUME AdminInv, NEW a \in Admins, SetDefault(a), UNCHANGED <<served, commands>>
  PROVE  Stands
<1> DEFINE cmd == admin[a].cmd
<1>1. /\ cmd.op = "set default" /\ cmd \in Commands /\ Engaged(a) /\ Tables(db) /\ ProcessOK(admin[a])
      /\ Undisturbed(admin[a]) => Knows(admin[a], db)
      /\ admin[a].at \in {"start", "clear", "put clear", "get", "put"}
  <2>1. PICK label \in {"start", "clear", "put clear", "get", "put"} : At(a, "set default", label)
    BY DEF SetDefault, Clear
  <2>2. label \notin {"idle", "end"}
    OBVIOUS
  <2>3. /\ Engaged(a) /\ admin[a].cmd \in Commands /\ ProcessOK(admin[a]) /\ Tables(db)
        /\ Undisturbed(admin[a]) => Knows(admin[a], db)
    BY <2>1, <2>2, AtCall
  <2>4. admin[a].cmd.op = "set default" /\ admin[a].at = label
    BY <2>1 DEF At
  <2>5. QED
    BY <2>3, <2>4
<1>2. /\ cmd.name \in {"p", "q", "none"}
      /\ \A d : Promised(d, cmd) =
           IF cmd.name = "none" THEN Done(NoDefault(d))
           ELSE IF Profile(cmd.name) \in DOMAIN d
           THEN Done(UpsertProfile(d, cmd.name, TRUE)) ELSE Refused(NoDefault(d))
  BY <1>1, CommandFields, Promises
<1>3. Name(a) = cmd.name
  BY DEF Name
<1> HIDE DEF cmd
<1>4. CASE At(a, "set default", "start")
  <2>1. CASE OldDefaults(a) = {}
    <3>1. Reads(a, "get", {})
      BY <1>4, <2>1 DEF SetDefault, Clear, At
    <3>2. DefaultOf(db) \subseteq {cmd.name}
      BY <1>3, <2>1 DEF OldDefaults
    <3>3. Knows(Went(admin[a], "get", {}, admin[a].outcome), db)
      BY <1>1, <3>2 DEF Knows, KnowsDefaults, KnowsConnection, KnowsTenant, Went, cmd
    <3>4. QED
      BY <1>1, <3>1, <3>3, ReadStands DEF cmd
  <2>2. CASE OldDefaults(a) # {}
    <3>1. Reads(a, "clear", OldDefaults(a))
      BY <1>4, <2>2 DEF SetDefault, Clear, At
    <3>2. Knows(Went(admin[a], "clear", OldDefaults(a), admin[a].outcome), db)
      BY <1>1, <1>3 DEF Knows, KnowsDefaults, KnowsConnection, KnowsTenant, Went, OldDefaults, cmd
    <3>3. QED
      BY <1>1, <3>1, <3>2, ReadStands DEF cmd
  <2>3. QED
    BY <2>1, <2>2
<1>5. CASE Clear(a, "set default", "get")
  BY <1>5, ClearsDefault
<1>6. CASE At(a, "set default", "get")
  <2>1. Undisturbed(admin[a]) => DefaultOf(db) \subseteq {cmd.name}
    BY <1>1, <1>6 DEF Knows, KnowsDefaults, At, cmd
  <2>2. Undisturbed(admin[a]) /\ (cmd.name = "none" \/ Profile(cmd.name) \notin DOMAIN db)
          => NoDefault(db) = db
    <3>1. ASSUME Undisturbed(admin[a]), cmd.name = "none" \/ Profile(cmd.name) \notin DOMAIN db
          PROVE  DefaultOf(db) = {}
      <4>1. DefaultOf(db) \subseteq {cmd.name}
        BY <2>1, <3>1
      <4>2. cmd.name \notin DefaultOf(db)
        BY <1>1, <3>1, Defaults
      <4>3. QED
        BY <4>1, <4>2
    <3>2. QED
      BY <1>1, <3>1, NoDefaultLeft
  <2>3. CASE cmd.name = "none"
    <3>1. Ends(a, "done", db)
      BY <1>3, <1>6, <2>3 DEF SetDefault, Clear, At
    <3>2. Undisturbed(admin[a]) => Promised(db, cmd) = [outcome |-> "done", left |-> db]
      BY <1>2, <2>2, <2>3 DEF Done
    <3>3. QED
      BY <1>1, <3>1, <3>2, EndStands, NothingLost DEF cmd
  <2>4. CASE cmd.name # "none" /\ Profile(cmd.name) \in DOMAIN db
    <3>1. Reads(a, "put", {})
      BY <1>3, <1>6, <2>4 DEF SetDefault, Clear, At
    <3>2. Knows(Went(admin[a], "put", {}, admin[a].outcome), db)
      BY <1>1, <2>4 DEF Knows, KnowsDefaults, KnowsConnection, KnowsTenant, Went, cmd
    <3>3. QED
      BY <1>1, <2>4, <3>1, <3>2, ReadStands DEF cmd
  <2>5. CASE cmd.name # "none" /\ Profile(cmd.name) \notin DOMAIN db
    <3>1. Refuse(a)
      BY <1>3, <1>6, <2>5 DEF SetDefault, Clear, At
    <3>2. Undisturbed(admin[a]) => Promised(db, cmd) = Refused(db)
      BY <1>2, <2>2, <2>5
    <3>3. QED
      BY <1>1, <3>1, <3>2, RefusalStands DEF cmd
  <2>6. QED
    BY <2>3, <2>4, <2>5
<1>7. CASE At(a, "set default", "put")
  <2>1. PICK d : d = UpsertProfile(db, cmd.name, TRUE)
    OBVIOUS
  <2>2. Ends(a, "done", d)
    BY <1>3, <1>7, <2>1 DEF SetDefault, Clear, At
  <2>3. Undisturbed(admin[a]) => Promised(db, cmd) = [outcome |-> "done", left |-> d]
    <3>1. Undisturbed(admin[a]) => cmd.name # "none" /\ Profile(cmd.name) \in DOMAIN db
      BY <1>1, <1>7 DEF Knows, KnowsDefaults, At, cmd
    <3>2. QED
      BY <1>2, <2>1, <3>1 DEF Done
  <2>4. Tables(d) /\ Spares(db, d)
    <3>1. cmd.name \in {"p", "q"}
      BY <1>1, <1>2, <1>7 DEF ProcessOK, At, cmd
    <3>2. QED
      BY <1>1, <2>1, <3>1, ProfileStands, ProfilesSpare
  <2>5. QED
    BY <1>1, <2>2, <2>3, <2>4, EndStands DEF cmd
<1>8. QED
  BY <1>4, <1>5, <1>6, <1>7 DEF SetDefault

\* Removing a profile that no tenant uses.
LEMMA RemovesProfile ==
  ASSUME AdminInv, NEW a \in Admins, RemoveProfile(a), UNCHANGED <<served, commands>>
  PROVE  Stands
<1> DEFINE cmd == admin[a].cmd
<1>1. /\ cmd.op = "remove profile" /\ cmd \in Commands /\ Engaged(a) /\ Tables(db) /\ ProcessOK(admin[a])
      /\ Undisturbed(admin[a]) => Knows(admin[a], db)
      /\ admin[a].at \in {"start", "users", "delete", "count", "drop"}
  <2>1. PICK label \in {"start", "users", "delete", "count", "drop"} : At(a, "remove profile", label)
    BY DEF RemoveProfile
  <2>2. label \notin {"idle", "end"}
    OBVIOUS
  <2>3. /\ Engaged(a) /\ admin[a].cmd \in Commands /\ ProcessOK(admin[a]) /\ Tables(db)
        /\ Undisturbed(admin[a]) => Knows(admin[a], db)
    BY <2>1, <2>2, AtCall
  <2>4. admin[a].cmd.op = "remove profile" /\ admin[a].at = label
    BY <2>1 DEF At
  <2>5. QED
    BY <2>3, <2>4
<1>2. Promised(db, cmd) = IF Profile(cmd.name) \notin DOMAIN db \/ Users(db, cmd.name) # {}
                          THEN Refused(db) ELSE Done(Delete(db, {Profile(cmd.name)}))
  BY <1>1, Promises
<1>3. Name(a) = cmd.name
  BY DEF Name
<1> HIDE DEF cmd
<1>4. CASE At(a, "remove profile", "start")
  <2>1. CASE Profile(cmd.name) \in DOMAIN db
    <3>1. Reads(a, "users", {})
      BY <1>3, <1>4, <2>1 DEF RemoveProfile, At
    <3>2. Knows(Went(admin[a], "users", {}, admin[a].outcome), db)
      BY <1>1, <2>1 DEF Knows, KnowsDefaults, KnowsConnection, KnowsTenant, Went, cmd
    <3>3. QED
      BY <1>1, <3>1, <3>2, ReadStands DEF cmd
  <2>2. CASE Profile(cmd.name) \notin DOMAIN db
    <3>1. Refuse(a)
      BY <1>3, <1>4, <2>2 DEF RemoveProfile, At
    <3>2. QED
      BY <1>1, <1>2, <2>2, <3>1, RefusalStands DEF cmd
  <2>3. QED
    BY <2>1, <2>2
<1>5. CASE At(a, "remove profile", "users")
  <2>1. Undisturbed(admin[a]) => Profile(cmd.name) \in DOMAIN db
    BY <1>1, <1>5 DEF Knows, KnowsDefaults, At, cmd
  <2>2. CASE Users(db, cmd.name) = {}
    <3>1. Reads(a, "delete", {})
      BY <1>3, <1>5, <2>2 DEF RemoveProfile, At
    <3>2. Undisturbed(admin[a]) => Knows(Went(admin[a], "delete", {}, admin[a].outcome), db)
      BY <1>1, <2>1, <2>2 DEF Knows, KnowsDefaults, KnowsConnection, KnowsTenant, Went, cmd
    <3>3. QED
      BY <1>1, <3>1, <3>2, ReadStands DEF cmd
  <2>3. CASE Users(db, cmd.name) # {}
    <3>1. Refuse(a)
      BY <1>3, <1>5, <2>3 DEF RemoveProfile, At
    <3>2. QED
      BY <1>1, <1>2, <2>3, <3>1, RefusalStands DEF cmd
  <2>4. QED
    BY <2>2, <2>3
<1>6. Undisturbed(admin[a]) /\ admin[a].at \in {"delete", "count", "drop"} =>
        Profile(cmd.name) \in DOMAIN db /\ Users(db, cmd.name) = {}
  BY <1>1 DEF Knows, KnowsDefaults, cmd
<1>7. CASE At(a, "remove profile", "delete")
  <2>1. CASE Profile(cmd.name) \in DOMAIN db
    <3>1. Reads(a, "count", {})
      BY <1>3, <1>7, <2>1 DEF RemoveProfile, At
    <3>2. Undisturbed(admin[a]) => Knows(Went(admin[a], "count", {}, admin[a].outcome), db)
      BY <1>1, <1>6, <1>7 DEF Knows, KnowsDefaults, KnowsConnection, KnowsTenant, Went, At, cmd
    <3>3. QED
      BY <1>1, <3>1, <3>2, ReadStands DEF cmd
  <2>2. CASE Profile(cmd.name) \notin DOMAIN db
    <3>1. Ends(a, "done", db)
      BY <1>3, <1>7, <2>2 DEF RemoveProfile, At
    <3>2. ~Undisturbed(admin[a])
      BY <1>6, <1>7, <2>2 DEF At
    <3>3. QED
      BY <1>1, <3>1, <3>2, EndStands, NothingLost DEF cmd
  <2>3. QED
    BY <2>1, <2>2
<1>8. CASE At(a, "remove profile", "count")
  <2>1. CASE MayDeleteProfile(db, cmd.name)
    <3>1. Reads(a, "drop", {})
      BY <1>3, <1>8, <2>1 DEF RemoveProfile, At
    <3>2. Undisturbed(admin[a]) => Knows(Went(admin[a], "drop", {}, admin[a].outcome), db)
      BY <1>1, <1>6, <1>8 DEF Knows, KnowsDefaults, KnowsConnection, KnowsTenant, Went, At, cmd
    <3>3. QED
      BY <1>1, <3>1, <3>2, ReadStands DEF cmd
  <2>2. CASE ~MayDeleteProfile(db, cmd.name)
    <3>1. Refuse(a)
      BY <1>3, <1>8, <2>2 DEF RemoveProfile, At
    <3>2. ~Undisturbed(admin[a])
      BY <1>6, <1>8, <2>2 DEF MayDeleteProfile, At
    <3>3. QED
      BY <1>1, <3>1, <3>2, RefusalStands
  <2>3. QED
    BY <2>1, <2>2
<1>9. CASE At(a, "remove profile", "drop")
  <2>1. PICK d : d = Delete(db, {Profile(cmd.name)})
    OBVIOUS
  <2>2. Ends(a, "done", d)
    BY <1>3, <1>9, <2>1 DEF RemoveProfile, At
  <2>3. Tables(d)
    BY <1>1, <2>1, ProfileFree, DeletionStands
  <2>4. Spares(db, d)
    BY <2>1, ProfileKeys, DeletionSpares
  <2>5. Undisturbed(admin[a]) => Promised(db, cmd) = [outcome |-> "done", left |-> d]
    BY <1>2, <1>6, <1>9, <2>1 DEF Done, At
  <2>6. QED
    BY <1>1, <2>2, <2>3, <2>4, <2>5, EndStands DEF cmd
<1>10. QED
  BY <1>4, <1>5, <1>7, <1>8, <1>9 DEF RemoveProfile

\* No write of a tenant touches a job.
LEMMA TenantSpares ==
  ASSUME NEW d, NEW profile
  PROVE  Spares(d, UpsertTenant(d, "t", "c", profile))
<1>1. \A j : Job(j) # Tenant("t")
  BY DEF Job, Key, Tenant
<1>2. QED
  BY <1>1 DEF Spares, UpsertTenant, Put

\* Nor does a patch of another table.
LEMMA OtherPatchSpares ==
  ASSUME NEW d, NEW k, k.table # "interaction_jobs", NEW v
  PROVE  Spares(d, Patch(d, k, v))
<1>1. \A j : Job(j) # k
  BY DEF Job, Key
<1>2. QED
  BY <1>1 DEF Spares, Patch

\* The call that puts a tenant: an undisturbed one finds what was planned.
LEMMA PutsTenant ==
  ASSUME AdminInv, NEW a \in Admins, NEW op \in {"add tenant", "set profile"}, PutTenant(a, op),
         UNCHANGED <<served, commands>>, NEW known,
         Undisturbed(admin[a]) /\ admin[a].at \in {"assert", "put"} =>
           /\ admin[a].read = {known} /\ ProfileKnown(db, known.profile)
           /\ Connection("c") \in DOMAIN db /\ (known.new => T \notin DOMAIN db)
           /\ Promised(db, admin[a].cmd) = Done(UpsertTenant(db, "t", "c", known.profile))
  PROVE  Stands
<1>1. /\ admin[a].cmd.op = op /\ admin[a].cmd \in Commands /\ Engaged(a) /\ Tables(db) /\ ProcessOK(admin[a])
      /\ Undisturbed(admin[a]) => Knows(admin[a], db)
      /\ admin[a].at \in {"assert", "put"}
  <2>1. PICK label \in {"assert", "put"} : At(a, op, label)
    BY DEF PutTenant
  <2>2. label \notin {"idle", "end"} /\ op # "none"
    OBVIOUS
  <2>3. /\ Engaged(a) /\ admin[a].cmd \in Commands /\ ProcessOK(admin[a]) /\ Tables(db)
        /\ Undisturbed(admin[a]) => Knows(admin[a], db)
    BY <2>1, <2>2, AtCall
  <2>4. admin[a].cmd.op = op /\ admin[a].at = label
    BY <2>1 DEF At
  <2>5. QED
    BY <2>3, <2>4
<1>2. CASE At(a, op, "assert")
  <2>1. CASE \A plan \in admin[a].read : ProfileKnown(db, plan.profile)
    <3>1. Reads(a, "put", admin[a].read)
      BY <1>2, <2>1 DEF PutTenant, At
    <3>2. Undisturbed(admin[a]) => Knows(Went(admin[a], "put", admin[a].read, admin[a].outcome), db)
      BY <1>1, <1>2 DEF Knows, KnowsDefaults, KnowsConnection, KnowsTenant, Went, At
    <3>3. QED
      BY <1>1, <3>1, <3>2, ReadStands
  <2>2. CASE ~(\A plan \in admin[a].read : ProfileKnown(db, plan.profile))
    <3>1. Refuse(a)
      BY <1>2, <2>2 DEF PutTenant, At
    <3>2. ~Undisturbed(admin[a])
      BY <1>1, <2>2
    <3>3. QED
      BY <1>1, <3>1, <3>2, RefusalStands
  <2>3. QED
    BY <2>1, <2>2
<1>3. CASE At(a, op, "put")
  <2>1. PICK plan \in admin[a].read :
          \/ IF MayPut(db, {Connection("c")}) /\ (plan.new => T \notin DOMAIN db)
             THEN Ends(a, "done", UpsertTenant(db, "t", "c", plan.profile)) ELSE Refuse(a)
          \/ ~Undisturbed(admin[a]) /\ Refuse(a)
    BY <1>3 DEF PutTenant, At
  <2>2. Undisturbed(admin[a]) =>
          /\ plan = known /\ MayPut(db, {Connection("c")}) /\ (plan.new => T \notin DOMAIN db)
          /\ Promised(db, admin[a].cmd) = [outcome |-> "done", left |-> UpsertTenant(db, "t", "c", plan.profile)]
    BY <1>1, <2>1 DEF MayPut, Done
  <2>3. CASE /\ MayPut(db, {Connection("c")})
             /\ Ends(a, "done", UpsertTenant(db, "t", "c", plan.profile))
    <3>1. PICK d : d = UpsertTenant(db, "t", "c", plan.profile)
      OBVIOUS
    <3>2. Ends(a, "done", d)
      BY <2>3, <3>1
    <3>3. Tables(d)
      BY <1>1, <2>3, <3>1, TenantStands DEF MayPut
    <3>4. Spares(db, d)
      BY <3>1, TenantSpares
    <3>5. QED
      BY <1>1, <2>2, <3>1, <3>2, <3>3, <3>4, EndStands
  <2>4. CASE Refuse(a) /\ ~Undisturbed(admin[a])
    BY <1>1, <2>4, RefusalStands
  <2>5. QED
    BY <2>1, <2>2, <2>3, <2>4
<1>4. QED
  BY <1>2, <1>3 DEF PutTenant

\* Adding a tenant: what was planned from two reads is checked and put.
LEMMA AddsTenant ==
  ASSUME AdminInv, NEW a \in Admins, AddTenant(a), UNCHANGED <<served, commands>>
  PROVE  Stands
<1> DEFINE cmd == admin[a].cmd
<1>1. /\ cmd.op = "add tenant" /\ cmd \in Commands /\ Engaged(a) /\ Tables(db) /\ ProcessOK(admin[a])
      /\ Undisturbed(admin[a]) => Knows(admin[a], db)
      /\ admin[a].at \in {"start", "find", "check", "assert", "put"}
  <2>1. PICK label \in {"start", "find", "check", "assert", "put"} : At(a, "add tenant", label)
    BY DEF AddTenant, PutTenant
  <2>2. label \notin {"idle", "end"}
    OBVIOUS
  <2>3. /\ Engaged(a) /\ admin[a].cmd \in Commands /\ ProcessOK(admin[a]) /\ Tables(db)
        /\ Undisturbed(admin[a]) => Knows(admin[a], db)
    BY <2>1, <2>2, AtCall
  <2>4. admin[a].cmd.op = "add tenant" /\ admin[a].at = label
    BY <2>1 DEF At
  <2>5. QED
    BY <2>3, <2>4
<1>2. Promised(db, cmd) = IF IsReady(db) /\ ProfileKnown(db, ProfileAfter(db, cmd))
                          THEN Done(UpsertTenant(db, "t", "c", ProfileAfter(db, cmd))) ELSE Refused(db)
  BY <1>1, Promises
<1>3. TenantPlan(a) = [profile |-> ProfileAfter(db, cmd), new |-> T \notin DOMAIN db]
  BY DEF TenantPlan
<1> HIDE DEF cmd
<1>4. IsReady(db) => Connection("c") \in DOMAIN db
  BY DEF IsReady
<1>5. CASE At(a, "add tenant", "start")
  <2>1. CASE IsReady(db)
    <3>1. Reads(a, "find", {})
      BY <1>5, <2>1 DEF AddTenant, PutTenant, At
    <3>2. Knows(Went(admin[a], "find", {}, admin[a].outcome), db)
      BY <1>1, <2>1 DEF Knows, KnowsDefaults, KnowsConnection, KnowsTenant, Went, cmd
    <3>3. QED
      BY <1>1, <3>1, <3>2, ReadStands DEF cmd
  <2>2. CASE ~IsReady(db)
    <3>1. Refuse(a)
      BY <1>5, <2>2 DEF AddTenant, PutTenant, At
    <3>2. QED
      BY <1>1, <1>2, <2>2, <3>1, RefusalStands DEF cmd
  <2>3. QED
    BY <2>1, <2>2
<1>6. CASE At(a, "add tenant", "find")
  <2>1. Undisturbed(admin[a]) => IsReady(db)
    BY <1>1, <1>6 DEF Knows, KnowsConnection, At, cmd
  <2>0. PICK rows : rows = {TenantPlan(a)}
    OBVIOUS
  <2>2. Reads(a, "check", rows)
    BY <1>6, <2>0 DEF AddTenant, PutTenant, At
  <2>3. Undisturbed(admin[a]) => Knows(Went(admin[a], "check", rows, admin[a].outcome), db)
    BY <1>1, <1>3, <2>0, <2>1 DEF Knows, KnowsDefaults, KnowsConnection, KnowsTenant, Went, cmd
  <2>4. QED
    BY <1>1, <2>2, <2>3, ReadStands DEF cmd
<1>7. Undisturbed(admin[a]) /\ admin[a].at \in {"check", "assert", "put"} =>
        /\ IsReady(db) /\ admin[a].read = {TenantPlan(a)}
        /\ admin[a].at \in {"assert", "put"} => ProfileKnown(db, ProfileAfter(db, cmd))
  BY <1>1, <1>3 DEF Knows, KnowsConnection, cmd
<1>8. CASE At(a, "add tenant", "check")
  <2>1. CASE Connection("c") \in DOMAIN db /\ \A plan \in admin[a].read : ProfileKnown(db, plan.profile)
    <3>0. PICK rows : rows = admin[a].read
      OBVIOUS
    <3>1. Reads(a, "assert", rows)
      BY <1>8, <2>1, <3>0 DEF AddTenant, PutTenant, At
    <3>2. ASSUME Undisturbed(admin[a])
          PROVE  Knows(Went(admin[a], "assert", rows, admin[a].outcome), db)
      <4>1. IsReady(db) /\ admin[a].read = {TenantPlan(a)} /\ rows = {TenantPlan(a)}
        BY <1>7, <1>8, <3>0, <3>2 DEF At
      <4>2. ProfileKnown(db, ProfileAfter(db, cmd))
        BY <1>3, <2>1, <4>1
      <4>3. QED
        BY <1>1, <1>3, <4>1, <4>2 DEF Knows, KnowsDefaults, KnowsConnection, KnowsTenant, Went, cmd
    <3>3. QED
      BY <1>1, <3>1, <3>2, ReadStands DEF cmd
  <2>2. CASE ~(Connection("c") \in DOMAIN db /\ \A plan \in admin[a].read : ProfileKnown(db, plan.profile))
    <3>1. Refuse(a)
      BY <1>8, <2>2 DEF AddTenant, PutTenant, At
    <3>2. ASSUME Undisturbed(admin[a])
          PROVE  Promised(db, cmd) = Refused(db)
      <4>1. IsReady(db) /\ admin[a].read = {TenantPlan(a)}
        BY <1>7, <1>8, <3>2 DEF At
      <4>2. ~ProfileKnown(db, ProfileAfter(db, cmd))
        BY <1>3, <1>4, <2>2, <4>1
      <4>3. QED
        BY <1>2, <4>2
    <3>3. QED
      BY <1>1, <3>1, <3>2, RefusalStands DEF cmd
  <2>3. QED
    BY <2>1, <2>2
<1>9. CASE PutTenant(a, "add tenant")
  <2>1. PICK new : new = (T \notin DOMAIN db)
    OBVIOUS
  <2>2. PICK known : known = [profile |-> ProfileAfter(db, cmd), new |-> new]
    OBVIOUS
  <2>3. known = TenantPlan(a) /\ known.profile = ProfileAfter(db, cmd) /\ known.new = new
    BY <1>3, <2>1, <2>2
  <2>4. Undisturbed(admin[a]) /\ admin[a].at \in {"assert", "put"} =>
          /\ admin[a].read = {known} /\ ProfileKnown(db, known.profile)
          /\ Connection("c") \in DOMAIN db /\ (known.new => T \notin DOMAIN db)
          /\ Promised(db, cmd) = Done(UpsertTenant(db, "t", "c", known.profile))
    BY <1>2, <1>4, <1>7, <2>1, <2>3
  <2>5. QED
    BY <1>9, <2>4, PutsTenant DEF cmd
<1>10. QED
  BY <1>5, <1>6, <1>8, <1>9 DEF AddTenant

\* Setting the profile of a tenant.
LEMMA SetsTenantProfile ==
  ASSUME AdminInv, NEW a \in Admins, SetTenantProfile(a), UNCHANGED <<served, commands>>
  PROVE  Stands
<1> DEFINE cmd == admin[a].cmd
           plan == [profile |-> cmd.arg, new |-> FALSE]
<1>1. /\ cmd.op = "set profile" /\ cmd \in Commands /\ Engaged(a) /\ Tables(db) /\ ProcessOK(admin[a])
      /\ Undisturbed(admin[a]) => Knows(admin[a], db)
      /\ admin[a].at \in {"start", "patch", "assert", "put"}
  <2>1. PICK label \in {"start", "patch", "assert", "put"} : At(a, "set profile", label)
    BY DEF SetTenantProfile, PutTenant
  <2>2. label \notin {"idle", "end"}
    OBVIOUS
  <2>3. /\ Engaged(a) /\ admin[a].cmd \in Commands /\ ProcessOK(admin[a]) /\ Tables(db)
        /\ Undisturbed(admin[a]) => Knows(admin[a], db)
    BY <2>1, <2>2, AtCall
  <2>4. admin[a].cmd.op = "set profile" /\ admin[a].at = label
    BY <2>1 DEF At
  <2>5. QED
    BY <2>3, <2>4
<1>2. Promised(db, cmd) = IF T \in DOMAIN db /\ ProfileKnown(db, cmd.arg)
                          THEN Done(UpsertTenant(db, "t", "c", cmd.arg)) ELSE Refused(db)
  BY <1>1, Promises
<1>3. Arg(a) = cmd.arg
  BY DEF Arg
<1>4. Undisturbed(admin[a]) /\ admin[a].at \in {"patch", "assert", "put"} =>
        /\ T \in DOMAIN db /\ ProfileKnown(db, cmd.arg)
        /\ admin[a].at \in {"assert", "put"} => admin[a].read = {plan}
  BY <1>1 DEF Knows, KnowsConnection
<1>5. plan.profile = cmd.arg /\ plan.new = FALSE
  OBVIOUS
<1> HIDE DEF cmd
<1>6. CASE At(a, "set profile", "start")
  <2>1. CASE T \in DOMAIN db /\ ProfileKnown(db, cmd.arg)
    <3>1. Reads(a, "patch", {})
      BY <1>3, <1>6, <2>1 DEF SetTenantProfile, PutTenant, At
    <3>2. Knows(Went(admin[a], "patch", {}, admin[a].outcome), db)
      BY <1>1, <2>1 DEF Knows, KnowsDefaults, KnowsConnection, KnowsTenant, Went, cmd
    <3>3. QED
      BY <1>1, <3>1, <3>2, ReadStands DEF cmd
  <2>2. CASE ~(T \in DOMAIN db /\ ProfileKnown(db, cmd.arg))
    <3>1. Refuse(a)
      BY <1>3, <1>6, <2>2 DEF SetTenantProfile, PutTenant, At
    <3>2. QED
      BY <1>1, <1>2, <2>2, <3>1, RefusalStands DEF cmd
  <2>3. QED
    BY <2>1, <2>2
<1>7. CASE At(a, "set profile", "patch")
  <2>1. CASE T \in DOMAIN db
    <3>1. Reads(a, "assert", {plan})
      BY <1>3, <1>7, <2>1 DEF SetTenantProfile, PutTenant, At
    <3>2. Undisturbed(admin[a]) => Knows(Went(admin[a], "assert", {plan}, admin[a].outcome), db)
      BY <1>1, <1>4, <1>7 DEF Knows, KnowsDefaults, KnowsConnection, KnowsTenant, Went, At, cmd
    <3>3. QED
      BY <1>1, <3>1, <3>2, ReadStands DEF cmd
  <2>2. CASE T \notin DOMAIN db
    <3>1. Refuse(a)
      BY <1>7, <2>2 DEF SetTenantProfile, PutTenant, At
    <3>2. ~Undisturbed(admin[a])
      BY <1>4, <1>7, <2>2 DEF At
    <3>3. QED
      BY <1>1, <3>1, <3>2, RefusalStands
  <2>3. QED
    BY <2>1, <2>2
<1>8. CASE PutTenant(a, "set profile")
  <2>1. ASSUME Undisturbed(admin[a]), admin[a].at \in {"assert", "put"}
        PROVE  /\ admin[a].read = {plan} /\ ProfileKnown(db, plan.profile)
               /\ Connection("c") \in DOMAIN db /\ (plan.new => T \notin DOMAIN db)
               /\ Promised(db, cmd) = Done(UpsertTenant(db, "t", "c", plan.profile))
    <3>1. T \in DOMAIN db /\ ProfileKnown(db, cmd.arg) /\ admin[a].read = {plan}
      BY <1>4, <2>1
    <3>2. Connection("c") \in DOMAIN db
      <4>1. Needs(T) = {Connection("c")}
        BY DEF Needs, T, Tenant, Key
      <4>2. QED
        BY <1>1, <3>1, <4>1 DEF Tables, RowStands
    <3>3. QED
      BY <1>2, <1>5, <3>1, <3>2
  <2>2. QED
    BY <1>1, <1>8, <2>1, PutsTenant DEF cmd
<1>9. QED
  BY <1>6, <1>7, <1>8 DEF SetTenantProfile

\* A connection may always be put.
LEMMA ConnectionStands ==
  ASSUME NEW d, Tables(d), NEW status
  PROVE  /\ Tables(UpsertConnection(d, "c", status)) /\ Spares(d, UpsertConnection(d, "c", status))
         /\ Connection("c") \in DOMAIN d =>
              UpsertConnection(d, "c", status) = Patch(d, Connection("c"), status)
<1> DEFINE c == Connection("c")
           e == UpsertConnection(d, "c", status)
<1>1. /\ IsKey(c) /\ Needs(c) = {} /\ c.table = "platform_connections"
      /\ \A j : Job(j) # c
  BY DEF Connection, Key, IsKey, Needs, Job
<1>2. e = Put(d, c, Needs(c), status)
  BY <1>1 DEF UpsertConnection
<1> HIDE DEF c, e
<1>3. Tables(e)
  BY <1>1, <1>2, PutStands
<1>4. Spares(d, e)
  BY <1>1, <1>2 DEF Spares, Put
<1>5. ASSUME c \in DOMAIN d PROVE e = Patch(d, c, status)
  <2>1. /\ DOMAIN e = DOMAIN d /\ e = [l \in DOMAIN d |-> e[l]]
        /\ e[c] = [refs |-> Needs(c), value |-> status]
        /\ \A l \in DOMAIN d : l # c => e[l] = d[l]
    BY <1>2, <1>5 DEF Put
  <2>2. PICK f : f = Patch(d, c, status)
    OBVIOUS
  <2>3. /\ DOMAIN f = DOMAIN d /\ f = [l \in DOMAIN d |-> f[l]]
        /\ f[c] = [refs |-> Needs(c), value |-> status]
        /\ \A l \in DOMAIN d : l # c => f[l] = d[l]
    BY <1>5, <2>2, Patched
  <2>4. \A l \in DOMAIN d : e[l] = f[l]
    BY <2>1, <2>3
  <2>5. QED
    BY <2>1, <2>2, <2>3, <2>4
<1>6. QED
  BY <1>3, <1>4, <1>5 DEF c, e

\* Adding a connection.
LEMMA AddsConnection ==
  ASSUME AdminInv, NEW a \in Admins, AddConnection(a), UNCHANGED <<served, commands>>
  PROVE  Stands
<1> DEFINE cmd == admin[a].cmd
<1>1. /\ cmd.op = "add connection" /\ cmd \in Commands /\ Engaged(a) /\ Tables(db) /\ ProcessOK(admin[a])
      /\ Undisturbed(admin[a]) => Knows(admin[a], db)
      /\ admin[a].at \in {"start", "put"}
  <2>1. PICK label \in {"start", "put"} : At(a, "add connection", label)
    BY DEF AddConnection
  <2>2. label \notin {"idle", "end"}
    OBVIOUS
  <2>3. /\ Engaged(a) /\ admin[a].cmd \in Commands /\ ProcessOK(admin[a]) /\ Tables(db)
        /\ Undisturbed(admin[a]) => Knows(admin[a], db)
    BY <2>1, <2>2, AtCall
  <2>4. admin[a].cmd.op = "add connection" /\ admin[a].at = label
    BY <2>1 DEF At
  <2>5. QED
    BY <2>3, <2>4
<1>2. Promised(db, cmd) = IF Connection("c") \in DOMAIN db THEN Refused(db)
                          ELSE Done(UpsertConnection(db, "c", cmd.arg))
  BY <1>1, Promises, CommandFields
<1>3. Arg(a) = cmd.arg
  BY DEF Arg
<1> HIDE DEF cmd
<1>4. CASE Connection("c") \in DOMAIN db
  <2>1. Refuse(a)
    BY <1>4 DEF AddConnection, At
  <2>2. QED
    BY <1>1, <1>2, <1>4, <2>1, RefusalStands DEF cmd
<1>5. CASE Connection("c") \notin DOMAIN db
  <2>1. CASE At(a, "add connection", "start")
    <3>1. Reads(a, "put", {})
      BY <1>5, <2>1 DEF AddConnection, At
    <3>2. Knows(Went(admin[a], "put", {}, admin[a].outcome), db)
      BY <1>1, <1>5 DEF Knows, KnowsDefaults, KnowsConnection, KnowsTenant, Went, cmd
    <3>3. QED
      BY <1>1, <3>1, <3>2, ReadStands DEF cmd
  <2>2. CASE At(a, "add connection", "put")
    <3>1. PICK d : d = UpsertConnection(db, "c", cmd.arg)
      OBVIOUS
    <3>2. Ends(a, "done", d)
      BY <1>3, <1>5, <2>2, <3>1 DEF AddConnection, At
    <3>3. Tables(d) /\ Spares(db, d)
      BY <1>1, <3>1, ConnectionStands
    <3>4. Promised(db, cmd) = [outcome |-> "done", left |-> d]
      BY <1>2, <1>5, <3>1 DEF Done
    <3>5. QED
      BY <1>1, <3>2, <3>3, <3>4, EndStands DEF cmd
  <2>3. QED
    BY <2>1, <2>2 DEF AddConnection
<1>6. QED
  BY <1>4, <1>5

\* Updating a connection.
LEMMA UpdatesConnection ==
  ASSUME AdminInv, NEW a \in Admins, UpdateConnection(a), UNCHANGED <<served, commands>>
  PROVE  Stands
<1> DEFINE cmd == admin[a].cmd
<1>1. /\ cmd.op = "update connection" /\ cmd \in Commands /\ Engaged(a) /\ Tables(db) /\ ProcessOK(admin[a])
      /\ Undisturbed(admin[a]) => Knows(admin[a], db)
      /\ admin[a].at \in {"start", "patch", "put"}
  <2>1. PICK label \in {"start", "patch", "put"} : At(a, "update connection", label)
    BY DEF UpdateConnection
  <2>2. label \notin {"idle", "end"}
    OBVIOUS
  <2>3. /\ Engaged(a) /\ admin[a].cmd \in Commands /\ ProcessOK(admin[a]) /\ Tables(db)
        /\ Undisturbed(admin[a]) => Knows(admin[a], db)
    BY <2>1, <2>2, AtCall
  <2>4. admin[a].cmd.op = "update connection" /\ admin[a].at = label
    BY <2>1 DEF At
  <2>5. QED
    BY <2>3, <2>4
<1>2. Promised(db, cmd) = IF Connection("c") \in DOMAIN db
                          THEN Done(Patch(db, Connection("c"), cmd.arg)) ELSE Refused(db)
  BY <1>1, Promises, CommandFields
<1>3. Arg(a) = cmd.arg
  BY DEF Arg
<1> HIDE DEF cmd
<1>4. Undisturbed(admin[a]) /\ admin[a].at \in {"patch", "put"} => Connection("c") \in DOMAIN db
  BY <1>1 DEF Knows, KnowsConnection, cmd
<1>5. CASE At(a, "update connection", "start")
  <2>1. CASE Connection("c") \in DOMAIN db
    <3>1. Reads(a, "patch", {})
      BY <1>5, <2>1 DEF UpdateConnection, At
    <3>2. Knows(Went(admin[a], "patch", {}, admin[a].outcome), db)
      BY <1>1, <2>1 DEF Knows, KnowsDefaults, KnowsConnection, KnowsTenant, Went, cmd
    <3>3. QED
      BY <1>1, <3>1, <3>2, ReadStands DEF cmd
  <2>2. CASE Connection("c") \notin DOMAIN db
    <3>1. Refuse(a)
      BY <1>5, <2>2 DEF UpdateConnection, At
    <3>2. QED
      BY <1>1, <1>2, <2>2, <3>1, RefusalStands DEF cmd
  <2>3. QED
    BY <2>1, <2>2
<1>6. CASE At(a, "update connection", "patch")
  <2>1. CASE Connection("c") \in DOMAIN db
    <3>1. Reads(a, "put", {})
      BY <1>6, <2>1 DEF UpdateConnection, At
    <3>2. Knows(Went(admin[a], "put", {}, admin[a].outcome), db)
      BY <1>1, <2>1 DEF Knows, KnowsDefaults, KnowsConnection, KnowsTenant, Went, cmd
    <3>3. QED
      BY <1>1, <3>1, <3>2, ReadStands DEF cmd
  <2>2. CASE Connection("c") \notin DOMAIN db
    <3>1. Refuse(a)
      BY <1>6, <2>2 DEF UpdateConnection, At
    <3>2. ~Undisturbed(admin[a])
      BY <1>4, <1>6, <2>2 DEF At
    <3>3. QED
      BY <1>1, <3>1, <3>2, RefusalStands DEF cmd
  <2>3. QED
    BY <2>1, <2>2
<1>7. CASE At(a, "update connection", "put")
  <2>1. PICK d : d = UpsertConnection(db, "c", cmd.arg)
    OBVIOUS
  <2>2. Ends(a, "done", d) \/ (~Undisturbed(admin[a]) /\ Refuse(a))
    BY <1>3, <1>7, <2>1 DEF UpdateConnection, At
  <2>3. Tables(d) /\ Spares(db, d) /\ (Connection("c") \in DOMAIN db => d = Patch(db, Connection("c"), cmd.arg))
    BY <1>1, <2>1, ConnectionStands
  <2>4. Undisturbed(admin[a]) => Promised(db, cmd) = [outcome |-> "done", left |-> d]
    BY <1>2, <1>4, <1>7, <2>3 DEF Done, At
  <2>5. CASE Ends(a, "done", d)
    BY <1>1, <2>3, <2>4, <2>5, EndStands DEF cmd
  <2>6. CASE ~Undisturbed(admin[a]) /\ Refuse(a)
    BY <1>1, <2>6, RefusalStands
  <2>7. QED
    BY <2>2, <2>5, <2>6
<1>8. QED
  BY <1>5, <1>6, <1>7 DEF UpdateConnection

\* Removing a connection that no tenant uses.
LEMMA RemovesConnection ==
  ASSUME AdminInv, NEW a \in Admins, RemoveConnection(a), UNCHANGED <<served, commands>>
  PROVE  Stands
<1> DEFINE cmd == admin[a].cmd
<1>1. /\ cmd.op = "remove connection" /\ cmd \in Commands /\ Engaged(a) /\ Tables(db) /\ ProcessOK(admin[a])
      /\ Undisturbed(admin[a]) => Knows(admin[a], db)
      /\ admin[a].at \in {"start", "users", "delete"}
  <2>1. PICK label \in {"start", "users", "delete"} : At(a, "remove connection", label)
    BY DEF RemoveConnection
  <2>2. label \notin {"idle", "end"}
    OBVIOUS
  <2>3. /\ Engaged(a) /\ admin[a].cmd \in Commands /\ ProcessOK(admin[a]) /\ Tables(db)
        /\ Undisturbed(admin[a]) => Knows(admin[a], db)
    BY <2>1, <2>2, AtCall
  <2>4. admin[a].cmd.op = "remove connection" /\ admin[a].at = label
    BY <2>1 DEF At
  <2>5. QED
    BY <2>3, <2>4
<1>2. Promised(db, cmd) = IF Connection("c") \in DOMAIN db /\ Referring(db, Connection("c")) = {}
                          THEN Done(Delete(db, {Connection("c")})) ELSE Refused(db)
  BY <1>1, Promises, CommandFields
<1> HIDE DEF cmd
<1>3. CASE At(a, "remove connection", "start")
  <2>1. CASE Connection("c") \in DOMAIN db
    <3>1. Reads(a, "users", {})
      BY <1>3, <2>1 DEF RemoveConnection, At
    <3>2. Knows(Went(admin[a], "users", {}, admin[a].outcome), db)
      BY <1>1, <2>1 DEF Knows, KnowsDefaults, KnowsConnection, KnowsTenant, Went, cmd
    <3>3. QED
      BY <1>1, <3>1, <3>2, ReadStands DEF cmd
  <2>2. CASE Connection("c") \notin DOMAIN db
    <3>1. Refuse(a)
      BY <1>3, <2>2 DEF RemoveConnection, At
    <3>2. QED
      BY <1>1, <1>2, <2>2, <3>1, RefusalStands DEF cmd
  <2>3. QED
    BY <2>1, <2>2
<1>4. CASE At(a, "remove connection", "users")
  <2>1. Undisturbed(admin[a]) => Connection("c") \in DOMAIN db
    BY <1>1, <1>4 DEF Knows, KnowsConnection, At, cmd
  <2>2. CASE Referring(db, Connection("c")) = {}
    <3>1. Reads(a, "delete", {})
      BY <1>4, <2>2 DEF RemoveConnection, At
    <3>2. Undisturbed(admin[a]) => Knows(Went(admin[a], "delete", {}, admin[a].outcome), db)
      BY <1>1, <2>1, <2>2 DEF Knows, KnowsDefaults, KnowsConnection, KnowsTenant, Went, cmd
    <3>3. QED
      BY <1>1, <3>1, <3>2, ReadStands DEF cmd
  <2>3. CASE Referring(db, Connection("c")) # {}
    <3>1. Refuse(a)
      BY <1>4, <2>3 DEF RemoveConnection, At
    <3>2. QED
      BY <1>1, <1>2, <2>3, <3>1, RefusalStands DEF cmd
  <2>4. QED
    BY <2>2, <2>3
<1>5. CASE At(a, "remove connection", "delete")
  <2>1. Undisturbed(admin[a]) => Connection("c") \in DOMAIN db /\ Referring(db, Connection("c")) = {}
    BY <1>1, <1>5 DEF Knows, KnowsConnection, At, cmd
  <2>2. CASE MayDelete(db, {Connection("c")})
    <3>1. PICK d : d = Delete(db, {Connection("c")})
      OBVIOUS
    <3>2. Ends(a, "done", d)
      BY <1>5, <2>2, <3>1 DEF RemoveConnection, At
    <3>3. Connection("c").table = "platform_connections"
      BY DEF Connection, Key
    <3>4. Tables(d)
      BY <1>1, <2>2, <3>1, ProfileKeys, DeletionStands
    <3>5. Spares(db, d)
      BY <3>1, <3>3, DeletionSpares
    <3>6. Undisturbed(admin[a]) => Promised(db, cmd) = [outcome |-> "done", left |-> d]
      BY <1>2, <2>1, <3>1 DEF Done
    <3>7. QED
      BY <1>1, <3>2, <3>4, <3>5, <3>6, EndStands DEF cmd
  <2>3. CASE ~MayDelete(db, {Connection("c")})
    <3>1. Refuse(a)
      BY <1>5, <2>3 DEF RemoveConnection, At
    <3>2. ~Undisturbed(admin[a])
      BY <2>1, <2>3 DEF MayDelete, Referring
    <3>3. QED
      BY <1>1, <3>1, <3>2, RefusalStands
  <2>4. QED
    BY <2>2, <2>3
<1>6. QED
  BY <1>3, <1>4, <1>5 DEF RemoveConnection

-----------------------------------------------------------------------------
(* The removal of a tenant *)

\* Which tables refer to which.
LEMMA NeedsTables ==
  ASSUME NEW k, IsKey(k), NEW l \in Needs(k)
  PROVE  /\ l.table \in {"platform_connections", "tenants", "interaction_jobs", "interaction_runs"}
         /\ l.table = "interaction_runs" => k.table \in RunData
         /\ l.table = "interaction_jobs" => k.table \in JobData
         /\ l.table = "tenants" => l = T /\ k.table \in TenantData
<1>1. /\ Connection("c").table = "platform_connections" /\ T.table = "tenants" /\ Tenant("t") = T
      /\ \A i : /\ Key("interaction_jobs", i).table = "interaction_jobs"
                /\ Key("interaction_runs", i).table = "interaction_runs"
  BY DEF Connection, T, Tenant, Key
<1>2. QED
  BY <1>1 DEF IsKey, Needs, RunRefs, JobRefs, MappingRefs, RunData, JobData, TenantData

\* What a tenant owns is all that is not a profile or a connection.
Rest(d) == [k \in {l \in DOMAIN d : l.table \in {"model_profiles", "platform_connections"}} |-> d[k]]

\* Every row but profiles and connections is the tenant's, directly or through a run.
LEMMA OwnedRows ==
  ASSUME NEW d, Tables(d)
  PROVE  /\ JobsOf(d) = RowsIn(d, "interaction_jobs") /\ RunsOf(d) = RowsIn(d, "interaction_runs")
         /\ \A table \in (JobData \cup {"discussion_mappings", "project_memories"}) :
              RowsIn(d, table) \cap Referring(d, T) = RowsIn(d, table)
         /\ T \in DOMAIN d => DOMAIN d \ Owned(d, T) =
              {l \in DOMAIN d : l.table \in {"model_profiles", "platform_connections"}}
<1>1. \A k \in DOMAIN d : IsKey(k) /\ d[k].refs = Needs(k) /\ Needs(k) \subseteq DOMAIN d
  BY DEF Tables, RowStands
<1>2. Tenant("t") = T
  BY DEF T
<1>3. ASSUME NEW k \in DOMAIN d, k.table \in TenantData \ {"review_findings", "interaction_run_metrics"}
      PROVE  k \in Referring(d, T)
  BY <1>1, <1>2, <1>3 DEF Referring, Needs, JobRefs, MappingRefs, TenantData, RunData, JobData
<1>4. ASSUME NEW k \in DOMAIN d, k.table \in {"review_findings", "interaction_run_metrics"}
      PROVE  \E l \in Referring(d, T) : k \in Referring(d, l)
  <2>1. Key("interaction_runs", k.id) \in Needs(k)
    BY <1>4 DEF Needs, RunRefs, RunData, JobData
  <2>2. Key("interaction_runs", k.id) \in DOMAIN d /\ Key("interaction_runs", k.id).table = "interaction_runs"
    BY <1>1, <2>1 DEF Key
  <2>3. Key("interaction_runs", k.id) \in Referring(d, T)
    BY <1>3, <2>2 DEF TenantData, JobData
  <2>4. QED
    BY <1>1, <2>1, <2>3 DEF Referring
<1>5. ASSUME NEW k \in DOMAIN d, k.table \in {"model_profiles", "platform_connections"}
      PROVE  d[k].refs = {} /\ k # T
  BY <1>1, <1>5 DEF Needs, T, Tenant, Key
<1>6. ASSUME NEW k \in DOMAIN d, k.table = "tenants"
      PROVE  k = T
  BY <1>1, <1>6 DEF IsKey, T, Tenant
<1>7. ASSUME T \in DOMAIN d
      PROVE  \A k \in DOMAIN d : k \in Owned(d, T) <=> k.table \notin {"model_profiles", "platform_connections"}
  <2>1. ASSUME NEW k \in DOMAIN d, k.table \in {"model_profiles", "platform_connections"}
        PROVE  k \notin Owned(d, T)
    BY <1>5, <2>1 DEF Owned, Referring
  <2>2. ASSUME NEW k \in DOMAIN d, k.table \notin {"model_profiles", "platform_connections"}
        PROVE  k \in Owned(d, T)
    <3>1. k.table \in TenantData \cup {"tenants"}
      BY <1>1, <2>2 DEF IsKey
    <3>2. k = T \/ k \in Referring(d, T) \/ \E l \in Referring(d, T) : k \in Referring(d, l)
      BY <1>3, <1>4, <1>6, <3>1
    <3>3. QED
      BY <3>2 DEF Owned
  <2>3. QED
    BY <2>1, <2>2
<1>8. \A table \in (JobData \cup {"discussion_mappings", "project_memories", "interaction_jobs"}) :
        RowsIn(d, table) \cap Referring(d, T) = RowsIn(d, table)
  BY <1>3 DEF RowsIn, TenantData, JobData, RunData
<1>9. JobsOf(d) = RowsIn(d, "interaction_jobs") /\ RunsOf(d) = RowsIn(d, "interaction_runs")
  BY <1>8 DEF JobsOf, RunsOf, JobData
<1>10. QED
  BY <1>7, <1>8, <1>9

Unclaimed(d) == \A k \in RowsIn(d, "interaction_jobs") : d[k].value # "in_progress"

\* The promise of a removal: only profiles and connections are left.
LEMMA RemovalPromised ==
  ASSUME NEW d, Tables(d), NEW cmd, cmd.op = "remove tenant"
  PROVE  Promised(d, cmd) = IF T \in DOMAIN d /\ Unclaimed(d) THEN Done(Rest(d)) ELSE Refused(d)
<1>1. (\A j \in AdminJobs : Job(j) \in DOMAIN d => d[Job(j)].value # "in_progress") <=> Unclaimed(d)
  <2>1. \A k \in RowsIn(d, "interaction_jobs") : k = Job(k.id) /\ k.id \in AdminJobs
    BY DEF Tables, RowStands, IsKey, RowsIn, Job
  <2>2. \A j \in AdminJobs : Job(j) \in DOMAIN d => Job(j) \in RowsIn(d, "interaction_jobs")
    BY DEF Job, Key, RowsIn
  <2>3. \A k \in RowsIn(d, "interaction_jobs") : k \in DOMAIN d
    BY DEF RowsIn
  <2>4. QED
    BY <2>1, <2>2, <2>3 DEF Unclaimed
<1>2. T \in DOMAIN d => [k \in DOMAIN d \ Owned(d, T) |-> d[k]] = Rest(d)
  BY OwnedRows DEF Rest
<1>3. QED
  BY <1>1, <1>2, Promises

\* Those are left as they are by whatever spares their tables.
LEMMA SameRest ==
  ASSUME NEW d, NEW e, DOMAIN e \subseteq DOMAIN d,
         \A k \in DOMAIN d : k.table \in {"model_profiles", "platform_connections"} => k \in DOMAIN e /\ e[k] = d[k]
  PROVE  Rest(e) = Rest(d)
BY DEF Rest

Remaining(d, keys) == [k \in DOMAIN d \ keys |-> d[k]]

\* A table that no row refers to any more is cleared without a cascade.
LEMMA TableCleared ==
  ASSUME NEW d, Tables(d), NEW table \in TenantData,
         \A k \in DOMAIN d : \A l \in Needs(k) : l.table # table,
         NEW keys, keys = RowsIn(d, table), NEW e, e = Delete(d, keys)
  PROVE  /\ MayDelete(d, keys) /\ Rest(e) = Rest(d)
         /\ e = Remaining(d, keys)
<1>1. \A k \in DOMAIN d : d[k].refs \cap keys = {}
  BY DEF Tables, RowStands, RowsIn
<1>2. MayDelete(d, keys)
  BY <1>1 DEF MayDelete
<1>3. WithCascade(d, keys) = keys
  BY <1>1 DEF WithCascade, RowsIn
<1>4. e = [k \in DOMAIN d \ keys |-> d[k]]
  BY <1>3 DEF Delete
<1>5. \A k \in keys : k.table \notin {"model_profiles", "platform_connections"}
  BY DEF RowsIn, TenantData, RunData, JobData
<1>6. Rest(e) = Rest(d)
  BY <1>4, <1>5, SameRest
<1>7. QED
  BY <1>2, <1>4, <1>6 DEF Remaining

RunsKnown == {"mappings", "metrics", "findings", "snapshots", "memory", "runs"}
JobsKnown == RunsKnown \cup {"requests", "delete jobs"}

\* The removal goes on to the next label once it has cleared a table.
Clears(a, label, keys, table) ==
  /\ table \in TenantData /\ \A k \in keys : k.table = table
  /\ table = "interaction_jobs" => Mutable(db, keys)
  /\ Undisturbed(admin[a]) =>
       keys = RowsIn(db, table) /\ \A k \in DOMAIN db : \A l \in Needs(k) : l.table # table
  /\ Cleared(label) = Cleared(admin[a].at) \cup {table}
  /\ label \in RunsKnown => admin[a].at \in RunsKnown /\ table # "interaction_runs"
  /\ label \in JobsKnown => admin[a].at \in JobsKnown /\ table # "interaction_jobs"

\* It owes as much as before.
LEMMA RemovalStands ==
  ASSUME AdminInv, NEW a \in Admins, Engaged(a), admin[a].cmd.op = "remove tenant", admin[a].at # "start",
         UNCHANGED <<served, commands>>,
         NEW label, label \notin {"idle", "end", "cancel", "start", "put clear", "put"},
         NEW keys, Removes(a, label, keys), NEW table, Clears(a, label, keys, table)
  PROVE  Stands
<1> /\ table \in TenantData /\ \A k \in keys : k.table = table
    /\ table = "interaction_jobs" => Mutable(db, keys)
    /\ Undisturbed(admin[a]) => keys = RowsIn(db, table)
    /\ Undisturbed(admin[a]) => \A k \in DOMAIN db : \A l \in Needs(k) : l.table # table
    /\ Cleared(label) = Cleared(admin[a].at) \cup {table}
    /\ label \in RunsKnown => admin[a].at \in RunsKnown /\ table # "interaction_runs"
    /\ label \in JobsKnown => admin[a].at \in JobsKnown /\ table # "interaction_jobs"
  BY DEF Clears
<1>1. Tables(db) /\ ProcessOK(admin[a]) /\ OnTrack(admin[a], db)
  BY DEF AdminInv
<1>2. Undisturbed(admin[a]) => KnowsTenant(admin[a], db)
  BY <1>1 DEF OnTrack, Engaged, Knows
<1>3. CASE MayDelete(db, keys)
  <2>1. PICK d : d = Delete(db, keys)
    OBVIOUS
  <2>2. Writes(a, label, d)
    BY <1>3, <2>1 DEF Removes
  <2>3. Tables(d)
    BY <1>1, <1>3, <2>1, ProfileKeys, DeletionStands DEF TenantData, RunData, JobData
  <2>4. Spares(db, d)
    BY <2>1, DeletionSpares DEF Mutable
  <2>5. ASSUME Undisturbed(admin[a])
        PROVE  /\ Promised(d, admin[a].cmd) = Promised(db, admin[a].cmd)
               /\ Knows(Went(admin[a], label, admin[a].read, admin[a].outcome), d)
    <3>1. /\ Rest(d) = Rest(db)
          /\ DOMAIN d = DOMAIN db \ RowsIn(db, table) /\ \A k \in DOMAIN d : d[k] = db[k]
      <4>1. keys = RowsIn(db, table) /\ \A k \in DOMAIN db : \A l \in Needs(k) : l.table # table
        BY <2>5
      <4>2. Rest(d) = Rest(db) /\ d = Remaining(db, keys)
        BY <1>1, <2>1, <4>1, TableCleared
      <4>3. QED
        BY <4>1, <4>2 DEF Remaining
    <3>2. /\ RowsIn(d, table) = {}
          /\ \A other : other # table => RowsIn(d, other) = RowsIn(db, other)
          /\ \A other : RowsIn(db, other) = {} => RowsIn(d, other) = {}
      BY <3>1 DEF RowsIn
    <3>3. T \in DOMAIN d <=> T \in DOMAIN db
      BY <3>1 DEF RowsIn, T, Tenant, Key, TenantData, RunData, JobData
    <3>4. T \in DOMAIN db /\ Unclaimed(db)
      BY <1>2, <2>5 DEF KnowsTenant, Unclaimed
    <3>5. Unclaimed(d)
      BY <3>1, <3>4 DEF Unclaimed, RowsIn
    <3>6. Promised(d, admin[a].cmd) = Promised(db, admin[a].cmd)
      BY <1>1, <2>3, <3>1, <3>3, <3>4, <3>5, RemovalPromised
    <3>7. PICK q : q = Went(admin[a], label, admin[a].read, admin[a].outcome)
      OBVIOUS
    <3>8. q.cmd.op = "remove tenant" /\ q.at = label /\ q.read = admin[a].read
      BY <3>7 DEF Went
    <3>9. \A other \in Cleared(label) : RowsIn(d, other) = {}
      BY <1>2, <2>5, <3>2 DEF KnowsTenant
    <3>10. label \in RunsKnown => Listed(q.read, "interaction_runs") = RowsIn(d, "interaction_runs")
      BY <1>2, <2>5, <3>2, <3>8 DEF KnowsTenant, RunsKnown
    <3>11. label \in JobsKnown => Listed(q.read, "interaction_jobs") = RowsIn(d, "interaction_jobs")
      BY <1>2, <2>5, <3>2, <3>8 DEF KnowsTenant, JobsKnown, RunsKnown
    <3>12. KnowsTenant(q, d)
      BY <3>3, <3>4, <3>5, <3>8, <3>9, <3>10, <3>11 DEF KnowsTenant, Unclaimed, RunsKnown, JobsKnown
    <3>13. Knows(q, d)
      BY <3>8, <3>12 DEF Knows, KnowsDefaults, KnowsConnection
    <3>14. QED
      BY <3>6, <3>7, <3>13
  <2>6. QED
    BY <2>2, <2>3, <2>4, <2>5, WriteStands
<1>4. CASE ~MayDelete(db, keys)
  <2>1. Refuse(a)
    BY <1>4 DEF Removes
  <2>2. ASSUME Undisturbed(admin[a]) PROVE FALSE
    <3>1. keys = RowsIn(db, table) /\ \A k \in DOMAIN db : \A l \in Needs(k) : l.table # table
      BY <2>2
    <3>2. PICK d : d = Delete(db, keys)
      OBVIOUS
    <3>3. QED
      BY <1>1, <1>4, <3>1, <3>2, TableCleared
  <2>3. QED
    BY <2>1, <2>2, RefusalStands
<1>5. QED
  BY <1>3, <1>4

\* What a call of the removal may build on.
LEMMA Removing ==
  ASSUME AdminInv, NEW a \in Admins, NEW label, At(a, "remove tenant", label), label \notin {"idle", "end"}
  PROVE  /\ Engaged(a) /\ admin[a].cmd.op = "remove tenant" /\ admin[a].at = label
         /\ Tables(db)
         /\ Undisturbed(admin[a]) =>
              /\ Promised(db, admin[a].cmd) = IF T \in DOMAIN db /\ Unclaimed(db) THEN Done(Rest(db)) ELSE Refused(db)
              /\ KnowsTenant(admin[a], db)
<1>1. Engaged(a) /\ Tables(db) /\ (Undisturbed(admin[a]) => Knows(admin[a], db))
  BY AtCall
<1>2. admin[a].cmd.op = "remove tenant" /\ admin[a].at = label
  BY DEF At
<1>3. Promised(db, admin[a].cmd) = IF T \in DOMAIN db /\ Unclaimed(db) THEN Done(Rest(db)) ELSE Refused(db)
  BY <1>1, <1>2, RemovalPromised
<1>4. QED
  BY <1>1, <1>2, <1>3 DEF Knows

\* The removal is refused while a job is claimed.
LEMMA FindsWork ==
  ASSUME AdminInv, NEW a \in Admins, FindWork(a), UNCHANGED <<served, commands>>
  PROVE  Stands
<1>1. /\ Engaged(a) /\ admin[a].cmd.op = "remove tenant" /\ admin[a].at = "start" /\ Tables(db)
      /\ Undisturbed(admin[a]) =>
           Promised(db, admin[a].cmd) = IF T \in DOMAIN db /\ Unclaimed(db) THEN Done(Rest(db)) ELSE Refused(db)
  BY Removing DEF FindWork
<1>2. JobsOf(db) = RowsIn(db, "interaction_jobs")
  BY <1>1, OwnedRows
<1>3. CASE T \in DOMAIN db /\ Unclaimed(db)
  <2>1. Reads(a, "jobs", {})
    BY <1>2, <1>3 DEF FindWork, Unclaimed
  <2>2. PICK q : q = Went(admin[a], "jobs", {}, admin[a].outcome)
    OBVIOUS
  <2>3. q.cmd.op = "remove tenant" /\ q.at = "jobs"
    BY <1>1, <2>2 DEF Went
  <2>4. Knows(q, db)
    BY <1>3, <2>3 DEF Knows, KnowsDefaults, KnowsConnection, KnowsTenant, Unclaimed, Cleared
  <2>5. QED
    BY <1>1, <2>1, <2>2, <2>4, ReadStands
<1>4. CASE ~(T \in DOMAIN db /\ Unclaimed(db))
  <2>1. Refuse(a)
    BY <1>2, <1>4 DEF FindWork, Unclaimed
  <2>2. QED
    BY <1>1, <1>4, <2>1, RefusalStands
<1>5. QED
  BY <1>3, <1>4

\* The jobs to be cancelled are listed,
LEMMA ListsQueued ==
  ASSUME AdminInv, NEW a \in Admins, ListQueued(a), UNCHANGED <<served, commands>>
  PROVE  Stands
<1>1. /\ Engaged(a) /\ admin[a].cmd.op = "remove tenant" /\ admin[a].at = "jobs" /\ Tables(db)
      /\ Undisturbed(admin[a]) => KnowsTenant(admin[a], db)
  BY Removing DEF ListQueued
<1>2. JobsOf(db) = RowsIn(db, "interaction_jobs")
  BY <1>1, OwnedRows
<1>3. PICK rows : rows = {k \in JobsOf(db) : db[k].value = "queued"}
  OBVIOUS
<1>4. Reads(a, "cancel", rows)
  BY <1>3 DEF ListQueued
<1>5. rows \subseteq RowsIn(db, "interaction_jobs")
  BY <1>2, <1>3
<1>6. \A k \in rows : k.table = "interaction_jobs"
  BY <1>5 DEF RowsIn
<1>7. PICK q : q = Went(admin[a], "cancel", rows, admin[a].outcome)
  OBVIOUS
<1>8. q.cmd.op = "remove tenant" /\ q.at = "cancel" /\ q.read = rows
  BY <1>1, <1>7 DEF Went
<1>9. Undisturbed(admin[a]) => Knows(q, db)
  BY <1>1, <1>5, <1>8 DEF Knows, KnowsDefaults, KnowsConnection, KnowsTenant, Cleared
<1>10. QED
  BY <1>1, <1>4, <1>6, <1>7, <1>9, ReadStands

\* and cancelled, all of them or none.
LEMMA CancelsQueued ==
  ASSUME AdminInv, NEW a \in Admins, CancelQueued(a), UNCHANGED <<served, commands>>
  PROVE  Stands
<1> DEFINE jobs == admin[a].read
<1>1. /\ Engaged(a) /\ admin[a].cmd.op = "remove tenant" /\ admin[a].at = "cancel" /\ Tables(db)
      /\ Undisturbed(admin[a]) => KnowsTenant(admin[a], db)
  BY Removing DEF CancelQueued
<1>2. \A k \in jobs : k.table = "interaction_jobs"
  BY <1>1 DEF AdminInv, ProcessOK
<1>3. Undisturbed(admin[a]) =>
        /\ jobs \subseteq RowsIn(db, "interaction_jobs") /\ T \in DOMAIN db /\ Unclaimed(db)
  BY <1>1 DEF KnowsTenant, Unclaimed
<1>4. CASE jobs \subseteq DOMAIN db /\ Mutable(db, jobs)
  <2>1. PICK d : d = Cancelled(db, jobs)
    OBVIOUS
  <2>2. Writes(a, "summary", d)
    BY <1>4, <2>1 DEF CancelQueued
  <2>3. /\ Tables(d) /\ DOMAIN d = DOMAIN db
        /\ \A k \in DOMAIN db : d[k] =
             [refs |-> Needs(k), value |-> IF k \in jobs THEN "cancelled" ELSE db[k].value]
    <3>1. Tables(d) /\ CancelledFrom(db, jobs, d)
      BY <1>1, <1>2, <2>1, CancellationStands
    <3>2. QED
      BY <3>1 DEF CancelledFrom
  <2>4. \A k \in DOMAIN db : k \notin jobs => d[k] = db[k]
    BY <1>1, <2>3 DEF Tables, RowStands
  <2>5. Spares(db, d)
    BY <1>4, <2>3, <2>4 DEF Spares, Mutable
  <2>6. ASSUME Undisturbed(admin[a])
        PROVE  /\ Promised(d, admin[a].cmd) = Promised(db, admin[a].cmd)
               /\ Knows(Went(admin[a], "summary", admin[a].read, admin[a].outcome), d)
    <3>1. T \in DOMAIN db /\ T \in DOMAIN d /\ Unclaimed(db)
      BY <1>3, <2>3, <2>6
    <3>2. Unclaimed(d)
      <4>1. ASSUME NEW k \in RowsIn(d, "interaction_jobs") PROVE d[k].value # "in_progress"
        <5>1. k \in RowsIn(db, "interaction_jobs")
          BY <2>3 DEF RowsIn
        <5>2. d[k].value = "cancelled" \/ d[k].value = db[k].value
          BY <2>3, <5>1 DEF RowsIn
        <5>3. QED
          BY <3>1, <5>1, <5>2 DEF Unclaimed
      <4>2. QED
        BY <4>1 DEF Unclaimed
    <3>3. Rest(d) = Rest(db)
      BY <1>2, <2>3, <2>4, SameRest
    <3>4. Promised(d, admin[a].cmd) = Promised(db, admin[a].cmd)
      BY <1>1, <2>3, <3>1, <3>2, <3>3, RemovalPromised
    <3>5. PICK q : q = Went(admin[a], "summary", admin[a].read, admin[a].outcome)
      OBVIOUS
    <3>6. q.cmd.op = "remove tenant" /\ q.at = "summary"
      BY <1>1, <3>5 DEF Went
    <3>7. Knows(q, d)
      BY <3>1, <3>2, <3>6 DEF Knows, KnowsDefaults, KnowsConnection, KnowsTenant, Unclaimed, Cleared
    <3>8. QED
      BY <3>4, <3>5, <3>7
  <2>7. QED
    BY <1>1, <2>2, <2>3, <2>5, <2>6, WriteStands
<1>5. CASE ~(jobs \subseteq DOMAIN db /\ Mutable(db, jobs))
  <2>1. Refuse(a)
    BY <1>5 DEF CancelQueued
  <2>2. ~Undisturbed(admin[a])
    BY <1>3, <1>5 DEF Unclaimed, Mutable, RowsIn
  <2>3. QED
    BY <1>1, <2>1, <2>2, RefusalStands
<1>6. QED
  BY <1>4, <1>5

\* The jobs and runs that are there now are all that the rest goes by.
LEMMA Summarises ==
  ASSUME AdminInv, NEW a \in Admins, Summarise(a), UNCHANGED <<served, commands>>
  PROVE  Stands
<1>1. /\ Engaged(a) /\ admin[a].cmd.op = "remove tenant" /\ admin[a].at = "summary" /\ Tables(db)
      /\ Undisturbed(admin[a]) => KnowsTenant(admin[a], db)
  BY Removing DEF Summarise
<1>2. JobsOf(db) = RowsIn(db, "interaction_jobs") /\ RunsOf(db) = RowsIn(db, "interaction_runs")
  BY <1>1, OwnedRows
<1>3. PICK rows : rows = JobsOf(db) \cup RunsOf(db)
  OBVIOUS
<1>4. Reads(a, "mappings", rows)
  BY <1>3 DEF Summarise
<1>5. /\ Listed(rows, "interaction_runs") = RowsIn(db, "interaction_runs")
      /\ Listed(rows, "interaction_jobs") = RowsIn(db, "interaction_jobs")
  BY <1>2, <1>3 DEF Listed, RowsIn
<1>6. PICK q : q = Went(admin[a], "mappings", rows, admin[a].outcome)
  OBVIOUS
<1>7. q.cmd.op = "remove tenant" /\ q.at = "mappings" /\ q.read = rows
  BY <1>1, <1>6 DEF Went
<1>8. Undisturbed(admin[a]) => Knows(q, db)
  BY <1>1, <1>5, <1>7 DEF Knows, KnowsDefaults, KnowsConnection, KnowsTenant, Cleared
<1>9. QED
  BY <1>1, <1>4, <1>6, <1>8, ReadStands

\* The tables are cleared from the ones that nothing refers to up to the tenant.
LEMMA RemovesMappings ==
  ASSUME AdminInv, NEW a \in Admins, RemoveMappings(a), UNCHANGED <<served, commands>>
  PROVE  Stands
<1>1. /\ Engaged(a) /\ admin[a].cmd.op = "remove tenant" /\ admin[a].at = "mappings" /\ Tables(db)
      /\ Undisturbed(admin[a]) => KnowsTenant(admin[a], db)
  BY Removing DEF RemoveMappings
<1>2. PICK keys : keys = OfTenant("discussion_mappings")
  OBVIOUS
<1>3. Removes(a, "metrics", keys)
  BY <1>2 DEF RemoveMappings
<1>4. \A k \in keys : k.table = "discussion_mappings"
  BY <1>2 DEF OfTenant, RowsIn
<1>5. Cleared("metrics") = Cleared(admin[a].at) \cup {"discussion_mappings"}
  BY <1>1 DEF Cleared, RunData, JobData, TenantData
<1>6. keys = RowsIn(db, "discussion_mappings")
  BY <1>1, <1>2, OwnedRows DEF OfTenant, JobData
<1>7. \A k \in DOMAIN db : \A l \in Needs(k) : l.table # "discussion_mappings"
  BY <1>1, NeedsTables DEF Tables, RowStands
<1>8. Clears(a, "metrics", keys, "discussion_mappings")
  BY <1>1, <1>4, <1>5, <1>6, <1>7 DEF Clears, RunsKnown, JobsKnown, TenantData, RunData, JobData
<1>9. QED
  BY <1>1, <1>3, <1>8, RemovalStands

\* Metrics and findings are found through the runs that were summarised.
LEMMA RemovesMetrics ==
  ASSUME AdminInv, NEW a \in Admins, RemoveMetrics(a), UNCHANGED <<served, commands>>
  PROVE  Stands
<1>1. /\ Engaged(a) /\ admin[a].cmd.op = "remove tenant" /\ admin[a].at = "metrics" /\ Tables(db)
      /\ Undisturbed(admin[a]) => KnowsTenant(admin[a], db)
  BY Removing DEF RemoveMetrics
<1>2. PICK keys : keys = OfRuns(a, "interaction_run_metrics")
  OBVIOUS
<1>3. Removes(a, "findings", keys)
  BY <1>2 DEF RemoveMetrics
<1>4. \A k \in keys : k.table = "interaction_run_metrics"
  BY <1>2 DEF OfRuns, RowsIn
<1>5. Cleared("findings") = Cleared(admin[a].at) \cup {"interaction_run_metrics"}
  BY <1>1 DEF Cleared, RunData, JobData, TenantData
<1>6. Undisturbed(admin[a]) => keys = RowsIn(db, "interaction_run_metrics")
  <2>1. ASSUME Undisturbed(admin[a]), NEW k \in RowsIn(db, "interaction_run_metrics")
        PROVE  db[k].refs \cap admin[a].read # {}
    <3>1. k \in DOMAIN db /\ IsKey(k) /\ db[k].refs = Needs(k)
          /\ Needs(k) \subseteq DOMAIN db /\ k.table = "interaction_run_metrics"
      <4>1. k \in DOMAIN db /\ k.table = "interaction_run_metrics"
        BY <2>1 DEF RowsIn
      <4>2. RowStands(db, k)
        BY <1>1, <4>1 DEF Tables
      <4>3. QED
        BY <4>1, <4>2 DEF RowStands
    <3>2. Key("interaction_runs", k.id) \in db[k].refs
      BY <3>1 DEF Needs, RunRefs, JobData
    <3>3. Key("interaction_runs", k.id) \in RowsIn(db, "interaction_runs")
      BY <3>1, <3>2 DEF RowsIn, Key
    <3>4. Listed(admin[a].read, "interaction_runs") = RowsIn(db, "interaction_runs")
      BY <1>1, <2>1 DEF KnowsTenant
    <3>5. Key("interaction_runs", k.id) \in admin[a].read
      BY <3>3, <3>4 DEF Listed
    <3>6. QED
      BY <3>2, <3>5
  <2>2. QED
    BY <1>2, <2>1 DEF OfRuns
<1>7. \A k \in DOMAIN db : \A l \in Needs(k) : l.table # "interaction_run_metrics"
  BY <1>1, NeedsTables DEF Tables, RowStands
<1>8. Clears(a, "findings", keys, "interaction_run_metrics")
  BY <1>1, <1>4, <1>5, <1>6, <1>7 DEF Clears, RunsKnown, JobsKnown, TenantData, RunData, JobData
<1>9. QED
  BY <1>1, <1>3, <1>8, RemovalStands

LEMMA RemovesFindings ==
  ASSUME AdminInv, NEW a \in Admins, RemoveFindings(a), UNCHANGED <<served, commands>>
  PROVE  Stands
<1>1. /\ Engaged(a) /\ admin[a].cmd.op = "remove tenant" /\ admin[a].at = "findings" /\ Tables(db)
      /\ Undisturbed(admin[a]) => KnowsTenant(admin[a], db)
  BY Removing DEF RemoveFindings
<1>2. PICK keys : keys = OfRuns(a, "review_findings")
  OBVIOUS
<1>3. Removes(a, "snapshots", keys)
  BY <1>2 DEF RemoveFindings
<1>4. \A k \in keys : k.table = "review_findings"
  BY <1>2 DEF OfRuns, RowsIn
<1>5. Cleared("snapshots") = Cleared(admin[a].at) \cup {"review_findings"}
  BY <1>1 DEF Cleared, RunData, JobData, TenantData
<1>6. Undisturbed(admin[a]) => keys = RowsIn(db, "review_findings")
  <2>1. ASSUME Undisturbed(admin[a]), NEW k \in RowsIn(db, "review_findings")
        PROVE  db[k].refs \cap admin[a].read # {}
    <3>1. k \in DOMAIN db /\ IsKey(k) /\ db[k].refs = Needs(k)
          /\ Needs(k) \subseteq DOMAIN db /\ k.table = "review_findings"
      <4>1. k \in DOMAIN db /\ k.table = "review_findings"
        BY <2>1 DEF RowsIn
      <4>2. RowStands(db, k)
        BY <1>1, <4>1 DEF Tables
      <4>3. QED
        BY <4>1, <4>2 DEF RowStands
    <3>2. Key("interaction_runs", k.id) \in db[k].refs
      BY <3>1 DEF Needs, RunRefs, JobData
    <3>3. Key("interaction_runs", k.id) \in RowsIn(db, "interaction_runs")
      BY <3>1, <3>2 DEF RowsIn, Key
    <3>4. Listed(admin[a].read, "interaction_runs") = RowsIn(db, "interaction_runs")
      BY <1>1, <2>1 DEF KnowsTenant
    <3>5. Key("interaction_runs", k.id) \in admin[a].read
      BY <3>3, <3>4 DEF Listed
    <3>6. QED
      BY <3>2, <3>5
  <2>2. QED
    BY <1>2, <2>1 DEF OfRuns
<1>7. \A k \in DOMAIN db : \A l \in Needs(k) : l.table # "review_findings"
  BY <1>1, NeedsTables DEF Tables, RowStands
<1>8. Clears(a, "snapshots", keys, "review_findings")
  BY <1>1, <1>4, <1>5, <1>6, <1>7 DEF Clears, RunsKnown, JobsKnown, TenantData, RunData, JobData
<1>9. QED
  BY <1>1, <1>3, <1>8, RemovalStands

LEMMA RemovesSnapshots ==
  ASSUME AdminInv, NEW a \in Admins, RemoveSnapshots(a), UNCHANGED <<served, commands>>
  PROVE  Stands
<1>1. /\ Engaged(a) /\ admin[a].cmd.op = "remove tenant" /\ admin[a].at = "snapshots" /\ Tables(db)
      /\ Undisturbed(admin[a]) => KnowsTenant(admin[a], db)
  BY Removing DEF RemoveSnapshots
<1>2. PICK keys : keys = OfTenant("code_review_snapshots")
  OBVIOUS
<1>3. Removes(a, "memory", keys)
  BY <1>2 DEF RemoveSnapshots
<1>4. \A k \in keys : k.table = "code_review_snapshots"
  BY <1>2 DEF OfTenant, RowsIn
<1>5. Cleared("memory") = Cleared(admin[a].at) \cup {"code_review_snapshots"}
  BY <1>1 DEF Cleared, RunData, JobData, TenantData
<1>6. keys = RowsIn(db, "code_review_snapshots")
  BY <1>1, <1>2, OwnedRows DEF OfTenant, JobData
<1>7. \A k \in DOMAIN db : \A l \in Needs(k) : l.table # "code_review_snapshots"
  BY <1>1, NeedsTables DEF Tables, RowStands
<1>8. Clears(a, "memory", keys, "code_review_snapshots")
  BY <1>1, <1>4, <1>5, <1>6, <1>7 DEF Clears, RunsKnown, JobsKnown, TenantData, RunData, JobData
<1>9. QED
  BY <1>1, <1>3, <1>8, RemovalStands

LEMMA RemovesMemory ==
  ASSUME AdminInv, NEW a \in Admins, RemoveMemory(a), UNCHANGED <<served, commands>>
  PROVE  Stands
<1>1. /\ Engaged(a) /\ admin[a].cmd.op = "remove tenant" /\ admin[a].at = "memory" /\ Tables(db)
      /\ Undisturbed(admin[a]) => KnowsTenant(admin[a], db)
  BY Removing DEF RemoveMemory
<1>2. PICK keys : keys = OfTenant("project_memories")
  OBVIOUS
<1>3. Removes(a, "runs", keys)
  BY <1>2 DEF RemoveMemory
<1>4. \A k \in keys : k.table = "project_memories"
  BY <1>2 DEF OfTenant, RowsIn
<1>5. Cleared("runs") = Cleared(admin[a].at) \cup {"project_memories"}
  BY <1>1 DEF Cleared, RunData, JobData, TenantData
<1>6. keys = RowsIn(db, "project_memories")
  BY <1>1, <1>2, OwnedRows DEF OfTenant, JobData
<1>7. \A k \in DOMAIN db : \A l \in Needs(k) : l.table # "project_memories"
  BY <1>1, NeedsTables DEF Tables, RowStands
<1>8. Clears(a, "runs", keys, "project_memories")
  BY <1>1, <1>4, <1>5, <1>6, <1>7 DEF Clears, RunsKnown, JobsKnown, TenantData, RunData, JobData
<1>9. QED
  BY <1>1, <1>3, <1>8, RemovalStands

\* Runs are deleted by the summary once nothing refers to them,
LEMMA RemovesRuns ==
  ASSUME AdminInv, NEW a \in Admins, RemoveRuns(a), UNCHANGED <<served, commands>>
  PROVE  Stands
<1>1. /\ Engaged(a) /\ admin[a].cmd.op = "remove tenant" /\ admin[a].at = "runs" /\ Tables(db)
      /\ Undisturbed(admin[a]) => KnowsTenant(admin[a], db)
  BY Removing DEF RemoveRuns
<1>2. PICK keys : keys = ReadOf(a, "interaction_runs")
  OBVIOUS
<1>3. Removes(a, "requests", keys)
  BY <1>2 DEF RemoveRuns
<1>4. \A k \in keys : k.table = "interaction_runs"
  BY <1>2 DEF ReadOf
<1>5. Cleared("requests") = Cleared(admin[a].at) \cup {"interaction_runs"}
  BY <1>1 DEF Cleared, RunData, JobData, TenantData
<1>6. Undisturbed(admin[a]) => keys = RowsIn(db, "interaction_runs")
  BY <1>1, <1>2 DEF KnowsTenant, Listed, ReadOf
<1>7. Undisturbed(admin[a]) => \A k \in DOMAIN db : \A l \in Needs(k) : l.table # "interaction_runs"
  <2>1. ASSUME Undisturbed(admin[a]), NEW k \in DOMAIN db
        PROVE  k.table \notin RunData
    BY <1>1, <2>1 DEF KnowsTenant, Cleared, RowsIn, RunData
  <2>2. QED
    BY <1>1, <2>1, NeedsTables DEF Tables, RowStands
<1>8. Clears(a, "requests", keys, "interaction_runs")
  BY <1>1, <1>4, <1>5, <1>6, <1>7 DEF Clears, RunsKnown, JobsKnown, TenantData, RunData, JobData
<1>9. QED
  BY <1>1, <1>3, <1>8, RemovalStands

LEMMA RemovesRequests ==
  ASSUME AdminInv, NEW a \in Admins, RemoveRequests(a), UNCHANGED <<served, commands>>
  PROVE  Stands
<1>1. /\ Engaged(a) /\ admin[a].cmd.op = "remove tenant" /\ admin[a].at = "requests" /\ Tables(db)
      /\ Undisturbed(admin[a]) => KnowsTenant(admin[a], db)
  BY Removing DEF RemoveRequests
<1>2. PICK keys : keys = OfTenant("interaction_requests")
  OBVIOUS
<1>3. Removes(a, "delete jobs", keys)
  BY <1>2 DEF RemoveRequests
<1>4. \A k \in keys : k.table = "interaction_requests"
  BY <1>2 DEF OfTenant, RowsIn
<1>5. Cleared("delete jobs") = Cleared(admin[a].at) \cup {"interaction_requests"}
  BY <1>1 DEF Cleared, RunData, JobData, TenantData
<1>6. keys = RowsIn(db, "interaction_requests")
  BY <1>1, <1>2, OwnedRows DEF OfTenant, JobData
<1>7. \A k \in DOMAIN db : \A l \in Needs(k) : l.table # "interaction_requests"
  BY <1>1, NeedsTables DEF Tables, RowStands
<1>8. Clears(a, "delete jobs", keys, "interaction_requests")
  BY <1>1, <1>4, <1>5, <1>6, <1>7 DEF Clears, RunsKnown, JobsKnown, TenantData, RunData, JobData
<1>9. QED
  BY <1>1, <1>3, <1>8, RemovalStands

\* jobs too, unless one was claimed meanwhile,
LEMMA RemovesJobs ==
  ASSUME AdminInv, NEW a \in Admins, RemoveJobs(a), UNCHANGED <<served, commands>>
  PROVE  Stands
<1>1. /\ Engaged(a) /\ admin[a].cmd.op = "remove tenant" /\ admin[a].at = "delete jobs" /\ Tables(db)
      /\ Undisturbed(admin[a]) => KnowsTenant(admin[a], db)
  BY Removing DEF RemoveJobs
<1>2. PICK keys : keys = ReadOf(a, "interaction_jobs")
  OBVIOUS
<1>3. Undisturbed(admin[a]) => keys = RowsIn(db, "interaction_jobs")
  BY <1>1, <1>2 DEF KnowsTenant, Listed, ReadOf
<1>4. CASE Mutable(db, keys)
  <2>1. Removes(a, "tenant", keys)
    BY <1>2, <1>4 DEF RemoveJobs
  <2>2. \A k \in keys : k.table = "interaction_jobs"
    BY <1>2 DEF ReadOf
  <2>3. Cleared("tenant") = Cleared(admin[a].at) \cup {"interaction_jobs"}
    BY <1>1 DEF Cleared, TenantData
  <2>4. Undisturbed(admin[a]) => \A k \in DOMAIN db : \A l \in Needs(k) : l.table # "interaction_jobs"
    <3>1. ASSUME Undisturbed(admin[a]), NEW k \in DOMAIN db
          PROVE  k.table \notin JobData
      BY <1>1, <3>1 DEF KnowsTenant, Cleared, RowsIn
    <3>2. QED
      BY <1>1, <3>1, NeedsTables DEF Tables, RowStands
  <2>5. Clears(a, "tenant", keys, "interaction_jobs")
    BY <1>1, <1>3, <1>4, <2>2, <2>3, <2>4 DEF Clears, RunsKnown, JobsKnown, TenantData
  <2>6. QED
    BY <1>1, <2>1, <2>5, RemovalStands
<1>5. CASE ~Mutable(db, keys)
  <2>1. Refuse(a)
    BY <1>2, <1>5 DEF RemoveJobs
  <2>2. ~Undisturbed(admin[a])
    BY <1>1, <1>3, <1>5 DEF KnowsTenant, Mutable
  <2>3. QED
    BY <1>1, <2>1, <2>2, RefusalStands
<1>6. QED
  BY <1>4, <1>5

\* and then the tenant itself.
LEMMA RemovesTenantRow ==
  ASSUME AdminInv, NEW a \in Admins, RemoveTenantRow(a), UNCHANGED <<served, commands>>
  PROVE  Stands
<1>1. /\ Engaged(a) /\ admin[a].cmd.op = "remove tenant" /\ admin[a].at = "tenant" /\ Tables(db)
      /\ Undisturbed(admin[a]) =>
           /\ Promised(db, admin[a].cmd) = IF T \in DOMAIN db /\ Unclaimed(db) THEN Done(Rest(db)) ELSE Refused(db)
           /\ KnowsTenant(admin[a], db)
  BY Removing DEF RemoveTenantRow
<1>2. T.table = "tenants"
  BY DEF T, Tenant, Key
<1>3. ASSUME Undisturbed(admin[a])
      PROVE  MayDelete(db, {T}) /\ Promised(db, admin[a].cmd) = Done(Delete(db, {T}))
  <2>1. \A k \in DOMAIN db : k.table \notin TenantData
    BY <1>1, <1>3 DEF KnowsTenant, Cleared, RowsIn
  <2>2. ASSUME NEW k \in DOMAIN db PROVE T \notin db[k].refs
    <3>1. RowStands(db, k)
      BY <1>1 DEF Tables
    <3>2. IsKey(k) /\ db[k].refs = Needs(k)
      BY <3>1 DEF RowStands
    <3>3. QED
      BY <1>2, <2>1, <3>2, NeedsTables
  <2>3. MayDelete(db, {T}) /\ WithCascade(db, {T}) = {T}
    BY <2>2 DEF MayDelete, WithCascade, RowsIn
  <2>4. \A k \in DOMAIN db : k # T <=> k.table \in {"model_profiles", "platform_connections"}
    BY <1>1, <1>2, <2>1 DEF Tables, RowStands, IsKey, T, Tenant
  <2>5. Delete(db, {T}) = Rest(db)
    BY <2>3, <2>4 DEF Delete, Rest
  <2>6. T \in DOMAIN db /\ Unclaimed(db)
    BY <1>1, <1>3 DEF KnowsTenant, Unclaimed
  <2>7. QED
    BY <1>1, <1>3, <2>3, <2>5, <2>6
<1>4. CASE MayDelete(db, {T})
  <2>1. PICK d : d = Delete(db, {T})
    OBVIOUS
  <2>2. Ends(a, "done", d)
    BY <1>4, <2>1 DEF RemoveTenantRow
  <2>3. Tables(d)
    BY <1>1, <1>2, <1>4, <2>1, ProfileKeys, DeletionStands
  <2>4. Spares(db, d)
    BY <1>2, <2>1, DeletionSpares
  <2>5. Undisturbed(admin[a]) => Promised(db, admin[a].cmd) = [outcome |-> "done", left |-> d]
    BY <1>3, <2>1 DEF Done
  <2>6. QED
    BY <1>1, <2>2, <2>3, <2>4, <2>5, EndStands
<1>5. CASE ~MayDelete(db, {T})
  <2>1. Refuse(a)
    BY <1>5 DEF RemoveTenantRow
  <2>2. QED
    BY <1>1, <1>3, <1>5, <2>1, RefusalStands
<1>6. QED
  BY <1>4, <1>5

-----------------------------------------------------------------------------
(* The server, and processes that begin and end *)

\* The rows that the server and the runner put.
LEMMA RowKeys ==
  ASSUME NEW j
  PROVE  /\ \A table \in JobData : IsKey(Key(table, j)) /\ Needs(Key(table, j)) = JobRefs("t", j)
         /\ \A table \in {"review_findings", "interaction_run_metrics"} :
              IsKey(Key(table, j)) /\ Needs(Key(table, j)) = RunRefs(j)
         /\ IsKey(Key("discussion_mappings", j)) /\ Needs(Key("discussion_mappings", j)) = MappingRefs("t", j)
         /\ IsKey(Key("project_memories", "t")) /\ Needs(Key("project_memories", "t")) = {Tenant("t")}
         /\ j \in AdminJobs => IsKey(Job(j))
         /\ Needs(Job(j)) = {Tenant("t")}
<1>1. \A table : Key(table, j).table = table /\ Key(table, j).id = j
  BY DEF Key
<1>2. Key("project_memories", "t").table = "project_memories" /\ Key("project_memories", "t").id = "t"
  BY DEF Key
<1>3. ASSUME NEW table \in JobData
      PROVE  IsKey(Key(table, j)) /\ Needs(Key(table, j)) = JobRefs("t", j)
  BY <1>1 DEF IsKey, Needs, JobData, TenantData
<1>4. ASSUME NEW table \in {"review_findings", "interaction_run_metrics"}
      PROVE  IsKey(Key(table, j)) /\ Needs(Key(table, j)) = RunRefs(j)
  BY <1>1 DEF IsKey, Needs, JobData, RunData, TenantData
<1>5. IsKey(Key("discussion_mappings", j)) /\ Needs(Key("discussion_mappings", j)) = MappingRefs("t", j)
  BY <1>1 DEF IsKey, Needs, JobData, RunData, TenantData
<1>6. IsKey(Key("project_memories", "t")) /\ Needs(Key("project_memories", "t")) = {Tenant("t")}
  BY <1>2 DEF IsKey, Needs, T, TenantData
<1>7. (j \in AdminJobs => IsKey(Job(j))) /\ Needs(Job(j)) = {Tenant("t")}
  BY <1>1 DEF IsKey, Needs, Job, T, TenantData
<1>8. QED
  BY <1>3, <1>4, <1>5, <1>6, <1>7

HasJob(d, j) == T \in DOMAIN d /\ Job(j) \in DOMAIN d
HasRun(d, j) == HasJob(d, j) /\ Run(j) \in DOMAIN d

\* A job may be put for a tenant that is there,
LEMMA JobIsPut ==
  ASSUME NEW d, Tables(d), T \in DOMAIN d, NEW j \in AdminJobs, NEW v
  PROVE  Tables(UpsertJob(d, "t", j, v)) /\ HasJob(UpsertJob(d, "t", j, v), j)
<1>1. CASE Job(j) \in DOMAIN d
  BY <1>1 DEF UpsertJob, Job, HasJob
<1>2. CASE Job(j) \notin DOMAIN d
  <2>1. UpsertJob(d, "t", j, v) = Put(d, Job(j), {Tenant("t")}, v)
    BY <1>2 DEF UpsertJob, Job
  <2>2. IsKey(Job(j)) /\ Needs(Job(j)) = {Tenant("t")} /\ Tenant("t") = T
    BY RowKeys DEF T
  <2>3. Job(j).table = "interaction_jobs"
    BY DEF Job, Key
  <2>4. Tables(Put(d, Job(j), Needs(Job(j)), v))
    BY <2>2, <2>3, PutStands
  <2>5. HasJob(Put(d, Job(j), {Tenant("t")}, v), j)
    BY DEF Put, HasJob
  <2>6. QED
    BY <2>1, <2>2, <2>4, <2>5
<1>3. QED
  BY <1>1, <1>2

\* and has that tenant as long as it is there.
LEMMA JobsHaveTenants ==
  ASSUME NEW d, Tables(d), NEW j, Job(j) \in DOMAIN d
  PROVE  HasJob(d, j)
<1>1. RowStands(d, Job(j)) /\ Needs(Job(j)) = {Tenant("t")}
  BY RowKeys DEF Tables
<1>2. QED
  BY <1>1 DEF RowStands, HasJob, T

\* A job that is there may collect requests, snapshots, runs and memory,
LEMMA JobRowsPut ==
  ASSUME NEW d, Tables(d), NEW j, HasJob(d, j)
  PROVE  /\ Tables(RequestRow(d, "t", j)) /\ HasJob(RequestRow(d, "t", j), j)
         /\ Tables(SnapshotRow(d, "t", j)) /\ (HasRun(d, j) => HasRun(SnapshotRow(d, "t", j), j))
         /\ Tables(RunRow(d, "t", j)) /\ HasRun(RunRow(d, "t", j), j)
         /\ Tables(MemoryRow(d, "t"))
<1>1. ASSUME NEW table \in JobData
      PROVE  /\ Tables(Put(d, Key(table, j), JobRefs("t", j), "row"))
             /\ HasJob(Put(d, Key(table, j), JobRefs("t", j), "row"), j)
  <2>1. IsKey(Key(table, j)) /\ Needs(Key(table, j)) = JobRefs("t", j)
    BY RowKeys
  <2>2. JobRefs("t", j) \subseteq DOMAIN d
    BY DEF JobRefs, HasJob, Job, T
  <2>3. Key(table, j).table \notin {"model_profiles", "tenants"}
    BY DEF Key, JobData
  <2>4. Tables(Put(d, Key(table, j), Needs(Key(table, j)), "row"))
    BY <2>1, <2>2, <2>3, PutStands
  <2>5. HasJob(Put(d, Key(table, j), JobRefs("t", j), "row"), j)
    BY DEF Put, HasJob
  <2>6. QED
    BY <2>1, <2>4, <2>5
<1>2. Tables(RequestRow(d, "t", j)) /\ HasJob(RequestRow(d, "t", j), j)
  BY <1>1 DEF RequestRow, JobData
<1>3. Tables(SnapshotRow(d, "t", j)) /\ HasJob(SnapshotRow(d, "t", j), j)
  BY <1>1 DEF SnapshotRow, JobData
<1>4. HasRun(d, j) => HasRun(SnapshotRow(d, "t", j), j)
  BY DEF SnapshotRow, Put, HasRun, HasJob
<1>5. Tables(RunRow(d, "t", j)) /\ HasJob(RunRow(d, "t", j), j)
  BY <1>1 DEF RunRow, JobData
<1>6. Run(j) \in DOMAIN RunRow(d, "t", j)
  BY DEF RunRow, Put, Run
<1>7. Tables(MemoryRow(d, "t"))
  <2>1. IsKey(Key("project_memories", "t")) /\ Needs(Key("project_memories", "t")) = {Tenant("t")}
    BY RowKeys
  <2>2. {Tenant("t")} \subseteq DOMAIN d
    BY DEF HasJob, T
  <2>3. Key("project_memories", "t").table \notin {"model_profiles", "tenants"}
    BY DEF Key
  <2>4. Tables(Put(d, Key("project_memories", "t"), Needs(Key("project_memories", "t")), "row"))
    BY <2>1, <2>2, <2>3, PutStands
  <2>5. QED
    BY <2>1, <2>4 DEF MemoryRow
<1>8. QED
  BY <1>2, <1>3, <1>4, <1>5, <1>6, <1>7 DEF HasRun

\* and a run that is there findings, metrics and mappings.
LEMMA RunRowsPut ==
  ASSUME NEW d, Tables(d), NEW j, Run(j) \in DOMAIN d
  PROVE  /\ Tables(FindingRow(d, j)) /\ (HasRun(d, j) => HasRun(FindingRow(d, j), j))
         /\ Tables(MetricsRow(d, j)) /\ (HasRun(d, j) => HasRun(MetricsRow(d, j), j))
         /\ HasRun(d, j) => Tables(MappingRow(d, "t", j)) /\ HasRun(MappingRow(d, "t", j), j)
<1>1. RunRefs(j) \subseteq DOMAIN d
  BY DEF RunRefs, Run
<1>2. ASSUME NEW table \in {"review_findings", "interaction_run_metrics"}
      PROVE  /\ Tables(Put(d, Key(table, j), RunRefs(j), "row"))
             /\ HasRun(d, j) => HasRun(Put(d, Key(table, j), RunRefs(j), "row"), j)
  <2>1. IsKey(Key(table, j)) /\ Needs(Key(table, j)) = RunRefs(j)
    BY RowKeys
  <2>2. Key(table, j).table \notin {"model_profiles", "tenants"}
    BY DEF Key
  <2>3. Tables(Put(d, Key(table, j), Needs(Key(table, j)), "row"))
    BY <1>1, <2>1, <2>2, PutStands
  <2>4. HasRun(d, j) => HasRun(Put(d, Key(table, j), RunRefs(j), "row"), j)
    BY DEF Put, HasRun, HasJob
  <2>5. QED
    BY <2>1, <2>3, <2>4
<1>3. ASSUME HasRun(d, j)
      PROVE  Tables(MappingRow(d, "t", j)) /\ HasRun(MappingRow(d, "t", j), j)
  <2>1. IsKey(Key("discussion_mappings", j)) /\ Needs(Key("discussion_mappings", j)) = MappingRefs("t", j)
    BY RowKeys
  <2>2. MappingRefs("t", j) \subseteq DOMAIN d
    BY <1>1, <1>3 DEF MappingRefs, HasRun, HasJob, T
  <2>3. Key("discussion_mappings", j).table \notin {"model_profiles", "tenants"}
    BY DEF Key
  <2>4. Tables(Put(d, Key("discussion_mappings", j), Needs(Key("discussion_mappings", j)), "row"))
    BY <2>1, <2>2, <2>3, PutStands
  <2>5. HasRun(MappingRow(d, "t", j), j)
    BY <1>3 DEF MappingRow, Put, HasRun, HasJob
  <2>6. QED
    BY <2>1, <2>4, <2>5 DEF MappingRow
<1>4. QED
  BY <1>2, <1>3 DEF FindingRow, MetricsRow

\* Every call of the server keeps the tables.
LEMMA ServerTables ==
  ASSUME AdminInv, ServerStep
  PROVE  Tables(db') /\ Serve(db')
<1>1. PICK j \in AdminJobs :
        \/ AdmitJob(j) \/ ClaimQueued(j) \/ SaveRun(j) \/ SaveSnapshot(j) \/ SaveFinding(j)
        \/ SaveMetrics(j) \/ SaveMapping(j) \/ SaveProjectMemory(j) \/ FinishJob(j)
  BY DEF ServerStep
<1>2. Tables(db) /\ \A v : IsJob(j, v) => HasJob(db, j)
  BY JobsHaveTenants DEF AdminInv, IsJob
<1>3. Job(j).table = "interaction_jobs"
  BY DEF Job, Key
<1>4. CASE AdmitJob(j)
  <2>1. PICK d : d = UpsertJob(db, "t", j, "queued")
    OBVIOUS
  <2>2. T \in DOMAIN db /\ Serve(RequestRow(d, "t", j))
    BY <1>4, <2>1 DEF AdmitJob
  <2>3. Tables(d) /\ HasJob(d, j)
    BY <1>2, <2>1, <2>2, JobIsPut
  <2>4. Tables(RequestRow(d, "t", j))
    BY <2>3, JobRowsPut
  <2>5. QED
    BY <2>2, <2>4 DEF Serve
<1>5. ASSUME NEW v, IsJob(j, v), NEW w
      PROVE  Tables(Patch(db, Job(j), w))
  BY <1>2, <1>3, <1>5, PatchStands DEF HasJob
<1>6. CASE ClaimQueued(j)
  BY <1>5, <1>6 DEF ClaimQueued, Serve
<1>7. CASE SaveRun(j)
  BY <1>2, <1>7, JobRowsPut DEF SaveRun, Serve
<1>8. CASE SaveSnapshot(j)
  BY <1>2, <1>8, JobRowsPut DEF SaveSnapshot, Serve
<1>9. MayPut(db, RunRefs(j)) \/ MayPut(db, MappingRefs("t", j)) => Run(j) \in DOMAIN db
  BY DEF MayPut, RunRefs, MappingRefs, Run
<1>10. CASE SaveFinding(j)
  BY <1>2, <1>9, <1>10, RunRowsPut DEF SaveFinding, Serve
<1>11. CASE SaveMetrics(j)
  BY <1>2, <1>9, <1>11, RunRowsPut DEF SaveMetrics, Serve
<1>12. CASE SaveMapping(j)
  <2>1. Run(j) \in DOMAIN db /\ HasRun(db, j) /\ Serve(MappingRow(db, "t", j))
    BY <1>2, <1>9, <1>12 DEF SaveMapping, HasRun
  <2>2. Tables(MappingRow(db, "t", j))
    BY <1>2, <2>1, RunRowsPut
  <2>3. QED
    BY <2>1, <2>2 DEF Serve
<1>13. CASE SaveProjectMemory(j)
  BY <1>2, <1>13, JobRowsPut DEF SaveProjectMemory, Serve
<1>14. CASE FinishJob(j)
  BY <1>5, <1>14 DEF FinishJob, Serve
<1>15. QED
  BY <1>1, <1>4, <1>6, <1>7, <1>8, <1>10, <1>11, <1>12, <1>13, <1>14

\* The server disturbs every command.
LEMMA ServerStands ==
  ASSUME AdminInv, ServerStep
  PROVE  AdminInv'
<1>1. Tables(db') /\ admin' = Disturb("server")
  BY ServerTables DEF Serve
<1>2. ASSUME NEW b \in Admins
      PROVE  ProcessOK(admin'[b]) /\ OnTrack(admin'[b], db')
  <2>1. b # "server"
    BY AdminAssumption
  <2>2. Elsewhere(b)
    BY <1>1, <2>1 DEF Disturb, Elsewhere
  <2>3. QED
    BY <2>2, ElsewhereStands
<1>3. admin' = [b \in Admins |-> admin'[b]]
  BY <1>1 DEF Disturb
<1>4. served' \in 0 .. ServerSteps /\ commands' \in 0 .. AdminSteps
  BY AdminAssumption DEF AdminInv, ServerStep
<1>5. QED
  BY <1>1, <1>2, <1>3, <1>4 DEF AdminInv

\* A command begins with nothing but its promise, and a killed one is idle.
LEMMA ProcessesStand ==
  ASSUME AdminInv, NEW a \in Admins, Begin(a) \/ Kill(a)
  PROVE  Stands
<1>1. PICK p : admin' = [admin EXCEPT ![a] = p] /\ ProcessOK(p) /\ OnTrack(p, db)
  <2>1. CASE Begin(a)
    <3>1. PICK cmd \in Commands :
            admin' = [admin EXCEPT ![a] =
                        [Idle EXCEPT !.cmd = cmd, !.at = "start", !.promise = Promised(db, cmd)]]
      BY <2>1 DEF Begin
    <3>2. PICK q : q = [Idle EXCEPT !.cmd = cmd]
      OBVIOUS
    <3>3. PICK r : r = [q EXCEPT !.at = "start"]
      OBVIOUS
    <3>4. PICK p : p = [r EXCEPT !.promise = Promised(db, cmd)]
      OBVIOUS
    <3>5. admin' = [admin EXCEPT ![a] = p]
      BY <3>1, <3>2, <3>3, <3>4
    <3>6. p = [cmd |-> cmd, at |-> "start", read |-> {}, outcome |-> "none", promise |-> Promised(db, cmd)]
      BY <3>2, <3>3, <3>4 DEF Idle
    <3>7. p.cmd = cmd /\ p.at = "start" /\ p.outcome = "none" /\ p.promise = Promised(db, cmd) /\ p.read = {}
      BY <3>6
    <3>8. ProcessOK(p)
      BY <3>6, <3>7 DEF ProcessOK
    <3>9. Knows(p, db)
      BY <3>7 DEF Knows, KnowsDefaults, KnowsConnection, KnowsTenant
    <3>10. QED
      BY <3>5, <3>7, <3>8, <3>9 DEF OnTrack
  <2>2. CASE Kill(a)
    <3>1. admin' = [admin EXCEPT ![a] = Idle]
      BY <2>2 DEF Kill
    <3>2. Idle.at = "idle" /\ Idle.cmd.op = "none" /\ Idle.outcome = "none"
      BY DEF Idle, NoCommand
    <3>3. Idle = [cmd |-> Idle.cmd, at |-> Idle.at, read |-> Idle.read, outcome |-> Idle.outcome,
                  promise |-> Idle.promise]
      BY DEF Idle
    <3>4. ProcessOK(Idle) /\ OnTrack(Idle, db)
      BY <3>2, <3>3 DEF ProcessOK, OnTrack
    <3>5. QED
      BY <3>1, <3>4
  <2>3. QED
    BY <2>1, <2>2
<1>2. db' = db /\ served' = served /\ commands' \in 0 .. AdminSteps
  <2>1. commands \in 0 .. AdminSteps /\ AdminSteps \in Nat
    BY AdminAssumption DEF AdminInv
  <2>2. CASE Begin(a)
    <3>1. commands < AdminSteps /\ commands' = commands + 1 /\ db' = db /\ served' = served
      BY <2>2 DEF Begin
    <3>2. QED
      BY <2>1, <3>1
  <2>3. CASE Kill(a)
    BY <2>1, <2>3 DEF Kill
  <2>4. QED
    BY <2>2, <2>3
<1>3. admin = [b \in Admins |-> admin[b]] /\ \A b \in Admins : ProcessOK(admin[b]) /\ OnTrack(admin[b], db)
  BY DEF AdminInv
<1>4. admin' = [b \in Admins |-> admin'[b]]
  BY <1>1, <1>3
<1>5. ASSUME NEW b \in Admins
      PROVE  ProcessOK(admin'[b]) /\ OnTrack(admin'[b], db')
  BY <1>1, <1>2, <1>3
<1>6. AdminInv'
  BY <1>2, <1>4, <1>5 DEF AdminInv
<1>7. Spares(db, db')
  BY <1>2, NothingLost
<1>8. QED
  BY <1>6, <1>7 DEF Stands

\* All calls of commands.
LEMMA CommandsStand ==
  ASSUME AdminInv, NEW a \in Admins, AdminStep(a), UNCHANGED <<served, commands>>
  PROVE  Stands
<1>1. RemoveTenant(a) => Stands
  BY FindsWork, ListsQueued, CancelsQueued, Summarises, RemovesMappings, RemovesMetrics, RemovesFindings,
     RemovesSnapshots, RemovesMemory, RemovesRuns, RemovesRequests, RemovesJobs, RemovesTenantRow
     DEF RemoveTenant
<1>2. QED
  BY <1>1, AddsProfile, SetsDefault, RemovesProfile, AddsTenant, SetsTenantProfile, AddsConnection,
     UpdatesConnection, RemovesConnection DEF AdminStep

-----------------------------------------------------------------------------
(* The profiles of tenants *)

\* Profiles that are there stay, and no tenant is given another one.
Keeps(d, e) ==
  /\ \A n : Profile(n) \in DOMAIN d => Profile(n) \in DOMAIN e
  /\ \A n : Users(e, n) \subseteq Users(d, n)

\* A call that neither deletes a profile nor gives one; it may be the look
\* before that, and then what it has seen is so.
Apart(p, d, e) ==
  /\ Keeps(d, e)
  /\ \A n : Dropping(p, n) => Users(d, n) = {}
  /\ \A n : Giving(p, n) => ProfileKnown(d, n)

\* A process that is not about to delete or give what it was not before.
Still(b) ==
  \A n : /\ Dropping(admin'[b], n) => Dropping(admin[b], n)
         /\ Giving(admin'[b], n) => Giving(admin[b], n)

\* What the two calls have seen is still so, or they have crossed.
ReferencesInv ==
  /\ \A n : Users(db, n) # {} => ProfileKnown(db, n) \/ n \in crossed
  /\ \A a \in Admins : \A n : Dropping(admin[a], n) => Users(db, n) = {} \/ n \in crossed
  /\ \A a \in Admins : \A n : Giving(admin[a], n) => ProfileKnown(db, n) \/ n \in crossed
  /\ Crossing(admin) \subseteq crossed

\* Writes that keep profiles and their tenants, one after the other too.
LEMMA KeepsOn ==
  /\ \A d : Keeps(d, d)
  /\ \A d, e, f : Keeps(d, e) /\ Keeps(e, f) => Keeps(d, f)
  /\ \A d, e, n : Keeps(d, e) /\ ProfileKnown(d, n) => ProfileKnown(e, n)
BY DEF Keeps, ProfileKnown

LEMMA PutKeeps ==
  ASSUME NEW d, NEW k, k.table # "tenants", NEW refs, NEW v
  PROVE  Keeps(d, Put(d, k, refs, v))
BY DEF Keeps, Users, RowsIn, Put

LEMMA PatchKeeps ==
  ASSUME NEW d, NEW k, k.table # "tenants", NEW v
  PROVE  Keeps(d, Patch(d, k, v))
<1> PICK e : e = Patch(d, k, v)
  OBVIOUS
<1>1. DOMAIN e = DOMAIN d /\ \A l \in DOMAIN d : l # k => e[l] = d[l]
  BY DEF Patch
<1>2. QED
  BY <1>1 DEF Keeps, Users, RowsIn

LEMMA DeleteKeeps ==
  ASSUME NEW d, NEW keys, \A k \in keys : k.table # "model_profiles"
  PROVE  Keeps(d, Delete(d, keys))
<1>1. \A n : Profile(n) \notin WithCascade(d, keys)
  BY ProfileKeys DEF WithCascade, RowsIn
<1>2. QED
  BY <1>1 DEF Keeps, Users, RowsIn, Delete

LEMMA ProfileKeeps ==
  ASSUME NEW d, Tables(d), NEW n, NEW default \in BOOLEAN
  PROVE  Keeps(d, UpsertProfile(d, n, default))
<1> PICK e : e = UpsertProfile(d, n, default)
  OBVIOUS
<1>1. Upserted(d, n, default, e)
  BY ProfileRows
<1>2. /\ DOMAIN e = DOMAIN d \cup {Profile(n)}
      /\ \A l \in DOMAIN d : l.table # "model_profiles" => e[l] = d[l]
  BY <1>1 DEF Upserted
<1>3. Profile(n).table = "model_profiles"
  BY ProfileKeys
<1>4. QED
  BY <1>2, <1>3 DEF Keeps, Users, RowsIn

LEMMA CancelKeeps ==
  ASSUME NEW d, Tables(d), NEW jobs, \A k \in jobs : k.table = "interaction_jobs"
  PROVE  Keeps(d, Cancelled(d, jobs))
<1> PICK e : e = Cancelled(d, jobs)
  OBVIOUS
<1>1. DOMAIN e = DOMAIN d /\ \A k \in DOMAIN d : k \notin jobs => e[k] = d[k]
  BY DEF Cancelled
<1>2. QED
  BY <1>1 DEF Keeps, Users, RowsIn

\* The rows that a job collects are no tenants, nor is a connection.
LEMMA RowsKeep ==
  ASSUME NEW d, NEW j, NEW v
  PROVE  /\ Keeps(d, UpsertJob(d, "t", j, v)) /\ Keeps(d, RequestRow(d, "t", j))
         /\ Keeps(d, SnapshotRow(d, "t", j)) /\ Keeps(d, RunRow(d, "t", j))
         /\ Keeps(d, FindingRow(d, j)) /\ Keeps(d, MetricsRow(d, j))
         /\ Keeps(d, MappingRow(d, "t", j)) /\ Keeps(d, MemoryRow(d, "t"))
         /\ Keeps(d, Patch(d, Job(j), v)) /\ Keeps(d, UpsertConnection(d, "c", v))
<1>1. \A table, id : Key(table, id).table = table
  BY DEF Key
<1>2. Keeps(d, UpsertJob(d, "t", j, v))
  BY <1>1, PutKeeps, KeepsOn DEF UpsertJob
<1>3. Keeps(d, RequestRow(d, "t", j)) /\ Keeps(d, SnapshotRow(d, "t", j)) /\ Keeps(d, RunRow(d, "t", j))
  BY <1>1, PutKeeps DEF RequestRow, SnapshotRow, RunRow
<1>4. Keeps(d, FindingRow(d, j)) /\ Keeps(d, MetricsRow(d, j))
  BY <1>1, PutKeeps DEF FindingRow, MetricsRow
<1>5. Keeps(d, MappingRow(d, "t", j)) /\ Keeps(d, MemoryRow(d, "t"))
  BY <1>1, PutKeeps DEF MappingRow, MemoryRow
<1>6. Keeps(d, Patch(d, Job(j), v)) /\ Keeps(d, UpsertConnection(d, "c", v))
  BY <1>1, PutKeeps, PatchKeeps DEF Job, UpsertConnection, Connection
<1>7. QED
  BY <1>2, <1>3, <1>4, <1>5, <1>6

\* So a call keeps to itself if its write does and if it is not the look before
\* one that does not.
Looks(op, label) ==
  (op = "remove profile" /\ label = "drop") \/ (op \in {"add tenant", "set profile"} /\ label = "put")

LEMMA CallsApart ==
  ASSUME AdminInv, NEW a \in Admins, NEW label, ~Looks(admin[a].cmd.op, label), NEW rows, NEW outcome, NEW d
  PROVE  /\ Reads(a, label, rows) => Apart(admin'[a], db, db')
         /\ Writes(a, label, d) /\ Keeps(db, d) => Apart(admin'[a], db, db')
         /\ Ends(a, outcome, d) /\ Keeps(db, d) => Apart(admin'[a], db, db')
         /\ Refuse(a) => Apart(admin'[a], db, db')
<1>1. ASSUME NEW l, ~Looks(admin[a].cmd.op, l), NEW r, NEW o, NEW e, Keeps(db, e),
             Called(a, Went(admin[a], l, r, o), e)
      PROVE  Apart(admin'[a], db, db')
  <2>1. admin'[a].cmd = admin[a].cmd /\ admin'[a].at = l /\ db' = e
    BY <1>1, WentFields DEF Called
  <2>2. QED
    BY <1>1, <2>1 DEF Apart, Dropping, Giving, Looks
<1>2. ~Looks(admin[a].cmd.op, "end") /\ Keeps(db, db)
  BY KeepsOn DEF Looks
<1>3. Reads(a, label, rows) => Apart(admin'[a], db, db')
  BY <1>1, <1>2, CallsGo
<1>4. Writes(a, label, d) /\ Keeps(db, d) => Apart(admin'[a], db, db')
  BY <1>1, CallsGo
<1>5. ASSUME NEW o, NEW e PROVE Ends(a, o, e) /\ Keeps(db, e) => Apart(admin'[a], db, db')
  BY <1>1, <1>2, CallsGo
<1>6. QED
  BY <1>2, <1>3, <1>4, <1>5 DEF Refuse

\* Which is so for most commands whatever they have seen.
LEMMA DefaultsApart ==
  ASSUME AdminInv, NEW a \in Admins, AddProfile(a) \/ SetDefault(a)
  PROVE  Apart(admin'[a], db, db')
<1>1. \A n : /\ Keeps(db, UpsertProfile(db, n, FALSE)) /\ Keeps(db, UpsertProfile(db, n, TRUE))
  BY ProfileKeeps DEF AdminInv
<1>2. Keeps(db, db)
  BY KeepsOn
<1>3. ASSUME NEW op \in {"add profile", "set default"}, NEW next, Clear(a, op, next)
      PROVE  Apart(admin'[a], db, db')
  <2>1. /\ admin[a].cmd.op = op
        /\ \E n \in admin[a].read : \/ Reads(a, "put clear", {n}) \/ Refuse(a)
                                    \/ Writes(a, next, UpsertProfile(db, n, FALSE))
    BY <1>3 DEF Clear, At
  <2>2. \A label : ~Looks(admin[a].cmd.op, label)
    BY <2>1 DEF Looks
  <2>3. QED
    BY <1>1, <2>1, <2>2, CallsApart
<1>4. ASSUME AddProfile(a), ~Clear(a, "add profile", "put default")
      PROVE  Apart(admin'[a], db, db')
  <2>1. /\ admin[a].cmd.op = "add profile"
        /\ \/ Reads(a, "find default", {"default"}) \/ Reads(a, "put", {}) \/ Reads(a, "put default", {})
           \/ Reads(a, "clear", OldDefaults(a))
           \/ Ends(a, "done", UpsertProfile(db, Name(a), FALSE))
           \/ Ends(a, "done", UpsertProfile(db, Name(a), TRUE))
    BY <1>4 DEF AddProfile, At
  <2>2. \A label : ~Looks(admin[a].cmd.op, label)
    BY <2>1 DEF Looks
  <2>3. QED
    BY <1>1, <2>1, <2>2, CallsApart
<1>5. ASSUME SetDefault(a), ~Clear(a, "set default", "get")
      PROVE  Apart(admin'[a], db, db')
  <2>1. /\ admin[a].cmd.op = "set default"
        /\ \/ Reads(a, "get", {}) \/ Reads(a, "put", {}) \/ Refuse(a)
           \/ Reads(a, "clear", OldDefaults(a))
           \/ Ends(a, "done", db) \/ Ends(a, "done", UpsertProfile(db, Name(a), TRUE))
    BY <1>5 DEF SetDefault, At
  <2>2. \A label : ~Looks(admin[a].cmd.op, label)
    BY <2>1 DEF Looks
  <2>3. QED
    BY <1>1, <1>2, <2>1, <2>2, CallsApart
<1>6. QED
  BY <1>3, <1>4, <1>5

LEMMA ConnectionCallsApart ==
  ASSUME AdminInv, NEW a \in Admins, AddConnection(a) \/ UpdateConnection(a) \/ RemoveConnection(a)
  PROVE  Apart(admin'[a], db, db')
<1>1. /\ admin[a].cmd.op \in {"add connection", "update connection", "remove connection"}
      /\ \/ Reads(a, "put", {}) \/ Reads(a, "patch", {}) \/ Reads(a, "users", {}) \/ Reads(a, "delete", {})
         \/ Refuse(a) \/ Ends(a, "done", UpsertConnection(db, "c", Arg(a)))
         \/ Ends(a, "done", Delete(db, {Connection("c")}))
  BY DEF AddConnection, UpdateConnection, RemoveConnection, At
<1>2. \A label : ~Looks(admin[a].cmd.op, label)
  BY <1>1 DEF Looks
<1>3. Keeps(db, UpsertConnection(db, "c", Arg(a))) /\ Keeps(db, Delete(db, {Connection("c")}))
  BY RowsKeep, DeleteKeeps DEF Connection, Key
<1>4. QED
  BY <1>1, <1>2, <1>3, CallsApart

LEMMA TenantsApart ==
  ASSUME AdminInv, NEW a \in Admins, RemoveTenant(a)
  PROVE  Apart(admin'[a], db, db')
<1>1. ProcessOK(admin[a]) /\ Tables(db)
  BY DEF AdminInv
<1>2. admin[a].cmd.op = "remove tenant"
  BY DEF RemoveTenant, FindWork, ListQueued, CancelQueued, Summarise, RemoveMappings, RemoveMetrics, RemoveFindings,
         RemoveSnapshots, RemoveMemory, RemoveRuns, RemoveRequests, RemoveJobs, RemoveTenantRow, At
<1>3. \A label : ~Looks(admin[a].cmd.op, label)
  BY <1>2 DEF Looks
<1>4. ASSUME NEW label, NEW keys, \A k \in keys : k.table # "model_profiles", Removes(a, label, keys)
      PROVE  Apart(admin'[a], db, db')
  BY <1>3, <1>4, DeleteKeeps, CallsApart DEF Removes
<1>5. ASSUME FindWork(a) \/ ListQueued(a) \/ Summarise(a) PROVE Apart(admin'[a], db, db')
  BY <1>3, <1>5, CallsApart DEF FindWork, ListQueued, Summarise
<1>6. ASSUME CancelQueued(a) PROVE Apart(admin'[a], db, db')
  <2>1. \A k \in admin[a].read : k.table = "interaction_jobs"
    BY <1>1, <1>2, <1>6 DEF ProcessOK, CancelQueued, At
  <2>2. Writes(a, "summary", Cancelled(db, admin[a].read)) \/ Refuse(a)
    BY <1>6 DEF CancelQueued
  <2>3. Keeps(db, Cancelled(db, admin[a].read))
    BY <1>1, <2>1, CancelKeeps
  <2>4. QED
    BY <1>3, <2>2, <2>3, CallsApart
<1>7. ASSUME RemoveMappings(a) \/ RemoveSnapshots(a) \/ RemoveMemory(a) \/ RemoveRequests(a)
      PROVE  Apart(admin'[a], db, db')
  <2>1. \A table : \A k \in OfTenant(table) : k.table = table
    BY DEF OfTenant, RowsIn
  <2>2. PICK table \in {"discussion_mappings", "code_review_snapshots", "project_memories", "interaction_requests"} :
          \E label : Removes(a, label, OfTenant(table))
    BY <1>7 DEF RemoveMappings, RemoveSnapshots, RemoveMemory, RemoveRequests
  <2>3. QED
    BY <1>4, <2>1, <2>2
<1>8. ASSUME RemoveMetrics(a) \/ RemoveFindings(a) PROVE Apart(admin'[a], db, db')
  <2>1. \A table : \A k \in OfRuns(a, table) : k.table = table
    BY DEF OfRuns, RowsIn
  <2>2. PICK table \in {"interaction_run_metrics", "review_findings"} :
          \E label : Removes(a, label, OfRuns(a, table))
    BY <1>8 DEF RemoveMetrics, RemoveFindings
  <2>3. QED
    BY <1>4, <2>1, <2>2
<1>9. ASSUME RemoveRuns(a) \/ RemoveJobs(a) PROVE Apart(admin'[a], db, db')
  <2>1. \A table : \A k \in ReadOf(a, table) : k.table = table
    BY DEF ReadOf
  <2>2. \/ Refuse(a)
        \/ \E table \in {"interaction_runs", "interaction_jobs"} : \E label : Removes(a, label, ReadOf(a, table))
    BY <1>9 DEF RemoveRuns, RemoveJobs
  <2>3. QED
    BY <1>3, <1>4, <2>1, <2>2, CallsApart
<1>10. ASSUME RemoveTenantRow(a) PROVE Apart(admin'[a], db, db')
  <2>1. Keeps(db, Delete(db, {T}))
    BY DeleteKeeps DEF T, Tenant, Key
  <2>2. QED
    BY <1>3, <1>10, <2>1, CallsApart DEF RemoveTenantRow
<1>11. QED
  BY <1>5, <1>6, <1>7, <1>8, <1>9, <1>10 DEF RemoveTenant

\* The two commands that cross: one counts and deletes, the other looks and gives.
Deletes(a) ==
  \E n : Dropping(admin[a], n) /\ db' = Delete(db, {Profile(n)}) /\ admin'[a].at = "end"
Gives(a) ==
  \E n : Giving(admin[a], n) /\ db' = UpsertTenant(db, "t", "c", n) /\ admin'[a].at = "end"

LEMMA RemovalApart ==
  ASSUME AdminInv, NEW a \in Admins, RemoveProfile(a)
  PROVE  Apart(admin'[a], db, db') \/ Deletes(a)
<1>1. admin[a].cmd.op = "remove profile"
  BY DEF RemoveProfile, At
<1>2. \A label : label # "drop" => ~Looks(admin[a].cmd.op, label)
  BY <1>1 DEF Looks
<1>3. Keeps(db, db)
  BY KeepsOn
<1>4. ASSUME At(a, "remove profile", "count"), MayDeleteProfile(db, Name(a)), Reads(a, "drop", {})
      PROVE  Apart(admin'[a], db, db')
  <2>1. Called(a, Went(admin[a], "drop", {}, admin[a].outcome), db)
    BY <1>4, CallsGo
  <2>2. db' = db /\ admin'[a].cmd = admin[a].cmd
    BY <2>1, WentFields DEF Called
  <2>3. QED
    BY <1>1, <1>3, <1>4, <2>2 DEF Apart, Dropping, Giving, MayDeleteProfile, Name
<1>5. ASSUME At(a, "remove profile", "drop") PROVE Deletes(a)
  <2>1. Ends(a, "done", Delete(db, {Profile(Name(a))}))
    BY <1>5 DEF RemoveProfile, At
  <2>2. db' = Delete(db, {Profile(Name(a))}) /\ admin'[a].at = "end"
    BY <2>1, CallsGo, WentFields DEF Called
  <2>3. Dropping(admin[a], Name(a))
    BY <1>5 DEF Dropping, At, Name
  <2>4. QED
    BY <2>2, <2>3 DEF Deletes
<1>6. \/ Reads(a, "users", {}) \/ Reads(a, "delete", {}) \/ Reads(a, "count", {})
      \/ Refuse(a) \/ Ends(a, "done", db)
      \/ At(a, "remove profile", "count") /\ MayDeleteProfile(db, Name(a)) /\ Reads(a, "drop", {})
      \/ At(a, "remove profile", "drop")
  BY DEF RemoveProfile
<1>7. ASSUME \/ Reads(a, "users", {}) \/ Reads(a, "delete", {}) \/ Reads(a, "count", {})
             \/ Refuse(a) \/ Ends(a, "done", db)
      PROVE  Apart(admin'[a], db, db')
  <2>1. (\E label \in {"users", "delete", "count"} : Reads(a, label, {})) => Apart(admin'[a], db, db')
    BY <1>2, CallsApart
  <2>2. Refuse(a) \/ Ends(a, "done", db) => Apart(admin'[a], db, db')
    <3>1. ~Looks(admin[a].cmd.op, "end")
      BY <1>2
    <3>2. QED
      BY <1>3, <3>1, CallsApart
  <2>3. QED
    BY <1>7, <2>1, <2>2
<1>8. QED
  BY <1>4, <1>5, <1>6, <1>7

LEMMA GiftApart ==
  ASSUME AdminInv, NEW a \in Admins, AddTenant(a) \/ SetTenantProfile(a)
  PROVE  Apart(admin'[a], db, db') \/ Gives(a)
<1>1. PICK op \in {"add tenant", "set profile"} :
        /\ admin[a].cmd.op = op
        /\ \/ PutTenant(a, op) \/ Refuse(a)
           \/ \E rows : \E label \in {"find", "check", "assert", "patch"} : Reads(a, label, rows)
  BY DEF AddTenant, SetTenantProfile, PutTenant, At
<1>2. \A label : label # "put" => ~Looks(admin[a].cmd.op, label)
  BY <1>1 DEF Looks
<1>3. Keeps(db, db)
  BY KeepsOn
<1>4. CASE \/ Refuse(a)
           \/ \E rows : \E label \in {"find", "check", "assert", "patch"} : Reads(a, label, rows)
  BY <1>2, <1>4, CallsApart
<1>5. CASE At(a, op, "assert") /\ PutTenant(a, op)
  <2>1. CASE Refuse(a)
    BY <1>2, <2>1, CallsApart
  <2>2. CASE (\A plan \in admin[a].read : ProfileKnown(db, plan.profile)) /\ Reads(a, "put", admin[a].read)
    <3>1. Called(a, Went(admin[a], "put", admin[a].read, admin[a].outcome), db)
      BY <2>2, CallsGo
    <3>2. db' = db /\ admin'[a].cmd = admin[a].cmd /\ admin'[a].read = admin[a].read
      <4>1. PICK p : p = Went(admin[a], "put", admin[a].read, admin[a].outcome)
        OBVIOUS
      <4>2. p.cmd = admin[a].cmd /\ p.read = admin[a].read
        BY ONLY <4>1 DEF Went
      <4>3. QED
        BY <3>1, <4>1, <4>2 DEF Called
    <3>3. QED
      BY <1>1, <1>3, <2>2, <3>2 DEF Apart, Dropping, Giving
  <2>3. QED
    BY <1>5, <2>1, <2>2 DEF PutTenant, At
<1>6. CASE At(a, op, "put") /\ PutTenant(a, op)
  <2>1. PICK plan \in admin[a].read :
          Ends(a, "done", UpsertTenant(db, "t", "c", plan.profile)) \/ Refuse(a)
    BY <1>6 DEF PutTenant, At
  <2>2. CASE Refuse(a)
    BY <1>2, <2>2, CallsApart
  <2>3. CASE Ends(a, "done", UpsertTenant(db, "t", "c", plan.profile))
    <3>1. db' = UpsertTenant(db, "t", "c", plan.profile) /\ admin'[a].at = "end"
      <4>1. Called(a, Went(admin[a], "end", {}, "done"), UpsertTenant(db, "t", "c", plan.profile))
        BY <2>3, CallsGo
      <4>2. PICK p : p = Went(admin[a], "end", {}, "done")
        OBVIOUS
      <4>3. p.at = "end"
        BY ONLY <4>2 DEF Went
      <4>4. QED
        BY <4>1, <4>2, <4>3 DEF Called
    <3>2. Giving(admin[a], plan.profile)
      BY <1>1, <1>6, <2>1 DEF Giving, At
    <3>3. QED
      BY <3>1, <3>2 DEF Gives
  <2>4. QED
    BY <2>1, <2>2, <2>3
<1>7. QED
  BY <1>1, <1>4, <1>5, <1>6 DEF PutTenant

\* If profiles and their tenants stay, what was seen of them stays so.
LEMMA KeptReferences ==
  ASSUME ReferencesInv, crossed' = crossed \cup Crossing(admin'), Keeps(db, db'),
         \A b \in Admins : Still(b) \/ Apart(admin'[b], db, db')
  PROVE  ReferencesInv'
<1>1. /\ \A n : ProfileKnown(db, n) => ProfileKnown(db', n)
      /\ \A n : Users(db, n) = {} => Users(db', n) = {}
      /\ crossed \subseteq crossed' /\ Crossing(admin') \subseteq crossed'
  BY KeepsOn DEF Keeps
<1>2. \A n : Users(db', n) # {} => ProfileKnown(db', n) \/ n \in crossed'
  BY <1>1 DEF ReferencesInv
<1>3. ASSUME NEW b \in Admins, NEW n, Dropping(admin'[b], n)
      PROVE  Users(db', n) = {} \/ n \in crossed'
  BY <1>1, <1>3 DEF ReferencesInv, Still, Apart
<1>4. ASSUME NEW b \in Admins, NEW n, Giving(admin'[b], n)
      PROVE  ProfileKnown(db', n) \/ n \in crossed'
  BY <1>1, <1>4 DEF ReferencesInv, Still, Apart
<1>5. QED
  BY <1>1, <1>2, <1>3, <1>4 DEF ReferencesInv

\* A process that only owes less than before is about the same.
LEMMA ElsewhereStill ==
  ASSUME AdminInv, NEW b \in Admins, Elsewhere(b)
  PROVE  Still(b)
<1>1. ProcessOK(admin[b])
  BY DEF AdminInv
<1>2. PICK row : row = admin[b]
  OBVIOUS
<1>3. row = [cmd |-> row.cmd, at |-> row.at, read |-> row.read, outcome |-> row.outcome, promise |-> row.promise]
  BY <1>1, <1>2 DEF ProcessOK
<1>4. admin'[b] = row \/ admin'[b] = [row EXCEPT !.promise = Idle.promise]
  BY <1>2 DEF Elsewhere
<1>5. admin'[b].cmd = row.cmd /\ admin'[b].at = row.at /\ admin'[b].read = row.read
  BY ONLY <1>3, <1>4
<1>6. QED
  BY <1>2, <1>5 DEF Still, Dropping, Giving

\* Every step of a command is one call, which leaves the others where they are.
Calls(a) == \E label, rows, outcome, d : Reads(a, label, rows) \/ Writes(a, label, d) \/ Ends(a, outcome, d)

LEMMA EachCalls ==
  ASSUME NEW a, AdminStep(a)
  PROVE  Calls(a)
<1>1. /\ \A label, rows : Reads(a, label, rows) => Calls(a)
      /\ \A label, d : Writes(a, label, d) => Calls(a)
      /\ \A outcome, d : Ends(a, outcome, d) => Calls(a)
  BY DEF Calls
<1>2. Refuse(a) => Calls(a)
  BY <1>1 DEF Refuse
<1>3. \A label, keys : Removes(a, label, keys) => Calls(a)
  BY <1>1, <1>2 DEF Removes
<1>4. \A op, next : Clear(a, op, next) => Calls(a)
  BY <1>1, <1>2 DEF Clear
<1>5. \A op : PutTenant(a, op) => Calls(a)
  BY <1>1, <1>2 DEF PutTenant
<1>6. AddProfile(a) \/ SetDefault(a) \/ RemoveProfile(a) => Calls(a)
  BY <1>1, <1>2, <1>4 DEF AddProfile, SetDefault, RemoveProfile
<1>7. AddTenant(a) \/ SetTenantProfile(a) => Calls(a)
  BY <1>1, <1>2, <1>5 DEF AddTenant, SetTenantProfile
<1>8. AddConnection(a) \/ UpdateConnection(a) \/ RemoveConnection(a) => Calls(a)
  BY <1>1, <1>2 DEF AddConnection, UpdateConnection, RemoveConnection
<1>9. FindWork(a) \/ ListQueued(a) \/ CancelQueued(a) \/ Summarise(a) \/ RemoveTenantRow(a) => Calls(a)
  BY <1>1, <1>2 DEF FindWork, ListQueued, CancelQueued, Summarise, RemoveTenantRow
<1>10. RemoveMappings(a) \/ RemoveMetrics(a) \/ RemoveFindings(a) \/ RemoveSnapshots(a) \/ RemoveMemory(a)
       \/ RemoveRuns(a) \/ RemoveRequests(a) \/ RemoveJobs(a) => Calls(a)
  BY <1>2, <1>3 DEF RemoveMappings, RemoveMetrics, RemoveFindings, RemoveSnapshots, RemoveMemory, RemoveRuns,
                    RemoveRequests, RemoveJobs
<1>11. QED
  BY <1>6, <1>7, <1>8, <1>9, <1>10 DEF AdminStep, RemoveTenant

LEMMA OthersStill ==
  ASSUME AdminInv, NEW a \in Admins, AdminStep(a)
  PROVE  /\ \A b \in Admins \ {a} : Still(b)
         /\ admin'[a].at = "end" => Still(a)
<1>1. PICK label, rows, outcome, d : Reads(a, label, rows) \/ Writes(a, label, d) \/ Ends(a, outcome, d)
  BY EachCalls DEF Calls
<1>2. \E p, e : Called(a, p, e)
  BY <1>1, CallsGo
<1>3. \A b \in Admins \ {a} : Elsewhere(b)
  BY <1>2 DEF Called
<1>4. admin'[a].at = "end" => Still(a)
  BY DEF Still, Dropping, Giving
<1>5. QED
  BY <1>3, <1>4, ElsewhereStill

\* A profile goes: its tenants were counted, or given to it by a call that
\* crossed this one.
LEMMA DeletedProfile ==
  ASSUME AdminInv, ReferencesInv, crossed' = crossed \cup Crossing(admin'), NEW a \in Admins, Deletes(a),
         \A b \in Admins : Still(b)
  PROVE  ReferencesInv'
<1>1. PICK n : Dropping(admin[a], n) /\ db' = Delete(db, {Profile(n)})
  BY DEF Deletes
<1>2. n \in {"p", "q"}
  <2>1. admin[a].cmd.op = "remove profile" /\ admin[a].cmd.name = n
    BY <1>1 DEF Dropping
  <2>2. admin[a].cmd \in Commands
    <3>1. ProcessOK(admin[a])
      BY DEF AdminInv
    <3>2. Idle.cmd.op = "none"
      BY DEF Idle, NoCommand
    <3>3. QED
      BY <2>1, <3>1, <3>2 DEF ProcessOK
  <2>3. QED
    BY <2>1, <2>2, CommandFields
<1>3. /\ \A m : m # n /\ ProfileKnown(db, m) => ProfileKnown(db', m)
      /\ \A m : Users(db', m) \subseteq Users(db, m)
  <2>1. \A k : k \in DOMAIN db /\ k.table # "interaction_requests" /\ k # Profile(n) => k \in DOMAIN db'
    BY <1>1 DEF Delete, WithCascade, RowsIn
  <2>2. DOMAIN db' \subseteq DOMAIN db /\ \A k \in DOMAIN db' : db'[k] = db[k]
    BY <1>1 DEF Delete
  <2>3. \A m : m # n /\ Profile(m) \in DOMAIN db => Profile(m) \in DOMAIN db'
    BY <2>1, ProfileKeys
  <2>4. QED
    BY <2>2, <2>3 DEF ProfileKnown, Users, RowsIn
<1>4. crossed \subseteq crossed' /\ Crossing(admin') \subseteq crossed'
  OBVIOUS
<1>5. \A m : Users(db', m) # {} => ProfileKnown(db', m) \/ m \in crossed'
  <2>1. Users(db, n) = {} \/ n \in crossed
    BY <1>1 DEF ReferencesInv
  <2>2. QED
    BY <1>3, <1>4, <2>1 DEF ReferencesInv
<1>6. ASSUME NEW b \in Admins, NEW m, Dropping(admin'[b], m)
      PROVE  Users(db', m) = {} \/ m \in crossed'
  BY <1>3, <1>4, <1>6 DEF ReferencesInv, Still
<1>7. ASSUME NEW b \in Admins, NEW m, Giving(admin'[b], m)
      PROVE  ProfileKnown(db', m) \/ m \in crossed'
  <2>1. Giving(admin[b], m)
    BY <1>7 DEF Still
  <2>2. m = n => m \in Crossing(admin)
    BY <1>1, <1>2, <2>1 DEF Crossing
  <2>3. QED
    BY <1>3, <1>4, <2>1, <2>2 DEF ReferencesInv
<1>8. QED
  BY <1>4, <1>5, <1>6, <1>7 DEF ReferencesInv

\* A tenant is given a profile that was looked up, or that a call that crossed
\* this one has deleted.
LEMMA GivenProfile ==
  ASSUME AdminInv, ReferencesInv, crossed' = crossed \cup Crossing(admin'), NEW a \in Admins, Gives(a),
         \A b \in Admins : Still(b)
  PROVE  ReferencesInv'
<1>1. PICK n : Giving(admin[a], n) /\ db' = UpsertTenant(db, "t", "c", n)
  BY DEF Gives
<1>2. /\ \A m : ProfileKnown(db, m) => ProfileKnown(db', m)
      /\ \A m : m # n => Users(db', m) \subseteq Users(db, m)
  <2>1. /\ DOMAIN db' = DOMAIN db \cup {Tenant("t")} /\ db'[Tenant("t")].value = n
        /\ \A k \in DOMAIN db : k # Tenant("t") => db'[k] = db[k]
    BY <1>1 DEF UpsertTenant, Put
  <2>2. QED
    BY <2>1 DEF ProfileKnown, Users, RowsIn
<1>3. crossed \subseteq crossed' /\ Crossing(admin') \subseteq crossed'
  OBVIOUS
<1>4. \A m : Users(db', m) # {} => ProfileKnown(db', m) \/ m \in crossed'
  <2>1. ProfileKnown(db, n) \/ n \in crossed
    BY <1>1 DEF ReferencesInv
  <2>2. QED
    BY <1>2, <1>3, <2>1 DEF ReferencesInv
<1>5. ASSUME NEW b \in Admins, NEW m, Dropping(admin'[b], m)
      PROVE  Users(db', m) = {} \/ m \in crossed'
  <2>1. Dropping(admin[b], m)
    BY <1>5 DEF Still
  <2>2. m \in {"p", "q"}
    <3>1. admin[b].cmd.op = "remove profile" /\ admin[b].cmd.name = m
      BY <2>1 DEF Dropping
    <3>2. admin[b].cmd \in Commands
      <4>1. ProcessOK(admin[b])
        BY DEF AdminInv
      <4>2. Idle.cmd.op = "none"
        BY DEF Idle, NoCommand
      <4>3. QED
        BY <3>1, <4>1, <4>2 DEF ProcessOK
    <3>3. QED
      BY <3>1, <3>2, CommandFields
  <2>3. m = n => m \in Crossing(admin)
    BY <1>1, <2>1, <2>2 DEF Crossing
  <2>4. QED
    BY <1>2, <1>3, <2>1, <2>3 DEF ReferencesInv
<1>6. ASSUME NEW b \in Admins, NEW m, Giving(admin'[b], m)
      PROVE  ProfileKnown(db', m) \/ m \in crossed'
  BY <1>2, <1>3, <1>6 DEF ReferencesInv, Still
<1>7. QED
  BY <1>3, <1>4, <1>5, <1>6 DEF ReferencesInv

\* The server disturbs the commands and moves none.
LEMMA ServerStill ==
  ASSUME AdminInv, ServerStep
  PROVE  \A b \in Admins : Still(b)
<1>1. admin' = Disturb("server")
  BY ServerTables DEF Serve
<1>2. ASSUME NEW b \in Admins PROVE Elsewhere(b)
  <2>1. b # "server"
    BY AdminAssumption
  <2>2. QED
    BY <1>1, <2>1 DEF Disturb, Elsewhere
<1>3. QED
  BY <1>2, ElsewhereStill

\* Nor does the server give a tenant a profile, or take one away.
LEMMA ServerKeeps ==
  ASSUME AdminInv, ServerStep
  PROVE  Keeps(db, db') /\ \A b \in Admins : Still(b)
<1>1. PICK j \in AdminJobs :
        \/ AdmitJob(j) \/ ClaimQueued(j) \/ SaveRun(j) \/ SaveSnapshot(j) \/ SaveFinding(j)
        \/ SaveMetrics(j) \/ SaveMapping(j) \/ SaveProjectMemory(j) \/ FinishJob(j)
  BY DEF ServerStep
<1>2. CASE AdmitJob(j)
  <2>1. PICK d : d = UpsertJob(db, "t", j, "queued")
    OBVIOUS
  <2>2. db' = RequestRow(d, "t", j)
    BY <1>2, <2>1 DEF AdmitJob, Serve
  <2>3. QED
    BY <2>1, <2>2, RowsKeep, KeepsOn, ServerStill
<1>3. CASE ClaimQueued(j) \/ FinishJob(j)
  BY <1>3, RowsKeep, ServerStill DEF ClaimQueued, FinishJob, Serve
<1>4. CASE SaveRun(j) \/ SaveSnapshot(j) \/ SaveFinding(j) \/ SaveMetrics(j) \/ SaveMapping(j) \/ SaveProjectMemory(j)
  BY <1>4, RowsKeep, ServerStill
     DEF SaveRun, SaveSnapshot, SaveFinding, SaveMetrics, SaveMapping, SaveProjectMemory, Serve
<1>5. QED
  BY <1>1, <1>2, <1>3, <1>4

\* A command that begins or is killed is about nothing.
LEMMA ProcessesKeep ==
  ASSUME AdminInv, NEW a \in Admins, Begin(a) \/ Kill(a)
  PROVE  db' = db /\ \A b \in Admins : Still(b)
<1>1. admin = [b \in Admins |-> admin[b]]
  BY DEF AdminInv
<1>2. \E p : /\ admin' = [admin EXCEPT ![a] = p] /\ p.at \in {"start", "idle"}
             /\ db' = db
  <2>1. CASE Begin(a)
    <3>1. PICK cmd \in Commands :
            admin' = [admin EXCEPT ![a] =
                        [Idle EXCEPT !.cmd = cmd, !.at = "start", !.promise = Promised(db, cmd)]]
      BY <2>1 DEF Begin
    <3>2. PICK q : q = [Idle EXCEPT !.cmd = cmd]
      OBVIOUS
    <3>3. PICK r : r = [q EXCEPT !.at = "start"]
      OBVIOUS
    <3>4. PICK p : p = [r EXCEPT !.promise = Promised(db, cmd)]
      OBVIOUS
    <3>5. p.at = "start"
      BY <3>2, <3>3, <3>4 DEF Idle
    <3>6. admin' = [admin EXCEPT ![a] = p] /\ db' = db
      BY <2>1, <3>1, <3>2, <3>3, <3>4 DEF Begin
    <3>7. QED
      BY <3>5, <3>6
  <2>2. CASE Kill(a)
    BY <2>2 DEF Kill, Idle
  <2>3. QED
    BY <2>1, <2>2
<1>3. admin'[a].at \in {"start", "idle"} /\ \A b \in Admins \ {a} : admin'[b] = admin[b]
  BY <1>1, <1>2
<1>4. QED
  BY <1>2, <1>3 DEF Still, Dropping, Giving

-----------------------------------------------------------------------------
(* The theorems *)

\* The databases to begin with are made of the same calls.
LEMMA FirstRows ==
  ASSUME AdminInit
  PROVE  /\ Tables(db)
         /\ \A n : Users(db, n) # {} => ProfileKnown(db, n)
<1>1. PICK job \in {"none", "queued", "in_progress", "completed"}, profile \in {"p", "none"}, default \in BOOLEAN :
        LET rows == UpsertTenant(UpsertProfile(UpsertConnection(<<>>, "c", "ready"), "p", default), "t", "c", profile)
            queued == RequestRow(UpsertJob(rows, "t", "j", job), "t", "j")
            ran == SnapshotRow(RunRow(queued, "t", "j"), "t", "j")
            full == MemoryRow(MappingRow(MetricsRow(FindingRow(ran, "j"), "j"), "t", "j"), "t")
        IN db = CASE job = "none" -> rows
                  [] job = "queued" -> queued
                  [] job = "in_progress" -> ran
                  [] job = "completed" -> full
  BY DEF AdminInit
<1>2. PICK empty : empty = <<>>
  OBVIOUS
<1>3. PICK connected : connected = UpsertConnection(empty, "c", "ready")
  OBVIOUS
<1>4. PICK known : known = UpsertProfile(connected, "p", default)
  OBVIOUS
<1>5. PICK rows : rows = UpsertTenant(known, "t", "c", profile)
  OBVIOUS
<1>6. PICK put : put = UpsertJob(rows, "t", "j", job)
  OBVIOUS
<1>7. PICK queued : queued = RequestRow(put, "t", "j")
  OBVIOUS
<1>8. PICK began : began = RunRow(queued, "t", "j")
  OBVIOUS
<1>9. PICK ran : ran = SnapshotRow(began, "t", "j")
  OBVIOUS
<1>10. PICK found : found = FindingRow(ran, "j")
  OBVIOUS
<1>11. PICK measured : measured = MetricsRow(found, "j")
  OBVIOUS
<1>12. PICK mapped : mapped = MappingRow(measured, "t", "j")
  OBVIOUS
<1>13. PICK full : full = MemoryRow(mapped, "t")
  OBVIOUS
<1>14. db = rows \/ db = queued \/ db = ran \/ db = full
  BY <1>1, <1>2, <1>3, <1>4, <1>5, <1>6, <1>7, <1>8, <1>9, <1>10, <1>11, <1>12, <1>13
<1>15. Tables(empty)
  BY <1>2 DEF Tables, RowsIn
<1>16. Tables(connected) /\ Connection("c") \in DOMAIN connected
  <2>1. Tables(connected)
    BY <1>3, <1>15, ConnectionStands
  <2>2. QED
    BY <1>3, <2>1 DEF UpsertConnection, Put
<1>17. Tables(known) /\ Connection("c") \in DOMAIN known /\ Profile("p") \in DOMAIN known
  <2>1. Tables(known)
    BY <1>4, <1>16, ProfileStands
  <2>2. Upserted(connected, "p", default, known)
    BY <1>4, <1>16, ProfileRows
  <2>3. QED
    BY <1>16, <2>1, <2>2 DEF Upserted
<1>18. Tables(rows) /\ T \in DOMAIN rows
  <2>1. Tables(rows)
    BY <1>5, <1>17, TenantStands
  <2>2. QED
    BY <1>5, <2>1 DEF UpsertTenant, Put, T
<1>19. "j" \in AdminJobs
  BY AdminAssumption
<1>20. Tables(put) /\ HasJob(put, "j")
  BY <1>6, <1>18, <1>19, JobIsPut
<1>21. Tables(queued) /\ HasJob(queued, "j")
  BY <1>7, <1>20, JobRowsPut
<1>22. Tables(began) /\ HasRun(began, "j")
  BY <1>8, <1>21, JobRowsPut
<1>23. Tables(ran) /\ HasRun(ran, "j")
  BY <1>9, <1>22, JobRowsPut DEF HasRun
<1>24. Tables(found) /\ HasRun(found, "j")
  BY <1>10, <1>23, RunRowsPut DEF HasRun
<1>25. Tables(measured) /\ HasRun(measured, "j")
  BY <1>11, <1>24, RunRowsPut DEF HasRun
<1>26. Tables(mapped) /\ HasJob(mapped, "j")
  BY <1>12, <1>25, RunRowsPut DEF HasRun
<1>27. Tables(full)
  BY <1>13, <1>26, JobRowsPut
<1>28. Keeps(rows, queued) /\ Keeps(rows, ran) /\ Keeps(rows, full)
  <2>1. Keeps(rows, put) /\ Keeps(put, queued) /\ Keeps(queued, began) /\ Keeps(began, ran)
    BY <1>6, <1>7, <1>8, <1>9, RowsKeep
  <2>2. Keeps(ran, found) /\ Keeps(found, measured) /\ Keeps(measured, mapped) /\ Keeps(mapped, full)
    BY <1>10, <1>11, <1>12, <1>13, RowsKeep
  <2>3. QED
    BY <2>1, <2>2, KeepsOn
<1>29. \A n : Users(rows, n) # {} => ProfileKnown(rows, n)
  <2>1. \A k \in DOMAIN known : k.table # "tenants"
    <3>1. DOMAIN known = {Connection("c"), Profile("p")}
      <4>1. DOMAIN connected = {Connection("c")}
        BY <1>2, <1>3 DEF UpsertConnection, Put
      <4>2. Upserted(connected, "p", default, known)
        BY <1>4, <1>16, ProfileRows
      <4>3. QED
        BY <4>1, <4>2 DEF Upserted
    <3>2. QED
      BY <3>1 DEF Connection, Profile, Key
  <2>2. /\ DOMAIN rows = DOMAIN known \cup {Tenant("t")} /\ rows[Tenant("t")].value = profile
    BY <1>5 DEF UpsertTenant, Put
  <2>3. ASSUME NEW n, Users(rows, n) # {} PROVE n = profile
    BY <2>1, <2>2, <2>3 DEF Users, RowsIn
  <2>4. ProfileKnown(rows, profile)
    BY <1>1, <1>17, <2>2 DEF ProfileKnown
  <2>5. QED
    BY <2>3, <2>4
<1>30. \A n : Users(db, n) # {} => ProfileKnown(db, n)
  <2>1. Keeps(rows, db)
    BY <1>14, <1>28, KeepsOn
  <2>2. QED
    BY <1>29, <2>1, KeepsOn DEF Keeps
<1>31. QED
  BY <1>14, <1>18, <1>21, <1>23, <1>27, <1>30

\* Every first state has the invariant, as no command has begun.
LEMMA AdminBegins ==
  AdminInit => AdminInv
<1> SUFFICES ASSUME AdminInit PROVE AdminInv
  OBVIOUS
<1>1. Tables(db)
  BY FirstRows
<1>2. admin = [b \in Admins |-> Idle] /\ served = 0 /\ commands = 0
  BY DEF AdminInit
<1>3. ASSUME NEW b \in Admins
      PROVE  ProcessOK(admin[b]) /\ OnTrack(admin[b], db)
  <2>1. admin[b] = Idle
    BY <1>2
  <2>2. Idle.at = "idle" /\ Idle.cmd.op = "none" /\ Idle.outcome = "none"
    BY DEF Idle, NoCommand
  <2>3. Idle = [cmd |-> Idle.cmd, at |-> Idle.at, read |-> Idle.read, outcome |-> Idle.outcome,
                promise |-> Idle.promise]
    BY DEF Idle
  <2>4. QED
    BY <2>1, <2>2, <2>3 DEF ProcessOK, OnTrack
<1>4. served \in 0 .. ServerSteps /\ commands \in 0 .. AdminSteps
  BY <1>2, AdminAssumption
<1>5. QED
  BY <1>1, <1>2, <1>3, <1>4 DEF AdminInv

\* Every step keeps it, and only the server touches a claimed job.
LEMMA AdminSteady ==
  AdminInv /\ [AdminNext]_adminVars => AdminInv' /\ (served' = served => Spares(db, db'))
<1> SUFFICES ASSUME AdminInv, [AdminNext]_adminVars
             PROVE  AdminInv' /\ (served' = served => Spares(db, db'))
  OBVIOUS
<1>1. ASSUME NEW a \in Admins, Begin(a) \/ Kill(a) \/ (AdminStep(a) /\ UNCHANGED <<served, commands>>)
      PROVE  Stands
  BY <1>1, ProcessesStand, CommandsStand
<1>2. CASE ServerStep
  <2>1. AdminInv' /\ served' # served
    BY <1>2, ServerStands DEF ServerStep, AdminInv
  <2>2. QED
    BY <2>1
<1>3. CASE UNCHANGED adminVars
  <2>1. db' = db /\ admin' = admin /\ served' = served /\ commands' = commands
    BY <1>3 DEF adminVars
  <2>2. AdminInv'
    BY <2>1 DEF AdminInv
  <2>3. QED
    BY <2>1, <2>2, NothingLost
<1>4. QED
  BY <1>1, <1>2, <1>3 DEF AdminNext, AdminMove, Stands

\* The tables are sound in every state, and a command that nobody disturbed is
\* on its way to what it promised.
THEOREM AdministrationIsSound == AdminSpec => []AdminInv
<1>1. AdminInv /\ [AdminNext]_adminVars => AdminInv'
  BY AdminSteady
<1>2. QED
  BY <1>1, AdminBegins, PTL DEF AdminSpec

\* AdminInv gives the types of the tables and of the processes: no row of the
\* store refers to one that is gone, whatever the commands delete.
THEOREM RowsReferToRows == AdminSpec => []AdminTypeOK
<1>1. ASSUME AdminInv PROVE AdminTypeOK
  <2>1. ASSUME NEW k \in DOMAIN db PROVE db[k].refs \subseteq DOMAIN db
    <3>1. RowStands(db, k)
      BY <1>1 DEF AdminInv, Tables
    <3>2. QED
      BY <3>1 DEF RowStands
  <2>2. QED
    BY <1>1, <2>1 DEF AdminInv, AdminTypeOK, ProcessOK
<1>2. QED
  BY <1>1, AdministrationIsSound, PTL

\* A command that nobody else wrote beside ends as it promised when it began,
\* with the database that it promised: in particular the removal of a tenant,
\* thirteen calls long, removes what the tenant owns and nothing else.
THEOREM CommandsAreKept == AdminSpec => []CommandsKeepPromises
<1>1. AdminInv => CommandsKeepPromises
  BY DEF AdminInv, OnTrack, CommandsKeepPromises
<1>2. QED
  BY <1>1, AdministrationIsSound, PTL

\* Nothing is looked up or counted to begin with, and the tenant's profile is there.
LEMMA ReferencesBegin ==
  AdminInit => ReferencesInv
<1> SUFFICES ASSUME AdminInit PROVE ReferencesInv
  OBVIOUS
<1>1. \A n : Users(db, n) # {} => ProfileKnown(db, n)
  BY FirstRows
<1>2. admin = [b \in Admins |-> Idle] /\ crossed = {}
  BY DEF AdminInit
<1>3. \A b \in Admins : \A n : ~Dropping(admin[b], n) /\ ~Giving(admin[b], n)
  BY <1>2 DEF Dropping, Giving, Idle
<1>4. Crossing(admin) \subseteq crossed
  BY <1>3 DEF Crossing
<1>5. QED
  BY <1>1, <1>3, <1>4 DEF ReferencesInv

\* Every step keeps what the two calls have seen, or marks that they crossed.
LEMMA ReferencesSteady ==
  AdminInv /\ ReferencesInv /\ [AdminNext]_adminVars => ReferencesInv'
<1> SUFFICES ASSUME AdminInv, ReferencesInv, [AdminNext]_adminVars PROVE ReferencesInv'
  OBVIOUS
<1>1. CASE UNCHANGED adminVars
  BY <1>1 DEF adminVars, ReferencesInv
<1>2. CASE AdminNext
  <2>1. crossed' = crossed \cup Crossing(admin') /\ AdminMove
    BY <1>2 DEF AdminNext
  <2>2. ASSUME NEW a \in Admins, Begin(a) \/ Kill(a) PROVE ReferencesInv'
    BY <2>1, <2>2, ProcessesKeep, KeptReferences, KeepsOn
  <2>3. ASSUME NEW a \in Admins, AdminStep(a) PROVE ReferencesInv'
    <3>1. (\A b \in Admins \ {a} : Still(b)) /\ (admin'[a].at = "end" => Still(a))
      BY <2>3, OthersStill
    <3>2. Apart(admin'[a], db, db') \/ Deletes(a) \/ Gives(a)
      BY <2>3, DefaultsApart, ConnectionCallsApart, TenantsApart, RemovalApart, GiftApart DEF AdminStep
    <3>3. CASE Apart(admin'[a], db, db')
      BY <2>1, <3>1, <3>3, KeptReferences DEF Apart
    <3>4. CASE Deletes(a)
      <4>1. \A b \in Admins : Still(b)
        BY <3>1, <3>4 DEF Deletes
      <4>2. QED
        BY <2>1, <3>4, <4>1, DeletedProfile
    <3>5. CASE Gives(a)
      <4>1. \A b \in Admins : Still(b)
        BY <3>1, <3>5 DEF Gives
      <4>2. QED
        BY <2>1, <3>5, <4>1, GivenProfile
    <3>6. QED
      BY <3>2, <3>3, <3>4, <3>5
  <2>4. CASE ServerStep
    BY <2>1, <2>4, ServerKeeps, KeptReferences
  <2>5. QED
    BY <2>1, <2>2, <2>3, <2>4 DEF AdminMove
<1>3. QED
  BY <1>1, <1>2

\* The profile of a tenant is no key of the store.  Still it is there whatever
\* commands overlap and are killed, unless a removal that had counted and an
\* assignment that had looked met before either wrote; and at most one profile
\* is the default.
THEOREM ProfilesStayConsistent == AdminSpec => []ProfilesConsistent
<1>1. ASSUME AdminInv, ReferencesInv PROVE ProfilesConsistent
  <2>1. Tables(db)
    BY <1>1 DEF AdminInv
  <2>2. \A k \in RowsIn(db, "tenants") : ProfileKnown(db, db[k].value) \/ db[k].value \in crossed
    BY <1>1 DEF ReferencesInv, Users
  <2>3. PICK defaults : defaults = {p \in RowsIn(db, "model_profiles") : db[p].value}
    OBVIOUS
  <2>4. \A k, l \in defaults : k = l
    BY <2>1, <2>3 DEF Tables
  <2>5. DefaultOf(db) = {k.id : k \in defaults}
    BY <2>3 DEF DefaultOf
  <2>6. CASE defaults = {}
    <3>1. DefaultOf(db) = {}
      BY <2>5, <2>6
    <3>2. Cardinality(DefaultOf(db)) = 0
      BY <3>1, FS_EmptySet
    <3>3. QED
      BY <2>2, <3>2 DEF ProfilesConsistent
  <2>7. CASE defaults # {}
    <3>1. PICK k \in defaults : TRUE
      BY <2>7
    <3>2. defaults = {k}
      BY <2>4, <3>1
    <3>3. DefaultOf(db) = {k.id}
      BY <2>5, <3>2
    <3>4. Cardinality(DefaultOf(db)) = 1
      BY <3>3, FS_Singleton
    <3>5. QED
      BY <2>2, <3>4 DEF ProfilesConsistent
  <2>8. QED
    BY <2>6, <2>7
<1>2. AdminSpec => []ReferencesInv
  BY ReferencesBegin, ReferencesSteady, AdministrationIsSound, PTL DEF AdminSpec
<1>3. QED
  BY <1>1, <1>2, AdministrationIsSound, PTL

\* No command deletes or changes a job that a runner has claimed, not even a
\* removal that read the job before it was claimed.
THEOREM ClaimsAreRespected == AdminSpec => ClaimedJobSurvives
<1>1. AdminInv /\ [AdminNext]_adminVars => [ClaimedJobsSurvive]_adminVars
  BY AdminSteady DEF Spares, ClaimedJobsSurvive, IsJob
<1>2. QED
  BY <1>1, AdministrationIsSound, PTL DEF AdminSpec, ClaimedJobSurvives

-----------------------------------------------------------------------------
(* The migration of a storage *)

MigrationSpec == MigrationInit /\ [][MigrationNext]_migrationVars

Jobs == "interaction_jobs"
Copying == {"count", "pages", "rows", "done"}

\* Rows are rows, and refer to rows that are there.
AreRows(d) ==
  /\ d = [k \in DOMAIN d |-> d[k]]
  /\ \A k \in DOMAIN d : d[k] = [refs |-> d[k].refs, value |-> d[k].value]
RowsStand(d) == AreRows(d) /\ \A k \in DOMAIN d : d[k].refs \subseteq DOMAIN d

\* The rows of the stores before, and those of the pages of a store up to one.
Before(d, s) == {k \in DOMAIN d : \E i \in 1 .. s - 1 : k.table = Steps[i]}
ReadTo(d, s, n) == {k \in RowsIn(d, Steps[s]) : RankOf(d, k) < n * PageSize}

CopiedSoFar ==
  IF phase = "count" THEN Before(source, store)
  ELSE IF phase = "pages" THEN Before(source, store) \cup ReadTo(source, store, page - 1)
  ELSE IF phase = "rows" THEN Before(source, store) \cup (ReadTo(source, store, page) \ DOMAIN batch)
  ELSE DOMAIN source

SameRows(d, e) == \A k \in DOMAIN d \cap DOMAIN e : k.table = "model_profiles" \/ e[k] = d[k]
HasCopied(d, e, keys) == \A k \in keys : k \in DOMAIN e /\ e[k] = d[k]

\* What a run has done, and what it found in the target when it began.
Progress ==
  /\ source \in Sources
  /\ SameRows(source, target)
  /\ runs = 0 => phase = "idle" /\ RowsIn(target, Jobs) = {}
  /\ phase \in Copying =>
       /\ copied = CopiedSoFar /\ HasCopied(source, target, copied)
       /\ runs = 1 => RowsIn(target, Jobs) \subseteq copied
  /\ phase \in {"pages", "rows"} => Cardinality(RowsIn(source, Steps[store])) <= pages * PageSize
  /\ phase = "rows" =>
       /\ DOMAIN batch # {} /\ DOMAIN batch \subseteq Page(source, Steps[store], page)
       /\ \A k \in DOMAIN batch : batch[k] = source[k]
  /\ phase = "failed" => runs > 1 /\ \E k \in RowsIn(target, Jobs) : target[k].value = "in_progress"

MigrationInv ==
  /\ store \in 1 .. 11 /\ page \in Nat \ {0} /\ pages \in Nat
  /\ phase \in {"idle", "count", "pages", "rows", "done", "failed"}
  /\ runs \in 0 .. MigrationRuns /\ quiet \in BOOLEAN
  /\ IsFiniteSet(DOMAIN source) /\ AreRows(source) /\ AreRows(batch) /\ RowsStand(target)
  /\ quiet => Progress

-----------------------------------------------------------------------------
(* The order of the stores and the pages of a store *)

\* Each table is a step of its own, after those that its rows refer to.
LEMMA StepsInOrder ==
  /\ DOMAIN Steps = 1 .. 11 /\ Steps[1] = "model_profiles" /\ Steps[5] = Jobs
  /\ DOMAIN ForeignKeys = {Steps[i] : i \in 1 .. 11}
  /\ \A i, j \in 1 .. 11 : Steps[i] = Steps[j] => i = j
  /\ \A i \in 1 .. 11 : \A t \in ForeignKeys[Steps[i]] : \E j \in 1 .. i - 1 : Steps[j] = t
  /\ \A i \in 1 .. 11 : Steps[i] = "tenants" => 1 \in 1 .. i - 1
<1>1. /\ DOMAIN Steps = 1 .. 11 /\ Steps[1] = "model_profiles" /\ Steps[5] = Jobs
      /\ Steps[2] = "platform_connections" /\ Steps[3] = "tenants" /\ Steps[4] = "project_memories"
      /\ Steps[6] = "interaction_requests" /\ Steps[7] = "code_review_snapshots"
      /\ Steps[8] = "interaction_runs" /\ Steps[9] = "interaction_run_metrics"
      /\ Steps[10] = "review_findings" /\ Steps[11] = "discussion_mappings"
  BY DEF Steps, Jobs
<1>2. /\ ForeignKeys[Steps[1]] = {} /\ ForeignKeys[Steps[2]] = {}
      /\ ForeignKeys[Steps[3]] = {Steps[2]} /\ ForeignKeys[Steps[4]] = {Steps[3]}
      /\ ForeignKeys[Steps[5]] = {Steps[3]} /\ ForeignKeys[Steps[6]] = {Steps[3], Steps[5]}
      /\ ForeignKeys[Steps[7]] = {Steps[3], Steps[5]} /\ ForeignKeys[Steps[8]] = {Steps[3], Steps[5]}
      /\ ForeignKeys[Steps[9]] = {Steps[8]} /\ ForeignKeys[Steps[10]] = {Steps[8]}
      /\ ForeignKeys[Steps[11]] = {Steps[3], Steps[8]}
  BY <1>1 DEF ForeignKeys, Jobs
<1>3. \A i \in 1 .. 11 : i \in {1, 2, 3, 4, 5, 6, 7, 8, 9, 10, 11}
  OBVIOUS
<1>4. \A i \in {1, 2, 3, 4, 5, 6, 7, 8, 9, 10, 11} : i \in 1 .. 11
  OBVIOUS
<1>5. DOMAIN ForeignKeys = {Steps[i] : i \in 1 .. 11}
  <2>1. DOMAIN ForeignKeys = {Steps[1], Steps[2], Steps[3], Steps[4], Steps[5], Steps[6], Steps[7],
                              Steps[8], Steps[9], Steps[10], Steps[11]}
    BY <1>1 DEF ForeignKeys, Jobs
  <2>2. QED
    BY <2>1, <1>3, <1>4
<1>6. \A i, j \in 1 .. 11 : Steps[i] = Steps[j] => i = j
  BY <1>1, <1>3 DEF Jobs
<1>7. \A i \in 1 .. 11 : Steps[i] = "tenants" => i = 3
  BY <1>1, <1>6
<1>8. ASSUME NEW i \in 1 .. 11, NEW t \in ForeignKeys[Steps[i]]
      PROVE  \E j \in 1 .. i - 1 : Steps[j] = t
  <2>1. CASE i \in {1, 2}
    BY <1>2, <1>8, <2>1
  <2>2. CASE i \in {3, 4, 5}
    <3>1. 2 \in 1 .. 3 - 1 /\ 3 \in 1 .. 4 - 1 /\ 3 \in 1 .. 5 - 1
      OBVIOUS
    <3>2. QED
      BY <1>2, <1>8, <2>2, <3>1
  <2>3. CASE i \in {6, 7, 8}
    <3>1. 3 \in 1 .. i - 1 /\ 5 \in 1 .. i - 1
      BY <2>3
    <3>2. t = Steps[3] \/ t = Steps[5]
      BY <1>2, <1>8, <2>3
    <3>3. QED
      BY <3>1, <3>2
  <2>4. CASE i \in {9, 10, 11}
    <3>1. 3 \in 1 .. i - 1 /\ 8 \in 1 .. i - 1
      BY <2>4
    <3>2. t = Steps[3] \/ t = Steps[8]
      BY <1>2, <1>8, <2>4
    <3>3. QED
      BY <3>1, <3>2
  <2>5. QED
    BY <1>3, <2>1, <2>2, <2>3, <2>4
<1>9. QED
  BY <1>1, <1>5, <1>6, <1>7, <1>8

LEMMA PagesMultiply ==
  ASSUME NEW n \in Nat \ {0}
  PROVE  /\ PageSize \in Nat \ {0} /\ n - 1 \in Nat
         /\ (n - 1) * PageSize \in Nat /\ n * PageSize \in Nat
         /\ n * PageSize = (n - 1) * PageSize + PageSize
BY MigrationAssumption

\* A rank is less than the number of rows.
LEMMA RankWithin ==
  ASSUME NEW d, IsDatabase(d), NEW k \in DOMAIN d
  PROVE  /\ RankOf(d, k) \in Nat /\ Cardinality(RowsIn(d, k.table)) \in Nat
         /\ RankOf(d, k) < Cardinality(RowsIn(d, k.table))
<1> DEFINE rows == RowsIn(d, k.table)
           less == {l \in rows : Position(l.id) < Position(k.id)}
<1>1. IsFiniteSet(rows)
  BY FS_Subset DEF IsDatabase, RowsIn
<1>2. k \in rows /\ k \notin less /\ less \subseteq rows
  <2>1. Position(k.id) \in Int
    <3>1. PICK i \in DOMAIN IdOrder : IdOrder[i] = k.id
      BY DEF IsDatabase, Ids
    <3>2. Position(k.id) \in DOMAIN IdOrder
      BY <3>1 DEF Position
    <3>3. QED
      BY <3>2, MigrationAssumption
  <2>2. ~(Position(k.id) < Position(k.id))
    BY <2>1
  <2>3. QED
    BY <2>2 DEF RowsIn
<1>3. Cardinality(less) \in Nat /\ Cardinality(rows) \in Nat /\ Cardinality(less) < Cardinality(rows)
  <2>1. IsFiniteSet(less) /\ Cardinality(less) <= Cardinality(rows)
        /\ (Cardinality(less) = Cardinality(rows) => less = rows)
    BY <1>1, <1>2, FS_Subset
  <2>2. QED
    BY <1>1, <1>2, <2>1, FS_CardinalityType
<1>4. QED
  BY <1>3 DEF RankOf

\* Reading one more page adds its rows.
LEMMA OnePageMore ==
  ASSUME NEW d, IsDatabase(d), NEW s \in 1 .. 11, NEW n \in Nat \ {0}
  PROVE  /\ ReadTo(d, s, n) = ReadTo(d, s, n - 1) \cup Page(d, Steps[s], n)
         /\ ReadTo(d, s, n - 1) \cap Page(d, Steps[s], n) = {}
         /\ ReadTo(d, s, 0) = {}
<1>1. /\ (n - 1) * PageSize \in Nat /\ n * PageSize \in Nat
      /\ (n - 1) * PageSize <= n * PageSize /\ 0 * PageSize = 0
  BY PagesMultiply
<1>2. \A k \in RowsIn(d, Steps[s]) : RankOf(d, k) \in Nat
  BY RankWithin DEF RowsIn
<1>3. PICK a, b \in Nat : a = (n - 1) * PageSize /\ b = n * PageSize
  BY <1>1
<1>4. ReadTo(d, s, n) = {k \in RowsIn(d, Steps[s]) : RankOf(d, k) < b}
  BY <1>3 DEF ReadTo
<1>5. ReadTo(d, s, n - 1) = {k \in RowsIn(d, Steps[s]) : RankOf(d, k) < a}
  BY <1>3 DEF ReadTo
<1>6. Page(d, Steps[s], n) = {k \in RowsIn(d, Steps[s]) : a <= RankOf(d, k) /\ RankOf(d, k) < b}
  BY <1>3 DEF Page
<1>7. ReadTo(d, s, 0) = {k \in RowsIn(d, Steps[s]) : RankOf(d, k) < 0}
  BY <1>1 DEF ReadTo
<1>8. a <= b
  BY <1>1, <1>3
<1>9. QED
  BY <1>2, <1>4, <1>5, <1>6, <1>7, <1>8

\* After as many pages as the count makes every row has been read.
LEMMA EveryPageRead ==
  ASSUME NEW d, IsDatabase(d), NEW s \in 1 .. 11, NEW p \in Nat, NEW n \in Nat, p <= n,
         Cardinality(RowsIn(d, Steps[s])) <= p * PageSize
  PROVE  ReadTo(d, s, n) = RowsIn(d, Steps[s])
<1>1. p * PageSize \in Nat /\ n * PageSize \in Nat /\ p * PageSize <= n * PageSize
  BY MigrationAssumption
<1>2. PICK a, b \in Nat : a = p * PageSize /\ b = n * PageSize
  BY <1>1
<1>3. ASSUME NEW k \in RowsIn(d, Steps[s])
      PROVE  RankOf(d, k) < b
  <2>1. k \in DOMAIN d /\ k.table = Steps[s]
    BY DEF RowsIn
  <2>2. RankOf(d, k) \in Nat /\ Cardinality(RowsIn(d, Steps[s])) \in Nat
        /\ RankOf(d, k) < Cardinality(RowsIn(d, Steps[s]))
    BY <2>1, RankWithin
  <2>3. QED
    BY <1>1, <1>2, <2>2
<1>4. QED
  BY <1>2, <1>3 DEF ReadTo

LEMMA CountedPages ==
  ASSUME NEW n \in Nat
  PROVE  /\ (n + PageSize - 1) \div PageSize \in Nat
         /\ n <= ((n + PageSize - 1) \div PageSize) * PageSize
<1>1. PICK b \in Nat \ {0} : b = PageSize
  BY MigrationAssumption
<1>2. PICK a \in Nat : a = n + PageSize - 1
  BY <1>1
<1>3. /\ a \div b \in Nat /\ a < b * ((a \div b) + 1)
  OBVIOUS
<1>4. PICK q \in Nat : q = a \div b
  BY <1>3
<1>5. a < b * (q + 1) /\ b * (q + 1) = q * b + b /\ q * b \in Nat
  BY <1>3, <1>4
<1>6. n <= q * b
  BY <1>1, <1>2, <1>5
<1>7. QED
  BY <1>1, <1>2, <1>4, <1>6

\* The rows of the stores before grow by those of a store, to all in the end.
LEMMA StoresInOrder ==
  ASSUME NEW d, IsDatabase(d), NEW s \in 1 .. 11
  PROVE  /\ Before(d, 1) = {} /\ Before(d, 12) = DOMAIN d
         /\ Before(d, s + 1) = Before(d, s) \cup RowsIn(d, Steps[s])
         /\ Before(d, s) \cap RowsIn(d, Steps[s]) = {}
<1>1. Before(d, 1) = {}
  BY DEF Before
<1>2. ASSUME NEW k \in DOMAIN d PROVE k \in Before(d, 12)
  <2>1. k.table \in DOMAIN ForeignKeys
    BY DEF IsDatabase
  <2>2. PICK i \in 1 .. 11 : k.table = Steps[i]
    BY <2>1, StepsInOrder
  <2>3. i \in 1 .. 12 - 1
    OBVIOUS
  <2>4. QED
    BY <2>2, <2>3 DEF Before
<1>3. 1 .. (s + 1) - 1 = (1 .. s - 1) \cup {s}
  OBVIOUS
<1>4. Before(d, s + 1) = Before(d, s) \cup RowsIn(d, Steps[s])
  BY <1>3 DEF Before, RowsIn
<1>5. ASSUME NEW k \in Before(d, s), k.table = Steps[s] PROVE FALSE
  <2>1. PICK i \in 1 .. s - 1 : k.table = Steps[i]
    BY DEF Before
  <2>2. i \in 1 .. 11 /\ i # s
    OBVIOUS
  <2>3. QED
    BY <1>5, <2>1, <2>2, StepsInOrder
<1>6. Before(d, 12) \subseteq DOMAIN d
  BY DEF Before
<1>7. QED
  BY <1>1, <1>2, <1>4, <1>5, <1>6 DEF RowsIn

\* What a row refers to is a row of a store before.
LEMMA RefersBack ==
  ASSUME NEW d, IsDatabase(d), NEW s \in 1 .. 11, NEW k \in RowsIn(d, Steps[s])
  PROVE  /\ d[k].refs \subseteq Before(d, s)
         /\ k.table = "tenants" => d[k].value = "none" \/ Profile(d[k].value) \in Before(d, s)
<1>1. k \in DOMAIN d /\ k.table = Steps[s]
  BY DEF RowsIn
<1>2. ASSUME NEW r \in d[k].refs PROVE r \in Before(d, s)
  <2>1. r \in DOMAIN d /\ r.table \in ForeignKeys[Steps[s]]
    BY <1>1 DEF IsDatabase
  <2>2. \E j \in 1 .. s - 1 : Steps[j] = r.table
    BY <2>1, StepsInOrder
  <2>3. QED
    BY <2>1, <2>2 DEF Before
<1>3. ASSUME k.table = "tenants", d[k].value # "none" PROVE Profile(d[k].value) \in Before(d, s)
  <2>1. Profile(d[k].value) \in DOMAIN d
    BY <1>1, <1>3 DEF IsDatabase, ProfileKnown
  <2>2. Profile(d[k].value).table = "model_profiles"
    BY DEF Profile, Key
  <2>3. 1 \in 1 .. s - 1 /\ Steps[1] = "model_profiles"
    BY <1>1, <1>3, StepsInOrder
  <2>4. QED
    BY <2>1, <2>2, <2>3 DEF Before
<1>4. QED
  BY <1>2, <1>3

-----------------------------------------------------------------------------
(* What is written *)

\* A profile that is the default takes that from the others, and nothing else.
ProfileIn(d, n, v, e) ==
  /\ RowsStand(e) /\ DOMAIN e = DOMAIN d \cup {Profile(n)}
  /\ e[Profile(n)] = [refs |-> {}, value |-> v]
  /\ \A l \in DOMAIN d : l # Profile(n) =>
       e[l] = IF v /\ l.table = "model_profiles" THEN [refs |-> d[l].refs, value |-> FALSE] ELSE d[l]

LEMMA ProfileWritten ==
  ASSUME NEW d, RowsStand(d), NEW n, NEW v
  PROVE  ProfileIn(d, n, v, UpsertProfile(d, n, v))
<1> SUFFICES ASSUME NEW e, e = UpsertProfile(d, n, v) PROVE ProfileIn(d, n, v, e)
  OBVIOUS
<1> DEFINE others == [k \in DOMAIN d |->
             IF v /\ k.table = "model_profiles" THEN [d[k] EXCEPT !.value = FALSE] ELSE d[k]]
<1>1. e = Put(others, Profile(n), {}, v) /\ DOMAIN others = DOMAIN d
  BY DEF UpsertProfile
<1>2. ASSUME NEW l \in DOMAIN d
      PROVE  others[l] = IF v /\ l.table = "model_profiles" THEN [refs |-> d[l].refs, value |-> FALSE] ELSE d[l]
  <2>1. d[l] = [refs |-> d[l].refs, value |-> d[l].value]
    BY DEF RowsStand, AreRows
  <2>2. [d[l] EXCEPT !.value = FALSE] = [refs |-> d[l].refs, value |-> FALSE]
    BY <2>1, NewValue
  <2>3. QED
    BY <2>2
<1> HIDE DEF others
<1>3. /\ DOMAIN e = DOMAIN d \cup {Profile(n)} /\ e = [l \in DOMAIN e |-> e[l]]
      /\ e[Profile(n)] = [refs |-> {}, value |-> v]
      /\ \A l \in DOMAIN d : l # Profile(n) => e[l] = others[l]
  BY <1>1 DEF Put
<1>4. ASSUME NEW l \in DOMAIN e
      PROVE  e[l] = [refs |-> e[l].refs, value |-> e[l].value] /\ e[l].refs \subseteq DOMAIN e
  <2>1. CASE l = Profile(n)
    BY <1>3, <2>1
  <2>2. CASE l # Profile(n)
    <3>1. l \in DOMAIN d
      BY <1>3, <2>2
    <3>2. d[l] = [refs |-> d[l].refs, value |-> d[l].value] /\ d[l].refs \subseteq DOMAIN d
      BY <3>1 DEF RowsStand, AreRows
    <3>3. e[l] = [refs |-> d[l].refs, value |-> FALSE] \/ e[l] = d[l]
      BY <1>2, <1>3, <2>2, <3>1
    <3>4. QED
      BY <1>3, <3>2, <3>3
  <2>3. QED
    BY <2>1, <2>2
<1>5. RowsStand(e)
  BY <1>3, <1>4 DEF RowsStand, AreRows
<1>6. QED
  BY <1>2, <1>3, <1>5 DEF ProfileIn

RowIn(d, k, refs, v, e) ==
  /\ RowsStand(e) /\ DOMAIN e = DOMAIN d \cup {k}
  /\ e[k] = [refs |-> refs, value |-> v]
  /\ \A l \in DOMAIN d : l # k => e[l] = d[l]

LEMMA RowPut ==
  ASSUME NEW d, RowsStand(d), NEW k, NEW refs, refs \subseteq DOMAIN d, NEW v
  PROVE  RowIn(d, k, refs, v, Put(d, k, refs, v))
<1> SUFFICES ASSUME NEW e, e = Put(d, k, refs, v) PROVE RowIn(d, k, refs, v, e)
  OBVIOUS
<1>1. /\ DOMAIN e = DOMAIN d \cup {k} /\ e = [l \in DOMAIN e |-> e[l]]
      /\ e[k] = [refs |-> refs, value |-> v]
      /\ \A l \in DOMAIN d : l # k => e[l] = d[l]
  BY DEF Put
<1>2. ASSUME NEW l \in DOMAIN e
      PROVE  e[l] = [refs |-> e[l].refs, value |-> e[l].value] /\ e[l].refs \subseteq DOMAIN e
  <2>1. CASE l = k
    BY <1>1, <2>1
  <2>2. CASE l # k
    BY <1>1, <2>2 DEF RowsStand, AreRows
  <2>3. QED
    BY <2>1, <2>2
<1>3. RowsStand(e)
  BY <1>1, <1>2 DEF RowsStand, AreRows
<1>4. QED
  BY <1>1, <1>3 DEF RowIn

\* A row that may be written leaves rows that stand, whatever was read.
LEMMA CopyStands ==
  ASSUME NEW d, RowsStand(d), NEW k, NEW row, MayCopy(d, k, row)
  PROVE  RowsStand(Copy(d, k, row))
<1>1. row.refs \subseteq DOMAIN d
  BY DEF MayCopy, MayPut
<1>2. CASE k.table = "model_profiles"
  <2>1. Copy(d, k, row) = UpsertProfile(d, k.id, row.value)
    BY <1>2 DEF Copy
  <2>2. ProfileIn(d, k.id, row.value, Copy(d, k, row))
    BY <2>1, ProfileWritten
  <2>3. QED
    BY <2>2 DEF ProfileIn
<1>3. CASE k.table # "model_profiles"
  <2>1. Copy(d, k, row) = Put(d, k, row.refs, row.value)
    BY <1>3 DEF Copy
  <2>2. RowIn(d, k, row.refs, row.value, Copy(d, k, row))
    BY <1>1, <2>1, RowPut
  <2>3. QED
    BY <2>2 DEF RowIn
<1>4. QED
  BY <1>2, <1>3

\* What was copied keeps to the source while a row of the source is written.
LEMMA CopiesKept ==
  ASSUME NEW d, IsDatabase(d), NEW e, RowsStand(e), SameRows(d, e),
         NEW keys \in SUBSET DOMAIN d, HasCopied(d, e, keys),
         NEW k \in DOMAIN d, MayCopy(e, k, d[k]), NEW f, f = Copy(e, k, d[k])
  PROVE  DOMAIN f = DOMAIN e \cup {k} /\ SameRows(d, f) /\ HasCopied(d, f, keys \cup {k})
<1>1. d[k] = [refs |-> d[k].refs, value |-> d[k].value] /\ k = Key(k.table, k.id)
  BY DEF IsDatabase
<1>2. CASE k.table = "model_profiles"
  <2>1. f = UpsertProfile(e, k.id, d[k].value) /\ Profile(k.id) = k
    BY <1>1, <1>2 DEF Copy, Profile
  <2>2. /\ DOMAIN f = DOMAIN e \cup {k} /\ f[k] = [refs |-> {}, value |-> d[k].value]
        /\ \A l \in DOMAIN e : l # k =>
             f[l] = IF d[k].value /\ l.table = "model_profiles" THEN [refs |-> e[l].refs, value |-> FALSE] ELSE e[l]
    <3>1. ProfileIn(e, k.id, d[k].value, f)
      BY <2>1, ProfileWritten
    <3>2. QED
      BY <2>1, <3>1 DEF ProfileIn
  <2>3. d[k].refs = {}
    <3>1. ForeignKeys[k.table] = {}
      BY <1>2 DEF ForeignKeys
    <3>2. QED
      BY <3>1 DEF IsDatabase
  <2>4. f[k] = d[k]
    BY <1>1, <2>2, <2>3
  <2>5. ASSUME NEW l \in keys, l # k PROVE l \in DOMAIN f /\ f[l] = d[l]
    <3>1. l \in DOMAIN d /\ l \in DOMAIN e /\ e[l] = d[l]
          /\ d[l] = [refs |-> d[l].refs, value |-> d[l].value]
      BY DEF HasCopied, IsDatabase
    <3>2. CASE d[k].value /\ l.table = "model_profiles"
      <4>1. k \in RowsIn(d, "model_profiles") /\ l \in RowsIn(d, "model_profiles")
        BY <1>2, <3>1, <3>2 DEF RowsIn
      <4>2. d[l].value \in BOOLEAN /\ ~d[l].value
        BY <2>5, <3>1, <3>2, <4>1 DEF IsDatabase
      <4>3. d[l].value = FALSE
        BY <4>2
      <4>4. f[l] = [refs |-> e[l].refs, value |-> FALSE]
        BY <2>2, <2>5, <3>1, <3>2
      <4>5. QED
        BY <2>2, <3>1, <4>3, <4>4
    <3>3. CASE ~(d[k].value /\ l.table = "model_profiles")
      BY <2>2, <2>5, <3>1, <3>3
    <3>4. QED
      BY <3>2, <3>3
  <2>6. SameRows(d, f)
    BY <1>2, <2>2 DEF SameRows
  <2>7. QED
    BY <2>2, <2>4, <2>5, <2>6 DEF HasCopied
<1>3. CASE k.table # "model_profiles"
  <2>1. f = Put(e, k, d[k].refs, d[k].value) /\ d[k].refs \subseteq DOMAIN e
    BY <1>3 DEF Copy, MayCopy, MayPut
  <2>2. /\ DOMAIN f = DOMAIN e \cup {k} /\ f[k] = d[k]
        /\ \A l \in DOMAIN e : l # k => f[l] = e[l]
    <3>1. RowIn(e, k, d[k].refs, d[k].value, f)
      BY <2>1, RowPut
    <3>2. QED
      BY <1>1, <3>1 DEF RowIn
  <2>3. SameRows(d, f)
    BY <2>2 DEF SameRows
  <2>4. HasCopied(d, f, keys \cup {k})
    BY <2>2 DEF HasCopied
  <2>5. QED
    BY <2>2, <2>3, <2>4
<1>4. QED
  BY <1>2, <1>3

\* With the stores before copied no reference of a row is missed.
LEMMA MayCopyNext ==
  ASSUME NEW d, IsDatabase(d), NEW s \in 1 .. 11, NEW e,
         NEW keys, HasCopied(d, e, keys), Before(d, s) \subseteq keys, NEW k \in RowsIn(d, Steps[s])
  PROVE  MayCopy(e, k, d[k]) /\ d[k].refs \subseteq keys
<1>1. /\ d[k].refs \subseteq Before(d, s)
      /\ k.table = "tenants" => d[k].value = "none" \/ Profile(d[k].value) \in Before(d, s)
  BY RefersBack
<1>2. keys \subseteq DOMAIN e
  BY DEF HasCopied
<1>3. QED
  BY <1>1, <1>2 DEF MayCopy, MayPut, ProfileKnown

-----------------------------------------------------------------------------
(* The steps of the migration *)

\* The target is empty at first, or has a profile.
LEMMA MigrationBegins ==
  MigrationInit => MigrationInv
<1> SUFFICES ASSUME MigrationInit PROVE MigrationInv
  OBVIOUS
<1>1. PICK d : d = <<>>
  OBVIOUS
<1>2. d = [k \in DOMAIN d |-> d[k]] /\ DOMAIN d = {}
  BY <1>1
<1>3. RowsStand(d)
  BY <1>2 DEF RowsStand, AreRows
<1>4. RowsStand(target) /\ \A k \in DOMAIN target : k.table = "model_profiles"
  <2>1. CASE target = d
    BY <1>2, <1>3, <2>1
  <2>2. CASE target # d
    <3>1. PICK n : target = UpsertProfile(d, n, TRUE)
      BY <1>1, <2>2 DEF MigrationInit
    <3>2. ProfileIn(d, n, TRUE, target)
      BY <1>3, <3>1, ProfileWritten
    <3>3. Profile(n).table = "model_profiles"
      BY DEF Profile, Key
    <3>4. QED
      BY <1>2, <3>2, <3>3 DEF ProfileIn
  <2>3. QED
    BY <2>1, <2>2
<1>5. SameRows(source, target) /\ RowsIn(target, Jobs) = {}
  BY <1>4 DEF SameRows, RowsIn, Jobs
<1>6. Progress
  BY <1>5 DEF Progress, MigrationInit, Copying
<1>7. IsFiniteSet(DOMAIN source) /\ AreRows(source) /\ AreRows(batch)
  <2>1. batch = d
    BY <1>1 DEF MigrationInit
  <2>2. AreRows(batch)
    BY <1>3, <2>1 DEF RowsStand
  <2>3. IsDatabase(source)
    BY MigrationAssumption DEF MigrationInit
  <2>4. QED
    BY <2>2, <2>3 DEF IsDatabase, AreRows
<1>8. QED
  BY <1>4, <1>6, <1>7, MigrationAssumption DEF MigrationInv, MigrationInit

LEMMA QuietSource ==
  ASSUME MigrationInv, quiet
  PROVE  IsDatabase(source) /\ Progress
BY MigrationAssumption DEF MigrationInv, Progress

LEMMA StartKeeps ==
  ASSUME MigrationInv, Start
  PROVE  MigrationInv'
<1>1. /\ store' = 1 /\ page' = 1 /\ pages' = pages /\ phase' = "count" /\ runs' = runs + 1 /\ copied' = {}
      /\ source' = source /\ target' = target /\ batch' = batch /\ quiet' = quiet /\ runs < MigrationRuns
  BY DEF Start
<1>2. ASSUME quiet PROVE Progress'
  <2>1. IsDatabase(source) /\ Progress
    BY <1>2, QuietSource
  <2>2. Before(source, 1) = {}
    BY <2>1, StoresInOrder
  <2>3. CopiedSoFar' = {}
    BY <1>1, <2>2 DEF CopiedSoFar
  <2>4. runs' # 0 /\ (runs' = 1 => runs = 0)
    BY <1>1 DEF MigrationInv
  <2>5. QED
    BY <1>1, <2>1, <2>3, <2>4 DEF Progress, Copying, HasCopied
<1>3. runs' \in 0 .. MigrationRuns
  BY <1>1, MigrationAssumption DEF MigrationInv
<1>4. QED
  BY <1>1, <1>2, <1>3 DEF MigrationInv

LEMMA NoneToCopy ==
  AreRows(<<>>)
<1>1. PICK d : d = <<>>
  OBVIOUS
<1>2. d = [k \in DOMAIN d |-> d[k]] /\ DOMAIN d = {}
  BY <1>1
<1>3. AreRows(d)
  BY <1>2 DEF AreRows
<1>4. QED
  BY <1>1, <1>3

LEMMA KilledKeeps ==
  ASSUME MigrationInv, Killed
  PROVE  MigrationInv'
<1>1. /\ phase' = "idle" /\ UNCHANGED <<source, target, store, page, pages, runs, quiet>>
      /\ phase \in {"count", "pages", "rows"} /\ AreRows(batch')
  BY NoneToCopy DEF Killed
<1>2. ASSUME quiet PROVE Progress'
  <2>1. Progress
    BY <1>2, QuietSource
  <2>2. runs # 0
    BY <1>1, <2>1 DEF Progress
  <2>3. QED
    BY <1>1, <2>1, <2>2 DEF Progress, Copying
<1>3. QED
  BY <1>1, <1>2 DEF MigrationInv

LEMMA CountKeeps ==
  ASSUME MigrationInv, Count
  PROVE  MigrationInv'
<1>1. /\ pages' = (Cardinality(RowsIn(source, Steps[store])) + PageSize - 1) \div PageSize
      /\ page' = 1 /\ phase' = "pages" /\ phase = "count"
      /\ UNCHANGED <<source, target, copied, store, batch, runs, quiet>>
  BY DEF Count
<1>2. IsFiniteSet(RowsIn(source, Steps[store]))
  BY FS_Subset DEF MigrationInv, RowsIn
<1>3. Cardinality(RowsIn(source, Steps[store])) \in Nat
  BY <1>2, FS_CardinalityType
<1>4. pages' \in Nat /\ Cardinality(RowsIn(source, Steps[store])) <= pages' * PageSize
  BY <1>1, <1>3, CountedPages
<1>5. ASSUME quiet PROVE Progress'
  <2>1. IsDatabase(source) /\ Progress /\ store \in 1 .. 11
    BY <1>5, QuietSource DEF MigrationInv
  <2>2. ReadTo(source, store, 0) = {}
    BY <2>1, OnePageMore
  <2>3. CopiedSoFar' = CopiedSoFar
    <3>1. page' - 1 = 0
      BY <1>1
    <3>2. CopiedSoFar' = Before(source, store) \cup ReadTo(source, store, page' - 1)
      BY <1>1 DEF CopiedSoFar
    <3>3. CopiedSoFar = Before(source, store)
      BY <1>1 DEF CopiedSoFar
    <3>4. QED
      BY <2>2, <3>1, <3>2, <3>3
  <2>4. /\ copied' = CopiedSoFar' /\ HasCopied(source, target, copied)
        /\ runs = 1 => RowsIn(target, Jobs) \subseteq copied
        /\ runs # 0
    BY <1>1, <2>1, <2>3 DEF Progress, Copying
  <2>5. Cardinality(RowsIn(source, Steps[store]))' <= (pages * PageSize)'
    BY <1>1, <1>4
  <2>6. QED
    BY <1>1, <2>1, <2>4, <2>5 DEF Progress
<1>6. QED
  BY <1>1, <1>4, <1>5 DEF MigrationInv

\* While the source is quiet a page refers only to what this run has copied.
LEMMA ReadPageKeeps ==
  ASSUME MigrationInv, ReadPage
  PROVE  MigrationInv'
<1> DEFINE rows == Page(source, Steps[store], page)
           known == \A k \in rows : Mapped(k.table, source[k].refs) \subseteq copied
<1>1. /\ phase = "pages" /\ UNCHANGED <<source, target, copied, store, pages, runs, quiet>>
      /\ \/ ~known /\ phase' = "failed" /\ page' = page /\ batch' = batch
         \/ rows = {} /\ page' = page + 1 /\ phase' = phase /\ batch' = batch
         \/ rows # {} /\ phase' = "rows" /\ batch' = [k \in rows |-> source[k]] /\ page' = page
  BY DEF ReadPage
<1>2. AreRows(batch') /\ phase' \in {"pages", "rows", "failed"} /\ page' \in Nat \ {0}
  <2>1. rows \subseteq DOMAIN source
    BY DEF Page, RowsIn
  <2>2. AreRows([k \in rows |-> source[k]])
    BY <2>1 DEF AreRows, MigrationInv
  <2>3. QED
    BY <1>1, <2>2 DEF MigrationInv
<1>3. ASSUME quiet PROVE Progress'
  <2>1. IsDatabase(source) /\ Progress /\ store \in 1 .. 11 /\ page \in Nat \ {0}
    BY <1>3, QuietSource DEF MigrationInv
  <2>2. /\ copied = Before(source, store) \cup ReadTo(source, store, page - 1)
        /\ HasCopied(source, target, copied) /\ runs # 0
        /\ runs = 1 => RowsIn(target, Jobs) \subseteq copied
        /\ Cardinality(RowsIn(source, Steps[store])) <= pages * PageSize
    BY <1>1, <2>1 DEF Progress, Copying, CopiedSoFar
  <2>3. rows \subseteq RowsIn(source, Steps[store])
    BY DEF Page
  <2>4. known
    <3>1. \A k \in rows : source[k].refs \subseteq copied
      BY <2>1, <2>2, <2>3, MayCopyNext
    <3>2. QED
      BY <3>1 DEF Mapped
  <2>5. /\ ReadTo(source, store, page) = ReadTo(source, store, page - 1) \cup rows
        /\ ReadTo(source, store, page - 1) \cap rows = {}
    BY <2>1, OnePageMore
  <2>6. Before(source, store) \cap rows = {}
    BY <2>1, <2>3, StoresInOrder
  <2>7. CASE rows = {}
    <3>1. page' = page + 1 /\ phase' = "pages"
      BY <1>1, <2>4, <2>7
    <3>2. page' - 1 = page
      BY <2>1, <3>1
    <3>3. CopiedSoFar' = Before(source, store) \cup ReadTo(source, store, page' - 1)
      BY <1>1, <3>1 DEF CopiedSoFar
    <3>4. CopiedSoFar' = copied
      BY <2>2, <2>5, <2>7, <3>2, <3>3
    <3>5. QED
      BY <1>1, <2>1, <2>2, <3>1, <3>4 DEF Progress
  <2>8. CASE rows # {}
    <3>1. phase' = "rows" /\ batch' = [k \in rows |-> source[k]] /\ page' = page
      BY <1>1, <2>4, <2>8
    <3>2. DOMAIN batch' = rows /\ \A k \in DOMAIN batch' : batch'[k] = source[k]
      BY <3>1
    <3>3. CopiedSoFar' = Before(source, store) \cup (ReadTo(source, store, page) \ rows)
      BY <1>1, <3>1, <3>2 DEF CopiedSoFar
    <3>4. CopiedSoFar' = copied
      BY <2>2, <2>5, <3>3
    <3>5. Page(source, Steps[store], page)' = rows
      BY <1>1, <3>1
    <3>6. QED
      BY <1>1, <2>1, <2>2, <2>8, <3>1, <3>2, <3>4, <3>5 DEF Progress
  <2>9. QED
    BY <2>7, <2>8
<1>4. QED
  BY <1>1, <1>2, <1>3 DEF MigrationInv

\* What is to be written of a page is not copied yet.
LEMMA PageOfRows ==
  ASSUME MigrationInv, quiet, phase = "rows"
  PROVE  /\ IsDatabase(source) /\ Progress /\ store \in 1 .. 11 /\ page \in Nat \ {0}
         /\ copied = Before(source, store) \cup (ReadTo(source, store, page) \ DOMAIN batch)
         /\ HasCopied(source, target, copied) /\ runs # 0
         /\ runs = 1 => RowsIn(target, Jobs) \subseteq copied
         /\ Cardinality(RowsIn(source, Steps[store])) <= pages * PageSize
         /\ DOMAIN batch \subseteq RowsIn(source, Steps[store]) /\ DOMAIN batch # {}
         /\ DOMAIN batch \subseteq ReadTo(source, store, page)
         /\ DOMAIN batch \cap copied = {}
         /\ \A k \in DOMAIN batch : batch[k] = source[k] /\ MayCopy(target, k, batch[k])
<1>1. IsDatabase(source) /\ Progress /\ store \in 1 .. 11 /\ page \in Nat \ {0}
  BY QuietSource DEF MigrationInv
<1>2. /\ copied = Before(source, store) \cup (ReadTo(source, store, page) \ DOMAIN batch)
      /\ HasCopied(source, target, copied) /\ runs # 0
      /\ runs = 1 => RowsIn(target, Jobs) \subseteq copied
      /\ Cardinality(RowsIn(source, Steps[store])) <= pages * PageSize
  BY <1>1 DEF Progress, Copying, CopiedSoFar
<1>3. /\ DOMAIN batch # {} /\ DOMAIN batch \subseteq Page(source, Steps[store], page)
      /\ \A k \in DOMAIN batch : batch[k] = source[k]
  BY <1>1 DEF Progress
<1>4. DOMAIN batch \subseteq RowsIn(source, Steps[store])
  BY <1>3 DEF Page
<1>5. DOMAIN batch \subseteq ReadTo(source, store, page)
  BY <1>1, <1>3, OnePageMore
<1>6. DOMAIN batch \cap copied = {}
  BY <1>1, <1>2, <1>4, StoresInOrder
<1>7. \A k \in DOMAIN batch : MayCopy(target, k, source[k])
  BY <1>1, <1>2, <1>4, MayCopyNext
<1>8. QED
  BY <1>1, <1>2, <1>3, <1>4, <1>5, <1>6, <1>7

\* A page of jobs: those that the target has are the same.
LEMMA CopyJobsKeeps ==
  ASSUME MigrationInv, CopyJobs
  PROVE  MigrationInv'
<1> DEFINE fit == Mutable(target, DOMAIN batch) /\ \A k \in DOMAIN batch : MayCopy(target, k, batch[k])
           written == [k \in DOMAIN target \cup DOMAIN batch |->
                         IF k \in DOMAIN target THEN target[k] ELSE batch[k]]
<1>1. /\ phase = "rows" /\ Steps[store] = Jobs /\ UNCHANGED <<source, store, pages, runs, quiet>>
      /\ batch' = <<>>
      /\ \/ /\ fit /\ target' = written /\ copied' = copied \cup DOMAIN batch
            /\ page' = page + 1 /\ phase' = "pages"
         \/ ~fit /\ phase' = "failed" /\ target' = target /\ copied' = copied /\ page' = page
  BY DEF CopyJobs, PageFails, Jobs
<1>2. RowsStand(target') /\ AreRows(batch')
  <2>1. ASSUME fit PROVE RowsStand(written)
    <3>1. \A k \in DOMAIN batch : batch[k].refs \subseteq DOMAIN target
      BY <2>1 DEF MayCopy, MayPut
    <3>2. QED
      BY <3>1 DEF RowsStand, AreRows, MigrationInv
  <2>2. QED
    BY <1>1, <2>1, NoneToCopy DEF MigrationInv
<1>3. ASSUME quiet PROVE Progress'
  <2>1. /\ IsDatabase(source) /\ Progress /\ store \in 1 .. 11 /\ page \in Nat \ {0}
        /\ copied = Before(source, store) \cup (ReadTo(source, store, page) \ DOMAIN batch)
        /\ HasCopied(source, target, copied) /\ runs # 0
        /\ runs = 1 => RowsIn(target, Jobs) \subseteq copied
        /\ Cardinality(RowsIn(source, Steps[store])) <= pages * PageSize
        /\ DOMAIN batch \subseteq RowsIn(source, Steps[store])
        /\ DOMAIN batch \subseteq ReadTo(source, store, page)
        /\ DOMAIN batch \cap copied = {}
        /\ \A k \in DOMAIN batch : batch[k] = source[k] /\ MayCopy(target, k, batch[k])
    BY <1>1, <1>3, PageOfRows
  <2>2. \A k \in DOMAIN batch : k \in DOMAIN source /\ k.table = Jobs /\ k.table # "model_profiles"
    BY <1>1, <2>1 DEF RowsIn, Jobs
  <2>3. SameRows(source, target)
    BY <2>1 DEF Progress
  <2>4. CASE fit
    <3>1. /\ target' = written /\ copied' = copied \cup DOMAIN batch
          /\ page' = page + 1 /\ phase' = "pages"
      BY <1>1, <2>4
    <3>2. \A k \in DOMAIN batch : written[k] = source[k]
      BY <2>1, <2>2, <2>3 DEF SameRows
    <3>3. SameRows(source, written) /\ HasCopied(source, written, copied \cup DOMAIN batch)
      BY <2>1, <2>3, <3>2 DEF SameRows, HasCopied
    <3>4. runs = 1 => RowsIn(written, Jobs) \subseteq copied \cup DOMAIN batch
      BY <2>1 DEF RowsIn
    <3>5. page' - 1 = page
      BY <2>1, <3>1
    <3>6. CopiedSoFar' = Before(source, store) \cup ReadTo(source, store, page' - 1)
      BY <1>1, <3>1 DEF CopiedSoFar
    <3>7. CopiedSoFar' = copied'
      BY <2>1, <3>1, <3>5, <3>6
    <3> HIDE DEF written
    <3>8. QED
      BY <1>1, <2>1, <3>1, <3>3, <3>4, <3>7 DEF Progress
  <2>5. CASE ~fit
    <3>1. PICK k \in DOMAIN batch \cap DOMAIN target : target[k].value = "in_progress"
      BY <2>1, <2>5 DEF Mutable
    <3>2. k \in RowsIn(target, Jobs)
      BY <2>2, <3>1 DEF RowsIn
    <3>3. runs > 1
      <4>1. runs # 1
        BY <2>1, <3>1, <3>2
      <4>2. QED
        BY <2>1, <4>1 DEF MigrationInv
    <3>4. QED
      BY <1>1, <2>1, <2>3, <2>5, <3>1, <3>2, <3>3 DEF Progress, Copying
  <2>6. QED
    BY <2>4, <2>5
<1>4. page' \in Nat \ {0} /\ phase' \in {"pages", "failed"}
  BY <1>1 DEF MigrationInv
<1>5. QED
  BY <1>1, <1>2, <1>3, <1>4 DEF MigrationInv

\* A row of another page: nothing it refers to is missing.
LEMMA CopyRowKeeps ==
  ASSUME MigrationInv, NEW k, CopyRow(k)
  PROVE  MigrationInv'
<1> DEFINE fit == MayCopy(target, k, batch[k])
           rest == DOMAIN batch \ {k}
<1>1. /\ phase = "rows" /\ Steps[store] # Jobs /\ k \in DOMAIN batch
      /\ UNCHANGED <<source, store, pages, runs, quiet>>
      /\ \/ /\ fit /\ target' = Copy(target, k, batch[k]) /\ copied' = copied \cup {k}
            /\ batch' = [l \in rest |-> batch[l]]
            /\ IF rest = {} THEN page' = page + 1 /\ phase' = "pages" ELSE page' = page /\ phase' = phase
         \/ ~fit /\ phase' = "failed" /\ target' = target /\ batch' = <<>> /\ page' = page
  BY DEF CopyRow, PageFails, Jobs
<1>2. RowsStand(target') /\ AreRows(batch')
  <2>1. AreRows([l \in rest |-> batch[l]])
    BY DEF AreRows, MigrationInv
  <2>2. fit => RowsStand(Copy(target, k, batch[k]))
    BY CopyStands DEF MigrationInv
  <2>3. QED
    BY <1>1, <2>1, <2>2, NoneToCopy DEF MigrationInv
<1>3. ASSUME quiet PROVE Progress'
  <2>1. /\ IsDatabase(source) /\ Progress /\ store \in 1 .. 11 /\ page \in Nat \ {0}
        /\ copied = Before(source, store) \cup (ReadTo(source, store, page) \ DOMAIN batch)
        /\ HasCopied(source, target, copied) /\ runs # 0
        /\ runs = 1 => RowsIn(target, Jobs) \subseteq copied
        /\ Cardinality(RowsIn(source, Steps[store])) <= pages * PageSize
        /\ DOMAIN batch \subseteq RowsIn(source, Steps[store])
        /\ DOMAIN batch \subseteq ReadTo(source, store, page)
        /\ \A l \in DOMAIN batch : batch[l] = source[l] /\ MayCopy(target, l, batch[l])
    BY <1>1, <1>3, PageOfRows
  <2>2. /\ target' = Copy(target, k, source[k]) /\ copied' = copied \cup {k}
        /\ batch' = [l \in rest |-> batch[l]] /\ MayCopy(target, k, source[k])
        /\ IF rest = {} THEN page' = page + 1 /\ phase' = "pages" ELSE page' = page /\ phase' = "rows"
    BY <1>1, <2>1
  <2>3. k \in DOMAIN source /\ k.table # Jobs
    BY <1>1, <2>1 DEF RowsIn
  <2>4. copied \in SUBSET DOMAIN source
    BY <2>1 DEF Before, ReadTo, RowsIn
  <2>5. RowsStand(target) /\ SameRows(source, target)
    BY <2>1 DEF MigrationInv, Progress
  <2>6. /\ DOMAIN target' = DOMAIN target \cup {k} /\ SameRows(source, target')
        /\ HasCopied(source, target', copied \cup {k})
    <3>1. IsDatabase(source) /\ HasCopied(source, target, copied) /\ k \in DOMAIN source
          /\ MayCopy(target, k, source[k]) /\ target' = Copy(target, k, source[k])
      BY <2>1, <2>2, <2>3
    <3>2. QED
      BY <2>4, <2>5, <3>1, CopiesKept
  <2>7. runs = 1 => RowsIn(target', Jobs) \subseteq copied \cup {k}
    BY <2>1, <2>3, <2>6 DEF RowsIn
  <2>8. CASE rest = {}
    <3>1. page' = page + 1 /\ phase' = "pages" /\ DOMAIN batch = {k}
      BY <1>1, <2>2, <2>8
    <3>2. page' - 1 = page
      BY <2>1, <3>1
    <3>3. CopiedSoFar' = Before(source, store) \cup ReadTo(source, store, page' - 1)
      BY <1>1, <3>1 DEF CopiedSoFar
    <3>4. CopiedSoFar' = copied'
      BY <2>1, <2>2, <3>1, <3>2, <3>3
    <3>5. QED
      BY <1>1, <2>1, <2>2, <2>6, <2>7, <3>1, <3>4 DEF Progress
  <2>9. CASE rest # {}
    <3>1. page' = page /\ phase' = "rows" /\ DOMAIN batch' = rest
      BY <2>2, <2>9
    <3>2. \A l \in DOMAIN batch' : batch'[l] = source[l]
      BY <2>1, <2>2, <3>1
    <3>3. CopiedSoFar' = Before(source, store) \cup (ReadTo(source, store, page) \ rest)
      BY <1>1, <3>1 DEF CopiedSoFar
    <3>4. CopiedSoFar' = copied'
      BY <1>1, <2>1, <2>2, <3>3
    <3>5. DOMAIN batch \subseteq Page(source, Steps[store], page)
      BY <1>1, <2>1 DEF Progress
    <3>6. DOMAIN batch' \subseteq Page(source, Steps[store], page)'
      BY <1>1, <3>1, <3>5
    <3>7. QED
      BY <1>1, <2>1, <2>2, <2>6, <2>7, <2>9, <3>1, <3>2, <3>4, <3>6 DEF Progress
  <2>10. QED
    BY <2>8, <2>9
<1>4. page' \in Nat \ {0} /\ phase' \in {"pages", "rows", "failed"}
  BY <1>1 DEF MigrationInv
<1>5. QED
  BY <1>1, <1>2, <1>3, <1>4 DEF MigrationInv

LEMMA NextStoreKeeps ==
  ASSUME MigrationInv, NextStore
  PROVE  MigrationInv'
<1>1. /\ phase = "pages" /\ page > pages
      /\ UNCHANGED <<source, target, copied, page, pages, batch, runs, quiet>>
      /\ IF store = 11 THEN phase' = "done" /\ store' = store ELSE phase' = "count" /\ store' = store + 1
  BY StepsInOrder DEF NextStore, Steps
<1>2. ASSUME quiet PROVE Progress'
  <2>1. IsDatabase(source) /\ Progress /\ store \in 1 .. 11 /\ page \in Nat \ {0} /\ pages \in Nat
    BY <1>2, QuietSource DEF MigrationInv
  <2>2. /\ copied = Before(source, store) \cup ReadTo(source, store, page - 1)
        /\ HasCopied(source, target, copied) /\ runs # 0
        /\ runs = 1 => RowsIn(target, Jobs) \subseteq copied
        /\ Cardinality(RowsIn(source, Steps[store])) <= pages * PageSize
    BY <1>1, <2>1 DEF Progress, Copying, CopiedSoFar
  <2>3. page - 1 \in Nat /\ pages <= page - 1
    BY <1>1, <2>1
  <2>4. ReadTo(source, store, page - 1) = RowsIn(source, Steps[store])
    BY <2>1, <2>2, <2>3, EveryPageRead
  <2>5. copied = Before(source, store + 1)
    BY <2>1, <2>2, <2>4, StoresInOrder
  <2>6. CASE store = 11
    <3>1. copied = DOMAIN source
      BY <2>1, <2>5, <2>6, StoresInOrder
    <3>2. CopiedSoFar' = copied
      BY <1>1, <2>6, <3>1 DEF CopiedSoFar
    <3>3. QED
      BY <1>1, <2>1, <2>2, <2>6, <3>2 DEF Progress
  <2>7. CASE store # 11
    <3>1. CopiedSoFar' = copied
      BY <1>1, <2>5, <2>7 DEF CopiedSoFar
    <3>2. QED
      BY <1>1, <2>1, <2>2, <2>7, <3>1 DEF Progress
  <2>8. QED
    BY <2>6, <2>7
<1>3. store' \in 1 .. 11 /\ phase' \in {"done", "count"}
  BY <1>1 DEF MigrationInv
<1>4. QED
  BY <1>1, <1>2, <1>3 DEF MigrationInv

\* A write of the source leaves rows, finitely many of them.
LEMMA SourceRows ==
  ASSUME NEW d, IsFiniteSet(DOMAIN d), AreRows(d), NEW k
  PROVE  /\ \A refs, v : IsFiniteSet(DOMAIN Put(d, k, refs, v)) /\ AreRows(Put(d, k, refs, v))
         /\ IsFiniteSet(DOMAIN Delete(d, {k})) /\ AreRows(Delete(d, {k}))
         /\ \A v : k \in DOMAIN d => IsFiniteSet(DOMAIN Patch(d, k, v)) /\ AreRows(Patch(d, k, v))
<1>1. ASSUME NEW refs, NEW v
      PROVE  IsFiniteSet(DOMAIN Put(d, k, refs, v)) /\ AreRows(Put(d, k, refs, v))
  <2>1. PICK e : e = Put(d, k, refs, v)
    OBVIOUS
  <2>2. /\ DOMAIN e = DOMAIN d \cup {k} /\ e = [l \in DOMAIN e |-> e[l]]
        /\ e[k] = [refs |-> refs, value |-> v]
        /\ \A l \in DOMAIN d : l # k => e[l] = d[l]
    BY <2>1 DEF Put
  <2>3. IsFiniteSet(DOMAIN d \cup {k})
    BY FS_AddElement
  <2>4. AreRows(e)
    BY <2>2 DEF AreRows
  <2>5. QED
    BY <2>1, <2>2, <2>3, <2>4
<1>2. IsFiniteSet(DOMAIN Delete(d, {k})) /\ AreRows(Delete(d, {k}))
  <2>1. PICK kept : kept = DOMAIN d \ WithCascade(d, {k})
    OBVIOUS
  <2>2. Delete(d, {k}) = [l \in kept |-> d[l]] /\ kept \subseteq DOMAIN d
    BY <2>1 DEF Delete
  <2>3. IsFiniteSet(kept)
    BY <2>2, FS_Subset
  <2>4. AreRows([l \in kept |-> d[l]])
    BY <2>2 DEF AreRows
  <2>5. QED
    BY <2>2, <2>3, <2>4
<1>3. ASSUME NEW v, k \in DOMAIN d
      PROVE  IsFiniteSet(DOMAIN Patch(d, k, v)) /\ AreRows(Patch(d, k, v))
  <2>1. d[k] = [refs |-> d[k].refs, value |-> d[k].value] /\ d = [l \in DOMAIN d |-> d[l]]
    BY <1>3 DEF AreRows
  <2>2. [d[k] EXCEPT !.value = v] = [refs |-> d[k].refs, value |-> v]
    BY <2>1, NewValue
  <2>3. PICK e : e = Patch(d, k, v)
    OBVIOUS
  <2>4. /\ DOMAIN e = DOMAIN d /\ e = [l \in DOMAIN e |-> e[l]]
        /\ e[k] = [refs |-> d[k].refs, value |-> v]
        /\ \A l \in DOMAIN d : l # k => e[l] = d[l]
    BY <1>3, <2>1, <2>2, <2>3 DEF Patch
  <2>5. AreRows(e)
    BY <2>4 DEF AreRows
  <2>6. QED
    BY <2>3, <2>4, <2>5
<1>4. QED
  BY <1>1, <1>2, <1>3

LEMMA SourceWrittenKeeps ==
  ASSUME MigrationInv, SourceWritten
  PROVE  MigrationInv'
<1>1. /\ quiet' = FALSE /\ UNCHANGED <<target, copied, store, page, pages, batch, phase, runs>>
  BY DEF SourceWritten
<1>2. IsFiniteSet(DOMAIN source) /\ AreRows(source)
  BY DEF MigrationInv
<1>3. IsFiniteSet(DOMAIN source') /\ AreRows(source')
  <2>1. CASE \E t \in RowsIn(source, "tenants"), j \in Ids :
               /\ Key("interaction_jobs", j) \notin DOMAIN source
               /\ source' = RequestRow(UpsertJob(source, t.id, j, "queued"), t.id, j)
    <3>1. PICK t, j : /\ Key("interaction_jobs", j) \notin DOMAIN source
                      /\ source' = RequestRow(UpsertJob(source, t.id, j, "queued"), t.id, j)
      BY <2>1
    <3>2. PICK d : d = UpsertJob(source, t.id, j, "queued")
      OBVIOUS
    <3>3. d = Put(source, Key("interaction_jobs", j), {Tenant(t.id)}, "queued")
      BY <3>1, <3>2 DEF UpsertJob
    <3>4. IsFiniteSet(DOMAIN d) /\ AreRows(d)
      BY <1>2, <3>3, SourceRows
    <3>5. source' = Put(d, Key("interaction_requests", j), JobRefs(t.id, j), "row")
      BY <3>1, <3>2 DEF RequestRow
    <3>6. QED
      BY <3>4, <3>5, SourceRows
  <2>2. CASE \E j \in RowsIn(source, "interaction_jobs") :
               source[j].value # "completed" /\ source' = Patch(source, j, "failed")
    <3>1. PICK j \in DOMAIN source : source' = Patch(source, j, "failed")
      BY <2>2 DEF RowsIn
    <3>2. QED
      BY <1>2, <3>1, SourceRows
  <2>3. CASE \E k \in RowsIn(source, "discussion_mappings") : source' = Delete(source, {k})
    BY <1>2, <2>3, SourceRows
  <2>4. QED
    BY <2>1, <2>2, <2>3 DEF SourceWritten
<1>4. QED
  BY <1>1, <1>3 DEF MigrationInv

LEMMA MigrationSteady ==
  MigrationInv /\ [MigrationNext]_migrationVars => MigrationInv'
<1> SUFFICES ASSUME MigrationInv, [MigrationNext]_migrationVars PROVE MigrationInv'
  OBVIOUS
<1>1. CASE Start
  BY <1>1, StartKeeps
<1>2. CASE Killed
  BY <1>2, KilledKeeps
<1>3. CASE Count
  BY <1>3, CountKeeps
<1>4. CASE ReadPage
  BY <1>4, ReadPageKeeps
<1>5. CASE CopyJobs
  BY <1>5, CopyJobsKeeps
<1>6. CASE \E k \in DOMAIN batch : CopyRow(k)
  BY <1>6, CopyRowKeeps
<1>7. CASE NextStore
  BY <1>7, NextStoreKeeps
<1>8. CASE SourceWritten
  BY <1>8, SourceWrittenKeeps
<1>9. CASE UNCHANGED migrationVars
  <2>1. UNCHANGED <<source, target, copied, store, page, pages, batch, phase, runs, quiet>>
    BY <1>9 DEF migrationVars
  <2>2. CopiedSoFar' = CopiedSoFar
    BY <2>1 DEF CopiedSoFar
  <2>3. Progress' = Progress
    BY <2>1, <2>2 DEF Progress
  <2>4. QED
    BY <2>1, <2>3 DEF MigrationInv
<1>10. QED
  BY <1>1, <1>2, <1>3, <1>4, <1>5, <1>6, <1>7, <1>8, <1>9 DEF MigrationNext

\* In every state a run has copied what its step, its page and the rest of the
\* page say, and while the source is quiet that is what the source has.
THEOREM MigrationIsSound == MigrationSpec => []MigrationInv
<1>1. QED
  BY MigrationBegins, MigrationSteady, PTL DEF MigrationSpec

\* Every row that a migration writes refers to rows of the target, also when
\* the source is written to beside it.
THEOREM MigrationTypes == MigrationSpec => []MigrationTypeOK
<1>1. MigrationInv => MigrationTypeOK
  BY StepsInOrder DEF MigrationInv, RowsStand, MigrationTypeOK
<1>2. QED
  BY <1>1, MigrationIsSound, PTL

\* However large the source, however often the command is killed and given
\* again: if nobody writes to the source, a migration that ends well has copied
\* every row as it is, and one that fails has found a job in the target that
\* was in progress when an earlier run copied it.
THEOREM MigrationsCopyAll == MigrationSpec => []QuietMigrationCopies
<1>1. ASSUME MigrationInv, quiet
      PROVE  /\ phase = "done" => \A k \in DOMAIN source : k \in DOMAIN target /\ target[k] = source[k]
             /\ phase = "failed" =>
                  runs > 1 /\ \E k \in RowsIn(target, "interaction_jobs") : target[k].value = "in_progress"
  <2>1. Progress
    BY <1>1 DEF MigrationInv
  <2>2. ASSUME phase = "done" PROVE copied = DOMAIN source /\ HasCopied(source, target, copied)
    BY <2>1, <2>2 DEF Progress, Copying, CopiedSoFar
  <2>3. QED
    BY <2>1, <2>2 DEF Progress, HasCopied, Jobs
<1>2. MigrationInv => QuietMigrationCopies
  BY <1>1 DEF QuietMigrationCopies
<1>3. QED
  BY <1>2, MigrationIsSound, PTL

=============================================================================
