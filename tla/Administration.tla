--------------------------- MODULE Administration ---------------------------
(***************************************************************************)
(* Commands that administer profiles, connections and tenants, given on a  *)
(* command line while the server works on the same database.  A command is *)
(* a sequence of store calls; the calls of two processes interleave, and a *)
(* process may be killed between two of its calls.                         *)
(***************************************************************************)
EXTENDS Naturals, FiniteSets, StoreTables

CONSTANTS
  Admins,       \* processes that run a command each
  AdminJobs,    \* jobs of the tenant that may come to exist
  ServerSteps,  \* bound: what the server does meanwhile
  AdminSteps    \* bound: commands begun

\* The job of the first database is one of the jobs; the server is no command.
ASSUME AdminAssumption ==
  /\ "j" \in AdminJobs /\ "server" \notin Admins
  /\ ServerSteps \in Nat /\ AdminSteps \in Nat

VARIABLES db, admin, served, commands,
          crossed  \* history: profiles given to a tenant while they were removed

adminVars == <<db, admin, served, commands, crossed>>

T == Tenant("t")
Job(j) == Key("interaction_jobs", j)
Run(j) == Key("interaction_runs", j)
IsJob(j, status) == Job(j) \in DOMAIN db /\ db[Job(j)].value = status

\* A tenant's data: what refers to it, and what refers to that.
Owned(d, t) ==
  LET near == Referring(d, t) IN {t} \cup near \cup UNION {Referring(d, k) : k \in near}
DefaultOf(d) == {k.id : k \in {p \in RowsIn(d, "model_profiles") : d[p].value}}

-----------------------------------------------------------------------------
(* The commands, and what each promises if nobody interferes: the outcome  *)
(* and the database that it leaves.                                        *)

NoCommand == [op |-> "none", name |-> "", arg |-> ""]
ProfileCommands ==
  [op : {"add profile"}, name : {"p", "q"}, arg : {"default", "keep"}]
  \cup [op : {"remove profile"}, name : {"p", "q"}, arg : {""}]
  \cup [op : {"set default"}, name : {"p", "q", "none"}, arg : {""}]
ConnectionCommands ==
  [op : {"add connection"}, name : {"c"}, arg : {"setup_required"}]
  \cup [op : {"update connection"}, name : {"c"}, arg : {"ready", "setup_required"}]
  \cup [op : {"remove connection"}, name : {"c"}, arg : {""}]
TenantCommands ==
  [op : {"add tenant"}, name : {"t"}, arg : {"p", "q", "keep"}]
  \cup [op : {"set profile"}, name : {"t"}, arg : {"q", "none"}]
  \cup [op : {"remove tenant"}, name : {"t"}, arg : {""}]
Commands == ProfileCommands \cup ConnectionCommands \cup TenantCommands

Done(d) == [outcome |-> "done", left |-> d]
Refused(d) == [outcome |-> "refused", left |-> d]

IsReady(d) == Connection("c") \in DOMAIN d /\ d[Connection("c")].value = "ready"
Wanted(d, cmd) ==  \* whether the profile is to be the default
  cmd.arg = "default" \/ (Profile(cmd.name) \in DOMAIN d /\ d[Profile(cmd.name)].value)
ProfileAfter(d, cmd) == IF cmd.arg # "keep" THEN cmd.arg ELSE IF T \in DOMAIN d THEN d[T].value ELSE "none"
NoDefault(d) == [k \in DOMAIN d |-> IF k.table = "model_profiles" THEN [d[k] EXCEPT !.value = FALSE] ELSE d[k]]

Promised(d, cmd) ==
  LET known == Profile(cmd.name) \in DOMAIN d
      connected == Connection(cmd.name) \in DOMAIN d
  IN CASE cmd.op = "add profile" -> Done(UpsertProfile(d, cmd.name, Wanted(d, cmd)))
       [] cmd.op = "remove profile" ->
            IF ~known \/ Users(d, cmd.name) # {} THEN Refused(d) ELSE Done(Delete(d, {Profile(cmd.name)}))
       [] cmd.op = "set default" ->  \* of an unknown profile: the old default is gone all the same
            IF cmd.name = "none" THEN Done(NoDefault(d))
            ELSE IF known THEN Done(UpsertProfile(d, cmd.name, TRUE)) ELSE Refused(NoDefault(d))
       [] cmd.op = "add tenant" ->
            IF IsReady(d) /\ ProfileKnown(d, ProfileAfter(d, cmd))
            THEN Done(UpsertTenant(d, "t", "c", ProfileAfter(d, cmd))) ELSE Refused(d)
       [] cmd.op = "set profile" ->
            IF T \in DOMAIN d /\ ProfileKnown(d, cmd.arg) THEN Done(UpsertTenant(d, "t", "c", cmd.arg)) ELSE Refused(d)
       [] cmd.op = "remove tenant" ->
            IF T \in DOMAIN d /\ \A j \in AdminJobs : Job(j) \in DOMAIN d => d[Job(j)].value # "in_progress"
            THEN Done([k \in DOMAIN d \ Owned(d, T) |-> d[k]]) ELSE Refused(d)
       [] cmd.op = "add connection" -> IF connected THEN Refused(d) ELSE Done(UpsertConnection(d, "c", cmd.arg))
       [] cmd.op = "update connection" ->
            IF connected THEN Done(Patch(d, Connection("c"), cmd.arg)) ELSE Refused(d)
       [] cmd.op = "remove connection" ->
            IF connected /\ Referring(d, Connection("c")) = {} THEN Done(Delete(d, {Connection("c")}))
            ELSE Refused(d)

-----------------------------------------------------------------------------
(* A process: its command, the next call, what it has read, and what was   *)
(* promised ("nothing" once somebody else has written).                    *)

Idle == [cmd |-> NoCommand, at |-> "idle", read |-> {}, outcome |-> "none",
         promise |-> [outcome |-> "nothing", left |-> <<>>]]

Undisturbed(p) == p.promise.outcome # "nothing"
Disturb(who) ==  \* the other processes, after a write of who
  [b \in Admins |-> IF b # who /\ admin[b].at # "idle" THEN [admin[b] EXCEPT !.promise = Idle.promise] ELSE admin[b]]

At(a, op, label) == admin[a].cmd.op = op /\ admin[a].at = label
Name(a) == admin[a].cmd.name
Arg(a) == admin[a].cmd.arg

\* A call that reads, one that writes, and one that ends the command.
Goes(a, label) == [admin[a] EXCEPT !.at = label]
Reads(a, label, rows) ==
  /\ admin' = [admin EXCEPT ![a] = [Goes(a, label) EXCEPT !.read = rows]]
  /\ UNCHANGED db
Writes(a, label, d) ==
  /\ db' = d
  /\ admin' = [(IF d = db THEN admin ELSE Disturb(a)) EXCEPT ![a] = Goes(a, label)]
Ends(a, outcome, d) ==
  /\ db' = d
  /\ admin' = [(IF d = db THEN admin ELSE Disturb(a)) EXCEPT
                 ![a] = [Goes(a, "end") EXCEPT !.outcome = outcome, !.read = {}]]
Refuse(a) == Ends(a, "refused", db)

AdminInit ==
  /\ \E job \in {"none", "queued", "in_progress", "completed"}, profile \in {"p", "none"}, d \in BOOLEAN :
       (job # "none" => profile = "p" /\ d) /\
       LET rows == UpsertTenant(UpsertProfile(UpsertConnection(<<>>, "c", "ready"), "p", d), "t", "c", profile)
           queued == RequestRow(UpsertJob(rows, "t", "j", job), "t", "j")
           ran == SnapshotRow(RunRow(queued, "t", "j"), "t", "j")
           full == MemoryRow(MappingRow(MetricsRow(FindingRow(ran, "j"), "j"), "t", "j"), "t")
       IN db = CASE job = "none" -> rows
                 [] job = "queued" -> queued
                 [] job = "in_progress" -> ran
                 [] job = "completed" -> full
  /\ admin = [a \in Admins |-> Idle]
  /\ served = 0 /\ commands = 0 /\ crossed = {}

Begin(a) ==
  /\ admin[a].at \in {"idle", "end"} /\ commands < AdminSteps
  /\ \E cmd \in Commands :
       admin' = [admin EXCEPT ![a] = [Idle EXCEPT !.cmd = cmd, !.at = "start", !.promise = Promised(db, cmd)]]
  /\ commands' = commands + 1
  /\ UNCHANGED <<db, served>>

Kill(a) ==
  /\ admin[a].at \notin {"idle", "end"}
  /\ admin' = [admin EXCEPT ![a] = Idle]
  /\ UNCHANGED <<db, served, commands>>

\* --- profiles -------------------------------------------------------------
\* A patch reads the row and then writes all of it, be it there still or not.
OldDefaults(a) == DefaultOf(db) \ {Name(a)}
Clear(a, op, next) ==
  \/ /\ At(a, op, "clear")
     /\ \E n \in admin[a].read :
          IF Profile(n) \in DOMAIN db THEN Reads(a, "put clear", {n}) ELSE Refuse(a)
  \/ /\ At(a, op, "put clear")
     /\ \E n \in admin[a].read : Writes(a, next, UpsertProfile(db, n, FALSE))

AddProfile(a) ==
  \/ At(a, "add profile", "start")
       /\ IF Wanted(db, admin[a].cmd) THEN Reads(a, "find default", {"default"}) ELSE Reads(a, "put", {})
  \/ At(a, "add profile", "find default")
       /\ IF OldDefaults(a) = {} THEN Reads(a, "put default", {}) ELSE Reads(a, "clear", OldDefaults(a))
  \/ Clear(a, "add profile", "put default")
  \/ At(a, "add profile", "put") /\ Ends(a, "done", UpsertProfile(db, Name(a), FALSE))
  \/ At(a, "add profile", "put default") /\ Ends(a, "done", UpsertProfile(db, Name(a), TRUE))

SetDefault(a) ==
  \/ At(a, "set default", "start")
       /\ IF OldDefaults(a) = {} THEN Reads(a, "get", {}) ELSE Reads(a, "clear", OldDefaults(a))
  \/ Clear(a, "set default", "get")
  \/ At(a, "set default", "get")
       /\ IF Name(a) = "none" THEN Ends(a, "done", db)
          ELSE IF Profile(Name(a)) \in DOMAIN db THEN Reads(a, "put", {}) ELSE Refuse(a)
  \/ At(a, "set default", "put") /\ Ends(a, "done", UpsertProfile(db, Name(a), TRUE))

\* The store looks for the profile and for its tenants once more, and each
\* of its statements is a transaction of its own.
RemoveProfile(a) ==
  \/ At(a, "remove profile", "start")
       /\ IF Profile(Name(a)) \in DOMAIN db THEN Reads(a, "users", {}) ELSE Refuse(a)
  \/ At(a, "remove profile", "users")
       /\ IF Users(db, Name(a)) = {} THEN Reads(a, "delete", {}) ELSE Refuse(a)
  \/ At(a, "remove profile", "delete")
       /\ IF Profile(Name(a)) \in DOMAIN db THEN Reads(a, "count", {}) ELSE Ends(a, "done", db)
  \/ At(a, "remove profile", "count")
       /\ IF MayDeleteProfile(db, Name(a)) THEN Reads(a, "drop", {}) ELSE Refuse(a)
  \/ At(a, "remove profile", "drop") /\ Ends(a, "done", Delete(db, {Profile(Name(a))}))

\* --- tenants --------------------------------------------------------------
\* The call that writes a tenant: the profile is looked up and the row is put.
\* A new row has an id of its own, and the tenant's key is unique: the row of
\* a tenant that was removed and added meanwhile is not the one that was read.
PutTenant(a, op) ==
  \/ /\ At(a, op, "assert")
     /\ IF \A plan \in admin[a].read : ProfileKnown(db, plan.profile)
        THEN Reads(a, "put", admin[a].read) ELSE Refuse(a)
  \/ /\ At(a, op, "put")
     /\ \E plan \in admin[a].read :
          \/ IF MayPut(db, {Connection("c")}) /\ (plan.new => T \notin DOMAIN db)
             THEN Ends(a, "done", UpsertTenant(db, "t", "c", plan.profile)) ELSE Refuse(a)
          \/ ~plan.new /\ ~Undisturbed(admin[a]) /\ Refuse(a)

TenantPlan(a) == [profile |-> ProfileAfter(db, admin[a].cmd), new |-> T \notin DOMAIN db]
AddTenant(a) ==
  \/ At(a, "add tenant", "start")
       /\ IF IsReady(db) THEN Reads(a, "find", {}) ELSE Refuse(a)
  \/ At(a, "add tenant", "find") /\ Reads(a, "check", {TenantPlan(a)})
  \/ At(a, "add tenant", "check")
       /\ IF Connection("c") \in DOMAIN db /\ \A plan \in admin[a].read : ProfileKnown(db, plan.profile)
          THEN Reads(a, "assert", admin[a].read) ELSE Refuse(a)
  \/ PutTenant(a, "add tenant")

SetTenantProfile(a) ==
  \/ At(a, "set profile", "start")
       /\ IF T \in DOMAIN db /\ ProfileKnown(db, Arg(a)) THEN Reads(a, "patch", {}) ELSE Refuse(a)
  \/ At(a, "set profile", "patch")
       /\ IF T \in DOMAIN db THEN Reads(a, "assert", {[profile |-> Arg(a), new |-> FALSE]}) ELSE Refuse(a)
  \/ PutTenant(a, "set profile")

\* --- connections ----------------------------------------------------------
AddConnection(a) ==
  \/ At(a, "add connection", "start")
       /\ IF Connection("c") \in DOMAIN db THEN Refuse(a) ELSE Reads(a, "put", {})
  \/ At(a, "add connection", "put")
       /\ IF Connection("c") \in DOMAIN db THEN Refuse(a)  \* its name is unique
          ELSE Ends(a, "done", UpsertConnection(db, "c", Arg(a)))

UpdateConnection(a) ==
  \/ At(a, "update connection", "start")
       /\ IF Connection("c") \in DOMAIN db THEN Reads(a, "patch", {}) ELSE Refuse(a)
  \/ At(a, "update connection", "patch")
       /\ IF Connection("c") \in DOMAIN db THEN Reads(a, "put", {}) ELSE Refuse(a)
  \/ At(a, "update connection", "put")
       /\ \/ Ends(a, "done", UpsertConnection(db, "c", Arg(a)))
          \/ ~Undisturbed(admin[a]) /\ Refuse(a)  \* another one has the name by now

RemoveConnection(a) ==
  \/ At(a, "remove connection", "start")
       /\ IF Connection("c") \in DOMAIN db THEN Reads(a, "users", {}) ELSE Refuse(a)
  \/ At(a, "remove connection", "users")
       /\ IF Referring(db, Connection("c")) = {} THEN Reads(a, "delete", {}) ELSE Refuse(a)
  \/ At(a, "remove connection", "delete")
       /\ IF MayDelete(db, {Connection("c")}) THEN Ends(a, "done", Delete(db, {Connection("c")})) ELSE Refuse(a)

\* --- removal of a tenant --------------------------------------------------
JobsOf(d) == RowsIn(d, "interaction_jobs") \cap Referring(d, T)
RunsOf(d) == RowsIn(d, "interaction_runs") \cap Referring(d, T)
OfTenant(table) == RowsIn(db, table) \cap Referring(db, T)
OfRuns(a, table) == {k \in RowsIn(db, table) : db[k].refs \cap admin[a].read # {}}

Cancelled(d, jobs) == [k \in DOMAIN d |-> IF k \in jobs THEN [d[k] EXCEPT !.value = "cancelled"] ELSE d[k]]
Removes(a, label, keys) ==
  IF MayDelete(db, keys) THEN Writes(a, label, Delete(db, keys)) ELSE Refuse(a)

FindWork(a) ==
  /\ At(a, "remove tenant", "start")
  /\ IF T \notin DOMAIN db THEN Refuse(a)
     ELSE IF \E k \in JobsOf(db) : db[k].value = "in_progress" THEN Refuse(a)
     ELSE Reads(a, "jobs", {})

ListQueued(a) ==
  /\ At(a, "remove tenant", "jobs")
  /\ Reads(a, "cancel", {k \in JobsOf(db) : db[k].value = "queued"})

\* All of them or none, and none if one was claimed or removed meanwhile.
CancelQueued(a) ==
  /\ At(a, "remove tenant", "cancel")
  /\ LET jobs == admin[a].read
     IN IF jobs \subseteq DOMAIN db /\ Mutable(db, jobs) THEN Writes(a, "summary", Cancelled(db, jobs)) ELSE Refuse(a)

\* The jobs and runs that the rest of the command knows of.
Summarise(a) ==
  /\ At(a, "remove tenant", "summary")
  /\ Reads(a, "mappings", JobsOf(db) \cup RunsOf(db))

\* Mutant of RemoveFindings: findings are taken to go with their runs.
SkipFindings(a) == At(a, "remove tenant", "findings") /\ Writes(a, "snapshots", db)

\* Each of these lists the rows and deletes them.
RemoveMappings(a) == At(a, "remove tenant", "mappings") /\ Removes(a, "metrics", OfTenant("discussion_mappings"))
RemoveMetrics(a) == At(a, "remove tenant", "metrics") /\ Removes(a, "findings", OfRuns(a, "interaction_run_metrics"))
RemoveFindings(a) == At(a, "remove tenant", "findings") /\ Removes(a, "snapshots", OfRuns(a, "review_findings"))
RemoveSnapshots(a) == At(a, "remove tenant", "snapshots") /\ Removes(a, "memory", OfTenant("code_review_snapshots"))
RemoveMemory(a) == At(a, "remove tenant", "memory") /\ Removes(a, "runs", OfTenant("project_memories"))
RemoveRequests(a) == At(a, "remove tenant", "requests") /\ Removes(a, "delete jobs", OfTenant("interaction_requests"))

ReadOf(a, table) == {k \in admin[a].read : k.table = table}
RemoveRuns(a) == At(a, "remove tenant", "runs") /\ Removes(a, "requests", ReadOf(a, "interaction_runs"))
RemoveJobs(a) ==
  /\ At(a, "remove tenant", "delete jobs")
  /\ LET jobs == ReadOf(a, "interaction_jobs")
     IN IF Mutable(db, jobs) THEN Removes(a, "tenant", jobs) ELSE Refuse(a)
RemoveTenantRow(a) ==
  /\ At(a, "remove tenant", "tenant")
  /\ IF MayDelete(db, {T}) THEN Ends(a, "done", Delete(db, {T})) ELSE Refuse(a)

RemoveTenant(a) ==
  \/ FindWork(a) \/ ListQueued(a) \/ CancelQueued(a) \/ Summarise(a) \/ RemoveMappings(a)
  \/ RemoveMetrics(a) \/ RemoveFindings(a) \/ RemoveSnapshots(a) \/ RemoveMemory(a) \/ RemoveRuns(a)
  \/ RemoveRequests(a) \/ RemoveJobs(a) \/ RemoveTenantRow(a)

AdminStep(a) ==
  \/ AddProfile(a) \/ SetDefault(a) \/ RemoveProfile(a) \/ AddTenant(a) \/ SetTenantProfile(a)
  \/ AddConnection(a) \/ UpdateConnection(a) \/ RemoveConnection(a) \/ RemoveTenant(a)

-----------------------------------------------------------------------------
(* The server, one call to a store at a time; a call that breaks a         *)
(* constraint changes nothing.                                             *)

Serve(d) == db' = d /\ d # db /\ admin' = Disturb("server")

AdmitJob(j) == T \in DOMAIN db /\ Serve(RequestRow(UpsertJob(db, "t", j, "queued"), "t", j))
ClaimQueued(j) == IsJob(j, "queued") /\ Serve(Patch(db, Job(j), "in_progress"))
SaveRun(j) == IsJob(j, "in_progress") /\ Serve(RunRow(db, "t", j))
SaveSnapshot(j) == IsJob(j, "in_progress") /\ Serve(SnapshotRow(db, "t", j))
SaveFinding(j) == IsJob(j, "in_progress") /\ MayPut(db, RunRefs(j)) /\ Serve(FindingRow(db, j))
SaveMetrics(j) == IsJob(j, "in_progress") /\ MayPut(db, RunRefs(j)) /\ Serve(MetricsRow(db, j))
SaveMapping(j) == IsJob(j, "in_progress") /\ MayPut(db, MappingRefs("t", j)) /\ Serve(MappingRow(db, "t", j))
SaveProjectMemory(j) == IsJob(j, "in_progress") /\ Serve(MemoryRow(db, "t"))
FinishJob(j) == IsJob(j, "in_progress") /\ \E s \in {"completed", "queued"} : Serve(Patch(db, Job(j), s))

ServerStep ==
  /\ served < ServerSteps /\ \E a \in Admins : admin[a].at \notin {"idle", "end"}
  /\ served' = served + 1 /\ UNCHANGED commands
  /\ \E j \in AdminJobs :
       \/ AdmitJob(j) \/ ClaimQueued(j) \/ SaveRun(j) \/ SaveSnapshot(j) \/ SaveFinding(j)
       \/ SaveMetrics(j) \/ SaveMapping(j) \/ SaveProjectMemory(j) \/ FinishJob(j)

AdminMove ==
  \/ \E a \in Admins : Begin(a) \/ Kill(a) \/ (AdminStep(a) /\ UNCHANGED <<served, commands>>)
  \/ ServerStep

\* A profile is about to be deleted after its tenants were counted, and a
\* tenant is about to be given it after it was looked up.
Dropping(p, n) == p.cmd.op = "remove profile" /\ p.at = "drop" /\ p.cmd.name = n
Giving(p, n) ==
  p.cmd.op \in {"add tenant", "set profile"} /\ p.at = "put" /\ \E plan \in p.read : plan.profile = n
Crossing(procs) ==
  {n \in {"p", "q"} : \E a, b \in Admins : Dropping(procs[a], n) /\ Giving(procs[b], n)}

AdminNext == AdminMove /\ crossed' = crossed \cup Crossing(admin')

-----------------------------------------------------------------------------
AdminTypeOK ==
  /\ \A k \in DOMAIN db : db[k].refs \subseteq DOMAIN db
  /\ \A a \in Admins : admin[a].outcome \in {"none", "done", "refused"}
  /\ served \in 0 .. ServerSteps /\ commands \in 0 .. AdminSteps

\* A command that nobody interfered with does all that it promises or is
\* refused for the reasons it states, whatever commands and crashes came
\* before it; a tenant is removed with everything it owns or not at all.
CommandsKeepPromises ==
  \A a \in Admins :
    (admin[a].at = "end" /\ Undisturbed(admin[a]))
      => admin[a].promise = [outcome |-> admin[a].outcome, left |-> db]

\* Whatever the commands overlap with, at most one profile is the default and
\* a tenant's profile exists, unless the profile was removed and given to a
\* tenant by two commands each of which had made its check before the other
\* wrote: nothing but this one overlap can break the reference.
ProfilesConsistent ==
  /\ \A k \in RowsIn(db, "tenants") : ProfileKnown(db, db[k].value) \/ db[k].value \in crossed
  /\ Cardinality(DefaultOf(db)) <= 1

\* Commands never take a job away from the runner that has claimed it.
ClaimedJobsSurvive ==
  \A j \in AdminJobs :
    (IsJob(j, "in_progress") /\ served' = served)
      => Job(j) \in DOMAIN db' /\ db'[Job(j)] = db[Job(j)]
ClaimedJobSurvives == [][ClaimedJobsSurvive]_adminVars

=============================================================================
