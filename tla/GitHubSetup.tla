---------------------------- MODULE GitHubSetup ----------------------------
(***************************************************************************)
(* Setting up a GitHub connection: a one-time link leads a browser through *)
(* the creation of an App and its installation, and each visit reads the   *)
(* connection, asks GitHub, and writes a configuration made from what it   *)
(* read.  Visits overlap, links expire, and the command line may issue a   *)
(* new link or remove the connection at any time.                          *)
(***************************************************************************)
EXTENDS Naturals, Sequences

CONSTANTS
  Visits,     \* requests to the setup pages
  MaxLinks,   \* bound: links issued
  MaxApps,    \* bound: Apps made on GitHub
  MaxInstalls \* bound: installations of them

VARIABLES
  link,       \* the row: [status, config, token, app, installation, previous]
  issued,     \* links issued; the newest has this number
  hubApps,    \* Apps on GitHub: [owner, code]; a code works once
  installs,   \* installations: [app, account]
  visit,      \* each request: [step, action, token, seen, given]
  recreate,   \* the command that issues a new link: [step, seen]
  overlapped  \* has a write undone a change that its reader did not see?

setupVars == <<link, issued, hubApps, installs, visit, recreate, overlapped>>

Row0 == [status |-> "gone", config |-> "none", token |-> 0, app |-> 0,
         installation |-> 0, previous |-> 0]
NoVisit == [step |-> "none", action |-> "page", token |-> 0, seen |-> Row0, given |-> 0]

\* onBeforeAddConnection: nothing but the link of a setup that is pending.
PendingRow(token, previous) ==
  [Row0 EXCEPT !.status = "setup_required", !.config = "pending", !.token = token,
               !.previous = previous]

SetupInit ==
  /\ link = PendingRow(1, 0) /\ issued = 1
  /\ hubApps = <<>> /\ installs = <<>>
  /\ visit = [v \in Visits |-> NoVisit]
  /\ recreate = [step |-> "none", seen |-> Row0]
  /\ overlapped = FALSE

----------------------------------------------------------------------------
(* GitHub, time and the people who click *)

HubMakesApp ==
  /\ Len(hubApps) < MaxApps
  /\ \E owner \in {"ours", "other"} : hubApps' = Append(hubApps, [owner |-> owner, code |-> TRUE])
  /\ UNCHANGED <<link, issued, installs, visit, recreate, overlapped>>

HubInstalls ==
  /\ Len(installs) < MaxInstalls
  /\ \E a \in DOMAIN hubApps, account \in {"ours", "other"} :
       installs' = Append(installs, [app |-> a, account |-> account])
  /\ UNCHANGED <<link, issued, hubApps, visit, recreate, overlapped>>

VisitBegins ==
  /\ \E v \in Visits, t \in 1..issued :
       /\ visit[v].step = "none"
       /\ \E action \in {"page", "return", "installed"} :
          \E given \in IF action = "return" THEN DOMAIN hubApps
                       ELSE IF action = "installed" THEN DOMAIN installs ELSE {0} :
            visit' = [visit EXCEPT ![v] = [NoVisit EXCEPT !.step = "read", !.action = action,
                                                          !.token = t, !.given = given]]
  /\ UNCHANGED <<link, issued, hubApps, installs, recreate, overlapped>>

----------------------------------------------------------------------------
(* The setup handler *)

Leads(v, s) == visit' = [visit EXCEPT ![v].step = s]
Answers(v) == visit' = [visit EXCEPT ![v] = NoVisit]
OnlyVisits == UNCHANGED <<link, issued, hubApps, installs, recreate, overlapped>>

\* Its configuration still holds the link.
ByToken(t) == link.status # "gone" /\ link.token = t

\* Unknown or used: 404; an installation without an App: 409; older than an
\* hour, which any link may be: 410.
ReadsConnection(v) ==
  \E expired \in BOOLEAN :
  LET wrong == \/ ~ByToken(visit[v].token)
               \/ expired
               \/ visit[v].action = "installed" /\ link.config # "registered"
  IN  /\ visit[v].step = "read"
      /\ IF wrong \/ visit[v].action = "page"
         THEN Answers(v)
         ELSE visit' = [visit EXCEPT ![v].seen = link, ![v].step = "ask"]
      /\ OnlyVisits

\* The App's code is exchanged for its credentials, once.
ConvertsManifest(v) ==
  /\ visit[v].step = "ask" /\ visit[v].action = "return"
  /\ LET app == hubApps[visit[v].given]
     IN  /\ app.code
         /\ hubApps' = [hubApps EXCEPT ![visit[v].given].code = FALSE]
         /\ IF app.owner = "ours" THEN Leads(v, "write") ELSE Answers(v)
  /\ UNCHANGED <<link, issued, installs, recreate, overlapped>>

\* Mutant: only the App's installation is looked at, not its account.
AnyAccount(v) == installs[visit[v].given].app = visit[v].seen.app

\* GitHub knows the installation as one of this App, on this account.
InstallationFits(v) ==
  /\ installs[visit[v].given].app = visit[v].seen.app
  /\ installs[visit[v].given].account = "ours"

ChecksInstallation(v) ==
  /\ visit[v].step = "ask" /\ visit[v].action = "installed"
  /\ IF InstallationFits(v) THEN Leads(v, "count") ELSE Answers(v)
  /\ OnlyVisits

CountsRepositories(v) ==
  /\ visit[v].step = "count"
  /\ Leads(v, "write")
  /\ OnlyVisits

GitHubFails(v) ==
  /\ visit[v].step \in {"ask", "count"}
  /\ Answers(v)
  /\ OnlyVisits

\* What the visit read, with what it was given.
Registered(v) ==
  [visit[v].seen EXCEPT !.status = "setup_required", !.config = "registered",
                        !.app = visit[v].given, !.installation = 0]
ReadyRow(v) ==
  [visit[v].seen EXCEPT !.status = "ready", !.config = "ready", !.token = 0,
                        !.installation = visit[v].given]

WritesConnection(v) ==
  /\ visit[v].step = "write"
  /\ IF link.status = "gone"
     THEN UNCHANGED <<link, overlapped>>
     ELSE /\ link' = IF visit[v].action = "return" THEN Registered(v) ELSE ReadyRow(v)
          /\ overlapped' = (overlapped \/ link # visit[v].seen)
  /\ Answers(v)
  /\ UNCHANGED <<issued, hubApps, installs, recreate>>

----------------------------------------------------------------------------
(* The command line *)

\* connection add --recreate: what is known of the old App is kept for its
\* removal; a setup that was pending leaves nothing to keep.
RecreateBegins ==
  /\ recreate.step = "none" /\ issued < MaxLinks /\ link.status # "gone"
  /\ recreate' = [step |-> "write", seen |-> link]
  /\ UNCHANGED <<link, issued, hubApps, installs, visit, overlapped>>

RecreateWrites ==
  /\ recreate.step = "write"
  /\ recreate' = [step |-> "none", seen |-> Row0]
  /\ IF link.status = "gone"
     THEN UNCHANGED <<link, issued, overlapped>>
     ELSE /\ link' = PendingRow(issued + 1, recreate.seen.app)
          /\ issued' = issued + 1
          /\ overlapped' = (overlapped \/ link # recreate.seen)
  /\ UNCHANGED <<hubApps, installs, visit>>

ConnectionGoes ==
  /\ link' = Row0
  /\ UNCHANGED <<issued, hubApps, installs, visit, recreate, overlapped>>

SetupPageNext ==
  \/ HubMakesApp \/ HubInstalls \/ VisitBegins
  \/ RecreateBegins \/ RecreateWrites \/ ConnectionGoes
  \/ \E v \in Visits :
       \/ ReadsConnection(v) \/ ConvertsManifest(v) \/ ChecksInstallation(v)
       \/ CountsRepositories(v) \/ GitHubFails(v) \/ WritesConnection(v)

SetupTypeOK ==
  /\ link.status \in {"gone", "setup_required", "ready"}
  /\ link.token \in 0..issued /\ link.app \in 0..Len(hubApps)
  /\ link.installation \in 0..Len(installs)

----------------------------------------------------------------------------
(* Properties *)

\* A connection that is ready has an App of the right owner and that App's
\* installation on the right account, all from one setup, and one that is
\* not has a link to go on with.
ReadyIsWhole ==
  /\ link.status = "ready" =>
       /\ hubApps[link.app].owner = "ours"
       /\ installs[link.installation] = [app |-> link.app, account |-> "ours"]
  /\ link.status = "setup_required" => link.token # 0 /\ link.installation = 0

\* Unless visits or commands overlapped, the only link that leads anywhere
\* is the newest one, and only until the setup has succeeded.
UsedLinkIsDead ==
  link.status # "gone" /\ ~overlapped =>
    link.token = IF link.status = "ready" THEN 0 ELSE issued

SetupIsWhole == ReadyIsWhole /\ UsedLinkIsDead

=============================================================================
