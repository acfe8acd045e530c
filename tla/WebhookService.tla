--------------------------- MODULE WebhookService ---------------------------
(***************************************************************************)
(* What happens to a provider's webhook between its arrival and its reply: *)
(* the tenant is found and the request authorized, a new pull request gets *)
(* its check run, a comment or an action is classified by what the         *)
(* provider says of it now, and a job is stored.  Deliveries repeat and    *)
(* overlap, and the pull request, its threads and the tenant change        *)
(* between the steps.                                                      *)
(***************************************************************************)
EXTENDS Naturals, FiniteSets

CONSTANTS
  Requests,        \* HTTP requests
  GitHubEvents,    \* what may be delivered to each platform's route: records
  GitLabEvents,    \*   [event, id, by, asks, on, repo, key, head]
  MaxChanges       \* bound: changes of the world

\* event: "comment", "action" (Run Review), "pull", "other", "broken"
\* id: the comment, its edition included, or the delivery of an action
\* by: "person", "self" or "bot"; asks: does the text name ReviewPhin?
\* on: the root of the thread: "none", "finding", "summary", "theirs"
\* repo: "ours", "unknown" or "none"; key: the secret that signed it, 0 a guess
\* GitHub offers the action to people, as a button.
ASSUME EventsAssumption ==
  /\ \A e \in GitHubEvents \cup GitLabEvents :
       e.by \in {"person", "self", "bot"} /\ e.head \in {1, 2}
  /\ \A e \in GitHubEvents : e.event = "action" => e.by = "person"
  /\ MaxChanges \in Nat
ASSUME RequestsAssumption == IsFiniteSet(Requests) /\ Requests # {}

VARIABLES
  platform,   \* the route this behaviour looks at
  tenant,     \* the tenant row and its connection: [status, secret, named]
  hub,        \* the provider: [head, checks: how many for each head, thread]
  request,    \* each request: [step, event, secret, kind, head, reply, after]
  stored,     \* the jobs' keys: [id, kind, head, event]
  changes     \* changes of the world so far

hookVars == <<platform, tenant, hub, request, stored, changes>>

Events == IF platform = "github" THEN GitHubEvents ELSE GitLabEvents
NoEvent == [event |-> "none"]
NoRequest == [step |-> "none", event |-> NoEvent, secret |-> 0, kind |-> "none",
              head |-> 0, reply |-> "none", after |-> {}]

HookInit ==
  /\ platform \in {"github", "gitlab"}
  /\ tenant = [status |-> "ready", secret |-> 1, named |-> TRUE]
  /\ \E provisioned \in {0, 1} :
       hub = [head |-> 1, checks |-> [h \in {1, 2} |-> IF h = 1 THEN provisioned ELSE 0],
              thread |-> TRUE]
  /\ request = [r \in Requests |-> NoRequest]
  /\ stored = {} /\ changes = 0

----------------------------------------------------------------------------
(* People, the provider and the command line *)

\* A push, a deleted thread, a renamed repository; a tenant removed, a
\* connection set up anew, a secret replaced.
WorldChanges ==
  /\ changes < MaxChanges
  /\ changes' = changes + 1
  /\ \/ hub.head = 1 /\ hub' = [hub EXCEPT !.head = 2] /\ UNCHANGED tenant
     \/ hub' = [hub EXCEPT !.thread = FALSE] /\ UNCHANGED tenant
     \/ tenant' = [tenant EXCEPT !.named = FALSE] /\ UNCHANGED hub
     \/ \E status \in {"gone", "pending"} : tenant' = [tenant EXCEPT !.status = status] /\ UNCHANGED hub
     \/ tenant.secret = 1 /\ tenant' = [tenant EXCEPT !.secret = 2] /\ UNCHANGED hub
  /\ UNCHANGED <<platform, request, stored>>

\* An action belongs to a check run there is; nothing is about a later head.
MayArrive(e) ==
  /\ e.head <= hub.head
  /\ e.event = "action" => hub.checks[e.head] > 0

----------------------------------------------------------------------------
(* The route *)

Replied == {r \in Requests : request[r].step = "done"}
IsAt(r, step) == request[r].step = step
EventOf(r) == request[r].event

Proceeds(r, step) == request' = [request EXCEPT ![r].step = step]
Replies(r, reply) == request' = [request EXCEPT ![r].step = "done", ![r].reply = reply]
OnlyRequests == UNCHANGED <<platform, tenant, hub, stored, changes>>

\* parseWebhookPayload, identifyTenantKey and shouldIgnoreWebhookWithoutTenant:
\* GitHub also tells of things that are about no repository.
FirstReply(e) ==
  IF e.event = "broken" THEN "invalid"
  ELSE IF e.repo # "none" THEN "none"
  ELSE IF platform = "github" THEN "no-trigger" ELSE "not-found"

Arrives(r) ==
  /\ IsAt(r, "none")
  /\ \E e \in Events :
       /\ MayArrive(e)
       /\ LET reply == FirstReply(e)
          IN  request' = [request EXCEPT ![r] = [NoRequest EXCEPT
                !.step = IF reply = "none" THEN "tenant" ELSE "done",
                !.event = e, !.reply = reply, !.after = Replied]]
  /\ OnlyRequests

\* GitLab's secret is in the tenant's row.
FindsTenant(r) ==
  /\ IsAt(r, "tenant")
  /\ IF tenant.status = "gone" \/ EventOf(r).repo # "ours"
     THEN Replies(r, "not-found")
     ELSE request' = [request EXCEPT ![r].step = "connection", ![r].secret = tenant.secret]
  /\ OnlyRequests

\* Mutant: a request is believed that carries any secret at all.
AnySecret(r, secret) == TRUE

KnowsSecret(r, secret) == EventOf(r).key = secret

\* The connection is ready, and the request is signed; GitHub's secret is in
\* the connection's row.
Authorizes(r) ==
  /\ IsAt(r, "connection")
  /\ LET secret == IF platform = "github" THEN tenant.secret ELSE request[r].secret
     IN  IF tenant.status = "ready" /\ KnowsSecret(r, secret)
         THEN Proceeds(r, IF platform = "github" /\ EventOf(r).event = "pull" THEN "list" ELSE "classify")
         ELSE Replies(r, "not-found")
  /\ OnlyRequests

\* handleWebhookEvent: a new head gets a check run, unless it has one.
ListsCheckRuns(r) ==
  /\ IsAt(r, "list")
  /\ IF hub.checks[EventOf(r).head] > 0 THEN Replies(r, "event-handled") ELSE Proceeds(r, "create")
  /\ OnlyRequests

CreatesCheckRun(r) ==
  /\ IsAt(r, "create")
  /\ hub' = [hub EXCEPT !.checks[EventOf(r).head] = @ + 1]
  /\ Replies(r, "event-handled")
  /\ UNCHANGED <<platform, tenant, stored, changes>>

----------------------------------------------------------------------------
(* Classification *)

\* The root of the comment's thread, as the provider answers now.
RootNow(e) == IF hub.thread THEN e.on ELSE "none"

\* classifyWebhookTrigger of GitHub: the button of our check run; a person's
\* answer to a finding of ours; a person's command.
GitHubKind(e) ==
  IF e.event = "action" THEN "action"
  ELSE IF e.event # "comment" \/ e.by # "person" THEN "none"
  ELSE IF RootNow(e) = "finding" THEN "follow-up"
  ELSE IF e.asks THEN "mention" ELSE "none"

\* classifyGitLabWebhookTrigger: drafts and system notes are other events;
\* another bot may ask.
GitLabKind(e) ==
  IF e.event # "comment" \/ e.by = "self" THEN "none"
  ELSE IF RootNow(e) = "finding" THEN "follow-up"
  ELSE IF RootNow(e) = "summary" THEN "summary-follow-up"
  ELSE IF e.asks THEN "mention" ELSE "none"

Classifies(r) ==
  /\ IsAt(r, "classify")
  /\ LET kind == IF platform = "github" THEN GitHubKind(EventOf(r)) ELSE GitLabKind(EventOf(r))
     IN  IF kind = "none"
         THEN Replies(r, "no-trigger")
         ELSE request' = [request EXCEPT ![r].kind = kind,
                                         ![r].step = IF platform = "github" THEN "resolve" ELSE "store",
                                         ![r].head = EventOf(r).head]
  /\ OnlyRequests

----------------------------------------------------------------------------
(* The job *)

\* The repository's new name is kept with the tenant.
ResolvesRepository(r) ==
  /\ IsAt(r, "resolve")
  /\ tenant' = IF tenant.status = "gone" THEN tenant ELSE [tenant EXCEPT !.named = TRUE]
  /\ Proceeds(r, "head")
  /\ UNCHANGED <<platform, hub, stored, changes>>

\* A comment is reviewed at the head of now; an action only at the head of
\* its check run.
ReadsHead(r) ==
  /\ IsAt(r, "head")
  /\ IF request[r].kind = "action" /\ EventOf(r).head # hub.head
     THEN Replies(r, "error")
     ELSE request' = [request EXCEPT ![r].step = "store", ![r].head = hub.head]
  /\ OnlyRequests

\* The jobs of this very event: GitHub's key has the kind of the trigger.
KnownJobs(r) ==
  {j \in stored : j.id = EventOf(r).id /\ (platform = "github" => j.kind = request[r].kind)}

WithJob(r) ==
  IF KnownJobs(r) # {} THEN stored ELSE stored \cup
    {[id |-> EventOf(r).id, kind |-> request[r].kind, head |-> request[r].head,
      event |-> EventOf(r)]}

StoresJob(r) ==
  /\ IsAt(r, "store")
  /\ IF tenant.status = "gone"
     THEN Replies(r, "error") /\ UNCHANGED stored
     ELSE /\ request' = [request EXCEPT ![r].step = "tell",
                           ![r].reply = IF KnownJobs(r) = {} THEN "created" ELSE "duplicate"]
          /\ stored' = WithJob(r)
  /\ UNCHANGED <<platform, tenant, hub, changes>>

\* The provider or the storage fails: the provider is told, and may deliver
\* the event again.  What was asked for may have been done all the same: the
\* answer is lost, or the single worker's store saves the request and fails
\* where it attaches it.
RequestFails(r) ==
  /\ request[r].step \in {"tenant", "connection", "list", "create", "classify", "resolve", "head", "store"}
  /\ Replies(r, "error")
  /\ \/ UNCHANGED <<hub, stored>>
     \/ IsAt(r, "create") /\ hub' = [hub EXCEPT !.checks[EventOf(r).head] = @ + 1] /\ UNCHANGED stored
     \/ IsAt(r, "store") /\ tenant.status # "gone" /\ stored' = WithJob(r) /\ UNCHANGED hub
  /\ UNCHANGED <<platform, tenant, changes>>

\* The provider is told of the job, as well as that goes.
TellsProvider(r) ==
  /\ IsAt(r, "tell")
  /\ Proceeds(r, "done")
  /\ OnlyRequests

HookNext ==
  \/ WorldChanges
  \/ \E r \in Requests :
       \/ Arrives(r) \/ FindsTenant(r) \/ Authorizes(r)
       \/ ListsCheckRuns(r) \/ CreatesCheckRun(r) \/ Classifies(r)
       \/ ResolvesRepository(r) \/ ReadsHead(r) \/ RequestFails(r)
       \/ StoresJob(r) \/ TellsProvider(r)

HookTypeOK ==
  /\ platform \in {"github", "gitlab"} /\ tenant.status \in {"ready", "pending", "gone"}
  /\ hub.head \in {1, 2} /\ hub.checks \in [{1, 2} -> 0..Cardinality(Requests)]
  /\ \A r \in Requests : request[r].after \subseteq Requests

----------------------------------------------------------------------------
(* Properties *)

Overlap(r, q) == r # q /\ r \notin request[q].after /\ q \notin request[r].after
Got(reply) == {r \in Requests : request[r].reply = reply}

\* A delivery that is told of a job finds it, of the deliveries of one event at
\* most one is told that its job is new, and whoever stored a job was told so or
\* was told of a failure: a first delivery that failed after its job was stored
\* leaves only duplicates, and no job appears behind other replies.
OneIsNew ==
  /\ \A r \in Got("created") \cup Got("duplicate") :
       /\ KnownJobs(r) # {}
       /\ Cardinality({q \in Got("created") : EventOf(q).id = EventOf(r).id
                                              /\ request[q].kind = request[r].kind}) <= 1
  /\ \A j \in stored : \E q \in Got("created") \cup Got("error") :
       EventOf(q).id = j.id /\ request[q].kind = j.kind

\* Every job comes from someone else's event that was signed with a secret the
\* tenant has or had, and an action is reviewed at the head it was offered for.
JobsAreAuthorized ==
  \A j \in stored :
    /\ j.event.key \in 1..tenant.secret /\ j.event.repo = "ours" /\ j.event.by # "self"
    /\ j.kind = "action" => j.head = j.event.head

\* A pull request that was handled can be reviewed by its button, and has two
\* buttons only when two deliveries of its head overlapped.
HandledHasCheckRun ==
  /\ \A r \in Got("event-handled") : hub.checks[EventOf(r).head] > 0
  /\ \A h \in {1, 2} :
       LET makers == {r \in Requests : EventOf(r).event = "pull" /\ EventOf(r).head = h}
       IN  hub.checks[h] > 1 => \E r, q \in makers : Overlap(r, q)

RepliesAreTrue == OneIsNew /\ JobsAreAuthorized /\ HandledHasCheckRun

=============================================================================
