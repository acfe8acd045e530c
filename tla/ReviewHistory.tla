--------------------------- MODULE ReviewHistory ---------------------------
(***************************************************************************)
(* What one review of a code review knows of the earlier ones: which run   *)
(* is its baseline, which files have changed since, which findings are     *)
(* still open, and whether it may call the code review ready.  Attempts    *)
(* fail, die, are repeated with a checkpoint and complete falsely, while   *)
(* people push, retarget the code review and resolve or reopen threads.    *)
(* One attempt runs at a time (JobRunner), and publication is one step     *)
(* here (ReviewPublication has its parts).                                 *)
(***************************************************************************)
EXTENDS Naturals, Sequences, FiniteSets, Functions

CONSTANTS
  Paths, Contents, \* files, and what a file may differ in: positive numbers
  Large,           \* contents a provider shows no diff of
  Topics,          \* findings, by their identity
  HistoryJobs,     \* jobs of this code review
  KindOf,          \* of each job: "batch", "manual" or "test" (not published)
  HistoryRetries,
  MaxFailures,     \* bound: attempts that fail or whose lease is lost
  MaxMoves         \* bound: pushes, retargets and threads touched by people

ASSUME HistoryAssumption == 0 \notin HistoryJobs /\ 1 \in Contents

VARIABLES
  hosting,   \* "github" or "gitlab"
  change,    \* the code review: for each head the content of each file, 0 unchanged
  thread,    \* for each finding: "none", "open", "resolved"
  moves,     \* how often people moved
  task,      \* the jobs: [status, head, tries]
  saved,     \* the newest checkpoint of each job
  replied,   \* the jobs whose checkpoint tells of a published reply
  reviews,   \* the runs: [job, status, at, result, snapshot, rows]
  mapping,   \* status of each thread as last stored
  attempt,   \* the attempt in progress
  seen,      \* ghost: what some review was shown as changed, [path, content]
  answered,  \* ghost: findings a review closed, and no later one reported
  torn       \* ghost: findings whose sync was cut between its two writes

historyVars == <<hosting, change, thread, moves, task, saved, replied, reviews, mapping,
                 attempt, seen, answered, torn>>

Nobody == [step |-> "none", job |-> 0, content |-> <<>>, format |-> "none", threads |-> <<>>,
           todo |-> {}, previous |-> 0, scope |-> "none", result |-> <<>>, ready |-> FALSE]
NoSaved == [head |-> 0, scope |-> "none", result |-> <<>>, published |-> FALSE,
            content |-> <<>>]
NoSnapshot == [format |-> "none", content |-> [p \in Paths |-> 0]]
NoRows == [f \in Topics |-> "none"]

Tip == Len(change)
ChangedIn(content) == {p \in Paths : content[p] # 0}
ShownOf(content) == {<<p, content[p]>> : p \in ChangedIn(content)}

\* Before the jobs there was no review, or one by an earlier version, whose
\* snapshot belongs to the job, has other signatures or cannot be read.
HistoryInit ==
  /\ hosting \in {"github", "gitlab"}
  /\ change = <<[p \in Paths |-> 1]>>
  /\ moves = 0
  /\ \E past \in {"none", "content-signature-v1", "unreadable"}, found \in {"none", "open"} :
       LET content == [p \in Paths |-> IF past = "unreadable" THEN 0 ELSE 1]
       IN  /\ past = "none" => found = "none"
           /\ reviews = IF past = "none" THEN <<>>
                        ELSE <<[job |-> 0, status |-> "completed", at |-> 1, result |-> TRUE,
                                snapshot |-> [format |-> past, content |-> content],
                                rows |-> [f \in Topics |-> found]]>>
           /\ seen = IF past = "none" THEN {} ELSE ShownOf(content)
           /\ thread = [f \in Topics |-> found] /\ mapping = thread
  /\ task = [j \in HistoryJobs |-> [status |-> "queued", head |-> 1, tries |-> 0]]
  /\ saved = [j \in HistoryJobs |-> NoSaved]
  /\ attempt = Nobody /\ replied = {} /\ answered = {} /\ torn = {}

----------------------------------------------------------------------------
(* People *)

\* Nothing else looks at the platform but the beginning of an attempt and its
\* publication; after the last attempt nothing does.
PeopleMove ==
  /\ moves < MaxMoves /\ \E j \in HistoryJobs : task[j].status \in {"queued", "in_progress"}
  /\ attempt.step \in {"none", "publish", "reply"}
  /\ moves' = moves + 1
  /\ \/ \E p \in Paths, c \in Contents :   \* a push
          /\ c # change[Tip][p]
          /\ change' = Append(change, [change[Tip] EXCEPT ![p] = c])
          /\ UNCHANGED thread
     \/ \E p \in Paths, c \in Contents :   \* another target branch, the same head
          /\ c # change[Tip][p]
          /\ change' = [change EXCEPT ![Tip][p] = c]
          /\ UNCHANGED thread
     \/ \E f \in Topics :                  \* a thread resolved or reopened
          /\ thread[f] # "none"
          /\ thread' = [thread EXCEPT ![f] = IF @ = "open" THEN "resolved" ELSE "open"]
          /\ UNCHANGED change
  /\ UNCHANGED <<hosting, replied, task, saved, reviews, mapping, attempt, seen, answered, torn>>

----------------------------------------------------------------------------
(* What the storage helpers find *)

Completed == {r \in DOMAIN reviews : reviews[r].status = "completed"}
Latest(rs) == CHOOSE r \in rs : \A q \in rs : reviews[q].at <= reviews[r].at

\* Mutant: every run of another job with a snapshot is a baseline.
BaselinesOfAnyStatus(j) ==
  {r \in DOMAIN reviews : reviews[r].job # j /\ reviews[r].snapshot # NoSnapshot}

\* getLatestCompletedInteractionForCodeReview
Baselines(j) ==
  {r \in Completed : reviews[r].job # j /\ reviews[r].result
                     /\ reviews[r].snapshot # NoSnapshot}
Previous(j) == IF Baselines(j) = {} THEN 0 ELSE Latest(Baselines(j))

\* listLatestFindingsForCodeReview: the row of the latest run that has one.
With(f, rs) == {r \in rs : reviews[r].rows[f] # "none"}
OpenIn(rs) == {f \in Topics : With(f, rs) # {} /\ reviews[Latest(With(f, rs))].rows[f] = "open"}

\* updateReviewFindingStatus: every completed run's row of the finding.
Marked(f, status, from) ==
  [r \in DOMAIN reviews |->
     IF r \in With(f, Completed) /\ reviews[r].rows[f] \in from
     THEN [reviews[r] EXCEPT !.rows[f] = status] ELSE reviews[r]]

----------------------------------------------------------------------------
(* buildScopedReviewContext *)

\* A provider's diff that is not shown looks like any other.
Signature(s, p) ==
  IF s.content[p] = 0 THEN <<"none", 0>>
  ELSE <<s.format, IF s.format = "provider-diff" /\ s.content[p] \in Large THEN 0
                   ELSE s.content[p]>>

Formats(s) == IF ChangedIn(s.content) = {} THEN {} ELSE {s.format}
Incompatible(s, t) == Formats(s) # {} /\ Formats(t) # {} /\ Formats(s) # Formats(t)

ReviewMode(s, previous, scope) ==
  IF previous = 0 \/ scope = "full" \/ Incompatible(s, reviews[previous].snapshot)
  THEN "first-pass-full" ELSE "incremental-rereview"

Delta(s, t) == {p \in ChangedIn(s.content) : Signature(s, p) # Signature(t, p)}

\* What the reviewer is shown as changed since the previous review.
Offered(s, previous, scope) ==
  IF ReviewMode(s, previous, scope) = "first-pass-full"
  THEN ShownOf(s.content)
  ELSE {<<p, s.content[p]>> : p \in Delta(s, reviews[previous].snapshot)}

\* projectActiveReviewFindings: the open findings of before, those reported
\* now, without those whose thread is closed and that are not reported.
Active(prior, result) == (prior \cup result.found) \ (result.closed \ result.found)
ReadyToMerge(prior, result) == Active(prior, result) = {}

----------------------------------------------------------------------------
(* An attempt *)

Mine == attempt.job
Kind == KindOf[Mine]
Doing(step) == attempt.step = step
Turns(step) == attempt' = [attempt EXCEPT !.step = step]
NewRun == Len(reviews)
Snapshot == [format |-> attempt.format, content |-> attempt.content]
Checkpointed == Kind = "batch" /\ saved[Mine] # NoSaved
Retried(j) == [task EXCEPT ![j].status = IF task[j].tries < HistoryRetries THEN "queued" ELSE "failed",
                           ![j].tries = @ + 1]
FewFailures == FoldFunction(+, 0, [j \in HistoryJobs |-> task[j].tries]) < MaxFailures
Reviewed == Checkpointed /\ saved[Mine].result # <<>>

\* What the router may make of the requests.
Routings == {"none", "incremental", "full"}

\* GitHub wants every job's head to be current.
Refuses(head) == hosting = "github" /\ head # Tip

\* The files of a job's head from Git, and else those of now.
FilesOf(head, format) == change[IF format = "git-raw-v2" THEN head ELSE Tip]

\* The mappings that differ from their threads.
Differing == {f \in Topics : "none" \notin {thread[f], mapping[f]} /\ thread[f] # mapping[f]}

\* A batch is reviewed at the head of now, with the checkpoint of that head; one
\* whose review or replies are published at another head is given up.
Begins(j) ==
  /\ Doing("none") /\ task[j].status = "queued"
  /\ LET batch == KindOf[j] = "batch"
         head == IF batch THEN Tip ELSE task[j].head
         other == batch /\ saved[j] # NoSaved /\ saved[j].head # head
     IN  IF other /\ (saved[j].published \/ j \in replied)
         THEN /\ task' = [task EXCEPT ![j].status = "cancelled"]
              /\ UNCHANGED <<saved, reviews, attempt>>
         ELSE IF Refuses(head)
         THEN task' = Retried(j) /\ UNCHANGED <<saved, reviews, attempt>>
         ELSE /\ task' = [task EXCEPT ![j].status = "in_progress", ![j].head = head]
              /\ saved' = IF other THEN [saved EXCEPT ![j] = NoSaved] ELSE saved
              /\ reviews' = Append(reviews, [job |-> j, status |-> "in_progress", at |-> 0,
                                             result |-> FALSE, snapshot |-> NoSnapshot,
                                             rows |-> NoRows])
              /\ \E format \in {"git-raw-v2", "provider-diff"} :
                   attempt' = [Nobody EXCEPT !.step = "sync", !.job = j, !.format = format,
                     !.content = FilesOf(head, format), !.threads = thread, !.todo = Differing]
  /\ UNCHANGED <<hosting, replied, change, thread, moves, mapping, seen, answered, torn>>

\* syncDiscussionFindingStatuses: first the mapping, then its finding.
SyncsMapping(f) ==
  /\ Doing("sync") /\ f \in attempt.todo
  /\ mapping' = [mapping EXCEPT ![f] = attempt.threads[f]]
  /\ torn' = torn \cup {f}
  /\ attempt' = [attempt EXCEPT !.step = "finding", !.todo = @ \ {f}]
  /\ UNCHANGED <<hosting, replied, change, thread, moves, task, saved, reviews, seen, answered>>

SyncsFinding(f) ==
  /\ Doing("finding") /\ f \in torn /\ f \notin attempt.todo
  /\ mapping[f] = attempt.threads[f]
  /\ reviews' = Marked(f, attempt.threads[f], {"open", "resolved"})
  /\ torn' = torn \ {f}
  /\ Turns("sync")
  /\ UNCHANGED <<hosting, replied, change, thread, moves, task, saved, mapping, seen, answered>>

\* The baseline is read and the requests are routed; a manual review is
\* incremental, and a checkpoint has its routing.
Routes ==
  /\ Doing("sync") /\ attempt.todo = {}
  /\ \E scope \in IF Kind # "batch" THEN {"incremental"}
                  ELSE IF Checkpointed THEN {saved[Mine].scope} ELSE Routings :
       /\ attempt' = [attempt EXCEPT !.previous = Previous(Mine), !.scope = scope,
                        !.step = IF scope = "none" THEN "reply" ELSE "hydrate"]
       /\ saved' = IF Kind = "batch" /\ ~Checkpointed
                   THEN [saved EXCEPT ![Mine] = [NoSaved EXCEPT !.head = task[Mine].head, !.scope = scope]]
                   ELSE saved
  /\ UNCHANGED <<hosting, replied, change, thread, moves, task, reviews, mapping, seen, answered, torn>>

\* A batch without a review has its replies published at its head, and that is
\* in its checkpoint; there may be none to publish.
AnswersRequests ==
  /\ Doing("reply")
  /\ \/ task[Mine].head = Tip /\ replied' = replied \cup {Mine}
     \/ UNCHANGED replied
  /\ Turns("complete")
  /\ UNCHANGED <<hosting, change, thread, moves, task, saved, reviews, mapping, seen, answered, torn>>

\* The snapshot is saved for the run.
Hydrates ==
  /\ Doing("hydrate")
  /\ reviews' = [reviews EXCEPT ![NewRun].snapshot = Snapshot]
  /\ Turns("review")
  /\ UNCHANGED <<hosting, replied, change, thread, moves, task, saved, mapping, seen, answered, torn>>

\* The model finds what it finds, unless the checkpoint has a result; the
\* findings are saved for the run.
Reviews ==
  /\ Doing("review")
  /\ \E found \in SUBSET Topics, closed \in SUBSET {f \in Topics : attempt.threads[f] # "none"} :
       LET result == IF Reviewed THEN saved[Mine].result ELSE [found |-> found, closed |-> closed]
       IN  /\ attempt' = [attempt EXCEPT !.result = result,
                            !.step = IF Kind = "test" \/ (Checkpointed /\ saved[Mine].published)
                                     THEN "complete" ELSE "publish"]
           /\ saved' = IF Kind = "batch"
                       THEN [saved EXCEPT ![Mine].result = result,
                               ![Mine].content = IF Reviewed THEN @ ELSE attempt.content]
                       ELSE saved
           /\ reviews' = [reviews EXCEPT ![NewRun].rows =
                            [f \in Topics |-> IF f \in result.found THEN "open" ELSE "none"]]
  /\ seen' = IF Reviewed THEN seen
             ELSE seen \cup Offered(Snapshot, attempt.previous, attempt.scope)
  /\ UNCHANGED <<hosting, replied, change, thread, moves, task, mapping, answered, torn>>

\* A batch only at the current head, another job wherever it was reviewed.  A
\* reported finding has an open thread, a closed one a resolved thread if the
\* provider lets the bot; the overview is of all findings that are active then.
Publishes ==
  /\ Doing("publish")
  /\ Kind = "batch" => task[Mine].head = Tip
  /\ \E refused \in SUBSET attempt.result.closed, end \in {"resolved", "dismissed"} :
       LET closed == {f \in attempt.result.closed : f \notin attempt.result.found}
           status == [f \in Topics |-> IF f \in attempt.result.found THEN "open"
                        ELSE IF f \in closed \ refused THEN "resolved" ELSE thread[f]]
           touched == attempt.result.found \cup closed
           marked(r, f) == IF f \in touched /\ r \in With(f, Completed)
                           THEN IF f \in closed THEN end ELSE "open"
                           ELSE reviews[r].rows[f]
       IN  /\ thread' = status
           /\ mapping' = [f \in Topics |-> IF f \in touched THEN status[f] ELSE mapping[f]]
           /\ reviews' = [r \in DOMAIN reviews |->
                            [reviews[r] EXCEPT !.rows = [f \in Topics |-> marked(r, f)]]]
           /\ answered' = (answered \cup closed) \ attempt.result.found
           /\ torn' = torn \ touched
           /\ attempt' = [attempt EXCEPT !.step = "complete",
                            !.ready = ReadyToMerge(OpenIn(Completed), attempt.result)]
           /\ saved' = IF Kind = "batch" THEN [saved EXCEPT ![Mine].published = TRUE] ELSE saved
  /\ UNCHANGED <<hosting, replied, change, moves, task, seen>>

Stamp == 1 + Cardinality({r \in DOMAIN reviews : reviews[r].at > 0})

EndsRun ==
  /\ Doing("complete")
  /\ reviews' = [reviews EXCEPT ![NewRun].status = "completed", ![NewRun].at = Stamp,
                                ![NewRun].result = (attempt.scope # "none")]
  /\ Turns("commit")
  /\ UNCHANGED <<hosting, replied, change, thread, moves, task, saved, mapping, seen, answered, torn>>

CommitsJob ==
  /\ Doing("commit")
  /\ task' = [task EXCEPT ![Mine].status = "completed"]
  /\ attempt' = Nobody
  /\ UNCHANGED <<hosting, replied, change, thread, moves, saved, reviews, mapping, seen, answered, torn>>

\* An error or a lost lease ends the attempt.  A run that is left in progress
\* is read by nobody until it is reconciled to a failed one.
AttemptFails ==
  /\ ~Doing("none") /\ ~Doing("commit") /\ FewFailures
  /\ reviews' = [reviews EXCEPT ![NewRun].status = "failed"]
  /\ task' = Retried(Mine) /\ attempt' = Nobody
  /\ UNCHANGED <<hosting, replied, change, thread, moves, saved, mapping, seen, answered, torn>>

\* The lease is lost after the run completed: it stays so for a while.
CommitIsLost ==
  /\ Doing("commit") /\ FewFailures
  /\ task' = Retried(Mine) /\ attempt' = Nobody
  /\ UNCHANGED <<hosting, replied, change, thread, moves, saved, reviews, mapping, seen, answered, torn>>

\* reconcileOrphanedInteractionRuns: only these steps tell when it comes.
RunReconciled(r) ==
  /\ attempt.step \in {"none", "sync", "publish"}
  /\ reviews[r].job # 0 /\ ~(r = NewRun /\ ~Doing("none"))
  /\ reviews[r].status = "completed" /\ task[reviews[r].job].status # "completed"
  /\ reviews' = [reviews EXCEPT ![r].status = "failed"]
  /\ UNCHANGED <<hosting, replied, change, thread, moves, task, saved, mapping, attempt, seen, answered, torn>>

HistoryNext ==
  \/ PeopleMove
  \/ \E j \in HistoryJobs : Begins(j)
  \/ \E f \in Topics : SyncsMapping(f) \/ SyncsFinding(f)
  \/ Routes \/ AnswersRequests \/ Hydrates \/ Reviews \/ Publishes \/ EndsRun \/ CommitsJob
  \/ AttemptFails \/ CommitIsLost
  \/ \E r \in DOMAIN reviews : RunReconciled(r)

HistoryTypeOK ==
  /\ thread \in [Topics -> {"none", "open", "resolved"}] /\ mapping \in [Topics -> {"none", "open", "resolved"}]
  /\ \A r \in DOMAIN reviews :
       reviews[r].rows \in [Topics -> {"none", "open", "resolved", "dismissed"}]
  /\ seen \subseteq Paths \X Contents

----------------------------------------------------------------------------
(* Properties *)

\* Whatever a completed review found changed, some review was shown as
\* changed: no baseline hides a change from all that follow.  A diff that the
\* provider does not show looks like any other, and a checkpoint's result does
\* not see a target branch that changed between two attempts.
Moved(r) == reviews[r].job # 0
            /\ saved[reviews[r].job].result # <<>>
            /\ saved[reviews[r].job].content # reviews[r].snapshot.content
HasContent(r, p, content) == reviews[r].snapshot.content[p] = content
Missed(p, content) ==
  \E r \in DOMAIN reviews :
    /\ HasContent(r, p, content)
    /\ \/ reviews[r].snapshot.format = "provider-diff" /\ content \in Large
       \/ reviews[r].result /\ Moved(r)
NoChangeUnseen ==
  \A r \in Completed : \A shown \in ShownOf(reviews[r].snapshot.content) :
    shown \in seen \/ Missed(shown[1], shown[2])

\* A review that calls the code review ready leaves no thread open that it saw
\* and that a completed review had reported, unless a review has closed the
\* finding since and could not close its thread, or a sync of it was cut.
ReadyIsEarned ==
  attempt.ready =>
    \A f \in Topics :
      attempt.threads[f] = "open" /\ With(f, Completed) # {} => f \in answered \cup torn

HistoryIsSound == NoChangeUnseen /\ ReadyIsEarned

=============================================================================
