--------------------------- MODULE ReviewPipeline ---------------------------
(***************************************************************************)
(* What the worker does for one claimed job (review-worker.ts,             *)
(* processClaimedJob): route the requests, memory phase, review phase,     *)
(* publication, replies.  A collected batch of comments keeps a checkpoint *)
(* in its run, so a later attempt goes on where an earlier one stopped;    *)
(* manual reviews and jobs of a single comment start over.  An attempt may *)
(* fail at every step, or just die, and the head of the code review may    *)
(* move at every moment.                                                   *)
(*                                                                         *)
(* There is one attempt at a time (JobRunnerProofs!ExclusiveAttempt), and  *)
(* a call of a dead attempt has reached the platform before the next       *)
(* attempt reads it.                                                       *)
(***************************************************************************)
EXTENDS ReviewPublication

CONSTANTS
  Replies,     \* groups of requests that are answered together
  Plans,       \* what routing may decide: [memory, review : BOOLEAN, replies]
  Results,     \* what a model review may find, a subset of Result
  Modes,       \* kinds of job: "batch", "single" (one comment), "manual"
  Hosts,       \* platforms
  MaxRetries,  \* the configured number of retries
  MaxHead,     \* bound: how often the head moves
  None

ASSUME PipelineAssumption ==
  /\ Plans \subseteq [memory : BOOLEAN, review : BOOLEAN, replies : SUBSET Replies]
  /\ Results \subseteq Result
  /\ Modes \subseteq {"batch", "single", "manual"} /\ Hosts \subseteq {"github", "gitlab"}
  /\ MaxRetries \in Nat /\ MaxHead \in Nat

VARIABLES
  mode,     \* the kind of the job
  head,     \* head of the code review on the platform
  job,      \* the job row
  saved,    \* the newest checkpoint saved in a run, or None
  att,      \* the attempt in progress
  rows,     \* findings saved for the run of the attempt
  replies,  \* the replies shown: how many for each group
  spent     \* per head, how often memory, review and reply models were run

worker == <<mode, head, job, saved, att, rows, replies, spent>>
vars == <<publication, worker>>

Heads == 0 .. MaxHead
Checkpoint ==
  [head : Heads, plan : Plans, memory : BOOLEAN, result : Result \cup {None},
   published : BOOLEAN, chatter : BOOLEAN, keys : SUBSET Replies]

ASSUME NoneAssumption == None \notin Result /\ None \notin Checkpoint

Idle == [pc |-> "idle", ck |-> None, plan |-> None, result |-> NoResult, seen |-> Nothing,
         left |-> {}, reply |-> None]
AttemptSteps == {"idle", "load", "route", "memory", "save memory", "hydrate", "review",
                 "rows", "publish", "record", "chatter", "post", "key", "finish", "cancel"}
ManualPlan == [memory |-> FALSE, review |-> TRUE, replies |-> {}]

TypeOK ==
  /\ PublicationTypeOK
  /\ mode \in Modes /\ head \in Heads
  /\ job.status \in {"queued", "in_progress", "completed", "failed", "cancelled"}
  /\ job.retryCount \in 0 .. MaxRetries + 1 /\ job.head \in Heads
  /\ saved \in Checkpoint \cup {None} /\ att.ck \in Checkpoint \cup {None}
  /\ att.pc \in AttemptSteps /\ att.plan \in Plans \cup {ManualPlan, None}
  /\ att.result \in Result /\ rows \subseteq Findings
  /\ att.left \subseteq Replies /\ att.reply \in Replies \cup {None}
  /\ replies \in [Replies -> Nat]

Init ==
  /\ PublicationInit /\ host \in Hosts
  /\ mode \in Modes
  /\ head = 0
  /\ job = [status |-> "queued", retryCount |-> 0, head |-> 0]
  /\ saved = None /\ att = Idle /\ rows = {}
  /\ replies = [r \in Replies |-> 0]
  /\ spent = [h \in Heads |-> [memory |-> 0, review |-> 0, chatter |-> 0]]

\* Mutant of Partly: replies that are published do not count.
PartlyReviewed(ck) == ck.published
Partly(ck) == ck.published \/ ck.keys # {}
AttemptAt(pc) == att.pc = pc
Step(pc) == att' = [att EXCEPT !.pc = pc]
Spend(kind) == spent' = [spent EXCEPT ![job.head][kind] = @ + 1]

\* The checkpoint is changed in memory and then saved in the run.
SaveCheckpoint(ck) == saved' = IF ck = None THEN saved ELSE ck

\* Before something is published: the head a batch was routed for is current.
HeadCurrent == mode = "batch" => head = job.head

-----------------------------------------------------------------------------
MoveHead ==
  /\ head < MaxHead
  /\ head' = head + 1
  /\ UNCHANGED <<publication, mode, job, saved, att, rows, replies, spent>>

Claim ==
  /\ job.status = "queued"
  /\ job' = [job EXCEPT !.status = "in_progress"]
  /\ Step("load")
  /\ rows' = {}
  /\ UNCHANGED <<publication, mode, head, saved, replies, spent>>

\* Mutant of Load: every attempt starts over.
LoadNothing ==
  /\ AttemptAt("load")
  /\ att' = [att EXCEPT !.pc = "route"]
  /\ job' = [job EXCEPT !.head = IF mode = "batch" THEN head ELSE @]
  /\ UNCHANGED <<publication, mode, head, saved, rows, replies, spent>>

\* A checkpoint of another head is dropped, or ends the job if something of
\* it has been published.
Load ==
  /\ AttemptAt("load")
  /\ IF mode # "batch"
     THEN Step("route") /\ UNCHANGED job
     ELSE IF saved # None /\ saved.head # head /\ Partly(saved)
          THEN Step("cancel") /\ UNCHANGED job
          ELSE /\ att' = [att EXCEPT !.pc = "route",
                   !.ck = IF saved = None \/ saved.head = head THEN saved ELSE None]
               /\ job' = [job EXCEPT !.head = head]
  /\ UNCHANGED <<publication, mode, head, saved, rows, replies, spent>>

\* The statuses of mappings are synced, requests are routed by the model.
Route ==
  /\ AttemptAt("route")
  /\ db' = Synced
  /\ \E plan \in IF mode = "manual" THEN {ManualPlan}
                 ELSE IF att.ck # None THEN {att.ck.plan} ELSE Plans :
       LET ck == IF mode # "batch" THEN None
                 ELSE IF att.ck # None THEN att.ck
                 ELSE [head |-> job.head, plan |-> plan, memory |-> FALSE, result |-> None,
                       published |-> FALSE, chatter |-> FALSE, keys |-> {}]
       IN  /\ att' = [att EXCEPT !.pc = "memory", !.plan = plan, !.ck = ck]
           /\ SaveCheckpoint(ck)
  /\ UNCHANGED <<host, page, pub, mode, head, job, rows, replies, spent>>

Memory ==
  /\ AttemptAt("memory")
  /\ IF att.plan.memory /\ ~(att.ck # None /\ att.ck.memory)
     THEN Spend("memory") /\ Step("save memory")
     ELSE Step("hydrate") /\ UNCHANGED spent
  /\ UNCHANGED <<publication, mode, head, job, saved, rows, replies>>

SaveMemory ==
  /\ AttemptAt("save memory")
  /\ LET ck == IF att.ck = None THEN None ELSE [att.ck EXCEPT !.memory = TRUE]
     IN  SaveCheckpoint(ck) /\ att' = [att EXCEPT !.pc = "hydrate", !.ck = ck]
  /\ UNCHANGED <<publication, mode, head, job, rows, replies, spent>>

Hydrate ==
  /\ AttemptAt("hydrate")
  /\ IF att.plan.review
     THEN /\ db' = Synced
          /\ att' = [att EXCEPT !.pc = "review", !.seen = Context]
     ELSE Step("chatter") /\ UNCHANGED db
  /\ UNCHANGED <<host, page, pub, mode, head, job, saved, rows, replies, spent>>

Review ==
  /\ AttemptAt("review")
  /\ LET known == att.ck # None /\ att.ck.result # None
     IN  /\ IF known THEN UNCHANGED spent ELSE Spend("review")
         /\ \E result \in IF known THEN {att.ck.result} ELSE Results :
              LET ck == IF att.ck = None THEN None ELSE [att.ck EXCEPT !.result = result]
              IN  /\ att' = [att EXCEPT !.pc = "rows", !.ck = ck, !.result = result]
                  /\ SaveCheckpoint(ck)
  /\ UNCHANGED <<publication, mode, head, job, rows, replies>>

\* The findings of the run are replaced by those of the result.
ReplaceFindings ==
  /\ AttemptAt("rows")
  /\ rows' = att.result.findings
  /\ Step("publish")
  /\ UNCHANGED <<publication, mode, head, job, saved, replies, spent>>

Publish ==
  /\ AttemptAt("publish")
  /\ IF att.ck # None /\ att.ck.published
     THEN Step("chatter") /\ UNCHANGED pub
     ELSE HeadCurrent /\ StartPublication(att.result, att.seen) /\ Step("record")
  /\ UNCHANGED <<host, page, db, mode, head, job, saved, rows, replies, spent>>

ReconcileStep ==
  /\ AttemptAt("record")
  /\ Reconcile
  /\ UNCHANGED worker

RecordPublished ==
  /\ AttemptAt("record") /\ At("done")
  /\ LET ck == IF att.ck = None THEN None ELSE [att.ck EXCEPT !.published = TRUE]
     IN  SaveCheckpoint(ck) /\ att' = [att EXCEPT !.pc = "chatter", !.ck = ck]
  /\ pub' = IdlePub
  /\ UNCHANGED <<host, page, db, mode, head, job, rows, replies, spent>>

Chatter ==
  /\ AttemptAt("chatter")
  /\ IF att.plan.replies = {}
     THEN Step("finish") /\ UNCHANGED <<saved, spent>>
     ELSE /\ HeadCurrent
          /\ IF att.ck # None /\ att.ck.chatter THEN UNCHANGED spent ELSE Spend("chatter")
          /\ LET ck == IF att.ck = None THEN None ELSE [att.ck EXCEPT !.chatter = TRUE]
             IN  /\ SaveCheckpoint(ck)
                 /\ att' = [att EXCEPT !.pc = "post", !.ck = ck,
                      !.left = att.plan.replies \ (IF ck = None THEN {} ELSE ck.keys)]
  /\ UNCHANGED <<publication, mode, head, job, rows, replies>>

\* The replies of a batch carry a marker: one that is already shown is not
\* posted again.
AlreadyShown(r) == mode = "batch" /\ replies[r] > 0

PostReply ==
  /\ AttemptAt("post") /\ HeadCurrent
  /\ \E r \in att.left :
       /\ replies' = [replies EXCEPT ![r] = IF AlreadyShown(r) THEN @ ELSE @ + 1]
       /\ att' = [att EXCEPT !.pc = "key", !.left = @ \ {r}, !.reply = r]
  /\ UNCHANGED <<publication, mode, head, job, saved, rows, spent>>

SaveReplyKey ==
  /\ AttemptAt("key")
  /\ LET ck == IF att.ck = None THEN None ELSE [att.ck EXCEPT !.keys = @ \cup {att.reply}]
     IN  SaveCheckpoint(ck) /\ att' = [att EXCEPT !.pc = "post", !.ck = ck, !.reply = None]
  /\ UNCHANGED <<publication, mode, head, job, rows, replies, spent>>

RepliesDone ==
  /\ AttemptAt("post") /\ att.left = {}
  /\ Step("finish")
  /\ UNCHANGED <<publication, mode, head, job, saved, rows, replies, spent>>

Ends(status, retries) ==
  /\ job' = [job EXCEPT !.status = status, !.retryCount = retries]
  /\ att' = Idle /\ pub' = IdlePub

Complete ==
  /\ AttemptAt("finish")
  /\ Ends("completed", job.retryCount)
  /\ UNCHANGED <<host, page, db, mode, head, saved, rows, replies, spent>>

Abandon ==
  /\ AttemptAt("cancel")
  /\ Ends("cancelled", job.retryCount + 1)
  /\ UNCHANGED <<host, page, db, mode, head, saved, rows, replies, spent>>

\* Mutant: retries are not counted.
RetriedForever == Ends(IF job.retryCount < MaxRetries THEN "queued" ELSE "failed", job.retryCount)
Retried == Ends(IF job.retryCount < MaxRetries THEN "queued" ELSE "failed", job.retryCount + 1)

\* Any other error: the run keeps its findings only if they are published,
\* the job is queued again while it has retries.
Failed ==
  /\ Retried
  /\ rows' = IF att.ck # None /\ att.ck.published THEN rows ELSE {}
  /\ UNCHANGED <<host, page, db, mode, head, saved, replies, spent>>

\* Any call may fail.  Drafts are cleaned up first (DraftError).
Fail ==
  /\ att.pc \notin {"idle", "cancel"} /\ pub.pc \notin {"drafts", "bulk", "match"}
  /\ Failed

\* The worker itself gives up: the head moved before a publication, or the
\* reconciliation threw.
MayPublish ==
  \/ AttemptAt("publish") /\ ~(att.ck # None /\ att.ck.published)
  \/ AttemptAt("chatter") /\ att.plan.replies # {}
  \/ AttemptAt("post") /\ att.left # {}

Refuse ==
  /\ At("throw") \/ (MayPublish /\ ~HeadCurrent)
  /\ Failed

\* The process dies, or the lease is lost; the job is recovered.
Die ==
  /\ att.pc # "idle"
  /\ Retried
  /\ UNCHANGED <<host, page, db, mode, head, saved, rows, replies, spent>>

Work ==
  \/ Claim \/ Load \/ Route \/ Memory \/ SaveMemory \/ Hydrate \/ Review \/ ReplaceFindings
  \/ Publish \/ ReconcileStep \/ RecordPublished \/ Chatter \/ PostReply \/ SaveReplyKey
  \/ RepliesDone \/ Complete \/ Abandon \/ Refuse

Next == Work \/ Fail \/ Die \/ MoveHead

\* A runner claims what is queued and an attempt goes on; nothing has to fail.
Spec == Init /\ [][Next]_vars /\ WF_vars(Work)

-----------------------------------------------------------------------------
\* Whatever fails and however often it is tried, a comment that the code
\* finds again is there once: GitHub's findings, the summary, the notice, and
\* the replies of a batch.
PublishedOnce ==
  /\ host = "github" => \A f \in Findings : page.posted[f] <= 1
  /\ page.summaries <= 1 /\ page.notices <= 1
  /\ mode = "batch" => \A r \in Replies : replies[r] <= 1

\* A completed batch that was reviewed; its checkpoint has the result.
Reviewed == saved # None /\ job.status = "completed" /\ saved.plan.review

\* A completed batch has published all of its result: each finding is shown,
\* mapped and saved, the prior discussion was treated, each reply is there.
\* New words for the prior finding are recorded; they are shown as well if
\* the code review was pushed to at most once meanwhile.  With two pushes an
\* attempt may edit the comment and die before it records that, and the next
\* one takes the recorded fingerprint for what the comment shows.
CompletedIsPublished ==
  /\ Reviewed =>
       /\ rows = saved.result.findings
       /\ \A f \in rows : page.posted[f] > 0 /\ f \in db.mapped
       /\ page.summaries > 0
       /\ saved.result.prior = "changed" =>
            /\ db.finger = "new"
            /\ job.head < 2 => page.text = "new" \/ page.answers > 0
       /\ saved.result.prior \in {"answer", "reply"} => page.answers > 0
       /\ saved.result.prior = "resolve" =>
            /\ db.finding = "resolved"
            /\ page.resolved \/ page.notices > 0
       /\ saved.result.prior \in {"same", "changed", "answer"} =>
            db.finding = "open" /\ (page.resolved => ~page.closable)
  /\ (mode = "batch" /\ job.status = "completed") =>
       \A r \in saved.plan.replies : replies[r] > 0

\* When a job is completed the storage agrees with the platform on whether
\* the prior discussion is open, although an attempt may have died between
\* changing it and saving that.
MappingFollowsDiscussion ==
  job.status = "completed" => db.status = StatusOf(page.resolved)

\* Once part of a batch is recorded as published its head, plan and result
\* are final, its progress is never forgotten, and it is not completed for
\* another head.
PartialPublicationIsFinal ==
  [][saved # None /\ (saved.published \/ saved.keys # {}) =>
       /\ saved'.head = saved.head /\ saved'.plan = saved.plan
       /\ saved'.result = saved.result \/ saved.result = None
       /\ saved.published => saved'.published
       /\ saved.keys \subseteq saved'.keys
       /\ job'.status = "completed" => job'.head = saved.head]_vars

\* Work that a checkpoint records is never done again for its head: the
\* checkpoint does not lose it and no model is asked for it.
SavedWorkIsNotRedone ==
  [][saved # None /\ saved'.head = saved.head =>
       LET old == spent[saved.head]  new == spent'[saved.head]
       IN  /\ saved.memory => (saved'.memory /\ new.memory = old.memory)
           /\ saved.result # None => (saved'.result = saved.result /\ new.review = old.review)
           /\ saved.chatter => (saved'.chatter /\ new.chatter = old.chatter)]_vars

\* The job comes to an end.
JobSettles == <>[](job.status \in {"completed", "failed", "cancelled"})

\* Retries do not repeat what they have published (the review-flow page).
NothingTwice == (\A f \in Findings : page.posted[f] <= 1) /\ page.answers <= 1

=============================================================================
