--------------------------- MODULE PipelineProofs ---------------------------
(***************************************************************************)
(* What the pipeline of one job promises, for all findings, plans, results *)
(* and numbers of retries and pushes.  The inductive invariant says, step  *)
(* by step of an attempt, what is already true of the platform, of the     *)
(* mappings and of the checkpoint; an attempt may end after each of them.  *)
(***************************************************************************)
EXTENDS ReviewPipeline, TLAPS

-----------------------------------------------------------------------------
(* The types, field by field.                                              *)

SeenType == [posted : [Findings -> Nat], resolved : BOOLEAN, summaries : Nat]
PubType == [pc : Steps, result : Result, todo : SUBSET Findings, seen : SeenType]
JobType == [status : {"queued", "in_progress", "completed", "failed", "cancelled"},
            retryCount : 0 .. MaxRetries + 1, head : Heads]
AttemptType ==
  [pc : AttemptSteps, ck : Checkpoint \cup {None}, plan : Plans \cup {ManualPlan, None},
   result : Result, seen : SeenType, left : SUBSET Replies, reply : Replies \cup {None}]
SpentType == [memory : Nat, review : Nat, chatter : Nat]

PublicationTypes ==
  host \in {"github", "gitlab"} /\ page \in Page /\ db \in Db /\ pub \in PubType

WorkerTypes ==
  /\ mode \in Modes /\ head \in Heads /\ job \in JobType
  /\ saved \in Checkpoint \cup {None} /\ att \in AttemptType /\ rows \in SUBSET Findings
  /\ replies \in [Replies -> Nat] /\ spent \in [Heads -> SpentType]

-----------------------------------------------------------------------------
(* What holds while a reconciliation is on its way, whoever drives it.     *)

\* Inline findings on GitHub appear with the review, the others one by one;
\* the summary is not touched before its own step.
Once ==
  /\ host = "github" => \A f \in Findings : page.posted[f] <= 1
  /\ host = "github" /\ page.review # "submitted" => \A f \in Inline : page.posted[f] = 0
  /\ page.summaries <= 1 /\ page.notices <= 1
  /\ pub.pc \in {"review", "submit", "issues"} => host = "github" /\ pub.todo \subseteq Issue
  /\ pub.pc = "submit" => page.review = "pending"
  /\ pub.pc \in {"drafts", "bulk", "match"} => host = "gitlab"
  /\ pub.pc \notin {"idle", "done"} => pub.seen.summaries = page.summaries

Names(r) == r.prior \in {"same", "changed", "answer"}

\* A finding that named the prior discussion is open again, as far as the
\* platform permits.
Reopened(r) ==
  /\ db.finding = "open" /\ (page.resolved => ~page.closable)
  /\ r.prior = "answer" => page.answers > 0
  /\ r.prior = "changed" => db.finger = "new"

Publishing == {"findings", "review", "submit", "issues", "wait", "drafts", "bulk", "match",
               "persist", "prior"}
Ending == {"closed", "notice", "replied", "summary", "done"}

Discussed ==
  /\ pub.pc \notin {"idle", "answer", "answered", "closed"} =>
       db.status = StatusOf(page.resolved)
  /\ pub.pc = "existing" => (page.resolved <=> pub.seen.resolved)
  /\ pub.pc \in {"answer", "answered"} =>
       Names(pub.result) /\ (page.resolved <=> pub.seen.resolved /\ ~page.closable)
  /\ pub.pc = "answered" => page.answers > 0
  /\ pub.pc = "updated" =>
       /\ pub.result.prior \in {"same", "changed"}
       /\ ~page.resolved /\ page.text = FingerOf(pub.result.prior)
  /\ pub.pc \in Publishing =>
       IF Names(pub.result) THEN Reopened(pub.result)
       ELSE page.resolved <=> pub.seen.resolved
  /\ pub.pc = "closed" =>
       pub.result.prior = "resolve" /\ (page.resolved <=> pub.seen.resolved \/ page.closable)
  /\ pub.pc = "notice" => pub.result.prior = "resolve" /\ db.finding = "resolved"
  /\ pub.pc = "replied" =>
       /\ pub.result.prior = "reply" /\ page.answers > 0
       /\ page.resolved <=> pub.seen.resolved
  /\ pub.pc \in {"summary", "done"} =>
       /\ Names(pub.result) => Reopened(pub.result)
       /\ pub.result.prior = "reply" => page.answers > 0
       /\ pub.result.prior = "resolve" =>
            db.finding = "resolved" /\ (page.resolved \/ page.notices > 0)

\* Findings are mapped one by one, after all of them are shown.
Shown ==
  /\ pub.pc \in {"persist"} \cup {"prior"} \cup Ending =>
       \A f \in pub.result.findings : page.posted[f] > 0
  /\ pub.pc = "persist" => pub.result.findings \ pub.todo \subseteq db.mapped
  /\ pub.pc \in {"prior"} \cup Ending => pub.result.findings \subseteq db.mapped
  /\ pub.pc = "done" => page.summaries > 0

PublicationInv == PublicationTypes /\ Once /\ Discussed /\ Shown

\* All that a published result asks for.
Treated(r) ==
  /\ \A f \in r.findings : page.posted[f] > 0 /\ f \in db.mapped
  /\ page.summaries > 0
  /\ Names(r) => Reopened(r)
  /\ r.prior = "reply" => page.answers > 0
  /\ r.prior = "resolve" => db.finding = "resolved" /\ (page.resolved \/ page.notices > 0)

-----------------------------------------------------------------------------
(* What holds between the steps of an attempt and between attempts.        *)

Turn ==
  /\ att.pc = "idle" <=> job.status # "in_progress"
  /\ pub.pc = "idle" <=> att.pc # "record"
  /\ job.status \in {"queued", "in_progress"} => job.retryCount <= MaxRetries
  /\ job.head <= head

Routed == {"memory", "save memory", "hydrate", "review", "rows", "publish", "record",
           "chatter", "post", "key", "finish"}
Replying == {"chatter", "post", "key", "finish"}

\* An attempt at a batch works on the checkpoint that is saved; only a
\* checkpoint of another head of which nothing is published is replaced.
Resumed ==
  /\ mode # "batch" => saved = None /\ att.ck = None
  /\ att.pc \in Routed => att.plan \in Plans \cup {ManualPlan}
  /\ mode = "batch" /\ att.pc \in Routed =>
       saved # None /\ att.ck = saved /\ saved.head = job.head /\ att.plan = saved.plan
  /\ mode = "batch" /\ att.pc = "route" =>
       \/ saved # None /\ att.ck = saved /\ saved.head = job.head
       \/ att.ck = None /\ (saved # None => saved.head # job.head /\ ~Partly(saved))
  /\ mode = "batch" /\ job.status = "completed" => saved # None /\ saved.head = job.head

\* The context of a review is as the platform is until the reconciliation.
Current ==
  att.pc \in {"review", "rows", "publish"} =>
    /\ att.seen.resolved <=> page.resolved
    /\ att.seen.summaries = page.summaries

Agreed ==
  (att.pc \in Routed \ {"record"} \/ job.status = "completed") =>
    db.status = StatusOf(page.resolved)

\* The result that is published is the one of the checkpoint, it is
\* published once, and its findings are the rows of the run.
OneResult ==
  mode = "batch" =>
    /\ att.pc \in {"rows", "publish", "record"} =>
         saved.result # None /\ att.result = saved.result
    /\ att.pc = "record" => pub.result = saved.result /\ ~saved.published
    /\ att.pc \in {"publish", "record"} => rows = saved.result.findings
    /\ (att.pc \in Replying \/ job.status = "completed") /\ saved.plan.review =>
         saved.published /\ rows = saved.result.findings

PublishedIsTreated ==
  saved # None /\ saved.published =>
    saved.result # None /\ Treated(saved.result) /\ db.status = StatusOf(page.resolved)

Replied ==
  /\ mode = "batch" => \A r \in Replies : replies[r] <= 1
  /\ saved # None => \A r \in saved.keys : replies[r] > 0
  /\ att.pc = "key" => att.reply \in Replies /\ replies[att.reply] > 0
  /\ mode = "batch" /\ att.pc \in {"post", "key"} =>
       \A r \in saved.plan.replies \ att.left : replies[r] > 0
  /\ mode = "batch" /\ (att.pc = "finish" \/ job.status = "completed") =>
       \A r \in saved.plan.replies : replies[r] > 0

\* The recorded fingerprint and the words of the comment: before the first
\* push only a result that changes the words records new ones, and before
\* the second push only a result that keeps them can put the old ones back.
NewWordsShown == page.text = "new" \/ page.answers > 0
SavedPrior == IF saved # None /\ saved.result # None THEN saved.result.prior ELSE "none"
Worded ==
  mode = "batch" /\ db.finger = "new" =>
    /\ job.head = 0 => NewWordsShown /\ saved.head = 0 /\ SavedPrior \in {"changed", "answer"}
    /\ job.head = 1 => NewWordsShown \/ (saved.head = 1 /\ SavedPrior = "same")

PipelineInv ==
  /\ PublicationInv /\ WorkerTypes
  /\ Turn /\ Resumed /\ Current /\ Agreed /\ OneResult /\ PublishedIsTreated /\ Replied
  /\ Worded

-----------------------------------------------------------------------------
(* The steps of a reconciliation.                                          *)

\* Drafts that show are taken for published, or some are deleted.
LEMMA DraftErrorCases ==
  ASSUME PublicationTypes, DraftError
  PROVE  /\ host' = host /\ db' = db /\ pub.pc \in {"drafts", "bulk", "match"}
         /\ \/ /\ Matched(pub.result.findings) /\ page' = page
               /\ pub' = [pub EXCEPT !.pc = "persist", !.todo = pub.result.findings]
            \/ /\ \E drafts \in [Findings -> Nat] : page' = [page EXCEPT !.drafts = drafts]
               /\ pub' = [pub EXCEPT !.pc = "throw"]
<1> DEFINE drafted == IF pub.pc = "drafts" THEN pub.result.findings \ pub.todo
                      ELSE pub.result.findings
           deletes(fs) == [page EXCEPT !.drafts = [f \in Findings |->
                            IF f \in fs /\ @[f] > 0 THEN @[f] - 1 ELSE @[f]]]
<1>1. host' = host /\ db' = db /\ pub.pc \in {"drafts", "bulk", "match"}
  BY DEF DraftError
<1>2. \/ /\ drafted = pub.result.findings /\ Matched(drafted) /\ page' = page
         /\ pub' = [pub EXCEPT !.pc = "persist", !.todo = drafted]
      \/ /\ \E fs \in SUBSET drafted : page' = deletes(fs)
         /\ pub' = [pub EXCEPT !.pc = "throw"]
  BY DEF DraftError, At, Move
<1>3. ASSUME NEW fs
      PROVE  \E drafts \in [Findings -> Nat] : deletes(fs) = [page EXCEPT !.drafts = drafts]
  <2> DEFINE drafts == [f \in Findings |-> IF f \in fs /\ page.drafts[f] > 0
                                          THEN page.drafts[f] - 1 ELSE page.drafts[f]]
  <2>1. drafts \in [Findings -> Nat]
    BY DEF PublicationTypes, Page
  <2>2. deletes(fs) = [page EXCEPT !.drafts = drafts]
    OBVIOUS
  <2> QED
    BY <2>1, <2>2
<1> HIDE DEF deletes, drafted
<1>4. CASE drafted = pub.result.findings /\ Matched(drafted) /\ page' = page
           /\ pub' = [pub EXCEPT !.pc = "persist", !.todo = drafted]
  BY <1>1, <1>4
<1>5. CASE (\E fs \in SUBSET drafted : page' = deletes(fs)) /\ pub' = [pub EXCEPT !.pc = "throw"]
  <2>1. \E drafts \in [Findings -> Nat] : page' = [page EXCEPT !.drafts = drafts]
    BY <1>3, <1>5
  <2> QED
    BY <1>1, <1>5, <2>1
<1> QED
  BY <1>2, <1>4, <1>5

\* The context and the result stay; nothing that is shown or mapped goes.
LEMMA ReconcileKeeps ==
  ASSUME PublicationTypes, Reconcile
  PROVE  /\ host' = host /\ pub'.result = pub.result /\ pub'.seen = pub.seen
         /\ pub.pc # "idle" /\ pub'.pc # "idle"
         /\ PublicationTypes'
<1> USE DEF PublicationTypes, PubType, Page, Db, Steps, SeenType, Result, At, Move
<1>1. CASE NoExisting
  BY <1>1 DEF NoExisting
<1>2. CASE Keep
  BY <1>2 DEF Keep, PersistExisting, FingerOf
<1>3. CASE Reopen
  <2>1. page' = page \/ page' = [page EXCEPT !.resolved = IF page.closable THEN FALSE ELSE @]
    BY <1>3 DEF Reopen, SetResolved
  <2>2. page' \in Page
    BY <2>1
  <2> QED
    BY <1>3, <2>2 DEF Reopen
<1>4. CASE Answer
  BY <1>4 DEF Answer, ReplyInDiscussion
<1>5. CASE PersistAnswer
  BY <1>5 DEF PersistAnswer, PersistExisting, FingerOf, StatusOf
<1>6. CASE Update
  BY <1>6 DEF Update, EditComment, FingerOf
<1>7. CASE PersistUpdate
  BY <1>7 DEF PersistUpdate, PersistExisting, FingerOf
<1>8. CASE NoFindings
  BY <1>8 DEF NoFindings
<1>9. CASE FindPublished
  BY <1>9 DEF FindPublished
<1>10. CASE ReuseReview
  BY <1>10 DEF ReuseReview
<1>11. CASE DeleteStrayReview
  BY <1>11 DEF DeleteStrayReview
<1>12. CASE CreateReview
  BY <1>12 DEF CreateReview
<1>13. CASE SubmitReview
  <2> DEFINE posted == [f \in Findings |-> IF f \in page.comments THEN page.posted[f] + 1
                                          ELSE page.posted[f]]
  <2>1. posted \in [Findings -> Nat]
    OBVIOUS
  <2>2. page' = [page EXCEPT !.review = "submitted", !.posted = posted]
    BY <1>13 DEF SubmitReview
  <2> HIDE DEF posted
  <2>3. page' \in Page
    BY <2>1, <2>2
  <2> QED
    BY <1>13, <2>3 DEF SubmitReview
<1>14. CASE CreateIssueFinding
  BY <1>14 DEF CreateIssueFinding
<1>15. CASE IssuesDone
  BY <1>15 DEF IssuesDone
<1>16. CASE AwaitPublished
  BY <1>16 DEF AwaitPublished
<1>17. CASE StartDrafts
  BY <1>17 DEF StartDrafts
<1>18. CASE CreateDraft
  <2>1. PICK f \in pub.todo :
          /\ page' = [page EXCEPT !.drafts[f] = @ + 1]
          /\ pub' = [pub EXCEPT !.todo = @ \ {f}, !.pc = IF pub.todo = {f} THEN "bulk" ELSE @]
    BY <1>18 DEF CreateDraft
  <2>2. page' \in Page
    BY <2>1
  <2>3. pub' \in PubType /\ pub'.result = pub.result /\ pub'.seen = pub.seen /\ pub'.pc # "idle"
    BY <1>18, <2>1 DEF CreateDraft
  <2> QED
    BY <1>18, <2>2, <2>3 DEF CreateDraft
<1>19. CASE BulkPublish
  <2> DEFINE posted == [f \in Findings |-> page.posted[f] + page.drafts[f]]
             none == [f \in Findings |-> 0]
  <2>1. posted \in [Findings -> Nat] /\ none \in [Findings -> Nat]
    OBVIOUS
  <2>2. page' = [page EXCEPT !.posted = posted, !.drafts = none]
    BY <1>19 DEF BulkPublish
  <2> HIDE DEF posted, none
  <2>3. page' \in Page
    BY <2>1, <2>2
  <2> QED
    BY <1>19, <2>3 DEF BulkPublish
<1>20. CASE MatchDrafts
  BY <1>20 DEF MatchDrafts
<1>21. CASE DraftError
  <2>1. CASE page' = page /\ pub' = [pub EXCEPT !.pc = "persist", !.todo = pub.result.findings]
    BY <1>21, <2>1 DEF DraftError
  <2>2. ASSUME NEW drafts \in [Findings -> Nat], page' = [page EXCEPT !.drafts = drafts],
               pub' = [pub EXCEPT !.pc = "throw"]
        PROVE  page' \in Page /\ pub' \in PubType /\ pub'.pc # "idle"
               /\ pub'.result = pub.result /\ pub'.seen = pub.seen
    BY <2>2
  <2> QED
    BY <1>21, <2>1, <2>2, DraftErrorCases DEF DraftError
<1>22. CASE PersistFinding
  <2>1. PICK f \in pub.todo :
          /\ db' = [db EXCEPT !.mapped = @ \cup {f}]
          /\ pub' = [pub EXCEPT !.todo = @ \ {f}, !.pc = IF pub.todo = {f} THEN "prior" ELSE @]
    BY <1>22 DEF PersistFinding
  <2>2. db' \in Db
    BY <2>1
  <2>3. pub' \in PubType /\ pub'.result = pub.result /\ pub'.seen = pub.seen /\ pub'.pc # "idle"
    BY <1>22, <2>1 DEF PersistFinding
  <2> QED
    BY <1>22, <2>2, <2>3 DEF PersistFinding
<1>23. CASE NoDisposition
  BY <1>23 DEF NoDisposition
<1>24. CASE Close
  <2>1. page' = page \/ page' = [page EXCEPT !.resolved = IF page.closable THEN TRUE ELSE @]
    BY <1>24 DEF Close, SetResolved
  <2>2. page' \in Page
    BY <2>1
  <2> QED
    BY <1>24, <2>2 DEF Close
<1>25. CASE PersistClosed
  BY <1>25 DEF PersistClosed, StatusOf
<1>26. CASE Notify
  BY <1>26 DEF Notify
<1>27. CASE Reply
  BY <1>27 DEF Reply, ReplyInDiscussion
<1>28. CASE PersistReply
  BY <1>28 DEF PersistReply, StatusOf
<1>29. CASE UpsertSummary
  BY <1>29 DEF UpsertSummary
<1> QED
  BY <1>1, <1>2, <1>3, <1>4, <1>5, <1>6, <1>7, <1>8, <1>9, <1>10, <1>11, <1>12, <1>13, <1>14,
     <1>15, <1>16, <1>17, <1>18, <1>19, <1>20, <1>21, <1>22, <1>23, <1>24, <1>25, <1>26, <1>27,
     <1>28, <1>29 DEF Reconcile

\* Each of them keeps the platform free of duplicates.
LEMMA ReconcileOnce ==
  ASSUME PublicationTypes, Once, Reconcile
  PROVE  Once'
<1> USE ReconcileKeeps, FindingsAssumption
    DEF PublicationTypes, PubType, Page, SeenType, Result, Once, At, Move, Findings
<1>1. CASE NoExisting \/ Keep \/ PersistAnswer \/ PersistUpdate
  BY <1>1 DEF NoExisting, Keep, PersistAnswer, PersistUpdate
<1>2. CASE NoFindings \/ ReuseReview \/ IssuesDone
  BY <1>2 DEF NoFindings, ReuseReview, IssuesDone
<1>15. CASE AwaitPublished \/ StartDrafts \/ MatchDrafts
  BY <1>15 DEF AwaitPublished, StartDrafts, MatchDrafts
<1>16. CASE FindPublished
  BY <1>16 DEF FindPublished
<1>3. CASE NoDisposition \/ PersistClosed \/ PersistReply
  BY <1>3 DEF NoDisposition, PersistClosed, PersistReply
<1>4. CASE Reopen \/ Close
  <2>1. /\ page'.review = page.review /\ page'.posted = page.posted
        /\ page'.summaries = page.summaries /\ page'.notices = page.notices
    <3>1. \/ page' = page
          \/ page' = [page EXCEPT !.resolved = IF page.closable THEN FALSE ELSE @]
          \/ page' = [page EXCEPT !.resolved = IF page.closable THEN TRUE ELSE @]
      BY <1>4 DEF Reopen, Close, SetResolved
    <3> QED
      BY <3>1
  <2>2. pub' = [pub EXCEPT !.pc = pub'.pc] /\ pub'.pc \in {"answer", "closed"} /\ pub.pc \in {"existing", "prior"}
    BY <1>4 DEF Reopen, Close
  <2> QED
    BY <2>1, <2>2
<1>5. CASE Answer \/ Update \/ Reply
  BY <1>5 DEF Answer, Update, Reply, ReplyInDiscussion, EditComment
<1>6. CASE DeleteStrayReview \/ CreateReview
  BY <1>6 DEF DeleteStrayReview, CreateReview
<1>7. CASE SubmitReview
  <2>1. host = "github" /\ page.comments \subseteq Inline
        /\ \A f \in Inline : page.posted[f] = 0
    BY <1>7 DEF SubmitReview
  <2>2. /\ page'.review = "submitted" /\ page'.summaries = page.summaries
        /\ page'.notices = page.notices
        /\ \A f \in Findings : page'.posted[f] = IF f \in page.comments THEN page.posted[f] + 1
                                              ELSE page.posted[f]
    BY <1>7 DEF SubmitReview
  <2>3. \A f \in Findings : page'.posted[f] <= 1
    BY <2>1, <2>2
  <2> QED
    BY <1>7, <2>2, <2>3 DEF SubmitReview
<1>8. CASE CreateIssueFinding
  BY <1>8 DEF CreateIssueFinding
<1>9. CASE CreateDraft
  BY <1>9 DEF CreateDraft
<1>10. CASE BulkPublish
  BY <1>10 DEF BulkPublish
<1>11. CASE DraftError
  BY <1>11, DraftErrorCases
<1>12. CASE PersistFinding
  BY <1>12 DEF PersistFinding
<1>13. CASE Notify
  BY <1>13 DEF Notify
<1>14. CASE UpsertSummary
  BY <1>14 DEF UpsertSummary, HasSummaryNow, HadSummary
<1> QED
  BY <1>1, <1>2, <1>3, <1>4, <1>5, <1>6, <1>7, <1>8, <1>9, <1>10, <1>11, <1>12, <1>13, <1>14,
     <1>15, <1>16 DEF Reconcile

\* Each of them keeps what is known of the prior discussion.
LEMMA ReconcileDiscussed ==
  ASSUME PublicationTypes, Discussed, Reconcile
  PROVE  Discussed'
<1> USE ReconcileKeeps
    DEF PublicationTypes, PubType, Page, Db, SeenType, Result, Discussed, Names, Reopened,
        Publishing, At, Move, Priors, StatusOf
<1>1. CASE NoExisting
  BY <1>1 DEF NoExisting
<1>2. CASE Keep
  BY <1>2 DEF Keep, KeptAsIs, ShouldReply, PersistExisting, FingerOf
<1>3. CASE Reopen
  BY <1>3 DEF Reopen, SetResolved, ShouldReply
<1>4. CASE Answer
  BY <1>4 DEF Answer, ReplyInDiscussion
<1>5. CASE PersistAnswer
  BY <1>5 DEF PersistAnswer, PersistExisting, FingerOf
<1>6. CASE Update
  BY <1>6 DEF Update, EditComment, FingerOf, ShouldReply
<1>7. CASE PersistUpdate
  BY <1>7 DEF PersistUpdate, PersistExisting, FingerOf
<1> DEFINE Apart ==
      /\ pub.pc \in Publishing /\ pub'.pc \in Publishing \cup {"throw"} /\ db' = db
      /\ page'.resolved = page.resolved /\ page'.closable = page.closable
      /\ page'.answers = page.answers
<1>0. ASSUME Apart PROVE Discussed'
  BY <1>0
<1>8. CASE NoFindings \/ ReuseReview \/ IssuesDone
  <2>1. Apart
    BY <1>8 DEF NoFindings, ReuseReview, IssuesDone
  <2> QED
    BY <2>1, <1>0
<1>9. CASE FindPublished \/ AwaitPublished \/ StartDrafts \/ MatchDrafts
  <2>1. Apart
    BY <1>9 DEF FindPublished, AwaitPublished, StartDrafts, MatchDrafts
  <2> QED
    BY <2>1, <1>0
<1>10. CASE DeleteStrayReview \/ CreateReview \/ SubmitReview \/ CreateIssueFinding
  <2>1. CASE DeleteStrayReview
    BY <1>0, <2>1 DEF DeleteStrayReview
  <2>4. CASE CreateReview
    BY <1>0, <2>4 DEF CreateReview
  <2>2. CASE SubmitReview
    BY <1>0, <2>2 DEF SubmitReview
  <2>3. CASE CreateIssueFinding
    <3>1. PICK f \in pub.todo :
            /\ page' = [page EXCEPT !.posted[f] = IF @ = 0 THEN 1 ELSE @]
            /\ pub' = [pub EXCEPT !.todo = @ \ {f}]
      BY <2>3 DEF CreateIssueFinding
    <3>2. Apart
      BY <2>3, <3>1 DEF CreateIssueFinding
    <3> QED
      BY <1>0, <3>2
  <2> QED
    BY <1>10, <2>1, <2>2, <2>3, <2>4
<1>11. CASE CreateDraft \/ BulkPublish
  <2>1. Apart
    BY <1>11 DEF CreateDraft, BulkPublish
  <2> QED
    BY <2>1, <1>0
<1>12. CASE DraftError
  <2>1. Apart
    BY <1>12, DraftErrorCases
  <2> QED
    BY <2>1, <1>0
<1>13. CASE PersistFinding
  BY <1>13 DEF PersistFinding
<1>14. CASE NoDisposition
  BY <1>14 DEF NoDisposition
<1>15. CASE Close
  BY <1>15 DEF Close, SetResolved
<1>16. CASE PersistClosed
  BY <1>16 DEF PersistClosed
<1>17. CASE Notify
  BY <1>17 DEF Notify
<1>18. CASE Reply
  BY <1>18 DEF Reply, ReplyInDiscussion
<1>19. CASE PersistReply
  BY <1>19 DEF PersistReply
<1>20. CASE UpsertSummary
  BY <1>20 DEF UpsertSummary
<1> QED
  BY <1>1, <1>2, <1>3, <1>4, <1>5, <1>6, <1>7, <1>8, <1>9, <1>10, <1>11, <1>12, <1>13, <1>14,
     <1>15, <1>16, <1>17, <1>18, <1>19, <1>20 DEF Reconcile

\* Each of them keeps what is shown, and maps nothing that is not.
LEMMA ReconcileShown ==
  ASSUME PublicationTypes, Once, Shown, Reconcile
  PROVE  Shown'
<1> USE ReconcileKeeps
    DEF PublicationTypes, PubType, Page, Db, SeenType, Result, Shown, Ending, At, Move, Visible,
        Matched
<1>1. CASE NoExisting \/ Keep \/ Reopen \/ Answer \/ PersistAnswer \/ Update \/ PersistUpdate
  BY <1>1 DEF NoExisting, Keep, Reopen, Answer, PersistAnswer, Update, PersistUpdate
<1>2. CASE NoFindings \/ ReuseReview \/ IssuesDone
  BY <1>2 DEF NoFindings, ReuseReview, IssuesDone
<1>13. CASE AwaitPublished
  BY <1>13 DEF AwaitPublished
<1>14. CASE FindPublished
  <2>1. CASE Visible
    <3>1. page' = page /\ db' = db /\ pub'.pc = "persist" /\ pub'.todo = pub.result.findings
      BY <1>14, <2>1 DEF FindPublished
    <3> QED
      BY <2>1, <3>1
  <2>2. CASE ~Visible
    BY <1>14, <2>2 DEF FindPublished
  <2> QED
    BY <2>1, <2>2
<1>3. CASE DeleteStrayReview \/ CreateReview \/ SubmitReview \/ CreateIssueFinding
  BY <1>3 DEF DeleteStrayReview, CreateReview, SubmitReview, CreateIssueFinding
<1>4. CASE StartDrafts \/ CreateDraft \/ BulkPublish
  BY <1>4 DEF StartDrafts, CreateDraft, BulkPublish
<1>5. CASE MatchDrafts
  BY <1>5 DEF MatchDrafts
<1>6. CASE DraftError
  <2>1. CASE pub'.pc = "throw"
    BY <2>1
  <2>2. CASE /\ Matched(pub.result.findings) /\ page' = page
             /\ pub' = [pub EXCEPT !.pc = "persist", !.todo = pub.result.findings]
    BY <2>2
  <2> QED
    BY <1>6, <2>1, <2>2, DraftErrorCases
<1>7. CASE PersistFinding
  <2>1. PICK f \in pub.todo :
          /\ db' = [db EXCEPT !.mapped = @ \cup {f}]
          /\ pub' = [pub EXCEPT !.todo = @ \ {f}, !.pc = IF pub.todo = {f} THEN "prior" ELSE @]
    BY <1>7 DEF PersistFinding
  <2>2. page' = page /\ pub.pc = "persist" /\ pub.result.findings \ pub.todo \subseteq db.mapped
        /\ \A g \in pub.result.findings : page.posted[g] > 0
    BY <1>7 DEF PersistFinding
  <2>3. CASE pub.todo = {f}
    BY <2>1, <2>2, <2>3
  <2>4. CASE pub.todo # {f}
    BY <2>1, <2>2, <2>4
  <2> QED
    BY <2>3, <2>4
<1>8. CASE NoDisposition
  BY <1>8 DEF NoDisposition
<1>9. CASE Close \/ Reply
  BY <1>9 DEF Close, SetResolved, Reply, ReplyInDiscussion
<1>10. CASE PersistClosed \/ PersistReply
  BY <1>10 DEF PersistClosed, PersistReply
<1>11. CASE Notify
  BY <1>11 DEF Notify
<1>12. CASE UpsertSummary
  BY <1>12 DEF UpsertSummary, HasSummaryNow, HadSummary, Once
<1> QED
  BY <1>1, <1>2, <1>3, <1>4, <1>5, <1>6, <1>7, <1>8, <1>9, <1>10, <1>11, <1>12,
     <1>13, <1>14 DEF Reconcile

-----------------------------------------------------------------------------
(* The steps of the worker.                                                *)

\* However an attempt stops early, only the job, the attempt and the rows
\* of its run change.
Stopped ==
  /\ att.pc # "idle" /\ att' = Idle /\ pub' = IdlePub
  /\ job' = [job EXCEPT !.status = IF job.retryCount < MaxRetries THEN "queued" ELSE "failed",
                        !.retryCount = job.retryCount + 1]
  /\ rows' = rows \/ rows' = {}
  /\ UNCHANGED <<host, page, db, mode, head, saved, replies, spent>>

LEMMA EarlyEnds ==
  ASSUME Turn, Fail \/ Refuse \/ Die
  PROVE  Stopped
<1>1. att.pc # "idle"
  BY DEF Fail, Refuse, Die, MayPublish, AttemptAt, At, Turn
<1>2. Retried /\ (rows' = rows \/ rows' = {})
      /\ UNCHANGED <<host, page, db, mode, head, saved, replies, spent>>
  BY DEF Fail, Refuse, Die, Failed
<1> QED
  BY <1>1, <1>2 DEF Retried, Ends, Stopped

\* The steps of an attempt that leave the platform and the mappings alone,
\* and the reconciliation too.
Aside == Claim \/ Load \/ Memory \/ SaveMemory \/ Review \/ ReplaceFindings \/ Chatter
         \/ PostReply \/ SaveReplyKey \/ RepliesDone \/ MoveHead

LEMMA NextCases ==
  ASSUME Turn, Next
  PROVE  \/ Aside \/ Route \/ Hydrate \/ Publish \/ ReconcileStep \/ RecordPublished
         \/ Complete \/ Abandon \/ Stopped
BY EarlyEnds DEF Next, Work, Aside

LEMMA StepPublication ==
  ASSUME PublicationInv, WorkerTypes, Turn, Current, Agreed, Next
  PROVE  PublicationInv'
<1> USE DEF PublicationInv, Turn
<1>1. CASE Aside
  <2>1. UNCHANGED publication
    BY <1>1 DEF Aside, Claim, Load, Memory, SaveMemory, Review, ReplaceFindings, Chatter, PostReply,
                SaveReplyKey, RepliesDone, MoveHead
  <2> QED
    BY <2>1 DEF publication, PublicationTypes, Once, Discussed, Shown, Reopened, Treated
<1>2. CASE Route \/ Hydrate
  <2>1. UNCHANGED <<host, page, pub>> /\ db' \in {db, Synced} /\ pub.pc = "idle"
    BY <1>2 DEF Route, Hydrate, AttemptAt
  <2>2. PublicationTypes'
    BY <2>1 DEF PublicationTypes, Db, Synced, StatusOf
  <2>3. Once' /\ Discussed' /\ Shown'
    BY <2>1 DEF Once, Discussed, Shown, Publishing, Ending
  <2> QED
    BY <2>2, <2>3
<1>3. CASE Publish
  <2>1. CASE UNCHANGED pub
    BY <1>3, <2>1 DEF Publish, PublicationTypes, Once, Discussed, Shown, Reopened, Treated
  <2>2. CASE StartPublication(att.result, att.seen)
    <3>1. /\ att.pc = "publish" /\ UNCHANGED <<host, page, db>> /\ pub.pc = "idle"
          /\ pub' = [pc |-> "existing", result |-> att.result, todo |-> {}, seen |-> att.seen]
      BY <1>3, <2>2 DEF Publish, StartPublication, AttemptAt
    <3>2. PublicationTypes'
      BY <3>1 DEF PublicationTypes, WorkerTypes, AttemptType, PubType, Steps
    <3>3. db.status = StatusOf(page.resolved) /\ (att.seen.resolved <=> page.resolved)
          /\ att.seen.summaries = page.summaries
      BY <3>1 DEF Current, Agreed, Routed
    <3>4. Once'
      BY <3>1, <3>3 DEF Once
    <3>5. Discussed'
      BY <3>1, <3>3 DEF Discussed, Publishing
    <3>6. Shown'
      BY <3>1 DEF Shown, Ending
    <3> QED
      BY <3>2, <3>4, <3>5, <3>6
  <2> QED
    BY <1>3, <2>1, <2>2 DEF Publish
<1>4. CASE ReconcileStep
  BY <1>4, ReconcileKeeps, ReconcileOnce, ReconcileDiscussed, ReconcileShown DEF ReconcileStep
<1>5. CASE RecordPublished \/ Complete \/ Abandon \/ Stopped
  <2>1. UNCHANGED <<host, page, db>> /\ pub' = IdlePub
    BY <1>5 DEF RecordPublished, Complete, Abandon, Stopped, Ends
  <2>2. PublicationTypes'
    BY <2>1 DEF PublicationTypes, PubType, IdlePub, Steps, Result, NoResult, Nothing, SeenType,
                Priors
  <2>3. Once' /\ Discussed' /\ Shown'
    BY <2>1 DEF Once, Discussed, Shown, Publishing, Ending, IdlePub
  <2> QED
    BY <2>2, <2>3
<1> QED
  BY <1>1, <1>2, <1>3, <1>4, <1>5, NextCases

\* A checkpoint with one field changed.
LEMMA CheckpointFields ==
  ASSUME NEW ck \in Checkpoint
  PROVE  /\ [ck EXCEPT !.memory = TRUE] \in Checkpoint
         /\ [ck EXCEPT !.published = TRUE] \in Checkpoint
         /\ [ck EXCEPT !.chatter = TRUE] \in Checkpoint
         /\ \A r \in Result : [ck EXCEPT !.result = r] \in Checkpoint
         /\ \A k \in Replies : [ck EXCEPT !.keys = @ \cup {k}] \in Checkpoint
         /\ ck # None
BY NoneAssumption DEF Checkpoint

\* The models that were run are counted for one head.
LEMMA SpentFields ==
  ASSUME NEW counts \in [Heads -> SpentType], NEW h \in Heads
  PROVE  \A kind \in {"memory", "review", "chatter"} :
           [counts EXCEPT ![h][kind] = @ + 1] \in [Heads -> SpentType]
<1>1. /\ [counts[h] EXCEPT !["memory"] = @ + 1] \in SpentType
      /\ [counts[h] EXCEPT !["review"] = @ + 1] \in SpentType
      /\ [counts[h] EXCEPT !["chatter"] = @ + 1] \in SpentType
  BY DEF SpentType
<1> QED
  BY <1>1

LEMMA StepWorkerTypes ==
  ASSUME PublicationTypes, WorkerTypes, Turn, Resumed, Replied, Next
  PROVE  WorkerTypes'
<1> USE DEF WorkerTypes, AttemptAt
<1>0. ASSUME NEW pc \in AttemptSteps
      PROVE  [att EXCEPT !.pc = pc] \in AttemptType
  BY DEF AttemptType
<1>18. ASSUME NEW kind \in {"memory", "review", "chatter"}, Spend(kind)
       PROVE  spent' \in [Heads -> SpentType]
  <2>1. job.head \in Heads
    BY DEF JobType
  <2> QED
    BY <1>18, <2>1, SpentFields DEF Spend
<1>1. CASE Claim
  <2>1. att' \in AttemptType
    BY <1>0, <1>1 DEF Claim, Step, AttemptSteps
  <2>2. job' \in JobType
    BY <1>1 DEF Claim, JobType
  <2> QED
    BY <1>1, <2>1, <2>2 DEF Claim
<1>2. CASE Load
  <2>1. att' \in AttemptType
    <3>1. CASE \E pc \in AttemptSteps : Step(pc)
      BY <1>0, <3>1 DEF Step
    <3>2. CASE \E ck \in Checkpoint \cup {None} : att' = [att EXCEPT !.pc = "route", !.ck = ck]
      BY <3>2 DEF AttemptType, AttemptSteps
    <3> QED
      BY <1>2, <3>1, <3>2 DEF Load, AttemptSteps
  <2>2. job' \in JobType
    BY <1>2 DEF Load, JobType
  <2> QED
    BY <1>2, <2>1, <2>2 DEF Load
<1>3. CASE Route
  <2>1. PICK plan \in Plans \cup {ManualPlan}, ck \in Checkpoint \cup {None} :
          att' = [att EXCEPT !.pc = "memory", !.plan = plan, !.ck = ck] /\ SaveCheckpoint(ck)
    <3> DEFINE new(plan) == [head |-> job.head, plan |-> plan, memory |-> FALSE, result |-> None,
                             published |-> FALSE, chatter |-> FALSE, keys |-> {}]
    <3>1. PICK plan \in IF mode = "manual" THEN {ManualPlan}
                       ELSE IF att.ck # None THEN {att.ck.plan} ELSE Plans :
            \E ck \in {None, att.ck, new(plan)} :
              /\ mode # "batch" => ck = None
              /\ mode = "batch" /\ ck # att.ck => ck = new(plan) /\ att.ck = None
              /\ att' = [att EXCEPT !.pc = "memory", !.plan = plan, !.ck = ck]
              /\ SaveCheckpoint(ck)
      BY <1>3 DEF Route
    <3>2. att.ck \in Checkpoint \cup {None} /\ job.head \in Heads
      BY DEF AttemptType, JobType
    <3>3. plan \in Plans \cup {ManualPlan}
      BY <3>1, <3>2 DEF Checkpoint
    <3>4. mode = "batch" /\ att.ck = None => new(plan) \in Checkpoint
      BY <3>1, <3>2 DEF Checkpoint
    <3> QED
      BY <3>1, <3>2, <3>3, <3>4
  <2>2. att' \in AttemptType
    BY <2>1 DEF AttemptType, AttemptSteps
  <2>3. saved' \in Checkpoint \cup {None}
    BY <2>1 DEF SaveCheckpoint
  <2> QED
    BY <1>3, <2>2, <2>3 DEF Route
<1>4. CASE Memory
  <2>1. att' \in AttemptType
    BY <1>0, <1>4 DEF Memory, Step, AttemptSteps
  <2>2. spent' \in [Heads -> SpentType]
    BY <1>4, <1>18 DEF Memory
  <2> QED
    BY <1>4, <2>1, <2>2 DEF Memory
<1>5. CASE SaveMemory
  <2>1. att' \in AttemptType /\ saved' \in Checkpoint \cup {None}
    BY <1>5, CheckpointFields DEF SaveMemory, AttemptType, AttemptSteps, SaveCheckpoint
  <2> QED
    BY <1>5, <2>1 DEF SaveMemory
<1>6. CASE Hydrate
  <2>1. Context \in SeenType
    BY DEF Context, PublicationTypes, Page, SeenType
  <2>2. att' \in AttemptType
    <3>1. \/ att' = [att EXCEPT !.pc = "review", !.seen = Context] \/ Step("chatter")
      BY <1>6 DEF Hydrate
    <3>2. [att EXCEPT !.pc = "review", !.seen = Context] \in AttemptType
      BY <2>1 DEF AttemptType, AttemptSteps
    <3> QED
      BY <1>0, <3>1, <3>2 DEF Step, AttemptSteps
  <2> QED
    BY <1>6, <2>2 DEF Hydrate
<1>7. CASE Review
  <2>1. PICK result \in Result, ck \in Checkpoint \cup {None} :
          att' = [att EXCEPT !.pc = "rows", !.ck = ck, !.result = result] /\ SaveCheckpoint(ck)
    <3>1. att.ck \in Checkpoint \cup {None}
      BY DEF AttemptType
    <3>2. PICK result \in IF att.ck # None /\ att.ck.result # None THEN {att.ck.result} ELSE Results :
            LET ck == IF att.ck = None THEN None ELSE [att.ck EXCEPT !.result = result]
            IN  att' = [att EXCEPT !.pc = "rows", !.ck = ck, !.result = result] /\ SaveCheckpoint(ck)
      BY <1>7 DEF Review
    <3>3. result \in Result
      BY <3>1, <3>2, PipelineAssumption DEF Checkpoint
    <3> QED
      BY <3>1, <3>2, <3>3, CheckpointFields
  <2>2. att' \in AttemptType
    BY <2>1 DEF AttemptType, AttemptSteps
  <2>3. saved' \in Checkpoint \cup {None}
    BY <2>1 DEF SaveCheckpoint
  <2>4. spent' \in [Heads -> SpentType]
    BY <1>7, <1>18 DEF Review
  <2> QED
    BY <1>7, <2>2, <2>3, <2>4 DEF Review
<1>8. CASE ReplaceFindings
  BY <1>0, <1>8 DEF ReplaceFindings, Step, AttemptSteps, AttemptType, Result
<1>9. CASE Publish
  BY <1>0, <1>9 DEF Publish, Step, AttemptSteps
<1>10. CASE ReconcileStep
  BY <1>10 DEF ReconcileStep, worker
<1>11. CASE RecordPublished
  <2>1. att' \in AttemptType /\ saved' \in Checkpoint \cup {None}
    BY <1>11, CheckpointFields DEF RecordPublished, AttemptType, AttemptSteps, SaveCheckpoint
  <2> QED
    BY <1>11, <2>1 DEF RecordPublished
<1>12. CASE Chatter
  <2>1. CASE att.plan.replies = {}
    BY <1>0, <1>12, <2>1 DEF Chatter, Step, AttemptSteps
  <2>2. CASE att.plan.replies # {}
    <3>1. PICK ck \in Checkpoint \cup {None} :
            /\ att' = [att EXCEPT !.pc = "post", !.ck = ck,
                         !.left = att.plan.replies \ (IF ck = None THEN {} ELSE ck.keys)]
            /\ SaveCheckpoint(ck)
      BY <1>12, <2>2, CheckpointFields DEF Chatter, AttemptType
    <3>2. att.plan.replies \subseteq Replies
      BY <1>12, PipelineAssumption DEF Chatter, Resumed, Routed, ManualPlan
    <3>3. att' \in AttemptType
      BY <3>1, <3>2 DEF AttemptType, AttemptSteps
    <3>4. saved' \in Checkpoint \cup {None}
      BY <3>1 DEF SaveCheckpoint
    <3>5. spent' \in [Heads -> SpentType]
      BY <1>12, <1>18, <2>2 DEF Chatter
    <3> QED
      BY <1>12, <3>3, <3>4, <3>5 DEF Chatter
  <2> QED
    BY <2>1, <2>2
<1>13. CASE PostReply
  <2>1. PICK r \in att.left :
          /\ replies' = [replies EXCEPT ![r] = IF AlreadyShown(r) THEN @ ELSE @ + 1]
          /\ att' = [att EXCEPT !.pc = "key", !.left = @ \ {r}, !.reply = r]
    BY <1>13 DEF PostReply
  <2>2. r \in Replies
    BY DEF AttemptType
  <2>3. att' \in AttemptType
    BY <2>1, <2>2 DEF AttemptType, AttemptSteps
  <2>4. replies' \in [Replies -> Nat]
    BY <2>1, <2>2
  <2> QED
    BY <1>13, <2>3, <2>4 DEF PostReply
<1>14. CASE SaveReplyKey
  <2>1. att' \in AttemptType /\ saved' \in Checkpoint \cup {None}
    BY <1>14, CheckpointFields DEF SaveReplyKey, AttemptType, AttemptSteps, SaveCheckpoint, Replied
  <2> QED
    BY <1>14, <2>1 DEF SaveReplyKey
<1>15. CASE RepliesDone
  BY <1>0, <1>15 DEF RepliesDone, Step, AttemptSteps
<1>16. CASE Complete \/ Abandon \/ Stopped
  <2>1. att' = Idle
    BY <1>16 DEF Complete, Abandon, Stopped, Ends
  <2>2. att' \in AttemptType
    BY <2>1 DEF Idle, NoResult, Nothing, Result, Priors, SeenType, AttemptType, AttemptSteps
  <2>3. job.retryCount + 1 \in 0 .. MaxRetries + 1
    <3>1. job.status = "in_progress"
      BY <1>16 DEF Complete, Abandon, Stopped, Turn
    <3> QED
      BY <3>1, PipelineAssumption DEF Turn, JobType
  <2>4. job' \in JobType
    BY <1>16, <2>3 DEF Complete, Abandon, Stopped, Ends, JobType
  <2> QED
    BY <1>16, <2>2, <2>4 DEF Complete, Abandon, Stopped
<1>17. CASE MoveHead
  BY <1>17, PipelineAssumption DEF MoveHead, Heads
<1> QED
  BY <1>1, <1>2, <1>3, <1>4, <1>5, <1>6, <1>7, <1>8, <1>9, <1>10, <1>11, <1>12, <1>13, <1>14,
     <1>15, <1>16, <1>17, NextCases DEF Aside

LEMMA StepTurn ==
  ASSUME PublicationTypes, WorkerTypes, Turn, Next
  PROVE  Turn'
<1> USE DEF Turn, AttemptAt, Step
<1>0. /\ job.head \in Int /\ head \in Int /\ job.retryCount \in Int /\ MaxRetries \in Int
  BY PipelineAssumption DEF WorkerTypes, AttemptType, JobType, Heads
<1>1. CASE Claim
  BY <1>0, <1>1 DEF Claim, publication, WorkerTypes, AttemptType, JobType
<1>2. CASE Load
  <2>1. att.pc = "load" /\ att'.pc \in {"route", "cancel"} /\ UNCHANGED <<pub, head>>
    BY <1>2 DEF Load, publication, WorkerTypes, AttemptType
  <2>2. job' = job \/ job' = [job EXCEPT !.head = head]
    BY <1>2 DEF Load
  <2>3. job'.status = job.status /\ job'.retryCount = job.retryCount /\ job'.head <= head
    BY <1>0, <2>2 DEF WorkerTypes, JobType
  <2> QED
    BY <2>1, <2>3
<1>3. CASE Route
  <2>1. att.pc = "route" /\ att'.pc = "memory" /\ UNCHANGED <<pub, head, job>>
    BY <1>3 DEF Route, WorkerTypes, AttemptType
  <2> QED
    BY <2>1
<1>4. CASE Memory \/ SaveMemory \/ Review \/ ReplaceFindings \/ Hydrate
  <2>1. att.pc \notin {"idle", "record"} /\ att'.pc \notin {"idle", "record"}
        /\ UNCHANGED <<pub, head, job>>
    BY <1>4 DEF Memory, SaveMemory, Review, ReplaceFindings, Hydrate, publication, WorkerTypes,
                AttemptType
  <2> QED
    BY <2>1
<1>5. CASE Chatter \/ PostReply \/ SaveReplyKey \/ RepliesDone
  <2>1. att.pc \notin {"idle", "record"} /\ att'.pc \notin {"idle", "record"}
        /\ UNCHANGED <<pub, head, job>>
    BY <1>5 DEF Chatter, PostReply, SaveReplyKey, RepliesDone, publication, WorkerTypes, AttemptType
  <2> QED
    BY <2>1
<1>6. CASE Publish
  <2>1. att.pc = "publish" /\ UNCHANGED <<head, job>>
    BY <1>6 DEF Publish
  <2>2. \/ att'.pc = "chatter" /\ UNCHANGED pub
        \/ att'.pc = "record" /\ pub'.pc = "existing"
    BY <1>6 DEF Publish, StartPublication, WorkerTypes, AttemptType
  <2> QED
    BY <2>1, <2>2
<1>7. CASE ReconcileStep
  <2>1. att.pc = "record" /\ UNCHANGED <<att, head, job>>
    BY <1>7 DEF ReconcileStep, worker
  <2> QED
    BY <1>7, <2>1, ReconcileKeeps DEF ReconcileStep
<1>8. CASE RecordPublished
  <2>1. att.pc = "record" /\ att'.pc = "chatter" /\ pub'.pc = "idle" /\ UNCHANGED <<head, job>>
    BY <1>8 DEF RecordPublished, IdlePub, WorkerTypes, AttemptType
  <2> QED
    BY <2>1
<1>9. CASE Complete \/ Abandon \/ Stopped
  <2>1. att.pc # "idle" /\ att'.pc = "idle" /\ pub'.pc = "idle" /\ head' = head
    BY <1>9 DEF Complete, Abandon, Stopped, Ends, Idle, IdlePub
  <2>2. \/ job' = [job EXCEPT !.status = "completed", !.retryCount = job.retryCount]
        \/ job' = [job EXCEPT !.status = "cancelled", !.retryCount = job.retryCount + 1]
        \/ job' = [job EXCEPT !.status = IF job.retryCount < MaxRetries THEN "queued" ELSE "failed",
                              !.retryCount = job.retryCount + 1]
    BY <1>9 DEF Complete, Abandon, Stopped, Ends
  <2>3. job'.head = job.head /\ job'.status # "in_progress"
    BY <2>2 DEF WorkerTypes, JobType
  <2>4. job'.status = "queued" => job'.retryCount <= MaxRetries
    <3>1. job'.status = "queued" => job.retryCount < MaxRetries
                                   /\ job'.retryCount = job.retryCount + 1
      BY <2>2 DEF WorkerTypes, JobType
    <3> QED
      BY <1>0, <3>1
  <2> QED
    BY <2>1, <2>3, <2>4
<1>10. CASE MoveHead
  <2>1. UNCHANGED <<pub, att, job>> /\ head' = head + 1
    BY <1>10 DEF MoveHead, publication
  <2> QED
    BY <1>0, <2>1
<1> QED
  BY <1>1, <1>2, <1>3, <1>4, <1>5, <1>6, <1>7, <1>8, <1>9, <1>10, NextCases DEF Aside

\* What the steps that save a checkpoint do to it: for a batch they change
\* the one that is saved, other jobs have none.
Saving == SaveMemory \/ Review \/ RecordPublished \/ Chatter \/ SaveReplyKey
Advances ==
  /\ saved' \in Checkpoint /\ saved' # None /\ att'.ck = saved'
  /\ saved'.head = saved.head /\ saved'.plan = saved.plan
  /\ saved.memory => saved'.memory
  /\ saved.result # None => saved'.result = saved.result
  /\ saved.published => saved'.published
  /\ saved.chatter => saved'.chatter
  /\ saved.keys \subseteq saved'.keys

LEMMA SavingBatch ==
  ASSUME WorkerTypes, Resumed, Replied, mode = "batch", Saving
  PROVE  /\ saved # None /\ Advances
         /\ ~Review => saved'.result = saved.result
         /\ Review => saved'.result = att'.result /\ att'.result \in Result
         /\ ~RecordPublished => saved'.published = saved.published
         /\ RecordPublished => saved'.published
         /\ ~SaveReplyKey => saved'.keys = saved.keys
         /\ SaveReplyKey => saved'.keys = saved.keys \cup {att.reply}
<1> USE DEF AttemptAt
<1>0. att.pc \in {"save memory", "review", "record", "chatter", "key"}
  BY DEF Saving, SaveMemory, Review, RecordPublished, Chatter, SaveReplyKey
<1>1. saved \in Checkpoint /\ saved # None /\ att.ck = saved
  BY <1>0 DEF Resumed, Routed, WorkerTypes
<1>2. att \in AttemptType
  BY DEF WorkerTypes
<1> USE <1>1, <1>2
<1>3. CASE SaveMemory
  <2>1. saved' = [saved EXCEPT !.memory = TRUE] /\ att'.ck = saved' /\ att.pc = "save memory"
    BY <1>3, CheckpointFields DEF SaveMemory, SaveCheckpoint, AttemptType
  <2>2. saved' \in Checkpoint /\ saved' # None
    BY <2>1, CheckpointFields
  <2>3. /\ saved'.head = saved.head /\ saved'.plan = saved.plan /\ saved'.result = saved.result
        /\ saved'.published = saved.published /\ saved'.chatter = saved.chatter /\ saved'.keys = saved.keys
    BY <2>1 DEF Checkpoint
  <2>4. saved'.memory = TRUE
    BY <2>1 DEF Checkpoint
  <2>5. Advances
    BY <2>1, <2>2, <2>3, <2>4 DEF Advances
  <2> QED
    BY <1>3, <2>1, <2>3, <2>4, <2>5 DEF Review, RecordPublished, SaveReplyKey
<1>4. CASE Review
  <2>0. PICK result \in IF saved.result # None THEN {saved.result} ELSE Results :
          LET ck == IF att.ck = None THEN None ELSE [att.ck EXCEPT !.result = result]
          IN  /\ att' = [att EXCEPT !.pc = "rows", !.ck = ck, !.result = result]
              /\ SaveCheckpoint(ck)
    BY <1>4 DEF Review
  <2>6. result \in Result /\ (saved.result # None => result = saved.result)
    BY <2>0, PipelineAssumption DEF Checkpoint
  <2>1. saved' = [saved EXCEPT !.result = result] /\ att'.ck = saved' /\ att'.result = result
        /\ att.pc = "review"
    BY <1>4, <2>0, <2>6, CheckpointFields DEF Review, SaveCheckpoint, AttemptType
  <2>2. saved' \in Checkpoint /\ saved' # None
    BY <2>1, <2>6, CheckpointFields
  <2>3. /\ saved'.head = saved.head /\ saved'.plan = saved.plan /\ saved'.memory = saved.memory
        /\ saved'.published = saved.published /\ saved'.chatter = saved.chatter /\ saved'.keys = saved.keys
    BY <2>1 DEF Checkpoint
  <2>4. saved'.result = result
    BY <2>1 DEF Checkpoint
  <2>5. Advances
    BY <2>1, <2>2, <2>3, <2>4, <2>6 DEF Advances
  <2> QED
    BY <1>4, <2>1, <2>3, <2>4, <2>5, <2>6 DEF RecordPublished, SaveReplyKey
<1>5. CASE RecordPublished
  <2>1. saved' = [saved EXCEPT !.published = TRUE] /\ att'.ck = saved' /\ att.pc = "record"
    BY <1>5, CheckpointFields DEF RecordPublished, SaveCheckpoint, AttemptType
  <2>2. saved' \in Checkpoint /\ saved' # None
    BY <2>1, CheckpointFields
  <2>3. /\ saved'.head = saved.head /\ saved'.plan = saved.plan /\ saved'.memory = saved.memory
        /\ saved'.result = saved.result /\ saved'.chatter = saved.chatter /\ saved'.keys = saved.keys
    BY <2>1 DEF Checkpoint
  <2>4. saved'.published = TRUE
    BY <2>1 DEF Checkpoint
  <2>5. Advances
    BY <2>1, <2>2, <2>3, <2>4 DEF Advances
  <2> QED
    BY <1>5, <2>1, <2>3, <2>4, <2>5 DEF Review, RecordPublished, SaveReplyKey
<1>6. CASE Chatter
  <2>1. att.pc = "chatter" /\ (saved' = saved \/ saved' = [saved EXCEPT !.chatter = TRUE])
        /\ att'.ck = saved'
    BY <1>6, CheckpointFields DEF Chatter, SaveCheckpoint, Step, AttemptType
  <2>2. saved' \in Checkpoint /\ saved' # None
    BY <2>1, CheckpointFields
  <2>3. /\ saved'.head = saved.head /\ saved'.plan = saved.plan /\ saved'.memory = saved.memory
        /\ saved'.result = saved.result /\ saved'.published = saved.published /\ saved'.keys = saved.keys
    BY <2>1 DEF Checkpoint
  <2>4. saved'.chatter \in {saved.chatter, TRUE}
    BY <2>1 DEF Checkpoint
  <2>5. Advances
    BY <2>1, <2>2, <2>3, <2>4 DEF Advances
  <2> QED
    BY <1>6, <2>1, <2>3, <2>5 DEF Review, RecordPublished, SaveReplyKey
<1>7. CASE SaveReplyKey
  <2>1. saved' = [saved EXCEPT !.keys = @ \cup {att.reply}] /\ att'.ck = saved' /\ att.pc = "key"
    BY <1>7, CheckpointFields DEF SaveReplyKey, SaveCheckpoint, AttemptType, Replied
  <2>2. saved' \in Checkpoint /\ saved' # None
    BY <2>1, CheckpointFields DEF Replied
  <2>3. /\ saved'.head = saved.head /\ saved'.plan = saved.plan /\ saved'.memory = saved.memory
        /\ saved'.result = saved.result /\ saved'.published = saved.published /\ saved'.chatter = saved.chatter
    BY <2>1 DEF Checkpoint
  <2>4. saved'.keys = saved.keys \cup {att.reply}
    BY <2>1 DEF Checkpoint
  <2>5. Advances
    BY <2>1, <2>2, <2>3, <2>4 DEF Advances
  <2> QED
    BY <1>7, <2>1, <2>3, <2>4, <2>5 DEF Review, RecordPublished, SaveReplyKey
<1> QED
  BY <1>3, <1>4, <1>5, <1>6, <1>7 DEF Saving

LEMMA SavingOther ==
  ASSUME WorkerTypes, Resumed, mode # "batch", Saving
  PROVE  saved' = saved /\ att'.ck = None
BY DEF Saving, SaveMemory, Review, RecordPublished, Chatter, SaveReplyKey, SaveCheckpoint, Resumed,
       WorkerTypes, AttemptType, Step

\* A saving step leaves the job and its plan alone.
LEMMA SavingFrame ==
  ASSUME WorkerTypes, Saving
  PROVE  /\ UNCHANGED <<mode, head, job, rows, replies, host, page, db>> /\ att'.plan = att.plan
         /\ att.pc \in Routed /\ att'.pc \in Routed
BY DEF Saving, SaveMemory, Review, RecordPublished, Chatter, SaveReplyKey, WorkerTypes, AttemptType,
       Step, AttemptAt, Routed, publication

\* Routing takes the checkpoint of the head, or makes a new one.
LEMMA RoutingBatch ==
  ASSUME WorkerTypes, Resumed, Route, mode = "batch"
  PROVE  /\ saved' \in Checkpoint /\ saved' # None /\ att'.ck = saved' /\ att'.plan = saved'.plan
         /\ saved'.head = job.head
         /\ \/ saved' = saved
            \/ /\ saved # None => saved.head # job.head /\ ~Partly(saved)
               /\ saved'.result = None /\ ~saved'.published /\ saved'.keys = {}
<1>0. att.ck \in Checkpoint \cup {None} /\ saved \in Checkpoint \cup {None} /\ att.pc = "route"
  BY DEF WorkerTypes, AttemptType, Route, AttemptAt
<1>1. CASE att.ck # None
  <2>1. att'.ck = att.ck /\ att'.plan = att.ck.plan /\ saved' = att.ck
    BY <1>1 DEF Route, SaveCheckpoint, WorkerTypes, AttemptType
  <2> QED
    BY <1>0, <1>1, <2>1 DEF Resumed
<1>2. CASE att.ck = None
  <2> DEFINE new(plan) == [head |-> job.head, plan |-> plan, memory |-> FALSE, result |-> None,
                           published |-> FALSE, chatter |-> FALSE, keys |-> {}]
  <2>1. PICK plan \in Plans :
          att'.ck = new(plan) /\ att'.plan = plan
          /\ saved' = IF new(plan) = None THEN saved ELSE new(plan)
    BY <1>2 DEF Route, SaveCheckpoint, WorkerTypes, AttemptType
  <2>2. new(plan) \in Checkpoint
    BY DEF Checkpoint, WorkerTypes, JobType
  <2>3. /\ new(plan).head = job.head /\ new(plan).plan = plan /\ new(plan).result = None
        /\ ~new(plan).published /\ new(plan).keys = {}
    OBVIOUS
  <2> HIDE DEF new
  <2>4. saved' = new(plan) /\ new(plan) # None
    BY <2>1, <2>2, NoneAssumption
  <2> QED
    BY <1>0, <1>2, <2>1, <2>2, <2>3, <2>4 DEF Resumed
<1> QED
  BY <1>1, <1>2

\* Every step keeps the attempt on the checkpoint that is saved.
LEMMA StepResumed ==
  ASSUME PublicationTypes, WorkerTypes, Turn, Resumed, Replied, Next
  PROVE  Resumed'
<1> USE NoneAssumption DEF Resumed, AttemptAt, Step, Routed
<1>0. att.ck \in Checkpoint \cup {None} /\ saved \in Checkpoint \cup {None}
  BY DEF WorkerTypes, AttemptType
<1>1. CASE Claim
  <2>1. att'.pc = "load" /\ att'.ck = att.ck /\ job'.status = "in_progress" /\ UNCHANGED <<mode, saved>>
    BY <1>1 DEF Claim, WorkerTypes, AttemptType, JobType
  <2> QED
    BY <2>1
<1>2. CASE Load
  <2>1. UNCHANGED <<mode, saved>> /\ job.status = "in_progress" /\ job'.status = "in_progress"
    BY <1>2 DEF Load, Turn, WorkerTypes, JobType
  <2>2. CASE mode # "batch"
    <3>1. att'.pc = "route" /\ att'.ck = att.ck
      BY <1>2, <2>2 DEF Load, WorkerTypes, AttemptType
    <3> QED
      BY <2>1, <2>2, <3>1
  <2>3. CASE mode = "batch" /\ att'.pc = "cancel"
    BY <2>1, <2>3
  <2>4. CASE mode = "batch" /\ ~(saved # None /\ saved.head # head /\ Partly(saved))
    <3>1. /\ att'.pc = "route" /\ job'.head = head
          /\ att'.ck = IF saved = None \/ saved.head = head THEN saved ELSE None
      BY <1>2, <2>4 DEF Load, WorkerTypes, AttemptType, JobType
    <3>2. Partly(saved)' <=> Partly(saved)
      BY <2>1 DEF Partly
    <3> QED
      BY <2>1, <2>4, <3>1, <3>2
  <2> QED
    BY <1>2, <2>2, <2>3, <2>4 DEF Load, WorkerTypes, AttemptType
<1>3. CASE Route
  <2>1. UNCHANGED <<mode, job>> /\ att.pc = "route" /\ att'.pc = "memory" /\ job.status = "in_progress"
    BY <1>3 DEF Route, Turn, WorkerTypes, AttemptType
  <2>2. CASE mode # "batch"
    <3>1. att'.ck = None /\ att'.plan \in Plans \cup {ManualPlan} /\ saved' = saved
      BY <1>3, <2>2 DEF Route, SaveCheckpoint, WorkerTypes, AttemptType
    <3> QED
      BY <2>1, <2>2, <3>1
  <2>3. CASE mode = "batch"
    <3>1. att'.plan \in Plans
      BY <1>3, <2>3, RoutingBatch DEF Checkpoint
    <3> QED
      BY <1>3, <2>1, <2>3, <3>1, RoutingBatch
  <2> QED
    BY <2>2, <2>3
<1> DEFINE Kept == /\ UNCHANGED <<mode, job>> /\ att'.plan = att.plan
                   /\ att.pc \in Routed /\ att'.pc \in Routed
                   /\ mode # "batch" => att'.ck = None /\ saved' = saved
                   /\ mode = "batch" => /\ saved' # None /\ att'.ck = saved'
                                        /\ saved'.head = saved.head /\ saved'.plan = saved.plan
<1>4. ASSUME Kept PROVE Resumed'
  <2>1. job.status = "in_progress"
    BY <1>4 DEF Turn
  <2> QED
    BY <1>4, <2>1
<1>5. CASE Memory \/ Hydrate \/ ReplaceFindings \/ Publish \/ RepliesDone \/ PostReply
  <2>1. UNCHANGED <<mode, job, saved>> /\ att'.plan = att.plan /\ att'.ck = att.ck
        /\ att.pc \in Routed /\ att'.pc \in Routed
    BY <1>5 DEF Memory, Hydrate, ReplaceFindings, Publish, RepliesDone, PostReply, WorkerTypes,
                AttemptType
  <2> QED
    BY <1>4, <2>1
<1>6. CASE ReconcileStep
  BY <1>6 DEF ReconcileStep, worker
<1>7. CASE Saving
  <2>1. Kept
    BY <1>7, SavingBatch, SavingOther, SavingFrame DEF Advances
  <2> QED
    BY <1>4, <2>1
<1>8. CASE Complete
  <2>1. att.pc = "finish" /\ att'.pc = "idle" /\ att'.ck = None /\ UNCHANGED <<mode, saved>>
        /\ job'.head = job.head
    BY <1>8 DEF Complete, Ends, Idle, WorkerTypes, JobType
  <2> QED
    BY <2>1
<1>9. CASE Abandon \/ Stopped
  <2>1. att'.pc = "idle" /\ att'.ck = None /\ UNCHANGED <<mode, saved>> /\ job'.status # "completed"
    <3>1. att' = Idle /\ UNCHANGED <<mode, saved>>
          /\ \E st, n : st # "completed" /\ job' = [job EXCEPT !.status = st, !.retryCount = n]
      BY <1>9 DEF Abandon, Stopped, Ends
    <3> QED
      BY <3>1 DEF Idle, WorkerTypes, JobType
  <2> QED
    BY <2>1
<1>10. CASE MoveHead
  BY <1>10 DEF MoveHead
<1> QED
  BY <1>1, <1>2, <1>3, <1>5, <1>6, <1>7, <1>8, <1>9, <1>10, NextCases DEF Aside, Saving

\* The order of an attempt.
LEMMA Flow ==
  ASSUME WorkerTypes
  PROVE  /\ Claim => att'.pc = "load"
         /\ Load => att.pc = "load" /\ att'.pc \in {"route", "cancel"}
         /\ Route => att.pc = "route" /\ att'.pc = "memory"
         /\ Memory => att.pc = "memory" /\ att'.pc \in {"save memory", "hydrate"}
         /\ SaveMemory => att.pc = "save memory" /\ att'.pc = "hydrate"
         /\ Hydrate => att.pc = "hydrate" /\ att'.pc \in {"review", "chatter"}
         /\ Review => att.pc = "review" /\ att'.pc = "rows"
         /\ ReplaceFindings => att.pc = "rows" /\ att'.pc = "publish"
         /\ Publish => att.pc = "publish" /\ att'.pc \in {"chatter", "record"}
         /\ RecordPublished => att.pc = "record" /\ att'.pc = "chatter"
         /\ Chatter => att.pc = "chatter" /\ att'.pc \in {"post", "finish"}
         /\ PostReply => att.pc = "post" /\ att'.pc = "key"
         /\ SaveReplyKey => att.pc = "key" /\ att'.pc = "post"
         /\ RepliesDone => att.pc = "post" /\ att'.pc = "finish"
<1> USE DEF WorkerTypes, AttemptType, AttemptAt, Step
<1>1. /\ Claim => att'.pc = "load"
      /\ Load => att.pc = "load" /\ att'.pc \in {"route", "cancel"}
      /\ Route => att.pc = "route" /\ att'.pc = "memory"
  BY DEF Claim, Load, Route
<1>2. /\ Memory => att.pc = "memory" /\ att'.pc \in {"save memory", "hydrate"}
      /\ SaveMemory => att.pc = "save memory" /\ att'.pc = "hydrate"
      /\ Hydrate => att.pc = "hydrate" /\ att'.pc \in {"review", "chatter"}
  BY DEF Memory, SaveMemory, Hydrate
<1>3. /\ Review => att.pc = "review" /\ att'.pc = "rows"
      /\ ReplaceFindings => att.pc = "rows" /\ att'.pc = "publish"
      /\ Publish => att.pc = "publish" /\ att'.pc \in {"chatter", "record"}
      /\ RecordPublished => att.pc = "record" /\ att'.pc = "chatter"
  BY DEF Review, ReplaceFindings, Publish, RecordPublished
<1>4. /\ Chatter => att.pc = "chatter" /\ att'.pc \in {"post", "finish"}
      /\ PostReply => att.pc = "post" /\ att'.pc = "key"
      /\ SaveReplyKey => att.pc = "key" /\ att'.pc = "post"
      /\ RepliesDone => att.pc = "post" /\ att'.pc = "finish"
  BY DEF Chatter, PostReply, SaveReplyKey, RepliesDone
<1> QED
  BY <1>1, <1>2, <1>3, <1>4

\* The steps that begin or end an attempt, and a push.
LEMMA Edges ==
  ASSUME WorkerTypes, Claim \/ Complete \/ Abandon \/ Stopped
  PROVE  /\ UNCHANGED <<host, page, db, mode, head, saved, replies, spent>> /\ job'.head = job.head
         /\ \/ att'.pc = "load" /\ job'.status = "in_progress"
            \/ att.pc = "finish" /\ att'.pc = "idle" /\ rows' = rows
            \/ att'.pc = "idle" /\ job'.status # "completed"
<1> USE DEF WorkerTypes, JobType
<1>1. CASE Claim
  <2>1. att'.pc = "load"
    BY <1>1 DEF Claim, Step, AttemptType
  <2> QED
    BY <1>1, <2>1 DEF Claim, publication
<1>2. CASE Complete
  BY <1>2 DEF Complete, Ends, Idle, AttemptAt
<1>3. CASE Abandon
  BY <1>3 DEF Abandon, Ends, Idle
<1>4. CASE Stopped
  <2>1. PICK st \in {"queued", "failed"}, n \in {job.retryCount + 1} :
          job' = [job EXCEPT !.status = st, !.retryCount = n]
    BY <1>4 DEF Stopped
  <2>2. job'.status # "completed" /\ job'.head = job.head
    BY <2>1
  <2>3. att'.pc = "idle"
    BY <1>4 DEF Stopped, Idle
  <2> QED
    BY <1>4, <2>2, <2>3 DEF Stopped
<1> QED
  BY <1>1, <1>2, <1>3, <1>4

\* What a job learns of the prior discussion is what the platform has.
LEMMA StepContext ==
  ASSUME PublicationInv, WorkerTypes, Turn, Current, Agreed, Next
  PROVE  Current' /\ Agreed'
<1> USE DEF Current, Agreed, Routed
<1>1. CASE Claim \/ Complete \/ Abandon \/ Stopped
  BY <1>1, Edges
<1>2. CASE Load
  BY <1>2, Flow DEF Load, Turn, WorkerTypes, JobType
<1>3. CASE Route \/ Hydrate
  <2>1. UNCHANGED <<page, job>> /\ (db' = Synced \/ (db' = db /\ Hydrate))
    BY <1>3 DEF Route, Hydrate
  <2>2. Synced.status = StatusOf(page.resolved)
    BY DEF PublicationInv, PublicationTypes, Db, Synced
  <2>3. Hydrate => db.status = StatusOf(page.resolved)
    BY Flow
  <2>4. Hydrate /\ att'.pc = "review" => att'.seen = Context
    BY DEF Hydrate, WorkerTypes, AttemptType, Step
  <2>5. Agreed'
    BY <1>3, <2>1, <2>2, <2>3, Flow DEF StatusOf, Turn
  <2>6. Current'
    <3>1. CASE att'.pc = "review"
      <4>1. att'.seen = Context /\ page' = page
        BY <1>3, <2>1, <2>4, <3>1, Flow
      <4>2. Context.resolved = page.resolved
        BY DEF Context
      <4>3. Context.summaries = page.summaries
        BY DEF Context
      <4> QED
        BY <4>1, <4>2, <4>3
    <3>2. CASE att'.pc # "review"
      BY <1>3, <3>2, Flow
    <3> QED
      BY <3>1, <3>2
  <2> QED
    BY <2>5, <2>6
<1>4. CASE Memory \/ ReplaceFindings \/ Publish \/ PostReply \/ RepliesDone
  <2>1. UNCHANGED <<page, db, job>> /\ att'.seen = att.seen
    BY <1>4 DEF Memory, ReplaceFindings, Publish, PostReply, RepliesDone, publication, Step,
                WorkerTypes, AttemptType
  <2> QED
    BY <1>4, <2>1, Flow DEF StatusOf
<1>5. CASE Saving /\ ~RecordPublished
  <2>1. UNCHANGED <<page, db, job>>
    BY <1>5, SavingFrame
  <2>2. Review => att'.seen = att.seen
    BY DEF Review, WorkerTypes, AttemptType
  <2> QED
    BY <1>5, <2>1, <2>2, Flow DEF Saving, StatusOf
<1>6. CASE RecordPublished
  <2>1. db.status = StatusOf(page.resolved)
    BY <1>6 DEF RecordPublished, At, PublicationInv, Discussed
  <2> QED
    BY <1>6, <2>1, SavingFrame, Flow DEF Saving, StatusOf
<1>7. CASE ReconcileStep
  BY <1>7 DEF ReconcileStep, worker, AttemptAt, Turn
<1>8. CASE MoveHead
  BY <1>8 DEF MoveHead, publication, StatusOf
<1> QED
  BY <1>1, <1>2, <1>3, <1>4, <1>5, <1>6, <1>7, <1>8, NextCases DEF Aside, Saving

\* The result of the checkpoint is the one that is published.
LEMMA StepOneResult ==
  ASSUME PublicationInv, WorkerTypes, Turn, Resumed, Replied, OneResult, Next
  PROVE  OneResult'
<1> SUFFICES ASSUME mode = "batch", mode' = mode
             PROVE  OneResult'
  BY DEF OneResult, Next, Work, Claim, Load, Route, Memory, SaveMemory, Hydrate, Review,
     ReplaceFindings, Publish, ReconcileStep, worker, RecordPublished, Chatter, PostReply,
     SaveReplyKey, RepliesDone, Complete, Abandon, Refuse, Fail, Failed, Die, MoveHead
<1> USE DEF OneResult, Replying, Routed
<1>1. CASE Claim \/ Complete \/ Abandon \/ Stopped
  BY <1>1, Edges
<1>2. CASE Load \/ Route \/ Memory
  <2>1. job'.status = job.status
    BY <1>2 DEF Load, Route, Memory, WorkerTypes, JobType
  <2> QED
    BY <1>2, <2>1, Flow DEF Turn
<1>3. CASE Hydrate
  <2>1. UNCHANGED <<job, saved>> /\ (att'.pc = "chatter" => ~saved.plan.review)
    BY <1>3, Flow DEF Hydrate, Resumed, Step, WorkerTypes, AttemptType
  <2> QED
    BY <1>3, <2>1, Flow DEF Turn
<1>4. CASE ReplaceFindings
  BY <1>4, Flow DEF ReplaceFindings, Step, WorkerTypes, AttemptType, Turn, publication
<1>5. CASE Publish
  <2>1. UNCHANGED <<job, saved, rows>> /\ att'.result = att.result /\ att.ck = saved /\ saved # None
    BY <1>5, Flow DEF Publish, Step, WorkerTypes, AttemptType, Resumed
  <2>2. IF saved.published THEN att'.pc = "chatter"
        ELSE att'.pc = "record" /\ pub'.result = att.result
    BY <1>5, <2>1 DEF Publish, Step, StartPublication, WorkerTypes, AttemptType
  <2> QED
    BY <1>5, <2>1, <2>2, Flow DEF Turn
<1>6. CASE Saving
  <2>1. /\ saved'.plan = saved.plan /\ saved.published => saved'.published
    BY <1>6, SavingBatch DEF Advances
  <2>2. job.status = "in_progress" /\ UNCHANGED <<job, rows>>
    BY <1>6, SavingFrame DEF Turn
  <2>3. CASE SaveMemory
    BY <2>2, <2>3, Flow
  <2>4. CASE Review
    BY <2>2, <2>4, <1>6, SavingBatch, Flow, NoneAssumption
  <2>5. CASE RecordPublished
    <3>1. ~Review
      BY <2>5, Flow
    <3> QED
      BY <2>2, <2>5, <3>1, <1>6, SavingBatch, Flow
  <2>6. CASE Chatter \/ SaveReplyKey
    <3>1. ~Review
      BY <2>6, Flow
    <3>2. saved'.plan = saved.plan /\ saved'.result = saved.result
          /\ (saved.published => saved'.published)
      BY <1>6, <3>1, SavingBatch DEF Advances
    <3> QED
      BY <2>2, <2>6, <3>2, Flow
  <2> QED
    BY <1>6, <2>3, <2>4, <2>5, <2>6 DEF Saving
<1>7. CASE PostReply \/ RepliesDone
  <2>1. UNCHANGED <<job, rows, saved>>
    BY <1>7 DEF PostReply, RepliesDone
  <2> QED
    BY <1>7, <2>1, Flow
<1>8. CASE ReconcileStep
  BY <1>8, ReconcileKeeps DEF ReconcileStep, worker, PublicationInv
<1>9. CASE MoveHead
  BY <1>9 DEF MoveHead, publication
<1> QED
  BY <1>1, <1>2, <1>3, <1>4, <1>5, <1>6, <1>7, <1>8, <1>9, NextCases DEF Aside, Saving

\* What is published stays treated, for the checkpoint is not replaced and
\* nothing is published again.
LEMMA StepPublished ==
  ASSUME PublicationInv, WorkerTypes, Turn, Resumed, Replied, OneResult, PublishedIsTreated, Next
  PROVE  PublishedIsTreated'
<1> USE DEF PublishedIsTreated
<1>0. ASSUME UNCHANGED <<page, db>>, saved' = None \/ ~saved'.published \/
               (saved # None /\ saved.published /\ saved'.result = saved.result)
      PROVE  PublishedIsTreated'
  BY <1>0 DEF Treated, Names, Reopened, StatusOf
<1>1. CASE Claim \/ Complete \/ Abandon \/ Stopped
  <2>1. UNCHANGED <<page, db, saved>>
    BY <1>1, Edges
  <2> QED
    BY <1>0, <2>1
<1>2. CASE Load \/ Memory \/ ReplaceFindings \/ Publish \/ PostReply \/ RepliesDone \/ MoveHead
  <2>1. UNCHANGED <<page, db, saved>>
    BY <1>2 DEF Load, Memory, ReplaceFindings, Publish, PostReply, RepliesDone, MoveHead, publication
  <2> QED
    BY <1>0, <2>1
<1>3. CASE Route \/ Hydrate
  <2>1. page' = page /\ db' \in {db, Synced}
    BY <1>3 DEF Route, Hydrate
  <2>2. CASE saved' = saved
    <3>1. saved # None /\ saved.published => db' = db
      BY <2>1 DEF Synced
    <3> QED
      BY <1>0, <2>1, <2>2, <3>1
  <2>3. CASE saved' # saved
    <3>1. Route /\ mode = "batch"
      BY <1>3, <2>3 DEF Route, Hydrate, SaveCheckpoint
    <3>2. ~saved'.published
      BY <2>3, <3>1, RoutingBatch
    <3> QED
      BY <3>2
  <2> QED
    BY <2>2, <2>3
<1>4. CASE Saving /\ mode # "batch"
  BY <1>4, SavingOther DEF Resumed
<1>5. CASE Saving /\ ~RecordPublished /\ mode = "batch"
  <2>1. UNCHANGED <<page, db>> /\ saved'.published = saved.published /\ saved # None
    BY <1>5, SavingFrame, SavingBatch
  <2>2. saved.published => saved'.result = saved.result
    BY <1>5, <2>1, SavingBatch DEF Advances
  <2> QED
    BY <1>0, <2>1, <2>2
<1>6. CASE RecordPublished /\ mode = "batch"
  <2>1. UNCHANGED <<page, db>> /\ saved'.result = pub.result /\ saved'.result # None
    <3>1. ~Review
      BY <1>6, Flow
    <3>2. att.pc = "record" /\ Saving
      BY <1>6, Flow DEF Saving
    <3> QED
      BY <1>6, <3>1, <3>2, SavingFrame, SavingBatch DEF OneResult
  <2>2. pub.pc = "done"
    BY <1>6 DEF RecordPublished, At
  <2>3. Treated(pub.result) /\ db.status = StatusOf(page.resolved)
    BY <2>2 DEF PublicationInv, Discussed, Shown, Treated, Ending
  <2> QED
    BY <2>1, <2>3 DEF Treated, Names, Reopened, StatusOf
<1>7. CASE ReconcileStep
  <2>1. saved' = saved /\ att.pc = "record"
    BY <1>7 DEF ReconcileStep, worker, AttemptAt
  <2>2. saved # None => ~saved.published
    BY <2>1 DEF OneResult, Resumed
  <2> QED
    BY <2>1, <2>2
<1> QED
  BY <1>1, <1>2, <1>3, <1>4, <1>5, <1>6, <1>7, NextCases DEF Aside, Saving

\* Replies are shown before their keys are saved, and a batch shows each of
\* them once.
LEMMA StepReplied ==
  ASSUME PublicationTypes, WorkerTypes, Turn, Resumed, Replied, Next
  PROVE  Replied'
<1> USE DEF Replied
<1>0. saved # None => saved.keys \subseteq Replies /\ saved.plan.replies \subseteq Replies
  BY PipelineAssumption DEF WorkerTypes, Checkpoint
<1>1. CASE Claim \/ Complete \/ Abandon \/ Stopped
  BY <1>1, Edges
<1>2. CASE Load \/ Memory \/ Hydrate \/ ReplaceFindings \/ Publish \/ MoveHead \/ ReconcileStep
  <2>1. UNCHANGED <<mode, saved, replies>> /\ job'.status = job.status
    BY <1>2 DEF Load, Memory, Hydrate, ReplaceFindings, Publish, MoveHead, ReconcileStep, worker,
                WorkerTypes, JobType
  <2>2. att' = att \/ att'.pc \notin {"key", "post", "finish"}
    BY <1>2, Flow DEF MoveHead, ReconcileStep, worker
  <2> QED
    BY <2>1, <2>2
<1>3. CASE Route
  <2>1. UNCHANGED <<mode, job, replies>> /\ att'.pc = "memory" /\ job.status = "in_progress"
    BY <1>3, Flow DEF Route, Turn
  <2>2. saved' = saved \/ saved'.keys = {}
    BY <1>3, RoutingBatch DEF Route, SaveCheckpoint
  <2> QED
    BY <2>1, <2>2
<1>4. CASE Saving /\ mode # "batch"
  BY <1>4, SavingOther, SavingFrame, Flow DEF Saving, Resumed
<1>5. CASE Saving /\ mode = "batch"
  <2>1. UNCHANGED <<mode, job, replies>> /\ job.status = "in_progress" /\ saved'.plan = saved.plan
        /\ att.plan = saved.plan
    <3>1. saved'.plan = saved.plan
      BY <1>5, SavingBatch DEF Advances
    <3>2. UNCHANGED <<mode, job, replies>> /\ att.pc \in Routed
      BY <1>5, SavingFrame
    <3> QED
      BY <1>5, <3>1, <3>2 DEF Turn, Resumed, Routed
  <2>2. \A r \in saved'.keys : replies[r] > 0
    BY <1>5, SavingBatch, Flow
  <2>3. CASE SaveMemory \/ Review \/ RecordPublished
    BY <2>1, <2>2, <2>3, Flow
  <2>4. CASE Chatter
    <3>1. CASE saved.plan.replies = {}
      BY <1>5, <2>1, <2>2, <2>4, <3>1, Flow
    <3>2. CASE saved.plan.replies # {}
      <4>1. att'.pc = "post" /\ att'.left = saved.plan.replies \ saved'.keys
        <5>1. att'.left = att.plan.replies \ att'.ck.keys /\ att'.pc = "post"
          BY <1>5, <2>1, <2>4, <3>2, Flow, CheckpointFields
             DEF Chatter, WorkerTypes, AttemptType, Resumed, Routed
        <5> QED
          BY <1>5, <2>1, <5>1, SavingBatch DEF Advances
      <4> QED
        BY <1>0, <2>1, <2>2, <4>1
    <3> QED
      BY <3>1, <3>2
  <2>5. CASE SaveReplyKey
    <3>1. att'.left = att.left /\ att'.pc = "post" /\ att.pc = "key"
      BY <2>5, Flow DEF SaveReplyKey, WorkerTypes, AttemptType
    <3> QED
      BY <1>5, <2>1, <2>2, <3>1
  <2> QED
    BY <1>5, <2>3, <2>4, <2>5 DEF Saving
<1>6. CASE PostReply
  <2>1. PICK r \in att.left :
          /\ replies' = [replies EXCEPT ![r] = IF AlreadyShown(r) THEN @ ELSE @ + 1]
          /\ att' = [att EXCEPT !.pc = "key", !.left = @ \ {r}, !.reply = r]
    BY <1>6 DEF PostReply
  <2>2. r \in Replies /\ att'.left = att.left \ {r} /\ att'.reply = r /\ att'.pc = "key"
    BY <2>1 DEF WorkerTypes, AttemptType
  <2>3. \A q \in Replies : q # r => replies'[q] = replies[q]
    BY <2>1 DEF WorkerTypes
  <2>4. replies'[r] = IF mode = "batch" /\ replies[r] > 0 THEN replies[r] ELSE replies[r] + 1
    BY <2>1, <2>2 DEF WorkerTypes, AlreadyShown
  <2>5. replies'[r] > 0 /\ (mode = "batch" => replies'[r] <= 1)
    BY <2>2, <2>4 DEF WorkerTypes
  <2>6. UNCHANGED <<mode, job, saved>> /\ att.pc = "post" /\ job.status = "in_progress"
    BY <1>6, Flow DEF PostReply, Turn
  <2>7. mode = "batch" => \A q \in saved.plan.replies \ att'.left : q \in Replies /\ replies'[q] > 0
    BY <1>0, <2>2, <2>3, <2>5, <2>6 DEF Resumed, Routed
  <2>8. saved # None => \A q \in saved.keys : replies'[q] > 0
    BY <1>0, <2>3, <2>5
  <2> QED
    BY <2>2, <2>3, <2>5, <2>6, <2>7, <2>8
<1>7. CASE RepliesDone
  BY <1>7, Flow DEF RepliesDone, Turn
<1> QED
  BY <1>1, <1>2, <1>3, <1>4, <1>5, <1>6, <1>7, NextCases DEF Aside, Saving

\* The steps of a reconciliation that record or change the words.
LEMMA ReconcileWords ==
  ASSUME PublicationInv, Reconcile
  PROVE  \/ db'.finger = db.finger /\ (NewWordsShown => NewWordsShown')
         \/ /\ Names(pub.result) /\ db'.finger = FingerOf(pub.result.prior)
            /\ page' = page /\ (page.answers > 0 \/ page.text = FingerOf(pub.result.prior))
         \/ /\ pub.result.prior \in {"same", "changed"} /\ db' = db
            /\ page'.text = FingerOf(pub.result.prior)
<1> USE DEF PublicationInv, PublicationTypes, Page, Db, NewWordsShown, At
<1>1. CASE Keep
  BY <1>1 DEF Keep, KeptAsIs, PersistExisting
<1>2. CASE PersistAnswer \/ PersistUpdate
  BY <1>2 DEF PersistAnswer, PersistUpdate, PersistExisting, Discussed, Names
<1>3. CASE Update
  BY <1>3 DEF Update, EditComment
<1>4. CASE Reopen \/ Close
  <2>1. \/ page' = page
        \/ page' = [page EXCEPT !.resolved = IF page.closable THEN FALSE ELSE @]
        \/ page' = [page EXCEPT !.resolved = IF page.closable THEN TRUE ELSE @]
    BY <1>4 DEF Reopen, Close, SetResolved
  <2> QED
    BY <1>4, <2>1 DEF Reopen, Close
<1>5. CASE Answer \/ Reply \/ Notify \/ UpsertSummary
  BY <1>5 DEF Answer, Reply, ReplyInDiscussion, Notify, UpsertSummary
<1>6. CASE NoExisting \/ NoFindings \/ FindPublished \/ ReuseReview \/ IssuesDone \/ AwaitPublished
           \/ StartDrafts \/ MatchDrafts \/ NoDisposition
  BY <1>6 DEF NoExisting, NoFindings, FindPublished, ReuseReview, IssuesDone, AwaitPublished,
              StartDrafts, MatchDrafts, NoDisposition
<1>7. CASE DeleteStrayReview \/ CreateReview
  BY <1>7 DEF DeleteStrayReview, CreateReview
<1>8. CASE SubmitReview \/ BulkPublish
  BY <1>8 DEF SubmitReview, BulkPublish
<1>9. CASE CreateIssueFinding
  BY <1>9 DEF CreateIssueFinding
<1>10. CASE CreateDraft
  BY <1>10 DEF CreateDraft
<1>11. CASE DraftError
  BY <1>11, DraftErrorCases
<1>12. CASE PersistFinding
  BY <1>12 DEF PersistFinding
<1>13. CASE PersistClosed \/ PersistReply
  BY <1>13 DEF PersistClosed, PersistReply
<1> QED
  BY <1>1, <1>2, <1>3, <1>4, <1>5, <1>6, <1>7, <1>8, <1>9, <1>10, <1>11, <1>12, <1>13
     DEF Reconcile

\* Before the second push the words that are shown are the recorded ones, or
\* the result at hand is about to put them right.
LEMMA StepWorded ==
  ASSUME PublicationInv, WorkerTypes, Turn, Resumed, Replied, OneResult, Worded, Next
  PROVE  Worded'
<1> USE NoneAssumption DEF Worded, SavedPrior
<1>0. ASSUME UNCHANGED <<mode, saved>>, job'.head = job.head, db'.finger = db.finger,
             NewWordsShown => NewWordsShown'
      PROVE  Worded'
  BY <1>0
<1>1. CASE Claim \/ Complete \/ Abandon \/ Stopped
  BY <1>0, <1>1, Edges DEF NewWordsShown
<1>2. CASE Load
  <2>1. UNCHANGED <<mode, page, db, saved>> /\ job'.head \in {job.head, head}
    BY <1>2 DEF Load, publication, WorkerTypes, JobType
  <2>2. job.head \in Nat /\ head \in Nat /\ job.head <= head
    BY DEF WorkerTypes, JobType, Heads, Turn
  <2>3. CASE job'.head = job.head
    BY <1>0, <2>1, <2>3 DEF NewWordsShown
  <2>4. CASE job'.head = head /\ job.head < head
    <3>1. job'.head # 0 /\ (job'.head = 1 => job.head = 0)
      BY <2>2, <2>4
    <3> QED
      BY <2>1, <3>1 DEF NewWordsShown
  <2> QED
    BY <2>1, <2>2, <2>3, <2>4
<1>3. CASE Route
  <2>1. UNCHANGED <<mode, page, job>> /\ db'.finger = db.finger
    BY <1>3 DEF Route, Synced, PublicationInv, PublicationTypes, Db
  <2>2. CASE saved' = saved
    BY <1>0, <2>1, <2>2 DEF NewWordsShown
  <2>3. CASE saved' # saved /\ mode = "batch"
    <3>1. saved # None => saved.head # job.head
      BY <1>3, <2>3, RoutingBatch
    <3> QED
      BY <2>1, <2>3, <3>1 DEF NewWordsShown
  <2> QED
    BY <2>1, <2>2, <2>3
<1>4. CASE Hydrate
  <2>1. UNCHANGED <<mode, saved, page, job>> /\ db'.finger = db.finger
    BY <1>4 DEF Hydrate, Synced, PublicationInv, PublicationTypes, Db
  <2> QED
    BY <1>0, <2>1 DEF NewWordsShown
<1>5. CASE Memory \/ ReplaceFindings \/ Publish \/ PostReply \/ RepliesDone \/ MoveHead
  <2>1. UNCHANGED <<mode, saved, page, db, job>>
    BY <1>5 DEF Memory, ReplaceFindings, Publish, PostReply, RepliesDone, MoveHead, publication
  <2> QED
    BY <1>0, <2>1 DEF NewWordsShown
<1>6. CASE Saving
  <2>1. UNCHANGED <<mode, page, db, job>>
    BY <1>6, SavingFrame
  <2>2. mode = "batch" => saved # None /\ saved'.head = saved.head /\ saved' # None
                         /\ (saved.result # None => saved'.result = saved.result)
    BY <1>6, SavingBatch DEF Advances
  <2> QED
    BY <2>1, <2>2 DEF NewWordsShown
<1>7. CASE ReconcileStep
  <2>1. Reconcile /\ UNCHANGED <<mode, job, saved>> /\ att.pc = "record"
    BY <1>7 DEF ReconcileStep, worker, AttemptAt
  <2>2. mode = "batch" => saved # None /\ saved.head = job.head /\ saved.result # None
                         /\ SavedPrior = pub.result.prior
    BY <2>1 DEF Resumed, Routed, OneResult
  <2>3. CASE db'.finger = db.finger /\ (NewWordsShown => NewWordsShown')
    BY <1>0, <2>1, <2>3
  <2>4. CASE /\ Names(pub.result) /\ db'.finger = FingerOf(pub.result.prior)
             /\ page' = page /\ (page.answers > 0 \/ page.text = FingerOf(pub.result.prior))
    BY <2>1, <2>2, <2>4 DEF FingerOf, Names, NewWordsShown
  <2>5. CASE /\ pub.result.prior \in {"same", "changed"} /\ db' = db
             /\ page'.text = FingerOf(pub.result.prior)
    BY <2>1, <2>2, <2>5 DEF FingerOf, NewWordsShown
  <2> QED
    BY <2>1, <2>3, <2>4, <2>5, ReconcileWords
<1> QED
  BY <1>1, <1>2, <1>3, <1>4, <1>5, <1>6, <1>7, NextCases DEF Aside, Saving

-----------------------------------------------------------------------------
(* The inductive invariant, and the theorems.                              *)

THEOREM PipelineInvariant == Spec => []PipelineInv
<1>1. Init => PipelineInv
  <2> SUFFICES ASSUME Init
               PROVE  PipelineInv
    OBVIOUS
  <2> USE PipelineAssumption DEF Init
  <2>1. PublicationTypes
    BY DEF PublicationInit, PublicationTypes, Page, Db, PubType, IdlePub, Steps, Result, NoResult,
           Priors, Nothing, SeenType
  <2>2. Once /\ Discussed /\ Shown
    BY DEF PublicationInit, IdlePub, Once, Discussed, Shown, Publishing, Ending, Findings
  <2>3. WorkerTypes
    BY DEF WorkerTypes, JobType, AttemptType, AttemptSteps, Idle, NoResult, Nothing, SeenType,
           SpentType, Heads, Result, Priors
  <2>4. Turn /\ Resumed /\ Current /\ Agreed /\ OneResult /\ PublishedIsTreated /\ Replied /\ Worded
    BY DEF PublicationInit, IdlePub, Idle, Turn, Resumed, Current, Agreed, OneResult,
           PublishedIsTreated, Replied, Worded, Routed, Replying
  <2> QED
    BY <2>1, <2>2, <2>3, <2>4 DEF PipelineInv, PublicationInv
<1>2. PipelineInv /\ [Next]_vars => PipelineInv'
  <2>1. PipelineInv /\ Next => PipelineInv'
    BY StepPublication, StepWorkerTypes, StepTurn, StepResumed, StepContext, StepOneResult,
       StepPublished, StepReplied, StepWorded DEF PipelineInv, PublicationInv
  <2>2. PipelineInv /\ UNCHANGED vars => PipelineInv'
    BY DEF PipelineInv, PublicationInv, PublicationTypes, Once, Discussed, Shown, WorkerTypes, Turn,
           Resumed, Current, Agreed, OneResult, PublishedIsTreated, Replied, Worded, Names, Reopened,
           Treated, NewWordsShown, SavedPrior, vars, publication, worker, StatusOf, FingerOf, Partly
  <2> QED
    BY <2>1, <2>2
<1> QED
  BY <1>1, <1>2, PTL DEF Spec

\* The state of the pipeline has its types: heads and retries in their
\* bounds, plans that routing made, and checkpoints of the model's shape.
THEOREM PipelineTypes == Spec => []TypeOK
<1>1. PipelineInv => TypeOK
  BY DEF PipelineInv, PublicationInv, PublicationTypes, WorkerTypes, TypeOK, PublicationTypeOK,
         PubType, JobType, AttemptType
<1> QED
  BY <1>1, PipelineInvariant, PTL

\* Whatever fails and however often a job is tried, what the code finds again
\* is on the platform once: the findings on GitHub, the summary, the notice,
\* the replies of a batch.
THEOREM NoDuplicates == Spec => []PublishedOnce
<1>1. PipelineInv => PublishedOnce
  BY DEF PipelineInv, PublicationInv, Once, Replied, PublishedOnce
<1> QED
  BY <1>1, PipelineInvariant, PTL

\* A batch that is completed has published its whole result and its replies.
THEOREM CompletedBatches == Spec => []CompletedIsPublished
<1>1. ASSUME PipelineInv, Reviewed
      PROVE  saved.result # None /\ Treated(saved.result) /\ rows = saved.result.findings
             /\ mode = "batch" /\ db.status = StatusOf(page.resolved)
  BY <1>1 DEF PipelineInv, Reviewed, Resumed, OneResult, PublishedIsTreated
<1>2. ASSUME PipelineInv, Reviewed, saved.result.prior = "changed"
      PROVE  job.head < 2 => page.text = "new" \/ page.answers > 0
  <2>1. db.finger = "new" /\ SavedPrior = "changed" /\ mode = "batch"
    BY <1>1, <1>2 DEF Treated, Names, Reopened, SavedPrior, Reviewed
  <2>2. job.head \in Nat
    BY <1>2 DEF PipelineInv, WorkerTypes, JobType, Heads
  <2> QED
    BY <1>2, <2>1, <2>2 DEF PipelineInv, Worded, NewWordsShown
<1>3. PipelineInv => CompletedIsPublished
  BY <1>1, <1>2 DEF CompletedIsPublished, Treated, Names, Reopened, PipelineInv, Replied
<1> QED
  BY <1>3, PipelineInvariant, PTL

\* When a job is completed the storage agrees with the platform on whether
\* the prior discussion is open.
THEOREM MappingsAgree == Spec => []MappingFollowsDiscussion
<1>1. PipelineInv => MappingFollowsDiscussion
  BY DEF PipelineInv, Agreed, MappingFollowsDiscussion
<1> QED
  BY <1>1, PipelineInvariant, PTL

\* How a step may change the checkpoint of a batch.
LEMMA CheckpointSteps ==
  ASSUME PipelineInv, Next, saved # None
  PROVE  /\ mode = "batch" /\ mode' = mode
         /\ \/ saved' = saved
            \/ Saving /\ Advances
            \/ Route /\ saved'.head # saved.head /\ ~Partly(saved)
<1> USE DEF PipelineInv
<1>1. mode = "batch" /\ mode' = mode
  BY DEF Resumed, Next, Work, Claim, Load, Route, Memory, SaveMemory, Hydrate, Review,
     ReplaceFindings, Publish, ReconcileStep, worker, RecordPublished, Chatter, PostReply,
     SaveReplyKey, RepliesDone, Complete, Abandon, Refuse, Fail, Failed, Die, MoveHead
<1>2. CASE Saving
  BY <1>1, <1>2, SavingBatch
<1>3. CASE Route
  BY <1>1, <1>3, RoutingBatch
<1>4. CASE ~Saving /\ ~Route
  <2>1. saved' = saved
    BY <1>4, NextCases, Edges DEF Aside, Saving, Load, Memory, Hydrate, ReplaceFindings, Publish,
       PostReply, RepliesDone, MoveHead, ReconcileStep, worker
  <2> QED
    BY <1>1, <2>1
<1> QED
  BY <1>2, <1>3, <1>4

\* Once part of a batch is recorded as published its head, plan and result
\* are final, and it is not completed for another head.
THEOREM PublicationIsFinal == Spec => PartialPublicationIsFinal
<1>1. ASSUME PipelineInv, PipelineInv', [Next]_vars, saved # None, Partly(saved)
      PROVE  /\ saved'.head = saved.head /\ saved'.plan = saved.plan
             /\ saved'.result = saved.result \/ saved.result = None
             /\ saved.published => saved'.published
             /\ saved.keys \subseteq saved'.keys
             /\ job'.status = "completed" => job'.head = saved.head
  <2>1. CASE UNCHANGED vars
    BY <1>1, <2>1 DEF vars, worker, PipelineInv, Resumed
  <2>2. CASE Next
    <3>1. mode' = "batch" /\ (saved' = saved \/ Advances)
      BY <1>1, <2>2, CheckpointSteps
    <3>2. job'.status = "completed" => job'.head = saved'.head
      BY <1>1, <3>1 DEF PipelineInv, Resumed
    <3> QED
      BY <3>1, <3>2 DEF Advances
  <2> QED
    BY <1>1, <2>1, <2>2
<1>2. PipelineInv /\ PipelineInv' /\ [Next]_vars =>
        (saved # None /\ (saved.published \/ saved.keys # {}) =>
           /\ saved'.head = saved.head /\ saved'.plan = saved.plan
           /\ saved'.result = saved.result \/ saved.result = None
           /\ saved.published => saved'.published
           /\ saved.keys \subseteq saved'.keys
           /\ job'.status = "completed" => job'.head = saved.head)
  BY <1>1 DEF Partly
<1> QED
  BY <1>2, PipelineInvariant, PTL DEF Spec, PartialPublicationIsFinal

\* How the counts of a head may change: one kind, at the step that runs it.
LEMMA SpentSteps ==
  ASSUME PipelineInv, Next, NEW h \in Heads
  PROVE  /\ spent'[h].memory = spent[h].memory
              \/ (Memory /\ h = job.head /\ ~(att.ck # None /\ att.ck.memory))
         /\ spent'[h].review = spent[h].review
              \/ (Review /\ h = job.head /\ ~(att.ck # None /\ att.ck.result # None))
         /\ spent'[h].chatter = spent[h].chatter
              \/ (Chatter /\ h = job.head /\ ~(att.ck # None /\ att.ck.chatter))
<1> USE DEF PipelineInv
<1>1. ASSUME NEW kind \in {"memory", "review", "chatter"}, Spend(kind)
      PROVE  \A k \in {"memory", "review", "chatter"} :
               spent'[h][k] = spent[h][k] \/ (k = kind /\ h = job.head)
  BY <1>1 DEF Spend, WorkerTypes, SpentType, JobType
<1>2. \/ UNCHANGED spent
      \/ Memory /\ Spend("memory") /\ ~(att.ck # None /\ att.ck.memory)
      \/ Review /\ Spend("review") /\ ~(att.ck # None /\ att.ck.result # None)
      \/ Chatter /\ Spend("chatter") /\ ~(att.ck # None /\ att.ck.chatter)
  BY NextCases, Edges DEF Aside, Load, Route, Memory, SaveMemory, Hydrate, Review, ReplaceFindings,
     Publish, ReconcileStep, worker, RecordPublished, Chatter, PostReply, SaveReplyKey, RepliesDone,
     MoveHead
<1> QED
  BY <1>1, <1>2

\* Work that a checkpoint records is never done again for its head.
THEOREM WorkIsNotRedone == Spec => SavedWorkIsNotRedone
<1>1. ASSUME PipelineInv, [Next]_vars, saved # None, saved'.head = saved.head
      PROVE  LET old == spent[saved.head]  new == spent'[saved.head]
             IN  /\ saved.memory => (saved'.memory /\ new.memory = old.memory)
                 /\ saved.result # None => (saved'.result = saved.result /\ new.review = old.review)
                 /\ saved.chatter => (saved'.chatter /\ new.chatter = old.chatter)
  <2>1. CASE UNCHANGED vars
    BY <1>1, <2>1 DEF vars, worker
  <2>2. CASE Next
    <3>1. mode = "batch" /\ (saved' = saved \/ Advances)
      BY <1>1, <2>2, CheckpointSteps
    <3>2. /\ saved.memory => saved'.memory
          /\ saved.result # None => saved'.result = saved.result
          /\ saved.chatter => saved'.chatter
      BY <3>1 DEF Advances
    <3>3. saved.head \in Heads
      BY <1>1 DEF PipelineInv, WorkerTypes, Checkpoint
    <3>4. Memory \/ Review \/ Chatter => att.ck = saved
      BY <1>1, <3>1, Flow DEF PipelineInv, Resumed, Routed
    <3> QED
      BY <1>1, <2>2, <3>2, <3>3, <3>4, SpentSteps
  <2> QED
    BY <1>1, <2>1, <2>2
<1>2. PipelineInv /\ [Next]_vars =>
        (saved # None /\ saved'.head = saved.head =>
           LET old == spent[saved.head]  new == spent'[saved.head]
           IN  /\ saved.memory => (saved'.memory /\ new.memory = old.memory)
               /\ saved.result # None => (saved'.result = saved.result /\ new.review = old.review)
               /\ saved.chatter => (saved'.chatter /\ new.chatter = old.chatter))
  BY <1>1
<1> QED
  BY <1>2, PipelineInvariant, PTL DEF Spec, SavedWorkIsNotRedone

=============================================================================
