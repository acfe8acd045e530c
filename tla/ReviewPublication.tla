------------------------- MODULE ReviewPublication -------------------------
(***************************************************************************)
(* One job publishes a review: the reconciliation of a review result with  *)
(* the discussions of a code review (discussion-reconciler.ts) through the *)
(* adapter of the hosting platform (github/ and gitlab/                    *)
(* review-publication-adapter.ts), call by call.  Each action is one call  *)
(* to the platform or one write to the storage; whoever drives the         *)
(* reconciliation may stop it between any two of them.                     *)
(*                                                                         *)
(* A finding is identified by its identity key, which is part of the       *)
(* marker in its comment.  One discussion of the bot, from an earlier      *)
(* review, exists already; a result may keep its finding, answer in it or  *)
(* close it.  People neither resolve nor reopen it meanwhile.              *)
(***************************************************************************)
EXTENDS Naturals, FiniteSets, Functions

CONSTANTS Inline, \* findings anchored in the diff: comments of a review
          Issue   \* the other findings: comments of the code review

ASSUME FindingsAssumption ==
  IsFiniteSet(Inline) /\ IsFiniteSet(Issue) /\ Inline \cap Issue = {}

Findings == Inline \cup Issue

\* What a result does with the prior discussion.  The first four name it in
\* a finding (unchanged, reworded, answered) or not at all; the last two are
\* dispositions without a finding.
Priors == {"none", "same", "changed", "answer", "resolve", "reply"}
Result == [findings : SUBSET Findings, prior : Priors]

VARIABLES
  host,  \* "github" or "gitlab"
  page,  \* what the platform shows
  db,    \* what the storage knows of the discussions
  pub    \* how far the reconciliation is

publication == <<host, page, db, pub>>

Page == [review    : {"none", "pending", "submitted"}, \* of this job's key
         comments  : SUBSET Inline,         \* the findings in that review
         stray     : BOOLEAN,               \* a pending review of another job
         drafts    : [Findings -> Nat],
         posted    : [Findings -> Nat],     \* discussions with its marker
         resolved  : BOOLEAN,               \* the prior discussion ...
         closable  : BOOLEAN,               \* ... may be closed by the bot
         text      : {"old", "new"},
         answers   : Nat,
         notices   : Nat,
         summaries : Nat]

Db == [mapped   : SUBSET Findings,          \* discussions that are mapped
       status   : {"open", "resolved"},     \* of the prior discussion
       finger   : {"old", "new"},
       finding  : {"open", "resolved"}]     \* status of its finding

Steps == {"idle", "existing", "answer", "answered", "updated", "findings",
          "review", "submit", "issues", "wait", "drafts", "bulk", "match",
          "persist", "prior", "closed", "notice", "replied", "summary",
          "done", "throw"}

NoResult == [findings |-> {}, prior |-> "none"]
Nothing == [posted |-> [f \in Findings |-> 0], resolved |-> FALSE, summaries |-> 0]
IdlePub == [pc |-> "idle", result |-> NoResult, todo |-> {}, seen |-> Nothing]

PublicationTypeOK ==
  /\ host \in {"github", "gitlab"}
  /\ page \in Page
  /\ db \in Db
  /\ pub.pc \in Steps
  /\ pub.result \in Result
  /\ pub.todo \subseteq Findings

PublicationInit ==
  /\ host \in {"github", "gitlab"}
  /\ \E resolved, closable, stray \in BOOLEAN :
       /\ stray => host = "github"
       /\ page = [review |-> "none", comments |-> {}, stray |-> stray,
                  drafts |-> [f \in Findings |-> 0],
                  posted |-> [f \in Findings |-> 0],
                  resolved |-> resolved, closable |-> closable, text |-> "old",
                  answers |-> 0, notices |-> 0, summaries |-> 0]
  /\ db = [mapped |-> {}, status |-> "open", finger |-> "old", finding |-> "open"]
  /\ pub = IdlePub

StatusOf(resolved) == IF resolved THEN "resolved" ELSE "open"

\* Before a review the status of the mapping, and of its finding, is taken
\* over from the discussion.
SyncedNever == db \* mutant of Synced
Synced == IF db.status = StatusOf(page.resolved) THEN db
          ELSE [db EXCEPT !.status = StatusOf(page.resolved),
                          !.finding = StatusOf(page.resolved)]

\* The context of a review: the discussions and comments it was given.
Context == [posted |-> page.posted, resolved |-> page.resolved,
            summaries |-> page.summaries]

StartPublication(result, seen) ==
  pub' = [pc |-> "existing", result |-> result, todo |-> {}, seen |-> seen]

\* What the platform's calls do to the prior discussion.
SetResolved(resolved) == page' = [page EXCEPT !.resolved = IF page.closable THEN resolved ELSE @]
ReplyInDiscussion == page' = [page EXCEPT !.answers = @ + 1]
EditComment(text) == page' = [page EXCEPT !.text = text]

Move(pc) == pub' = [pub EXCEPT !.pc = pc]
At(pc) == pub.pc = pc

-----------------------------------------------------------------------------
(* A finding that names the prior discussion.                              *)

FingerOf(prior) == IF prior = "same" THEN "old" ELSE "new"
ShouldReply == pub.result.prior = "answer" \/ pub.seen.resolved
KeptAsIs == db.finger = FingerOf(pub.result.prior) /\ ~ShouldReply

PersistExisting(status) ==
  db' = [db EXCEPT !.finger = FingerOf(pub.result.prior), !.status = status,
                   !.finding = "open"]

NoExisting ==
  /\ At("existing") /\ pub.result.prior \notin {"same", "changed", "answer"}
  /\ Move("findings") /\ UNCHANGED <<host, page, db>>

Keep ==
  /\ At("existing") /\ pub.result.prior \in {"same", "changed", "answer"}
  /\ KeptAsIs
  /\ PersistExisting("open")
  /\ Move("findings") /\ UNCHANGED <<host, page>>

\* The discussion is reopened where the platform permits it, then answered.
Reopen ==
  /\ At("existing") /\ pub.result.prior \in {"same", "changed", "answer"}
  /\ ShouldReply
  /\ IF pub.seen.resolved THEN SetResolved(FALSE) ELSE UNCHANGED page
  /\ Move("answer") /\ UNCHANGED <<host, db>>

Answer ==
  /\ At("answer")
  /\ ReplyInDiscussion
  /\ Move("answered") /\ UNCHANGED <<host, db>>

PersistAnswer ==
  /\ At("answered")
  /\ PersistExisting(StatusOf(pub.seen.resolved /\ ~page.closable))
  /\ Move("findings") /\ UNCHANGED <<host, page>>

Update ==
  /\ At("existing") /\ pub.result.prior \in {"same", "changed"}
  /\ ~KeptAsIs /\ ~ShouldReply
  /\ EditComment(FingerOf(pub.result.prior))
  /\ Move("updated") /\ UNCHANGED <<host, db>>

PersistUpdate ==
  /\ At("updated")
  /\ PersistExisting("open")
  /\ Move("findings") /\ UNCHANGED <<host, page>>

-----------------------------------------------------------------------------
(* The new findings on GitHub: found by their markers, or one review with  *)
(* the inline ones, found by the job's key, and a comment for each other.  *)

Visible == \A f \in pub.result.findings : page.posted[f] > 0

NoFindings ==
  /\ At("findings") /\ pub.result.findings = {}
  /\ Move("prior") /\ UNCHANGED <<host, page, db>>

FindPublished ==
  /\ At("findings") /\ pub.result.findings # {} /\ host = "github"
  /\ pub' = [pub EXCEPT
       !.todo = IF Visible THEN pub.result.findings ELSE pub.result.findings \cap Issue,
       !.pc = IF Visible THEN "persist"
              ELSE IF pub.result.findings \cap Inline # {} THEN "review" ELSE "issues"]
  /\ UNCHANGED <<host, page, db>>

ReuseReview ==
  /\ At("review") /\ page.review # "none"
  /\ Move(IF page.review = "pending" THEN "submit" ELSE "issues")
  /\ UNCHANGED <<host, page, db>>

DeleteStrayReview ==
  /\ At("review") /\ page.review = "none" /\ page.stray
  /\ page' = [page EXCEPT !.stray = FALSE]
  /\ UNCHANGED <<host, db, pub>>

CreateReview ==
  /\ At("review") /\ page.review = "none" /\ ~page.stray
  /\ page' = [page EXCEPT !.review = "pending",
                          !.comments = pub.result.findings \cap Inline]
  /\ Move("submit") /\ UNCHANGED <<host, db>>

SubmitReview ==
  /\ At("submit")
  /\ page' = [page EXCEPT !.review = "submitted",
       !.posted = [f \in Findings |-> IF f \in page.comments THEN @[f] + 1 ELSE @[f]]]
  /\ Move("issues") /\ UNCHANGED <<host, db>>

\* Mutant of CreateIssueFinding: no look at the comments that exist.
CreateIssueFindingBlindly ==
  /\ At("issues")
  /\ \E f \in pub.todo :
       /\ page' = [page EXCEPT !.posted[f] = @ + 1]
       /\ pub' = [pub EXCEPT !.todo = @ \ {f}]
  /\ UNCHANGED <<host, db>>

CreateIssueFinding ==
  /\ At("issues")
  /\ \E f \in pub.todo :
       /\ page' = [page EXCEPT !.posted[f] = IF @ = 0 THEN 1 ELSE @]
       /\ pub' = [pub EXCEPT !.todo = @ \ {f}]
  /\ UNCHANGED <<host, db>>

IssuesDone ==
  /\ At("issues") /\ pub.todo = {}
  /\ Move("wait") /\ UNCHANGED <<host, page, db>>

\* Mutant of AwaitPublished: findings that do not show are taken for published.
AwaitNothing ==
  /\ At("wait")
  /\ pub' = [pub EXCEPT !.pc = "persist", !.todo = pub.result.findings]
  /\ UNCHANGED <<host, page, db>>

\* Findings that do not show are an error.
AwaitPublished ==
  /\ At("wait")
  /\ pub' = [pub EXCEPT !.pc = IF Visible THEN "persist" ELSE "throw",
                        !.todo = pub.result.findings]
  /\ UNCHANGED <<host, page, db>>

-----------------------------------------------------------------------------
(* The new findings on GitLab: a draft for each, all published at once,    *)
(* then found among the discussions that the context did not have.         *)

StartDrafts ==
  /\ At("findings") /\ pub.result.findings # {} /\ host = "gitlab"
  /\ pub' = [pub EXCEPT !.pc = "drafts", !.todo = pub.result.findings]
  /\ UNCHANGED <<host, page, db>>

CreateDraft ==
  /\ At("drafts")
  /\ \E f \in pub.todo :
       /\ page' = [page EXCEPT !.drafts[f] = @ + 1]
       /\ pub' = [pub EXCEPT !.todo = @ \ {f},
                             !.pc = IF pub.todo = {f} THEN "bulk" ELSE @]
  /\ UNCHANGED <<host, db>>

\* Publishes every draft the bot has on the code review.
BulkPublish ==
  /\ At("bulk")
  /\ page' = [page EXCEPT !.posted = [f \in Findings |-> @[f] + page.drafts[f]],
                          !.drafts = [f \in Findings |-> 0]]
  /\ Move("match") /\ UNCHANGED <<host, db>>

Matched(fs) == \A f \in fs : page.posted[f] > pub.seen.posted[f]

MatchDrafts ==
  /\ At("match") /\ Matched(pub.result.findings)
  /\ pub' = [pub EXCEPT !.pc = "persist", !.todo = pub.result.findings]
  /\ UNCHANGED <<host, page, db>>

\* An error while drafts are made, published or matched: if they turn out to
\* be published the publication goes on, otherwise the drafts made so far are
\* deleted, as far as that succeeds, and the error is thrown again.
DraftError ==
  /\ pub.pc \in {"drafts", "bulk", "match"}
  /\ LET drafted == IF At("drafts") THEN pub.result.findings \ pub.todo
                    ELSE pub.result.findings
     IN  IF drafted = pub.result.findings /\ Matched(drafted)
         THEN /\ pub' = [pub EXCEPT !.pc = "persist", !.todo = drafted]
              /\ UNCHANGED page
         ELSE \E deleted \in SUBSET drafted :
                /\ page' = [page EXCEPT !.drafts =
                     [f \in Findings |-> IF f \in deleted /\ @[f] > 0 THEN @[f] - 1 ELSE @[f]]]
                /\ Move("throw")
  /\ UNCHANGED <<host, db>>

PersistFinding ==
  /\ At("persist")
  /\ \E f \in pub.todo :
       /\ db' = [db EXCEPT !.mapped = @ \cup {f}]
       /\ pub' = [pub EXCEPT !.todo = @ \ {f},
                             !.pc = IF pub.todo = {f} THEN "prior" ELSE @]
  /\ UNCHANGED <<host, page>>

-----------------------------------------------------------------------------
(* A disposition without a finding, then the summary comment.              *)

NoDisposition ==
  /\ At("prior") /\ pub.result.prior \notin {"resolve", "reply"}
  /\ Move("summary") /\ UNCHANGED <<host, page, db>>

Close ==
  /\ At("prior") /\ pub.result.prior = "resolve"
  /\ IF pub.seen.resolved THEN UNCHANGED page ELSE SetResolved(TRUE)
  /\ Move("closed") /\ UNCHANGED <<host, db>>

\* The finding is resolved in the storage even if the discussion stays open;
\* then people are asked to close it.
PersistClosed ==
  /\ At("closed")
  /\ LET skipped == ~pub.seen.resolved /\ ~page.closable
     IN  /\ db' = [db EXCEPT !.status = StatusOf(~skipped), !.finding = "resolved"]
         /\ Move(IF skipped THEN "notice" ELSE "summary")
  /\ UNCHANGED <<host, page>>

Notify ==
  /\ At("notice")
  /\ page' = [page EXCEPT !.notices = IF @ = 0 THEN 1 ELSE @]
  /\ Move("summary") /\ UNCHANGED <<host, db>>

Reply ==
  /\ At("prior") /\ pub.result.prior = "reply"
  /\ ReplyInDiscussion
  /\ Move("replied") /\ UNCHANGED <<host, db>>

PersistReply ==
  /\ At("replied")
  /\ db' = [db EXCEPT !.status = StatusOf(pub.seen.resolved),
                      !.finding = StatusOf(pub.seen.resolved)]
  /\ Move("summary") /\ UNCHANGED <<host, page>>

\* GitHub lists the comments now; GitLab uses those of the context.
HasSummaryNow == page.summaries > 0
HadSummary == pub.seen.summaries > 0

UpsertSummary ==
  /\ At("summary")
  /\ page' = [page EXCEPT !.summaries =
       IF (IF host = "github" THEN HasSummaryNow ELSE HadSummary) THEN @ ELSE @ + 1]
  /\ Move("done") /\ UNCHANGED <<host, db>>

Reconcile ==
  \/ NoExisting \/ Keep \/ Reopen \/ Answer \/ PersistAnswer \/ Update \/ PersistUpdate
  \/ NoFindings \/ FindPublished \/ ReuseReview \/ DeleteStrayReview \/ CreateReview
  \/ SubmitReview \/ CreateIssueFinding \/ IssuesDone \/ AwaitPublished
  \/ StartDrafts \/ CreateDraft \/ BulkPublish \/ MatchDrafts \/ DraftError \/ PersistFinding
  \/ NoDisposition \/ Close \/ PersistClosed \/ Notify \/ Reply \/ PersistReply
  \/ UpsertSummary

=============================================================================
