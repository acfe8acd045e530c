---------------------------- MODULE ReviewWatch ----------------------------
(***************************************************************************)
(* `review start` without a publication, watching its job: the command     *)
(* reads the job, then its runs, chooses the attempt to follow, tails that *)
(* attempt's log file, and ends when both have settled.  Meanwhile the     *)
(* worker claims, logs, fails, is retried, loses its lease and is          *)
(* reconciled; the tenant may be removed, the file cut, the watch left.    *)
(***************************************************************************)
EXTENDS Naturals, Sequences

CONSTANTS
  WatchRuns,     \* bound: runs of the job
  WatchRetries,  \* maxJobRetries
  LogPieces,     \* bound: pieces of lines in the log of a run
  Shown          \* DASHBOARD_ACTIVITY_EVENTS

ASSUME WatchAssumption == WatchRuns \in Nat /\ Shown \in Nat

VARIABLES
  watched,      \* the row of the job: [status, token, latest, retries]
  watchedRuns,  \* its runs: [token, status, findings]
  logs,         \* pieces in the log of each run, two to a line
  cut,          \* was a log ever cut?
  watcher,      \* what the watch remembers
  view,         \* the dashboard: [activities, summary]
  exit          \* "none", or how the command ended

watchVars == <<watched, watchedRuns, logs, cut, watcher, view, exit>>

NoRun == 0
Ended == {"completed", "failed", "expired", "cancelled"}
Removed == [status |-> "removed", token |-> 0, latest |-> 0, retries |-> 0]
NewTail == [offset |-> 0, buffer |-> <<>>, lines |-> <<>>, available |-> FALSE]

WatchInit ==
  /\ watched = [status |-> "queued", token |-> 0, latest |-> NoRun, retries |-> 0]
  /\ watchedRuns = <<>>
  /\ logs = <<>>
  /\ cut = FALSE
  /\ watcher = [step |-> "job", job |-> Removed, run |-> NoRun, seen |-> "none",
                tail |-> NewTail]
  /\ view = [activities |-> <<>>, summary |-> <<>>]
  /\ exit = "none"

----------------------------------------------------------------------------
(* The worker and the rest of the world *)

Newest == Len(watchedRuns)
SetStatus(s) == watched' = [watched EXCEPT !.status = s, !.token = 0]
SetRunStatus(r, s) == watchedRuns' = [watchedRuns EXCEPT ![r].status = s]
AttemptRuns == Newest > 0 /\ watched.status = "in_progress" /\ watchedRuns[Newest].token = watched.token
Running == AttemptRuns /\ watchedRuns[Newest].status = "in_progress"
WatchStays == UNCHANGED <<cut, watcher, view, exit>>

WorkerClaims ==
  /\ watched.status = "queued"
  /\ watched' = [watched EXCEPT !.status = "in_progress", !.token = watched.retries + 1]
  /\ UNCHANGED <<watchedRuns, logs>> /\ WatchStays

WorkerStartsRun ==
  /\ watched.status = "in_progress" /\ ~AttemptRuns /\ Newest < WatchRuns
  /\ watchedRuns' = Append(watchedRuns,
       [token |-> watched.token, status |-> "in_progress", findings |-> 0])
  /\ watched' = [watched EXCEPT !.latest = Newest + 1]
  /\ logs' = Append(logs, 0)
  /\ WatchStays

\* A line reaches the file in two pieces.
WorkerLogs ==
  /\ Running /\ logs[Newest] < LogPieces
  /\ logs' = [logs EXCEPT ![Newest] = @ + 1]
  /\ UNCHANGED <<watched, watchedRuns>> /\ WatchStays

WorkerFinds ==
  /\ Running /\ watchedRuns[Newest].findings = 0
  /\ watchedRuns' = [watchedRuns EXCEPT ![Newest].findings = 1]
  /\ UNCHANGED <<watched, logs>> /\ WatchStays

\* A failed attempt that published nothing withdraws its findings first.
WorkerEndsRun ==
  /\ Running
  /\ \/ SetRunStatus(Newest, "completed")
     \/ \E s \in {"failed", "cancelled"}, kept \in {0, watchedRuns[Newest].findings} :
          watchedRuns' = [watchedRuns EXCEPT ![Newest].status = s, ![Newest].findings = kept]
  /\ UNCHANGED <<watched, logs>> /\ WatchStays

Requeued(s) ==
  IF watched.retries < WatchRetries
  THEN watched' = [watched EXCEPT !.status = "queued", !.token = 0, !.retries = @ + 1]
  ELSE SetStatus(s)

WorkerEndsJob ==
  /\ AttemptRuns
  /\ \/ watchedRuns[Newest].status = "completed" /\ SetStatus("completed")
     \/ watchedRuns[Newest].status = "failed" /\ (Requeued("failed") \/ SetStatus("failed"))
     \/ watchedRuns[Newest].status = "cancelled" /\ SetStatus("cancelled")
  /\ UNCHANGED <<watchedRuns, logs>> /\ WatchStays

\* The attempt dies where it is; another claim gives its job back.
LeaseIsLost ==
  /\ watched.status = "in_progress"
  /\ Requeued("failed")
  /\ UNCHANGED <<watchedRuns, logs>> /\ WatchStays

JobTooOld ==
  /\ watched.status = "queued"
  /\ SetStatus("expired")
  /\ UNCHANGED <<watchedRuns, logs>> /\ WatchStays

RunsReconciled ==
  /\ \E r \in DOMAIN watchedRuns :
       /\ \/ /\ watchedRuns[r].status = "in_progress"
             /\ ~(watched.status = "in_progress" /\ watched.token = watchedRuns[r].token)
          \/ /\ watchedRuns[r].status = "completed" /\ r = watched.latest
             /\ watched.status # "completed"
             /\ ~(watched.status = "in_progress" /\ watched.token = watchedRuns[r].token)
       /\ SetRunStatus(r, "failed")
  /\ UNCHANGED <<watched, logs>> /\ WatchStays

\* Removing the tenant deletes the runs first and then the job.
TenantGoes ==
  /\ \/ /\ watched.status \in Ended \cup {"queued"} /\ watchedRuns # <<>>
        /\ watchedRuns' = <<>>
        /\ watched' = IF watched.status = "queued"
                      THEN [watched EXCEPT !.status = "cancelled"] ELSE watched
     \/ /\ watched.status \in Ended /\ watchedRuns = <<>>
        /\ watched' = Removed /\ UNCHANGED watchedRuns
  /\ UNCHANGED logs /\ WatchStays

LogIsCut ==
  /\ \E r \in DOMAIN logs : logs[r] > 0 /\ logs' = [logs EXCEPT ![r] = 0]
  /\ ~cut /\ cut' = TRUE
  /\ UNCHANGED <<watched, watchedRuns, watcher, view, exit>>

----------------------------------------------------------------------------
(* The watch *)

WatchAt(s) == exit = "none" /\ watcher.step = s
LeavesWith(how) == exit' = how /\ UNCHANGED <<watcher, view>>
WorldStays == UNCHANGED <<watched, watchedRuns, logs, cut>>

\* selectReviewAttempt: the run of the claim of a job in progress, the
\* latest run of any other job.  A latest run that is gone is an error.
ByClaim(job) == {r \in DOMAIN watchedRuns : watchedRuns[r].token = job.token}
Selected(job) ==
  IF job.status = "in_progress"
  THEN IF ByClaim(job) = {} THEN NoRun
       ELSE CHOOSE r \in ByClaim(job) : \A o \in ByClaim(job) : o <= r
  ELSE job.latest
RunMissing(job) ==
  job.status # "in_progress" /\ job.latest # NoRun /\ job.latest \notin DOMAIN watchedRuns

\* SIGINT and SIGTERM are looked at between two rounds only.
Aborts ==
  /\ WatchAt("job") /\ LeavesWith("aborted")
  /\ WorldStays

ReadsJob ==
  /\ WatchAt("job")
  /\ IF watched.status = "removed"
     THEN LeavesWith("error")
     ELSE /\ watcher' = [watcher EXCEPT !.step = "runs", !.job = watched]
          /\ UNCHANGED <<view, exit>>
  /\ WorldStays

\* Another run starts with a log of its own.
Follows(run, status, tail) ==
  watcher' = [watcher EXCEPT
    !.step = IF run = NoRun THEN "judge" ELSE "tail",
    !.run = run, !.seen = status, !.tail = tail]

\* Mutant: the place in the old log is kept for the new one.
TailKept(run) == watcher.tail

TailFor(run) == IF run = watcher.run THEN watcher.tail ELSE NewTail

ReadsRuns ==
  /\ WatchAt("runs")
  /\ LET run == Selected(watcher.job)
     IN  IF RunMissing(watcher.job) THEN LeavesWith("error")
         ELSE /\ Follows(run, IF run = NoRun THEN "none" ELSE watchedRuns[run].status, TailFor(run))
              /\ UNCHANGED <<view, exit>>
  /\ WorldStays

\* What the file holds from one place to another.
Pieces(from, to) == [i \in 1..(to - from) |-> from + i]

\* Pieces 2k - 1 and 2k make line k.
LinesOf(pieces) == [k \in 1..(Len(pieces) \div 2) |-> <<pieces[2*k - 1], pieces[2*k]>>]
RestOf(pieces) == IF Len(pieces) % 2 = 0 THEN <<>> ELSE <<pieces[Len(pieces)]>>

\* A file that became shorter is read from its beginning.
StartOf(tail, size) == IF size < tail.offset THEN NewTail.offset ELSE tail.offset
BufferOf(tail, size) == IF size < tail.offset THEN <<>> ELSE tail.buffer

TailsLog ==
  /\ WatchAt("tail")
  /\ LET tail == watcher.tail
         size == logs[watcher.run]
         text == BufferOf(tail, size) \o Pieces(StartOf(tail, size), size)
         whole == LinesOf(text)
     IN  /\ watcher' = [watcher EXCEPT !.step = "judge",
              !.tail = [offset |-> size, buffer |-> RestOf(text),
                        lines |-> @.lines \o whole, available |-> TRUE]]
         /\ view' = [view EXCEPT !.activities =
              LET all == @ \o whole
              IN  SubSeq(all, IF Len(all) > Shown THEN Len(all) - Shown + 1 ELSE 1, Len(all))]
  /\ UNCHANGED exit /\ WorldStays

\* No log file in reach: statuses and findings do not depend on it.
LogUnavailable ==
  /\ WatchAt("tail")
  /\ watcher' = [watcher EXCEPT !.step = "judge"]
  /\ UNCHANGED <<view, exit>> /\ WorldStays

Settled == watcher.job.status \in Ended /\ (watcher.run = NoRun \/ watcher.seen \in Ended)

Judges ==
  /\ WatchAt("judge")
  /\ watcher' = IF Settled THEN [watcher EXCEPT !.step = "findings"]
                ELSE [watcher EXCEPT !.step = "job", !.job = Removed]
  /\ UNCHANGED <<view, exit>> /\ WorldStays

Summary(findings) ==
  [job |-> watcher.job.status, run |-> watcher.run, runStatus |-> watcher.seen,
   findings |-> findings, available |-> watcher.tail.available]

CountsFindings ==
  /\ WatchAt("findings")
  /\ view' = [view EXCEPT !.summary =
       <<Summary(IF watcher.run \in DOMAIN watchedRuns
                 THEN watchedRuns[watcher.run].findings ELSE 0)>>]
  /\ IF watcher.job.status = "completed"
     THEN watcher' = [watcher EXCEPT !.step = "result"] /\ UNCHANGED exit
     ELSE exit' = "1" /\ UNCHANGED watcher
  /\ WorldStays

\* The result of the completed run is read once more and shown.
LoadsResult ==
  /\ WatchAt("result")
  /\ IF watcher.run \in DOMAIN watchedRuns /\ watchedRuns[watcher.run].status = "completed"
     THEN LeavesWith("0") ELSE LeavesWith("error")
  /\ WorldStays

WatchNext ==
  \/ WorkerClaims \/ WorkerStartsRun \/ WorkerLogs \/ WorkerFinds \/ WorkerEndsRun
  \/ WorkerEndsJob \/ LeaseIsLost \/ JobTooOld \/ RunsReconciled \/ TenantGoes \/ LogIsCut
  \/ Aborts \/ ReadsJob \/ ReadsRuns \/ TailsLog \/ LogUnavailable \/ Judges
  \/ CountsFindings \/ LoadsResult

WatchTypeOK ==
  /\ watched.latest \in 0..WatchRuns /\ Len(watchedRuns) <= WatchRuns
  /\ watcher.step \in {"job", "runs", "tail", "judge", "findings", "result"}
  /\ exit \in {"none", "0", "1", "error", "aborted"}
  /\ Len(view.activities) <= Shown

----------------------------------------------------------------------------
(* Properties *)

Line(k) == <<2*k - 1, 2*k>>

\* The lines told of the attempt that is followed are the lines of its log,
\* from the first one on, each once and whole, as far as it was read.
LinesInOrder ==
  ~cut =>
    /\ \A k \in DOMAIN watcher.tail.lines : watcher.tail.lines[k] = Line(k)
    /\ Len(watcher.tail.lines) = watcher.tail.offset \div 2
    /\ watcher.run \in DOMAIN logs => watcher.tail.offset <= logs[watcher.run]

\* What the summary says is how things stayed: the job ended that way, the
\* run is its latest one, and a completed job has a completed run.
SummaryIsFinal ==
  view.summary # <<>> =>
    LET sum == view.summary[1]
    IN  /\ watched.status \in {sum.job, "removed"}
        /\ watched.latest \in {sum.run, NoRun}
        /\ sum.job = "completed" => sum.runStatus = "completed"
        /\ watchedRuns # <<>> /\ sum.run # NoRun => watchedRuns[sum.run].findings = sum.findings

\* A watch that ends by itself ends with the truth, and its lines belong to
\* the attempt it followed; it fails only when the job or its runs were
\* removed.
WatchTellsTheEnd ==
  /\ LinesInOrder
  /\ SummaryIsFinal
  /\ exit = "0" => view.summary[1].job = "completed"
  /\ exit = "error" => watched.status = "removed" \/ watchedRuns = <<>>

=============================================================================
