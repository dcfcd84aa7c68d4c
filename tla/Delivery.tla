------------------------------ MODULE Delivery ------------------------------
(***************************************************************************)
(* Coverage on its way from CI to a pull request.  A job is one execution  *)
(* of omnivoreUpload (OmnivoreUploadTask.kt) or of the upload-coverage     *)
(* action: it uploads its report files one after the other.  Each upload   *)
(* is one request to the ingest handler (routes/coverage.rs), which passes *)
(* the rate limiter, stores a snapshot, and then comments on the pull      *)
(* request (github/pr_client.rs): it reads a baseline, looks for its own   *)
(* comment and updates that or posts a new one.  A handler is suspended at *)
(* every await (up[u].pc), and it outlives a client that stopped waiting.  *)
(*                                                                         *)
(* Ingest models all that storing a snapshot does to the database; here it *)
(* is two steps, the row and the pruning that follows it: of what happens  *)
(* in between, a baseline can only tell that it may fail.                  *)
(***************************************************************************)
EXTENDS Sequences, RateLimiter

CONSTANTS
    Jobs,         \* CI jobs that upload
    Plan,         \* what each job is: see JobSpec
    Branches,
    MaxStarts,    \* bound: how often jobs are started in all
    PageSize,     \* comments GitHub returns for ?per_page=100
    MaxComments,  \* bound: comments of the pull request
    Crashes,      \* may the server restart?
    GitHubFaults, \* may a call to GitHub fail?
    SeriesOf,     \* each upload's (target, source)
    Retentions,   \* how many rows a series may keep: retention_full plus
                  \* retention_summary, as set at any time or by default (a
                  \* sum that overflows is Ingest's concern)
    NoUpload

\* comments: github_repo and pr_number are sent.  token: X-GitHub-Token too.
\* runs: bound, how often the job is started (a re-run starts over).
JobSpec == [kind: {"gradle", "action"}, files: Nat \ {0}, branch: Branches,
            base: Branches, address: Clients, comments: BOOLEAN,
            token: BOOLEAN, runs: Nat]
Uploads == UNION {{j} \X (1..Plan[j].runs) \X (1..Plan[j].files) : j \in Jobs}
JobOf(u) == Plan[u[1]]

ASSUME DeliveryAssumption ==
    /\ Plan \in [Jobs -> JobSpec]
    /\ {MaxStarts, PageSize, MaxComments} \subseteq Nat
    /\ {Crashes, GitHubFaults} \subseteq BOOLEAN
    /\ IsFiniteSet(Uploads) /\ DOMAIN SeriesOf = Uploads
    /\ Retentions \subseteq Nat \ {0}
    /\ NoUpload \notin Jobs \X Nat \X Nat

VARIABLES
    job,       \* the CI jobs
    up,        \* the uploads and the locals of their handlers
    gone,      \* what became of an upload's row after it was inserted
    comments,  \* the pull request's comments, oldest first
    parsed     \* snapshots made so far: created_at is a place in that order

vars == <<limiter, job, up, gone, comments, parsed>>

Handling == {"limit", "parse", "store", "prune", "token", "baseline", "find",
             "write"}
Upload == [
    pc: Handling \union {"unsent", "answered", "dropped"},
    status: {"none", "created", "error"},  \* all a client tells apart
    heard: BOOLEAN,                        \* auxiliary: the job got the answer
    after: SUBSET Uploads,                 \* auxiliary: heard before this was sent
    created: Nat,                          \* snapshot.created_at
    stored: BOOLEAN,                       \* its row was inserted
    base: Uploads \union {NoUpload},       \* the baseline that was read
    failed: BOOLEAN,                       \* auxiliary: ... or could not be read
    found: Nat, looked: Nat]               \* existing_id, and among how many
Job == [state: {"idle", "ready", "waiting", "ok", "failed"},
        run: Nat, file: Nat, failed: BOOLEAN]
\* by: the upload the comment is about; looked: how many comments there were
\* when the handler that posted it looked for one.
Comment == [by: Uploads \union {NoUpload}, looked: Nat]

TypeOK ==
    /\ LimiterTypeOK
    /\ job \in [Jobs -> Job]
    /\ up \in [Uploads -> Upload]
    /\ gone \in [Uploads -> {"no", "pruned", "deleted"}]
    /\ comments \in Seq(Comment)
    /\ parsed \in Nat

Unsent == [pc |-> "unsent", status |-> "none", heard |-> FALSE, after |-> {},
           created |-> 0, stored |-> FALSE, base |-> NoUpload,
           failed |-> FALSE, found |-> 0, looked |-> 0]

Init ==
    /\ LimiterInit
    /\ job = [j \in Jobs |->
                [state |-> "idle", run |-> 0, file |-> 0, failed |-> FALSE]]
    /\ up = [u \in Uploads |-> Unsent]
    /\ gone = [u \in Uploads |-> "no"]
    /\ comments = << >>
    /\ parsed = 0

Pc(u) == up[u].pc
Current(j) == <<j, job[j].run, job[j].file>>
Waited(u) == job[u[1]].state = "waiting" /\ Current(u[1]) = u
Goto(u, pc) == up' = [up EXCEPT ![u].pc = pc]
\* The handler returns and its locals are gone.
Reply(u, status) ==
    up' = [up EXCEPT ![u] = [@ EXCEPT !.pc = "answered", !.status = status,
                               !.base = NoUpload, !.failed = FALSE,
                               !.found = 0, !.looked = 0]]

-----------------------------------------------------------------------------
(* The CI jobs *)

\* A job is started, or started again after it failed.
Start(j) ==
    /\ job[j].state \in {"idle", "failed"}
    /\ job[j].run < Plan[j].runs
    /\ Cardinality(UNION {{k} \X (1..job[k].run) : k \in Jobs}) < MaxStarts
    /\ job' = [job EXCEPT ![j] = [state |-> "ready", run |-> @.run + 1,
                                  file |-> 1, failed |-> FALSE]]
    /\ UNCHANGED <<limiter, up, gone, comments, parsed>>

\* The file is posted.
Send(j) ==
    /\ job[j].state = "ready"
    /\ job' = [job EXCEPT ![j].state = "waiting"]
    /\ up' = [up EXCEPT ![Current(j)].pc = "limit",
                        ![Current(j)].after = {u \in Uploads : up[u].heard}]
    /\ UNCHANGED <<limiter, gone, comments, parsed>>

\* The loop over the files: the next one, or the end of the job.
Advance(j, bad) ==
    job' = [job EXCEPT ![j] =
              [@ EXCEPT !.failed = job[j].failed \/ bad,
                        !.file = IF job[j].file < Plan[j].files THEN job[j].file + 1
                                 ELSE job[j].file,
                        !.state = IF job[j].file < Plan[j].files THEN "ready"
                                  ELSE IF job[j].failed \/ bad THEN "failed"
                                  ELSE "ok"]]
Abort(j) == job' = [job EXCEPT ![j].state = "failed"]

\* Mutant of HandleAnswer: the action forgets FAILED=1.
HandleAnswerForgetful(j, good) ==
    IF good \/ Plan[j].kind = "action" THEN Advance(j, FALSE) ELSE Abort(j)

\* The task throws on an answer that is not 2xx; the action goes on with the
\* next file and fails at the end.
HandleAnswer(j, good) ==
    IF good \/ Plan[j].kind = "action" THEN Advance(j, ~good) ELSE Abort(j)

Hear(j) ==
    /\ job[j].state = "waiting"
    /\ up[Current(j)].status # "none"
    /\ Pc(Current(j)) # "dropped"
    /\ up' = [up EXCEPT ![Current(j)].heard = TRUE]
    /\ HandleAnswer(j, up[Current(j)].status = "created")
    /\ UNCHANGED <<limiter, gone, comments, parsed>>

\* Mutant of TimesOut: no read timeout.
TimesOutNever(j) == FALSE

\* setReadTimeout(30 s); curl is given no --max-time.
TimesOut(j) == Plan[j].kind = "gradle"

\* No answer: the task's timeout, or a connection that broke with the server.
\* The task throws; the action's shell runs with -e and ends when curl fails.
GiveUp(j) ==
    /\ job[j].state = "waiting"
    /\ TimesOut(j) \/ Pc(Current(j)) = "dropped"
    /\ Abort(j)
    /\ UNCHANGED <<limiter, up, gone, comments, parsed>>

-----------------------------------------------------------------------------
(* The ingest handler *)

\* rate_limit::check, before anything else.
Arrive(u) ==
    /\ Pc(u) = "limit"
    /\ \E v \in Verdicts :
          /\ Check(JobOf(u).address, v)
          /\ IF v = "refused" THEN Reply(u, "error") ELSE Goto(u, "parse")
    /\ UNCHANGED <<job, gone, comments, parsed>>

\* Somebody else's request: it counts, and ends in authentication or parsing.
Stray(c) ==
    /\ \E v \in Verdicts : Check(c, v)
    /\ UNCHANGED <<job, up, gone, comments, parsed>>

\* Authenticated; the body is refused, or becomes a snapshot dated now.
Parse(u) ==
    /\ Pc(u) = "parse"
    /\ \/ Reply(u, "error") /\ UNCHANGED parsed
       \/ /\ parsed' = parsed + 1
          /\ up' = [up EXCEPT ![u].pc = "store", ![u].created = parsed + 1]
    /\ UNCHANGED <<limiter, job, gone, comments>>

\* Mutant of AnswersNow: the comment is left to a task in the background.
AnswersAtOnce(u) == TRUE

\* Without a comment to make the snapshot's answer is sent at once.
AnswersNow(u) == ~JobOf(u).comments

\* What follows db.ingest_snapshot; a caller's own token needs no lookup.
AfterStore(u) ==
    IF ~JobOf(u).comments THEN "answered"
    ELSE IF JobOf(u).token THEN "baseline" ELSE "token"

\* ingest_snapshot inserts the snapshot, or fails before that.
Store(u) ==
    /\ Pc(u) = "store"
    /\ \/ Reply(u, "error")
       \/ up' = [up EXCEPT ![u].pc = "prune", ![u].stored = TRUE]
    /\ UNCHANGED <<limiter, job, gone, comments, parsed>>

Rows == {q \in Uploads : up[q].stored /\ gone[q] = "no"}

\* The rows of the upload's series, whatever their branch, beyond the newest k.
Surplus(u, k) ==
    LET series == {q \in Rows : SeriesOf[q] = SeriesOf[u]} IN
    {q \in series :
        Cardinality({p \in series : up[p].created > up[q].created}) >= k}

Prunes(u, k) ==
    gone' = [q \in Uploads |-> IF q \in Surplus(u, k) THEN "pruned" ELSE gone[q]]

\* The rest of ingest_snapshot: the ratchet and prune_snapshots, which deletes
\* rows last.  It may fail before or after that.
Prune(u) ==
    /\ Pc(u) = "prune"
    /\ \/ Reply(u, "error") /\ UNCHANGED gone
       \/ \E k \in Retentions :
             /\ Prunes(u, k)
             /\ \/ Reply(u, "error")
                \/ up' = [up EXCEPT ![u].pc = AfterStore(u),
                              ![u].status = IF AnswersNow(u) THEN "created" ELSE "none"]
    /\ UNCHANGED <<limiter, job, comments, parsed>>

\* Without a token of the caller's: the server's, if the project (which may be
\* linked and unlinked at any time) names that repository and GITHUB_TOKEN is
\* set; else there is no comment.
Token(u) ==
    /\ Pc(u) = "token"
    /\ \/ Goto(u, "baseline")
       \/ Reply(u, "created")
    /\ UNCHANGED <<limiter, job, gone, comments, parsed>>

OnBase(u) ==
    {q \in Rows : JobOf(q).branch = JobOf(u).base}

\* Mutant of Baseline: ORDER BY created_at without DESC.
BaselineOldest(u) ==
    CHOOSE q \in OnBase(u) : \A p \in OnBase(u) : up[q].created <= up[p].created

\* get_latest_snapshot_for_branch(base_branch): of any target and source.
Baseline(u) ==
    CHOOSE q \in OnBase(u) : \A p \in OnBase(u) : up[q].created >= up[p].created

\* A read that fails is taken for "no baseline".
ReadBaseline(u) ==
    /\ Pc(u) = "baseline"
    /\ \/ up' = [up EXCEPT ![u].pc = "find", ![u].failed = TRUE]
       \/ up' = [up EXCEPT ![u].pc = "find",
                     ![u].base = IF OnBase(u) = {} THEN NoUpload
                                 ELSE Baseline(u)]
    /\ UNCHANGED <<limiter, job, gone, comments, parsed>>

(* The pull request (github/pr_client.rs; GitHub itself is external) *)

Marked(k) == comments[k].by # NoUpload
Page == {k \in DOMAIN comments : k <= PageSize}

\* Mutant of FindFails: a failed search is taken for "no comment yet".
FindFailsQuietly(u) ==
    up' = [up EXCEPT ![u].pc = "write", ![u].looked = Len(comments)]

\* An error ends the attempt; it is only logged.
FindFails(u) == Reply(u, "created")

\* find_existing_comment: the first one on the first page with the marker.
Find(u) ==
    /\ Pc(u) = "find"
    /\ \/ GitHubFaults /\ FindFails(u)
       \/ LET mine == {k \in Page : Marked(k)} IN
          up' = [up EXCEPT
                   ![u].pc = "write",
                   ![u].looked = Len(comments),
                   ![u].found = IF mine = {} THEN 0
                                ELSE CHOOSE k \in mine : \A l \in mine : k <= l]
    /\ UNCHANGED <<limiter, job, gone, comments, parsed>>

\* What generate_comment writes, as far as the rest tells comments apart.
Body(u, looked) == [by |-> u, looked |-> looked]

\* update_comment or create_comment; it may fail, or be done and its answer
\* lost.  The upload is answered 201 in any case.
Write(u) ==
    /\ Pc(u) = "write"
    /\ \/ GitHubFaults /\ UNCHANGED comments
       \/ /\ up[u].found # 0
          /\ comments' = [comments EXCEPT ![up[u].found] =
                             Body(u, @.looked)]
       \/ /\ up[u].found = 0
          /\ Len(comments) < MaxComments
          /\ comments' = Append(comments, Body(u, up[u].looked))
    /\ Reply(u, "created")
    /\ UNCHANGED <<limiter, job, gone, parsed>>

\* Somebody writes a comment.
Chat ==
    /\ Len(comments) < MaxComments
    /\ comments' = Append(comments, [by |-> NoUpload, looked |-> 0])
    /\ UNCHANGED <<limiter, job, up, gone, parsed>>

-----------------------------------------------------------------------------
(* The surroundings *)

InHandler(u) == Pc(u) \in Handling
Unheard(u) == Pc(u) = "answered" /\ Waited(u)

\* The server drops a handler whose client is gone.
Drop(u) ==
    /\ InHandler(u)
    /\ ~Waited(u)
    /\ Goto(u, "dropped")
    /\ UNCHANGED <<limiter, job, gone, comments, parsed>>

\* The server stops and starts; connections break, with the answers on them.
Restart ==
    /\ Crashes
    /\ up' = [u \in Uploads |->
                IF InHandler(u) \/ Unheard(u) THEN [up[u] EXCEPT !.pc = "dropped"] ELSE up[u]]
    /\ LimiterRestart
    /\ UNCHANGED <<job, gone, comments, parsed>>

\* delete_project, one transaction.  Its id is the caller's: a later upload
\* creates the project again under the same one.
DeleteProject ==
    /\ Rows # {}
    /\ gone' = [q \in Uploads |-> IF q \in Rows THEN "deleted" ELSE gone[q]]
    /\ UNCHANGED <<limiter, job, up, comments, parsed>>

TimePasses == Tick /\ UNCHANGED <<job, up, gone, comments, parsed>>

JobStep(j) == Start(j) \/ Send(j) \/ Hear(j) \/ GiveUp(j)
HandlerStep(u) ==
    Arrive(u) \/ Parse(u) \/ Store(u) \/ Prune(u) \/ Token(u)
        \/ ReadBaseline(u) \/ Find(u) \/ Write(u)

Next ==
    \/ \E j \in Jobs : JobStep(j)
    \/ \E u \in Uploads : HandlerStep(u) \/ Drop(u)
    \/ \E c \in Clients : Stray(c)
    \/ Chat \/ DeleteProject \/ Restart \/ TimePasses

\* A CI runner works a started job; nothing makes the server or GitHub answer.
Fairness == \A j \in Jobs : WF_vars(Send(j)) /\ WF_vars(Hear(j) \/ GiveUp(j))

Spec == Init /\ [][Next]_vars /\ Fairness

-----------------------------------------------------------------------------
(* Properties *)

\* A second coverage comment has one of two causes: the first was not there
\* yet when the second upload looked (two handlers between look and post), or
\* it lies beyond the first page of comments.
DuplicateNeedsCause ==
    \A k, l \in DOMAIN comments :
        k < l /\ Marked(k) /\ Marked(l) =>
            comments[l].looked < k \/ PageSize < k

\* A comment never goes back: an upload that was sent after another was
\* answered is not replaced by that one, whatever handlers still run.
CommentNeverGoesBack ==
    [][\A k \in DOMAIN comments :
          Marked(k) /\ comments'[k].by # comments[k].by =>
              comments'[k].by \notin up[comments[k].by].after]_vars

\* Newer snapshots of the same series, and whether they make up for a row
\* that was pruned.
Newer(q) ==
    {p \in Uploads : /\ up[p].stored /\ SeriesOf[p] = SeriesOf[q]
                     /\ up[p].created > up[q].created}
Outlived(q) == \E k \in Retentions : Cardinality(Newer(q)) >= k

\* The baseline of a comment is no older than any build of the base branch
\* that was answered before this upload was sent, with three exceptions: the
\* baseline could not be read, the project was deleted, or that build's series
\* has got as many newer snapshots, of whatever branch, as a series may keep.
BaselineIsCurrent ==
    \A u \in Uploads : \A q \in up[u].after :
        /\ Pc(u) \in {"find", "write"}
        /\ ~up[u].failed
        /\ up[q].status = "created"
        /\ JobOf(q).branch = JobOf(u).base
        /\ gone[q] # "deleted"
        => \/ up[u].base # NoUpload /\ up[up[u].base].created >= up[q].created
           \/ Outlived(q)

\* A job that ends well had every one of its files stored, by this run.
SuccessMeansStored ==
    \A j \in Jobs : job[j].state = "ok" =>
        \A f \in 1..Plan[j].files : up[<<j, job[j].run, f>>].stored

\* A Gradle build comes to an end whatever the server and GitHub do (its
\* timeouts see to it).  The action has none: it waits as long as they do.
BuildEnds ==
    \A j \in Jobs : Plan[j].kind = "gradle" =>
        (job[j].state = "ready" ~> job[j].state \in {"ok", "failed"})
=============================================================================
