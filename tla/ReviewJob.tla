----------------------------- MODULE ReviewJob ------------------------------
(***************************************************************************)
(* What a review does to GitHub: process_job of app/worker.py call by      *)
(* call, with post_review and the check-run calls of app/services/         *)
(* github.py, and the notices that reconciliation_loop sends, on top of    *)
(* the job queue.                                                          *)
(*                                                                         *)
(* Every claim is a task of its own, which may die between any two calls.  *)
(* The claim loop around the tasks is in WorkerPool.                       *)
(***************************************************************************)
EXTENDS JobQueue

CONSTANTS
    Failing,          \* the GitHub calls that may raise, done or not;
                      \* for "lookup", miss a review that is there
    DbMayFail,        \* whether a database call may raise, committed or not
    ZombiesPossible   \* whether a task may outlive its heartbeat

GitHubCalls == {"token", "check", "fetch", "lookup", "post", "comments",
                "conclude", "report", "notify"}

ASSUME FailingAssumption == Failing \subseteq GitHubCalls
ASSUME SwitchAssumption == {DbMayFail, ZombiesPossible} \subseteq BOOLEAN

VARIABLES
    pc,           \* the call each task awaits; "end" when it is over
    knows_run,    \* the tasks whose local check_run_id is not None
    notices,      \* rows reconciliation_loop has still to report
    check_runs,   \* GitHub: the check run of each attempt on each commit
    summaries,    \* GitHub: the summary reviews posted for each commit
    commented     \* GitHub: whether the inline comments were posted

queueVars == vars  \* those of JobQueue
githubVars == <<check_runs, summaries, commented>>
reviewVars == <<queueVars, pc, knows_run, notices, githubVars>>

Conclusions == {"success", "failure", "action_required"}
Notice == [sha : Shas, run : 1..MaxAttempts, status : {"pending", "dead"}]
CallStates == (GitHubCalls \ {"notify"}) \cup
              {"store", "commit", "fail", "requeue", "end"}

ReviewTypeOK ==
    /\ TypeOK
    /\ DOMAIN pc = claims
    /\ \A c \in claims : pc[c] \in CallStates
    /\ knows_run \subseteq claims
    /\ notices \subseteq Notice
    /\ check_runs \in [Shas -> [1..MaxAttempts ->
                                 {"none", "in_progress"} \cup Conclusions]]
    /\ summaries \in [Shas -> 0..MaxAttempts]
    /\ commented \in [Shas -> BOOLEAN]

ReviewInit ==
    /\ Init
    /\ pc = <<>>
    /\ knows_run = {}
    /\ notices = {}
    /\ check_runs = [s \in Shas |-> [n \in 1..MaxAttempts |-> "none"]]
    /\ summaries = [s \in Shas |-> 0]
    /\ commented = [s \in Shas |-> FALSE]

Attempt(c) == c.fence + 1
Live(c) == pc[c] # "end"
Goto(c, l) == pc' = [pc EXCEPT ![c] = l]
SetRun(s, n, x) == check_runs' = [check_runs EXCEPT ![s][n] = x]

(* The except clause of process_job: _is_rate_limit sends the error to     *)
(* release_job, any other goes on to report the failure.  The text of any  *)
(* error may contain "429".                                                *)
Raise(c) == \E l \in {"requeue", "report"} : Goto(c, l)

-----------------------------------------------------------------------------
(* claim_job returned a row and the task of the job starts. *)
Start(w, s) ==
    /\ ClaimJob(w, s)
    /\ LET c == [sha |-> s, worker |-> w, fence |-> fence_token[s]]
       IN  pc' = [d \in DOMAIN pc \cup {c} |-> IF d = c THEN "token" ELSE pc[d]]
    /\ UNCHANGED <<knows_run, notices, githubVars>>

GetToken(c) ==
    /\ pc[c] = "token"
    /\ Goto(c, "check") \/ ("token" \in Failing /\ Raise(c))
    /\ UNCHANGED <<queueVars, knows_run, notices, githubVars>>

(* create_check_run; an error is only logged, and leaves check_run_id None *)
(* even if GitHub did create the check run.                                *)
CreateCheckRun(c) ==
    /\ pc[c] = "check"
    /\ \/ /\ SetRun(c.sha, Attempt(c), "in_progress")
          /\ knows_run' = knows_run \cup {c}
          /\ Goto(c, "store")
       \/ /\ "check" \in Failing
          /\ SetRun(c.sha, Attempt(c), "in_progress") \/ UNCHANGED check_runs
          /\ Goto(c, "fetch")
          /\ UNCHANGED knows_run
    /\ UNCHANGED <<queueVars, notices, summaries, commented>>

(* set_check_run_id, in the same try block: its errors are logged too. *)
StoreSkipped(c) ==
    /\ pc[c] = "store"
    /\ Goto(c, "fetch")
    /\ UNCHANGED <<queueVars, knows_run, notices, githubVars>>
StoreCheckRun(c) ==
    /\ pc[c] = "store"
    /\ SetCheckRunId(c) \/ (DbMayFail /\ UNCHANGED queueVars)
    /\ Goto(c, "fetch")
    /\ UNCHANGED <<knows_run, notices, githubVars>>

(* fetch_diff, fetch_pull_files, fetch_pull_request, the repository index  *)
(* and the swarm's analysis.                                               *)
FetchAndAnalyze(c) ==
    /\ pc[c] = "fetch"
    /\ Goto(c, "lookup") \/ ("fetch" \in Failing /\ Raise(c))
    /\ UNCHANGED <<queueVars, knows_run, notices, githubVars>>

(* post_review: the GET.  A review with the commit's signature ends the    *)
(* call; if the GET fails, or does not show the signature although a       *)
(* summary was posted (it lies beyond the first page of reviews, or was    *)
(* cut off a body longer than MAX_PAYLOAD_SIZE), the review is posted.     *)
LookupFailureSkips(c) ==
    /\ pc[c] = "lookup"
    /\ \/ Goto(c, IF summaries[c.sha] > 0 THEN "conclude" ELSE "post")
       \/ "lookup" \in Failing /\ Goto(c, "conclude")
    /\ UNCHANGED <<queueVars, knows_run, notices, githubVars>>
LookupSkipped(c) ==
    /\ pc[c] = "lookup"
    /\ Goto(c, "post")
    /\ UNCHANGED <<queueVars, knows_run, notices, githubVars>>
LookupReviews(c) ==
    /\ pc[c] = "lookup"
    /\ \/ Goto(c, IF summaries[c.sha] > 0 THEN "conclude" ELSE "post")
       \/ "lookup" \in Failing /\ Goto(c, "post")
    /\ UNCHANGED <<queueVars, knows_run, notices, githubVars>>

(* post_review: the POST of the summary with the signature.  Its response  *)
(* may be lost after GitHub has accepted it.                               *)
PostSummary(c) ==
    /\ pc[c] = "post"
    /\ \/ /\ summaries' = [summaries EXCEPT ![c.sha] = @ + 1]
          /\ Goto(c, "comments") \/ ("post" \in Failing /\ Raise(c))
       \/ /\ "post" \in Failing
          /\ UNCHANGED summaries
          /\ Raise(c)
    /\ UNCHANGED <<queueVars, knows_run, notices, check_runs, commented>>

(* post_review: the POSTs of the inline comments, whose errors are logged. *)
PostComments(c) ==
    /\ pc[c] = "comments"
    /\ \/ commented' = [commented EXCEPT ![c.sha] = TRUE]
       \/ "comments" \in Failing /\ UNCHANGED commented
    /\ Goto(c, "conclude")
    /\ UNCHANGED <<queueVars, knows_run, notices, check_runs, summaries>>

(* update_check_run with the conclusion of the score, if there is a run. *)
Conclude(c) ==
    /\ pc[c] = "conclude"
    /\ \/ /\ c \in knows_run
          /\ \/ /\ \E x \in {"success", "failure"} : SetRun(c.sha, Attempt(c), x)
                /\ Goto(c, "commit") \/ ("conclude" \in Failing /\ Raise(c))
             \/ /\ "conclude" \in Failing
                /\ UNCHANGED check_runs
                /\ Raise(c)
       \/ /\ c \notin knows_run
          /\ UNCHANGED check_runs
          /\ Goto(c, "commit")
    /\ UNCHANGED <<queueVars, knows_run, notices, summaries, commented>>

(* finalize_job("SUCCESS"); a stale token or a lost connection raises. *)
Commit(c) ==
    /\ pc[c] = "commit"
    /\ \/ FinalizeJob(c, "SUCCESS") /\ Goto(c, "end")
       \/ /\ \/ ~FenceMatches(c) /\ UNCHANGED queueVars
             \/ DbMayFail /\ (UNCHANGED queueVars \/ FinalizeJob(c, "SUCCESS"))
          /\ Raise(c)
    /\ UNCHANGED <<knows_run, notices, githubVars>>

(* The except clause: update_check_run("failure") if there is a run... *)
ReportFailure(c) ==
    /\ pc[c] = "report"
    /\ \/ c \in knows_run /\ SetRun(c.sha, Attempt(c), "failure")
       \/ c \notin knows_run /\ UNCHANGED check_runs
       \/ "report" \in Failing /\ UNCHANGED check_runs
    /\ Goto(c, "fail")
    /\ UNCHANGED <<queueVars, knows_run, notices, summaries, commented>>

(* ... and finalize_job("FAILURE"), errors of both being swallowed. *)
Fail(c) ==
    /\ pc[c] = "fail"
    /\ \/ FinalizeJob(c, "FAILURE")
       \/ (~FenceMatches(c) \/ DbMayFail) /\ UNCHANGED queueVars
    /\ Goto(c, "end")
    /\ UNCHANGED <<knows_run, notices, githubVars>>

(* The rate-limit branch with a requeue of its own, without the token. *)
RequeueUnfenced(c) ==
    /\ pc[c] = "requeue"
    /\ status' = [status EXCEPT ![c.sha] = "pending"]
    /\ Goto(c, "end")
    /\ UNCHANGED <<worker_id, attempt_count, fence_token, due, aged,
                   github_check_run_id, heartbeat, beat_recent,
                   review_records, claims, commits,
                   knows_run, notices, githubVars>>

(* The rate-limit branch; the check run is left as it is. *)
Requeue(c) ==
    /\ pc[c] = "requeue"
    /\ \/ \E delayed \in BOOLEAN : ReleaseJob(c, delayed)
       \/ DbMayFail /\ UNCHANGED queueVars
    /\ Goto(c, "end")
    /\ UNCHANGED <<knows_run, notices, githubVars>>

(* The task ends between two calls: its worker is killed, or a graceful    *)
(* shutdown cancels it and releases the job.                               *)
Die(c) ==
    /\ Live(c)
    /\ UNCHANGED queueVars \/ ReleaseJob(c, FALSE)
    /\ Goto(c, "end")
    /\ UNCHANGED <<knows_run, notices, githubVars>>

Beat(c) ==
    /\ Live(c)
    /\ UpdateHeartbeat(c.worker, c.sha)
    /\ UNCHANGED <<pc, knows_run, notices, githubVars>>

(* reconcile_stale_jobs; the rows it returns that have a check run are     *)
(* reported one after the other by reconciliation_loop.                    *)
ReconcileReportsRetriesOnly(R) ==
    /\ ReconcileStaleJobs(R)
    /\ notices' = notices \cup
         {[sha |-> s, run |-> github_check_run_id[s], status |-> "pending"] :
            s \in {t \in R : github_check_run_id[t] # 0 /\ ~Exhausted(t)}}
    /\ UNCHANGED <<pc, knows_run, githubVars>>
Reconcile(R) ==
    /\ ReconcileStaleJobs(R)
    /\ notices' = notices \cup
         {[sha |-> s, run |-> github_check_run_id[s], status |-> Swept(R)[s]] :
            s \in {t \in R : github_check_run_id[t] # 0}}
    /\ UNCHANGED <<pc, knows_run, githubVars>>

(* update_check_run for one of these rows, which may fail or never be made *)
(* because the worker dies.                                                *)
Notify(n) ==
    /\ \/ SetRun(n.sha, n.run,
                 IF n.status = "dead" THEN "failure" ELSE "action_required")
       \/ "notify" \in Failing /\ UNCHANGED check_runs
    /\ notices' = notices \ {n}
    /\ UNCHANGED <<queueVars, pc, knows_run, summaries, commented>>

Enqueue(s) == EnqueueIfNew(s) /\ UNCHANGED <<pc, knows_run, notices, githubVars>>

(* Time and restarts of the database.  Without zombies, heartbeats reach   *)
(* the database in time for as long as the task lives.                     *)
ReviewEnvironment ==
    /\ Environment
    /\ \A s \in Shas :
         beat_recent[s] /\ ~beat_recent'[s] =>
           ZombiesPossible \/ \A c \in claims : c.sha = s => ~Live(c)
    /\ UNCHANGED <<pc, knows_run, notices, githubVars>>

Task(c) ==
    \/ GetToken(c) \/ CreateCheckRun(c) \/ StoreCheckRun(c)
    \/ FetchAndAnalyze(c) \/ LookupReviews(c) \/ PostSummary(c)
    \/ PostComments(c) \/ Conclude(c) \/ Commit(c)
    \/ ReportFailure(c) \/ Fail(c) \/ Requeue(c)

(* Everything but the webhooks that submit jobs. *)
Work ==
    \/ \E s \in Shas, w \in Workers : Start(w, s)
    \/ \E c \in claims : Task(c) \/ Die(c) \/ Beat(c)
    \/ \E R \in SUBSET Shas : Reconcile(R)
    \/ \E n \in notices : Notify(n)
    \/ ReviewEnvironment

ReviewNext == Work \/ \E s \in Shas : Enqueue(s)

ReviewSpec == ReviewInit /\ [][ReviewNext]_reviewVars

-----------------------------------------------------------------------------
(***************************************************************************)
(* Properties.                                                             *)
(***************************************************************************)

(* The calls that reviews make on the queue are calls its specification    *)
(* allows, in whatever order attempts die, stall and are retried.          *)
QueueSpec == Spec

(* A job recorded as SUCCESS has its review on GitHub, and the check run   *)
(* of the attempt that committed, if it knows one, is concluded: nothing   *)
(* that failed, was skipped or was done by an attempt that died in between *)
(* is taken for done.                                                      *)
SuccessIsVisible ==
    \A c \in commits :
      status[c.sha] = "SUCCESS" =>
        /\ summaries[c.sha] > 0
        /\ c \in knows_run => check_runs[c.sha][Attempt(c)] \in Conclusions

(* No commit gets a second summary review: the signature that post_review  *)
(* looks for makes the replays of interrupted attempts harmless.           *)
OneSummary == \A s \in Shas : summaries[s] <= 1

(* While an attempt that knows its check run holds a job, the job's row    *)
(* names that check run, so that reconciliation and the override comment   *)
(* reach the run that the attempt is going to conclude.                    *)
RowNamesOwnRun ==
    \A c \in knows_run :
      Live(c) /\ pc[c] # "store" /\ FenceMatches(c) =>
        github_check_run_id[c.sha] = Attempt(c)

(* Inline comments are delivered at least once for a successful review.    *)
CommentsDelivered ==
    \A s \in Shas : status[s] = "SUCCESS" => commented[s]

(* A job that dies because its last attempt went stale does not leave the  *)
(* check run named in its row in progress, except until the reconciliation *)
(* loop gets to report it, wherever its attempts were cut off.  (The jobs  *)
(* that the one-hour sweep buries are reported to nobody.)                 *)
ExhaustedIsReported ==
    \A s \in Shas :
      status[s] = "dead" /\ ~aged[s] /\ github_check_run_id[s] # 0 =>
        \/ check_runs[s][github_check_run_id[s]] # "in_progress"
        \/ \E n \in notices : n.sha = s /\ n.run = github_check_run_id[s]
=============================================================================
