------------------------------ MODULE JobQueue ------------------------------
(***************************************************************************)
(* The Postgres job queue of app/services/db/queue.py.  Every method of    *)
(* JobQueueRepository is one transaction, hence one action here.           *)
(*                                                                         *)
(* The tables jobs, worker_heartbeats and review_records are keyed by      *)
(* commit_sha (UNIQUE in all of them, through the job's id), so each       *)
(* column is a function on Shas.  A client holds the row that claim_job    *)
(* returned to it (a "claim") and may call any method with it, at any      *)
(* later time and any number of times: this is what workers that stall,    *)
(* are cancelled or retry can do between them, and what WorkerPool and     *)
(* ReviewJob narrow down to the calls the code really makes.               *)
(*                                                                         *)
(* Wall-clock time appears only as the outcome of the comparisons that     *)
(* the SQL makes with NOW().                                               *)
(***************************************************************************)
EXTENDS Naturals

CONSTANTS
    Shas,           \* commit SHAs that webhooks may submit
    Workers,        \* worker_id values
    MaxAttempts,    \* the default of jobs.max_attempts (never set by the code)
    DbMayRestart,   \* whether the unlogged heartbeat table may be truncated
    None            \* SQL NULL, or no such row

ASSUME MaxAttemptsAssumption == MaxAttempts \in Nat \ {0}
ASSUME NoneAssumption == None \notin Workers \cup {"SUCCESS", "FAILURE"}
ASSUME DbMayRestartAssumption == DbMayRestart \in BOOLEAN

VARIABLES
    status,         \* jobs.status; "absent" when there is no row
    worker_id,      \* jobs.worker_id
    attempt_count,  \* jobs.attempt_count
    fence_token,    \* jobs.fence_token
    due,            \* jobs.scheduled_at <= NOW()
    aged,           \* jobs.created_at < NOW() - INTERVAL '1 hour'
    github_check_run_id,  \* 0 for NULL, n for the check run of attempt n
    heartbeat,      \* worker_heartbeats.worker_id; None when there is no row
    beat_recent,    \* the owner's last beat (its claim or a heartbeat that
                    \* found it the owner) is younger than
                    \* WORKER_HEARTBEAT_STALE_SECONDS.  When the heartbeat
                    \* row exists its heartbeat_at is the time of that beat.
    review_records, \* review_records.feedback; None when there is no row
    claims,         \* history: the rows claim_job has returned
    commits         \* history: the claims whose finalize_job committed

jobVars == <<status, worker_id, attempt_count, fence_token, due, aged,
             github_check_run_id>>
heartbeatVars == <<heartbeat, beat_recent>>
vars == <<jobVars, heartbeatVars, review_records, claims, commits>>

Results == {"SUCCESS", "FAILURE"}
Open == {"pending", "processing"}
Terminal == Results \cup {"dead"}
Statuses == {"absent"} \cup Open \cup Terminal

(* What a client keeps of the row that claim_job returned to it. *)
Claim == [sha : Shas, worker : Workers, fence : Nat]

TypeOK ==
    /\ status \in [Shas -> Statuses]
    /\ worker_id \in [Shas -> Workers \cup {None}]
    /\ attempt_count \in [Shas -> 0..MaxAttempts]
    /\ fence_token \in [Shas -> 0..MaxAttempts]
    /\ due \in [Shas -> BOOLEAN]
    /\ aged \in [Shas -> BOOLEAN]
    /\ github_check_run_id \in [Shas -> 0..MaxAttempts]
    /\ heartbeat \in [Shas -> Workers \cup {None}]
    /\ beat_recent \in [Shas -> BOOLEAN]
    /\ review_records \in [Shas -> Results \cup {None}]
    /\ claims \subseteq Claim
    /\ commits \subseteq claims

Init ==
    /\ status = [s \in Shas |-> "absent"]
    /\ worker_id = [s \in Shas |-> None]
    /\ attempt_count = [s \in Shas |-> 0]
    /\ fence_token = [s \in Shas |-> 0]
    /\ due = [s \in Shas |-> FALSE]
    /\ aged = [s \in Shas |-> FALSE]
    /\ github_check_run_id = [s \in Shas |-> 0]
    /\ heartbeat = [s \in Shas |-> None]
    /\ beat_recent = [s \in Shas |-> FALSE]
    /\ review_records = [s \in Shas |-> None]
    /\ claims = {}
    /\ commits = {}

-----------------------------------------------------------------------------
(***************************************************************************)
(* The repository's methods.                                               *)
(***************************************************************************)

(* enqueue_if_new: a reviewed commit is refused; otherwise INSERT ... ON   *)
(* CONFLICT DO NOTHING, which leaves a job that already exists alone.  The *)
(* advisory lock makes the two statements one step for each sha.           *)
EnqueueReviving(s) ==
    /\ IF review_records[s] = None /\ status[s] \notin Open
         THEN /\ status' = [status EXCEPT ![s] = "pending"]
              /\ due' = [due EXCEPT ![s] = TRUE]
         ELSE UNCHANGED <<status, due>>
    /\ UNCHANGED <<worker_id, attempt_count, fence_token, aged,
                   github_check_run_id, heartbeatVars, review_records,
                   claims, commits>>
EnqueueIfNew(s) ==
    /\ IF review_records[s] = None /\ status[s] = "absent"
         THEN /\ status' = [status EXCEPT ![s] = "pending"]
              /\ due' = [due EXCEPT ![s] = TRUE]
         ELSE UNCHANGED <<status, due>>
    /\ UNCHANGED <<worker_id, attempt_count, fence_token, aged,
                   github_check_run_id, heartbeatVars, review_records,
                   claims, commits>>

(* The WHERE clause of claim_job's inner SELECT. *)
ClaimableAnyAttempt(s) == status[s] = "pending" /\ due[s]
Claimable(s) ==
    /\ status[s] = "pending"
    /\ due[s]
    /\ attempt_count[s] < MaxAttempts

(* claim_job: FOR UPDATE SKIP LOCKED may pass over any row that another    *)
(* transaction holds, so the row taken is any claimable one.  The fence    *)
(* token is returned, not changed; the heartbeat row is upserted.          *)
ClaimJob(w, s) ==
    /\ Claimable(s)
    /\ status' = [status EXCEPT ![s] = "processing"]
    /\ worker_id' = [worker_id EXCEPT ![s] = w]
    /\ attempt_count' = [attempt_count EXCEPT ![s] = @ + 1]
    /\ heartbeat' = [heartbeat EXCEPT ![s] = w]
    /\ beat_recent' = [beat_recent EXCEPT ![s] = TRUE]
    /\ claims' = claims \cup
                   {[sha |-> s, worker |-> w, fence |-> fence_token[s]]}
    /\ UNCHANGED <<fence_token, due, aged, github_check_run_id,
                   review_records, commits>>

(* The SELECT of update_heartbeat, which decides what it returns. *)
OwnsJob(w, s) == status[s] = "processing" /\ worker_id[s] = w

(* update_heartbeat: refreshes the owner's row if there is one and never   *)
(* inserts it again.  It is called with the job and the worker, without    *)
(* the fence token.                                                        *)
UpdateHeartbeat(w, s) ==
    /\ OwnsJob(w, s)
    /\ beat_recent' = [beat_recent EXCEPT ![s] = TRUE]
    /\ UNCHANGED <<jobVars, heartbeat, review_records, claims, commits>>

(* set_check_run_id: an unconditional UPDATE.  An attempt creates at most  *)
(* one check run, so the attempt's number (its fence token + 1) names it.  *)
SetCheckRunId(c) ==
    /\ github_check_run_id' =
         [github_check_run_id EXCEPT ![c.sha] = c.fence + 1]
    /\ UNCHANGED <<status, worker_id, attempt_count, fence_token, due, aged,
                   heartbeatVars, review_records, claims, commits>>

(* WHERE id = %s AND fence_token = %s, in finalize_job and release_job. *)
FenceIgnored(c) == TRUE
FenceMatches(c) == fence_token[c.sha] = c.fence

(* finalize_job: guarded by the fence token alone, not by the status.  A   *)
(* stale token raises and rolls back, which changes nothing.               *)
FinalizeJob(c, result) ==
    /\ FenceMatches(c)
    /\ status' = [status EXCEPT ![c.sha] = result]
    /\ review_records' = [review_records EXCEPT ![c.sha] = result]
    /\ heartbeat' = [heartbeat EXCEPT ![c.sha] = None]
    /\ commits' = commits \cup {c}
    /\ UNCHANGED <<worker_id, attempt_count, fence_token, due, aged,
                   github_check_run_id, beat_recent, claims>>

(* The WHERE clause of release_job's UPDATE. *)
ReleasableInAnyStatus(c) == FenceMatches(c)
Releasable(c) == FenceMatches(c) /\ status[c.sha] = "processing"

(* What release_job and reconcile_stale_jobs do to the token of a job that *)
(* they requeue or bury.                                                   *)
TokenKept(s) == fence_token[s]
TokenBumped(s) == fence_token[s] + 1

(* release_job: requeues the job if the token matches and it is still      *)
(* processing; deletes the job's heartbeat row whether it matched or not.  *)
ReleaseJob(c, delayed) ==
    /\ IF Releasable(c)
         THEN /\ status' = [status EXCEPT ![c.sha] = "pending"]
              /\ worker_id' = [worker_id EXCEPT ![c.sha] = None]
              /\ due' = [due EXCEPT ![c.sha] = ~delayed]
              /\ fence_token' = [fence_token EXCEPT ![c.sha] = TokenBumped(c.sha)]
              /\ beat_recent' = [beat_recent EXCEPT ![c.sha] = FALSE]
         ELSE UNCHANGED <<status, worker_id, due, fence_token, beat_recent>>
    /\ heartbeat' = [heartbeat EXCEPT ![c.sha] = None]
    /\ UNCHANGED <<attempt_count, aged, github_check_run_id, review_records,
                   claims, commits>>

(* The stale test of reconcile_stale_jobs: no heartbeat row, or an old one. *)
StaleWithRow(s) ==
    status[s] = "processing" /\ heartbeat[s] # None /\ ~beat_recent[s]
Stale(s) ==
    /\ status[s] = "processing"
    /\ heartbeat[s] = None \/ ~beat_recent[s]

(* The status each job has after the first UPDATE of reconcile_stale_jobs; *)
(* for the jobs of R it is also the status in the rows that it returns.    *)
Exhausted(s) == attempt_count[s] >= MaxAttempts
Swept(R) ==
    [s \in Shas |-> IF s \notin R THEN status[s]
                    ELSE IF Exhausted(s) THEN "dead" ELSE "pending"]

(* The second statement of reconcile_stale_jobs deletes the heartbeats of  *)
(* jobs that are not, or no longer, processing.                            *)
HeartbeatsKept(R) == heartbeat
HeartbeatsSwept(R) ==
    [s \in Shas |-> IF Swept(R)[s] = "processing" THEN heartbeat[s] ELSE None]

(* reconcile_stale_jobs: its three statements.  R is what the first one    *)
(* takes of the stale jobs, SKIP LOCKED leaving any of them out.  The      *)
(* third buries jobs pending for over an hour, those of R included.        *)
ReconcileStaleJobs(R) ==
    /\ \A s \in R : Stale(s)
    /\ fence_token' =
         [s \in Shas |-> IF s \in R THEN TokenBumped(s) ELSE fence_token[s]]
    /\ worker_id' = [s \in Shas |-> IF s \in R THEN None ELSE worker_id[s]]
    /\ due' = [s \in Shas |-> due[s] /\ (s \notin R \/ Exhausted(s))]
    /\ heartbeat' = HeartbeatsSwept(R)
    /\ status' = [s \in Shas |-> IF Swept(R)[s] = "pending" /\ aged[s]
                                   THEN "dead" ELSE Swept(R)[s]]
    /\ UNCHANGED <<attempt_count, aged, github_check_run_id, beat_recent,
                   review_records, claims, commits>>

-----------------------------------------------------------------------------
(***************************************************************************)
(* The environment: time, and Postgres restarting after a crash, which     *)
(* truncates the UNLOGGED table worker_heartbeats and no other.            *)
(***************************************************************************)
BecomeDue(s) ==
    /\ status[s] = "pending" /\ ~due[s]
    /\ due' = [due EXCEPT ![s] = TRUE]
    /\ UNCHANGED <<status, worker_id, attempt_count, fence_token, aged,
                   github_check_run_id, heartbeatVars, review_records,
                   claims, commits>>

BecomeAged(s) ==
    /\ status[s] \in Open /\ ~aged[s]
    /\ aged' = [aged EXCEPT ![s] = TRUE]
    /\ UNCHANGED <<status, worker_id, attempt_count, fence_token, due,
                   github_check_run_id, heartbeatVars, review_records,
                   claims, commits>>

BeatExpires(s) ==
    /\ beat_recent[s]
    /\ beat_recent' = [beat_recent EXCEPT ![s] = FALSE]
    /\ UNCHANGED <<jobVars, heartbeat, review_records, claims, commits>>

DbRestart ==
    /\ DbMayRestart
    /\ heartbeat' = [s \in Shas |-> None]
    /\ UNCHANGED <<jobVars, beat_recent, review_records, claims, commits>>

-----------------------------------------------------------------------------
Client ==
    \/ \E s \in Shas : EnqueueIfNew(s)
    \/ \E w \in Workers, s \in Shas : ClaimJob(w, s) \/ UpdateHeartbeat(w, s)
    \/ \E c \in claims :
         \/ SetCheckRunId(c)
         \/ \E result \in Results : FinalizeJob(c, result)
         \/ \E delayed \in BOOLEAN : ReleaseJob(c, delayed)
    \/ \E R \in SUBSET Shas : ReconcileStaleJobs(R)

Environment ==
    \/ \E s \in Shas : BecomeDue(s) \/ BecomeAged(s) \/ BeatExpires(s)
    \/ DbRestart

Next == Client \/ Environment

Spec == Init /\ [][Next]_vars

-----------------------------------------------------------------------------
(***************************************************************************)
(* Properties.                                                             *)
(***************************************************************************)

(* The fence token counts the times a job was taken away from an owner     *)
(* (release_job, reconcile_stale_jobs) and attempt_count the times it was  *)
(* handed to one (claim_job): they agree while nobody owns the job and     *)
(* differ by one from its claim on.  A requeue that forgot the token, or a *)
(* claim that changed it, would let two attempts share a token.            *)
FenceCountsAttempts ==
    \A s \in Shas :
      attempt_count[s] = IF status[s] \in {"processing"} \cup Results
                           THEN fence_token[s] + 1
                           ELSE fence_token[s]

(* No two calls of claim_job ever returned the same job with the same      *)
(* fence token, so a token identifies one attempt of one worker.           *)
TokenNamesOneClaim ==
    \A c, d \in claims : c.sha = d.sha /\ c.fence = d.fence => c = d

(* A claim whose token is still the row's holds the job: the job is being  *)
(* processed or was finished under it, by the worker that claimed it.  All *)
(* other claims have older tokens, so the fenced UPDATEs of finalize_job   *)
(* and release_job never touch a job that passed to somebody else.         *)
FenceHoldsJob ==
    \A c \in claims :
      /\ c.fence <= fence_token[c.sha]
      /\ c.fence = fence_token[c.sha] =>
           /\ status[c.sha] \in {"processing"} \cup Results
           /\ worker_id[c.sha] = c.worker

(* A heartbeat row exists only for a job that is being processed and names *)
(* the worker that owns it, whoever claims, releases or reconciles it and  *)
(* in whatever order: a row left behind by a previous owner would hide     *)
(* from reconcile_stale_jobs that the next owner died.                     *)
HeartbeatNamesOwner ==
    \A s \in Shas :
      heartbeat[s] # None => OwnsJob(heartbeat[s], s)

(* All the commits of finalize_job for a commit SHA come from one claim: a *)
(* worker that lost its job can never write a result over its successor's. *)
FencedCommit ==
    \A c, d \in commits : c.sha = d.sha => c = d

(* A review record exists exactly for the jobs that finished, with the     *)
(* result of the job's row: enqueue_if_new decides from the record, the    *)
(* workers from the row.                                                   *)
RecordMatchesJob ==
    \A s \in Shas :
      IF status[s] \in Results
        THEN review_records[s] = status[s]
        ELSE review_records[s] = None

(* The job of JobLifecycle that the tables describe. *)
LifecycleState(s) ==
    CASE status[s] = "pending"    -> "waiting"
      [] status[s] = "processing" -> "held"
      [] OTHER                    -> status[s]

Authors(s) ==
    {[worker |-> c.worker, attempt |-> c.fence + 1] :
       c \in {d \in commits : d.sha = s}}

JobOf(s) == [state |-> LifecycleState(s), owner |-> worker_id[s],
             attempts |-> attempt_count[s], authors |-> Authors(s)]

Lifecycle == INSTANCE JobLifecycle WITH job <- [s \in Shas |-> JobOf(s)]

(* The queue implements JobLifecycle: without tokens and heartbeats, its   *)
(* rows are jobs that pass from one holder to the next, at most            *)
(* MaxAttempts times, and the result of a job is written by the attempt    *)
(* that holds it and by no other, whatever stalled workers call late.      *)
LifecycleSpec == Lifecycle!Spec

(* A finished or dead job is never put back in the queue, and a dead one   *)
(* never changes at all, whatever late call arrives for it.                *)
SettledForGood ==
    [][\A s \in Shas :
         /\ status[s] \in Results => status'[s] \in Results
         /\ status[s] = "dead" => /\ status'[s] = "dead"
                                  /\ fence_token'[s] = fence_token[s]
                                  /\ review_records'[s] = None]_vars
=============================================================================
