----------------------------- MODULE WorkerPool -----------------------------
(***************************************************************************)
(* The worker processes of app/worker.py on top of the job queue: the      *)
(* claim loop and its semaphore, the task of each claimed job with its     *)
(* heartbeat, the reconciliation loop, graceful shutdown and SIGKILL.      *)
(*                                                                         *)
(* Each worker is one asyncio event loop, so what it does between two      *)
(* awaits is one step; the steps of its coroutines, of other workers and   *)
(* of the database interleave.  process_job is reduced to the queue calls  *)
(* that it ends with; its GitHub calls are in ReviewJob.                   *)
(***************************************************************************)
EXTENDS JobQueue, FiniteSets

CONSTANTS
    Concurrency,  \* WORKER_CONCURRENCY
    Stoppable,    \* the workers that may receive SIGTERM
    Killable,     \* the workers that may be SIGKILLed
    DbMayFail     \* whether a database call may raise, committed or not

ASSUME ConcurrencyAssumption == Concurrency \in Nat \ {0}
ASSUME StopAssumption == Stoppable \subseteq Workers /\ Killable \subseteq Workers

VARIABLES
    loop,       \* where run_forever and shutdown of each worker are
    running,    \* self.running
    permits,    \* the value of self._semaphore
    active,     \* self._active_jobs, as the claims whose token it holds
    task,       \* where _safe_process_job is, for every claim with a task
    beating,    \* the claims whose _run_heartbeat task is alive
    releasing   \* what is left of shutdown's list(self._active_jobs.items())

queueVars == vars  \* those of JobQueue
workerVars == <<loop, running, permits, active, task, beating, releasing>>
poolVars == <<queueVars, workerVars>>

LoopStates == {"top", "blocked", "claim", "sleep", "drain", "release",
               "gather", "stopped", "killed"}
TaskStates == {"process", "commit", "fail", "requeue", "cleanup", "done"}

Alive(w) == loop[w] \notin {"stopped", "killed"}
TasksOf(w) == {c \in DOMAIN task : c.worker = w /\ task[c] # "done"}

PoolTypeOK ==
    /\ TypeOK
    /\ loop \in [Workers -> LoopStates]
    /\ running \in [Workers -> BOOLEAN]
    /\ permits \in [Workers -> 0..Concurrency]
    /\ active \in [Workers -> SUBSET claims]
    /\ DOMAIN task \subseteq claims
    /\ \A c \in DOMAIN task : task[c] \in TaskStates
    /\ beating \subseteq DOMAIN task
    /\ releasing \in [Workers -> SUBSET claims]

PoolInit ==
    /\ Init
    /\ loop = [w \in Workers |-> "top"]
    /\ running = [w \in Workers |-> TRUE]
    /\ permits = [w \in Workers |-> Concurrency]
    /\ active = [w \in Workers |-> {}]
    /\ task = <<>>
    /\ beating = {}
    /\ releasing = [w \in Workers |-> {}]

Goto(w, l) == loop' = [loop EXCEPT ![w] = l]
TaskGoto(c, l) == task' = [task EXCEPT ![c] = l]

(* task.cancel() on every task of C: CancelledError leaves process_job     *)
(* through its finally block, which cancels the heartbeat.  A transaction  *)
(* that commits although its await was cancelled is one that committed     *)
(* just before.                                                            *)
Cancel(C) ==
    /\ task' = [c \in DOMAIN task |-> IF c \in C THEN "cleanup" ELSE task[c]]
    /\ beating' = beating \ C

-----------------------------------------------------------------------------
(***************************************************************************)
(* run_forever.                                                            *)
(***************************************************************************)

(* shutdown up to its first await: wait for the tasks only if some job is  *)
(* in _active_jobs, otherwise cancel them all.                             *)
BeginShutdown(w) ==
    IF active[w] # {}
      THEN /\ Goto(w, "drain")
           /\ UNCHANGED <<task, beating>>
      ELSE /\ Goto(w, "gather")
           /\ Cancel(TasksOf(w))

(* The loop test and acquire(), which returns at once if a permit is left. *)
TopIgnoringStop(w) ==
    /\ loop[w] = "top"
    /\ permits[w] > 0
    /\ permits' = [permits EXCEPT ![w] = @ - 1]
    /\ Goto(w, "claim")
    /\ UNCHANGED <<queueVars, running, active, releasing, task, beating>>
Top(w) ==
    /\ loop[w] = "top"
    /\ \/ /\ ~running[w]
          /\ BeginShutdown(w)
          /\ UNCHANGED permits
       \/ /\ running[w] /\ permits[w] > 0
          /\ permits' = [permits EXCEPT ![w] = @ - 1]
          /\ Goto(w, "claim")
          /\ UNCHANGED <<task, beating>>
       \/ /\ running[w] /\ permits[w] = 0
          /\ Goto(w, "blocked")
          /\ UNCHANGED <<permits, task, beating>>
    /\ UNCHANGED <<queueVars, running, active, releasing>>

(* acquire() returns after a wait; a stop that came in the meantime gives  *)
(* the permit back and leaves the loop.                                    *)
Wake(w) ==
    /\ loop[w] = "blocked"
    /\ permits[w] > 0
    /\ IF running[w]
         THEN /\ permits' = [permits EXCEPT ![w] = @ - 1]
              /\ Goto(w, "claim")
              /\ UNCHANGED <<task, beating>>
         ELSE /\ BeginShutdown(w)
              /\ UNCHANGED permits
    /\ UNCHANGED <<queueVars, running, active, releasing>>

(* claim_job returned a row: it is entered in _active_jobs, over an entry  *)
(* of an earlier claim of the same job, and its task is created.           *)
ClaimGot(w, s) ==
    LET c == [sha |-> s, worker |-> w, fence |-> fence_token[s]]
    IN  /\ loop[w] = "claim"
        /\ ClaimJob(w, s)
        /\ active' = [active EXCEPT ![w] = {a \in @ : a.sha # s} \cup {c}]
        /\ task' = [d \in DOMAIN task \cup {c} |->
                      IF d = c THEN "process" ELSE task[d]]
        /\ beating' = beating \cup {c}
        /\ Goto(w, "top")
        /\ UNCHANGED <<running, permits, releasing>>

(* claim_job returned None, also when others held locks on the rows. *)
ClaimNoneKeepsPermit(w) ==
    /\ loop[w] = "claim"
    /\ Goto(w, "sleep")
    /\ UNCHANGED <<queueVars, running, permits, active, task, beating, releasing>>
ClaimNone(w) ==
    /\ loop[w] = "claim"
    /\ permits' = [permits EXCEPT ![w] = @ + 1]
    /\ Goto(w, "sleep")
    /\ UNCHANGED <<queueVars, running, active, task, beating, releasing>>

(* claim_job raised, after or without a commit of the claim in the         *)
(* database; the permit is returned only while the worker is running.      *)
ClaimError(w) ==
    /\ DbMayFail
    /\ loop[w] = "claim"
    /\ \/ \E s \in Shas : ClaimJob(w, s)
       \/ UNCHANGED queueVars
    /\ permits' = [permits EXCEPT ![w] = IF running[w] THEN @ + 1 ELSE @]
    /\ Goto(w, "sleep")
    /\ UNCHANGED <<running, active, task, beating, releasing>>

EndSleep(w) ==
    /\ loop[w] = "sleep"
    /\ Goto(w, "top")
    /\ UNCHANGED <<queueVars, running, permits, active, task, beating, releasing>>

-----------------------------------------------------------------------------
(***************************************************************************)
(* stop, shutdown, and the process being killed.                           *)
(***************************************************************************)
Stop(w) ==
    /\ w \in Stoppable
    /\ Alive(w) /\ running[w]
    /\ running' = [running EXCEPT ![w] = FALSE]
    /\ UNCHANGED <<queueVars, loop, permits, active, task, beating, releasing>>

(* asyncio.wait returns, with every task done or at its timeout; the tasks *)
(* still pending are cancelled and _active_jobs is copied, before any of   *)
(* them runs again.                                                        *)
DrainEnds(w) ==
    /\ loop[w] = "drain"
    /\ Cancel(TasksOf(w))
    /\ releasing' = [releasing EXCEPT ![w] = active[w]]
    /\ Goto(w, "release")
    /\ UNCHANGED <<queueVars, running, permits, active>>

(* One iteration of the release loop; an error is logged and passed over. *)
ReleaseActive(w) ==
    /\ loop[w] = "release"
    /\ \E c \in releasing[w] :
         /\ ReleaseJob(c, FALSE) \/ (DbMayFail /\ UNCHANGED queueVars)
         /\ releasing' = [releasing EXCEPT ![w] = @ \ {c}]
    /\ UNCHANGED <<loop, running, permits, active, task, beating>>

ReleasedAll(w) ==
    /\ loop[w] = "release"
    /\ releasing[w] = {}
    /\ Cancel(TasksOf(w))
    /\ Goto(w, "gather")
    /\ UNCHANGED <<queueVars, running, permits, active, releasing>>

(* gather() returns and the pool is closed. *)
Gathered(w) ==
    /\ loop[w] = "gather"
    /\ TasksOf(w) = {}
    /\ Goto(w, "stopped")
    /\ UNCHANGED <<queueVars, running, permits, active, task, beating, releasing>>

(* SIGKILL: everything the process holds in memory is gone. *)
Kill(w) ==
    /\ w \in Killable
    /\ Alive(w)
    /\ Goto(w, "killed")
    /\ active' = [active EXCEPT ![w] = {}]
    /\ releasing' = [releasing EXCEPT ![w] = {}]
    /\ permits' = [permits EXCEPT ![w] = 0]
    /\ task' = [c \in DOMAIN task |-> IF c.worker = w THEN "done" ELSE task[c]]
    /\ beating' = {c \in beating : c.worker # w}
    /\ UNCHANGED <<queueVars, running>>

-----------------------------------------------------------------------------
(***************************************************************************)
(* The tasks.                                                              *)
(***************************************************************************)

(* process_job up to the queue call that ends it: finalize_job("SUCCESS")  *)
(* after the review, and from the except clause release_job for a rate     *)
(* limit or finalize_job("FAILURE") for any other error.                   *)
Process(c) ==
    /\ task[c] = "process"
    /\ \E l \in {"commit", "fail", "requeue"} : TaskGoto(c, l)
    /\ UNCHANGED <<queueVars, loop, running, permits, active, beating, releasing>>

(* finalize_job("SUCCESS").  A stale token raises, and so may the          *)
(* connection, even after the commit; the except clause then takes the     *)
(* text of the error for a rate limit if "429" occurs in it, as it may in  *)
(* the job's id, and for a failure otherwise.                              *)
Commit(c) ==
    /\ task[c] = "commit"
    /\ \/ /\ FinalizeJob(c, "SUCCESS")
          /\ TaskGoto(c, "cleanup")
          /\ beating' = beating \ {c}
       \/ /\ \/ ~FenceMatches(c) /\ UNCHANGED queueVars
             \/ DbMayFail /\ (UNCHANGED queueVars \/ FinalizeJob(c, "SUCCESS"))
          /\ \E l \in {"fail", "requeue"} : TaskGoto(c, l)
          /\ UNCHANGED beating
    /\ UNCHANGED <<loop, running, permits, active, releasing>>

(* finalize_job("FAILURE"), whose errors are swallowed. *)
Fail(c) ==
    /\ task[c] = "fail"
    /\ \/ FinalizeJob(c, "FAILURE")
       \/ (~FenceMatches(c) \/ DbMayFail) /\ UNCHANGED queueVars
    /\ TaskGoto(c, "cleanup")
    /\ beating' = beating \ {c}
    /\ UNCHANGED <<loop, running, permits, active, releasing>>

(* Whether _retry_delay_for gives a positive delay: a Retry-After or       *)
(* rate-limit-reset header can make it 0.                                  *)
RetryDelays == BOOLEAN

(* release_job for a rate limit; an error of release_job itself leaves     *)
(* through the finally block.                                              *)
Requeue(c) ==
    /\ task[c] = "requeue"
    /\ \/ \E delayed \in RetryDelays : ReleaseJob(c, delayed)
       \/ DbMayFail /\ UNCHANGED queueVars
    /\ TaskGoto(c, "cleanup")
    /\ beating' = beating \ {c}
    /\ UNCHANGED <<loop, running, permits, active, releasing>>

(* The end of the finally blocks of process_job and _safe_process_job,     *)
(* which pops whatever entry _active_jobs has for the job's id.            *)
FinishKeepingEntry(c) ==
    /\ task[c] = "cleanup"
    /\ TaskGoto(c, "done")
    /\ permits' = [permits EXCEPT ![c.worker] = @ + 1]
    /\ UNCHANGED <<queueVars, loop, running, active, beating, releasing>>
Finish(c) ==
    /\ task[c] = "cleanup"
    /\ TaskGoto(c, "done")
    /\ active' = [active EXCEPT ![c.worker] = {a \in @ : a.sha # c.sha}]
    /\ permits' = [permits EXCEPT ![c.worker] = @ + 1]
    /\ UNCHANGED <<queueVars, loop, running, beating, releasing>>

(* One round of _run_heartbeat, which ends for good when update_heartbeat  *)
(* says that the worker does not own the job.                              *)
BeatUnasked(c) ==
    /\ c \in beating
    /\ beat_recent' = [beat_recent EXCEPT ![c.sha] = TRUE]
    /\ UNCHANGED <<status, worker_id, attempt_count, fence_token, due, aged,
                   github_check_run_id, heartbeat, review_records,
                   claims, commits, workerVars>>
Beat(c) ==
    /\ c \in beating
    /\ IF OwnsJob(c.worker, c.sha)
         THEN UpdateHeartbeat(c.worker, c.sha) /\ UNCHANGED beating
         ELSE beating' = beating \ {c} /\ UNCHANGED queueVars
    /\ UNCHANGED <<loop, running, permits, active, task, releasing>>

(* One round of reconciliation_loop.  The loop tests self.running before a *)
(* round, so a round that has begun may commit after a stop.               *)
Reconcile(w, R) ==
    /\ Alive(w)
    /\ ReconcileStaleJobs(R)
    /\ UNCHANGED workerVars

-----------------------------------------------------------------------------
LoopStep(w) ==
    \/ Top(w) \/ Wake(w)
    \/ \E s \in Shas : ClaimGot(w, s)
    \/ ClaimNone(w) \/ ClaimError(w) \/ EndSleep(w)
    \/ DrainEnds(w) \/ ReleaseActive(w) \/ ReleasedAll(w) \/ Gathered(w)

TaskStep(c) == Process(c) \/ Commit(c) \/ Fail(c) \/ Requeue(c) \/ Finish(c)

Signal(w) == Stop(w) \/ Kill(w)

Enqueue(s) == EnqueueIfNew(s) /\ UNCHANGED workerVars
PoolEnvironment == Environment /\ UNCHANGED workerVars

PoolNext ==
    \/ \E w \in Workers : LoopStep(w) \/ Signal(w)
    \/ \E c \in DOMAIN task : TaskStep(c) \/ Beat(c)
    \/ \E w \in Workers, R \in SUBSET Shas : Reconcile(w, R)
    \/ \E s \in Shas : Enqueue(s)
    \/ PoolEnvironment

(* Event loops run what is ready and calls return or raise (GitHub's and   *)
(* the drain after a timeout of the code), reconciliation comes round      *)
(* every minute and finds each stale row unlocked at some time, and time   *)
(* passes: a job's backoff and its hour end, and a beat that nobody renews *)
(* becomes old.                                                            *)
Renewed(s) == \E c \in beating : c.sha = s /\ c.worker = worker_id[s]
Fairness ==
    /\ \A w \in Workers :
         /\ WF_poolVars(LoopStep(w))
         /\ WF_poolVars(running[w] /\ Reconcile(w, {s \in Shas : Stale(s)}))
    /\ \A c \in [sha : Shas, worker : Workers, fence : 0..MaxAttempts - 1] :
         WF_poolVars(c \in DOMAIN task /\ TaskStep(c))
    /\ \A s \in Shas :
         /\ WF_poolVars(BecomeDue(s) /\ UNCHANGED workerVars)
         /\ WF_poolVars(BecomeAged(s) /\ UNCHANGED workerVars)
         /\ WF_poolVars(~Renewed(s) /\ BeatExpires(s) /\ UNCHANGED workerVars)

PoolSpec == PoolInit /\ [][PoolNext]_poolVars
FairSpec == PoolSpec /\ Fairness

-----------------------------------------------------------------------------
(***************************************************************************)
(* Properties.                                                             *)
(***************************************************************************)

(* What the workers do to the queue, in any interleaving with shutdown,    *)
(* cancellation and SIGKILL, is something the queue's specification        *)
(* allows, so all that is proved of JobQueue holds of the worker pool.     *)
QueueSpec == Spec

(* The semaphore of a running worker is never over- or under-released: its *)
(* free permits, its live tasks and the claim in progress add up to        *)
(* WORKER_CONCURRENCY on every path through run_forever, errors included.  *)
PermitsConserved ==
    \A w \in Workers :
      Alive(w) =>
        LET held == Cardinality(TasksOf(w)) + (IF loop[w] = "claim" THEN 1 ELSE 0)
        IN  IF running[w] THEN permits[w] + held = Concurrency
                          ELSE permits[w] + held <= Concurrency

(* An entry of _active_jobs belongs to a task that has not finished, and   *)
(* holds that task's own token, also when the worker claimed again a job   *)
(* of which it still runs an earlier attempt.                              *)
ActiveHasTask ==
    \A w \in Workers : active[w] \subseteq TasksOf(w)

(* reconcile_stale_jobs takes a job only from an owner that has not sent a *)
(* heartbeat for WORKER_HEARTBEAT_STALE_SECONDS (checked where no database *)
(* restart empties the heartbeat table).                                   *)
TakesOnlyFromStaleOwner ==
    [][\A w \in Workers, R \in SUBSET Shas :
         Reconcile(w, R) => \A s \in R : ~beat_recent[s]]_poolVars

(* finalize_job commits a review once: a record is never written over.     *)
CommittedOnce ==
    [][\A s \in Shas :
         review_records[s] # None => review_records'[s] = review_records[s]]_poolVars

(* Every enqueued job is finished or buried in the end, whatever workers   *)
(* die or stop, as long as one goes on.                                    *)
EventuallySettled ==
    \A s \in Shas : status[s] = "pending" ~> status[s] \in Terminal

(* A worker told to stop does stop, wherever its loop is at that moment.   *)
StopTerminates ==
    \A w \in Workers : ~running[w] ~> ~Alive(w)
=============================================================================
