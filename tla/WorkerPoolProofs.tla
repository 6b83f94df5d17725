-------------------------- MODULE WorkerPoolProofs --------------------------
(***************************************************************************)
(* Proofs about the worker processes, for any number of workers, slots,    *)
(* commits and attempts: what they do to the queue is what JobQueue        *)
(* allows, and no path through the claim loop, the tasks, shutdown or      *)
(* SIGKILL loses or invents a permit of the semaphore.                     *)
(***************************************************************************)
EXTENDS WorkerPool, JobQueueProofs, FiniteSetTheorems

(* The permits of a worker that are free, held by its tasks or held by the *)
(* claim in progress.                                                      *)
Slots(w) ==
    permits[w] + Cardinality(TasksOf(w)) + (IF loop[w] = "claim" THEN 1 ELSE 0)

(* What each worker keeps up.  Slots(w) <= Concurrency holds for stopped   *)
(* and killed workers as well, which PermitsConserved does not speak of:   *)
(* a task that finishes late must find room for the permit it returns.     *)
WorkerInv(w) ==
    /\ IsFiniteSet(TasksOf(w))
    /\ active[w] \subseteq TasksOf(w)
    /\ Slots(w) <= Concurrency
    /\ Alive(w) /\ running[w] => Slots(w) = Concurrency

(* The inductive invariant.  That a claim never finds its own task there   *)
(* already needs the fencing of the queue (IInv).                          *)
PoolInv ==
    /\ IInv
    /\ PoolTypeOK
    /\ \A w \in Workers : WorkerInv(w)

USE ConcurrencyAssumption, StopAssumption

-----------------------------------------------------------------------------
(* The steps of the pool, seen from the queue. *)

(* The inductive invariant holds at the start. *)
LEMMA InitPoolInv == PoolInit => PoolInv
<1>. SUFFICES ASSUME PoolInit
              PROVE  PoolInv
  OBVIOUS
<1>1. IInv
  BY InitIInv DEF PoolInit
<1>2. DOMAIN task = {}
  BY DEF PoolInit
<1>3. PoolTypeOK
  BY <1>1, <1>2 DEF PoolInit, PoolTypeOK, IInv, LoopStates
<1>4. ASSUME NEW w \in Workers
      PROVE  WorkerInv(w)
  <2>1. TasksOf(w) = {}
    BY <1>2 DEF TasksOf
  <2>2. IsFiniteSet(TasksOf(w)) /\ Cardinality(TasksOf(w)) = 0
    BY <2>1, FS_EmptySet
  <2>3. Slots(w) = Concurrency
    BY <2>2 DEF Slots, PoolInit
  <2>. QED
    BY <2>1, <2>2, <2>3 DEF WorkerInv, PoolInit
<1>. QED
  BY <1>1, <1>3, <1>4 DEF PoolInv

(* Every step of the pool is one call of a method of the queue that        *)
(* JobQueue allows, a step of its environment, or leaves the queue alone.  *)
LEMMA QueueStep ==
  ASSUME PoolTypeOK, [PoolNext]_poolVars
  PROVE  [Next]_vars
<1>. USE DEF queueVars
<1>1. \A c \in DOMAIN task : c \in claims /\ c.worker \in Workers /\ c.sha \in Shas
  BY DEF PoolTypeOK, TypeOK, Claim
<1>2. CASE UNCHANGED poolVars
  BY <1>2 DEF poolVars
<1>3. ASSUME NEW w \in Workers, LoopStep(w)
      PROVE  [Next]_vars
  <2>1. CASE Top(w) \/ Wake(w) \/ ClaimNone(w) \/ EndSleep(w) \/ DrainEnds(w)
             \/ ReleasedAll(w) \/ Gathered(w)
    BY <2>1 DEF Top, Wake, ClaimNone, EndSleep, DrainEnds, ReleasedAll, Gathered
  <2>2. CASE \E s \in Shas : ClaimGot(w, s)
    BY <2>2 DEF ClaimGot, Next, Client
  <2>3. CASE ClaimError(w)
    BY <2>3 DEF ClaimError, Next, Client
  <2>4. CASE ReleaseActive(w)
    <3>1. releasing[w] \subseteq claims
      BY DEF PoolTypeOK
    <3>2. \/ UNCHANGED vars
          \/ \E c \in claims : ReleaseJob(c, FALSE)
      BY <2>4, <3>1 DEF ReleaseActive
    <3>. QED
      BY <3>2, Zenon DEF Next, Client
  <2>. QED
    BY <1>3, <2>1, <2>2, <2>3, <2>4 DEF LoopStep
<1>4. ASSUME NEW w \in Workers, Signal(w)
      PROVE  [Next]_vars
  BY <1>4 DEF Signal, Stop, Kill
<1>5. ASSUME NEW c \in DOMAIN task, TaskStep(c)
      PROVE  [Next]_vars
  <2>1. \/ UNCHANGED vars
        \/ \E result \in Results : FinalizeJob(c, result)
        \/ \E delayed \in BOOLEAN : ReleaseJob(c, delayed)
    BY <1>5, Zenon DEF TaskStep, Process, Commit, Fail, Requeue, Finish,
       RetryDelays, Results
  <2>. QED
    BY <1>1, <2>1, Zenon DEF Next, Client
<1>6. ASSUME NEW c \in DOMAIN task, Beat(c)
      PROVE  [Next]_vars
  BY <1>1, <1>6 DEF Beat, Next, Client
<1>7. ASSUME NEW w \in Workers, NEW R \in SUBSET Shas, Reconcile(w, R)
      PROVE  [Next]_vars
  BY <1>7 DEF Reconcile, Next, Client
<1>8. ASSUME NEW s \in Shas, Enqueue(s)
      PROVE  [Next]_vars
  BY <1>8 DEF Enqueue, Next, Client
<1>9. CASE PoolEnvironment
  BY <1>9 DEF PoolEnvironment, Next
<1>. QED
  BY <1>2, <1>3, <1>4, <1>5, <1>6, <1>7, <1>8, <1>9 DEF PoolNext

(* Rows that claim_job returned are never forgotten. *)
LEMMA ClaimsGrow == [Next]_vars => claims \subseteq claims'
BY DEF Next, Client, Environment, EnqueueIfNew, ClaimJob, UpdateHeartbeat,
   SetCheckRunId, FinalizeJob, ReleaseJob, ReconcileStaleJobs, BecomeDue,
   BecomeAged, BeatExpires, DbRestart, vars

-----------------------------------------------------------------------------
(* The workers. *)

(* A worker whose tasks and permits a step leaves alone keeps its part of  *)
(* the invariant; it may stop running or alive.                            *)
LEMMA SameWorker ==
  ASSUME NEW w \in Workers, WorkerInv(w),
         TasksOf(w)' = TasksOf(w), active'[w] = active[w],
         permits'[w] = permits[w],
         loop'[w] = "claim" <=> loop[w] = "claim",
         Alive(w)' => Alive(w), running'[w] => running[w]
  PROVE  WorkerInv(w)'
BY DEF WorkerInv, Slots

(* Cancelling tasks that are not over leaves every worker the same tasks. *)
LEMMA CancelKeepsTasks ==
  ASSUME PoolTypeOK, NEW w, Cancel(TasksOf(w))
  PROVE  /\ DOMAIN task' = DOMAIN task
         /\ \A c \in DOMAIN task : task'[c] \in TaskStates
         /\ beating' \subseteq DOMAIN task
         /\ \A v : TasksOf(v)' = TasksOf(v)
BY DEF PoolTypeOK, Cancel, TasksOf, TaskStates

(* The same tasks go on if one of them moves on to a state that is not its *)
(* end.                                                                    *)
LEMMA MoveKeepsTasks ==
  ASSUME PoolTypeOK, NEW c \in DOMAIN task, task[c] # "done",
         NEW l \in TaskStates \ {"done"}, TaskGoto(c, l)
  PROVE  /\ DOMAIN task' = DOMAIN task
         /\ \A d \in DOMAIN task : task'[d] \in TaskStates
         /\ \A v : TasksOf(v)' = TasksOf(v)
BY DEF PoolTypeOK, TaskGoto, TasksOf

(* The queue keeps its own invariant and the rows it returned. *)
LEMMA QueueKept ==
  ASSUME PoolInv, [PoolNext]_poolVars
  PROVE  IInv' /\ TypeOK' /\ claims \subseteq claims'
<1>1. [Next]_vars
  BY QueueStep DEF PoolInv
<1>. QED
  BY <1>1, NextPreserves, ClaimsGrow DEF PoolInv, IInv

(* Steps of run_forever and shutdown that neither take nor return a permit *)
(* nor start a task.                                                       *)
LEMMA QuietLoopPreserves ==
  ASSUME PoolInv, IInv', claims \subseteq claims', NEW w \in Workers,
         \/ EndSleep(w) \/ Stop(w) \/ DrainEnds(w) \/ ReleaseActive(w)
         \/ ReleasedAll(w) \/ Gathered(w)
  PROVE  PoolInv'
<1>. USE DEF PoolInv
<1>1. /\ DOMAIN task' = DOMAIN task
      /\ \A c \in DOMAIN task : task'[c] \in TaskStates
      /\ beating' \subseteq DOMAIN task
      /\ \A v : TasksOf(v)' = TasksOf(v)
  <2>1. CASE UNCHANGED <<task, beating>>
    BY <2>1 DEF PoolTypeOK, TasksOf
  <2>2. CASE Cancel(TasksOf(w))
    BY <2>2, CancelKeepsTasks
  <2>. QED
    BY <2>1, <2>2 DEF EndSleep, Stop, DrainEnds, ReleaseActive, ReleasedAll, Gathered
<1>2. UNCHANGED <<permits, active>>
  BY DEF EndSleep, Stop, DrainEnds, ReleaseActive, ReleasedAll, Gathered
<1>3. /\ loop' \in [Workers -> LoopStates]
      /\ \A v \in Workers : /\ loop'[v] = "claim" <=> loop[v] = "claim"
                            /\ Alive(v)' => Alive(v)
  BY DEF PoolTypeOK, EndSleep, Stop, DrainEnds, ReleaseActive, ReleasedAll,
     Gathered, Goto, LoopStates, Alive
<1>4. /\ running' \in [Workers -> BOOLEAN]
      /\ \A v \in Workers : running'[v] => running[v]
  BY DEF PoolTypeOK, EndSleep, Stop, DrainEnds, ReleaseActive, ReleasedAll, Gathered
<1>5. releasing' \in [Workers -> SUBSET claims]
  BY DEF PoolTypeOK, EndSleep, Stop, DrainEnds, ReleaseActive, ReleasedAll, Gathered
<1>6. PoolTypeOK'
  BY <1>1, <1>2, <1>3, <1>4, <1>5 DEF PoolTypeOK, IInv
<1>7. \A v \in Workers : WorkerInv(v)'
  BY <1>1, <1>2, <1>3, <1>4, SameWorker
<1>. QED
  BY <1>6, <1>7

(* Steps of run_forever that move a permit between the semaphore and the   *)
(* claim in progress, or find that the loop has been stopped.  claim_job   *)
(* raising while the worker stops is the one path that loses a permit.     *)
LEMMA PermitLoopPreserves ==
  ASSUME PoolInv, IInv', claims \subseteq claims', NEW w \in Workers,
         Top(w) \/ Wake(w) \/ ClaimNone(w) \/ ClaimError(w)
  PROVE  PoolInv'
<1>. USE DEF PoolInv
<1>1. /\ DOMAIN task' = DOMAIN task
      /\ \A c \in DOMAIN task : task'[c] \in TaskStates
      /\ beating' \subseteq DOMAIN task
      /\ \A v : TasksOf(v)' = TasksOf(v)
  <2>1. CASE UNCHANGED <<task, beating>>
    BY <2>1 DEF PoolTypeOK, TasksOf
  <2>2. CASE Cancel(TasksOf(w))
    BY <2>2, CancelKeepsTasks
  <2>. QED
    BY <2>1, <2>2 DEF Top, Wake, ClaimNone, ClaimError, BeginShutdown
<1>2. UNCHANGED <<running, active, releasing>>
  BY DEF Top, Wake, ClaimNone, ClaimError
<1>3. loop' \in [Workers -> LoopStates]
  BY DEF PoolTypeOK, Top, Wake, ClaimNone, ClaimError, BeginShutdown, Goto, LoopStates
<1>4. \A v \in Workers \ {w} : /\ loop'[v] = loop[v]
                               /\ permits'[v] = permits[v]
  BY DEF PoolTypeOK, Top, Wake, ClaimNone, ClaimError, BeginShutdown, Goto
<1>5. ASSUME NEW v \in Workers \ {w}
      PROVE  WorkerInv(v)'
  BY <1>1, <1>2, <1>4, SameWorker DEF Alive
<1>6. Cardinality(TasksOf(w)) \in Nat
  BY FS_CardinalityType DEF WorkerInv
<1>7. /\ permits' \in [Workers -> Nat]
      /\ Slots(w)' <= Slots(w)
      /\ running[w] => Slots(w)' = Slots(w)
      /\ Alive(w)
  <2>1. CASE Top(w)
    BY <1>1, <1>3, <1>6, <2>1 DEF Top, PoolTypeOK, Slots, Goto, BeginShutdown, Alive
  <2>2. CASE Wake(w)
    BY <1>1, <1>3, <1>6, <2>2 DEF Wake, PoolTypeOK, Slots, Goto, BeginShutdown, Alive
  <2>3. CASE ClaimNone(w)
    BY <1>1, <1>3, <1>6, <2>3 DEF ClaimNone, PoolTypeOK, Slots, Goto, Alive
  <2>4. CASE ClaimError(w)
    BY <1>1, <1>3, <1>6, <2>4 DEF ClaimError, PoolTypeOK, Slots, Goto, Alive
  <2>. QED
    BY <2>1, <2>2, <2>3, <2>4
<1>8. WorkerInv(w)'
  <2>1. Slots(w) \in Nat /\ Slots(w)' \in Nat
    BY <1>1, <1>6, <1>7 DEF Slots, PoolTypeOK
  <2>. QED
    BY <1>1, <1>2, <1>7, <2>1 DEF WorkerInv
<1>9. permits' \in [Workers -> 0..Concurrency]
  <2>1. permits'[w] <= Slots(w)' /\ Slots(w)' <= Concurrency
    BY <1>1, <1>6, <1>7, <1>8 DEF Slots, WorkerInv
  <2>2. Slots(w)' \in Nat
    BY <1>1, <1>6, <1>7 DEF Slots
  <2>. QED
    BY <1>4, <1>7, <2>1, <2>2 DEF PoolTypeOK
<1>10. PoolTypeOK'
  BY <1>1, <1>2, <1>3, <1>9 DEF PoolTypeOK, IInv
<1>. QED
  BY <1>5, <1>8, <1>10

(* A row that claim_job returns is a claim that has no task yet: a claim   *)
(* with the job's token would mean that the job is not pending.            *)
LEMMA ClaimIsNew ==
  ASSUME PoolInv, NEW w \in Workers, NEW s \in Shas, ClaimJob(w, s)
  PROVE  [sha |-> s, worker |-> w, fence |-> fence_token[s]] \notin DOMAIN task
<1>. DEFINE c == [sha |-> s, worker |-> w, fence |-> fence_token[s]]
<1>1. status[s] = "pending"
  BY DEF ClaimJob, Claimable
<1>2. ASSUME c \in claims
      PROVE  FALSE
  BY <1>1, <1>2 DEF PoolInv, IInv, FenceHoldsJob, Results
<1>. QED
  BY <1>2 DEF PoolInv, PoolTypeOK

(* The permit of the claim in progress becomes that of the new task. *)
LEMMA ClaimGotPreserves ==
  ASSUME PoolInv, IInv', NEW w \in Workers, NEW s \in Shas, ClaimGot(w, s)
  PROVE  PoolInv'
<1>. DEFINE c == [sha |-> s, worker |-> w, fence |-> fence_token[s]]
<1>. USE DEF PoolInv
<1>1. /\ loop[w] = "claim" /\ Goto(w, "top")
      /\ ClaimJob(w, s)
      /\ claims' = claims \cup {c}
      /\ active' = [active EXCEPT ![w] = {a \in @ : a.sha # s} \cup {c}]
      /\ task' = [d \in DOMAIN task \cup {c} |->
                    IF d = c THEN "process" ELSE task[d]]
      /\ beating' = beating \cup {c}
      /\ UNCHANGED <<running, permits, releasing>>
  BY DEF ClaimGot, ClaimJob
<1>2. c \notin DOMAIN task
  BY <1>1, ClaimIsNew
<1>3. c.worker = w /\ c.sha = s
  OBVIOUS
<1>. HIDE DEF c
<1>4. PoolTypeOK'
  <2>1. active' \in [Workers -> SUBSET claims']
    BY <1>1 DEF PoolTypeOK
  <2>2. loop' \in [Workers -> LoopStates]
    BY <1>1 DEF PoolTypeOK, Goto, LoopStates
  <2>3. /\ DOMAIN task' \subseteq claims'
        /\ \A d \in DOMAIN task' : task'[d] \in TaskStates
        /\ beating' \subseteq DOMAIN task'
    BY <1>1 DEF PoolTypeOK, TaskStates
  <2>4. releasing' \in [Workers -> SUBSET claims']
    BY <1>1 DEF PoolTypeOK
  <2>. QED
    BY <1>1, <2>1, <2>2, <2>3, <2>4 DEF PoolTypeOK, IInv
<1>5. ASSUME NEW v \in Workers \ {w}
      PROVE  WorkerInv(v)'
  <2>1. TasksOf(v)' = TasksOf(v)
    BY <1>1, <1>2, <1>3 DEF TasksOf
  <2>2. loop'[v] = loop[v] /\ active'[v] = active[v]
    BY <1>1 DEF PoolTypeOK, Goto
  <2>. QED
    BY <1>1, <2>1, <2>2, SameWorker DEF Alive
<1>6. WorkerInv(w)'
  <2>1. TasksOf(w)' = TasksOf(w) \cup {c} /\ c \notin TasksOf(w)
    BY <1>1, <1>2, <1>3 DEF TasksOf
  <2>2. /\ IsFiniteSet(TasksOf(w)')
        /\ Cardinality(TasksOf(w)') = Cardinality(TasksOf(w)) + 1
    BY <2>1, FS_AddElement DEF WorkerInv
  <2>3. active'[w] \subseteq TasksOf(w)'
    BY <1>1, <2>1 DEF PoolTypeOK, WorkerInv
  <2>4. loop'[w] = "top"
    BY <1>1 DEF PoolTypeOK, Goto
  <2>5. Cardinality(TasksOf(w)) \in Nat
    BY FS_CardinalityType DEF WorkerInv
  <2>6. Slots(w)' = Slots(w)
    BY <1>1, <2>2, <2>4, <2>5 DEF Slots, PoolTypeOK
  <2>. QED
    BY <1>1, <2>2, <2>3, <2>6 DEF WorkerInv, Alive
<1>. QED
  BY <1>4, <1>5, <1>6

(* The process is gone, with its tasks and permits. *)
LEMMA KillPreserves ==
  ASSUME PoolInv, IInv', claims \subseteq claims', NEW w \in Workers, Kill(w)
  PROVE  PoolInv'
<1>. USE DEF PoolInv
<1>1. PoolTypeOK'
  <2>1. /\ loop' \in [Workers -> LoopStates]
        /\ permits' \in [Workers -> 0..Concurrency]
        /\ active' \in [Workers -> SUBSET claims']
        /\ releasing' \in [Workers -> SUBSET claims']
    BY DEF Kill, PoolTypeOK, Goto, LoopStates
  <2>2. /\ DOMAIN task' \subseteq claims'
        /\ \A d \in DOMAIN task' : task'[d] \in TaskStates
        /\ beating' \subseteq DOMAIN task'
    BY DEF Kill, PoolTypeOK, TaskStates
  <2>. QED
    BY <2>1, <2>2 DEF Kill, PoolTypeOK, IInv
<1>2. ASSUME NEW v \in Workers \ {w}
      PROVE  WorkerInv(v)'
  <2>1. TasksOf(v)' = TasksOf(v)
    BY DEF Kill, TasksOf
  <2>2. /\ loop'[v] = loop[v] /\ active'[v] = active[v]
        /\ permits'[v] = permits[v] /\ running'[v] = running[v]
    BY DEF Kill, PoolTypeOK, Goto
  <2>. QED
    BY <2>1, <2>2, SameWorker DEF Alive
<1>3. WorkerInv(w)'
  <2>1. TasksOf(w)' = {}
    BY DEF Kill, TasksOf
  <2>2. IsFiniteSet(TasksOf(w)') /\ Cardinality(TasksOf(w)') = 0
    BY <2>1, FS_EmptySet
  <2>3. loop'[w] = "killed" /\ permits'[w] = 0 /\ active'[w] = {}
    BY DEF Kill, PoolTypeOK, Goto
  <2>. QED
    BY <2>2, <2>3 DEF WorkerInv, Slots, Alive
<1>. QED
  BY <1>1, <1>2, <1>3

(* The steps of a task before its end, whatever they do to the queue. *)
LEMMA TaskMovePreserves ==
  ASSUME PoolInv, IInv', claims \subseteq claims', NEW c \in DOMAIN task,
         Process(c) \/ Commit(c) \/ Fail(c) \/ Requeue(c)
  PROVE  PoolInv'
<1>. USE DEF PoolInv
<1>1. /\ task[c] # "done"
      /\ \E l \in TaskStates \ {"done"} : TaskGoto(c, l)
      /\ beating' \subseteq beating
      /\ UNCHANGED <<loop, running, permits, active, releasing>>
  BY DEF Process, Commit, Fail, Requeue, TaskStates
<1>2. /\ DOMAIN task' = DOMAIN task
      /\ \A d \in DOMAIN task : task'[d] \in TaskStates
      /\ \A v : TasksOf(v)' = TasksOf(v)
  BY <1>1, MoveKeepsTasks
<1>3. PoolTypeOK'
  BY <1>1, <1>2 DEF PoolTypeOK, IInv
<1>4. \A v \in Workers : WorkerInv(v)'
  BY <1>1, <1>2, SameWorker DEF Alive
<1>. QED
  BY <1>3, <1>4

(* A task that ends returns its permit and leaves no entry of its job in   *)
(* _active_jobs.                                                           *)
LEMMA FinishPreserves ==
  ASSUME PoolInv, IInv', NEW c \in DOMAIN task, Finish(c)
  PROVE  PoolInv'
<1>. USE DEF PoolInv
<1>. DEFINE w == c.worker
<1>1. /\ task[c] = "cleanup" /\ TaskGoto(c, "done")
      /\ active' = [active EXCEPT ![w] = {a \in @ : a.sha # c.sha}]
      /\ permits' = [permits EXCEPT ![w] = @ + 1]
      /\ UNCHANGED <<loop, running, beating, releasing, claims>>
  BY DEF Finish, queueVars, vars
<1>2. w \in Workers
  BY DEF PoolTypeOK, TypeOK, Claim
<1>3. DOMAIN task' = DOMAIN task /\ \A d \in DOMAIN task : task'[d] \in TaskStates
  BY <1>1 DEF TaskGoto, PoolTypeOK, TaskStates
<1>4. ASSUME NEW v \in Workers \ {w}
      PROVE  WorkerInv(v)'
  <2>1. TasksOf(v)' = TasksOf(v)
    BY <1>1 DEF TasksOf, TaskGoto
  <2>2. active'[v] = active[v] /\ permits'[v] = permits[v]
    BY <1>1 DEF PoolTypeOK
  <2>. QED
    BY <1>1, <2>1, <2>2, SameWorker DEF Alive
<1>5. c \in TasksOf(w) /\ TasksOf(w)' = TasksOf(w) \ {c}
  BY <1>1 DEF TasksOf, TaskGoto
<1>6. /\ IsFiniteSet(TasksOf(w)')
      /\ Cardinality(TasksOf(w)') = Cardinality(TasksOf(w)) - 1
      /\ Cardinality(TasksOf(w)) \in Nat /\ Cardinality(TasksOf(w)') \in Nat
  BY <1>2, <1>5, FS_RemoveElement, FS_CardinalityType DEF WorkerInv
<1>7. permits'[w] = permits[w] + 1 /\ permits[w] \in Nat
  BY <1>1, <1>2 DEF PoolTypeOK
<1>8. Slots(w)' = Slots(w)
  BY <1>1, <1>6, <1>7 DEF Slots
<1>9. WorkerInv(w)'
  <2>1. active'[w] \subseteq TasksOf(w)'
    BY <1>1, <1>2, <1>5 DEF PoolTypeOK, WorkerInv
  <2>. QED
    BY <1>1, <1>2, <1>6, <1>8, <2>1 DEF WorkerInv, Alive
<1>10. PoolTypeOK'
  <2>1. permits'[w] \in 0..Concurrency
    BY <1>1, <1>6, <1>7, <1>9 DEF WorkerInv, Slots
  <2>2. permits' \in [Workers -> 0..Concurrency]
    BY <1>1, <1>2, <2>1 DEF PoolTypeOK
  <2>3. active' \in [Workers -> SUBSET claims]
    BY <1>1 DEF PoolTypeOK
  <2>. QED
    BY <1>1, <1>3, <2>2, <2>3 DEF PoolTypeOK, IInv
<1>. QED
  BY <1>4, <1>9, <1>10

(* Heartbeats, reconciliation, webhooks and time leave the workers' own    *)
(* state alone, up to a heartbeat that ends.                               *)
LEMMA OutsidePreserves ==
  ASSUME PoolInv, IInv', claims \subseteq claims',
         \/ \E c \in DOMAIN task : Beat(c)
         \/ \E w \in Workers, R \in SUBSET Shas : Reconcile(w, R)
         \/ \E s \in Shas : Enqueue(s)
         \/ PoolEnvironment
         \/ UNCHANGED poolVars
  PROVE  PoolInv'
<1>. USE DEF PoolInv
<1>1. /\ beating' \subseteq beating
      /\ UNCHANGED <<loop, running, permits, active, task, releasing>>
  BY DEF Beat, Reconcile, Enqueue, PoolEnvironment, poolVars, workerVars
<1>2. PoolTypeOK'
  BY <1>1 DEF PoolTypeOK, IInv
<1>3. \A v \in Workers : WorkerInv(v)'
  BY <1>1, SameWorker DEF Alive, TasksOf
<1>. QED
  BY <1>2, <1>3

(* Every step preserves the inductive invariant. *)
LEMMA PoolNextPreserves == PoolInv /\ [PoolNext]_poolVars => PoolInv'
<1>. SUFFICES ASSUME PoolInv, [PoolNext]_poolVars
              PROVE  PoolInv'
  OBVIOUS
<1>1. IInv' /\ claims \subseteq claims'
  BY QueueKept
<1>2. ASSUME NEW w \in Workers, LoopStep(w) \/ Signal(w)
      PROVE  PoolInv'
  BY <1>1, <1>2, QuietLoopPreserves, PermitLoopPreserves, ClaimGotPreserves,
     KillPreserves DEF LoopStep, Signal
<1>3. ASSUME NEW c \in DOMAIN task, TaskStep(c)
      PROVE  PoolInv'
  BY <1>1, <1>3, TaskMovePreserves, FinishPreserves DEF TaskStep
<1>4. CASE \/ \E c \in DOMAIN task : Beat(c)
           \/ \E w \in Workers, R \in SUBSET Shas : Reconcile(w, R)
           \/ \E s \in Shas : Enqueue(s)
           \/ PoolEnvironment
           \/ UNCHANGED poolVars
  BY <1>1, <1>4, OutsidePreserves
<1>. QED
  BY <1>2, <1>3, <1>4 DEF PoolNext

-----------------------------------------------------------------------------
(* The inductive invariant holds in every reachable state. *)
THEOREM PoolInvariance == PoolSpec => []PoolInv
  BY InitPoolInv, PoolNextPreserves, PTL DEF PoolSpec

(* The type invariant: the semaphore stays between 0 and                   *)
(* WORKER_CONCURRENCY, and tasks, heartbeats, _active_jobs and the list    *)
(* that shutdown releases refer to rows that claim_job returned.           *)
THEOREM PoolTypeCorrect == PoolSpec => []PoolTypeOK
<1>1. PoolInv => PoolTypeOK
  BY DEF PoolInv
<1>. QED
  BY <1>1, PoolInvariance, PTL

(* The workers implement the queue's specification: whatever they, their   *)
(* shutdown or their death do, every step is a call that JobQueue allows.  *)
THEOREM ImplementsQueue == PoolSpec => QueueSpec
<1>1. PoolInit => Init
  BY DEF PoolInit
<1>2. PoolInv /\ [PoolNext]_poolVars => [Next]_vars
  BY QueueStep DEF PoolInv
<1>. QED
  BY <1>1, <1>2, PoolInvariance, PTL DEF PoolSpec, QueueSpec, Spec

(* So the workers implement the lifecycle of a job too: one holder at a    *)
(* time, and a result that only the holder's attempt writes.               *)
COROLLARY PoolImplementsLifecycle == PoolSpec => LifecycleSpec
  BY ImplementsQueue, ImplementsLifecycle, PTL DEF QueueSpec

(* No path through run_forever, the tasks, shutdown or SIGKILL loses a     *)
(* permit of a running worker or releases one twice.                       *)
THEOREM PermitsKept == PoolSpec => []PermitsConserved
<1>1. PoolInv => PermitsConserved
  <2>. SUFFICES ASSUME PoolInv, NEW w \in Workers, Alive(w)
                PROVE  LET held == Cardinality(TasksOf(w)) +
                                     (IF loop[w] = "claim" THEN 1 ELSE 0)
                       IN  IF running[w] THEN permits[w] + held = Concurrency
                                         ELSE permits[w] + held <= Concurrency
    BY DEF PermitsConserved
  <2>1. Cardinality(TasksOf(w)) \in Nat /\ permits[w] \in Nat
    BY FS_CardinalityType DEF PoolInv, WorkerInv, PoolTypeOK
  <2>. QED
    BY <2>1 DEF PoolInv, WorkerInv, Slots
<1>. QED
  BY <1>1, PoolInvariance, PTL

(* An entry of _active_jobs belongs to a task of that worker that has not  *)
(* finished, so shutdown releases no job with a token nobody works under.  *)
THEOREM EntriesHaveTasks == PoolSpec => []ActiveHasTask
<1>1. PoolInv => ActiveHasTask
  BY DEF PoolInv, WorkerInv, ActiveHasTask
<1>. QED
  BY <1>1, PoolInvariance, PTL
=============================================================================
