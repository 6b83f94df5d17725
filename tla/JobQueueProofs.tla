--------------------------- MODULE JobQueueProofs ---------------------------
(***************************************************************************)
(* Proofs that the fencing protocol of the job queue is correct for any    *)
(* set of commits and workers, any attempt limit and any order of calls.   *)
(***************************************************************************)
EXTENDS JobQueue, TLAPS

(* A claim that committed still has the job's token: finalize_job does not *)
(* change it, and release_job and reconcile_stale_jobs, which do, touch    *)
(* only jobs that are processing.                                          *)
CommitHoldsFence ==
    \A c \in commits : /\ c.fence = fence_token[c.sha]
                       /\ status[c.sha] \in Results

(* The inductive invariant.  TypeOK bounds fence_token by MaxAttempts,     *)
(* which rests on FenceCountsAttempts; TokenNamesOneClaim rests on         *)
(* FenceHoldsJob (a pending job's token was never handed out).             *)
IInv ==
    /\ TypeOK
    /\ FenceCountsAttempts
    /\ TokenNamesOneClaim
    /\ FenceHoldsJob
    /\ HeartbeatNamesOwner
    /\ CommitHoldsFence
    /\ RecordMatchesJob

USE MaxAttemptsAssumption, NoneAssumption, DbMayRestartAssumption

(* The inductive invariant holds at the start. *)
LEMMA InitIInv == Init => IInv
  BY DEF Init, IInv, TypeOK, FenceCountsAttempts, TokenNamesOneClaim,
         FenceHoldsJob, HeartbeatNamesOwner, CommitHoldsFence,
         RecordMatchesJob, Results, Statuses, Open, Terminal, Claim

(* An insert touches only a job that nobody has claimed. *)
LEMMA EnqueuePreserves ==
  ASSUME IInv, NEW s \in Shas, EnqueueIfNew(s)
  PROVE  IInv'
<1>. USE DEF IInv, EnqueueIfNew, heartbeatVars, Results, Statuses, Open, Terminal
<1>1. TypeOK'
  BY DEF TypeOK
<1>2. FenceCountsAttempts'
  BY DEF TypeOK, FenceCountsAttempts
<1>3. TokenNamesOneClaim'
  BY DEF TokenNamesOneClaim
<1>4. FenceHoldsJob'
  BY DEF TypeOK, FenceHoldsJob, Claim
<1>5. HeartbeatNamesOwner'
  BY DEF TypeOK, HeartbeatNamesOwner, OwnsJob
<1>6. CommitHoldsFence'
  BY DEF TypeOK, CommitHoldsFence, Claim
<1>7. RecordMatchesJob'
  BY DEF TypeOK, RecordMatchesJob
<1>. QED
  BY <1>1, <1>2, <1>3, <1>4, <1>5, <1>6, <1>7

(* The token that a claim returns was never returned before, since a claim *)
(* with the job's current token would mean that the job is not pending.    *)
LEMMA ClaimPreserves ==
  ASSUME IInv, NEW w \in Workers, NEW s \in Shas, ClaimJob(w, s)
  PROVE  IInv'
<1>. DEFINE new == [sha |-> s, worker |-> w, fence |-> fence_token[s]]
<1>. USE DEF IInv, ClaimJob, Claimable, Results, Statuses, Open, Terminal
<1>1. /\ new \in Claim
      /\ new.sha = s /\ new.worker = w /\ new.fence = fence_token[s]
      /\ claims' = claims \cup {new}
  BY DEF TypeOK, Claim
<1>2. \A c \in claims : c.sha = s => c.fence < fence_token[s]
  BY DEF TypeOK, FenceHoldsJob, Claim
<1>3. TypeOK'
  BY <1>1 DEF TypeOK
<1>4. FenceCountsAttempts'
  BY DEF TypeOK, FenceCountsAttempts
<1>5. TokenNamesOneClaim'
  <2>. SUFFICES ASSUME NEW c \in claims', NEW d \in claims',
                       c.sha = d.sha, c.fence = d.fence
                PROVE  c = d
    BY DEF TokenNamesOneClaim
  <2>1. CASE c \in claims /\ d \in claims
    BY <2>1 DEF TokenNamesOneClaim
  <2>2. CASE c = new /\ d \in claims
    BY <2>2, <1>1, <1>2 DEF TypeOK, Claim
  <2>3. CASE c \in claims /\ d = new
    BY <2>3, <1>1, <1>2 DEF TypeOK, Claim
  <2>. QED
    BY <1>1, <2>1, <2>2, <2>3
<1>6. FenceHoldsJob'
  <2>. SUFFICES ASSUME NEW c \in claims'
                PROVE  /\ c.fence <= fence_token[c.sha]
                       /\ c.fence = fence_token[c.sha] =>
                            /\ status'[c.sha] \in {"processing"} \cup Results
                            /\ worker_id'[c.sha] = c.worker
    BY DEF FenceHoldsJob
  <2>1. CASE c \in claims
    BY <2>1, <1>2 DEF TypeOK, FenceHoldsJob, Claim
  <2>2. CASE c = new
    BY <2>2, <1>1 DEF TypeOK, Claim
  <2>. QED
    BY <1>1, <2>1, <2>2
<1>7. HeartbeatNamesOwner'
  BY DEF TypeOK, HeartbeatNamesOwner, OwnsJob
<1>8. CommitHoldsFence'
  BY DEF TypeOK, CommitHoldsFence, Claim
<1>9. RecordMatchesJob'
  BY DEF TypeOK, RecordMatchesJob
<1>. QED
  BY <1>3, <1>4, <1>5, <1>6, <1>7, <1>8, <1>9

(* finalize_job needs a claim with the current token, and such a claim     *)
(* exists only while its job is processing or already finished.            *)
LEMMA FinalizePreserves ==
  ASSUME IInv, NEW c \in claims, NEW result \in Results,
         FinalizeJob(c, result)
  PROVE  IInv'
<1>. USE DEF IInv, FinalizeJob, FenceMatches, Results, Statuses, Open, Terminal
<1>1. /\ c.sha \in Shas
      /\ status[c.sha] \in {"processing"} \cup Results
  BY DEF TypeOK, FenceHoldsJob, Claim
<1>2. TypeOK'
  BY <1>1 DEF TypeOK
<1>3. FenceCountsAttempts'
  BY <1>1 DEF TypeOK, FenceCountsAttempts
<1>4. TokenNamesOneClaim'
  BY DEF TokenNamesOneClaim
<1>5. FenceHoldsJob'
  BY <1>1 DEF TypeOK, FenceHoldsJob, Claim
<1>6. HeartbeatNamesOwner'
  BY <1>1 DEF TypeOK, HeartbeatNamesOwner, OwnsJob
<1>7. CommitHoldsFence'
  BY <1>1 DEF TypeOK, CommitHoldsFence, Claim
<1>8. RecordMatchesJob'
  BY <1>1 DEF TypeOK, RecordMatchesJob
<1>. QED
  BY <1>2, <1>3, <1>4, <1>5, <1>6, <1>7, <1>8

(* release_job either requeues the job of the claim that holds it, with a  *)
(* token nobody has, or only deletes its heartbeat row.                    *)
LEMMA ReleasePreserves ==
  ASSUME IInv, NEW c \in claims, NEW delayed \in BOOLEAN,
         ReleaseJob(c, delayed)
  PROVE  IInv'
<1>. USE DEF IInv, ReleaseJob, Releasable, FenceMatches, TokenBumped,
             Results, Statuses, Open, Terminal
<1>1. c.sha \in Shas
  BY DEF TypeOK, Claim
<1>2. TypeOK'
  <2>1. due' \in [Shas -> BOOLEAN] /\ beat_recent' \in [Shas -> BOOLEAN]
    BY <1>1, Zenon DEF TypeOK
  <2>2. fence_token' \in [Shas -> 0..MaxAttempts]
    BY <1>1 DEF TypeOK, FenceCountsAttempts
  <2>3. /\ status' \in [Shas -> Statuses]
        /\ worker_id' \in [Shas -> Workers \cup {None}]
        /\ heartbeat' \in [Shas -> Workers \cup {None}]
    BY <1>1 DEF TypeOK
  <2>. QED
    BY <2>1, <2>2, <2>3 DEF TypeOK
<1>3. FenceCountsAttempts'
  BY <1>1 DEF TypeOK, FenceCountsAttempts
<1>4. TokenNamesOneClaim'
  BY DEF TokenNamesOneClaim
<1>5. FenceHoldsJob'
  BY <1>1 DEF TypeOK, FenceHoldsJob, Claim
<1>6. HeartbeatNamesOwner'
  BY <1>1 DEF TypeOK, HeartbeatNamesOwner, OwnsJob
<1>7. CommitHoldsFence'
  BY <1>1 DEF TypeOK, CommitHoldsFence, Claim
<1>8. RecordMatchesJob'
  BY <1>1 DEF TypeOK, RecordMatchesJob
<1>. QED
  BY <1>2, <1>3, <1>4, <1>5, <1>6, <1>7, <1>8

(* What reconcile_stale_jobs does to a stale job that it takes... *)
LEMMA TakenByReconcile ==
  ASSUME NEW R \in SUBSET Shas, ReconcileStaleJobs(R), NEW s \in R
  PROVE  /\ status[s] = "processing"
         /\ status'[s] \in {"pending", "dead"}
         /\ fence_token'[s] = fence_token[s] + 1
         /\ worker_id'[s] = None
         /\ heartbeat'[s] = None
<1>1. Swept(R)[s] \in {"pending", "dead"}
  BY DEF Swept
<1>. QED
  BY <1>1 DEF ReconcileStaleJobs, Stale, HeartbeatsSwept, TokenBumped

(* ... and to the other jobs. *)
LEMMA LeftByReconcile ==
  ASSUME NEW R \in SUBSET Shas, ReconcileStaleJobs(R), NEW s \in Shas \ R
  PROVE  /\ status'[s] # status[s] =>
              status[s] = "pending" /\ status'[s] = "dead"
         /\ fence_token'[s] = fence_token[s]
         /\ worker_id'[s] = worker_id[s]
         /\ heartbeat'[s] # None =>
              heartbeat'[s] = heartbeat[s] /\ status'[s] = "processing"
<1>1. Swept(R)[s] = status[s]
  BY DEF Swept
<1>. QED
  BY <1>1 DEF ReconcileStaleJobs, HeartbeatsSwept

(* reconcile_stale_jobs bumps the token of every job that it takes from    *)
(* its owner; of the others it changes only pending ones, to dead.         *)
LEMMA ReconcilePreserves ==
  ASSUME IInv, NEW R \in SUBSET Shas, ReconcileStaleJobs(R)
  PROVE  IInv'
<1>1. ASSUME NEW s \in Shas, s \in R
      PROVE  /\ status[s] = "processing"
             /\ status'[s] \in {"pending", "dead"}
             /\ fence_token'[s] = fence_token[s] + 1
             /\ worker_id'[s] = None
             /\ heartbeat'[s] = None
  BY <1>1, TakenByReconcile
<1>2. ASSUME NEW s \in Shas, s \notin R
      PROVE  /\ status'[s] # status[s] =>
                  status[s] = "pending" /\ status'[s] = "dead"
             /\ fence_token'[s] = fence_token[s]
             /\ worker_id'[s] = worker_id[s]
             /\ heartbeat'[s] # None =>
                  heartbeat'[s] = heartbeat[s] /\ status'[s] = "processing"
  BY <1>2, LeftByReconcile
<1>3. UNCHANGED <<attempt_count, aged, github_check_run_id, beat_recent,
                  review_records, claims, commits>>
  BY DEF ReconcileStaleJobs
<1>4. TypeOK'
  <2>1. due' \in [Shas -> BOOLEAN]
    BY Zenon DEF ReconcileStaleJobs
  <2>2. fence_token' \in [Shas -> 0..MaxAttempts]
    <3>1. ASSUME NEW s \in Shas
          PROVE  fence_token'[s] \in 0..MaxAttempts
      BY <1>1, <1>2 DEF IInv, TypeOK, FenceCountsAttempts
    <3>. QED
      BY <3>1 DEF ReconcileStaleJobs
  <2>3. status' \in [Shas -> Statuses]
    <3>1. ASSUME NEW s \in Shas
          PROVE  status'[s] \in Statuses
      BY <1>1, <1>2 DEF IInv, TypeOK, Statuses, Open, Terminal
    <3>. QED
      BY <3>1 DEF ReconcileStaleJobs
  <2>4. /\ worker_id' \in [Shas -> Workers \cup {None}]
        /\ heartbeat' \in [Shas -> Workers \cup {None}]
    BY DEF IInv, TypeOK, ReconcileStaleJobs, HeartbeatsSwept
  <2>. QED
    BY <1>3, <2>1, <2>2, <2>3, <2>4 DEF IInv, TypeOK
<1>5. FenceCountsAttempts'
  BY <1>1, <1>2, <1>3 DEF IInv, TypeOK, FenceCountsAttempts, Results
<1>6. TokenNamesOneClaim'
  BY <1>3 DEF IInv, TokenNamesOneClaim
<1>7. FenceHoldsJob'
  BY <1>1, <1>2, <1>3 DEF IInv, TypeOK, FenceHoldsJob, Claim, Results
<1>8. HeartbeatNamesOwner'
  BY <1>1, <1>2 DEF IInv, HeartbeatNamesOwner, OwnsJob
<1>9. CommitHoldsFence'
  BY <1>1, <1>2, <1>3 DEF IInv, TypeOK, CommitHoldsFence, Claim, Results
<1>10. RecordMatchesJob'
  BY <1>1, <1>2, <1>3 DEF IInv, RecordMatchesJob, Results
<1>. QED
  BY <1>4, <1>5, <1>6, <1>7, <1>8, <1>9, <1>10 DEF IInv

(* The remaining steps leave status, owner, token and attempts alone. *)
LEMMA QuietStepPreserves ==
  ASSUME IInv,
         \/ \E w \in Workers, s \in Shas : UpdateHeartbeat(w, s)
         \/ \E c \in claims : SetCheckRunId(c)
         \/ Environment
         \/ UNCHANGED vars
  PROVE  IInv'
<1>. USE DEF IInv, jobVars, heartbeatVars
<1>1. UNCHANGED <<status, worker_id, attempt_count, fence_token,
                  review_records, claims, commits>>
  BY DEF UpdateHeartbeat, SetCheckRunId, Environment, BecomeDue, BecomeAged,
         BeatExpires, DbRestart, vars
<1>2. TypeOK'
  <2>1. due' \in [Shas -> BOOLEAN] /\ aged' \in [Shas -> BOOLEAN]
    BY DEF TypeOK, UpdateHeartbeat, SetCheckRunId, Environment, BecomeDue,
           BecomeAged, BeatExpires, DbRestart, vars
  <2>2. github_check_run_id' \in [Shas -> 0..MaxAttempts]
    <3>1. \A c \in claims : c.sha \in Shas /\ c.fence + 1 \in 0..MaxAttempts
      BY DEF TypeOK, Claim, FenceHoldsJob, FenceCountsAttempts, Results
    <3>. QED
      BY <3>1 DEF TypeOK, UpdateHeartbeat, SetCheckRunId, Environment,
           BecomeDue, BecomeAged, BeatExpires, DbRestart, vars
  <2>3. heartbeat' \in [Shas -> Workers \cup {None}]
    BY DEF TypeOK, UpdateHeartbeat, SetCheckRunId, Environment, BecomeDue,
           BecomeAged, BeatExpires, DbRestart, vars
  <2>4. beat_recent' \in [Shas -> BOOLEAN]
    BY DEF TypeOK, UpdateHeartbeat, SetCheckRunId, Environment, BecomeDue,
           BecomeAged, BeatExpires, DbRestart, vars
  <2>. QED
    BY <1>1, <2>1, <2>2, <2>3, <2>4 DEF TypeOK
<1>3. \A s \in Shas : heartbeat'[s] \in {heartbeat[s], None}
  BY DEF UpdateHeartbeat, SetCheckRunId, Environment, BecomeDue,
         BecomeAged, BeatExpires, DbRestart, vars
<1>4. HeartbeatNamesOwner'
  BY <1>1, <1>3 DEF HeartbeatNamesOwner, OwnsJob
<1>. QED
  BY <1>1, <1>2, <1>4 DEF FenceCountsAttempts, TokenNamesOneClaim,
     FenceHoldsJob, CommitHoldsFence, RecordMatchesJob

(* Every step preserves the inductive invariant. *)
LEMMA NextPreserves == IInv /\ [Next]_vars => IInv'
<1>. SUFFICES ASSUME IInv, [Next]_vars
              PROVE  IInv'
  OBVIOUS
<1>1. ASSUME NEW s \in Shas, EnqueueIfNew(s)
      PROVE  IInv'
  BY <1>1, EnqueuePreserves
<1>2. ASSUME NEW w \in Workers, NEW s \in Shas, ClaimJob(w, s)
      PROVE  IInv'
  BY <1>2, ClaimPreserves
<1>3. ASSUME NEW c \in claims, NEW result \in Results, FinalizeJob(c, result)
      PROVE  IInv'
  BY <1>3, FinalizePreserves
<1>4. ASSUME NEW c \in claims, NEW delayed \in BOOLEAN, ReleaseJob(c, delayed)
      PROVE  IInv'
  BY <1>4, ReleasePreserves
<1>5. ASSUME NEW R \in SUBSET Shas, ReconcileStaleJobs(R)
      PROVE  IInv'
  BY <1>5, ReconcilePreserves
<1>6. CASE \/ \E w \in Workers, s \in Shas : UpdateHeartbeat(w, s)
           \/ \E c \in claims : SetCheckRunId(c)
           \/ Environment
           \/ UNCHANGED vars
  BY <1>6, QuietStepPreserves
<1>. QED
  BY <1>1, <1>2, <1>3, <1>4, <1>5, <1>6 DEF Next, Client

(* The inductive invariant holds in every reachable state. *)
THEOREM Invariance == Spec => []IInv
  BY InitIInv, NextPreserves, PTL DEF Spec

(* The type invariant; in particular no job is ever attempted more than    *)
(* max_attempts times and the fence token never passes that limit.         *)
THEOREM TypeCorrect == Spec => []TypeOK
<1>1. IInv => TypeOK
  BY DEF IInv
<1>. QED
  BY <1>1, Invariance, PTL

(* The token and the attempts of a job stay in step however claim_job,     *)
(* release_job and reconcile_stale_jobs follow one another.                *)
THEOREM FencesCounted == Spec => []FenceCountsAttempts
<1>1. IInv => FenceCountsAttempts
  BY DEF IInv
<1>. QED
  BY <1>1, Invariance, PTL

(* claim_job never returns a job twice with the same token. *)
THEOREM TokensUnique == Spec => []TokenNamesOneClaim
<1>1. IInv => TokenNamesOneClaim
  BY DEF IInv
<1>. QED
  BY <1>1, Invariance, PTL

(* Only the attempt that has the job's current token holds the job, so     *)
(* finalize_job and release_job never touch a job that passed to another.  *)
THEOREM FencesHold == Spec => []FenceHoldsJob
<1>1. IInv => FenceHoldsJob
  BY DEF IInv
<1>. QED
  BY <1>1, Invariance, PTL

(* finalize_job commits for a commit SHA from at most one claim, however   *)
(* many stalled workers call it late.                                      *)
THEOREM CommitsFenced == Spec => []FencedCommit
<1>1. IInv => FencedCommit
  <2>. SUFFICES ASSUME IInv, NEW c \in commits, NEW d \in commits,
                       c.sha = d.sha
                PROVE  c = d
    BY DEF FencedCommit
  <2>1. c \in claims /\ d \in claims
    BY DEF IInv, TypeOK
  <2>2. c.fence = d.fence
    BY DEF IInv, CommitHoldsFence
  <2>. QED
    BY <2>1, <2>2 DEF IInv, TokenNamesOneClaim
<1>. QED
  BY <1>1, Invariance, PTL

(* A heartbeat row always names the owner of a job in processing. *)
THEOREM HeartbeatsOwned == Spec => []HeartbeatNamesOwner
<1>1. IInv => HeartbeatNamesOwner
  BY DEF IInv
<1>. QED
  BY <1>1, Invariance, PTL

(* A settled job stays settled: its status never returns to the queue and  *)
(* a dead job never changes.                                               *)
THEOREM Settled == Spec => SettledForGood
<1>. DEFINE Step == \A s \in Shas :
       /\ status[s] \in Results => status'[s] \in Results
       /\ status[s] = "dead" => /\ status'[s] = "dead"
                                /\ fence_token'[s] = fence_token[s]
                                /\ review_records'[s] = None
<1>1. IInv /\ IInv' /\ [Next]_vars => [Step]_vars
  <2>. SUFFICES ASSUME IInv, IInv', Next, NEW s \in Shas
                PROVE  /\ status[s] \in Results => status'[s] \in Results
                       /\ status[s] = "dead" =>
                            /\ status'[s] = "dead"
                            /\ fence_token'[s] = fence_token[s]
                            /\ review_records'[s] = None
    OBVIOUS
  <2>1. status[s] = "dead" => status'[s] = "dead" /\ fence_token'[s] = fence_token[s]
    <3>1. CASE \E c \in claims, result \in Results : FinalizeJob(c, result)
      BY <3>1 DEF IInv, TypeOK, FinalizeJob, FenceMatches, FenceHoldsJob,
                  Claim, Results
    <3>2. CASE \E c \in claims, delayed \in BOOLEAN : ReleaseJob(c, delayed)
      BY <3>2 DEF IInv, TypeOK, ReleaseJob, Releasable, TokenBumped, Claim
    <3>3. CASE \E R \in SUBSET Shas : ReconcileStaleJobs(R)
      BY <3>3, TakenByReconcile, LeftByReconcile
    <3>4. CASE \/ \E t \in Shas : EnqueueIfNew(t)
               \/ \E w \in Workers, t \in Shas : ClaimJob(w, t)
      BY <3>4 DEF IInv, TypeOK, EnqueueIfNew, ClaimJob, Claimable
    <3>5. CASE \/ \E w \in Workers, t \in Shas : UpdateHeartbeat(w, t)
               \/ \E c \in claims : SetCheckRunId(c)
               \/ Environment
      BY <3>5 DEF UpdateHeartbeat, SetCheckRunId, Environment, BecomeDue,
                  BecomeAged, BeatExpires, DbRestart, jobVars
    <3>. QED
      BY <3>1, <3>2, <3>3, <3>4, <3>5 DEF Next, Client
  <2>2. status[s] \in Results => status'[s] \in Results
    <3>1. CASE \E c \in claims, result \in Results : FinalizeJob(c, result)
      BY <3>1 DEF IInv, TypeOK, FinalizeJob, Claim
    <3>2. CASE \E c \in claims, delayed \in BOOLEAN : ReleaseJob(c, delayed)
      BY <3>2 DEF IInv, TypeOK, ReleaseJob, Releasable, Claim, Results
    <3>3. CASE \E R \in SUBSET Shas : ReconcileStaleJobs(R)
      BY <3>3, TakenByReconcile, LeftByReconcile DEF Results
    <3>4. CASE \/ \E t \in Shas : EnqueueIfNew(t)
               \/ \E w \in Workers, t \in Shas : ClaimJob(w, t)
      BY <3>4 DEF IInv, TypeOK, EnqueueIfNew, ClaimJob, Claimable, Results
    <3>5. CASE \/ \E w \in Workers, t \in Shas : UpdateHeartbeat(w, t)
               \/ \E c \in claims : SetCheckRunId(c)
               \/ Environment
      BY <3>5 DEF UpdateHeartbeat, SetCheckRunId, Environment, BecomeDue,
                  BecomeAged, BeatExpires, DbRestart, jobVars
    <3>. QED
      BY <3>1, <3>2, <3>3, <3>4, <3>5 DEF Next, Client
  <2>3. status'[s] = "dead" => review_records'[s] = None
    BY DEF IInv, RecordMatchesJob, Results
  <2>. QED
    BY <2>1, <2>2, <2>3
<1>. QED
  BY <1>1, Invariance, PTL DEF Spec, SettledForGood

(* The review record and the job's row agree on whether the commit was     *)
(* reviewed and with which result.                                         *)
THEOREM RecordsMatch == Spec => []RecordMatchesJob
<1>1. IInv => RecordMatchesJob
  BY DEF IInv
<1>. QED
  BY <1>1, Invariance, PTL

-----------------------------------------------------------------------------
(* What each step of the queue does to the job of a commit, as a step of   *)
(* JobLifecycle or none.                                                   *)
LifecycleStep(s) ==
    JobOf(s)' = JobOf(s) \/ Lifecycle!Step(JobOf(s), JobOf(s)')

(* A step that leaves the status, the owner, the attempts and the commits  *)
(* of a job alone leaves its abstraction alone.                            *)
LEMMA SameJob ==
  ASSUME NEW s \in Shas, status'[s] = status[s], worker_id'[s] = worker_id[s],
         attempt_count'[s] = attempt_count[s], Authors(s)' = Authors(s)
  PROVE  LifecycleStep(s)
BY DEF LifecycleStep, JobOf, LifecycleState

(* An insert maps to a step of the lifecycle. *)
LEMMA EnqueueStep ==
  ASSUME IInv, NEW t \in Shas, EnqueueIfNew(t), NEW s \in Shas
  PROVE  LifecycleStep(s)
<1>1. Authors(s)' = Authors(s)
  BY DEF EnqueueIfNew, Authors
<1>2. CASE status'[s] = status[s]
  BY <1>1, <1>2, SameJob DEF EnqueueIfNew
<1>3. CASE status'[s] # status[s]
  <2>1. /\ status[s] = "absent" /\ status'[s] = "pending"
        /\ UNCHANGED <<worker_id, attempt_count>>
    BY <1>3 DEF EnqueueIfNew, IInv, TypeOK
  <2>2. Lifecycle!Submit(JobOf(s), JobOf(s)')
    BY <1>1, <2>1 DEF Lifecycle!Submit, JobOf, LifecycleState
  <2>. QED
    BY <2>2 DEF LifecycleStep, Lifecycle!Step
<1>. QED
  BY <1>2, <1>3

(* A claim maps to a step of the lifecycle. *)
LEMMA ClaimStep ==
  ASSUME IInv, NEW w \in Workers, NEW t \in Shas, ClaimJob(w, t), NEW s \in Shas
  PROVE  LifecycleStep(s)
<1>1. Authors(s)' = Authors(s)
  BY DEF ClaimJob, Authors
<1>2. CASE s # t
  BY <1>1, <1>2, SameJob DEF ClaimJob, IInv, TypeOK
<1>3. CASE s = t
  <2>1. /\ status[s] = "pending" /\ status'[s] = "processing"
        /\ attempt_count[s] < MaxAttempts
        /\ attempt_count'[s] = attempt_count[s] + 1
        /\ worker_id'[s] = w
    BY <1>3 DEF ClaimJob, Claimable, IInv, TypeOK
  <2>2. JobOf(s)' = [state |-> "held", owner |-> w,
                     attempts |-> JobOf(s).attempts + 1,
                     authors |-> JobOf(s).authors]
    BY <1>1, <2>1 DEF JobOf, LifecycleState
  <2>3. JobOf(s).state = "waiting" /\ JobOf(s).attempts < MaxAttempts
    BY <2>1 DEF JobOf, LifecycleState
  <2>4. Lifecycle!Take(JobOf(s), JobOf(s)')
    BY <2>2, <2>3, Zenon DEF Lifecycle!Take
  <2>. QED
    BY <2>4 DEF LifecycleStep, Lifecycle!Step
<1>. QED
  BY <1>2, <1>3

(* Here the fence matters: the claim that may finalize the job is its      *)
(* holder's, its token names the current attempt, and any earlier commit   *)
(* is its own.                                                             *)
LEMMA FinalizeStep ==
  ASSUME IInv, NEW c \in claims, NEW result \in Results,
         FinalizeJob(c, result), NEW s \in Shas
  PROVE  LifecycleStep(s)
<1>1. c \in Claim /\ commits \subseteq claims /\ commits' = commits \cup {c}
  BY DEF IInv, TypeOK, FinalizeJob
<1>2. CASE s # c.sha
  <2>1. Authors(s)' = Authors(s)
    BY <1>1, <1>2 DEF Authors
  <2>. QED
    BY <1>2, <2>1, SameJob DEF FinalizeJob, IInv, TypeOK
<1>3. CASE s = c.sha
  <2>1. /\ status[s] \in {"processing"} \cup Results
        /\ status'[s] = result
        /\ worker_id[s] = c.worker
        /\ attempt_count[s] = c.fence + 1
        /\ UNCHANGED <<worker_id, attempt_count>>
    BY <1>1, <1>3 DEF FinalizeJob, FenceMatches, IInv, TypeOK, FenceHoldsJob,
       FenceCountsAttempts, Claim
  <2>2. \A d \in commits' : d.sha = s => d = c
    BY <1>1, <1>3 DEF FinalizeJob, FenceMatches, IInv, CommitHoldsFence,
       TokenNamesOneClaim
  <2>3. Authors(s)' = {[worker |-> c.worker, attempt |-> c.fence + 1]}
    BY <1>1, <1>3, <2>2 DEF Authors
  <2>4. JobOf(s)' =
          [state |-> result, owner |-> JobOf(s).owner,
           attempts |-> JobOf(s).attempts,
           authors |-> {[worker |-> JobOf(s).owner,
                         attempt |-> JobOf(s).attempts]}]
    BY <2>1, <2>3 DEF JobOf, LifecycleState, Results
  <2>5. JobOf(s).state \in {"held"} \cup Results
    BY <2>1 DEF JobOf, LifecycleState, Results
  <2>6. Lifecycle!Finish(JobOf(s), JobOf(s)')
    BY <2>4, <2>5, Zenon DEF Lifecycle!Finish, Lifecycle!Results, Results
  <2>. QED
    BY <2>6 DEF LifecycleStep, Lifecycle!Step
<1>. QED
  BY <1>2, <1>3

(* A release maps to a step of the lifecycle. *)
LEMMA ReleaseStep ==
  ASSUME IInv, NEW c \in claims, NEW delayed \in BOOLEAN,
         ReleaseJob(c, delayed), NEW s \in Shas
  PROVE  LifecycleStep(s)
<1>1. Authors(s)' = Authors(s)
  BY DEF ReleaseJob, Authors
<1>2. c.sha \in Shas
  BY DEF IInv, TypeOK, Claim
<1>3. CASE ~(Releasable(c) /\ s = c.sha)
  BY <1>1, <1>2, <1>3, SameJob DEF ReleaseJob, IInv, TypeOK
<1>4. CASE Releasable(c) /\ s = c.sha
  <2>1. /\ status[s] = "processing" /\ status'[s] = "pending"
        /\ worker_id'[s] = None /\ UNCHANGED attempt_count
    BY <1>2, <1>4 DEF ReleaseJob, Releasable, IInv, TypeOK
  <2>2. JobOf(s).state = "held"
    BY <2>1 DEF JobOf, LifecycleState
  <2>3. PICK next \in {"waiting", "dead"} :
          JobOf(s)' = [state |-> next, owner |-> None,
                       attempts |-> JobOf(s).attempts,
                       authors |-> JobOf(s).authors]
    BY <1>1, <2>1 DEF JobOf, LifecycleState
  <2>4. Lifecycle!GiveBack(JobOf(s), JobOf(s)')
    BY <2>2, <2>3, Zenon DEF Lifecycle!GiveBack
  <2>. QED
    BY <2>4 DEF LifecycleStep, Lifecycle!Step
<1>. QED
  BY <1>3, <1>4

(* A reconciliation maps to a step of the lifecycle. *)
LEMMA ReconcileStep ==
  ASSUME IInv, NEW R \in SUBSET Shas, ReconcileStaleJobs(R), NEW s \in Shas
  PROVE  LifecycleStep(s)
<1>1. Authors(s)' = Authors(s) /\ UNCHANGED attempt_count
  BY DEF ReconcileStaleJobs, Authors
<1>2. CASE s \in R
  <2>1. /\ status[s] = "processing" /\ status'[s] \in {"pending", "dead"}
        /\ worker_id'[s] = None
    BY <1>2, TakenByReconcile
  <2>2. JobOf(s).state = "held"
    BY <2>1 DEF JobOf, LifecycleState
  <2>3. PICK next \in {"waiting", "dead"} :
          JobOf(s)' = [state |-> next, owner |-> None,
                       attempts |-> JobOf(s).attempts,
                       authors |-> JobOf(s).authors]
    BY <1>1, <2>1 DEF JobOf, LifecycleState
  <2>4. Lifecycle!GiveBack(JobOf(s), JobOf(s)')
    BY <2>2, <2>3, Zenon DEF Lifecycle!GiveBack
  <2>. QED
    BY <2>4 DEF LifecycleStep, Lifecycle!Step
<1>3. CASE s \notin R /\ status'[s] = status[s]
  BY <1>1, <1>3, LeftByReconcile, SameJob
<1>4. CASE s \notin R /\ status'[s] # status[s]
  <2>1. /\ status[s] = "pending" /\ status'[s] = "dead"
        /\ worker_id'[s] = worker_id[s]
    BY <1>4, LeftByReconcile
  <2>2. Lifecycle!Bury(JobOf(s), JobOf(s)')
    BY <1>1, <2>1 DEF Lifecycle!Bury, JobOf, LifecycleState
  <2>. QED
    BY <2>2 DEF LifecycleStep, Lifecycle!Step
<1>. QED
  BY <1>2, <1>3, <1>4

(* The other steps leave the lifecycle as it is. *)
LEMMA QuietStep ==
  ASSUME \/ \E w \in Workers, t \in Shas : UpdateHeartbeat(w, t)
         \/ \E c \in claims : SetCheckRunId(c)
         \/ Environment
         \/ UNCHANGED vars,
         NEW s \in Shas
  PROVE  LifecycleStep(s)
<1>1. UNCHANGED <<status, worker_id, attempt_count, commits>>
  BY DEF UpdateHeartbeat, SetCheckRunId, Environment, BecomeDue, BecomeAged,
         BeatExpires, DbRestart, vars, jobVars
<1>2. Authors(s)' = Authors(s)
  BY <1>1 DEF Authors
<1>. QED
  BY <1>1, <1>2, SameJob

(* The queue implements the abstract lifecycle: a job has one holder at a  *)
(* time and only the holder's attempt writes its result, for any number of *)
(* workers, commits and attempts.                                          *)
THEOREM ImplementsLifecycle == Spec => LifecycleSpec
<1>1. Init => Lifecycle!Init
  BY DEF Init, Lifecycle!Init, Lifecycle!Unsubmitted, JobOf, LifecycleState,
     Authors
<1>2. IInv /\ [Next]_vars => [Lifecycle!Next]_[s \in Shas |-> JobOf(s)]
  <2>. SUFFICES ASSUME IInv, [Next]_vars
                PROVE  Lifecycle!Next
    OBVIOUS
  <2>1. ASSUME NEW s \in Shas
        PROVE  LifecycleStep(s)
    BY EnqueueStep, ClaimStep, FinalizeStep, ReleaseStep, ReconcileStep,
       QuietStep DEF Next, Client
  <2>. QED
    BY <2>1 DEF LifecycleStep, Lifecycle!Next
<1>. QED
  BY <1>1, <1>2, Invariance, PTL DEF Spec, LifecycleSpec, Lifecycle!Spec
=============================================================================
