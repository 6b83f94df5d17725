---------------------------- MODULE IngestProofs ----------------------------
(***************************************************************************)
(* Proofs about the webhook endpoint around the reviews, and about the     *)
(* reviews of workers that may die at any point but never outlive their    *)
(* heartbeats.                                                             *)
(***************************************************************************)
EXTENDS Ingest, ReviewJobProofs

(* An override that read the job's row after the review was over holds the *)
(* run that the row still names, and the review is still over; the run of  *)
(* an override that was carried out then is still successful.              *)
OverrideInv ==
    \A s \in Shas :
      /\ override[s] # None /\ override[s].settled =>
           ReviewOver(s) /\ override[s].run = github_check_run_id[s]
      /\ s \in overridden =>
           /\ ReviewOver(s)
           /\ github_check_run_id[s] \in 1..MaxAttempts
           /\ check_runs[s][github_check_run_id[s]] = "success"

(* The inductive invariant, for every setting of the failure switches. *)
IngestInv ==
    /\ ReviewInv
    /\ IngestTypeOK
    /\ AnswersTrue
    /\ OverrideInv

USE MaxAttemptsAssumption, NoneAssumption, SwitchAssumption

-----------------------------------------------------------------------------
(* A step of the endpoint is a step of the reviews, or the PATCH of an     *)
(* override.                                                               *)
LEMMA IngestStep ==
  ASSUME [IngestNext]_allVars
  PROVE  \/ [ReviewNext]_reviewVars
         \/ \E s \in Shas : PatchCheckRun(s)
BY DEF IngestNext, allVars, Deliver, EnqueueInTime, EnqueueCutOff, ReadCheckRun,
   ReviewNext

(* What an override patches. *)
LEMMA PatchEffect ==
  ASSUME ReviewInv, IngestTypeOK, NEW s \in Shas, PatchCheckRun(s)
  PROVE  /\ UNCHANGED <<vars, pc, knows_run, notices, summaries, commented, hook>>
         /\ override' = [override EXCEPT ![s] = None]
         /\ override[s].run \in 1..MaxAttempts /\ override[s].settled \in BOOLEAN
         /\ \/ UNCHANGED <<check_runs, overridden>>
            \/ /\ SetRun(s, override[s].run, "success")
               /\ check_runs'[s][override[s].run] = "success"
               /\ overridden' = IF override[s].settled THEN overridden \cup {s}
                                                      ELSE overridden
         /\ check_runs' \in [Shas -> [1..MaxAttempts ->
                               {"none", "in_progress"} \cup Conclusions]]
         /\ \A t \in Shas, m \in 1..MaxAttempts :
              check_runs'[t][m] # check_runs[t][m] =>
                t = s /\ m = override[s].run /\ check_runs'[t][m] = "success"
<1>1. /\ override[s].run \in 1..MaxAttempts /\ override[s].settled \in BOOLEAN
      /\ "success" \in {"in_progress"} \cup Conclusions
      /\ ReviewTypeOK
  BY DEF PatchCheckRun, IngestTypeOK, Conclusions
<1>2. /\ UNCHANGED <<vars, pc, knows_run, notices, summaries, commented, hook>>
      /\ override' = [override EXCEPT ![s] = None]
  BY DEF PatchCheckRun, queueVars
<1>3. CASE UNCHANGED <<check_runs, overridden>>
  BY <1>1, <1>2, <1>3 DEF ReviewTypeOK
<1>4. CASE /\ SetRun(s, override[s].run, "success")
           /\ overridden' = IF override[s].settled THEN overridden \cup {s}
                                                  ELSE overridden
  <2>1. /\ check_runs' \in [Shas -> [1..MaxAttempts ->
                               {"none", "in_progress"} \cup Conclusions]]
        /\ check_runs'[s][override[s].run] = "success"
        /\ \A t \in Shas, m \in 1..MaxAttempts :
             check_runs'[t][m] # check_runs[t][m] => t = s /\ m = override[s].run
    BY <1>1, <1>4 DEF SetRun, ReviewTypeOK
  <2>. QED
    BY <1>1, <1>2, <1>4, <2>1
<1>. QED
  BY <1>3, <1>4 DEF PatchCheckRun

(* The webhook's update of a check run preserves the reviews' invariant. *)
LEMMA PatchPreserves ==
  ASSUME ReviewInv, IngestTypeOK, NEW s \in Shas, PatchCheckRun(s)
  PROVE  ReviewInv'
<1>. USE DEF ReviewInv
<1>1. /\ UNCHANGED <<vars, pc, knows_run, notices, summaries, commented>>
      /\ check_runs' \in [Shas -> [1..MaxAttempts ->
                               {"none", "in_progress"} \cup Conclusions]]
      /\ \A t \in Shas, m \in 1..MaxAttempts :
           check_runs'[t][m] # check_runs[t][m] => check_runs'[t][m] = "success"
  BY PatchEffect
<1>2. IInv' /\ ClaimsCounted'
  BY <1>1, NextPreserves, ClaimsCountedKept
<1>3. UNCHANGED <<claims, commits, status>>
  BY <1>1 DEF vars, jobVars
<1>4. ReviewTypeOK'
  BY <1>1, <1>2, <1>3 DEF ReviewTypeOK, IInv
<1>5. SummariesCounted'
  BY <1>1, <1>3 DEF SummariesCounted, Posters, ClaimsOf
<1>6. \A t \in Shas, m \in 1..MaxAttempts :
        check_runs[t][m] \in Conclusions => check_runs'[t][m] \in Conclusions
  BY <1>1 DEF Conclusions
<1>7. TaskProgress'
  BY <1>1, <1>3, <1>6, ClaimTyped DEF TaskProgress, Attempt
<1>8. SuccessIsVisible'
  <2>1. \A c \in commits : c.sha \in Shas /\ Attempt(c) \in 1..MaxAttempts
    BY ClaimTyped DEF IInv, TypeOK
  <2>. QED
    BY <1>1, <1>3, <1>6, <2>1 DEF SuccessIsVisible, Attempt
<1>. QED
  BY <1>2, <1>4, <1>5, <1>7, <1>8

-----------------------------------------------------------------------------
(* Rows of jobs and review_records are never removed. *)
LEMMA RowsStay ==
  ASSUME IInv, [Next]_vars, NEW s \in Shas
  PROVE  /\ status[s] # "absent" => status'[s] # "absent"
         /\ review_records[s] # None => review_records'[s] # None
<1>. USE DEF IInv
<1>1. CASE \E t \in Shas : EnqueueIfNew(t)
  BY <1>1 DEF EnqueueIfNew, TypeOK
<1>2. CASE \E w \in Workers, t \in Shas : ClaimJob(w, t)
  BY <1>2 DEF ClaimJob, TypeOK
<1>3. ASSUME NEW c \in claims, NEW result \in Results, FinalizeJob(c, result)
      PROVE  /\ status[s] # "absent" => status'[s] # "absent"
             /\ review_records[s] # None => review_records'[s] # None
  BY <1>3 DEF FinalizeJob, TypeOK, Results
<1>4. CASE \E c \in claims, delayed \in BOOLEAN : ReleaseJob(c, delayed)
  BY <1>4 DEF ReleaseJob, TypeOK
<1>5. CASE \E R \in SUBSET Shas : ReconcileStaleJobs(R)
  <2>1. UNCHANGED review_records
    BY <1>5 DEF ReconcileStaleJobs
  <2>. QED
    BY <1>5, <2>1, TakenByReconcile, LeftByReconcile
<1>6. CASE \/ \E w \in Workers, t \in Shas : UpdateHeartbeat(w, t)
           \/ \E c \in claims : SetCheckRunId(c)
           \/ Environment
           \/ UNCHANGED vars
  BY <1>6 DEF UpdateHeartbeat, SetCheckRunId, Environment, BecomeDue,
              BecomeAged, BeatExpires, DbRestart, vars, jobVars
<1>. QED
  BY <1>1, <1>2, <1>3, <1>4, <1>5, <1>6 DEF Next, Client

(* A review that is over stays over, and nobody but an override touches    *)
(* the check runs of its commit or the run that its row names.             *)
LEMMA OverStays ==
  ASSUME ReviewInv, [ReviewNext]_reviewVars, NEW s \in Shas, ReviewOver(s)
  PROVE  /\ ReviewOver(s)'
         /\ github_check_run_id'[s] = github_check_run_id[s]
         /\ \A m \in 1..MaxAttempts : check_runs'[s][m] = check_runs[s][m]
<1>. USE DEF ReviewInv
<1>. DEFINE Goal == /\ ReviewOver(s)'
                    /\ github_check_run_id'[s] = github_check_run_id[s]
                    /\ \A m \in 1..MaxAttempts : check_runs'[s][m] = check_runs[s][m]
<1>0. /\ status[s] \in Terminal
      /\ \A c \in claims : c.sha = s => pc[c] = "end"
      /\ \A n \in notices : n.sha # s
      /\ DOMAIN pc = claims
  BY DEF ReviewOver, Live, ReviewTypeOK
<1>1. ASSUME NEW t \in Shas, NEW w \in Workers, Start(w, t)
      PROVE  Goal
  <2>. DEFINE c == [sha |-> t, worker |-> w, fence |-> fence_token[t]]
  <2>1. /\ status[t] = "pending" /\ status' = [status EXCEPT ![t] = "processing"]
        /\ claims' = claims \cup {c} /\ c.sha = t
        /\ UNCHANGED <<github_check_run_id, notices, check_runs>>
        /\ pc' = [d \in DOMAIN pc \cup {c} |-> IF d = c THEN "token" ELSE pc[d]]
    BY <1>1 DEF Start, ClaimJob, Claimable, githubVars
  <2>. HIDE DEF c
  <2>2. s # t
    BY <1>0, <2>1 DEF Terminal, Results
  <2>. QED
    BY <1>0, <2>1, <2>2 DEF ReviewOver, Live, IInv, TypeOK
<1>2. ASSUME NEW c \in claims, Task(c) \/ Die(c)
      PROVE  Goal
  <2>1. c.sha # s /\ c.sha \in Shas /\ Attempt(c) \in 1..MaxAttempts
    BY <1>0, <1>2, TaskMoves, ClaimTyped
  <2>2. /\ status'[s] = status[s]
        /\ github_check_run_id'[s] = github_check_run_id[s]
        /\ UNCHANGED claims
    BY <1>2, <2>1, TaskCalls DEF SetCheckRunId, FinalizeJob, ReleaseJob, vars,
       jobVars, IInv, TypeOK
  <2>3. \A d \in claims : d.sha = s => pc'[d] = pc[d]
    BY <1>0, <1>2, <2>1, TaskMoves DEF Goto
  <2>4. UNCHANGED notices
    BY <1>2, TaskPatches
  <2>5. \A m \in 1..MaxAttempts : check_runs'[s][m] = check_runs[s][m]
    <3>1. \/ UNCHANGED check_runs
          \/ \E x : SetRun(c.sha, Attempt(c), x)
      BY <1>2, TaskPatches
    <3>. QED
      BY <2>1, <3>1 DEF SetRun, ReviewTypeOK
  <2>. QED
    BY <1>0, <2>2, <2>3, <2>4, <2>5 DEF ReviewOver, Live
<1>3. ASSUME NEW R \in SUBSET Shas, Reconcile(R)
      PROVE  Goal
  <2>1. /\ ReconcileStaleJobs(R)
        /\ UNCHANGED <<pc, claims, github_check_run_id, check_runs>>
    BY <1>3 DEF Reconcile, ReconcileStaleJobs, githubVars
  <2>2. s \notin R /\ status'[s] = status[s]
    BY <1>0, <2>1, TakenByReconcile, LeftByReconcile DEF Terminal, Results
  <2>3. \A n \in notices' : n.sha # s
    BY <1>0, <1>3, <2>2 DEF Reconcile
  <2>. QED
    BY <1>0, <2>1, <2>2, <2>3 DEF ReviewOver, Live
<1>4. ASSUME NEW n \in notices, Notify(n)
      PROVE  Goal
  <2>1. n.sha # s /\ n.sha \in Shas /\ n.run \in 1..MaxAttempts
    BY <1>0 DEF ReviewTypeOK, Notice
  <2>2. \A m \in 1..MaxAttempts : check_runs'[s][m] = check_runs[s][m]
    BY <1>4, <2>1 DEF Notify, SetRun, ReviewTypeOK
  <2>. QED
    BY <1>0, <1>4, <2>2 DEF Notify, ReviewOver, Live, queueVars, vars, jobVars
<1>5. CASE (\E c \in claims : Beat(c)) \/ ReviewEnvironment \/ UNCHANGED reviewVars
  BY <1>0, <1>5 DEF Beat, ReviewEnvironment, UpdateHeartbeat, Environment,
     BecomeDue, BecomeAged, BeatExpires, DbRestart, ReviewOver, Live,
     reviewVars, queueVars, vars, jobVars, githubVars
<1>6. ASSUME NEW t \in Shas, Enqueue(t)
      PROVE  Goal
  <2>1. status'[s] = status[s]
    BY <1>0, <1>6 DEF Enqueue, EnqueueIfNew, IInv, TypeOK, Terminal, Results
  <2>. QED
    BY <1>0, <1>6, <2>1 DEF Enqueue, EnqueueIfNew, ReviewOver, Live, githubVars
<1>. QED
  BY <1>1, <1>2, <1>3, <1>4, <1>5, <1>6 DEF ReviewNext, Work

-----------------------------------------------------------------------------
(* The invariant. *)

(* The inductive invariant holds at the start. *)
LEMMA InitIngestInv == IngestInit => IngestInv
<1>. SUFFICES ASSUME IngestInit
              PROVE  IngestInv
  OBVIOUS
<1>1. ReviewInv
  BY InitReviewInv DEF IngestInit
<1>2. IngestTypeOK
  BY <1>1 DEF IngestInit, IngestTypeOK, ReviewInv, HookStates
<1>3. AnswersTrue /\ OverrideInv
  BY DEF IngestInit, AnswersTrue, OverrideInv
<1>. QED
  BY <1>1, <1>2, <1>3 DEF IngestInv

(* Every step keeps what the reviews and the queue keep. *)
LEMMA IngestKeeps ==
  ASSUME IngestInv, [IngestNext]_allVars
  PROVE  ReviewInv' /\ [Next]_vars
<1>1. CASE [ReviewNext]_reviewVars
  BY <1>1, ReviewNextPreserves, ReviewQueueStep DEF IngestInv, ReviewInv
<1>2. ASSUME NEW s \in Shas, PatchCheckRun(s)
      PROVE  ReviewInv' /\ [Next]_vars
  BY <1>2, PatchPreserves, PatchEffect DEF IngestInv
<1>. QED
  BY <1>1, <1>2, IngestStep

(* Every step keeps the types. *)
LEMMA IngestTypePreserves ==
  ASSUME IngestInv, [IngestNext]_allVars
  PROVE  IngestTypeOK'
<1>. USE DEF IngestInv, IngestTypeOK
<1>1. ReviewTypeOK'
  BY IngestKeeps DEF ReviewInv
<1>2. hook' \in [Shas -> HookStates]
  BY DEF IngestNext, Deliver, EnqueueInTime, EnqueueCutOff, ReadCheckRun,
     PatchCheckRun, Answer, HookStates, allVars, ingestVars
<1>3. /\ override' \in [Shas -> {None} \cup [run : 1..MaxAttempts, settled : BOOLEAN]]
      /\ overridden' \subseteq Shas
  <2>1. ASSUME NEW s \in Shas, ReadCheckRun(s)
        PROVE  <1>3
    <3>1. github_check_run_id[s] \in 1..MaxAttempts
      BY <2>1 DEF ReadCheckRun, ReviewInv, IInv, TypeOK
    <3>2. ReviewOver(s) \in BOOLEAN
      BY DEF ReviewOver, Live
    <3>3. [run |-> github_check_run_id[s], settled |-> ReviewOver(s)] \in
            [run : 1..MaxAttempts, settled : BOOLEAN]
      BY <3>1, <3>2, Zenon
    <3>. QED
      BY <2>1, <3>3 DEF ReadCheckRun
  <2>2. ASSUME NEW s \in Shas, PatchCheckRun(s)
        PROVE  <1>3
    BY <2>2 DEF PatchCheckRun
  <2>3. CASE UNCHANGED <<override, overridden>>
    BY <2>3
  <2>. QED
    BY <2>1, <2>2, <2>3 DEF IngestNext, Deliver, EnqueueInTime, EnqueueCutOff,
       allVars, ingestVars
<1>. QED
  BY <1>1, <1>2, <1>3

(* Every step keeps what the answered requests were told true. *)
LEMMA AnswersPreserved ==
  ASSUME IngestInv, [IngestNext]_allVars
  PROVE  AnswersTrue'
<1>. USE DEF IngestInv
<1>1. ASSUME NEW s \in Shas
      PROVE  /\ status[s] # "absent" => status'[s] # "absent"
             /\ review_records[s] # None => review_records'[s] # None
  BY RowsStay, IngestKeeps DEF ReviewInv
<1>2. ASSUME NEW s \in Shas, EnqueueInTime(s)
      PROVE  AnswersTrue'
  <2>1. review_records[s] = None => status'[s] # "absent"
    BY <1>2 DEF EnqueueInTime, Enqueue, EnqueueIfNew, ReviewInv, IInv, TypeOK
  <2>2. hook' = [hook EXCEPT ![s] = IF review_records[s] = None
                                      THEN "accepted" ELSE "exists"]
    BY <1>2 DEF EnqueueInTime, Answer
  <2>3. ASSUME NEW t \in Shas
        PROVE  /\ hook'[t] = "accepted" => status'[t] # "absent"
               /\ hook'[t] = "exists" => review_records'[t] # None
    BY <1>1, <2>1, <2>2 DEF AnswersTrue, IngestTypeOK
  <2>. QED
    BY <2>3 DEF AnswersTrue
<1>3. ASSUME NEW s \in Shas, Deliver(s) \/ EnqueueCutOff(s)
      PROVE  AnswersTrue'
  <2>1. \E a \in {"ignored", "enqueue", "failed"} : hook' = [hook EXCEPT ![s] = a]
    BY <1>3 DEF Deliver, EnqueueCutOff, Answer
  <2>. QED
    BY <1>1, <2>1 DEF AnswersTrue, IngestTypeOK
<1>4. CASE UNCHANGED hook
  BY <1>1, <1>4 DEF AnswersTrue
<1>. QED
  BY <1>2, <1>3, <1>4 DEF IngestNext, ReadCheckRun, PatchCheckRun, allVars,
     ingestVars

(* Every step keeps an override of a reviewed commit in force. *)
LEMMA OverridePreserved ==
  ASSUME IngestInv, [IngestNext]_allVars
  PROVE  OverrideInv'
<1>. USE DEF IngestInv
<1>1. ASSUME [ReviewNext]_reviewVars, NEW s \in Shas, ReviewOver(s)
      PROVE  /\ ReviewOver(s)'
             /\ github_check_run_id'[s] = github_check_run_id[s]
             /\ \A m \in 1..MaxAttempts : check_runs'[s][m] = check_runs[s][m]
  BY <1>1, OverStays
<1>2. CASE [ReviewNext]_reviewVars /\ UNCHANGED <<override, overridden>>
  BY <1>1, <1>2 DEF OverrideInv
<1>3. ASSUME NEW s \in Shas, ReadCheckRun(s)
      PROVE  OverrideInv'
  <2>1. /\ UNCHANGED <<status, github_check_run_id, claims, pc, notices,
                       check_runs, overridden>>
        /\ override' = [override EXCEPT ![s] =
                          [run |-> github_check_run_id[s], settled |-> ReviewOver(s)]]
    BY <1>3 DEF ReadCheckRun, reviewVars, queueVars, vars, jobVars, githubVars
  <2>2. \A t \in Shas : ReviewOver(t)' <=> ReviewOver(t)
    BY <2>1 DEF ReviewOver, Live
  <2>3. /\ override'[s].settled = ReviewOver(s)
        /\ override'[s].run = github_check_run_id[s]
        /\ \A t \in Shas \ {s} : override'[t] = override[t]
    BY <2>1 DEF IngestTypeOK
  <2>4. ASSUME NEW t \in Shas
        PROVE  /\ override'[t] # None /\ override'[t].settled =>
                    ReviewOver(t)' /\ override'[t].run = github_check_run_id'[t]
               /\ t \in overridden' =>
                    /\ ReviewOver(t)'
                    /\ github_check_run_id'[t] \in 1..MaxAttempts
                    /\ check_runs'[t][github_check_run_id'[t]] = "success"
    BY <2>1, <2>2, <2>3 DEF OverrideInv
  <2>. QED
    BY <2>4 DEF OverrideInv
<1>4. ASSUME NEW s \in Shas, PatchCheckRun(s)
      PROVE  OverrideInv'
  <2>1. UNCHANGED <<status, github_check_run_id, claims, pc, notices>>
    BY <1>4, PatchEffect DEF vars, jobVars
  <2>2. \A t \in Shas : ReviewOver(t)' <=> ReviewOver(t)
    BY <2>1 DEF ReviewOver, Live
  <2>3. /\ override'[s] = None
        /\ \A t \in Shas \ {s} : override'[t] = override[t]
    BY <1>4, PatchEffect DEF IngestTypeOK
  <2>4. \A t \in Shas, m \in 1..MaxAttempts :
          check_runs[t][m] = "success" => check_runs'[t][m] = "success"
    BY <1>4, PatchEffect
  <2>5. ASSUME NEW t \in Shas, t \in overridden', t \notin overridden
        PROVE  /\ t = s /\ ReviewOver(s)
               /\ override[s].run = github_check_run_id[s]
               /\ override[s].run \in 1..MaxAttempts
               /\ check_runs'[s][override[s].run] = "success"
    <3>1. /\ t = s /\ override[s].settled
          /\ override[s].run \in 1..MaxAttempts
          /\ check_runs'[s][override[s].run] = "success"
      BY <1>4, <2>5, PatchEffect
    <3>. QED
      BY <1>4, <3>1 DEF OverrideInv, PatchCheckRun
  <2>6. ASSUME NEW t \in Shas
        PROVE  /\ override'[t] # None /\ override'[t].settled =>
                    ReviewOver(t)' /\ override'[t].run = github_check_run_id'[t]
               /\ t \in overridden' =>
                    /\ ReviewOver(t)'
                    /\ github_check_run_id'[t] \in 1..MaxAttempts
                    /\ check_runs'[t][github_check_run_id'[t]] = "success"
    BY <2>1, <2>2, <2>3, <2>4, <2>5 DEF OverrideInv
  <2>. QED
    BY <2>6 DEF OverrideInv
<1>. QED
  BY <1>2, <1>3, <1>4, IngestStep DEF IngestNext, Deliver, EnqueueInTime,
     EnqueueCutOff, allVars, ingestVars

(* Every step preserves the inductive invariant. *)
LEMMA IngestNextPreserves == IngestInv /\ [IngestNext]_allVars => IngestInv'
<1>. SUFFICES ASSUME IngestInv, [IngestNext]_allVars
              PROVE  IngestInv'
  OBVIOUS
<1>. QED
  BY IngestKeeps, IngestTypePreserves, AnswersPreserved, OverridePreserved
     DEF IngestInv

(* The inductive invariant holds in every reachable state. *)
THEOREM IngestInvariance == IngestSpec => []IngestInv
  BY InitIngestInv, IngestNextPreserves, PTL DEF IngestSpec

(* The type invariant of the endpoint, the reviews and the queue. *)
THEOREM IngestTypeCorrect == IngestSpec => []IngestTypeOK
<1>1. IngestInv => IngestTypeOK
  BY DEF IngestInv
<1>. QED
  BY <1>1, IngestInvariance, PTL

(* The answers to opened and synchronize events are true and stay true: a  *)
(* commit answered "accepted" has a job, one answered "already exists" has *)
(* a review, also when events with other actions come between.             *)
THEOREM AnswersHold == IngestSpec => []AnswersTrue
<1>1. IngestInv => AnswersTrue
  BY DEF IngestInv
<1>. QED
  BY <1>1, IngestInvariance, PTL

(* An override given after the review was over stands for good, whatever   *)
(* calls fail and however late zombies of other commits wake up.           *)
THEOREM OverridesStand == IngestSpec => []OverrideStands
<1>1. IngestInv => OverrideStands
  BY DEF IngestInv, IngestTypeOK, OverrideInv, OverrideStands
<1>. QED
  BY <1>1, IngestInvariance, PTL

(* The endpoint and the overrides do not upset what the reviews promise.   *)
THEOREM IngestKeepsReviews == IngestSpec => QueueSpec /\ []SuccessIsVisible
<1>1. IngestInit => Init
  BY DEF IngestInit, ReviewInit
<1>2. IngestInv /\ [IngestNext]_allVars => [Next]_vars
  BY IngestKeeps
<1>3. IngestInv => SuccessIsVisible
  BY DEF IngestInv, ReviewInv
<1>. QED
  BY <1>1, <1>2, <1>3, IngestInvariance, PTL DEF IngestSpec, QueueSpec, Spec

-----------------------------------------------------------------------------
(***************************************************************************)
(* Workers that die but do not outlive their heartbeats.  The theorems     *)
(* below hold when no task is a zombie and the database does not lose the  *)
(* heartbeat table; each states which further failures it excludes.        *)
(***************************************************************************)
CrashOnly == ~ZombiesPossible /\ ~DbMayRestart

(* A task that has not ended has the job's token, and while the job is     *)
(* processing reconcile_stale_jobs does not find it stale.                 *)
LiveHolds ==
    \A c \in claims :
      Live(c) =>
        /\ FenceMatches(c)
        /\ status[c.sha] = "processing" =>
             beat_recent[c.sha] /\ heartbeat[c.sha] # None

(* So a commit has one live task at a time, ... *)
LEMMA OneLive ==
  ASSUME IInv, LiveHolds, NEW c \in claims, NEW d \in claims,
         Live(c), Live(d), c.sha = d.sha
  PROVE  c = d
BY DEF IInv, TokenNamesOneClaim, LiveHolds, FenceMatches

(* ... and none unless its job is processing or finished. *)
LEMMA LiveIsHeld ==
  ASSUME IInv, LiveHolds, NEW c \in claims, Live(c)
  PROVE  status[c.sha] \in {"processing"} \cup Results
BY DEF IInv, FenceHoldsJob, LiveHolds, FenceMatches

(* A task that goes on has not given its job back. *)
LEMMA LiveCalls ==
  ASSUME NEW c, DOMAIN pc = claims, c \in claims, Task(c) \/ Die(c), pc'[c] # "end"
  PROVE  \/ UNCHANGED vars
         \/ SetCheckRunId(c)
         \/ \E result \in Results : FinalizeJob(c, result)
<1>1. CASE Task(c)
  BY <1>1 DEF queueVars, Task, GetToken, CreateCheckRun, StoreCheckRun,
     FetchAndAnalyze, LookupReviews, PostSummary, PostComments, Conclude,
     Commit, ReportFailure, Fail, Requeue, Goto, Results
<1>2. CASE Die(c)
  BY <1>2 DEF Die, Goto
<1>. QED
  BY <1>1, <1>2

(* Every step of the reviews keeps the rows of live tasks theirs. *)
LEMMA LiveHoldsKept ==
  ASSUME CrashOnly, ReviewInv, IInv', LiveHolds, [ReviewNext]_reviewVars
  PROVE  LiveHolds'
<1>. USE DEF ReviewInv
<1>0. DOMAIN pc = claims
  BY DEF ReviewTypeOK
<1>1. ASSUME NEW s \in Shas, NEW w \in Workers, Start(w, s)
      PROVE  LiveHolds'
  <2>. DEFINE c == [sha |-> s, worker |-> w, fence |-> fence_token[s]]
  <2>1. /\ status[s] = "pending"
        /\ claims' = claims \cup {c} /\ c.sha = s /\ c.fence = fence_token[s]
        /\ status' = [status EXCEPT ![s] = "processing"]
        /\ beat_recent' = [beat_recent EXCEPT ![s] = TRUE]
        /\ heartbeat' = [heartbeat EXCEPT ![s] = w]
        /\ UNCHANGED fence_token
        /\ pc' = [d \in DOMAIN pc \cup {c} |-> IF d = c THEN "token" ELSE pc[d]]
    BY <1>1 DEF Start, ClaimJob, Claimable
  <2>. HIDE DEF c
  <2>2. \A d \in claims : Live(d) => d.sha # s
    BY <2>1, LiveIsHeld DEF Results
  <2>3. w # None
    OBVIOUS
  <2>4. ASSUME NEW d \in claims', pc'[d] # "end"
        PROVE  /\ fence_token'[d.sha] = d.fence
               /\ status'[d.sha] = "processing" =>
                    beat_recent'[d.sha] /\ heartbeat'[d.sha] # None
    <3>1. CASE d = c
      BY <2>1, <2>3, <3>1 DEF IInv, TypeOK
    <3>2. CASE d # c
      <4>1. d \in claims /\ Live(d) /\ d.sha # s
        BY <1>0, <2>1, <2>2, <2>4, <3>2 DEF Live
      <4>. QED
        BY <2>1, <4>1 DEF LiveHolds, FenceMatches, IInv, TypeOK
    <3>. QED
      BY <3>1, <3>2
  <2>. QED
    BY <2>4 DEF LiveHolds, Live, FenceMatches
<1>2. ASSUME NEW c \in claims, Task(c) \/ Die(c)
      PROVE  LiveHolds'
  <2>1. Live(c) /\ c.sha \in Shas /\ UNCHANGED claims
    BY <1>2, TaskMoves, ClaimTyped, TaskCalls DEF Live, SetCheckRunId,
       FinalizeJob, ReleaseJob, vars
  <2>2. \A d \in claims \ {c} : pc'[d] = pc[d] /\ (Live(d) => d.sha # c.sha)
    BY <1>0, <1>2, <2>1, TaskMoves, OneLive DEF Goto
  <2>3. ASSUME NEW d \in claims \ {c}, Live(d)
        PROVE  /\ fence_token'[d.sha] = d.fence
               /\ status'[d.sha] = "processing" =>
                    beat_recent'[d.sha] /\ heartbeat'[d.sha] # None
    BY <1>2, <2>2, <2>3, TaskCalls, ClaimTyped DEF LiveHolds, FenceMatches,
       IInv, TypeOK, SetCheckRunId, FinalizeJob, ReleaseJob, vars, jobVars,
       heartbeatVars
  <2>4. ASSUME pc'[c] # "end"
        PROVE  /\ fence_token'[c.sha] = c.fence
               /\ status'[c.sha] = "processing" =>
                    beat_recent'[c.sha] /\ heartbeat'[c.sha] # None
    <3>1. \/ UNCHANGED vars
          \/ SetCheckRunId(c)
          \/ \E result \in Results : FinalizeJob(c, result)
      BY <1>0, <1>2, <2>4, LiveCalls
    <3>2. CASE UNCHANGED vars \/ SetCheckRunId(c)
      BY <2>1, <3>2 DEF LiveHolds, FenceMatches, SetCheckRunId, vars, jobVars,
         heartbeatVars
    <3>3. CASE \E result \in Results : FinalizeJob(c, result)
      BY <2>1, <3>3 DEF LiveHolds, FenceMatches, FinalizeJob, Results, IInv, TypeOK
    <3>. QED
      BY <3>1, <3>2, <3>3
  <2>. QED
    BY <2>1, <2>2, <2>3, <2>4 DEF LiveHolds, Live, FenceMatches
<1>3. ASSUME NEW c \in claims, Beat(c)
      PROVE  LiveHolds'
  BY <1>3, ClaimTyped DEF Beat, UpdateHeartbeat, LiveHolds, Live, FenceMatches,
     jobVars, IInv, TypeOK
<1>4. ASSUME NEW R \in SUBSET Shas, Reconcile(R)
      PROVE  LiveHolds'
  <2>1. ReconcileStaleJobs(R) /\ UNCHANGED <<pc, claims, beat_recent>>
    BY <1>4 DEF Reconcile, ReconcileStaleJobs
  <2>2. ASSUME NEW c \in claims, Live(c)
        PROVE  c.sha \in Shas \ R
    BY <2>1, <2>2, ClaimTyped DEF ReconcileStaleJobs, Stale, LiveHolds
  <2>3. ASSUME NEW c \in claims, Live(c), status'[c.sha] = "processing"
        PROVE  status[c.sha] = "processing" /\ heartbeat'[c.sha] = heartbeat[c.sha]
    <3>1. Swept(R)[c.sha] = status[c.sha] /\ c.sha \in Shas
      BY <2>2, <2>3 DEF Swept
    <3>. QED
      BY <2>1, <2>3, <3>1 DEF ReconcileStaleJobs, HeartbeatsSwept
  <2>4. \A c \in claims : Live(c) => fence_token'[c.sha] = fence_token[c.sha]
    BY <2>1, <2>2, LeftByReconcile
  <2>. QED
    BY <2>1, <2>3, <2>4 DEF LiveHolds, Live, FenceMatches
<1>5. ASSUME NEW n \in notices, Notify(n)
      PROVE  LiveHolds'
  BY <1>5 DEF Notify, LiveHolds, Live, FenceMatches, queueVars, vars, jobVars,
     heartbeatVars
<1>6. CASE ReviewEnvironment
  <2>1. UNCHANGED <<pc, claims, status, fence_token, heartbeat>>
    BY <1>6 DEF CrashOnly, ReviewEnvironment, Environment, BecomeDue, BecomeAged,
       BeatExpires, DbRestart, jobVars, heartbeatVars
  <2>2. ASSUME NEW c \in claims, Live(c), beat_recent[c.sha]
        PROVE  beat_recent'[c.sha]
    BY <1>6, <2>2, ClaimTyped DEF CrashOnly, ReviewEnvironment
  <2>. QED
    BY <2>1, <2>2 DEF LiveHolds, Live, FenceMatches
<1>7. ASSUME NEW s \in Shas, Enqueue(s)
      PROVE  LiveHolds'
  <2>1. /\ UNCHANGED <<pc, claims, fence_token, heartbeat, beat_recent>>
        /\ \A t \in Shas : status'[t] = "processing" => status[t] = "processing"
    BY <1>7 DEF Enqueue, EnqueueIfNew, heartbeatVars, IInv, TypeOK
  <2>. QED
    BY <2>1, ClaimTyped DEF LiveHolds, Live, FenceMatches
<1>8. CASE UNCHANGED reviewVars
  BY <1>8 DEF LiveHolds, Live, FenceMatches, reviewVars, queueVars, vars,
     jobVars, heartbeatVars
<1>. QED
  BY <1>1, <1>2, <1>3, <1>4, <1>5, <1>6, <1>7, <1>8 DEF ReviewNext, Work

(* An override changes no task and no row. *)
LEMMA PatchKeepsTasks ==
  ASSUME ReviewInv, IngestTypeOK, NEW s \in Shas, PatchCheckRun(s)
  PROVE  UNCHANGED <<status, aged, fence_token, github_check_run_id, heartbeat,
                     beat_recent, claims, pc, knows_run, notices, summaries>>
BY PatchEffect DEF vars, jobVars, heartbeatVars

(* Every step of the system keeps the rows of live tasks theirs. *)
LEMMA LiveHoldsIngest ==
  ASSUME CrashOnly, IngestInv, LiveHolds, [IngestNext]_allVars
  PROVE  LiveHolds'
<1>1. CASE [ReviewNext]_reviewVars
  BY <1>1, LiveHoldsKept, IngestKeeps DEF IngestInv, ReviewInv
<1>2. ASSUME NEW s \in Shas, PatchCheckRun(s)
      PROVE  LiveHolds'
  BY <1>2, PatchKeepsTasks DEF IngestInv, LiveHolds, Live, FenceMatches
<1>. QED
  BY <1>1, <1>2, IngestStep

(* The invariant of workers that only crash. *)
THEOREM LiveTasksHold ==
  ASSUME CrashOnly
  PROVE  IngestSpec => []LiveHolds
<1>1. IngestInit => LiveHolds
  BY DEF IngestInit, ReviewInit, Init, LiveHolds
<1>2. IngestInv /\ LiveHolds /\ [IngestNext]_allVars => LiveHolds'
  BY LiveHoldsIngest
<1>. QED
  BY <1>1, <1>2, IngestInvariance, PTL DEF IngestSpec

-----------------------------------------------------------------------------
(* A task about to post a summary is the first to do so. *)
SummaryInv ==
    /\ OneSummary
    /\ \A c \in claims : pc[c] = "post" => summaries[c.sha] = 0

(* The search for the signature found nothing. *)
LEMMA PostAfterLookup ==
  ASSUME "lookup" \notin Failing, DOMAIN pc = claims, summaries \in [Shas -> Nat],
         NEW c \in claims, c.sha \in Shas, Task(c) \/ Die(c), pc'[c] = "post"
  PROVE  summaries[c.sha] = 0
<1>1. CASE LookupReviews(c)
  BY <1>1 DEF LookupReviews, Goto
<1>2. CASE ~LookupReviews(c)
  BY <1>2 DEF Task, GetToken, CreateCheckRun, StoreCheckRun, FetchAndAnalyze,
     PostSummary, PostComments, Conclude, Commit, ReportFailure, Fail, Requeue,
     Die, Goto, Raise
<1>. QED
  BY <1>1, <1>2

(* The steps that are of no task leave the tasks and the reviews on GitHub *)
(* alone.                                                                  *)
LEMMA NoTaskStep ==
  ASSUME \/ \E c \in claims : Beat(c)
         \/ \E R \in SUBSET Shas : Reconcile(R)
         \/ \E n \in notices : Notify(n)
         \/ ReviewEnvironment
         \/ \E s \in Shas : Enqueue(s)
         \/ UNCHANGED reviewVars
  PROVE  UNCHANGED <<claims, github_check_run_id, pc, knows_run, summaries>>
BY DEF Beat, Reconcile, Notify, ReviewEnvironment, Enqueue, UpdateHeartbeat,
   ReconcileStaleJobs, Environment, BecomeDue, BecomeAged, BeatExpires,
   DbRestart, EnqueueIfNew, reviewVars, queueVars, vars, jobVars, githubVars

(* Every step of the reviews keeps the summary comments unique. *)
LEMMA SummaryKept ==
  ASSUME "lookup" \notin Failing, ReviewInv, LiveHolds, SummaryInv,
         [ReviewNext]_reviewVars
  PROVE  SummaryInv'
<1>. USE DEF ReviewInv
<1>0. /\ DOMAIN pc = claims
      /\ summaries \in [Shas -> Nat]
  BY DEF ReviewTypeOK
<1>1. ASSUME NEW c \in claims, Task(c) \/ Die(c)
      PROVE  SummaryInv'
  <2>1. /\ Live(c) /\ c.sha \in Shas /\ UNCHANGED claims
        /\ \A d \in claims \ {c} : pc'[d] = pc[d] /\ (pc[d] = "post" => d.sha # c.sha)
    <3>1. Live(c) /\ c.sha \in Shas /\ UNCHANGED claims
      BY <1>1, TaskMoves, ClaimTyped, TaskCalls DEF Live, SetCheckRunId,
         FinalizeJob, ReleaseJob, vars
    <3>2. \A d \in claims \ {c} : pc'[d] = pc[d]
      BY <1>0, <1>1, TaskMoves DEF Goto
    <3>3. \A d \in claims : pc[d] = "post" => Live(d)
      BY DEF Live
    <3>. QED
      BY <3>1, <3>2, <3>3, OneLive
  <2>2. CASE UNCHANGED summaries
    <3>1. pc'[c] = "post" => summaries[c.sha] = 0
      BY <1>0, <1>1, <2>1, PostAfterLookup
    <3>. QED
      BY <2>1, <2>2, <3>1 DEF SummaryInv, OneSummary
  <2>3. CASE /\ pc[c] = "post" /\ pc'[c] \notin NotPosted
             /\ summaries' = [summaries EXCEPT ![c.sha] = @ + 1]
    <3>1. summaries[c.sha] = 0 /\ pc'[c] # "post"
      BY <2>3 DEF SummaryInv, NotPosted
    <3>2. \A s \in Shas : summaries'[s] = IF s = c.sha THEN 1 ELSE summaries[s]
      BY <1>0, <2>1, <2>3, <3>1
    <3>. QED
      BY <2>1, <3>1, <3>2, ClaimTyped DEF SummaryInv, OneSummary
  <2>. QED
    BY <1>1, <2>2, <2>3, TaskPosts
<1>2. ASSUME NEW s \in Shas, NEW w \in Workers, Start(w, s)
      PROVE  SummaryInv'
  BY <1>0, <1>2 DEF Start, ClaimJob, githubVars, SummaryInv, OneSummary
<1>3. CASE \/ \E c \in claims : Beat(c)
           \/ \E R \in SUBSET Shas : Reconcile(R)
           \/ \E n \in notices : Notify(n)
           \/ ReviewEnvironment
           \/ \E s \in Shas : Enqueue(s)
           \/ UNCHANGED reviewVars
  <2>1. UNCHANGED <<claims, pc, summaries>>
    BY <1>3, NoTaskStep
  <2>. QED
    BY <2>1 DEF SummaryInv, OneSummary
<1>. QED
  BY <1>1, <1>2, <1>3 DEF ReviewNext, Work

(* The signature in the summary makes replays harmless: a commit gets one  *)
(* summary at most, if the lookup shows what was posted.  Calls that fail, *)
(* done or not, lost answers of the database and deaths at any point are   *)
(* all allowed.                                                            *)
THEOREM SummaryOnce ==
  ASSUME CrashOnly, "lookup" \notin Failing
  PROVE  IngestSpec => []OneSummary
<1>1. IngestInit => SummaryInv
  BY DEF IngestInit, ReviewInit, Init, SummaryInv, OneSummary
<1>2. IngestInv /\ LiveHolds /\ SummaryInv /\ [IngestNext]_allVars => SummaryInv'
  <2>. SUFFICES ASSUME IngestInv, LiveHolds, SummaryInv, [IngestNext]_allVars
                PROVE  SummaryInv'
    OBVIOUS
  <2>1. CASE [ReviewNext]_reviewVars
    BY <2>1, SummaryKept DEF IngestInv
  <2>2. ASSUME NEW s \in Shas, PatchCheckRun(s)
        PROVE  SummaryInv'
    BY <2>2, PatchKeepsTasks DEF IngestInv, SummaryInv, OneSummary
  <2>. QED
    BY <2>1, <2>2, IngestStep
<1>3. SummaryInv => OneSummary
  BY DEF SummaryInv
<1>. QED
  BY <1>1, <1>2, <1>3, IngestInvariance, LiveTasksHold, PTL DEF IngestSpec

-----------------------------------------------------------------------------
(* A task that goes on after create_check_run has stored the run. *)
LEMMA StoreStores ==
  ASSUME ~DbMayFail, DOMAIN pc = claims, NEW c \in claims, pc[c] = "store",
         Task(c) \/ Die(c), pc'[c] # "end"
  PROVE  SetCheckRunId(c)
BY DEF Task, GetToken, CreateCheckRun, StoreCheckRun, FetchAndAnalyze,
   LookupReviews, PostSummary, PostComments, Conclude, Commit, ReportFailure,
   Fail, Requeue, Die, Goto

(* Every step of the reviews keeps the row pointing at its own check run. *)
LEMMA RowKept ==
  ASSUME ~DbMayFail, ReviewInv, LiveHolds, RowNamesOwnRun, [ReviewNext]_reviewVars
  PROVE  RowNamesOwnRun'
<1>. USE DEF ReviewInv
<1>0. DOMAIN pc = claims /\ knows_run \subseteq claims
  BY DEF ReviewTypeOK
<1>1. \A d \in knows_run :
        Live(d) /\ pc[d] # "store" => github_check_run_id[d.sha] = Attempt(d)
  BY <1>0 DEF RowNamesOwnRun, LiveHolds
<1>2. ASSUME NEW c \in claims, Task(c) \/ Die(c)
      PROVE  RowNamesOwnRun'
  <2>1. Live(c) /\ c.sha \in Shas
    BY <1>2, TaskMoves, ClaimTyped DEF Live
  <2>2. ASSUME NEW d \in knows_run', pc'[d] # "end", pc'[d] # "store"
        PROVE  github_check_run_id'[d.sha] = Attempt(d)
    <3>1. d \in knows_run \cup {c} /\ (d \notin knows_run => pc'[d] = "store")
      BY <1>2, TaskPatches
    <3>2. d \in knows_run
      BY <2>2, <3>1
    <3>3. CASE d # c
      <4>1. pc'[d] = pc[d]
        BY <1>0, <1>2, <3>2, <3>3, TaskMoves DEF Goto
      <4>2. d.sha # c.sha /\ github_check_run_id[d.sha] = Attempt(d)
        BY <1>0, <1>1, <2>1, <2>2, <3>2, <3>3, <4>1, OneLive DEF Live
      <4>3. d.sha \in Shas
        BY <1>0, <3>2, ClaimTyped
      <4>4. CASE SetCheckRunId(c)
        BY <2>1, <4>2, <4>3, <4>4 DEF SetCheckRunId, Attempt, IInv, TypeOK
      <4>5. CASE ~SetCheckRunId(c)
        <5>1. UNCHANGED github_check_run_id
          BY <1>2, <4>5, TaskCalls DEF FinalizeJob, ReleaseJob, vars, jobVars
        <5>. QED
          BY <4>2, <5>1
      <4>. QED
        BY <4>4, <4>5
    <3>4. CASE d = c
      <4>1. CASE SetCheckRunId(c)
        BY <2>1, <3>4, <4>1 DEF SetCheckRunId, Attempt, IInv, TypeOK
      <4>2. CASE ~SetCheckRunId(c)
        <5>1. UNCHANGED github_check_run_id
          BY <1>2, <4>2, TaskCalls DEF FinalizeJob, ReleaseJob, vars, jobVars
        <5>2. pc[c] # "store"
          BY <1>0, <1>2, <2>2, <3>4, <4>2, StoreStores
        <5>. QED
          BY <1>1, <2>1, <3>2, <3>4, <5>1, <5>2
      <4>. QED
        BY <4>1, <4>2
    <3>. QED
      BY <3>3, <3>4
  <2>. QED
    BY <2>2 DEF RowNamesOwnRun, Live, Attempt
<1>3. ASSUME NEW s \in Shas, NEW w \in Workers, Start(w, s)
      PROVE  RowNamesOwnRun'
  <2>. DEFINE c == [sha |-> s, worker |-> w, fence |-> fence_token[s]]
  <2>1. /\ UNCHANGED <<github_check_run_id, knows_run>>
        /\ pc' = [d \in DOMAIN pc \cup {c} |-> IF d = c THEN "token" ELSE pc[d]]
        /\ status[s] = "pending" /\ c.fence = fence_token[s] /\ c.sha = s
    BY <1>3 DEF Start, ClaimJob, Claimable
  <2>2. c \notin claims
    BY <2>1 DEF IInv, FenceHoldsJob, Results
  <2>. HIDE DEF c
  <2>3. \A d \in knows_run : pc'[d] = pc[d]
    BY <1>0, <2>1, <2>2
  <2>. QED
    BY <1>1, <2>1, <2>3 DEF RowNamesOwnRun, Live, Attempt
<1>4. CASE \/ \E c \in claims : Beat(c)
           \/ \E R \in SUBSET Shas : Reconcile(R)
           \/ \E n \in notices : Notify(n)
           \/ ReviewEnvironment
           \/ \E s \in Shas : Enqueue(s)
           \/ UNCHANGED reviewVars
  BY <1>1, <1>4, NoTaskStep DEF RowNamesOwnRun, Live, Attempt
<1>. QED
  BY <1>2, <1>3, <1>4 DEF ReviewNext, Work

(* The row of a job names the check run of the attempt that holds it, if   *)
(* the database answers truthfully: reconciliation and overrides reach the *)
(* run that this attempt is going to conclude.                             *)
THEOREM RowNamesRun ==
  ASSUME CrashOnly, ~DbMayFail
  PROVE  IngestSpec => []RowNamesOwnRun
<1>1. IngestInit => RowNamesOwnRun
  BY DEF IngestInit, ReviewInit, RowNamesOwnRun
<1>2. IngestInv /\ LiveHolds /\ RowNamesOwnRun /\ [IngestNext]_allVars
        => RowNamesOwnRun'
  <2>. SUFFICES ASSUME IngestInv, LiveHolds, RowNamesOwnRun, [IngestNext]_allVars
                PROVE  RowNamesOwnRun'
    OBVIOUS
  <2>1. CASE [ReviewNext]_reviewVars
    BY <2>1, RowKept DEF IngestInv
  <2>2. ASSUME NEW s \in Shas, PatchCheckRun(s)
        PROVE  RowNamesOwnRun'
    BY <2>2, PatchKeepsTasks DEF IngestInv, RowNamesOwnRun, Live, FenceMatches, Attempt
  <2>. QED
    BY <2>1, <2>2, IngestStep
<1>. QED
  BY <1>1, <1>2, IngestInvariance, LiveTasksHold, PTL DEF IngestSpec

-----------------------------------------------------------------------------
(* What a dead job needs to be reported. *)
Reported(s) ==
    \/ check_runs[s][github_check_run_id[s]] # "in_progress"
    \/ \E n \in notices : n.sha = s /\ n.run = github_check_run_id[s]

(* Every step of the reviews keeps the exhausted jobs reported. *)
LEMMA ReportKept ==
  ASSUME "notify" \notin Failing, ReviewInv, LiveHolds, ExhaustedIsReported,
         [ReviewNext]_reviewVars
  PROVE  ExhaustedIsReported'
<1>. USE DEF ReviewInv
<1>. SUFFICES ASSUME NEW s \in Shas, status'[s] = "dead", ~aged'[s],
                     github_check_run_id'[s] # 0
              PROVE  Reported(s)'
  BY DEF ExhaustedIsReported, Reported
<1>0. status[s] = "dead" /\ ~aged[s] /\ github_check_run_id[s] # 0 => Reported(s)
  BY DEF ExhaustedIsReported, Reported
<1>1. ASSUME NEW c \in claims, Task(c) \/ Die(c)
      PROVE  Reported(s)'
  <2>1. /\ Live(c) /\ c.sha \in Shas /\ Attempt(c) \in 1..MaxAttempts
        /\ status[c.sha] # "dead"
    BY <1>1, TaskMoves, ClaimTyped, LiveIsHeld DEF Live, Results
  <2>2. status'[c.sha] # "dead"
    BY <1>1, <2>1, TaskCalls DEF SetCheckRunId, FinalizeJob, ReleaseJob, vars,
       jobVars, IInv, TypeOK
  <2>3. /\ s # c.sha
        /\ status[s] = "dead" /\ ~aged[s]
        /\ github_check_run_id'[s] = github_check_run_id[s]
    BY <1>1, <2>1, <2>2, TaskCalls DEF SetCheckRunId, FinalizeJob, ReleaseJob,
       vars, jobVars, IInv, TypeOK
  <2>4. /\ UNCHANGED notices
        /\ UNCHANGED check_runs \/ \E x : SetRun(c.sha, Attempt(c), x)
    BY <1>1, TaskPatches
  <2>5. check_runs'[s] = check_runs[s]
    BY <2>1, <2>3, <2>4 DEF SetRun, ReviewTypeOK
  <2>. QED
    BY <1>0, <2>3, <2>4, <2>5 DEF Reported
<1>2. ASSUME NEW t \in Shas, NEW w \in Workers, Start(w, t)
      PROVE  Reported(s)'
  BY <1>0, <1>2 DEF Start, ClaimJob, githubVars, Reported, IInv, TypeOK
<1>3. ASSUME NEW R \in SUBSET Shas, Reconcile(R)
      PROVE  Reported(s)'
  <2>1. /\ ReconcileStaleJobs(R)
        /\ UNCHANGED <<aged, github_check_run_id, check_runs>>
        /\ notices \subseteq notices'
    BY <1>3 DEF Reconcile, ReconcileStaleJobs, githubVars
  <2>2. CASE s \in R
    <3>. DEFINE n == [sha |-> s, run |-> github_check_run_id[s],
                      status |-> Swept(R)[s]]
    <3>1. n \in notices' /\ n.sha = s /\ n.run = github_check_run_id'[s]
      BY <1>3, <2>1, <2>2 DEF Reconcile
    <3>. QED
      BY <3>1 DEF Reported
  <2>3. CASE s \notin R
    <3>1. Swept(R)[s] = status[s]
      BY <2>3 DEF Swept
    <3>2. status[s] = "dead"
      BY <2>1, <3>1 DEF ReconcileStaleJobs
    <3>. QED
      BY <1>0, <2>1, <3>2 DEF Reported
  <2>. QED
    BY <2>2, <2>3
<1>4. ASSUME NEW n \in notices, Notify(n)
      PROVE  Reported(s)'
  <2>1. /\ n.sha \in Shas /\ n.run \in 1..MaxAttempts
        /\ \E x \in {"failure", "action_required"} : SetRun(n.sha, n.run, x)
        /\ notices' = notices \ {n}
        /\ UNCHANGED <<status, aged, github_check_run_id>>
    BY <1>4 DEF Notify, queueVars, vars, jobVars, ReviewTypeOK, Notice
  <2>2. /\ check_runs'[n.sha][n.run] # "in_progress"
        /\ \A t \in Shas, m \in 1..MaxAttempts :
             check_runs'[t][m] # check_runs[t][m] => t = n.sha /\ m = n.run
    BY <2>1 DEF SetRun, ReviewTypeOK
  <2>3. github_check_run_id[s] \in 1..MaxAttempts
    BY <2>1 DEF IInv, TypeOK
  <2>. QED
    BY <1>0, <2>1, <2>2, <2>3 DEF Reported
<1>5. CASE (\E c \in claims : Beat(c)) \/ ReviewEnvironment \/ UNCHANGED reviewVars
  <2>1. /\ UNCHANGED <<status, github_check_run_id, notices, check_runs>>
        /\ aged[s] => aged'[s]
    BY <1>5 DEF Beat, ReviewEnvironment, UpdateHeartbeat, Environment, BecomeDue,
       BecomeAged, BeatExpires, DbRestart, reviewVars, queueVars, vars, jobVars,
       githubVars, IInv, TypeOK
  <2>. QED
    BY <1>0, <2>1 DEF Reported
<1>6. ASSUME NEW t \in Shas, Enqueue(t)
      PROVE  Reported(s)'
  BY <1>0, <1>6 DEF Enqueue, EnqueueIfNew, githubVars, Reported, IInv, TypeOK
<1>. QED
  BY <1>1, <1>2, <1>3, <1>4, <1>5, <1>6 DEF ReviewNext, Work

(* A job that died because its last attempt went stale is reported, if the *)
(* report reaches GitHub: the check run that its row names is not left in  *)
(* progress, wherever its attempts were cut off.                           *)
THEOREM DeadJobsReported ==
  ASSUME CrashOnly, "notify" \notin Failing
  PROVE  IngestSpec => []ExhaustedIsReported
<1>1. IngestInit => ExhaustedIsReported
  BY DEF IngestInit, ReviewInit, Init, ExhaustedIsReported
<1>2. IngestInv /\ LiveHolds /\ ExhaustedIsReported /\ [IngestNext]_allVars
        => ExhaustedIsReported'
  <2>. SUFFICES ASSUME IngestInv, LiveHolds, ExhaustedIsReported, [IngestNext]_allVars
                PROVE  ExhaustedIsReported'
    OBVIOUS
  <2>1. CASE [ReviewNext]_reviewVars
    BY <2>1, ReportKept DEF IngestInv
  <2>2. ASSUME NEW t \in Shas, PatchCheckRun(t)
        PROVE  ExhaustedIsReported'
    <3>1. UNCHANGED <<status, aged, github_check_run_id, notices>>
      BY <2>2, PatchKeepsTasks DEF IngestInv
    <3>2. \A s \in Shas, m \in 1..MaxAttempts :
            check_runs'[s][m] # check_runs[s][m] => check_runs'[s][m] = "success"
      BY <2>2, PatchEffect DEF IngestInv
    <3>3. \A s \in Shas : github_check_run_id[s] # 0 =>
                            github_check_run_id[s] \in 1..MaxAttempts
      BY DEF IngestInv, ReviewInv, IInv, TypeOK
    <3>. QED
      BY <3>1, <3>2, <3>3 DEF ExhaustedIsReported
  <2>. QED
    BY <2>1, <2>2, IngestStep
<1>. QED
  BY <1>1, <1>2, IngestInvariance, LiveTasksHold, PTL DEF IngestSpec
=============================================================================
