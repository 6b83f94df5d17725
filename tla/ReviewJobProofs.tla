-------------------------- MODULE ReviewJobProofs ---------------------------
(***************************************************************************)
(* Proofs about the reviews and what they leave on GitHub, for any set of  *)
(* commits and workers and any attempt limit.                              *)
(***************************************************************************)
EXTENDS ReviewJob, JobQueueProofs, FiniteSetTheorems

(* Where a task is before it may have posted the summary... *)
NotPosted == {"token", "check", "store", "fetch", "lookup", "post"}

(* ... and after finalize_job may have committed. *)
Over == {"report", "requeue", "fail", "end"}

ClaimsOf(s) == {c \in claims : c.sha = s}
Posters(s) == {c \in ClaimsOf(s) : pc[c] \notin NotPosted}

(* attempt_count counts the rows that claim_job returned. *)
ClaimsCounted ==
    \A s \in Shas : /\ IsFiniteSet(ClaimsOf(s))
                    /\ Cardinality(ClaimsOf(s)) = attempt_count[s]

(* Each task posts at most one summary, so that MaxAttempts bounds them    *)
(* even when zombies and lost responses defeat the search for a signature. *)
SummariesCounted ==
    \A s \in Shas : summaries[s] <= Cardinality(Posters(s))

(* What a task has brought about where process_job is. *)
TaskProgress ==
    \A c \in claims :
      /\ pc[c] \in {"comments", "conclude", "commit"} => summaries[c.sha] > 0
      /\ pc[c] = "commit" /\ c \in knows_run =>
           check_runs[c.sha][Attempt(c)] \in Conclusions
      /\ c \in commits => pc[c] \in Over

(* The inductive invariant, for every setting of the failure switches. *)
ReviewInv ==
    /\ IInv
    /\ ReviewTypeOK
    /\ ClaimsCounted
    /\ SummariesCounted
    /\ TaskProgress
    /\ SuccessIsVisible

USE MaxAttemptsAssumption, NoneAssumption, SwitchAssumption

-----------------------------------------------------------------------------
(* The steps of the reviews, seen from the queue. *)

(* What the types say of one claim. *)
LEMMA ClaimTyped ==
  ASSUME IInv, NEW c \in claims
  PROVE  /\ c.sha \in Shas /\ c.worker \in Workers
         /\ c.fence \in Nat /\ Attempt(c) \in 1..MaxAttempts
<1>1. c.sha \in Shas /\ c.worker \in Workers /\ c.fence \in Nat
  BY DEF IInv, TypeOK, Claim
<1>. QED
  BY <1>1 DEF IInv, TypeOK, FenceHoldsJob, FenceCountsAttempts, Results, Attempt

(* What the steps of a task do to the queue. *)
LEMMA TaskCalls ==
  ASSUME NEW c, Task(c) \/ Die(c)
  PROVE  \/ UNCHANGED vars
         \/ SetCheckRunId(c)
         \/ pc[c] = "commit" /\ FinalizeJob(c, "SUCCESS")
         \/ pc[c] = "fail" /\ FinalizeJob(c, "FAILURE")
         \/ \E delayed \in BOOLEAN : ReleaseJob(c, delayed)
<1>1. CASE Task(c)
  BY <1>1 DEF queueVars, Task, GetToken, CreateCheckRun, StoreCheckRun,
     FetchAndAnalyze, LookupReviews, PostSummary, PostComments, Conclude,
     Commit, ReportFailure, Fail, Requeue
<1>2. CASE Die(c)
  BY <1>2, Zenon DEF queueVars, Die
<1>. QED
  BY <1>1, <1>2

(* Every step of the reviews is a call that JobQueue allows, a step of its *)
(* environment, or leaves the queue alone.                                 *)
LEMMA ReviewQueueStep ==
  ASSUME IInv, [ReviewNext]_reviewVars
  PROVE  [Next]_vars
<1>. USE DEF queueVars
<1>1. CASE UNCHANGED reviewVars
  BY <1>1 DEF reviewVars
<1>2. ASSUME NEW s \in Shas, NEW w \in Workers, Start(w, s)
      PROVE  [Next]_vars
  BY <1>2 DEF Start, Next, Client
<1>3. ASSUME NEW c \in claims, Task(c) \/ Die(c)
      PROVE  [Next]_vars
  <2>1. \/ UNCHANGED vars
        \/ SetCheckRunId(c)
        \/ \E result \in Results : FinalizeJob(c, result)
        \/ \E delayed \in BOOLEAN : ReleaseJob(c, delayed)
    BY <1>3, TaskCalls, Zenon DEF Results
  <2>. QED
    BY <2>1, Zenon DEF Next, Client
<1>4. ASSUME NEW c \in claims, Beat(c)
      PROVE  [Next]_vars
  BY <1>4, ClaimTyped DEF Beat, Next, Client
<1>5. ASSUME NEW R \in SUBSET Shas, Reconcile(R)
      PROVE  [Next]_vars
  BY <1>5 DEF Reconcile, Next, Client
<1>6. ASSUME NEW n \in notices, Notify(n)
      PROVE  [Next]_vars
  BY <1>6 DEF Notify
<1>7. CASE ReviewEnvironment
  BY <1>7 DEF ReviewEnvironment, Next
<1>8. ASSUME NEW s \in Shas, Enqueue(s)
      PROVE  [Next]_vars
  BY <1>8 DEF Enqueue, Next, Client
<1>. QED
  BY <1>1, <1>2, <1>3, <1>4, <1>5, <1>6, <1>7, <1>8 DEF ReviewNext, Work

(* Only claim_job returns a row and counts an attempt. *)
LEMMA OnlyClaimCounts ==
  ASSUME [Next]_vars
  PROVE  \/ UNCHANGED <<claims, attempt_count>>
         \/ \E w \in Workers, s \in Shas : ClaimJob(w, s)
BY DEF Next, Client, Environment, EnqueueIfNew, UpdateHeartbeat,
   SetCheckRunId, FinalizeJob, ReleaseJob, ReconcileStaleJobs, BecomeDue,
   BecomeAged, BeatExpires, DbRestart, vars, jobVars

(* Every step keeps the number of claims of a commit equal to its          *)
(* attempts.                                                               *)
LEMMA ClaimsCountedKept ==
  ASSUME IInv, ClaimsCounted, [Next]_vars
  PROVE  ClaimsCounted'
<1>1. CASE UNCHANGED <<claims, attempt_count>>
  BY <1>1 DEF ClaimsCounted, ClaimsOf
<1>2. ASSUME NEW w \in Workers, NEW t \in Shas, ClaimJob(w, t)
      PROVE  ClaimsCounted'
  <2>. DEFINE new == [sha |-> t, worker |-> w, fence |-> fence_token[t]]
  <2>1. new.sha = t /\ claims' = claims \cup {new}
    BY <1>2 DEF ClaimJob
  <2>2. new \notin claims
    BY <1>2 DEF ClaimJob, Claimable, IInv, FenceHoldsJob, Results
  <2>3. attempt_count' = [attempt_count EXCEPT ![t] = @ + 1]
    BY <1>2 DEF ClaimJob
  <2>. HIDE DEF new
  <2>4. ASSUME NEW s \in Shas
        PROVE  /\ IsFiniteSet(ClaimsOf(s)')
               /\ Cardinality(ClaimsOf(s)') = attempt_count'[s]
    <3>1. CASE s = t
      <4>1. ClaimsOf(s)' = ClaimsOf(s) \cup {new} /\ new \notin ClaimsOf(s)
        BY <2>1, <2>2, <3>1 DEF ClaimsOf
      <4>. QED
        BY <2>3, <3>1, <4>1, FS_AddElement DEF ClaimsCounted, IInv, TypeOK
    <3>2. CASE s # t
      <4>1. ClaimsOf(s)' = ClaimsOf(s)
        BY <2>1, <3>2 DEF ClaimsOf
      <4>. QED
        BY <2>3, <3>2, <4>1 DEF ClaimsCounted, IInv, TypeOK
    <3>. QED
      BY <3>1, <3>2
  <2>. QED
    BY <2>4 DEF ClaimsCounted
<1>. QED
  BY <1>1, <1>2, OnlyClaimCounts

-----------------------------------------------------------------------------
(* What the steps do on GitHub. *)

(* A PATCH changes one check run. *)
LEMMA SetRunEffect ==
  ASSUME ReviewTypeOK, NEW s \in Shas, NEW n \in 1..MaxAttempts,
         NEW x \in {"in_progress"} \cup Conclusions, SetRun(s, n, x)
  PROVE  /\ check_runs' \in [Shas -> [1..MaxAttempts ->
                                 {"none", "in_progress"} \cup Conclusions]]
         /\ check_runs'[s][n] = x
         /\ \A t \in Shas, m \in 1..MaxAttempts :
              check_runs'[t][m] # check_runs[t][m] => t = s /\ m = n
BY DEF ReviewTypeOK, SetRun

(* What a step of a task, or its death, does to its program counter. *)
LEMMA TaskMoves ==
  ASSUME ReviewInv, NEW c \in claims, Task(c) \/ Die(c)
  PROVE  /\ \E l \in CallStates : Goto(c, l)
         /\ pc[c] \notin NotPosted => pc'[c] \notin NotPosted
         /\ pc[c] \in Over => pc'[c] \in Over
         /\ pc[c] # "end"
<1>. USE DEF ReviewInv, ReviewTypeOK, CallStates, GitHubCalls, Goto, Raise,
             NotPosted, Over
<1>1. CASE \/ GetToken(c) \/ CreateCheckRun(c) \/ StoreCheckRun(c)
           \/ FetchAndAnalyze(c) \/ LookupReviews(c)
  BY <1>1 DEF GetToken, CreateCheckRun, StoreCheckRun, FetchAndAnalyze,
     LookupReviews
<1>2. CASE PostSummary(c) \/ PostComments(c) \/ Conclude(c)
  BY <1>2 DEF PostSummary, PostComments, Conclude
<1>3. CASE Commit(c)
  BY <1>3 DEF Commit
<1>4. CASE ReportFailure(c) \/ Fail(c) \/ Requeue(c) \/ Die(c)
  BY <1>4 DEF ReportFailure, Fail, Requeue, Die, Live
<1>. QED
  BY <1>1, <1>2, <1>3, <1>4 DEF Task

(* ... to the reviews posted for its commit... *)
LEMMA TaskPosts ==
  ASSUME ReviewInv, NEW c \in claims, Task(c) \/ Die(c)
  PROVE  /\ \/ UNCHANGED summaries
            \/ /\ pc[c] = "post" /\ pc'[c] \notin NotPosted
               /\ summaries' = [summaries EXCEPT ![c.sha] = @ + 1]
         /\ commented' \in [Shas -> BOOLEAN]
         /\ pc'[c] \in {"comments", "conclude", "commit"} => summaries'[c.sha] > 0
<1>. USE DEF ReviewInv, ReviewTypeOK, CallStates, GitHubCalls, Goto, Raise,
             NotPosted, githubVars
<1>1. /\ c.sha \in Shas
      /\ pc[c] \in {"comments", "conclude", "commit"} => summaries[c.sha] > 0
      /\ summaries[c.sha] \in Nat
  BY ClaimTyped DEF TaskProgress
<1>2. CASE \/ GetToken(c) \/ CreateCheckRun(c) \/ StoreCheckRun(c)
           \/ FetchAndAnalyze(c)
  BY <1>2 DEF GetToken, CreateCheckRun, StoreCheckRun, FetchAndAnalyze
<1>3. CASE LookupReviews(c)
  BY <1>1, <1>3 DEF LookupReviews
<1>4. CASE PostSummary(c)
  BY <1>1, <1>4 DEF PostSummary
<1>5. CASE PostComments(c)
  BY <1>1, <1>5 DEF PostComments
<1>6. CASE Conclude(c)
  BY <1>1, <1>6 DEF Conclude
<1>7. CASE Commit(c)
  BY <1>7 DEF Commit
<1>8. CASE ReportFailure(c) \/ Fail(c) \/ Requeue(c) \/ Die(c)
  BY <1>8 DEF ReportFailure, Fail, Requeue, Die
<1>. QED
  BY <1>2, <1>3, <1>4, <1>5, <1>6, <1>7, <1>8 DEF Task

(* ... and to its own check run and what it knows of it. *)
LEMMA TaskPatches ==
  ASSUME ReviewInv, NEW c \in claims, Task(c) \/ Die(c)
  PROVE  /\ \/ UNCHANGED knows_run
            \/ pc[c] = "check" /\ pc'[c] = "store" /\ knows_run' = knows_run \cup {c}
         /\ \/ UNCHANGED check_runs
            \/ \E x \in Conclusions : SetRun(c.sha, Attempt(c), x)
            \/ pc[c] = "check" /\ SetRun(c.sha, Attempt(c), "in_progress")
         /\ pc[c] = "commit" => UNCHANGED <<knows_run, check_runs>>
         /\ pc'[c] = "commit" /\ c \in knows_run' =>
              check_runs'[c.sha][Attempt(c)] \in Conclusions
         /\ UNCHANGED notices
<1>. USE DEF ReviewInv, ReviewTypeOK, CallStates, GitHubCalls, Goto, Raise,
             githubVars
<1>1. c.sha \in Shas /\ Attempt(c) \in 1..MaxAttempts
  BY ClaimTyped
<1>2. CASE \/ GetToken(c) \/ StoreCheckRun(c) \/ FetchAndAnalyze(c)
           \/ LookupReviews(c) \/ PostSummary(c) \/ PostComments(c)
  BY <1>2 DEF GetToken, StoreCheckRun, FetchAndAnalyze, LookupReviews,
     PostSummary, PostComments
<1>3. CASE CreateCheckRun(c)
  BY <1>3 DEF CreateCheckRun
<1>4. CASE Conclude(c)
  <2>1. ASSUME NEW x \in {"success", "failure"}, SetRun(c.sha, Attempt(c), x)
        PROVE  x \in Conclusions /\ check_runs'[c.sha][Attempt(c)] \in Conclusions
    BY <1>1, <2>1, SetRunEffect DEF Conclusions
  <2>. QED
    BY <1>4, <2>1 DEF Conclude
<1>5. CASE Commit(c)
  BY <1>5 DEF Commit
<1>6. CASE ReportFailure(c)
  BY <1>6 DEF ReportFailure, Conclusions
<1>7. CASE Fail(c) \/ Requeue(c) \/ Die(c)
  BY <1>7 DEF Fail, Requeue, Die
<1>. QED
  BY <1>2, <1>3, <1>4, <1>5, <1>6, <1>7 DEF Task

-----------------------------------------------------------------------------
(* The invariant. *)

(* The inductive invariant holds at the start. *)
LEMMA InitReviewInv == ReviewInit => ReviewInv
<1>. SUFFICES ASSUME ReviewInit
              PROVE  ReviewInv
  OBVIOUS
<1>1. IInv
  BY InitIInv DEF ReviewInit
<1>2. claims = {} /\ commits = {} /\ attempt_count = [s \in Shas |-> 0]
  BY DEF ReviewInit, Init
<1>3. DOMAIN pc = {}
  BY DEF ReviewInit
<1>4. ReviewTypeOK
  BY <1>1, <1>2, <1>3 DEF ReviewInit, ReviewTypeOK, IInv
<1>5. ASSUME NEW s \in Shas
      PROVE  /\ IsFiniteSet(ClaimsOf(s))
             /\ Cardinality(ClaimsOf(s)) = attempt_count[s]
             /\ summaries[s] <= Cardinality(Posters(s))
  <2>1. ClaimsOf(s) = {} /\ Posters(s) = {}
    BY <1>2 DEF ClaimsOf, Posters
  <2>. QED
    BY <1>2, <2>1, FS_EmptySet DEF ReviewInit
<1>6. TaskProgress /\ SuccessIsVisible
  BY <1>2 DEF TaskProgress, SuccessIsVisible
<1>. QED
  BY <1>1, <1>4, <1>5, <1>6 DEF ReviewInv, ClaimsCounted, SummariesCounted

(* The summaries of a commit stay within its tasks that have posted if no  *)
(* task unposts.                                                           *)
LEMMA PostersGrow ==
  ASSUME ReviewInv, ClaimsCounted', NEW s \in Shas,
         claims \subseteq claims',
         \A c \in claims : pc[c] \notin NotPosted => pc'[c] \notin NotPosted
  PROVE  /\ IsFiniteSet(Posters(s)) /\ IsFiniteSet(Posters(s)')
         /\ Cardinality(Posters(s)) \in Nat
         /\ Posters(s) \subseteq Posters(s)'
         /\ Cardinality(Posters(s)) <= Cardinality(Posters(s)')
         /\ Cardinality(Posters(s)') <= attempt_count'[s]
<1>1. Posters(s) \subseteq Posters(s)'
  BY DEF Posters, ClaimsOf
<1>2. Posters(s) \subseteq ClaimsOf(s) /\ Posters(s)' \subseteq ClaimsOf(s)'
  BY DEF Posters
<1>3. /\ IsFiniteSet(Posters(s)) /\ IsFiniteSet(Posters(s)')
      /\ Cardinality(Posters(s)') <= attempt_count'[s]
  BY <1>2, FS_Subset DEF ReviewInv, ClaimsCounted
<1>. QED
  BY <1>1, <1>3, FS_Subset, FS_CardinalityType

(* A task whose finalize_job has committed does nothing but report that it *)
(* could not hear of it.                                                   *)
LEMMA CommittingEnds ==
  ASSUME ReviewInv, NEW c \in claims, Task(c) \/ Die(c),
         c \in commits', c \notin commits
  PROVE  pc'[c] \in Over
<1>. USE DEF ReviewInv, ReviewTypeOK, Goto, Raise, Over, queueVars, vars
<1>1. CASE \/ GetToken(c) \/ CreateCheckRun(c) \/ StoreCheckRun(c)
           \/ FetchAndAnalyze(c) \/ LookupReviews(c) \/ PostSummary(c)
           \/ PostComments(c) \/ Conclude(c) \/ ReportFailure(c) \/ Requeue(c)
           \/ Die(c)
  BY <1>1 DEF GetToken, CreateCheckRun, StoreCheckRun, FetchAndAnalyze,
     LookupReviews, PostSummary, PostComments, Conclude, ReportFailure,
     Requeue, Die, SetCheckRunId, ReleaseJob
<1>2. CASE Commit(c) \/ Fail(c)
  BY <1>2 DEF Commit, Fail
<1>. QED
  BY <1>1, <1>2 DEF Task

(* A job turns SUCCESS, or a claim commits, with SUCCESS as the result,    *)
(* only by finalize_job after the review, and then for that claim alone.   *)
LEMMA CommitTells ==
  ASSUME ReviewInv, IInv', NEW c \in claims, Task(c) \/ Die(c),
         NEW d \in commits', d \in claims, status'[d.sha] = "SUCCESS",
         ~(d \in commits /\ status[d.sha] = "SUCCESS")
  PROVE  FinalizeJob(c, "SUCCESS") /\ pc[c] = "commit" /\ d = c
<1>. USE DEF ReviewInv
<1>1. c.sha \in Shas /\ d.sha \in Shas
  BY ClaimTyped
<1>2. CASE UNCHANGED vars \/ SetCheckRunId(c)
  BY <1>2 DEF SetCheckRunId, vars, jobVars
<1>3. CASE pc[c] = "fail" /\ FinalizeJob(c, "FAILURE")
  <2>1. d \in commits \cup {c} /\ status' = [status EXCEPT ![c.sha] = "FAILURE"]
    BY <1>3 DEF FinalizeJob
  <2>2. d.sha # c.sha
    BY <1>1, <2>1 DEF IInv, TypeOK
  <2>. QED
    BY <1>1, <2>1, <2>2 DEF IInv, TypeOK
<1>4. CASE pc[c] = "commit" /\ FinalizeJob(c, "SUCCESS")
  <2>1. /\ commits' = commits \cup {c}
        /\ status' = [status EXCEPT ![c.sha] = "SUCCESS"]
    BY <1>4 DEF FinalizeJob
  <2>2. d.sha = c.sha
    BY <1>1, <2>1 DEF IInv, TypeOK
  <2>3. d.fence = c.fence /\ d \in claims' /\ c \in claims'
    BY <2>1, <2>2 DEF IInv, CommitHoldsFence, TypeOK
  <2>. QED
    BY <1>4, <2>2, <2>3 DEF IInv, TokenNamesOneClaim
<1>5. CASE \E delayed \in BOOLEAN : ReleaseJob(c, delayed)
  BY <1>1, <1>5 DEF ReleaseJob, IInv, TypeOK
<1>. QED
  BY <1>2, <1>3, <1>4, <1>5, TaskCalls

(* The steps of a task. *)
LEMMA TaskPreserves ==
  ASSUME ReviewInv, IInv', ClaimsCounted', NEW c \in claims, Task(c) \/ Die(c)
  PROVE  ReviewInv'
<1>. USE DEF ReviewInv
<1>1. /\ c.sha \in Shas /\ Attempt(c) \in 1..MaxAttempts
      /\ \A d \in claims : d.sha \in Shas /\ Attempt(d) \in 1..MaxAttempts
  BY ClaimTyped
<1>2. UNCHANGED <<claims, attempt_count>>
  BY TaskCalls DEF SetCheckRunId, FinalizeJob, ReleaseJob, vars, jobVars
<1>3. PICK l \in CallStates : Goto(c, l)
  BY TaskMoves
<1>4. /\ DOMAIN pc' = claims
      /\ pc'[c] = l
      /\ \A d \in claims \ {c} : pc'[d] = pc[d]
  BY <1>3 DEF Goto, ReviewTypeOK
<1>5. /\ knows_run \subseteq knows_run' /\ knows_run' \subseteq knows_run \cup {c}
      /\ c \in knows_run' \ knows_run => pc[c] = "check"
      /\ UNCHANGED notices
  BY TaskPatches
<1>6. /\ check_runs' \in [Shas -> [1..MaxAttempts ->
                              {"none", "in_progress"} \cup Conclusions]]
      /\ \A d \in claims :
           check_runs[d.sha][Attempt(d)] \in Conclusions =>
             \/ check_runs'[d.sha][Attempt(d)] \in Conclusions
             \/ d = c /\ pc[c] = "check"
  <2>1. CASE UNCHANGED check_runs
    BY <2>1 DEF ReviewTypeOK
  <2>2. ASSUME NEW x \in {"in_progress"} \cup Conclusions,
               SetRun(c.sha, Attempt(c), x),
               x \in Conclusions \/ pc[c] = "check"
        PROVE  <1>6
    <3>1. \A d \in claims : d.sha = c.sha /\ Attempt(d) = Attempt(c) => d = c
      BY ClaimTyped DEF IInv, TokenNamesOneClaim, Attempt
    <3>. QED
      BY <1>1, <2>2, <3>1, SetRunEffect
  <2>. QED
    BY <2>1, <2>2, TaskPatches
<1>7. SummariesCounted' /\ summaries' \in [Shas -> 0..MaxAttempts]
  <2>1. \A d \in claims : pc[d] \notin NotPosted => pc'[d] \notin NotPosted
    BY <1>4, TaskMoves
  <2>2. ASSUME NEW s \in Shas
        PROVE  summaries'[s] \in Nat /\ summaries'[s] <= Cardinality(Posters(s)')
    <3>1. /\ IsFiniteSet(Posters(s)) /\ IsFiniteSet(Posters(s)')
          /\ Posters(s) \subseteq Posters(s)'
          /\ Cardinality(Posters(s)) \in Nat /\ Cardinality(Posters(s)') \in Nat
          /\ Cardinality(Posters(s)) <= Cardinality(Posters(s)')
      BY <1>2, <2>1, PostersGrow, FS_CardinalityType
    <3>2. CASE summaries'[s] = summaries[s]
      BY <3>1, <3>2 DEF SummariesCounted, ReviewTypeOK
    <3>3. CASE summaries'[s] # summaries[s]
      <4>1. /\ s = c.sha /\ pc[c] = "post" /\ pc'[c] \notin NotPosted
            /\ summaries'[s] = summaries[s] + 1
        BY <1>1, <3>3, TaskPosts DEF ReviewTypeOK
      <4>2. c \in Posters(s)' /\ c \notin Posters(s)
        BY <1>2, <4>1 DEF Posters, ClaimsOf, NotPosted
      <4>3. Cardinality(Posters(s)) # Cardinality(Posters(s)')
        BY <3>1, <4>2, FS_Subset
      <4>. QED
        BY <3>1, <4>1, <4>3 DEF SummariesCounted, ReviewTypeOK
    <3>. QED
      BY <3>2, <3>3
  <2>3. \A s \in Shas : Cardinality(Posters(s)') <= attempt_count'[s]
                        /\ Cardinality(Posters(s)') \in Nat
    BY <1>2, <2>1, PostersGrow, FS_CardinalityType
  <2>4. \A s \in Shas : attempt_count'[s] \in 0..MaxAttempts
    BY DEF IInv, TypeOK
  <2>5. \A s \in Shas : summaries'[s] \in 0..MaxAttempts
    BY <2>2, <2>3, <2>4
  <2>6. DOMAIN summaries' = Shas /\ summaries' = [s \in Shas |-> summaries'[s]]
    BY TaskPosts DEF ReviewTypeOK
  <2>. QED
    BY <2>2, <2>5, <2>6 DEF SummariesCounted
<1>8. ReviewTypeOK'
  <2>1. \A d \in claims : pc'[d] \in CallStates
    BY <1>3, <1>4 DEF ReviewTypeOK
  <2>2. commented' \in [Shas -> BOOLEAN]
    BY TaskPosts
  <2>. QED
    BY <1>2, <1>4, <1>5, <1>6, <1>7, <2>1, <2>2 DEF ReviewTypeOK, IInv
<1>9. \A s \in Shas : summaries[s] > 0 => summaries'[s] > 0
  <2>1. UNCHANGED summaries \/ summaries' = [summaries EXCEPT ![c.sha] = @ + 1]
    BY TaskPosts
  <2>2. \A s \in Shas : summaries[s] \in Nat
    BY DEF ReviewTypeOK
  <2>3. \A s \in Shas : summaries'[s] \in {summaries[s], summaries[s] + 1}
    BY <2>1 DEF ReviewTypeOK
  <2>. QED
    BY <2>2, <2>3
<1>10. TaskProgress'
  <2>1. \A d \in commits' : d \in commits \/ (d = c /\ pc[c] \in {"commit", "fail"})
    BY TaskCalls DEF SetCheckRunId, FinalizeJob, ReleaseJob, vars
  <2>2. ASSUME NEW d \in claims
        PROVE  /\ pc'[d] \in {"comments", "conclude", "commit"} =>
                    summaries'[d.sha] > 0
               /\ pc'[d] = "commit" /\ d \in knows_run' =>
                    check_runs'[d.sha][Attempt(d)] \in Conclusions
               /\ d \in commits' => pc'[d] \in Over
    <3>1. CASE d # c
      BY <1>1, <1>4, <1>5, <1>6, <1>9, <2>1, <3>1 DEF TaskProgress
    <3>2. CASE d = c
      <4>1. c \in commits' => pc'[c] \in Over
        <5>1. CASE c \in commits
          BY <5>1, TaskMoves DEF TaskProgress
        <5>2. CASE c \notin commits /\ c \in commits'
          BY <5>2, CommittingEnds
        <5>. QED
          BY <5>1, <5>2
      <4>. QED
        BY <3>2, <4>1, TaskPosts, TaskPatches
    <3>. QED
      BY <3>1, <3>2
  <2>. QED
    BY <1>2, <2>2 DEF TaskProgress, Attempt
<1>11. SuccessIsVisible'
  <2>. SUFFICES ASSUME NEW d \in commits', status'[d.sha] = "SUCCESS"
                PROVE  /\ summaries'[d.sha] > 0
                       /\ d \in knows_run' =>
                            check_runs'[d.sha][Attempt(d)] \in Conclusions
    BY DEF SuccessIsVisible, Attempt
  <2>1. d \in claims /\ d.sha \in Shas
    BY <1>1, <1>2 DEF IInv, TypeOK
  <2>2. CASE d \in commits /\ status[d.sha] = "SUCCESS"
    <3>1. pc[d] \in Over
      BY <2>1, <2>2 DEF TaskProgress
    <3>2. d = c => pc[c] # "check"
      BY <3>1 DEF Over
    <3>. QED
      BY <1>5, <1>6, <1>9, <2>1, <2>2, <3>2 DEF SuccessIsVisible
  <2>3. CASE ~(d \in commits /\ status[d.sha] = "SUCCESS")
    <3>1. FinalizeJob(c, "SUCCESS") /\ pc[c] = "commit" /\ d = c
      BY <1>1, <2>1, <2>3, CommitTells
    <3>2. UNCHANGED <<knows_run, check_runs>>
      BY <3>1, TaskPatches
    <3>. QED
      BY <1>1, <1>9, <3>1, <3>2 DEF TaskProgress
  <2>. QED
    BY <2>2, <2>3
<1>. QED
  BY <1>7, <1>8, <1>10, <1>11

(* A new task. *)
LEMMA StartPreserves ==
  ASSUME ReviewInv, IInv', ClaimsCounted', NEW w \in Workers, NEW s \in Shas,
         Start(w, s)
  PROVE  ReviewInv'
<1>. DEFINE c == [sha |-> s, worker |-> w, fence |-> fence_token[s]]
<1>. USE DEF ReviewInv
<1>1. /\ status[s] = "pending"
      /\ claims' = claims \cup {c} /\ c.sha = s /\ c.fence = fence_token[s]
      /\ status' = [status EXCEPT ![s] = "processing"]
      /\ UNCHANGED <<commits, knows_run, notices, check_runs, summaries, commented>>
      /\ pc' = [d \in DOMAIN pc \cup {c} |-> IF d = c THEN "token" ELSE pc[d]]
  BY DEF Start, ClaimJob, Claimable, githubVars
<1>2. c \notin claims
  BY <1>1 DEF IInv, FenceHoldsJob, Results
<1>. HIDE DEF c
<1>3. /\ DOMAIN pc' = claims' /\ pc'[c] = "token"
      /\ \A d \in claims : pc'[d] = pc[d]
  BY <1>1, <1>2 DEF ReviewTypeOK
<1>4. ReviewTypeOK'
  BY <1>1, <1>3 DEF ReviewTypeOK, IInv, CallStates, GitHubCalls
<1>5. SummariesCounted'
  <2>1. ASSUME NEW t \in Shas
        PROVE  summaries[t] <= Cardinality(Posters(t)')
    <3>1. Posters(t)' = Posters(t)
      BY <1>1, <1>2, <1>3 DEF Posters, ClaimsOf, NotPosted
    <3>. QED
      BY <3>1 DEF SummariesCounted
  <2>. QED
    BY <1>1, <2>1 DEF SummariesCounted
<1>6. TaskProgress'
  <2>1. c \notin commits
    BY <1>2 DEF IInv, TypeOK
  <2>. QED
    BY <1>1, <1>3, <2>1 DEF TaskProgress, Attempt
<1>7. SuccessIsVisible'
  BY <1>1 DEF SuccessIsVisible, IInv, TypeOK, Attempt, Claim
<1>. QED
  BY <1>4, <1>5, <1>6, <1>7

(* reconcile_stale_jobs returns rows that name a check run and a new       *)
(* status.                                                                 *)
LEMMA NoticesTyped ==
  ASSUME ReviewInv, NEW R \in SUBSET Shas, Reconcile(R)
  PROVE  notices' \subseteq Notice
<1>1. \A s \in R : Swept(R)[s] \in {"pending", "dead"}
  BY DEF Swept
<1>2. \A s \in R : github_check_run_id[s] # 0 => github_check_run_id[s] \in 1..MaxAttempts
  BY DEF ReviewInv, IInv, TypeOK
<1>. QED
  BY <1>1, <1>2 DEF Reconcile, ReviewInv, ReviewTypeOK, Notice

(* The steps that are of no task: they post nothing, commit nothing, make  *)
(* no job a success and may only conclude check runs.                      *)
LEMMA OtherStepsPreserve ==
  ASSUME ReviewInv, IInv', ClaimsCounted',
         \/ \E c \in claims : Beat(c)
         \/ \E R \in SUBSET Shas : Reconcile(R)
         \/ \E n \in notices : Notify(n)
         \/ ReviewEnvironment
         \/ \E s \in Shas : Enqueue(s)
         \/ UNCHANGED reviewVars
  PROVE  ReviewInv'
<1>. USE DEF ReviewInv
<1>1. /\ UNCHANGED <<pc, knows_run, summaries, commented, claims, commits>>
      /\ \A s \in Shas : status'[s] = "SUCCESS" => status[s] = "SUCCESS"
  <2>1. CASE (\E c \in claims : Beat(c)) \/ ReviewEnvironment
    BY <2>1 DEF Beat, ReviewEnvironment, UpdateHeartbeat, Environment,
       BecomeDue, BecomeAged, BeatExpires, DbRestart, jobVars, githubVars
  <2>2. ASSUME NEW R \in SUBSET Shas, Reconcile(R)
        PROVE  <1>1
    <3>1. ReconcileStaleJobs(R) /\ UNCHANGED <<pc, knows_run, summaries, commented>>
      BY <2>2 DEF Reconcile, githubVars
    <3>2. UNCHANGED <<claims, commits>>
      BY <3>1 DEF ReconcileStaleJobs
    <3>3. \A s \in Shas : status'[s] = "SUCCESS" => status[s] = "SUCCESS"
      BY <3>1, TakenByReconcile, LeftByReconcile
    <3>. QED
      BY <3>1, <3>2, <3>3
  <2>3. CASE \/ \E n \in notices : Notify(n)
             \/ UNCHANGED reviewVars
    BY <2>3 DEF Notify, queueVars, vars, jobVars, reviewVars, githubVars
  <2>4. CASE \E s \in Shas : Enqueue(s)
    BY <2>4 DEF Enqueue, EnqueueIfNew, IInv, TypeOK, githubVars
  <2>. QED
    BY <2>1, <2>2, <2>3, <2>4
<1>2. notices' \subseteq Notice
  BY NoticesTyped DEF Beat, Notify, ReviewEnvironment, Enqueue, reviewVars, ReviewTypeOK
<1>3. /\ check_runs' \in [Shas -> [1..MaxAttempts ->
                              {"none", "in_progress"} \cup Conclusions]]
      /\ \A s \in Shas, m \in 1..MaxAttempts :
           check_runs[s][m] \in Conclusions => check_runs'[s][m] \in Conclusions
  <2>1. CASE UNCHANGED check_runs
    BY <2>1 DEF ReviewTypeOK
  <2>2. ASSUME NEW n \in notices, NEW x \in Conclusions, SetRun(n.sha, n.run, x)
        PROVE  <1>3
    <3>1. /\ n.sha \in Shas /\ n.run \in 1..MaxAttempts
          /\ x \in {"in_progress"} \cup Conclusions
          /\ ReviewTypeOK
      BY DEF ReviewTypeOK, Notice
    <3>2. /\ check_runs' \in [Shas -> [1..MaxAttempts ->
                                  {"none", "in_progress"} \cup Conclusions]]
          /\ check_runs'[n.sha][n.run] = x
          /\ \A t \in Shas, m \in 1..MaxAttempts :
               check_runs'[t][m] # check_runs[t][m] => t = n.sha /\ m = n.run
      BY ONLY <2>2, <3>1, SetRunEffect
    <3>. QED
      BY <3>1, <3>2
  <2>3. \/ UNCHANGED check_runs
        \/ \E n \in notices, x \in Conclusions : SetRun(n.sha, n.run, x)
    BY DEF Beat, Reconcile, Notify, ReviewEnvironment, Enqueue, reviewVars,
       githubVars, Conclusions
  <2>. QED
    BY <2>1, <2>2, <2>3
<1>4. ReviewTypeOK'
  BY <1>1, <1>2, <1>3 DEF ReviewTypeOK, IInv
<1>5. SummariesCounted'
  BY <1>1 DEF SummariesCounted, Posters, ClaimsOf
<1>6. TaskProgress'
  BY <1>1, <1>3, ClaimTyped DEF TaskProgress, Attempt
<1>7. SuccessIsVisible'
  <2>1. \A c \in commits : c.sha \in Shas /\ Attempt(c) \in 1..MaxAttempts
    BY ClaimTyped DEF IInv, TypeOK
  <2>. QED
    BY <1>1, <1>3, <2>1 DEF SuccessIsVisible, Attempt
<1>. QED
  BY <1>4, <1>5, <1>6, <1>7

(* Every step preserves the inductive invariant. *)
LEMMA ReviewNextPreserves == ReviewInv /\ [ReviewNext]_reviewVars => ReviewInv'
<1>. SUFFICES ASSUME ReviewInv, [ReviewNext]_reviewVars
              PROVE  ReviewInv'
  OBVIOUS
<1>1. IInv' /\ ClaimsCounted'
  BY ReviewQueueStep, NextPreserves, ClaimsCountedKept DEF ReviewInv
<1>2. ASSUME NEW s \in Shas, NEW w \in Workers, Start(w, s)
      PROVE  ReviewInv'
  BY <1>1, <1>2, StartPreserves
<1>3. ASSUME NEW c \in claims, Task(c) \/ Die(c)
      PROVE  ReviewInv'
  BY <1>1, <1>3, TaskPreserves
<1>4. CASE \/ \E c \in claims : Beat(c)
           \/ \E R \in SUBSET Shas : Reconcile(R)
           \/ \E n \in notices : Notify(n)
           \/ ReviewEnvironment
           \/ \E s \in Shas : Enqueue(s)
           \/ UNCHANGED reviewVars
  BY <1>1, <1>4, OtherStepsPreserve
<1>. QED
  BY <1>2, <1>3, <1>4 DEF ReviewNext, Work

-----------------------------------------------------------------------------
(* The inductive invariant holds in every reachable state. *)
THEOREM ReviewInvariance == ReviewSpec => []ReviewInv
  BY InitReviewInv, ReviewNextPreserves, PTL DEF ReviewSpec

(* The type invariant; in particular every commit has at most max_attempts *)
(* summaries and notices name check runs that exist, whatever calls fail.  *)
THEOREM ReviewTypeCorrect == ReviewSpec => []ReviewTypeOK
<1>1. ReviewInv => ReviewTypeOK
  BY DEF ReviewInv
<1>. QED
  BY <1>1, ReviewInvariance, PTL

(* The reviews implement the queue's specification. *)
THEOREM ReviewImplementsQueue == ReviewSpec => QueueSpec
<1>1. ReviewInit => Init
  BY DEF ReviewInit
<1>2. ReviewInv /\ [ReviewNext]_reviewVars => [Next]_vars
  BY ReviewQueueStep DEF ReviewInv
<1>. QED
  BY <1>1, <1>2, ReviewInvariance, PTL DEF ReviewSpec, QueueSpec, Spec

(* A job recorded as SUCCESS has its review on GitHub and a concluded      *)
(* check run, whatever calls fail, tasks die or zombies write late.        *)
THEOREM SuccessVisible == ReviewSpec => []SuccessIsVisible
<1>1. ReviewInv => SuccessIsVisible
  BY DEF ReviewInv
<1>. QED
  BY <1>1, ReviewInvariance, PTL
=============================================================================
