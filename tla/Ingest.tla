------------------------------- MODULE Ingest -------------------------------
(***************************************************************************)
(* The webhook endpoint of app/main.py around the reviews: deliveries of   *)
(* pull_request events, with the 3 s timeout on enqueue_if_new and         *)
(* GitHub's redeliveries, and the override comments (/revix-approve and    *)
(* its synonyms) that set a check run to success while attempts, their     *)
(* conclusions and the notices of reconciliation go on.                    *)
(***************************************************************************)
EXTENDS ReviewJob

VARIABLES
    hook,        \* the last pull_request event of each commit: none yet, the
                 \* handler awaiting enqueue_if_new, or its answer, where
                 \* "ignored" is {"msg": "accepted"} to another action
    override,    \* the override handler between get_check_run_id and the
                 \* PATCH: the run it read, and whether the review was over
    overridden   \* history: the commits whose override came after the review

ingestVars == <<hook, override, overridden>>
allVars == <<reviewVars, ingestVars>>

HookStates == {"none", "ignored", "enqueue", "accepted", "exists", "failed"}

IngestTypeOK ==
    /\ ReviewTypeOK
    /\ hook \in [Shas -> HookStates]
    /\ override \in [Shas -> {None} \cup
                             [run : 1..MaxAttempts, settled : BOOLEAN]]
    /\ overridden \subseteq Shas

IngestInit ==
    /\ ReviewInit
    /\ hook = [s \in Shas |-> "none"]
    /\ override = [s \in Shas |-> None]
    /\ overridden = {}

Answer(s, a) == hook' = [hook EXCEPT ![s] = a]

(* A pull_request event arrives, for the first time or again.  Without a   *)
(* valid signature it is refused (401) before anything is read.  Only the  *)
(* actions "opened" and "synchronize" enqueue; a "closed" or "labeled" is  *)
(* answered "accepted" at once and leaves no trace.                        *)
Deliver(s) ==
    /\ hook[s] # "enqueue"
    /\ Answer(s, "enqueue") \/ Answer(s, "ignored") \/ Answer(s, "failed")
    /\ UNCHANGED <<reviewVars, override, overridden>>

(* enqueue_if_new returned within the timeout; it returns False only when  *)
(* it found a review record, so a job that exists already is accepted.     *)
EnqueueInTime(s) ==
    /\ hook[s] = "enqueue"
    /\ Enqueue(s)
    /\ Answer(s, IF review_records[s] = None THEN "accepted" ELSE "exists")
    /\ UNCHANGED <<override, overridden>>

(* The timeout (503) or a database error (500) cuts enqueue_if_new off,    *)
(* before its transaction committed or after.                              *)
TimeoutAccepted(s) ==
    /\ hook[s] = "enqueue"
    /\ Enqueue(s) \/ UNCHANGED reviewVars
    /\ Answer(s, "accepted")
    /\ UNCHANGED <<override, overridden>>
EnqueueCutOff(s) ==
    /\ hook[s] = "enqueue"
    /\ Enqueue(s) \/ UNCHANGED reviewVars
    /\ Answer(s, "failed")
    /\ UNCHANGED <<override, overridden>>

(* No attempt will touch the check runs of the commit any more, and all    *)
(* notices about it were sent.                                             *)
ReviewOver(s) ==
    /\ status[s] \in Terminal
    /\ \A c \in claims : c.sha = s => ~Live(c)
    /\ \A n \in notices : n.sha # s

(* An override comment by an owner, member or collaborator on the pull     *)
(* request whose head is s: after get_token and fetch_pull_request,        *)
(* get_check_run_id reads the run named in the job's row, if any.          *)
ReadCheckRun(s) ==
    /\ override[s] = None
    /\ github_check_run_id[s] # 0
    /\ override' = [override EXCEPT ![s] = [run |-> github_check_run_id[s],
                                           settled |-> ReviewOver(s)]]
    /\ UNCHANGED <<reviewVars, hook, overridden>>

(* update_check_run("success") for the run that was read; errors are       *)
(* logged.                                                                 *)
PatchCheckRun(s) ==
    /\ override[s] # None
    /\ \/ /\ SetRun(s, override[s].run, "success")
          /\ overridden' = IF override[s].settled THEN overridden \cup {s}
                                                 ELSE overridden
       \/ "conclude" \in Failing /\ UNCHANGED <<check_runs, overridden>>
    /\ override' = [override EXCEPT ![s] = None]
    /\ UNCHANGED <<queueVars, pc, knows_run, notices, summaries, commented, hook>>

IngestNext ==
    \/ \E s \in Shas : \/ Deliver(s) \/ EnqueueInTime(s) \/ EnqueueCutOff(s)
                       \/ ReadCheckRun(s) \/ PatchCheckRun(s)
    \/ Work /\ UNCHANGED ingestVars

IngestSpec == IngestInit /\ [][IngestNext]_allVars

-----------------------------------------------------------------------------
(***************************************************************************)
(* Properties.                                                             *)
(***************************************************************************)

(* An opened or synchronize event is answered "accepted" only when its     *)
(* commit has a job, and "already exists" only when it has a review, also  *)
(* after timeouts that struck while enqueue_if_new committed and           *)
(* deliveries that were repeated.  Of events with another action, which    *)
(* are told "accepted" too, nothing is claimed.                            *)
AnswersTrue ==
    \A s \in Shas :
      /\ hook[s] = "accepted" => status[s] # "absent"
      /\ hook[s] = "exists" => review_records[s] # None

(* A manual approval given after the review was over stays: no late        *)
(* conclusion, notice or new attempt turns the check run that the job      *)
(* names away from success again, whatever events are delivered again.     *)
OverrideStands ==
    \A s \in overridden :
      check_runs[s][github_check_run_id[s]] = "success"
=============================================================================
