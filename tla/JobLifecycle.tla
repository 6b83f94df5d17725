---------------------------- MODULE JobLifecycle ----------------------------
(***************************************************************************)
(* What the job queue promises its users, without tokens, heartbeats and   *)
(* clocks: each commit is a job that is handed to one worker at a time, at *)
(* most MaxAttempts times, and whose result is written by the worker that  *)
(* holds it, during the last attempt.  JobQueue implements it.             *)
(***************************************************************************)
EXTENDS Naturals

CONSTANTS Shas, Workers, MaxAttempts, None

VARIABLE job    \* the job of each commit

Results == {"SUCCESS", "FAILURE"}

(* A job that nobody has submitted. *)
Unsubmitted ==
    [state |-> "absent", owner |-> None, attempts |-> 0, authors |-> {}]

Init == job = [s \in Shas |-> Unsubmitted]

-----------------------------------------------------------------------------
(* The steps of one job, from j to k.  Jobs move independently, and one    *)
(* step of the queue may move several.                                     *)

Submit(j, k) ==
    /\ j.state = "absent"
    /\ k = [j EXCEPT !.state = "waiting"]

Take(j, k) ==
    /\ j.state = "waiting"
    /\ j.attempts < MaxAttempts
    /\ \E w \in Workers :
         k = [state |-> "held", owner |-> w,
              attempts |-> j.attempts + 1, authors |-> j.authors]

(* The holder gives the job up or is taken for dead; whoever holds it next *)
(* does so in a new attempt.                                               *)
GiveBack(j, k) ==
    /\ j.state = "held"
    /\ \E next \in {"waiting", "dead"} :
         k = [state |-> next, owner |-> None,
              attempts |-> j.attempts, authors |-> j.authors]

(* The holder may change its mind about the result, but nobody else may    *)
(* write one.                                                              *)
Finish(j, k) ==
    /\ j.state \in {"held"} \cup Results
    /\ \E result \in Results :
         k = [state |-> result, owner |-> j.owner, attempts |-> j.attempts,
              authors |-> {[worker |-> j.owner, attempt |-> j.attempts]}]

Bury(j, k) ==
    /\ j.state = "waiting"
    /\ k = [j EXCEPT !.state = "dead"]

Step(j, k) ==
    Submit(j, k) \/ Take(j, k) \/ GiveBack(j, k) \/ Finish(j, k) \/ Bury(j, k)

Next ==
    /\ job' = [s \in Shas |-> job'[s]]
    /\ \A s \in Shas : job'[s] = job[s] \/ Step(job[s], job'[s])

Spec == Init /\ [][Next]_job
=============================================================================
