----------------------------- MODULE RepoGraph ------------------------------
(***************************************************************************)
(* persist_repo_graph of app/services/db/graph.py: each review replaces    *)
(* the rows of its repository in repo_symbols and repo_references, in one  *)
(* transaction at READ COMMITTED.  A DELETE takes a snapshot of its own,   *)
(* waits for the transactions that are deleting rows it sees, and then     *)
(* deletes those that are still there; rows that were committed after its  *)
(* snapshot stay.  The rows of one COPY are alike and named after the      *)
(* review that wrote them.                                                 *)
(***************************************************************************)
EXTENDS Naturals

CONSTANTS
    Reviews,    \* concurrent reviews of one repository
    Earlier     \* a review that persisted its index before them

VARIABLES
    symbols,    \* committed rows of repo_symbols: the reviews that wrote them
    references, \* committed rows of repo_references
    begun,      \* how many DELETEs of each transaction have begun
    waiting,    \* the transactions whose last DELETE has not ended
    ended,      \* "open", "committed" or "aborted"
    snapshot,   \* what each DELETE of each transaction has seen
    deleted,    \* the rows that each transaction has deleted
    wrote       \* the tables for which a review's index has rows

graphVars == <<symbols, references, begun, waiting, ended, snapshot, deleted,
               wrote>>

Writers == Reviews \cup {Earlier}
Tables == {"symbols", "references"}
Rows(t) == IF t = "symbols" THEN symbols ELSE references

(* The order of the two DELETEs. *)
ReferencesFirst == [i \in 1..2 |-> IF i = 1 THEN "references" ELSE "symbols"]
DeleteOrder == [i \in 1..2 |-> IF i = 1 THEN "symbols" ELSE "references"]

TypeOK ==
    /\ symbols \subseteq Writers
    /\ references \subseteq Writers
    /\ begun \in [Reviews -> 0..2]
    /\ waiting \subseteq Reviews
    /\ ended \in [Reviews -> {"open", "committed", "aborted"}]
    /\ snapshot \in [Reviews -> [Tables -> SUBSET Writers]]
    /\ deleted \in [Reviews -> [Tables -> SUBSET Writers]]
    /\ wrote \in [Writers -> SUBSET Tables]

Init ==
    /\ symbols = {Earlier}
    /\ references = {Earlier}
    /\ begun = [x \in Reviews |-> 0]
    /\ waiting = {}
    /\ ended = [x \in Reviews |-> "open"]
    /\ snapshot = [x \in Reviews |-> [t \in Tables |-> {}]]
    /\ deleted = [x \in Reviews |-> [t \in Tables |-> {}]]
    /\ wrote = [x \in Writers |-> IF x = Earlier THEN Tables ELSE {}]

(* The next DELETE begins: its snapshot is what is committed now. *)
BeginDelete(x) ==
    /\ ended[x] = "open" /\ x \notin waiting /\ begun[x] < 2
    /\ LET t == DeleteOrder[begun[x] + 1]
       IN  snapshot' = [snapshot EXCEPT ![x][t] = Rows(t)]
    /\ begun' = [begun EXCEPT ![x] = @ + 1]
    /\ waiting' = waiting \cup {x}
    /\ UNCHANGED <<symbols, references, ended, deleted, wrote>>

(* The rows it saw that another transaction has deleted but not committed. *)
Locked(x, t) ==
    {r \in snapshot[x][t] :
       \E y \in Reviews \ {x} : ended[y] = "open" /\ r \in deleted[y][t]}

(* It ends when nobody holds such a row. *)
DeleteSkippingLocked(x) ==
    /\ x \in waiting
    /\ LET t == DeleteOrder[begun[x]]
       IN  deleted' = [deleted EXCEPT ![x][t] =
                         (snapshot[x][t] \cap Rows(t)) \ Locked(x, t)]
    /\ waiting' = waiting \ {x}
    /\ UNCHANGED <<symbols, references, begun, ended, snapshot, wrote>>
EndDelete(x) ==
    /\ x \in waiting
    /\ LET t == DeleteOrder[begun[x]]
       IN  /\ Locked(x, t) = {}
           /\ deleted' = [deleted EXCEPT ![x][t] = snapshot[x][t] \cap Rows(t)]
    /\ waiting' = waiting \ {x}
    /\ UNCHANGED <<symbols, references, begun, ended, snapshot, wrote>>

(* The COPYs of the symbols and references that the index has, and COMMIT. *)
(* process_job makes the call only with an index that is not empty.        *)
CopyAndCommit(x) ==
    /\ ended[x] = "open" /\ x \notin waiting /\ begun[x] = 2
    /\ \E W \in SUBSET Tables \ {{}} :
         LET after(t) == (Rows(t) \ deleted[x][t]) \cup {y \in {x} : t \in W}
         IN  /\ symbols' = after("symbols")
             /\ references' = after("references")
             /\ wrote' = [wrote EXCEPT ![x] = W]
    /\ ended' = [ended EXCEPT ![x] = "committed"]
    /\ UNCHANGED <<begun, waiting, snapshot, deleted>>

(* An error, the cancellation of the task or the death of the worker, at   *)
(* any point of the transaction: nothing of it remains.                    *)
Abort(x) ==
    /\ ended[x] = "open" /\ begun[x] > 0
    /\ ended' = [ended EXCEPT ![x] = "aborted"]
    /\ waiting' = waiting \ {x}
    /\ UNCHANGED <<symbols, references, begun, snapshot, deleted, wrote>>

Persist(x) == BeginDelete(x) \/ EndDelete(x) \/ CopyAndCommit(x) \/ Abort(x)

Spec == Init /\ [][\E x \in Reviews : Persist(x)]_graphVars

-----------------------------------------------------------------------------
(* Rows that a review saw when it deleted the old index are gone once it   *)
(* has committed, and stay gone, also when another transaction was         *)
(* deleting them at the same time and then aborted.  (Reviews that overlap *)
(* may leave the union of their own rows.)                                 *)
NoSupersededRows ==
    \A x \in Reviews, t \in Tables :
      ended[x] = "committed" => snapshot[x][t] \cap Rows(t) = {}

(* The references of an index never remain in the graph after its symbols  *)
(* were deleted, whichever of the concurrent transactions deleted them.    *)
(* (Symbols may outlive their references, when the index they belong to    *)
(* was committed between the two DELETEs of another review.)               *)
ReferencesHaveSymbols ==
    \A x \in references : "symbols" \in wrote[x] => x \in symbols
=============================================================================
