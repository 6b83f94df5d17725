------------------------------ MODULE Sorting -------------------------------
(***************************************************************************)
(* Python's sorted(): a stable sort.  The order is given as the pairs of   *)
(* positions of which the first has the smaller key.                       *)
(***************************************************************************)
EXTENDS Naturals, FiniteSets

Pairs(s) == (DOMAIN s) \X (DOMAIN s)

(* Position k goes before position j: its key is smaller, or the same and  *)
(* k is earlier.                                                           *)
Precedes(smaller, k, j) ==
    \/ <<k, j>> \in smaller
    \/ <<j, k>> \notin smaller /\ k < j

StableSort(s, smaller) ==
    LET rank(j) == Cardinality({k \in DOMAIN s : Precedes(smaller, k, j)})
    IN  [i \in DOMAIN s |-> s[CHOOSE j \in DOMAIN s : rank(j) = i - 1]]
=============================================================================
