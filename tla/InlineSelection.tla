-------------------------- MODULE InlineSelection ---------------------------
(***************************************************************************)
(* _select_inline_comments of app/worker.py: which of the agents' comments *)
(* are posted on lines of the diff.  A comment has a path, a line, its     *)
(* severity's rank, whether it suggests a fix, and the length of its body. *)
(***************************************************************************)
EXTENDS Integers, Sequences, SequencesExt, Sorting

CONSTANTS
    REVIEW_MIN_INLINE_SEVERITY,   \* as a rank: 0 INFO, 1 WARNING, 2 CRITICAL
    REVIEW_MAX_INLINE_COMMENTS

ASSUME InlineAssumption ==
    REVIEW_MIN_INLINE_SEVERITY \in 0..2 /\ REVIEW_MAX_INLINE_COMMENTS \in Nat

Comment == [path : STRING, line : Int, severity : 0..2, fix : BOOLEAN,
            length : Nat]

Candidate(c) == c.severity >= REVIEW_MIN_INLINE_SEVERITY

(* The sort key: severity, then a fix, then len(body) negated, which in a  *)
(* descending sort puts the shorter body first.  The comment above the     *)
(* sort wants the "substantive explanation" first.                         *)
Outranks(c, d) ==
    \/ c.severity > d.severity
    \/ c.severity = d.severity /\ c.fix /\ ~d.fix
    \/ c.severity = d.severity /\ c.fix = d.fix /\ c.length < d.length

(* What that comment and the sort key agree on. *)
MoreSerious(c, d) ==
    \/ c.severity > d.severity
    \/ c.severity = d.severity /\ c.fix /\ ~d.fix

InArrivalOrder(comments) == comments
Sorted(comments) ==
    StableSort(comments, {p \in Pairs(comments) :
                            Outranks(comments[p[1]], comments[p[2]])})

Near(c, d) ==
    /\ c.path = d.path
    /\ c.line - d.line \in -5..5

(* The loop over the sorted comments; those that are no candidates are     *)
(* passed over here, which leaves the order of the others as it is.  The   *)
(* limit is tested after a comment was added, so one is always taken.      *)
Full(selected) ==
    selected # <<>> /\ Len(selected) >= REVIEW_MAX_INLINE_COMMENTS
Take(selected, c) ==
    IF \/ Full(selected) \/ ~Candidate(c)
       \/ \E i \in DOMAIN selected : Near(selected[i], c)
      THEN selected ELSE Append(selected, c)
Taken(comments) == FoldLeft(Take, <<>>, comments)

SelectInlineComments(comments) == Taken(Sorted(comments))
=============================================================================
