---------------------------- MODULE ReviewInput -----------------------------
(***************************************************************************)
(* What a review is made of: which files of a pull request get their full  *)
(* source (_attach_source of app/services/github.py) and which chunks are  *)
(* cut from them (_build_review_chunks of app/services/ai.py).             *)
(*                                                                         *)
(* A file has                                                              *)
(*   reviewable  _is_reviewable_file of its name                           *)
(*   priority    _file_review_priority of its name and patch               *)
(*   patch       whether GitHub sent a patch                               *)
(*   changed     its status is not "removed" and its changes are not 0     *)
(*   parts       how many chunks _chunk_by_ast makes of its full source;   *)
(*               none of one that parses to no nodes, a blank one say      *)
(*   content     whether its full source was attached                      *)
(***************************************************************************)
EXTENDS Naturals, Sequences, SequencesExt, FiniteSetsExt, Sorting

CONSTANTS REVIEW_MAX_CHUNKS, MAX_SOURCE_FETCHES

ASSUME BudgetsAssumption == {REVIEW_MAX_CHUNKS, MAX_SOURCE_FETCHES} \subseteq Nat

File == [reviewable : BOOLEAN, priority : Nat, patch : BOOLEAN,
         changed : BOOLEAN, parts : Nat, content : BOOLEAN]

(* The files that _attach_source asks GitHub for, in the order of the API. *)
Fetchable(f) == f.patch /\ f.changed

(* sorted(..., key = _file_review_priority, reverse = True) *)
ApiOrder(files) == files
Riskier(files) ==
    {p \in Pairs(files) :
       files[p[1]].priority > files[p[2]].priority}
Ranked(files) == StableSort(files, Riskier(files))

(* The chunks of one file: of its full source if there is one, be it none, *)
(* else the patch as it is, else none.                                     *)
Produced(f) ==
    LET chunk == [priority |-> f.priority, scoped |-> f.content]
    IN  CASE f.content          -> [i \in 1..f.parts |-> chunk]
          [] ~f.content /\ f.patch -> <<chunk>>
          [] OTHER              -> <<>>

MaxChunks == Max({REVIEW_MAX_CHUNKS, 1})

(* The loop over the ranked files.  Files that are not to be reviewed are  *)
(* passed over here, which leaves the order of the others as it is.        *)
Extend(chunks, f) ==
    IF Len(chunks) >= MaxChunks \/ ~f.reviewable
      THEN chunks ELSE chunks \o Produced(f)
AllChunks(files) == FoldLeft(Extend, <<>>, files)

BuildReviewChunks(files) ==
    LET all == AllChunks(Ranked(files))
    IN  SubSeq(all, 1, Min({Len(all), MaxChunks}))
=============================================================================
