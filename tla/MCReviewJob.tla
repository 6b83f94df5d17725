---------------------------- MODULE MCReviewJob -----------------------------
(* Instances of ReviewJob for TLC.  Workers are interchangeable. *)
EXTENDS ReviewJob, TLC

Symmetry == Permutations(Workers)
=============================================================================
