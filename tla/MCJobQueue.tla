----------------------------- MODULE MCJobQueue -----------------------------
(* Instances of JobQueue for TLC.  Commits and workers are interchangeable. *)
EXTENDS JobQueue, TLC

Symmetry == Permutations(Workers) \cup Permutations(Shas)
=============================================================================
