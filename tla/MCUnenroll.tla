------------------------------ MODULE MCUnenroll ------------------------------
(* Finite instances of Unenroll for TLC. *)
EXTENDS Unenroll, TLC

\* Organizations are interchangeable (model values).
Symmetry == Permutations(Orgs)
=============================================================================
