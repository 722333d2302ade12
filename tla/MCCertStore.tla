---------------------------- MODULE MCCertStore ----------------------------
(* Finite instances of CertStore for TLC. *)
EXTENDS CertStore, TLC

\* Processes are interchangeable, and so are organizations (model values).
Symmetry == Permutations(Procs) \cup Permutations(Orgs)
=============================================================================
