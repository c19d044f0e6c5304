----------------------------- MODULE MCCertGen -----------------------------
(* CertGen for TLC. *)
EXTENDS CertGen

Symmetry == Permutations(Thread) \cup Permutations(Host)
=============================================================================
