---------------------------- MODULE MCCertStore ----------------------------
(* CertStore for TLC. *)
EXTENDS CertStore, TLC

CallerSymmetry == Permutations(Caller)
=============================================================================
