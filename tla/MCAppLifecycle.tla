--------------------------- MODULE MCAppLifecycle ---------------------------
(* AppLifecycle for TLC. *)
EXTENDS AppLifecycle, TLC

CallerSymmetry == Permutations(Caller)
=============================================================================
