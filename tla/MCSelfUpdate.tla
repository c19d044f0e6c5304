---------------------------- MODULE MCSelfUpdate ----------------------------
(* SelfUpdate, with Config, for TLC: this build, which has no counted      *)
(* migration yet, and later ones with one and with two; old releases       *)
(* before the first legacy migration, between two of them, and with all of *)
(* them.                                                                   *)
EXTENDS SelfUpdate, TLC

MCBuilds == {0, 1, 2}
MCOldReleases == {0, 6, Len(Versions)}
=============================================================================
