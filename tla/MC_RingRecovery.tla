--------------------------- MODULE MC_RingRecovery ---------------------------
(* RingRecovery with version-1 and version-2 rings on disk.                *)
EXTENDS RingRecovery

MCVersions == {1, 2}
MCModes == {0, 1, 2}
MCMoveOnly == {1}
=============================================================================
