---------------------------- MODULE MC_ClientStats ----------------------------
(* ClientStats for TLC: the bounds are given in the .cfg files.            *)
EXTENDS ClientStats
=============================================================================
