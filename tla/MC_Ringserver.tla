--------------------------- MODULE MC_Ringserver ---------------------------
(* Small instances of Ringserver for TLC.  The addresses play the roles   *)
(* the IP lists give them: aw has write permission, ao is an ordinary     *)
(* matched address, ar is on the reject list and ax is outside the match  *)
(* list.                                                                  *)
EXTENDS Ringserver

CONSTANTS l1, l2, c1, c2, c3, aw, ao, ar, ax

MCAddrs     == {aw, ao, ar, ax}
MCMatchIPs  == {aw, ao, ar}
MCRejectIPs == {ar}
MCWriteIPs  == {aw}

OneListener  == {l1}
TwoListeners == {l1, l2}
ThreeClients == {c1, c2, c3}
TwoClients   == {c1, c2}
AdmittedAddrs == {aw, ao}
OneClient    == {c1}
OneAddr      == {ao}

=============================================================================
