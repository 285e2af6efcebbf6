----------------------------- MODULE MC_IPPolicy -----------------------------
(* IPPolicy on three-bit IPv4 words and two-byte, two-bit IPv6 addresses.  *)
EXTENDS IPPolicy

MCMatchOnly == {"matchips"}
MCAllLists == {"matchips", "rejectips", "writeips", "trustedips", "limitips"}
=============================================================================
