------------------------------ MODULE IPPolicy ------------------------------
(***************************************************************************)
(* The IP policy of ringserver: MatchIP (src/src/ringserver.c) over the    *)
(* IPNet lists of the configuration, and the decisions ListenThread takes *)
(* from it for each accepted connection (match, reject, write, trusted,   *)
(* stream limit).                                                          *)
(*                                                                         *)
(* Addresses are scaled down: an IPv4 address is one word of V4Bits bits  *)
(* (s_addr, compared with one AND), an IPv6 address V6Bytes bytes of      *)
(* ByteBits bits (s6_addr, compared byte by byte).  A struct sockaddr has *)
(* both views, as the storage of sockaddr_in and sockaddr_in6 overlaps;   *)
(* sa_family says which one MatchIP reads.                                 *)
(*                                                                         *)
(* The configuration, the CIDR entries and the reader that builds the    *)
(* lists are in IPPolicyConfig.                                            *)
(***************************************************************************)
EXTENDS IPPolicyConfig, FiniteSetsExt, Bitwise

(* A struct sockaddr of the family's view only: MatchIP and ClientIPCount *)
(* read nothing else.                                                     *)
Sockaddrs ==
  {[family |-> INET, v4 |-> w, v6 |-> ZeroV6] : w \in V4Words}
  \cup {[family |-> INET6, v4 |-> 0, v6 |-> b] : b \in V6Words}
  \cup {[family |-> NOTIP, v4 |-> 0, v6 |-> ZeroV6]}

(* The storage of a listener's addr_storage as the stack left it.         *)
ZeroedStorage == [family |-> NOTIP, v4 |-> 0, v6 |-> ZeroV6]

(* Byte k (most significant first) of an IPv6 address given as a number.  *)
ByteOf(x, k) == (x \div 2^(ByteBits * (V6Bytes - 1 - k))) % 2^ByteBits

(* The IPNet the parser stores for a CIDR entry.                          *)
IPNetOf(c) ==
  LET m == 2^Width(c.family) - 2^(Width(c.family) - c.len)
  IN  IF c.family = INET
      THEN [family |-> INET, net4 |-> c.prefix, mask4 |-> m,
            net6 |-> ZeroV6, mask6 |-> ZeroV6]
      ELSE [family |-> INET6, net4 |-> 0, mask4 |-> 0,
            net6 |-> [k \in 0 .. (V6Bytes - 1) |-> ByteOf(c.prefix, k)],
            mask6 |-> [k \in 0 .. (V6Bytes - 1) |-> ByteOf(m, k)]]

NetList(cl) == [i \in 1 .. Len(cl) |-> IPNetOf(cl[i])]

(* A comparison that tests only the first byte of an IPv6 address.      *)
NetMatchesFirstByte(net, a) ==
  \/ /\ a.family = INET /\ net.family = INET
     /\ (a.v4 & net.mask4) = net.net4
  \/ /\ a.family = INET6 /\ net.family = INET6
     /\ (a.v6[0] & net.mask6[0]) = net.net6[0]

(* Lines 1223-1246: one list entry against the address.                   *)
NetMatches(net, a) ==
  \/ /\ a.family = INET /\ net.family = INET
     /\ (a.v4 & net.mask4) = net.net4
  \/ /\ a.family = INET6 /\ net.family = INET6
     /\ \A k \in 0 .. (V6Bytes - 1) : (a.v6[k] & net.mask6[k]) = net.net6[k]

(* MatchIP (lines 1205-1252): the position of the first entry that        *)
(* matches, 0 (NULL) if none does or the address is not IPv4 or IPv6.     *)
MatchIP(list, a) ==
  LET hits == {i \in 1 .. Len(list) : NetMatches(list[i], a)}
  IN  IF a.family \notin IPFamilies \/ hits = {} THEN 0 ELSE Min(hits)

(* Reference: an address lies in a CIDR block when its first len bits are *)
(* those of the prefix; the first block of the list holding it wins.      *)
AddrValue(a) ==
  IF a.family = INET THEN a.v4
  ELSE LET f[k \in 0 .. V6Bytes] ==
             IF k = 0 THEN 0 ELSE f[k - 1] * 2^ByteBits + a.v6[k - 1]
       IN  f[V6Bytes]

InBlock(c, a) ==
  /\ c.family = a.family
  /\ AddrValue(a) \div 2^(Width(c.family) - c.len)
       = c.prefix \div 2^(Width(c.family) - c.len)

RefMatch(cl, a) ==
  LET hits == {i \in 1 .. Len(cl) : InBlock(cl[i], a)}
  IN  IF hits = {} THEN 0 ELSE Min(hits)

(* The policy ListenThread applies to a connection (lines 896-912 and     *)
(* 980-1007); a list that is not configured is empty.  The connection     *)
(* caps are modelled in Ringserver.                                       *)
Decision(lists, a) ==
  LET M(n) == MatchIP(NetList(lists[n]), a)
  IN  [admit   |-> (lists["matchips"] = <<>> \/ M("matchips") # 0)
                   /\ M("rejectips") = 0,
       write   |-> M("writeips") # 0,
       trusted |-> M("trustedips") # 0,
       limit   |-> M("limitips")]
-----------------------------------------------------------------------------
-----------------------------------------------------------------------------
(* MatchIP agrees with CIDR containment: for every list the configuration *)
(* can build and every IPv4, IPv6 or other address, the entry MatchIP     *)
(* returns is the first block of the list that holds the address, and it *)
(* returns NULL exactly when no block does.  This is what the bytewise   *)
(* AND of lines 1223-1246 and the first-match loop must compute.          *)
MatchAgreesWithCIDR ==
  \A n \in ListNames, a \in Sockaddrs :
    MatchIP(NetList(cfg[n]), a) = RefMatch(cfg[n], a)

(* A connection on a UNIX-socket listener is decided by the configuration *)
(* alone: the policy ListenThread applies (lines 896-1007) is the same    *)
(* whatever the uninitialised addr_storage that paddr points to holds    *)
(* (lines 862-875 fill only addr_un).                                     *)
UnixDecisionFixed ==
  \A g \in Sockaddrs : Decision(cfg, g) = Decision(cfg, ZeroedStorage)
=============================================================================
