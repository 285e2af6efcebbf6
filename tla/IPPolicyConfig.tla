--------------------------- MODULE IPPolicyConfig ---------------------------
(***************************************************************************)
(* The IP policy lists of ringserver's configuration, as IPPolicy matches *)
(* addresses against them: the address families and widths, the CIDR     *)
(* entries, and the configuration reader that appends them to the lists. *)
(*                                                                         *)
(* The configuration parser is not under src/: a list is built here from  *)
(* the CIDR entries of the configuration in the order they are given,     *)
(* each with a prefix netmask and the network masked by it: MatchIP        *)
(* compares the masked address with the stored network, and the examples  *)
(* of doc/ring.conf ("MatchIP 192.168.0.1/24") give networks with host     *)
(* bits set that are meant to match, so the reader stores them masked.    *)
(***************************************************************************)
EXTENDS Integers, Sequences

CONSTANTS
  V4Bits,          \* bits of an IPv4 address
  ByteBits,        \* bits of an IPv6 address byte
  V6Bytes,         \* bytes of an IPv6 address
  MaxEntries,      \* bound on the CIDR entries of the configuration
  ConfiguredLists  \* the lists the configuration may give entries to

ListNames == {"matchips", "rejectips", "writeips", "trustedips", "limitips"}

ASSUME PolicyAssumption ==
  /\ V4Bits \in Nat \ {0} /\ ByteBits \in Nat \ {0} /\ V6Bytes \in Nat \ {0}
  /\ MaxEntries \in Nat /\ ConfiguredLists \subseteq ListNames

(* sa_family values: AF_INET, AF_INET6, and any other (AF_UNIX, or the    *)
(* AF_UNSPEC of zeroed storage).                                          *)
INET == "AF_INET"
INET6 == "AF_INET6"
NOTIP == "AF_OTHER"
IPFamilies == {INET, INET6}

V4Words == 0 .. (2^V4Bits - 1)
Bytes == 0 .. (2^ByteBits - 1)
V6Words == [0 .. (V6Bytes - 1) -> Bytes]
ZeroV6 == [k \in 0 .. (V6Bytes - 1) |-> 0]

Width(f) == IF f = INET THEN V4Bits ELSE ByteBits * V6Bytes

(* A CIDR entry of the configuration: family, masked prefix, length.      *)
Cidrs ==
  LET Blocks(f, n) == {[family |-> f, prefix |-> q * 2^(Width(f) - n),
                        len |-> n] : q \in 0 .. (2^n - 1)}
      OfFamily(f) == UNION {Blocks(f, n) : n \in 0 .. Width(f)}
  IN  OfFamily(INET) \cup OfFamily(INET6)

VARIABLE cfg   \* the CIDR entries of each policy list, in the order given

Entries == Len(cfg["matchips"]) + Len(cfg["rejectips"]) + Len(cfg["writeips"])
           + Len(cfg["trustedips"]) + Len(cfg["limitips"])

(* Type invariant, with the bound on the configuration.                   *)
TypeOK == cfg \in [ListNames -> Seq(Cidrs)] /\ Entries <= MaxEntries

Init == cfg = [n \in ListNames |-> <<>>]

(* The configuration reader appends an entry to a list.                   *)
AddEntry(n, c) ==
  /\ Entries < MaxEntries
  /\ cfg' = [cfg EXCEPT ![n] = Append(@, c)]

Next == \E n \in ConfiguredLists, c \in Cidrs : AddEntry(n, c)

Spec == Init /\ [][Next]_cfg
=============================================================================
