----------------------------- MODULE ClientStats -----------------------------
(***************************************************************************)
(* CalcStats (src/src/ringserver.c) as the supervisor runs it on one live  *)
(* client, while the ring writer appends packets and the client thread     *)
(* reads them (advancing its reader and its txpackets counter).            *)
(*                                                                         *)
(* CalcStats reads ringparams->latestoffset, ->earliestoffset and the     *)
(* reader's pktoffset several times and without a lock, and it reads       *)
(* txpackets[0] twice.  Every such load is a step of its own.  These are   *)
(* plain loads of fields another thread writes, so whether a later use     *)
(* reloads the field or reuses the value already in a register is up to    *)
(* the build: each later use takes either the current value or the value   *)
(* loaded before.                                                          *)
(*                                                                         *)
(* Offsets are packet slots 0..RingSlots-1, and maxoffset is RingSlots     *)
(* (the unwrapping adds maxoffset to an offset below earliestoffset).     *)
(* Rates are kept as the fraction (packets, seconds) the code divides.     *)
(***************************************************************************)
EXTENDS Integers

CONSTANTS
  RingSlots,    \* packet offsets in the ring, ringparams->maxoffset
  MaxWrites,    \* bound on packets the ring writer appends
  MaxPackets,   \* bound on packets sent to the client (txpackets[0])
  MaxCalls      \* bound on CalcStats calls

ASSUME StatsAssumption ==
  /\ RingSlots \in Nat \ {0, 1}
  /\ MaxWrites \in Nat /\ MaxPackets \in Nat /\ MaxCalls \in Nat

(* (int) of the NaN or infinity a division by zero gives is undefined in  *)
(* C; on x86-64 (cvttsd2si) it is INT_MIN.                                *)
UndefLag == -2147483647 - 1

Offsets == 0 .. (RingSlots - 1)

StatsPcs == {"idle", "L1", "E1", "L2", "R1", "E2", "R2", "E3", "rate", "calc",
             "shift"}
LoadPcs == {"L1", "E1", "L2", "R1", "E2", "R2", "E3"}

VARIABLES
  earliest,    \* ringparams->earliestoffset
  latest,      \* ringparams->latestoffset
  rset,        \* reader->pktid <= RINGID_MAXIMUM: the reader has a position
  rpos,        \* reader->pktoffset
  txcount,     \* cinfo->txpackets[0], written by the client thread
  txhist,      \* cinfo->txpackets[1]
  txrate,      \* cinfo->txpacketrate, as [num, den]
  percentlag,  \* cinfo->percentlag
  ratetime,    \* cinfo->ratetime
  now,         \* NSnow() of the current CalcStats call, in seconds
  pc,          \* where the supervisor is in CalcStats
  ld,          \* the values CalcStats has loaded (locals and registers)
  writes,      \* packets appended so far
  calls,       \* CalcStats calls started so far
  \* history variables, for the properties only:
  stable,      \* ring and reader unchanged since this call's first load
  rinwin,      \* the reader was in the ring at every load of this call
  snap,        \* the ring and reader at this call's first load
  startcnt,    \* txcount when the latest call started
  prevcnt      \* txcount when the call before it started

vars == <<earliest, latest, rset, rpos, txcount, txhist, txrate, percentlag,
          ratetime, now, pc, ld, writes, calls,
          stable, rinwin, snap, startcnt, prevcnt>>

ringVars == <<earliest, latest, rset, rpos, writes>>
histVars == <<stable, rinwin, snap, startcnt, prevcnt>>

(* The offsets holding packets: the ring order from earliest to latest.    *)
InRing(p, e, l) == IF e <= l THEN e <= p /\ p <= l ELSE p >= e \/ p <= l

(* C's (int) of a double quotient times 100: truncation toward zero.       *)
TruncPercent(a, b) ==
  LET q == (100 * (IF a < 0 THEN -a ELSE a)) \div (IF b < 0 THEN -b ELSE b)
  IN  IF (a < 0) = (b < 0) THEN q ELSE -q

(* Line 1153, from the unwrapped latest and reader offsets.               *)
LagOf(lu, ru, e) == IF lu = e THEN UndefLag ELSE TruncPercent(lu - ru, lu - e)

(* Reference (spec 4.4): the reader's distance behind latest, as a share   *)
(* of the ring's extent from earliest to latest, in ring order.            *)
RefLag(e, l, r) ==
  (100 * ((l - r + RingSlots) % RingSlots)) \div ((l - e + RingSlots) % RingSlots)

(* A later use of a field: a reload, or the value loaded before.          *)
Reuse(cached, current) == {cached, current}

LdType == [L : Offsets, E : Offsets, R : Offsets, lu : 0 .. 2 * RingSlots,
           ru : 0 .. 2 * RingSlots, c : 0 .. MaxPackets]
LdInit == [L |-> 0, E |-> 0, R |-> 0, lu |-> 0, ru |-> 0, c |-> 0]

(* Type invariant.                                                        *)
TypeOK ==
  /\ earliest \in Offsets /\ latest \in Offsets
  /\ rset \in BOOLEAN /\ rpos \in Offsets
  /\ txcount \in 0 .. MaxPackets /\ txhist \in 0 .. MaxPackets
  /\ txrate \in [num : -MaxPackets .. MaxPackets, den : 0 .. MaxCalls + 1]
  /\ percentlag \in Int
  /\ ratetime \in 0 .. MaxCalls + 1 /\ now \in 1 .. MaxCalls + 1
  /\ pc \in StatsPcs /\ ld \in LdType
  /\ writes \in 0 .. MaxWrites /\ calls \in 0 .. MaxCalls
  /\ stable \in BOOLEAN /\ rinwin \in BOOLEAN
  /\ snap \in [e : Offsets, l : Offsets, r : Offsets, s : BOOLEAN]
  /\ startcnt \in 0 .. MaxPackets /\ prevcnt \in 0 .. MaxPackets

(* The client has connected; its ClientInfo is zeroed (calloc), and the   *)
(* ring holds its first packet.                                           *)
Init ==
  /\ earliest = 0 /\ latest = 0
  /\ rset = FALSE /\ rpos = 0
  /\ txcount = 0 /\ txhist = 0
  /\ txrate = [num |-> 0, den |-> 1]
  /\ percentlag = 0 /\ ratetime = 0 /\ now = 1
  /\ pc = "idle" /\ ld = LdInit
  /\ writes = 0 /\ calls = 0
  /\ stable = TRUE /\ rinwin = TRUE
  /\ snap = [e |-> 0, l |-> 0, r |-> 0, s |-> FALSE]
  /\ startcnt = 0 /\ prevcnt = 0
-----------------------------------------------------------------------------
(* The environment: the ring writer and the client thread.  Each of their *)
(* steps also updates the history variables of the CalcStats in progress. *)
Observe(e, l, r) ==
  /\ stable' = (stable /\ <<e, l, r>> = <<earliest, latest, rpos>>)
  /\ rinwin' = (rinwin /\ (pc \notin LoadPcs \/ InRing(r, e, l)))

(* Mutant: the writer forgets to wrap latest at the end of the ring.      *)
RingWriteNoWrap ==
  /\ writes < MaxWrites
  /\ LET l == latest + 1
         e == IF l % RingSlots = earliest THEN (earliest + 1) % RingSlots
              ELSE earliest
     IN  /\ latest' = l /\ earliest' = e
         /\ Observe(e, l, rpos)
  /\ writes' = writes + 1
  /\ UNCHANGED <<rset, rpos, txcount, txhist, txrate, percentlag, ratetime,
                 now, pc, ld, calls, snap, startcnt, prevcnt>>

(* The ring engine appends a packet after latest; when the ring is full    *)
(* the packet overwrites the earliest one.                                 *)
RingWrite ==
  /\ writes < MaxWrites
  /\ LET l == (latest + 1) % RingSlots
         e == IF l = earliest THEN (earliest + 1) % RingSlots ELSE earliest
     IN  /\ latest' = l /\ earliest' = e
         /\ Observe(e, l, rpos)
  /\ writes' = writes + 1
  /\ UNCHANGED <<rset, rpos, txcount, txhist, txrate, percentlag, ratetime,
                 now, pc, ld, calls, snap, startcnt, prevcnt>>

(* The client thread sends the client the next packet: its reader moves    *)
(* on (to the earliest packet if it has none or was overwritten) and       *)
(* txpackets[0] counts the packet.                                         *)
ClientSend ==
  /\ txcount < MaxPackets
  /\ ~(rset /\ rpos = latest)
  /\ LET r == IF rset /\ InRing(rpos, earliest, latest)
              THEN (rpos + 1) % RingSlots ELSE earliest
     IN  /\ rpos' = r
         /\ Observe(earliest, latest, r)
  /\ rset' = TRUE
  /\ txcount' = txcount + 1
  /\ UNCHANGED <<earliest, latest, writes, txhist, txrate, percentlag,
                 ratetime, now, pc, ld, calls, snap, startcnt, prevcnt>>
-----------------------------------------------------------------------------
(* The supervisor's CalcStats (lines 1129-1194), one load per step.        *)

(* Entry and the pktid check (lines 1131-1141): NSnow(), strictly later    *)
(* than the previous call since the watchdog loop sleeps between passes.  *)
(* A reader without a position gets percentlag 0 (line 1157).             *)
CalcStart ==
  /\ pc = "idle" /\ calls < MaxCalls
  /\ now' = now + 1 /\ calls' = calls + 1
  /\ pc' = IF rset THEN "L1" ELSE "rate"
  /\ percentlag' = IF rset THEN percentlag ELSE 0
  /\ prevcnt' = startcnt /\ startcnt' = txcount
  /\ snap' = [e |-> earliest, l |-> latest, r |-> rpos, s |-> rset]
  /\ stable' = TRUE /\ rinwin' = InRing(rpos, earliest, latest)
  /\ UNCHANGED <<ringVars, txcount, txhist, txrate, ratetime, ld>>

(* Line 1143: the two loads of the wrap test.                              *)
LoadL1 ==
  /\ pc = "L1" /\ pc' = "E1" /\ ld' = [ld EXCEPT !.L = latest]
  /\ UNCHANGED <<ringVars, txcount, txhist, txrate, percentlag, ratetime,
                 now, calls, histVars>>

LoadE1 ==
  /\ pc = "E1" /\ pc' = "L2" /\ ld' = [ld EXCEPT !.E = earliest]
  /\ UNCHANGED <<ringVars, txcount, txhist, txrate, percentlag, ratetime,
                 now, calls, histVars>>

(* Lines 1143-1146: latestoffset_unwrapped.                               *)
LoadL2 ==
  /\ pc = "L2" /\ pc' = "R1"
  /\ \E v \in Reuse(ld.L, latest) :
       ld' = [ld EXCEPT !.lu = IF ld.L < ld.E THEN v + RingSlots ELSE v]
  /\ UNCHANGED <<ringVars, txcount, txhist, txrate, percentlag, ratetime,
                 now, calls, histVars>>

(* Line 1148: the reader's wrap test; ru holds the addend until line 1149. *)
LoadR1 ==
  /\ pc = "R1" /\ pc' = "E2" /\ ld' = [ld EXCEPT !.R = rpos]
  /\ UNCHANGED <<ringVars, txcount, txhist, txrate, percentlag, ratetime,
                 now, calls, histVars>>

(* Mutant: the reader's wrap test uses <= and unwraps a reader at earliest. *)
LoadE2Le ==
  /\ pc = "E2" /\ pc' = "R2"
  /\ \E e2 \in Reuse(ld.E, earliest) :
       ld' = [ld EXCEPT !.E = e2, !.ru = IF ld.R <= e2 THEN RingSlots ELSE 0]
  /\ UNCHANGED <<ringVars, txcount, txhist, txrate, percentlag, ratetime,
                 now, calls, histVars>>

LoadE2 ==
  /\ pc = "E2" /\ pc' = "R2"
  /\ \E e2 \in Reuse(ld.E, earliest) :
       ld' = [ld EXCEPT !.E = e2, !.ru = IF ld.R < e2 THEN RingSlots ELSE 0]
  /\ UNCHANGED <<ringVars, txcount, txhist, txrate, percentlag, ratetime,
                 now, calls, histVars>>

(* Lines 1148-1151: readeroffset_unwrapped.                               *)
LoadR2 ==
  /\ pc = "R2" /\ pc' = "E3"
  /\ \E v \in Reuse(ld.R, rpos) : ld' = [ld EXCEPT !.ru = @ + v]
  /\ UNCHANGED <<ringVars, txcount, txhist, txrate, percentlag, ratetime,
                 now, calls, histVars>>

(* Line 1153: the percent lag, with a last load of earliestoffset.        *)
LoadE3 ==
  /\ pc = "E3" /\ pc' = "rate"
  /\ \E e3 \in Reuse(ld.E, earliest) : percentlag' = LagOf(ld.lu, ld.ru, e3)
  /\ UNCHANGED <<ringVars, txcount, txhist, txrate, ratetime, ld,
                 now, calls, histVars>>

(* Lines 1160-1167: deltasec, and the test txpackets[0] > 0.  With no     *)
(* packet sent the rate is left alone and only ratetime is stamped.       *)
RateCheck ==
  /\ pc = "rate"
  /\ IF txcount > 0
     THEN pc' = "calc" /\ ld' = [ld EXCEPT !.c = txcount]
          /\ UNCHANGED ratetime
     ELSE pc' = "idle" /\ ld' = LdInit /\ ratetime' = now
  /\ UNCHANGED <<ringVars, txcount, txhist, txrate, percentlag, now, calls,
                 stable, rinwin, snap, startcnt, prevcnt>>

(* Line 1170: txpacketrate from txpackets[0] (loaded again or reused).    *)
RateCalc ==
  /\ pc = "calc" /\ pc' = "shift"
  /\ \E c1 \in Reuse(ld.c, txcount) :
       /\ txrate' = [num |-> c1 - txhist,
                     den |-> IF ratetime = 0 THEN 1 ELSE now - ratetime]
       /\ ld' = [ld EXCEPT !.c = c1]
  /\ UNCHANGED <<ringVars, txcount, txhist, percentlag, ratetime, now, calls,
                 stable, rinwin, snap, startcnt, prevcnt>>

(* Lines 1173-1186: txpackets[1] = txpackets[0] (loaded again or reused), *)
(* then ratetime = nsnow.                                                  *)
(* Mutant: the current counter is not rolled into the history.            *)
RateShiftNoRoll ==
  /\ pc = "shift" /\ pc' = "idle"
  /\ UNCHANGED txhist
  /\ ratetime' = now /\ ld' = LdInit
  /\ UNCHANGED <<ringVars, txcount, txrate, percentlag, now, calls, histVars>>

RateShift ==
  /\ pc = "shift" /\ pc' = "idle"
  /\ \E c2 \in Reuse(ld.c, txcount) : txhist' = c2
  /\ ratetime' = now /\ ld' = LdInit
  /\ UNCHANGED <<ringVars, txcount, txrate, percentlag, now, calls, histVars>>

CalcStats ==
  \/ CalcStart \/ LoadL1 \/ LoadE1 \/ LoadL2 \/ LoadR1 \/ LoadE2 \/ LoadR2
  \/ LoadE3 \/ RateCheck \/ RateCalc \/ RateShift

Next == RingWrite \/ ClientSend \/ CalcStats

Spec == Init /\ [][Next]_vars
-----------------------------------------------------------------------------
(* Percent lag against its definition (spec 4.4): when the ring and the   *)
(* reader did not move during the computation and the ring holds more     *)
(* than one packet, the unwrapping of lines 1143-1153 yields the reader's *)
(* ring-order distance behind latest as a share of the ring's extent.     *)
LagMatchesReference ==
  (pc = "rate" /\ snap.s /\ stable /\ snap.e # snap.l
     /\ InRing(snap.r, snap.e, snap.l))
    => percentlag = RefLag(snap.e, snap.l, snap.r)

(* Spec 8.1: a reader with a position inside the ring gets a percent lag  *)
(* in 0..100, however the ring writer moves during CalcStats.  The INT_MIN *)
(* of a division by zero, which only the one-packet ring at the start     *)
(* reaches, is left aside.                                                *)
LagInRange ==
  (pc = "rate" /\ snap.s /\ rinwin /\ percentlag # UndefLag)
    => percentlag \in 0 .. 100

(* Spec 8.10: when txpackets[0] did not change across two CalcStats calls, *)
(* the second computes a transmission rate of exactly 0 over a positive   *)
(* time.                                                                  *)
RateZeroWhenIdle ==
  (pc = "idle" /\ calls >= 2 /\ prevcnt = txcount)
    => txrate.num = 0 /\ txrate.den > 0
=============================================================================
