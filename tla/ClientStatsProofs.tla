-------------------------- MODULE ClientStatsProofs --------------------------
(***************************************************************************)
(* Proofs about CalcStats for every ring size and every bound: its state   *)
(* stays well typed, a counter that did not move gives a rate of 0, and   *)
(* the percent lag of a ring and reader that held still is the ring-order *)
(* reference.                                                             *)
(***************************************************************************)
EXTENDS ClientStats, TLAPS

(* The supervisor's clock is NSnow() of the latest call: it advances once *)
(* per call.                                                              *)
ClockInv == now = calls + 1 /\ ratetime <= now /\ (pc # "idle" => ratetime < now)

(* Between lines 1148 and 1149 ru holds only the addend 0 or maxoffset.   *)
AddendInv == pc = "R2" => ld.ru \in {0, RingSlots}

TInv == TypeOK /\ ClockInv /\ AddendInv

(* The unwrapped offsets of lines 1143-1151 for a ring and reader that    *)
(* did not move.                                                          *)
LU(e, l) == IF l < e THEN l + RingSlots ELSE l
RU(e, r) == IF r < e THEN r + RingSlots ELSE r

(* While the ring and reader hold still, every value CalcStats has loaded *)
(* is the one of its first load, and the unwrapping is done on them.      *)
LagInv ==
  /\ stable => <<earliest, latest, rpos>> = <<snap.e, snap.l, snap.r>>
  /\ (snap.s /\ stable) =>
       /\ pc \in {"E1", "L2"} => ld.L = snap.l
       /\ pc = "L2" => ld.E = snap.e
       /\ pc \in {"R1", "E2", "R2", "E3"} =>
            ld.E = snap.e /\ ld.lu = LU(snap.e, snap.l)
       /\ pc \in {"E2", "R2"} => ld.R = snap.r
       /\ pc = "R2" => ld.ru = IF snap.r < snap.e THEN RingSlots ELSE 0
       /\ pc = "E3" => ld.ru = RU(snap.e, snap.r)
       /\ pc = "rate" => percentlag = LagOf(LU(snap.e, snap.l), RU(snap.e, snap.r), snap.e)

(* What CalcStats keeps of txpackets[0]: the counter only grows, the      *)
(* history is a value it had during the previous call, and the rate is   *)
(* what the counter moved between the previous call's start and now.     *)
RateInv ==
  /\ prevcnt <= startcnt /\ startcnt <= txcount /\ txhist <= txcount
  /\ pc = "idle" => startcnt <= txhist
  /\ pc # "idle" => prevcnt <= txhist /\ txhist <= startcnt
  /\ pc \in {"calc", "shift"} => 0 < ld.c /\ startcnt <= ld.c /\ ld.c <= txcount
  /\ pc = "shift" => txrate.num = ld.c - txhist
  /\ pc = "idle" => 0 <= txrate.num /\ txrate.num <= txcount - prevcnt
  /\ txcount = 0 => txrate.num = 0
  /\ txrate.den > 0
-----------------------------------------------------------------------------
USE StatsAssumption

LEMMA ModOffsets ==
  ASSUME NEW x \in Int
  PROVE  x % RingSlots \in Offsets
  BY DEF Offsets

LEMMA TInvInit == Init => TInv
  <1> SUFFICES ASSUME Init PROVE TInv OBVIOUS
  <1>1. LdInit \in LdType BY DEF LdInit, LdType, Offsets
  <1>2. [num |-> 0, den |-> 1] \in [num : -MaxPackets .. MaxPackets, den : 0 .. MaxCalls + 1]
    OBVIOUS
  <1>3. [e |-> 0, l |-> 0, r |-> 0, s |-> FALSE]
          \in [e : Offsets, l : Offsets, r : Offsets, s : BOOLEAN]
    BY DEF Offsets
  <1>4. /\ earliest \in Offsets /\ latest \in Offsets /\ rpos \in Offsets
        /\ txcount \in 0 .. MaxPackets /\ txhist \in 0 .. MaxPackets
        /\ ratetime \in 0 .. MaxCalls + 1 /\ now \in 1 .. MaxCalls + 1
        /\ writes \in 0 .. MaxWrites /\ calls \in 0 .. MaxCalls
        /\ startcnt \in 0 .. MaxPackets /\ prevcnt \in 0 .. MaxPackets
    BY DEF Init, Offsets
  <1>5. txrate \in [num : -MaxPackets .. MaxPackets, den : 0 .. MaxCalls + 1]
    BY <1>2 DEF Init
  <1>6. ld \in LdType BY <1>1 DEF Init
  <1>7. snap \in [e : Offsets, l : Offsets, r : Offsets, s : BOOLEAN] BY <1>3 DEF Init
  <1>8. rset \in BOOLEAN /\ stable \in BOOLEAN /\ rinwin \in BOOLEAN BY DEF Init
  <1>10. pc \in StatsPcs BY DEF Init, StatsPcs
  <1>11. percentlag \in Int BY DEF Init
  <1>9. TypeOK BY <1>4, <1>5, <1>6, <1>7, <1>8, <1>10, <1>11 DEF TypeOK
  <1> QED BY <1>9 DEF Init, TInv, ClockInv, AddendInv

LEMMA TInvStep == TInv /\ [Next]_vars => TInv'
  <1> SUFFICES ASSUME TInv, [Next]_vars PROVE TInv' OBVIOUS
  <1>0. TypeOK /\ ClockInv /\ AddendInv BY DEF TInv
  <1> USE DEF TInv, TypeOK, ClockInv, AddendInv, StatsPcs, LdType, Offsets
  <1>1. CASE RingWrite
    BY <1>0, <1>1, ModOffsets DEF RingWrite, Observe
  <1>2. CASE ClientSend
    BY <1>0, <1>2, ModOffsets DEF ClientSend, Observe
  <1>3. CASE CalcStart
    <2>1. snap' \in [e : Offsets, l : Offsets, r : Offsets, s : BOOLEAN]
      BY <1>0, <1>3 DEF CalcStart
    <2>2. rinwin' \in BOOLEAN BY <1>3 DEF CalcStart, InRing
    <2> QED BY <1>0, <1>3, <2>1, <2>2 DEF CalcStart, ringVars
  <1>4. CASE LoadL1 BY <1>0, <1>4 DEF LoadL1, ringVars, histVars
  <1>5. CASE LoadE1 BY <1>0, <1>5 DEF LoadE1, ringVars, histVars
  <1>6. CASE LoadL2 BY <1>0, <1>6 DEF LoadL2, ringVars, histVars, Reuse
  <1>7. CASE LoadR1 BY <1>0, <1>7 DEF LoadR1, ringVars, histVars
  <1>8. CASE LoadE2
    <2>1. PICK e2 \in Reuse(ld.E, earliest) :
            ld' = [ld EXCEPT !.E = e2, !.ru = IF ld.R < e2 THEN RingSlots ELSE 0]
      BY <1>8 DEF LoadE2
    <2>2. e2 \in Offsets BY <1>0, <2>1 DEF Reuse
    <2>3. ld' = [L |-> ld.L, E |-> e2, R |-> ld.R, lu |-> ld.lu,
                 ru |-> IF ld.R < e2 THEN RingSlots ELSE 0, c |-> ld.c]
      BY <1>0, <2>1
    <2>4. ld' \in LdType BY <1>0, <2>2, <2>3
    <2> QED BY <1>0, <1>8, <2>4 DEF LoadE2, ringVars, histVars
  <1>9. CASE LoadR2 BY <1>0, <1>9 DEF LoadR2, ringVars, histVars, Reuse
  <1>10. CASE LoadE3
    <2>1. PICK e3 \in Reuse(ld.E, earliest) : percentlag' = LagOf(ld.lu, ld.ru, e3)
      BY <1>10 DEF LoadE3
    <2>2. LagOf(ld.lu, ld.ru, e3) \in Int
      BY <1>0, <2>1 DEF Reuse, LagOf, TruncPercent, UndefLag
    <2> QED BY <1>0, <1>10, <2>1, <2>2 DEF LoadE3, ringVars, histVars
  <1>11. CASE RateCheck BY <1>0, <1>11 DEF RateCheck, ringVars, LdInit
  <1>12. CASE RateCalc BY <1>0, <1>12 DEF RateCalc, ringVars, Reuse
  <1>13. CASE RateShift BY <1>0, <1>13 DEF RateShift, ringVars, histVars, Reuse, LdInit
  <1>14. CASE UNCHANGED vars BY <1>0, <1>14 DEF vars
  <1> QED BY <1>1, <1>2, <1>3, <1>4, <1>5, <1>6, <1>7, <1>8, <1>9, <1>10,
             <1>11, <1>12, <1>13, <1>14 DEF Next, CalcStats

(* CalcStats keeps every offset, count, rate and time it stores in range, *)
(* for every ring size and bound: TypeOK is an invariant of Spec.         *)
THEOREM StatsTypeCorrect == Spec => []TypeOK
  <1>1. Init => TInv BY TInvInit
  <1>2. TInv /\ [Next]_vars => TInv' BY TInvStep
  <1>3. TInv => TypeOK BY DEF TInv
  <1> QED BY <1>1, <1>2, <1>3, PTL DEF Spec

LEMMA RateInit == Init => RateInv
  BY DEF Init, RateInv

LEMMA RateStep == TInv /\ RateInv /\ [Next]_vars => RateInv'
  <1> SUFFICES ASSUME TInv, RateInv, [Next]_vars PROVE RateInv' OBVIOUS
  <1>0. TypeOK /\ ClockInv BY DEF TInv
  <1> DEFINE Loads == LoadL1 \/ LoadE1 \/ LoadL2 \/ LoadR1 \/ LoadE2 \/ LoadR2 \/ LoadE3
             Same == UNCHANGED <<txcount, txhist, txrate, startcnt, prevcnt>>
  <1>1. CASE RingWrite
    <2>1. Same /\ UNCHANGED <<pc, ld>> BY <1>1 DEF RingWrite
    <2> QED BY <2>1 DEF RateInv
  <1>2. CASE ClientSend
    <2>1. txcount' = txcount + 1
          /\ UNCHANGED <<txhist, txrate, startcnt, prevcnt, pc, ld>>
      BY <1>2 DEF ClientSend
    <2> QED BY <1>0, <2>1 DEF RateInv, TypeOK, LdType
  <1>3. CASE CalcStart
    <2>1. /\ pc = "idle" /\ pc' # "idle" /\ pc' \notin {"calc", "shift"}
          /\ prevcnt' = startcnt /\ startcnt' = txcount
          /\ UNCHANGED <<txcount, txhist, txrate>>
      BY <1>3 DEF CalcStart, ringVars
    <2> QED BY <1>0, <2>1 DEF RateInv, TypeOK, LdType
  <1>4. CASE Loads
    <2>1. /\ pc \in LoadPcs /\ pc' \in LoadPcs \cup {"rate"} /\ Same
      BY <1>4 DEF LoadL1, LoadE1, LoadL2, LoadR1, LoadE2, LoadR2, LoadE3, LoadPcs,
                  ringVars, histVars
    <2> QED BY <1>0, <2>1 DEF RateInv, TypeOK, LdType, LoadPcs
  <1>5. CASE RateCheck
    <2>1. pc = "rate" /\ UNCHANGED <<txcount, txhist, txrate, startcnt, prevcnt>>
      BY <1>5 DEF RateCheck
    <2>2. CASE txcount > 0
      <3>1. pc' = "calc" /\ ld'.c = txcount BY <1>5, <2>2, <1>0 DEF RateCheck, TypeOK, LdType
      <3> QED BY <1>0, <2>1, <2>2, <3>1 DEF RateInv, TypeOK, LdType
    <2>3. CASE ~(txcount > 0)
      <3>1. pc' = "idle" BY <1>5, <2>3 DEF RateCheck
      <3> QED BY <1>0, <2>1, <2>3, <3>1 DEF RateInv, TypeOK, LdType
    <2> QED BY <2>2, <2>3
  <1>6. CASE RateCalc
    <2>1. PICK c1 \in Reuse(ld.c, txcount) :
            /\ txrate' = [num |-> c1 - txhist,
                          den |-> IF ratetime = 0 THEN 1 ELSE now - ratetime]
            /\ ld' = [ld EXCEPT !.c = c1]
      BY <1>6 DEF RateCalc
    <2>2. pc = "calc" /\ pc' = "shift"
          /\ UNCHANGED <<txcount, txhist, startcnt, prevcnt>>
      BY <1>6 DEF RateCalc
    <2>3. ld'.c = c1 /\ c1 \in {ld.c, txcount} BY <1>0, <2>1 DEF TypeOK, LdType, Reuse
    <2>4. txrate'.num = c1 - txhist /\ txrate'.den > 0
      BY <1>0, <2>1, <2>2 DEF ClockInv, TypeOK
    <2> QED BY <1>0, <2>2, <2>3, <2>4 DEF RateInv, TypeOK, LdType
  <1>7. CASE RateShift
    <2>1. PICK c2 \in Reuse(ld.c, txcount) : txhist' = c2 BY <1>7 DEF RateShift
    <2>2. pc = "shift" /\ pc' = "idle"
          /\ UNCHANGED <<txcount, txrate, startcnt, prevcnt>>
      BY <1>7 DEF RateShift, ringVars, histVars
    <2> QED BY <1>0, <2>1, <2>2 DEF RateInv, TypeOK, LdType, Reuse
  <1>8. CASE UNCHANGED vars BY <1>8 DEF vars, RateInv
  <1> QED BY <1>1, <1>2, <1>3, <1>4, <1>5, <1>6, <1>7, <1>8 DEF Next, CalcStats

(* Spec 8.10, for every bound: when txpackets[0] did not change between   *)
(* the start of the previous CalcStats call and the end of the latest one, *)
(* the rate is exactly 0 over a positive time, whether lines 1170 and     *)
(* 1173 reload the counter or reuse the register.                         *)
THEOREM IdleRateIsZero == Spec => []RateZeroWhenIdle
  <1>1. Init => TInv /\ RateInv BY TInvInit, RateInit
  <1>2. TInv /\ RateInv /\ [Next]_vars => TInv' /\ RateInv' BY TInvStep, RateStep
  <1>3. TInv /\ RateInv => RateZeroWhenIdle BY DEF TInv, TypeOK, RateInv, RateZeroWhenIdle
  <1> QED BY <1>1, <1>2, <1>3, PTL DEF Spec


(* The unwrapped offsets of lines 1143-1151 give the ring-order distances *)
(* of latest from the reader and from earliest, and the first is at most *)
(* the second for a reader inside the ring.                               *)
LEMMA RingDistances ==
  ASSUME NEW e \in Offsets, NEW l \in Offsets, NEW r \in Offsets,
         e # l, InRing(r, e, l)
  PROVE  LET a == LU(e, l) - RU(e, r)
             b == LU(e, l) - e
         IN  /\ a \in 0 .. RingSlots - 1 /\ a = (l - r + RingSlots) % RingSlots
             /\ b \in 1 .. RingSlots - 1 /\ b = (l - e + RingSlots) % RingSlots
             /\ a <= b
  <1> DEFINE N == RingSlots
             a == LU(e, l) - RU(e, r)
             b == LU(e, l) - e
  <1>0. N \in Nat \ {0, 1} /\ e \in 0 .. N - 1 /\ l \in 0 .. N - 1 /\ r \in 0 .. N - 1
    BY DEF Offsets
  <1>1. a \in 0 .. N - 1 /\ a = (l - r + N) % N
    <2>1. CASE e <= l
      <3>1. e <= r /\ r <= l BY <2>1 DEF InRing
      <3>2. a = l - r BY <1>0, <2>1, <3>1 DEF LU, RU
      <3> QED BY <1>0, <3>1, <3>2
    <2>2. CASE l < e /\ r >= e
      <3>1. a = l + N - r BY <1>0, <2>2 DEF LU, RU
      <3> QED BY <1>0, <2>2, <3>1
    <2>3. CASE l < e /\ r < e
      <3>1. r <= l BY <1>0, <2>3 DEF InRing
      <3>2. a = l - r BY <1>0, <2>3 DEF LU, RU
      <3> QED BY <1>0, <3>1, <3>2
    <2> QED BY <1>0, <2>1, <2>2, <2>3
  <1>2. b \in 1 .. N - 1 /\ b = (l - e + N) % N
    BY <1>0 DEF LU
  <1>3. a <= b
    BY <1>0 DEF LU, RU
  <1> QED BY <1>1, <1>2, <1>3

(* The unwrapping of lines 1143-1151 computes the ring-order distances:    *)
(* for a ring of more than one packet and a reader inside it, the lag of  *)
(* line 1153 is the reference lag.                                        *)
LEMMA UnwrapIsRingOrder ==
  ASSUME NEW e \in Offsets, NEW l \in Offsets, NEW r \in Offsets,
         e # l, InRing(r, e, l)
  PROVE  LagOf(LU(e, l), RU(e, r), e) = RefLag(e, l, r)
  <1> DEFINE N == RingSlots
             a == LU(e, l) - RU(e, r)
             b == LU(e, l) - e
  <1>0. N \in Nat \ {0, 1} /\ e \in 0 .. N - 1 /\ l \in 0 .. N - 1
    BY DEF Offsets
  <1>1. a \in 0 .. N - 1 /\ a = (l - r + N) % N
    BY RingDistances
  <1>2. b \in 1 .. N - 1 /\ b = (l - e + N) % N
    BY RingDistances
  <1>3. LU(e, l) # e BY <1>0, <1>2
  <1>4. LagOf(LU(e, l), RU(e, r), e) = (100 * a) \div b
    BY <1>0, <1>1, <1>2, <1>3 DEF LagOf, TruncPercent
  <1> QED BY <1>1, <1>2, <1>4 DEF RefLag


LEMMA LagInit == Init => LagInv
  BY DEF Init, LagInv

(* A step of the ring writer or of the client thread leaves the loads     *)
(* alone, and keeps the call stable only when it did not move the ring    *)
(* or the reader.                                                         *)
LEMMA LagObserve ==
  ASSUME LagInv, UNCHANGED <<pc, ld, snap, percentlag>>,
         stable' => stable /\ <<earliest', latest', rpos'>> = <<earliest, latest, rpos>>
  PROVE  LagInv'
  BY DEF LagInv

LEMMA LagStep == TInv /\ LagInv /\ [Next]_vars => LagInv'
  <1> SUFFICES ASSUME TInv, LagInv, [Next]_vars PROVE LagInv' OBVIOUS
  <1>0. TypeOK BY DEF TInv
  <1> DEFINE Frame == UNCHANGED <<ringVars, histVars, percentlag>>
  <1>1. CASE RingWrite
    <2>1. UNCHANGED <<pc, ld, snap, percentlag, rpos>> BY <1>1 DEF RingWrite
    <2>2. stable' => stable /\ <<earliest', latest'>> = <<earliest, latest>>
      BY <1>1 DEF RingWrite, Observe
    <2> QED BY <2>1, <2>2, LagObserve
  <1>2. CASE ClientSend
    <2>1. UNCHANGED <<pc, ld, snap, percentlag, earliest, latest>> BY <1>2 DEF ClientSend
    <2>2. stable' => stable /\ rpos' = rpos BY <1>2 DEF ClientSend, Observe
    <2> QED BY <2>1, <2>2, LagObserve
  <1>3. CASE CalcStart
    <2>1. /\ stable' /\ snap' = [e |-> earliest, l |-> latest, r |-> rpos, s |-> rset]
          /\ UNCHANGED <<earliest, latest, rpos, rset>>
          /\ pc' = IF rset THEN "L1" ELSE "rate"
      BY <1>3 DEF CalcStart, ringVars
    <2> QED BY <2>1 DEF LagInv
  <1>4. CASE LoadL1
    <2>1. pc = "L1" /\ pc' = "E1" /\ ld' = [ld EXCEPT !.L = latest] /\ Frame
      BY <1>4 DEF LoadL1
    <2> QED BY <1>0, <2>1 DEF LagInv, ringVars, histVars, TypeOK, LdType
  <1>5. CASE LoadE1
    <2>1. pc = "E1" /\ pc' = "L2" /\ ld' = [ld EXCEPT !.E = earliest] /\ Frame
      BY <1>5 DEF LoadE1
    <2> QED BY <1>0, <2>1 DEF LagInv, ringVars, histVars, TypeOK, LdType
  <1>6. CASE LoadL2
    <2>1. pc = "L2" /\ pc' = "R1" /\ Frame BY <1>6 DEF LoadL2
    <2>2. PICK v \in Reuse(ld.L, latest) :
            ld' = [ld EXCEPT !.lu = IF ld.L < ld.E THEN v + RingSlots ELSE v]
      BY <1>6 DEF LoadL2
    <2>3. CASE snap.s /\ stable
      <3>1. v = snap.l /\ ld.L = snap.l /\ ld.E = snap.e
        BY <2>1, <2>2, <2>3 DEF LagInv, Reuse
      <3>2. ld'.lu = LU(snap.e, snap.l) /\ ld'.E = ld.E
        BY <1>0, <2>2, <3>1 DEF TypeOK, LdType, LU
      <3> QED BY <2>1, <2>3, <3>2 DEF LagInv, ringVars, histVars
    <2>4. CASE ~(snap.s /\ stable)
      BY <2>1, <2>4 DEF LagInv, ringVars, histVars
    <2> QED BY <2>3, <2>4
  <1>7. CASE LoadR1
    <2>1. pc = "R1" /\ pc' = "E2" /\ ld' = [ld EXCEPT !.R = rpos] /\ Frame
      BY <1>7 DEF LoadR1
    <2> QED BY <1>0, <2>1 DEF LagInv, ringVars, histVars, TypeOK, LdType
  <1>8. CASE LoadE2
    <2>1. pc = "E2" /\ pc' = "R2" /\ Frame BY <1>8 DEF LoadE2
    <2>2. PICK e2 \in Reuse(ld.E, earliest) :
            ld' = [ld EXCEPT !.E = e2, !.ru = IF ld.R < e2 THEN RingSlots ELSE 0]
      BY <1>8 DEF LoadE2
    <2>3. CASE snap.s /\ stable
      <3>1. e2 = snap.e /\ ld.E = snap.e /\ ld.R = snap.r /\ ld.lu = LU(snap.e, snap.l)
        BY <2>1, <2>2, <2>3 DEF LagInv, Reuse
      <3>2. /\ ld'.E = snap.e /\ ld'.lu = ld.lu /\ ld'.R = ld.R
            /\ ld'.ru = IF snap.r < snap.e THEN RingSlots ELSE 0
        BY <1>0, <2>2, <3>1 DEF TypeOK, LdType
      <3> QED BY <2>1, <2>3, <3>1, <3>2 DEF LagInv, ringVars, histVars
    <2>4. CASE ~(snap.s /\ stable)
      BY <2>1, <2>4 DEF LagInv, ringVars, histVars
    <2> QED BY <2>3, <2>4
  <1>9. CASE LoadR2
    <2>1. pc = "R2" /\ pc' = "E3" /\ Frame BY <1>9 DEF LoadR2
    <2>2. PICK v \in Reuse(ld.R, rpos) : ld' = [ld EXCEPT !.ru = @ + v]
      BY <1>9 DEF LoadR2
    <2>3. CASE snap.s /\ stable
      <3>1. /\ v = snap.r /\ ld.E = snap.e /\ ld.lu = LU(snap.e, snap.l)
            /\ ld.ru = IF snap.r < snap.e THEN RingSlots ELSE 0
        BY <2>1, <2>2, <2>3 DEF LagInv, Reuse
      <3>2. /\ ld'.E = snap.e /\ ld'.lu = ld.lu /\ ld'.ru = ld.ru + snap.r
        BY <1>0, <2>2, <3>1 DEF TypeOK, LdType
      <3>3. ld'.ru = RU(snap.e, snap.r)
        BY <1>0, <3>1, <3>2 DEF TypeOK, Offsets, RU
      <3> QED BY <2>1, <2>3, <3>1, <3>2, <3>3 DEF LagInv, ringVars, histVars
    <2>4. CASE ~(snap.s /\ stable)
      BY <2>1, <2>4 DEF LagInv, ringVars, histVars
    <2> QED BY <2>3, <2>4
  <1>10. CASE LoadE3
    <2>1. pc = "E3" /\ pc' = "rate" /\ UNCHANGED <<ringVars, histVars, ld>>
      BY <1>10 DEF LoadE3
    <2>2. PICK e3 \in Reuse(ld.E, earliest) : percentlag' = LagOf(ld.lu, ld.ru, e3)
      BY <1>10 DEF LoadE3
    <2>3. CASE snap.s /\ stable
      <3>1. e3 = snap.e /\ ld.lu = LU(snap.e, snap.l) /\ ld.ru = RU(snap.e, snap.r)
        BY <2>1, <2>2, <2>3 DEF LagInv, Reuse
      <3> QED BY <2>1, <2>2, <2>3, <3>1 DEF LagInv, ringVars, histVars
    <2>4. CASE ~(snap.s /\ stable)
      BY <2>1, <2>4 DEF LagInv, ringVars, histVars
    <2> QED BY <2>3, <2>4
  <1>11. CASE RateCheck
    <2>1. pc = "rate" /\ pc' \in {"calc", "idle"}
          /\ UNCHANGED <<earliest, latest, rpos, percentlag, stable, snap>>
      BY <1>11 DEF RateCheck, ringVars
    <2> QED BY <2>1 DEF LagInv
  <1>12. CASE RateCalc
    <2>1. pc' = "shift" /\ UNCHANGED <<earliest, latest, rpos, percentlag, stable, snap>>
      BY <1>12 DEF RateCalc, ringVars
    <2> QED BY <2>1 DEF LagInv
  <1>13. CASE RateShift
    <2>1. pc' = "idle" /\ UNCHANGED <<earliest, latest, rpos, percentlag, stable, snap>>
      BY <1>13 DEF RateShift, ringVars, histVars
    <2> QED BY <2>1 DEF LagInv
  <1>14. CASE UNCHANGED vars BY <1>14 DEF vars, LagInv
  <1> QED BY <1>1, <1>2, <1>3, <1>4, <1>5, <1>6, <1>7, <1>8, <1>9, <1>10,
             <1>11, <1>12, <1>13, <1>14 DEF Next, CalcStats

(* Spec 4.4, for every ring size: when the ring and the reader stay put   *)
(* during a CalcStats call on a connection with a reader position inside *)
(* a ring of more than one packet, the percentlag of lines 1143-1153 is   *)
(* the share of the ring still ahead of the reader, whichever of the      *)
(* loads the compiler folds into one.                                     *)
THEOREM LagIsReference == Spec => []LagMatchesReference
  <1>1. Init => TInv /\ LagInv BY TInvInit, LagInit
  <1>2. TInv /\ LagInv /\ [Next]_vars => TInv' /\ LagInv' BY TInvStep, LagStep
  <1>3. TInv /\ LagInv => LagMatchesReference
    <2> SUFFICES ASSUME TInv, LagInv, pc = "rate", snap.s, stable, snap.e # snap.l,
                        InRing(snap.r, snap.e, snap.l)
                 PROVE  percentlag = RefLag(snap.e, snap.l, snap.r)
      BY DEF LagMatchesReference
    <2>1. percentlag = LagOf(LU(snap.e, snap.l), RU(snap.e, snap.r), snap.e)
      BY DEF LagInv
    <2>2. snap.e \in Offsets /\ snap.l \in Offsets /\ snap.r \in Offsets
      BY DEF TInv, TypeOK
    <2> QED BY <2>1, <2>2, UnwrapIsRingOrder
  <1> QED BY <1>1, <1>2, <1>3, PTL DEF Spec

-----------------------------------------------------------------------------
(* A truncated percentage of a part of a positive whole is in 0..100.     *)
LEMMA PercentBound ==
  ASSUME NEW a \in Nat, NEW b \in Nat, 0 < b, a <= b
  PROVE  (100 * a) \div b \in 0 .. 100
  <1>1. 100 * a \in 0 .. 100 * b
    OBVIOUS
  <1>2. (100 * a) \div b >= 0
    BY <1>1
  <1>3. (100 * a) \div b <= (100 * b) \div b
    BY <1>1
  <1>4. (100 * b) \div b = 100
    OBVIOUS
  <1> QED BY <1>2, <1>3, <1>4

(* The reference lag of a reader inside a ring of more than one packet is *)
(* in 0..100: in ring order the reader is no further behind latest than  *)
(* earliest is.                                                           *)
LEMMA RefLagInRange ==
  ASSUME NEW e \in Offsets, NEW l \in Offsets, NEW r \in Offsets,
         e # l, InRing(r, e, l)
  PROVE  RefLag(e, l, r) \in 0 .. 100
  <1> DEFINE a == LU(e, l) - RU(e, r)
             b == LU(e, l) - e
  <1>1. a \in Nat /\ b \in Nat /\ 0 < b /\ a <= b
    BY RingDistances
  <1>2. RefLag(e, l, r) = (100 * a) \div b
    BY RingDistances DEF RefLag
  <1> QED BY <1>1, <1>2, PercentBound

(* Spec 8.1 holds for every ring size whenever the ring and the reader    *)
(* stay put during CalcStats: the percent lag of lines 1143-1153 for a    *)
(* reader inside a ring of more than one packet is then in 0..100.  The  *)
(* lag_torn run shows that a ring writer moving between the loads breaks *)
(* the bound, so the condition is needed.                                 *)
StableLagInRange ==
  (pc = "rate" /\ snap.s /\ stable /\ snap.e # snap.l
     /\ InRing(snap.r, snap.e, snap.l))
    => percentlag \in 0 .. 100

THEOREM StableLagBounded == Spec => []StableLagInRange
  <1>1. TInv /\ LagMatchesReference => StableLagInRange
    <2> SUFFICES ASSUME TInv, LagMatchesReference, pc = "rate", snap.s, stable,
                        snap.e # snap.l, InRing(snap.r, snap.e, snap.l)
                 PROVE  percentlag \in 0 .. 100
      BY DEF StableLagInRange
    <2>1. snap.e \in Offsets /\ snap.l \in Offsets /\ snap.r \in Offsets
      BY DEF TInv, TypeOK
    <2>2. percentlag = RefLag(snap.e, snap.l, snap.r)
      BY DEF LagMatchesReference
    <2> QED BY <2>1, <2>2, RefLagInRange
  <1>2. Spec => []TInv
    BY TInvInit, TInvStep, PTL DEF Spec
  <1> QED BY <1>1, <1>2, LagIsReference, PTL
=============================================================================
