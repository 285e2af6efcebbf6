------------------------- MODULE RingRecoveryProofs -------------------------
(***************************************************************************)
(* Proof that auto-recovery keeps the packet data of an older-version     *)
(* ring until it has been converted or deleted by configuration, for all *)
(* values of the constants.                                               *)
(***************************************************************************)
EXTENDS RingRecovery, TLAPS

DataP == [kind : Kinds, ver : {0} \cup Versions, id : Nat, src : Nat]

(* The types the proof needs: the bounds of TypeOK are left out.          *)
TypeP ==
  /\ disk \in [Files -> DataP \cup {Absent}]
  /\ pc \in Pcs /\ ar \in Modes /\ ringinit \in {-2, -1, 0} \cup Versions
  /\ convert \in {0} \cup Versions /\ nextid \in Nat
  /\ orig \in DataP \cup {Absent}
  /\ discarded \subseteq Nat /\ converted \subseteq Nat

OrigBackup == <<"packetbuf", orig.ver>>

(* The only older-version data on disk is the starting packet buffer, and *)
(* copies of it: rename moves a file, it never makes one.                 *)
OldIsOrig ==
  /\ orig.kind = "old" => orig.ver \in Versions /\ orig.id # 0 /\ orig.src = 0
  /\ \A f \in Files : disk[f].kind = "old" => disk[f] = orig

(* Where main is constrains the ring files.                              *)
PcFiles ==
  /\ pc = "mvpb" =>
       \/ ringinit = -1 /\ disk[PB].kind # "old"
       \/ disk[PB].kind = "old" /\ ringinit = disk[PB].ver
  /\ pc = "mvsi" => ringinit \in {-1} \cup Versions
  /\ pc \in {"mvsi", "rmsi", "reinit"} => disk[PB] = Absent
  /\ pc \in {"load", "rmbpb", "rmbsi", "ready"} =>
       disk[PB].kind = "ring" /\ disk[SI] = disk[PB]
  /\ pc \in {"rmbpb", "rmbsi"} =>
       /\ convert = 1
       /\ disk[V1Backup].kind = "old" => disk[V1Backup].id \in converted

(* The starting older-version packet buffer is, until converted or        *)
(* deleted, in the packet buffer or in its .versionN backup.              *)
OrigPlaced ==
  (orig.kind = "old" /\ orig.id \notin discarded \cup converted)
    => disk[PB] = orig \/ disk[OrigBackup] = orig

IInv == TypeP /\ OldIsOrig /\ PcFiles /\ OrigPlaced
-----------------------------------------------------------------------------
(* Lemmas on the operators the actions are built from.                    *)

LEMMA FileNames ==
  /\ PB \in Files /\ SI \in Files /\ V1Backup \in Files /\ PB # SI
  /\ \A s \in Suffixes : <<"packetbuf", s>> \in Files /\ <<"streamidx", s>> \in Files
  /\ \A s, t \in Suffixes, n, m \in Names :
       <<n, s>> = <<m, t>> <=> n = m /\ s = t
  /\ \A v \in Versions : v # 0 /\ v # -1
  BY RecoveryAssumption DEF PB, SI, V1Backup, Files, Names, Suffixes

(* rename moves the content of its source to its target and leaves every *)
(* other file alone.                                                      *)
LEMMA RenameFacts ==
  ASSUME NEW d \in [Files -> DataP \cup {Absent}], NEW from \in Files,
         NEW to \in Files, from # to
  PROVE  LET r == Rename(d, from, to) IN
         /\ r \in [Files -> DataP \cup {Absent}]
         /\ \A f \in Files \ {from, to} : r[f] = d[f]
         /\ r[from] = Absent
         /\ r[to] = IF d[from] = Absent THEN d[to] ELSE d[from]
  BY DEF Rename

(* RingInitialize never reports success on an older packet buffer, and    *)
(* reports a version only for one.                                        *)
LEMMA InitResultsFacts ==
  ASSUME NEW d \in [Files -> DataP \cup {Absent}], NEW r \in RingInitResults(d)
  PROVE  /\ r \in {-2, -1, 0} \cup Versions
         /\ d[PB].kind = "old" => r \in {-2, d[PB].ver}
         /\ r = -1 => d[PB].kind # "old"
         /\ r \in Versions => d[PB].kind = "old" /\ r = d[PB].ver
  <1>1. PB \in Files BY FileNames
  <1>2. Absent.kind = "absent" BY DEF Absent
  <1>3. d[PB] \in DataP \cup {Absent} BY <1>1
  <1>4. d[PB].kind = "old" => d[PB].ver \in Versions \/ d[PB].ver = 0
    BY <1>3, <1>2 DEF DataP
  <1>5. \A v \in Versions : v # -2 /\ v # -1 /\ v # 0
    BY RecoveryAssumption
  <1> QED BY <1>2, <1>3, <1>4, <1>5 DEF RingInitResults, IsPair, DataP

(* A RingInitialize that returned 0 leaves a ring pair, and changes only  *)
(* the packet buffer and the stream index.                                *)
LEMMA InitializedFacts ==
  ASSUME NEW d \in [Files -> DataP \cup {Absent}], NEW id \in Nat
  PROVE  LET r == Initialized(d, id) IN
         /\ r \in [Files -> DataP \cup {Absent}]
         /\ r[PB].kind = "ring" /\ r[SI] = r[PB]
         /\ \A f \in Files \ {PB, SI} : r[f] = d[f]
  <1>1. PB \in Files /\ SI \in Files /\ PB # SI BY FileNames
  <1> QED BY <1>1 DEF Initialized, IsPair, DataP, Kinds
-----------------------------------------------------------------------------
LEMMA InitIInv == Init => IInv
  <1> SUFFICES ASSUME Init PROVE IInv OBVIOUS
  <1>1. PICK r \in StartRings \cup {Absent} :
          disk = [f \in Files |-> IF f \in {PB, SI} THEN r ELSE Absent]
    BY DEF Init, InitDisks
  <1>2. r \in DataP \cup {Absent} /\ Absent.kind # "old"
        /\ (r.kind = "old" => r.ver \in Versions /\ r.id = 1 /\ r.src = 0)
    BY RecoveryAssumption DEF StartRings, DataP, Kinds, Absent
  <1>3. PB \in Files BY FileNames
  <1>4. orig = r BY <1>1, <1>3 DEF Init
  <1>5. TypeP
    BY <1>1, <1>2, <1>4, RecoveryAssumption DEF Init, TypeP, Pcs
  <1>6. OldIsOrig BY <1>1, <1>2, <1>4 DEF OldIsOrig
  <1>7. PcFiles BY DEF Init, PcFiles
  <1>8. OrigPlaced BY <1>1, <1>3, <1>4 DEF OrigPlaced
  <1> QED BY <1>5, <1>6, <1>7, <1>8 DEF IInv

(* The backup names: a suffix other than none names a file that is       *)
(* neither the packet buffer nor the stream index.                        *)
LEMMA BackupNames ==
  /\ \A s \in Suffixes \ {0} :
       /\ <<"packetbuf", s>> \in Files \ {PB, SI}
       /\ <<"streamidx", s>> \in Files \ {PB, SI}
  /\ \A s, t \in Suffixes : <<"packetbuf", s>> # <<"streamidx", t>>
  /\ ({-1} \cup Versions) \subseteq Suffixes \ {0}
  /\ Absent \notin DataP /\ Absent.kind = "absent"
  BY RecoveryAssumption DEF PB, SI, Files, Names, Suffixes, Absent, DataP, Kinds

(* What IInv says of the starting packet buffer when it is older data.    *)
LEMMA OrigFacts ==
  ASSUME TypeP, OldIsOrig, orig.kind = "old"
  PROVE  /\ orig \in DataP /\ orig # Absent /\ orig.ver \in Versions
         /\ OrigBackup \in Files \ {PB, SI}
         /\ \A t \in Suffixes : OrigBackup # <<"streamidx", t>>
         /\ orig.id \in Held(orig) /\ Held(orig) \subseteq Nat
  <1>1. orig \in DataP /\ orig # Absent /\ orig.ver \in Versions /\ orig.id # 0
    BY BackupNames DEF TypeP, OldIsOrig
  <1>2. OrigBackup \in Files \ {PB, SI}
        /\ \A t \in Suffixes : OrigBackup # <<"streamidx", t>>
    BY <1>1, BackupNames DEF OrigBackup
  <1> QED BY <1>1, <1>2 DEF Held, DataP

(* A rename keeps the only older-version data a copy of the starting one. *)
LEMMA RenameKeepsOld ==
  ASSUME TypeP, OldIsOrig, NEW from \in Files, NEW to \in Files, from # to,
         orig' = orig, disk' = Rename(disk, from, to)
  PROVE  OldIsOrig'
  <1> SUFFICES ASSUME NEW f \in Files, disk'[f].kind = "old" PROVE disk'[f] = orig
    BY DEF OldIsOrig
  <1>1. Absent.kind # "old" BY BackupNames
  <1>2. CASE disk[from] = Absent BY <1>2 DEF Rename, OldIsOrig
  <1>3. CASE disk[from] # Absent
    <2>1. CASE f = from BY <1>1, <1>3, <2>1 DEF Rename, TypeP
    <2>2. CASE f = to BY <1>3, <2>2 DEF Rename, OldIsOrig, TypeP
    <2>3. CASE f \notin {from, to} BY <1>3, <2>3 DEF Rename, OldIsOrig, TypeP
    <2> QED BY <2>1, <2>2, <2>3
  <1> QED BY <1>2, <1>3

(* An unlink removes one file and leaves every other file alone.         *)
LEMMA UnlinkFacts ==
  ASSUME TypeP, OldIsOrig, NEW f \in Files, orig' = orig, disk' = Unlink(disk, f)
  PROVE  /\ disk' \in [Files -> DataP \cup {Absent}]
         /\ disk'[f] = Absent /\ \A g \in Files \ {f} : disk'[g] = disk[g]
         /\ OldIsOrig'
  <1>1. /\ disk' \in [Files -> DataP \cup {Absent}]
        /\ disk'[f] = Absent /\ \A g \in Files \ {f} : disk'[g] = disk[g]
    BY DEF Unlink, TypeP
  <1>2. Absent.kind # "old" BY BackupNames
  <1> QED BY <1>1, <1>2 DEF OldIsOrig

(* A step that stops the process and changes no file keeps IInv.         *)
LEMMA DownStep ==
  ASSUME IInv, pc' = "down",
         UNCHANGED <<disk, ar, ringinit, convert, nextid, orig, discarded, converted>>
  PROVE  IInv'
  BY DEF IInv, TypeP, OldIsOrig, PcFiles, OrigPlaced, OrigBackup, Pcs

(* Every step preserves IInv: one case per action.                        *)
LEMMA IInvStep == IInv /\ [Next]_vars => IInv'
  <1> SUFFICES ASSUME IInv, [Next]_vars PROVE IInv' OBVIOUS
  <1>0. TypeP /\ OldIsOrig /\ PcFiles /\ OrigPlaced BY DEF IInv
  <1>1. CASE Boot
    BY <1>0, <1>1 DEF Boot, IInv, TypeP, OldIsOrig, PcFiles, OrigPlaced, OrigBackup, Pcs
  <1>2. CASE RingInit
    <2>1. PICK r \in RingInitResults(disk) :
            /\ ringinit' = r
            /\ disk' = IF r = 0 THEN Initialized(disk, nextid) ELSE disk
            /\ nextid' = IF r = 0 THEN FreshId(disk) ELSE nextid
            /\ pc' = IF r = 0 THEN "ready"
                     ELSE IF r = -2 \/ ar = 0 THEN "down"
                     ELSE IF ar = 1 THEN "mvpb" ELSE "rmpb"
            /\ convert' = IF r > 0 /\ ar = 1 THEN r ELSE convert
      BY <1>2 DEF RingInit
    <2>2. /\ r \in {-2, -1, 0} \cup Versions
          /\ disk[PB].kind = "old" => r \in {-2, disk[PB].ver}
          /\ r = -1 => disk[PB].kind # "old"
          /\ r \in Versions => disk[PB].kind = "old" /\ r = disk[PB].ver
      BY <1>0, InitResultsFacts DEF TypeP
    <2>3. UNCHANGED <<ar, orig, discarded, converted>> BY <1>2 DEF RingInit
    <2>5. CASE r = 0
      <3>1. LET n == Initialized(disk, nextid) IN
            /\ n \in [Files -> DataP \cup {Absent}]
            /\ n[PB].kind = "ring" /\ n[SI] = n[PB]
            /\ \A f \in Files \ {PB, SI} : n[f] = disk[f]
        BY <1>0, InitializedFacts DEF TypeP
      <3>2. pc' = "ready" /\ disk' = Initialized(disk, nextid)
            /\ nextid' = FreshId(disk) /\ convert' = convert
        BY <2>1, <2>5
      <3>3. disk[PB].kind # "old"
        BY <1>0, <2>2, <2>5, OrigFacts, FileNames DEF OldIsOrig
      <3>4. TypeP' BY <1>0, <2>1, <2>3, <2>5, <3>1, <3>2 DEF TypeP, FreshId, Pcs
      <3>5. OldIsOrig' BY <1>0, <2>3, <3>1, <3>2 DEF OldIsOrig
      <3>6. PcFiles' BY <3>1, <3>2 DEF PcFiles
      <3>7. OrigPlaced'
        <4> SUFFICES ASSUME orig.kind = "old", orig.id \notin discarded \cup converted
                     PROVE  disk'[OrigBackup] = orig
          BY <2>3 DEF OrigPlaced, OrigBackup
        <4>1. disk[OrigBackup] = orig BY <1>0, <3>3 DEF OrigPlaced
        <4> QED BY <1>0, <4>1, <3>1, <3>2, <2>3, OrigFacts
      <3> QED BY <3>4, <3>5, <3>6, <3>7 DEF IInv
    <2>6. CASE r # 0
      <3>1. disk' = disk /\ nextid' = nextid BY <2>1, <2>6
      <3>2. /\ pc' \in {"down", "mvpb", "rmpb"}
            /\ pc' = "mvpb" => r \in {-1} \cup Versions
        BY <2>1, <2>2, <2>6
      <3>3. convert' \in {0} \cup Versions BY <1>0, <2>1, <2>2 DEF TypeP
      <3>4. TypeP' BY <1>0, <2>1, <2>2, <2>3, <3>1, <3>2, <3>3 DEF TypeP, Pcs
      <3>5. PcFiles' BY <2>1, <2>2, <3>1, <3>2 DEF PcFiles
      <3> QED BY <1>0, <2>3, <3>1, <3>4, <3>5 DEF IInv, OldIsOrig, OrigPlaced, OrigBackup
    <2> QED BY <2>5, <2>6
  <1>3. CASE MovePB
    <2>1. pc = "mvpb" /\ UNCHANGED <<ar, ringinit, convert, starts, damages, nextid, orig, discarded, converted>>
      BY <1>3 DEF MovePB
    <2>2. CASE pc' = "down" /\ UNCHANGED disk
      BY <2>1, <2>2, DownStep
    <2>3. CASE disk' = Rename(disk, PB, <<"packetbuf", ringinit>>) /\ pc' = "mvsi"
      <3> DEFINE T == <<"packetbuf", ringinit>>
      <3>1. \/ ringinit = -1 /\ disk[PB].kind # "old"
            \/ disk[PB].kind = "old" /\ ringinit = disk[PB].ver
        BY <1>0, <2>1 DEF PcFiles
      <3>2. ringinit \in {-1} \cup Versions
        BY <1>0, <3>1, OrigFacts, FileNames DEF OldIsOrig
      <3>3. T \in Files \ {PB, SI} BY <3>2, BackupNames
      <3>4. LET n == Rename(disk, PB, T) IN
            /\ n \in [Files -> DataP \cup {Absent}]
            /\ \A f \in Files \ {PB, T} : n[f] = disk[f]
            /\ n[PB] = Absent
            /\ n[T] = IF disk[PB] = Absent THEN disk[T] ELSE disk[PB]
        BY <1>0, <3>3, FileNames DEF TypeP, Rename
      <3>5. TypeP' BY <1>0, <2>1, <2>3, <3>4 DEF TypeP, Pcs
      <3>6. OldIsOrig' BY <1>0, <2>1, <2>3, <3>3, FileNames, RenameKeepsOld
      <3>7. PcFiles' BY <2>1, <2>3, <3>2, <3>4 DEF PcFiles
      <3>8. OrigPlaced'
        <4> SUFFICES ASSUME orig.kind = "old", orig.id \notin discarded \cup converted
                     PROVE  disk'[OrigBackup] = orig
          BY <2>1 DEF OrigPlaced, OrigBackup
        <4>1. OrigBackup \in Files \ {PB, SI} BY <1>0, OrigFacts
        <4>2. CASE disk[PB] = orig
          <5>1. T = OrigBackup BY <1>0, <3>1, <4>2 DEF OrigBackup
          <5> QED BY <2>3, <3>4, <4>2, <5>1, <1>0, OrigFacts
        <4>3. CASE disk[PB] # orig
          <5>1. disk[OrigBackup] = orig BY <1>0, <4>3 DEF OrigPlaced
          <5>2. T # OrigBackup
            BY <1>0, <3>1, <4>3, OrigFacts, FileNames, BackupNames DEF OldIsOrig, OrigBackup
          <5> QED BY <2>3, <3>4, <4>1, <5>1, <5>2
        <4> QED BY <4>2, <4>3
      <3> QED BY <3>5, <3>6, <3>7, <3>8 DEF IInv
    <2> QED BY <1>3, <2>2, <2>3 DEF MovePB, BackupSuffix
  <1>4. CASE MoveSI
    <2>1. pc = "mvsi" /\ UNCHANGED <<ar, ringinit, convert, starts, damages, nextid, orig, discarded, converted>>
      BY <1>4 DEF MoveSI
    <2>2. CASE pc' = "down" /\ UNCHANGED disk
      BY <2>1, <2>2, DownStep
    <2>3. CASE disk' = Rename(disk, SI, <<"streamidx", ringinit>>) /\ pc' = "reinit"
      <3> DEFINE T == <<"streamidx", ringinit>>
      <3>1. ringinit \in {-1} \cup Versions /\ disk[PB] = Absent
        BY <1>0, <2>1 DEF PcFiles
      <3>2. T \in Files \ {PB, SI} BY <3>1, BackupNames
      <3>3. LET n == Rename(disk, SI, T) IN
            /\ n \in [Files -> DataP \cup {Absent}]
            /\ \A f \in Files \ {SI, T} : n[f] = disk[f]
            /\ n[SI] = Absent
            /\ n[T] = IF disk[SI] = Absent THEN disk[T] ELSE disk[SI]
        BY <1>0, <3>2, FileNames DEF TypeP, Rename
      <3>4. TypeP' BY <1>0, <2>1, <2>3, <3>3 DEF TypeP, Pcs
      <3>5. OldIsOrig' BY <1>0, <2>1, <2>3, <3>2, FileNames, RenameKeepsOld
      <3>6. PcFiles' BY <2>1, <2>3, <3>1, <3>2, <3>3, FileNames DEF PcFiles
      <3>7. OrigPlaced'
        <4> SUFFICES ASSUME orig.kind = "old", orig.id \notin discarded \cup converted
                     PROVE  disk'[OrigBackup] = orig
          BY <2>1 DEF OrigPlaced, OrigBackup
        <4>1. disk[OrigBackup] = orig BY <1>0, <3>1, BackupNames DEF OrigPlaced
        <4>2. OrigBackup \in Files \ {SI, T} BY <1>0, <3>1, OrigFacts, BackupNames
        <4> QED BY <2>3, <3>3, <4>1, <4>2
      <3> QED BY <3>4, <3>5, <3>6, <3>7 DEF IInv
    <2> QED BY <1>4, <2>2, <2>3 DEF MoveSI, BackupSuffix
  <1>5. CASE RemovePB
    <2>1. pc = "rmpb" /\ UNCHANGED <<ar, ringinit, convert, starts, damages, nextid, orig, converted>>
      BY <1>5 DEF RemovePB, RemoveRing
    <2>2. CASE pc' = "down" /\ UNCHANGED <<disk, discarded>>
      BY <2>1, <2>2, DownStep
    <2>3. CASE disk' = Unlink(disk, PB) /\ pc' = "rmsi"
               /\ discarded' = discarded \cup Held(disk[PB])
      <3>1. /\ disk' \in [Files -> DataP \cup {Absent}]
            /\ disk'[PB] = Absent /\ \A g \in Files \ {PB} : disk'[g] = disk[g]
            /\ OldIsOrig'
        BY <1>0, <2>1, <2>3, FileNames, UnlinkFacts
      <3>2. Held(disk[PB]) \subseteq Nat BY <1>0, FileNames DEF TypeP, Held, DataP
      <3>3. TypeP' BY <1>0, <2>1, <2>3, <3>1, <3>2 DEF TypeP, Pcs
      <3>4. PcFiles' BY <2>1, <2>3, <3>1 DEF PcFiles
      <3>5. OrigPlaced'
        <4> SUFFICES ASSUME orig.kind = "old", orig.id \notin discarded' \cup converted
                     PROVE  disk'[OrigBackup] = orig
          BY <2>1 DEF OrigPlaced, OrigBackup
        <4>1. disk[PB] # orig BY <1>0, <2>3, OrigFacts
        <4>2. disk[OrigBackup] = orig BY <1>0, <2>3, <4>1 DEF OrigPlaced
        <4> QED BY <1>0, <3>1, <4>2, OrigFacts
      <3> QED BY <3>1, <3>3, <3>4, <3>5 DEF IInv
    <2> QED BY <1>5, <2>2, <2>3 DEF RemovePB, RemoveRing
  <1>6. CASE RemoveSI
    <2>1. pc = "rmsi" /\ UNCHANGED <<ar, ringinit, convert, starts, damages, nextid, orig, converted>>
      BY <1>6 DEF RemoveSI, RemoveRing
    <2>2. CASE pc' = "down" /\ UNCHANGED <<disk, discarded>>
      BY <2>1, <2>2, DownStep
    <2>3. CASE disk' = Unlink(disk, SI) /\ pc' = "reinit" /\ discarded' = discarded
      <3>1. /\ disk' \in [Files -> DataP \cup {Absent}]
            /\ disk'[SI] = Absent /\ \A g \in Files \ {SI} : disk'[g] = disk[g]
            /\ OldIsOrig'
        BY <1>0, <2>1, <2>3, FileNames, UnlinkFacts
      <3>2. TypeP' BY <1>0, <2>1, <2>3, <3>1 DEF TypeP, Pcs
      <3>3. PcFiles' BY <1>0, <2>1, <2>3, <3>1, FileNames DEF PcFiles
      <3>4. OrigPlaced'
        <4> SUFFICES ASSUME orig.kind = "old", orig.id \notin discarded \cup converted
                     PROVE  disk'[OrigBackup] = orig
          BY <2>1, <2>3 DEF OrigPlaced, OrigBackup
        <4>1. disk[PB] = Absent BY <1>0, <2>1 DEF PcFiles
        <4>2. disk[OrigBackup] = orig BY <1>0, <4>1, OrigFacts DEF OrigPlaced
        <4> QED BY <1>0, <3>1, <4>2, OrigFacts
      <3> QED BY <3>1, <3>2, <3>3, <3>4 DEF IInv
    <2> QED BY <1>6, <2>2, <2>3, FileNames DEF RemoveSI, RemoveRing
  <1>7. CASE Reinit
    <2>1. pc = "reinit" /\ UNCHANGED <<ar, ringinit, convert, starts, damages, orig, discarded, converted>>
      BY <1>7 DEF Reinit
    <2>2. PICK r \in RingInitResults(disk) :
            IF r = 0
            THEN /\ disk' = Initialized(disk, nextid) /\ nextid' = FreshId(disk)
                 /\ pc' = IF ar = 1 /\ convert > 0 THEN "load" ELSE "ready"
            ELSE pc' = "down" /\ UNCHANGED <<disk, nextid>>
      BY <1>7 DEF Reinit
    <2>3. CASE r # 0 BY <2>1, <2>2, <2>3, DownStep
    <2>4. CASE r = 0
      <3>1. LET n == Initialized(disk, nextid) IN
            /\ n \in [Files -> DataP \cup {Absent}]
            /\ n[PB].kind = "ring" /\ n[SI] = n[PB]
            /\ \A f \in Files \ {PB, SI} : n[f] = disk[f]
        BY <1>0, InitializedFacts DEF TypeP
      <3>2. /\ disk' = Initialized(disk, nextid) /\ nextid' = FreshId(disk)
            /\ pc' \in {"load", "ready"}
        BY <2>2, <2>4
      <3>3. TypeP' BY <1>0, <2>1, <3>1, <3>2 DEF TypeP, FreshId, Pcs
      <3>4. OldIsOrig' BY <1>0, <2>1, <3>1, <3>2 DEF OldIsOrig
      <3>5. PcFiles' BY <3>1, <3>2 DEF PcFiles
      <3>6. OrigPlaced'
        <4> SUFFICES ASSUME orig.kind = "old", orig.id \notin discarded \cup converted
                     PROVE  disk'[OrigBackup] = orig
          BY <2>1 DEF OrigPlaced, OrigBackup
        <4>1. disk[PB] = Absent BY <1>0, <2>1 DEF PcFiles
        <4>2. disk[OrigBackup] = orig BY <1>0, <4>1, OrigFacts DEF OrigPlaced
        <4> QED BY <1>0, <4>2, <3>1, <3>2, OrigFacts
      <3> QED BY <3>3, <3>4, <3>5, <3>6 DEF IInv
    <2> QED BY <2>3, <2>4
  <1>8. CASE Load
    <2>1. pc = "load" /\ UNCHANGED <<ar, ringinit, convert, starts, damages, nextid, orig, discarded>>
      BY <1>8 DEF Load
    <2>2. disk[PB].kind = "ring" /\ disk[SI] = disk[PB] BY <1>0, <2>1 DEF PcFiles
    <2>3. CASE convert # 1 /\ pc' = "down" /\ UNCHANGED <<disk, converted>>
      BY <2>1, <2>3, DownStep
    <2>4. CASE convert = 1 /\ pc' = "ready" /\ UNCHANGED <<disk, converted>>
      BY <1>0, <2>1, <2>2, <2>4 DEF IInv, TypeP, OldIsOrig, PcFiles, OrigPlaced, OrigBackup, Pcs
    <2>5. CASE convert = 1 /\ LoadV1 /\ pc' = "rmbpb"
      <3> DEFINE id1 == disk[V1Backup].id
      <3>1. V1Backup \in Files \ {PB, SI} /\ disk[V1Backup] \in DataP /\ id1 \in Nat
        BY <1>0, <2>5, BackupNames, RecoveryAssumption DEF LoadV1, TypeP, V1Backup, DataP
      <3>2. disk[PB] \in DataP BY <1>0, <2>2, FileNames, BackupNames DEF TypeP
      <3>3. /\ disk' \in [Files -> DataP \cup {Absent}]
            /\ disk'[PB].kind = "ring" /\ disk'[SI] = disk'[PB]
            /\ \A f \in Files \ {PB, SI} : disk'[f] = disk[f]
            /\ converted' = converted \cup {id1}
        BY <1>0, <2>2, <2>5, <3>1, <3>2, FileNames DEF LoadV1, TypeP, DataP
      <3>4. TypeP' BY <1>0, <2>1, <2>5, <3>1, <3>3 DEF TypeP, Pcs
      <3>5. OldIsOrig' BY <1>0, <2>1, <3>3 DEF OldIsOrig
      <3>6. PcFiles' BY <2>1, <2>5, <3>1, <3>3 DEF PcFiles
      <3>7. OrigPlaced'
        <4> SUFFICES ASSUME orig.kind = "old", orig.id \notin discarded \cup converted'
                     PROVE  disk'[OrigBackup] = orig
          BY <2>1 DEF OrigPlaced, OrigBackup
        <4>1. disk[PB] # orig BY <2>2
        <4>2. disk[OrigBackup] = orig BY <1>0, <3>3, <4>1 DEF OrigPlaced
        <4> QED BY <1>0, <3>3, <4>2, OrigFacts
      <3> QED BY <3>4, <3>5, <3>6, <3>7 DEF IInv
    <2> QED BY <1>8, <2>3, <2>4, <2>5 DEF Load
  <1>9. CASE RemoveBackupPB
    <2>1. pc = "rmbpb" /\ UNCHANGED <<ar, ringinit, convert, starts, damages, nextid, orig, discarded, converted>>
      BY <1>9 DEF RemoveBackupPB, RemoveBackup
    <2>2. /\ disk[PB].kind = "ring" /\ disk[SI] = disk[PB] /\ convert = 1
          /\ disk[V1Backup].kind = "old" => disk[V1Backup].id \in converted
      BY <1>0, <2>1 DEF PcFiles
    <2>3. CASE pc' = "down" /\ UNCHANGED disk
      BY <2>1, <2>3, DownStep
    <2>4. CASE disk' = Unlink(disk, V1Backup) /\ pc' = "rmbsi"
      <3>1. V1Backup \in Files \ {PB, SI}
        BY BackupNames, RecoveryAssumption DEF V1Backup
      <3>2. /\ disk' \in [Files -> DataP \cup {Absent}]
            /\ disk'[V1Backup] = Absent
            /\ \A g \in Files \ {V1Backup} : disk'[g] = disk[g]
            /\ OldIsOrig'
        BY <1>0, <2>1, <2>4, <3>1, UnlinkFacts
      <3>3. TypeP' BY <1>0, <2>1, <2>4, <3>2 DEF TypeP, Pcs
      <3>4. PcFiles' BY <2>1, <2>2, <2>4, <3>1, <3>2, BackupNames, FileNames DEF PcFiles
      <3>5. OrigPlaced'
        <4> SUFFICES ASSUME orig.kind = "old", orig.id \notin discarded \cup converted
                     PROVE  disk'[OrigBackup] = orig
          BY <2>1 DEF OrigPlaced, OrigBackup
        <4>1. disk[PB] # orig BY <2>2
        <4>2. disk[OrigBackup] = orig BY <1>0, <4>1 DEF OrigPlaced
        <4>3. OrigBackup # V1Backup BY <2>2, <4>2
        <4> QED BY <1>0, <3>2, <4>2, <4>3, OrigFacts
      <3> QED BY <3>2, <3>3, <3>4, <3>5 DEF IInv
    <2> QED BY <1>9, <2>2, <2>3, <2>4 DEF RemoveBackupPB, RemoveBackup, V1Backup
  <1>10. CASE RemoveBackupSI
    <2>1. pc = "rmbsi" /\ UNCHANGED <<ar, ringinit, convert, starts, damages, nextid, orig, discarded, converted>>
      BY <1>10 DEF RemoveBackupSI, RemoveBackup
    <2>2. disk[PB].kind = "ring" /\ disk[SI] = disk[PB] /\ convert = 1
      BY <1>0, <2>1 DEF PcFiles
    <2>3. CASE pc' = "down" /\ UNCHANGED disk
      BY <2>1, <2>3, DownStep
    <2>4. CASE disk' = Unlink(disk, <<"streamidx", 1>>) /\ pc' = "ready"
      <3> DEFINE F == <<"streamidx", 1>>
      <3>1. F \in Files \ {PB, SI} /\ 1 \in Suffixes
        BY BackupNames, RecoveryAssumption
      <3>2. /\ disk' \in [Files -> DataP \cup {Absent}]
            /\ \A g \in Files \ {F} : disk'[g] = disk[g]
            /\ OldIsOrig'
        BY <1>0, <2>1, <2>4, <3>1, UnlinkFacts
      <3>3. TypeP' BY <1>0, <2>1, <2>4, <3>2 DEF TypeP, Pcs
      <3>4. PcFiles' BY <2>2, <2>4, <3>1, <3>2, FileNames DEF PcFiles
      <3>5. OrigPlaced'
        <4> SUFFICES ASSUME orig.kind = "old", orig.id \notin discarded \cup converted
                     PROVE  disk'[OrigBackup] = orig
          BY <2>1 DEF OrigPlaced, OrigBackup
        <4>1. disk[OrigBackup] = orig BY <1>0, <2>2 DEF OrigPlaced
        <4> QED BY <1>0, <3>1, <3>2, <4>1, OrigFacts
      <3> QED BY <3>2, <3>3, <3>4, <3>5 DEF IInv
    <2> QED BY <1>10, <2>2, <2>3, <2>4 DEF RemoveBackupSI, RemoveBackup
  <1>11. CASE Crash
    BY <1>11, DownStep DEF Crash
  <1>12. CASE Damage
    <2>1. pc = "ready" /\ disk' = [disk EXCEPT ![PB].kind = "bad"] /\ pc' = "down"
          /\ UNCHANGED <<ar, ringinit, convert, starts, nextid, orig, discarded, converted>>
      BY <1>12 DEF Damage
    <2>2. disk[PB].kind = "ring" /\ disk[PB] \in DataP
      BY <1>0, <2>1, FileNames, BackupNames DEF PcFiles, TypeP
    <2>3. /\ disk' \in [Files -> DataP \cup {Absent}]
          /\ disk'[PB].kind = "bad"
          /\ \A f \in Files \ {PB} : disk'[f] = disk[f]
      BY <1>0, <2>1, <2>2, FileNames DEF TypeP, DataP, Kinds
    <2>4. TypeP' BY <1>0, <2>1, <2>3 DEF TypeP, Pcs
    <2>5. OldIsOrig' BY <1>0, <2>1, <2>3 DEF OldIsOrig
    <2>6. PcFiles' BY <2>1 DEF PcFiles
    <2>7. OrigPlaced'
      <3> SUFFICES ASSUME orig.kind = "old", orig.id \notin discarded \cup converted
                   PROVE  disk'[OrigBackup] = orig
        BY <2>1 DEF OrigPlaced, OrigBackup
      <3>1. disk[OrigBackup] = orig BY <1>0, <2>2 DEF OrigPlaced
      <3> QED BY <1>0, <2>3, <3>1, OrigFacts
    <2> QED BY <2>4, <2>5, <2>6, <2>7 DEF IInv
  <1>13. CASE UNCHANGED vars
    BY <1>0, <1>13 DEF vars, IInv, TypeP, OldIsOrig, PcFiles, OrigPlaced, OrigBackup
  <1> QED BY <1>1, <1>2, <1>3, <1>4, <1>5, <1>6, <1>7, <1>8, <1>9, <1>10,
             <1>11, <1>12, <1>13 DEF Next

(* IInv gives OldDataKept: the data is in the packet buffer (suffix none) *)
(* or in its .versionN backup.                                            *)
LEMMA IInvOldDataKept == IInv => OldDataKept
  <1> SUFFICES ASSUME IInv, NEW i \in OldData \ (discarded \cup converted)
               PROVE  \E s \in Suffixes : i \in Held(disk[<<"packetbuf", s>>])
    BY DEF OldDataKept
  <1>1. orig.kind = "old" /\ i = orig.id BY DEF OldData
  <1>2. i \in Held(orig) /\ orig.ver \in Suffixes
    BY <1>1, OrigFacts, BackupNames DEF IInv
  <1>3. disk[PB] = orig \/ disk[OrigBackup] = orig BY <1>1 DEF IInv, OrigPlaced
  <1>4. 0 \in Suffixes BY DEF Suffixes
  <1> QED BY <1>2, <1>3, <1>4 DEF PB, OrigBackup

(* Auto-recovery never loses the packet data of an older-version ring     *)
(* before LoadBufferV1 has converted it, unless a start with              *)
(* autorecovery = 2 deleted it (main, lines 212-332), for every set of    *)
(* versions and modes: OldDataKept is an invariant of Spec.               *)
THEOREM OldDataPreserved == Spec => []OldDataKept
  <1>1. Init => IInv BY InitIInv
  <1>2. IInv /\ [Next]_vars => IInv' BY IInvStep
  <1>3. IInv => OldDataKept BY IInvOldDataKept
  <1> QED BY <1>1, <1>2, <1>3, PTL DEF Spec
-----------------------------------------------------------------------------
(* The bounds of TypeOK.  Every start mints at most one ring id: main     *)
(* calls RingInitialize once, and a second time only after the first     *)
(* failed without creating a ring.  So the next id stays within two of   *)
(* the starts, one less while the start may still create its ring.       *)

PendingPcs == {"init", "mvpb", "mvsi", "rmpb", "rmsi", "reinit"}

IdsBelow(d, n) == \A f \in Files : d[f].id < n /\ d[f].src < n

BoundInv ==
  /\ starts \in 0 .. MaxStarts /\ damages \in 0 .. MaxDamage
  /\ 2 <= nextid
  /\ nextid + (IF pc \in PendingPcs THEN 1 ELSE 0) <= starts + 2
  /\ IdsBelow(disk, nextid)
  /\ orig.id < nextid /\ orig.src < nextid
  /\ \A i \in discarded \cup converted : i < nextid

(* rename and unlink only move or drop files: no id appears.              *)
LEMMA RenameBelow ==
  ASSUME NEW d \in [Files -> DataP \cup {Absent}], NEW from \in Files, NEW to,
         NEW n \in Nat, 0 < n, IdsBelow(d, n)
  PROVE  IdsBelow(Rename(d, from, to), n)
  BY DEF Rename, IdsBelow, Absent

LEMMA UnlinkBelow ==
  ASSUME NEW d \in [Files -> DataP \cup {Absent}], NEW f,
         NEW n \in Nat, 0 < n, IdsBelow(d, n)
  PROVE  IdsBelow(Unlink(d, f), n)
  BY DEF Unlink, IdsBelow, Absent

(* RingInitialize gives a new ring the next id and nothing else.          *)
LEMMA InitializedBelow ==
  ASSUME NEW d \in [Files -> DataP \cup {Absent}], nextid \in Nat, 0 < nextid,
         IdsBelow(d, nextid)
  PROVE  /\ IdsBelow(Initialized(d, nextid), FreshId(d))
         /\ FreshId(d) \in {nextid, nextid + 1}
  <1>1. PB \in Files /\ SI \in Files /\ PB # SI BY FileNames
  <1>2. CASE IsPair(d) BY <1>2 DEF Initialized, FreshId
  <1>3. CASE ~IsPair(d)
    <2> DEFINE new == [kind |-> "ring", ver |-> 0, id |-> nextid, src |-> 0]
    <2>1. Initialized(d, nextid) = [d EXCEPT ![PB] = new, ![SI] = new]
          /\ FreshId(d) = nextid + 1
      BY <1>3 DEF Initialized, FreshId
    <2> QED BY <1>1, <2>1 DEF IdsBelow, DataP, Absent
  <1> QED BY <1>2, <1>3

LEMMA BoundInit == Init => BoundInv
  <1> SUFFICES ASSUME Init PROVE BoundInv OBVIOUS
  <1>1. PICK r \in StartRings \cup {Absent} :
          disk = [f \in Files |-> IF f \in {PB, SI} THEN r ELSE Absent]
    BY DEF Init, InitDisks
  <1>2. r.id < 2 /\ r.src < 2 BY DEF StartRings, Absent
  <1>3. PB \in Files BY FileNames
  <1>4. Absent.id = 0 /\ Absent.src = 0 BY DEF Absent
  <1>5. IdsBelow(disk, nextid) BY <1>1, <1>2, <1>4 DEF Init, IdsBelow
  <1>6. orig.id < nextid /\ orig.src < nextid BY <1>1, <1>2, <1>3 DEF Init
  <1> QED BY <1>5, <1>6, RecoveryAssumption DEF Init, BoundInv, PendingPcs

(* A start that creates its ring uses up the id it had in reserve.       *)
LEMMA MintStep ==
  ASSUME BoundInv, nextid \in Nat, starts \in Nat, orig.id \in Nat, orig.src \in Nat,
         discarded \subseteq Nat, converted \subseteq Nat,
         pc \in PendingPcs, pc' \notin PendingPcs,
         nextid' \in {nextid, nextid + 1}, IdsBelow(disk', nextid'),
         UNCHANGED <<starts, damages, orig, discarded, converted>>
  PROVE  BoundInv'
  <1>1. nextid + 1 <= starts + 2 /\ 2 <= nextid BY DEF BoundInv
  <1>2. (IF pc' \in PendingPcs THEN 1 ELSE 0) = 0 OBVIOUS
  <1>3. CASE nextid' = nextid BY <1>1, <1>2, <1>3 DEF BoundInv
  <1>4. CASE nextid' = nextid + 1 BY <1>1, <1>2, <1>4 DEF BoundInv
  <1> QED BY <1>3, <1>4

(* Every step keeps BoundInv: one case per action.                        *)
LEMMA BoundStep == IInv /\ BoundInv /\ [Next]_vars => BoundInv'
  <1> SUFFICES ASSUME IInv, BoundInv, [Next]_vars PROVE BoundInv' OBVIOUS
  <1>0. /\ TypeP /\ nextid \in Nat /\ 0 < nextid /\ starts \in Nat
        /\ disk \in [Files -> DataP \cup {Absent}]
        /\ orig.id \in Nat /\ orig.src \in Nat
        /\ discarded \subseteq Nat /\ converted \subseteq Nat
    BY DEF IInv, TypeP, BoundInv, DataP, Absent
  <1> DEFINE Keep == UNCHANGED <<starts, damages, nextid, orig>>
  (* A step that changes no id and no count, and does not enter a state  *)
  (* that may still create a ring.                                        *)
  <1>a. ASSUME Keep, IdsBelow(disk', nextid), pc' \in PendingPcs => pc \in PendingPcs,
               \A i \in discarded' \cup converted' : i < nextid
        PROVE  BoundInv'
    <2>1. /\ starts' \in 0 .. MaxStarts /\ damages' \in 0 .. MaxDamage /\ 2 <= nextid'
          /\ orig'.id < nextid' /\ orig'.src < nextid'
      BY <1>a DEF BoundInv
    <2>2. nextid' + (IF pc' \in PendingPcs THEN 1 ELSE 0) <= starts' + 2
      <3>1. nextid + (IF pc \in PendingPcs THEN 1 ELSE 0) <= starts + 2 BY DEF BoundInv
      <3>2. starts \in Nat BY DEF BoundInv
      <3> QED BY <1>0, <1>a, <3>1, <3>2
    <2> QED BY <1>a, <2>1, <2>2 DEF BoundInv
  <1>1. CASE Boot
    <2>1. /\ pc = "down" /\ pc' = "init" /\ starts < MaxStarts /\ starts' = starts + 1
          /\ UNCHANGED <<disk, damages, nextid, orig, discarded, converted>>
      BY <1>1 DEF Boot
    <2>2. nextid <= starts + 2 /\ starts \in Nat /\ MaxStarts \in Nat
      BY <1>0, <2>1, RecoveryAssumption DEF BoundInv, PendingPcs
    <2>3. nextid' + 1 <= starts' + 2 /\ starts' \in 0 .. MaxStarts BY <1>0, <2>1, <2>2
    <2>4. pc' \in PendingPcs BY <2>1 DEF PendingPcs
    <2> QED BY <2>1, <2>3, <2>4 DEF BoundInv
  <1>2. CASE RingInit
    <2>1. PICK r \in RingInitResults(disk) :
            /\ disk' = IF r = 0 THEN Initialized(disk, nextid) ELSE disk
            /\ nextid' = IF r = 0 THEN FreshId(disk) ELSE nextid
            /\ pc' = IF r = 0 THEN "ready"
                     ELSE IF r = -2 \/ ar = 0 THEN "down"
                     ELSE IF ar = 1 THEN "mvpb" ELSE "rmpb"
      BY <1>2 DEF RingInit
    <2>2. pc = "init" /\ UNCHANGED <<starts, damages, orig, discarded, converted>>
      BY <1>2 DEF RingInit
    <2>3. CASE r = 0
      <3>1. IdsBelow(disk', nextid') /\ nextid' \in {nextid, nextid + 1} /\ pc' = "ready"
        BY <1>0, <2>1, <2>3, InitializedBelow DEF BoundInv
      <3>2. pc \in PendingPcs /\ pc' \notin PendingPcs BY <2>2, <3>1 DEF PendingPcs
      <3> QED BY <1>0, <2>2, <3>1, <3>2, MintStep
    <2>4. CASE r # 0
      <3>1. disk' = disk /\ nextid' = nextid /\ pc' \in {"down", "mvpb", "rmpb"}
        BY <2>1, <2>4
      <3>2. /\ IdsBelow(disk', nextid) /\ (pc' \in PendingPcs => pc \in PendingPcs)
            /\ \A i \in discarded' \cup converted' : i < nextid
        BY <2>2, <3>1 DEF BoundInv, PendingPcs
      <3> QED BY <2>2, <3>1, <3>2, <1>a
    <2> QED BY <2>3, <2>4
  <1>3. CASE MovePB
    <2>1. pc = "mvpb" /\ pc' \in {"mvsi", "down"} /\ Keep
          /\ UNCHANGED <<discarded, converted>>
          /\ disk' \in {disk, Rename(disk, PB, <<"packetbuf", BackupSuffix(ringinit)>>)}
      BY <1>3 DEF MovePB
    <2>2. IdsBelow(disk', nextid)
      BY <1>0, <2>1, FileNames, RenameBelow DEF BoundInv
    <2> QED BY <2>1, <2>2, <1>a DEF BoundInv, PendingPcs
  <1>4. CASE MoveSI
    <2>1. pc = "mvsi" /\ pc' \in {"reinit", "down"} /\ Keep
          /\ UNCHANGED <<discarded, converted>>
          /\ disk' \in {disk, Rename(disk, SI, <<"streamidx", BackupSuffix(ringinit)>>)}
      BY <1>4 DEF MoveSI
    <2>2. IdsBelow(disk', nextid)
      BY <1>0, <2>1, FileNames, RenameBelow DEF BoundInv
    <2> QED BY <2>1, <2>2, <1>a DEF BoundInv, PendingPcs
  <1>5. CASE RemovePB
    <2>1. pc = "rmpb" /\ pc' \in {"rmsi", "down"} /\ Keep /\ UNCHANGED converted
          /\ disk' \in {disk, Unlink(disk, PB)}
          /\ discarded' \subseteq discarded \cup Held(disk[PB])
      BY <1>5 DEF RemovePB, RemoveRing
    <2>2. IdsBelow(disk', nextid)
      BY <1>0, <2>1, UnlinkBelow DEF BoundInv
    <2>3. \A i \in Held(disk[PB]) : i < nextid
      BY <2>2, <1>0, FileNames DEF BoundInv, IdsBelow, Held
    <2> QED BY <2>1, <2>2, <2>3, <1>a DEF BoundInv, PendingPcs
  <1>6. CASE RemoveSI
    <2>1. pc = "rmsi" /\ pc' \in {"reinit", "down"} /\ Keep
          /\ UNCHANGED <<discarded, converted>>
          /\ disk' \in {disk, Unlink(disk, SI)}
      BY <1>6 DEF RemoveSI, RemoveRing, PB, SI
    <2>2. IdsBelow(disk', nextid)
      BY <1>0, <2>1, UnlinkBelow DEF BoundInv
    <2> QED BY <2>1, <2>2, <1>a DEF BoundInv, PendingPcs
  <1>7. CASE Reinit
    <2>1. pc = "reinit" /\ UNCHANGED <<starts, damages, orig, discarded, converted>>
      BY <1>7 DEF Reinit
    <2>2. PICK r \in RingInitResults(disk) :
            IF r = 0
            THEN /\ disk' = Initialized(disk, nextid) /\ nextid' = FreshId(disk)
                 /\ pc' = IF ar = 1 /\ convert > 0 THEN "load" ELSE "ready"
            ELSE pc' = "down" /\ UNCHANGED <<disk, nextid>>
      BY <1>7 DEF Reinit
    <2>3. CASE r = 0
      <3>1. IdsBelow(disk', nextid') /\ nextid' \in {nextid, nextid + 1}
            /\ pc' \in {"load", "ready"}
        BY <1>0, <2>2, <2>3, InitializedBelow DEF BoundInv
      <3>2. pc \in PendingPcs /\ pc' \notin PendingPcs BY <2>1, <3>1 DEF PendingPcs
      <3> QED BY <1>0, <2>1, <3>1, <3>2, MintStep
    <2>4. CASE r # 0
      <3>1. pc' = "down" /\ UNCHANGED <<disk, nextid>> BY <2>2, <2>4
      <3> QED BY <2>1, <3>1, <1>a DEF BoundInv, PendingPcs
    <2> QED BY <2>3, <2>4
  <1>8. CASE Load
    <2>1. pc = "load" /\ pc' \notin PendingPcs /\ Keep /\ UNCHANGED discarded
      BY <1>8 DEF Load, PendingPcs
    <2>2. disk[PB].kind = "ring" /\ disk[SI] = disk[PB]
      BY <1>0, <2>1 DEF IInv, PcFiles
    <2>3. CASE LoadV1
      <3> DEFINE id1 == disk[V1Backup].id
      <3>1. V1Backup \in Files /\ id1 < nextid
        BY <1>0, BackupNames, RecoveryAssumption DEF BoundInv, IdsBelow, V1Backup
      <3>2. disk[PB] \in DataP BY <1>0, <2>2, FileNames, BackupNames
      <3>3. IdsBelow(disk', nextid) /\ converted' = converted \cup {id1}
        BY <1>0, <2>3, <3>1, <3>2, FileNames DEF LoadV1, BoundInv, IdsBelow, DataP
      <3> QED BY <2>1, <3>1, <3>3, <1>a DEF BoundInv
    <2>4. CASE UNCHANGED <<disk, converted>> BY <2>1, <2>4, <1>a DEF BoundInv
    <2> QED BY <1>8, <2>3, <2>4 DEF Load
  <1>9. CASE RemoveBackupPB \/ RemoveBackupSI
    <2>1. pc \in {"rmbpb", "rmbsi"} /\ pc' \notin PendingPcs /\ Keep
          /\ UNCHANGED <<discarded, converted>>
          /\ \E f \in Files \cup {<<"packetbuf", convert>>, <<"streamidx", convert>>} :
               disk' \in {disk, Unlink(disk, f)}
      BY <1>9 DEF RemoveBackupPB, RemoveBackupSI, RemoveBackup, PendingPcs
    <2>2. IdsBelow(disk', nextid) BY <1>0, <2>1, UnlinkBelow DEF BoundInv
    <2> QED BY <2>1, <2>2, <1>a DEF BoundInv
  <1>10. CASE Crash
    BY <1>10, <1>a DEF Crash, BoundInv, PendingPcs
  <1>11. CASE Damage
    <2>1. pc = "ready" /\ disk' = [disk EXCEPT ![PB].kind = "bad"] /\ pc' = "down"
          /\ damages < MaxDamage /\ damages' = damages + 1
          /\ UNCHANGED <<starts, nextid, orig, discarded, converted>>
      BY <1>11 DEF Damage
    <2>2. IdsBelow(disk', nextid)
      BY <1>0, <2>1, FileNames DEF BoundInv, IdsBelow
    <2>3. damages' \in 0 .. MaxDamage BY <2>1, RecoveryAssumption DEF BoundInv
    <2>4. nextid' + (IF pc' \in PendingPcs THEN 1 ELSE 0) <= starts' + 2
      BY <2>1 DEF BoundInv, PendingPcs
    <2> QED BY <2>1, <2>2, <2>3, <2>4 DEF BoundInv
  <1>12. CASE UNCHANGED vars BY <1>12 DEF vars, BoundInv, IdsBelow
  <1> QED BY <1>1, <1>2, <1>3, <1>4, <1>5, <1>6, <1>7, <1>8, <1>9, <1>10,
             <1>11, <1>12 DEF Next

(* A record of the proof's types whose ids are below the next id is a     *)
(* record of TypeOK.                                                      *)
LEMMA DataBelow ==
  ASSUME NEW x \in DataP \cup {Absent}, NEW n \in Nat, n <= MaxStarts + 3,
         x.id < n, x.src < n
  PROVE  x \in Data \cup {Absent}
  <1>1. CASE x = Absent BY <1>1
  <1>2. CASE x \in DataP
    <2>1. x = [kind |-> x.kind, ver |-> x.ver, id |-> x.id, src |-> x.src]
          /\ x.kind \in Kinds /\ x.ver \in {0} \cup Versions
      BY <1>2 DEF DataP
    <2>2. x.id \in Ids /\ x.src \in Ids BY <1>2, RecoveryAssumption DEF DataP, Ids
    <2> QED BY <2>1, <2>2 DEF Data
  <1> QED BY <1>1, <1>2

LEMMA BoundTypeOK == IInv /\ BoundInv => TypeOK
  <1> SUFFICES ASSUME IInv, BoundInv PROVE TypeOK OBVIOUS
  <1>1. /\ TypeP /\ nextid \in Nat /\ 2 <= nextid /\ nextid <= MaxStarts + 2
        /\ MaxStarts \in Nat
    BY RecoveryAssumption DEF IInv, TypeP, BoundInv, PendingPcs
  <1>2. disk \in [Files -> Data \cup {Absent}]
    <2> SUFFICES ASSUME NEW f \in Files PROVE disk[f] \in Data \cup {Absent}
      BY <1>1 DEF TypeP
    <2>1. disk[f] \in DataP \cup {Absent} /\ disk[f].id < nextid /\ disk[f].src < nextid
      BY <1>1 DEF TypeP, BoundInv, IdsBelow
    <2> QED BY <1>1, <2>1, DataBelow
  <1>3. orig \in Data \cup {Absent} BY <1>1, DataBelow DEF TypeP, BoundInv
  <1>4. nextid \in Ids /\ discarded \subseteq Ids /\ converted \subseteq Ids
    BY <1>1 DEF TypeP, BoundInv, Ids
  <1> QED BY <1>1, <1>2, <1>3, <1>4 DEF TypeOK, TypeP, BoundInv

(* For every set of versions, modes and bounds, main keeps every ring id  *)
(* it mints, and every id it records as converted or deleted, within     *)
(* the two of the shipped ring plus one per start (the RingInitialize    *)
(* calls of lines 212-332): TypeOK is an invariant of Spec.               *)
THEOREM RecoveryTypeCorrect == Spec => []TypeOK
  <1>1. Init => IInv /\ BoundInv BY InitIInv, BoundInit
  <1>2. IInv /\ BoundInv /\ [Next]_vars => IInv' /\ BoundInv' BY IInvStep, BoundStep
  <1>3. IInv /\ BoundInv => TypeOK BY BoundTypeOK
  <1> QED BY <1>1, <1>2, <1>3, PTL DEF Spec

-----------------------------------------------------------------------------
(* The server loop only runs on a current-format ring pair: every path of *)
(* main to line 343 ends in a RingInitialize that returned 0, and the     *)
(* load and the backup removals after it change only what the new ring   *)
(* holds and the backups.  PcFiles carries this from the Reinit step on.  *)
THEOREM ServesOnlyCurrentRing == Spec => []ServesCurrentRing
  <1>1. IInv => ServesCurrentRing
    <2> SUFFICES ASSUME IInv, pc = "ready" PROVE IsPair(disk)
      BY DEF ServesCurrentRing
    <2>1. disk[PB].kind = "ring" /\ disk[SI] = disk[PB]
      BY DEF IInv, PcFiles
    <2>2. Absent.kind = "absent"
      BY DEF Absent
    <2> QED BY <2>1, <2>2 DEF IsPair
  <1> QED BY <1>1, InitIInv, IInvStep, PTL DEF Spec
=============================================================================
