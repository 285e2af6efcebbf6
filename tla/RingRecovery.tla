---------------------------- MODULE RingRecovery ----------------------------
(***************************************************************************)
(* Ring initialisation and auto-recovery in main (src/src/ringserver.c,   *)
(* lines 197-331), over the files of the ring directory, across restarts *)
(* of the process.                                                        *)
(*                                                                         *)
(* A file is named by its base name and a suffix code: 0 for none, -1    *)
(* for .corrupt and N for .versionN.  A file holds a data set: its kind  *)
(* (a current-format ring, a corrupt ring, or a ring in an older on-disk *)
(* version), the identity of the ring it was created as, and the         *)
(* older-version data loaded into it, if any.                            *)
(* rename() and unlink() are atomic; the process can die between any two *)
(* of them and is started again on the same files, possibly with another *)
(* autorecovery setting.  A running server can die while writing the     *)
(* ring and leave it corrupt.                                             *)
(*                                                                         *)
(* RingInitialize and LoadBufferV1 belong to the ring engine, which is    *)
(* not under src/; they are modelled from spec section 6.                 *)
(***************************************************************************)
EXTENDS Integers, FiniteSets

CONSTANTS
  Versions,    \* older on-disk versions RingInitialize reports
  Modes,       \* autorecovery settings a start may have
  MaxStarts,   \* bound on process starts
  MaxDamage    \* bound on rings left corrupt by a dying server

ASSUME RecoveryAssumption ==
  /\ Versions \subseteq Nat \ {0} /\ 1 \in Versions
  /\ Modes \subseteq {0, 1, 2}
  /\ MaxStarts \in Nat /\ MaxDamage \in Nat

Absent == [kind |-> "absent", ver |-> 0, id |-> 0, src |-> 0]
Kinds == {"ring", "bad", "old"}
Ids == 0 .. (MaxStarts + 2)
Data == [kind : Kinds, ver : {0} \cup Versions, id : Ids, src : Ids]

Names == {"packetbuf", "streamidx"}
Suffixes == {0, -1} \cup Versions
Files == Names \X Suffixes
PB == <<"packetbuf", 0>>
SI == <<"streamidx", 0>>

Pcs == {"down", "init", "mvpb", "mvsi", "rmpb", "rmsi", "reinit", "load",
        "rmbpb", "rmbsi", "ready"}

VARIABLES
  disk,       \* the content of every file of the ring directory
  pc,         \* where the process is in main, "down" when not running
  ar,         \* config.autorecovery of this start
  ringinit,   \* the first RingInitialize result of this start
  convert,    \* convert_version
  starts, damages, nextid,
  orig,       \* history: the packet buffer the disk started with
  discarded,  \* history: the data sets an autorecovery = 2 start deleted
  converted   \* history: the data sets LoadBufferV1 loaded into a new ring

vars == <<disk, pc, ar, ringinit, convert, starts, damages, nextid,
          orig, discarded, converted>>

(* Type invariant, with the bounds.                                       *)
TypeOK ==
  /\ disk \in [Files -> Data \cup {Absent}]
  /\ pc \in Pcs /\ ar \in Modes /\ ringinit \in {-2, -1, 0} \cup Versions
  /\ convert \in {0} \cup Versions
  /\ starts \in 0 .. MaxStarts /\ damages \in 0 .. MaxDamage
  /\ nextid \in Ids /\ orig \in Data \cup {Absent}
  /\ discarded \subseteq Ids /\ converted \subseteq Ids

(* The data sets held by a file: its own and the one loaded into it.      *)
Held(d) == IF d = Absent THEN {} ELSE {d.id, d.src} \ {0}

IsPair(d) == d[PB] # Absent /\ d[PB].kind = "ring" /\ d[SI] = d[PB]

(* RingInitialize: 0 on a current ring pair, or after creating one where  *)
(* there is none; the version of an older packet buffer; -1 on a corrupt *)
(* one; -2 on an unrecoverable error.  For one file without the other    *)
(* the engine may report corruption or start a new pair.                  *)
RingInitResults(d) ==
  {-2} \cup
  IF IsPair(d) \/ (d[PB] = Absent /\ d[SI] = Absent) THEN {0}
  ELSE IF d[PB].kind = "old" THEN {d[PB].ver}
  ELSE IF d[PB].kind = "bad" THEN {-1}
  ELSE {-1, 0}

(* Mutant: an engine that creates a new packet buffer and keeps the       *)
(* stream index it finds.                                                 *)
InitializedKeepIndex(d, id) ==
  IF IsPair(d) THEN d
  ELSE [d EXCEPT ![PB] = [kind |-> "ring", ver |-> 0, id |-> id, src |-> 0]]

(* The files after a RingInitialize that returned 0.                      *)
Initialized(d, id) ==
  IF IsPair(d) THEN d
  ELSE LET new == [kind |-> "ring", ver |-> 0, id |-> id, src |-> 0]
       IN  [d EXCEPT ![PB] = new, ![SI] = new]

FreshId(d) == IF IsPair(d) THEN nextid ELSE nextid + 1

(* rename(from, to): a missing source is ENOENT, which the code accepts.  *)
Rename(d, from, to) ==
  IF d[from] = Absent THEN d ELSE [d EXCEPT ![to] = d[from], ![from] = Absent]

Unlink(d, f) == [d EXCEPT ![f] = Absent]

(* The suffix of the backups is the code of the first result: .corrupt  *)
(* for -1, .versionN for N (lines 235-249).                              *)
BackupSuffix(r) == r

StartRings ==
  {[kind |-> "ring", ver |-> 0, id |-> 1, src |-> 0],
   [kind |-> "bad", ver |-> 0, id |-> 1, src |-> 0]}
  \cup {[kind |-> "old", ver |-> v, id |-> 1, src |-> 0] : v \in Versions}

InitDisks ==
  {[f \in Files |-> IF f \in {PB, SI} THEN r ELSE Absent] : r \in StartRings \cup {Absent}}

Init ==
  /\ disk \in InitDisks
  /\ pc = "down" /\ ar \in Modes /\ ringinit = 0 /\ convert = 0
  /\ starts = 0 /\ damages = 0 /\ nextid = 2
  /\ orig = disk[PB]
  /\ discarded = {} /\ converted = {}

(* The process is started (lines 149 and 197).                           *)
Boot ==
  /\ pc = "down" /\ starts < MaxStarts
  /\ \E m \in Modes : ar' = m
  /\ pc' = "init" /\ convert' = 0 /\ starts' = starts + 1
  /\ UNCHANGED <<disk, ringinit, damages, nextid, orig, discarded, converted>>

(* Mutant: convert_version is set from every nonzero result, the -1 of a *)
(* corrupt ring included, not only in the .versionN branch.              *)
RingInitConvertAny ==
  /\ pc = "init"
  /\ \E r \in RingInitResults(disk) :
       /\ ringinit' = r
       /\ disk' = IF r = 0 THEN Initialized(disk, nextid) ELSE disk
       /\ nextid' = IF r = 0 THEN FreshId(disk) ELSE nextid
       /\ pc' = IF r = 0 THEN "ready"
                ELSE IF r = -2 \/ ar = 0 THEN "down"
                ELSE IF ar = 1 THEN "mvpb" ELSE "rmpb"
       /\ convert' = IF r # 0 /\ ar = 1 THEN r ELSE convert
  /\ UNCHANGED <<ar, starts, damages, orig, discarded, converted>>

(* The first RingInitialize and the choice of recovery (lines 212-287).  *)
RingInit ==
  /\ pc = "init"
  /\ \E r \in RingInitResults(disk) :
       /\ ringinit' = r
       /\ disk' = IF r = 0 THEN Initialized(disk, nextid) ELSE disk
       /\ nextid' = IF r = 0 THEN FreshId(disk) ELSE nextid
       /\ pc' = IF r = 0 THEN "ready"
                ELSE IF r = -2 \/ ar = 0 THEN "down"
                ELSE IF ar = 1 THEN "mvpb" ELSE "rmpb"
       /\ convert' = IF r > 0 /\ ar = 1 THEN r ELSE convert
  /\ UNCHANGED <<ar, starts, damages, orig, discarded, converted>>

(* rename of the packet buffer to its backup (lines 252-257).            *)
MovePB ==
  /\ pc = "mvpb"
  /\ \/ disk' = Rename(disk, PB, <<"packetbuf", BackupSuffix(ringinit)>>)
        /\ pc' = "mvsi"
     \/ pc' = "down" /\ UNCHANGED disk
  /\ UNCHANGED <<ar, ringinit, convert, starts, damages, nextid, orig, discarded, converted>>

(* rename of the stream index to its backup (lines 258-263).             *)
MoveSI ==
  /\ pc = "mvsi"
  /\ \/ disk' = Rename(disk, SI, <<"streamidx", BackupSuffix(ringinit)>>)
        /\ pc' = "reinit"
     \/ pc' = "down" /\ UNCHANGED disk
  /\ UNCHANGED <<ar, ringinit, convert, starts, damages, nextid, orig, discarded, converted>>

(* unlink of the packet buffer, then of the stream index (lines 266-280); *)
(* the data of a packet buffer unlinked here is deleted by configuration. *)
RemoveRing(f, next) ==
  /\ \/ disk' = Unlink(disk, f) /\ pc' = next
        /\ discarded' = discarded \cup (IF f = PB THEN Held(disk[f]) ELSE {})
     \/ pc' = "down" /\ UNCHANGED <<disk, discarded>>
  /\ UNCHANGED <<ar, ringinit, convert, starts, damages, nextid, orig, converted>>

RemovePB == pc = "rmpb" /\ RemoveRing(PB, "rmsi")

RemoveSI == pc = "rmsi" /\ RemoveRing(SI, "reinit")

(* The second RingInitialize (lines 290-297).                            *)
Reinit ==
  /\ pc = "reinit"
  /\ \E r \in RingInitResults(disk) :
       IF r = 0
       THEN /\ disk' = Initialized(disk, nextid) /\ nextid' = FreshId(disk)
            /\ pc' = IF ar = 1 /\ convert > 0 THEN "load" ELSE "ready"
       ELSE pc' = "down" /\ UNCHANGED <<disk, nextid>>
  /\ UNCHANGED <<ar, ringinit, convert, starts, damages, orig, discarded, converted>>

V1Backup == <<"packetbuf", 1>>

(* LoadBufferV1 replays the version-1 backup into the new ring; it fails  *)
(* (returns < 0) on a missing backup, and may fail on any.                *)
LoadV1 ==
  /\ disk[V1Backup] # Absent
  /\ disk' = [disk EXCEPT ![PB].src = disk[V1Backup].id,
                          ![SI].src = disk[V1Backup].id]
  /\ converted' = converted \cup {disk[V1Backup].id}

(* A loader whose failure also goes on to remove the backups.             *)
LoadIgnoreFailure ==
  /\ pc = "load"
  /\ IF convert = 1
     THEN \/ LoadV1 /\ pc' = "rmbpb"
          \/ pc' = "rmbpb" /\ UNCHANGED <<disk, converted>>
     ELSE pc' = "down" /\ UNCHANGED <<disk, converted>>
  /\ UNCHANGED <<ar, ringinit, convert, starts, damages, nextid, orig, discarded>>

(* The conversion (lines 299-312 and 329-332): after a successful load the *)
(* backups are removed, after a failed one they stay; a version without a *)
(* loader ends the process.                                               *)
Load ==
  /\ pc = "load"
  /\ IF convert = 1
     THEN \/ LoadV1 /\ pc' = "rmbpb"
          \/ pc' = "ready" /\ UNCHANGED <<disk, converted>>
     ELSE pc' = "down" /\ UNCHANGED <<disk, converted>>
  /\ UNCHANGED <<ar, ringinit, convert, starts, damages, nextid, orig, discarded>>

(* unlink of the converted backups (lines 314-327).                      *)
RemoveBackup(n, next) ==
  /\ \/ disk' = Unlink(disk, <<n, convert>>) /\ pc' = next
     \/ pc' = "down" /\ UNCHANGED disk
  /\ UNCHANGED <<ar, ringinit, convert, starts, damages, nextid, orig, discarded, converted>>

RemoveBackupPB == pc = "rmbpb" /\ RemoveBackup("packetbuf", "rmbsi")

RemoveBackupSI == pc = "rmbsi" /\ RemoveBackup("streamidx", "ready")

(* The process dies, or the server stops; the files stay as they are.    *)
Crash ==
  /\ pc # "down" /\ pc' = "down"
  /\ UNCHANGED <<disk, ar, ringinit, convert, starts, damages, nextid, orig, discarded, converted>>

(* The running server dies while writing and leaves the ring corrupt.     *)
Damage ==
  /\ pc = "ready" /\ damages < MaxDamage /\ disk[PB] # Absent
  /\ disk' = [disk EXCEPT ![PB].kind = "bad"]
  /\ pc' = "down" /\ damages' = damages + 1
  /\ UNCHANGED <<ar, ringinit, convert, starts, nextid, orig, discarded, converted>>

Next ==
  \/ Boot \/ RingInit \/ MovePB \/ MoveSI \/ RemovePB \/ RemoveSI \/ Reinit
  \/ Load \/ RemoveBackupPB \/ RemoveBackupSI \/ Crash \/ Damage

Spec == Init /\ [][Next]_vars
-----------------------------------------------------------------------------
(* The packet data of an older-version ring survives recovery until it has *)
(* been converted, whatever the crashes and whatever the failures of      *)
(* rename, unlink and LoadBufferV1, unless a start with autorecovery = 2  *)
(* deleted it: some packet buffer file (the ring's own or a .versionN     *)
(* backup) still holds it.  The backups are removed (lines 314-327) only  *)
(* after the loader succeeded, and the loader runs only in the start that *)
(* renamed the ring.                                                       *)
OldData == IF orig.kind = "old" THEN {orig.id} ELSE {}

OldDataKept ==
  \A i \in OldData \ (discarded \cup converted) :
    \E s \in Suffixes : i \in Held(disk[<<"packetbuf", s>>])

(* Spec 8.9: a recovery that moves a corrupt ring to .corrupt does not    *)
(* clobber the .corrupt backup of an earlier recovery (rename at lines    *)
(* 252 and 258 replaces its target).                                      *)
CorruptBackupKept ==
  [][\A n \in Names : disk[<<n, -1>>] # Absent =>
                                        disk'[<<n, -1>>] = disk[<<n, -1>>]]_vars

(* The server loop (line 343 on) only runs on a current-format ring pair:  *)
(* whatever crashes cut recovery short and whatever rename, unlink and    *)
(* LoadBufferV1 return, main reaches it with a packet buffer of the      *)
(* current format and the stream index that belongs to it, never on an   *)
(* older-version, corrupt or half-moved ring.                             *)
ServesCurrentRing == pc = "ready" => IsPair(disk)
=============================================================================
