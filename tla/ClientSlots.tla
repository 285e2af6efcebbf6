----------------------------- MODULE ClientSlots -----------------------------
(***************************************************************************)
(* What the server core promises about the client records it allocates:   *)
(* a record slot is free, running (its client thread has not returned) or  *)
(* finished (the thread has returned but the record is still allocated),  *)
(* and it may be registered in the client list.  A slot is handed to a new *)
(* thread only when free, registered only once it is in use, and released  *)
(* (unregistered and freed in one step) only once its thread has finished  *)
(* and it is registered.                                                   *)
(***************************************************************************)
CONSTANT Clients

VARIABLES slot, registered

avars == <<slot, registered>>

SlotStates == {"free", "running", "finished"}

(* Type invariant.                                                        *)
ATypeOK == slot \in [Clients -> SlotStates] /\ registered \subseteq Clients

AInit == slot = [c \in Clients |-> "free"] /\ registered = {}

(* A new client thread is started in a free slot.                          *)
Spawn(c) ==
  /\ slot[c] = "free"
  /\ slot' = [slot EXCEPT ![c] = "running"]
  /\ UNCHANGED registered

(* A slot in use is put in the client list.                                *)
Register(c) ==
  /\ slot[c] # "free" /\ c \notin registered
  /\ registered' = registered \cup {c}
  /\ UNCHANGED slot

(* The client thread returns.                                              *)
Finish(c) ==
  /\ slot[c] = "running"
  /\ slot' = [slot EXCEPT ![c] = "finished"]
  /\ UNCHANGED registered

(* A registered slot whose thread has finished is unregistered and freed.  *)
Release(c) ==
  /\ slot[c] = "finished" /\ c \in registered
  /\ slot' = [slot EXCEPT ![c] = "free"]
  /\ registered' = registered \ {c}

ANext == \E c \in Clients : Spawn(c) \/ Register(c) \/ Finish(c) \/ Release(c)

ASpec == AInit /\ [][ANext]_avars
=============================================================================
