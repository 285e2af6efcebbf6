-------------------------- MODULE RingserverProofs --------------------------
(***************************************************************************)
(* Proofs about Ringserver that hold for every value of the constants.     *)
(***************************************************************************)
EXTENDS Ringserver, FiniteSetTheorems, TLAPS

(* The inductive invariant, for every value of the constants.  No linked *)
(* record is free (LinkedInUse); a CLOSED client has returned; a client a *)
(* listener has spawned but not yet linked *)
(* is neither free nor linked, and no two listeners hold the same one;     *)
(* during the supervisor's walk of the client list the clients still to    *)
(* visit are linked (the listeners cannot link while it holds the lock),  *)
(* and so is the client whose state the broadcast has just read.          *)
ClosedHasReturned == \A c \in Clients : cstate[c] = Closed => ~calive[c]

SpawnedUnlinked ==
  \A l \in Listeners : lpc[l] = "link" =>
     cstate[lcli[l]] # Free /\ lcli[l] \notin cthreads

SpawnedDistinct ==
  \A l, m \in Listeners :
     l # m /\ lpc[l] = "link" /\ lpc[m] = "link" => lcli[l] # lcli[m]

WalkLinked ==
  /\ spc \in {"bcast", "bcastwrite", "clients", "dec"} => stodo \subseteq cthreads
  /\ spc = "bcastwrite" => scur \in cthreads

IInv ==
  /\ TypeOK
  /\ LinkedInUse
  /\ ClosedHasReturned
  /\ SpawnedUnlinked
  /\ SpawnedDistinct
  /\ WalkLinked

(* The names of the states are plain constants.                          *)
USE DEF ClientStates, ListenerStates, SupPcs, ListenPcs,
        Spawning, Active, Close, Closing, Closed, Free, NoThread

(* The placeholders are values of their types.                           *)
LEMMA AnyValues == AnyAddr \in Addrs /\ AnyClient \in Clients
BY ConstantsAssumption DEF AnyAddr, AnyClient

(* The count of server threads the supervisor takes is a natural number.  *)
LEMMA ServerCountType ==
  ASSUME NEW S \in SUBSET Listeners
  PROVE  Cardinality(S) \in Nat
BY ConstantsAssumption, FS_Subset, FS_CardinalityType

(* Every step keeps every variable in its type.                           *)
LEMMA TypeStep == TypeOK /\ [Next]_vars => TypeOK'
<1> SUFFICES ASSUME TypeOK, [Next]_vars PROVE TypeOK'
  OBVIOUS
<1> USE AnyValues DEF TypeOK, clientVars, listenVars, superVars
<1>1. CASE Signal
  BY <1>1 DEF Signal
<1>2. CASE SupRequestShutdown
  BY <1>2 DEF SupRequestShutdown
<1>3. CASE SupNoShutdownRequest
  BY <1>3 DEF SupNoShutdownRequest
<1>4. CASE SupBcastWrite
  BY <1>4 DEF SupBcastWrite
<1>5. CASE SupBcastDone
  BY <1>5 DEF SupBcastDone
<1>6. CASE SupAbandon
  BY <1>6 DEF SupAbandon
<1>7. CASE SupValvePass
  BY <1>7 DEF SupValvePass
<1>8. CASE SupDecrement
  BY <1>8 DEF SupDecrement
<1>9. CASE SupClientsDone
  BY <1>9 DEF SupClientsDone
<1>10. CASE SupExit
  BY <1>10 DEF SupExit
<1>11. CASE SupSleep
  BY <1>11 DEF SupSleep
<1>12. ASSUME NEW c \in Clients, SupBcastRead(c) PROVE TypeOK'
  BY <1>12 DEF SupBcastRead
<1>13. ASSUME NEW c \in Clients, SupReapClient(c) PROVE TypeOK'
  BY <1>13 DEF SupReapClient
<1>14. ASSUME NEW c \in Clients, SupVisitClient(c) PROVE TypeOK'
  BY <1>14 DEF SupVisitClient
<1>15. ASSUME NEW c \in Clients, SupCloseIdle(c) PROVE TypeOK'
  BY <1>15 DEF SupCloseIdle
<1>16. CASE SupServers
  BY <1>16, ServerCountType DEF SupServers
<1>17. ASSUME NEW l \in Listeners, ListenStart(l) PROVE TypeOK'
  BY <1>17 DEF ListenStart
<1>18. ASSUME NEW l \in Listeners, ListenAwait(l) PROVE TypeOK'
  BY <1>18 DEF ListenAwait
<1>19. ASSUME NEW l \in Listeners, ListenStop(l) PROVE TypeOK'
  BY <1>19 DEF ListenStop, ListenerExits
<1>20. ASSUME NEW l \in Listeners, ListenAcceptRetry(l) PROVE TypeOK'
  BY <1>20 DEF ListenAcceptRetry
<1>21. ASSUME NEW l \in Listeners, ListenSocketClosed(l) PROVE TypeOK'
  BY <1>21 DEF ListenSocketClosed, ListenerExits
<1>22. ASSUME NEW l \in Listeners, ListenAcceptError(l) PROVE TypeOK'
  BY <1>22 DEF ListenAcceptError, ListenerExits
<1>23. ASSUME NEW l \in Listeners, ListenReject(l) PROVE TypeOK'
  BY <1>23 DEF ListenReject
<1>24. ASSUME NEW l \in Listeners, ListenAllocFail(l) PROVE TypeOK'
  BY <1>24 DEF ListenAllocFail, ListenerExits
<1>25. ASSUME NEW l \in Listeners, ListenCreateFail(l) PROVE TypeOK'
  BY <1>25 DEF ListenCreateFail
<1>26. ASSUME NEW l \in Listeners, ListenLink(l) PROVE TypeOK'
  BY <1>26 DEF ListenLink
<1>27. ASSUME NEW l \in Listeners, ListenLinkAllocFail(l) PROVE TypeOK'
  BY <1>27 DEF ListenLinkAllocFail, ListenerExits
<1>28. ASSUME NEW l \in Listeners, ListenIncRead(l) PROVE TypeOK'
  BY <1>28 DEF ListenIncRead
<1>29. ASSUME NEW l \in Listeners, ListenIncWrite(l) PROVE TypeOK'
  BY <1>29 DEF ListenIncWrite
<1>30. ASSUME NEW l \in Listeners, NEW a \in Addrs, ListenAccept(l, a)
      PROVE TypeOK'
  BY <1>30 DEF ListenAccept
<1>31. ASSUME NEW l \in Listeners, NEW c \in Clients,
             ListenSpawnClient(l, c)
      PROVE TypeOK'
  BY <1>31 DEF ListenSpawnClient
<1>32. ASSUME NEW c \in Clients, ClientActivate(c) PROVE TypeOK'
  BY <1>32 DEF ClientActivate
<1>33. ASSUME NEW c \in Clients, ClientObserveClose(c) PROVE TypeOK'
  BY <1>33 DEF ClientObserveClose
<1>34. ASSUME NEW c \in Clients, ClientFinish(c) PROVE TypeOK'
  BY <1>34 DEF ClientFinish
<1>35. ASSUME NEW c \in Clients, ClientEnd(c) PROVE TypeOK'
  BY <1>35 DEF ClientEnd
<1>36. CASE UNCHANGED vars
  BY <1>36 DEF vars
<1>. QED
  BY <1>1, <1>2, <1>3, <1>4, <1>5, <1>6, <1>7, <1>8, <1>9, <1>10, <1>11, <1>12, <1>13, <1>14, <1>15, <1>16, <1>17, <1>18, <1>19, <1>20, <1>21, <1>22, <1>23, <1>24, <1>25, <1>26, <1>27, <1>28, <1>29, <1>30, <1>31, <1>32, <1>33, <1>34, <1>35, <1>36
  DEF Next, Supervisor, Listener, Client

(* Type correctness: every reachable state is well typed.                 *)
THEOREM TypeCorrect == Spec => []TypeOK
<1>1. Init => TypeOK
  BY AnyValues DEF Init, TypeOK
<1>2. QED
  BY <1>1, TypeStep, PTL DEF Spec

(* Every step keeps IInv.                                                 *)
LEMMA IInvStep == IInv /\ [Next]_vars => IInv'
<1> SUFFICES ASSUME IInv, [Next]_vars PROVE IInv'
  OBVIOUS
<1>0. TypeOK'
  BY TypeStep DEF IInv
<1> USE <1>0 DEF TypeOK, clientVars, listenVars, superVars
<1>1. CASE Signal
  BY <1>1 DEF IInv, LinkedInUse, ClosedHasReturned, SpawnedUnlinked,
      SpawnedDistinct, WalkLinked,
      Signal
<1>2. CASE SupRequestShutdown
  BY <1>2 DEF IInv, LinkedInUse, ClosedHasReturned, SpawnedUnlinked,
      SpawnedDistinct, WalkLinked,
      SupRequestShutdown
<1>3. CASE SupNoShutdownRequest
  BY <1>3 DEF IInv, LinkedInUse, ClosedHasReturned, SpawnedUnlinked,
      SpawnedDistinct, WalkLinked,
      SupNoShutdownRequest
<1>4. CASE SupBcastWrite
  BY <1>4 DEF IInv, LinkedInUse, ClosedHasReturned, SpawnedUnlinked,
      SpawnedDistinct, WalkLinked,
      SupBcastWrite
<1>5. CASE SupBcastDone
  BY <1>5 DEF IInv, LinkedInUse, ClosedHasReturned, SpawnedUnlinked,
      SpawnedDistinct, WalkLinked,
      SupBcastDone
<1>6. CASE SupAbandon
  BY <1>6 DEF IInv, LinkedInUse, ClosedHasReturned, SpawnedUnlinked,
      SpawnedDistinct, WalkLinked,
      SupAbandon
<1>7. CASE SupValvePass
  BY <1>7 DEF IInv, LinkedInUse, ClosedHasReturned, SpawnedUnlinked,
      SpawnedDistinct, WalkLinked,
      SupValvePass
<1>8. CASE SupDecrement
  BY <1>8 DEF IInv, LinkedInUse, ClosedHasReturned, SpawnedUnlinked,
      SpawnedDistinct, WalkLinked,
      SupDecrement
<1>9. CASE SupClientsDone
  BY <1>9 DEF IInv, LinkedInUse, ClosedHasReturned, SpawnedUnlinked,
      SpawnedDistinct, WalkLinked,
      SupClientsDone
<1>10. CASE SupExit
  BY <1>10 DEF IInv, LinkedInUse, ClosedHasReturned, SpawnedUnlinked,
      SpawnedDistinct, WalkLinked,
      SupExit
<1>11. CASE SupSleep
  BY <1>11 DEF IInv, LinkedInUse, ClosedHasReturned, SpawnedUnlinked,
      SpawnedDistinct, WalkLinked,
      SupSleep
<1>12. CASE SupServers
  BY <1>12 DEF IInv, LinkedInUse, ClosedHasReturned, SpawnedUnlinked,
      SpawnedDistinct, WalkLinked,
      SupServers
<1>13. ASSUME NEW c \in Clients, SupBcastRead(c) PROVE IInv'
  BY <1>13 DEF IInv, LinkedInUse, ClosedHasReturned, SpawnedUnlinked,
      SpawnedDistinct, WalkLinked,
      SupBcastRead
<1>14. ASSUME NEW c \in Clients, SupReapClient(c) PROVE IInv'
  BY <1>14 DEF IInv, LinkedInUse, ClosedHasReturned, SpawnedUnlinked,
      SpawnedDistinct, WalkLinked,
      SupReapClient
<1>15. ASSUME NEW c \in Clients, SupVisitClient(c) PROVE IInv'
  BY <1>15 DEF IInv, LinkedInUse, ClosedHasReturned, SpawnedUnlinked,
      SpawnedDistinct, WalkLinked,
      SupVisitClient
<1>16. ASSUME NEW c \in Clients, SupCloseIdle(c) PROVE IInv'
  BY <1>16 DEF IInv, LinkedInUse, ClosedHasReturned, SpawnedUnlinked,
      SpawnedDistinct, WalkLinked,
      SupCloseIdle
<1>17. ASSUME NEW c \in Clients, ClientActivate(c) PROVE IInv'
  BY <1>17 DEF IInv, LinkedInUse, ClosedHasReturned, SpawnedUnlinked,
      SpawnedDistinct, WalkLinked,
      ClientActivate
<1>18. ASSUME NEW c \in Clients, ClientObserveClose(c) PROVE IInv'
  BY <1>18 DEF IInv, LinkedInUse, ClosedHasReturned, SpawnedUnlinked,
      SpawnedDistinct, WalkLinked,
      ClientObserveClose
<1>19. ASSUME NEW c \in Clients, ClientFinish(c) PROVE IInv'
  BY <1>19 DEF IInv, LinkedInUse, ClosedHasReturned, SpawnedUnlinked,
      SpawnedDistinct, WalkLinked,
      ClientFinish
<1>20. ASSUME NEW c \in Clients, ClientEnd(c) PROVE IInv'
  BY <1>20 DEF IInv, LinkedInUse, ClosedHasReturned, SpawnedUnlinked,
      SpawnedDistinct, WalkLinked,
      ClientEnd
<1>21. ASSUME NEW l \in Listeners, ListenStart(l) PROVE IInv'
  BY <1>21 DEF IInv, LinkedInUse, ClosedHasReturned, SpawnedUnlinked,
      SpawnedDistinct, WalkLinked,
      ListenStart
<1>22. ASSUME NEW l \in Listeners, ListenAwait(l) PROVE IInv'
  BY <1>22 DEF IInv, LinkedInUse, ClosedHasReturned, SpawnedUnlinked,
      SpawnedDistinct, WalkLinked,
      ListenAwait
<1>23. ASSUME NEW l \in Listeners, ListenStop(l) PROVE IInv'
  BY <1>23 DEF IInv, LinkedInUse, ClosedHasReturned, SpawnedUnlinked,
      SpawnedDistinct, WalkLinked,
      ListenStop, ListenerExits
<1>24. ASSUME NEW l \in Listeners, ListenAcceptRetry(l) PROVE IInv'
  BY <1>24 DEF IInv, LinkedInUse, ClosedHasReturned, SpawnedUnlinked,
      SpawnedDistinct, WalkLinked,
      ListenAcceptRetry
<1>25. ASSUME NEW l \in Listeners, ListenSocketClosed(l) PROVE IInv'
  BY <1>25 DEF IInv, LinkedInUse, ClosedHasReturned, SpawnedUnlinked,
      SpawnedDistinct, WalkLinked,
      ListenSocketClosed, ListenerExits
<1>26. ASSUME NEW l \in Listeners, ListenAcceptError(l) PROVE IInv'
  BY <1>26 DEF IInv, LinkedInUse, ClosedHasReturned, SpawnedUnlinked,
      SpawnedDistinct, WalkLinked,
      ListenAcceptError, ListenerExits
<1>27. ASSUME NEW l \in Listeners, ListenReject(l) PROVE IInv'
  BY <1>27 DEF IInv, LinkedInUse, ClosedHasReturned, SpawnedUnlinked,
      SpawnedDistinct, WalkLinked,
      ListenReject
<1>28. ASSUME NEW l \in Listeners, ListenAllocFail(l) PROVE IInv'
  BY <1>28 DEF IInv, LinkedInUse, ClosedHasReturned, SpawnedUnlinked,
      SpawnedDistinct, WalkLinked,
      ListenAllocFail, ListenerExits
<1>29. ASSUME NEW l \in Listeners, ListenCreateFail(l) PROVE IInv'
  BY <1>29 DEF IInv, LinkedInUse, ClosedHasReturned, SpawnedUnlinked,
      SpawnedDistinct, WalkLinked,
      ListenCreateFail
<1>30. ASSUME NEW l \in Listeners, ListenLink(l) PROVE IInv'
  BY <1>30 DEF IInv, LinkedInUse, ClosedHasReturned, SpawnedUnlinked,
      SpawnedDistinct, WalkLinked,
      ListenLink
<1>31. ASSUME NEW l \in Listeners, ListenLinkAllocFail(l) PROVE IInv'
  BY <1>31 DEF IInv, LinkedInUse, ClosedHasReturned, SpawnedUnlinked,
      SpawnedDistinct, WalkLinked,
      ListenLinkAllocFail, ListenerExits
<1>32. ASSUME NEW l \in Listeners, ListenIncRead(l) PROVE IInv'
  BY <1>32 DEF IInv, LinkedInUse, ClosedHasReturned, SpawnedUnlinked,
      SpawnedDistinct, WalkLinked,
      ListenIncRead
<1>33. ASSUME NEW l \in Listeners, ListenIncWrite(l) PROVE IInv'
  BY <1>33 DEF IInv, LinkedInUse, ClosedHasReturned, SpawnedUnlinked,
      SpawnedDistinct, WalkLinked,
      ListenIncWrite
<1>34. ASSUME NEW l \in Listeners, NEW a \in Addrs, ListenAccept(l, a)
      PROVE IInv'
  BY <1>34 DEF IInv, LinkedInUse, ClosedHasReturned, SpawnedUnlinked,
      SpawnedDistinct, WalkLinked,
      ListenAccept
<1>35. ASSUME NEW l \in Listeners, NEW c \in Clients,
             ListenSpawnClient(l, c)
      PROVE IInv'
  BY <1>35 DEF IInv, LinkedInUse, ClosedHasReturned, SpawnedUnlinked,
      SpawnedDistinct, WalkLinked,
      ListenSpawnClient
<1>36. CASE UNCHANGED vars
  BY <1>36 DEF IInv, LinkedInUse, ClosedHasReturned, SpawnedUnlinked,
      SpawnedDistinct, WalkLinked, vars
<1>. QED
  BY <1>1, <1>2, <1>3, <1>4, <1>5, <1>6, <1>7, <1>8, <1>9, <1>10, <1>11, <1>12, <1>13, <1>14, <1>15, <1>16, <1>17, <1>18, <1>19, <1>20, <1>21, <1>22, <1>23, <1>24, <1>25, <1>26, <1>27, <1>28, <1>29, <1>30, <1>31, <1>32, <1>33, <1>34, <1>35, <1>36
  DEF Next, Supervisor, Listener, Client

(* The supervisor's walks never reach a freed record, for every value of *)
(* the constants: the reap unlinks the client in the step that frees it,  *)
(* and the record ListenThread frees when the malloc of the cthread fails *)
(* was never linked.                                                      *)
THEOREM LinkedRecordsInUse == Spec => []LinkedInUse
<1>1. Init => IInv
  BY AnyValues DEF Init, IInv, TypeOK, LinkedInUse, ClosedHasReturned,
     SpawnedUnlinked, SpawnedDistinct, WalkLinked
<1>2. IInv => LinkedInUse
  BY DEF IInv
<1>3. QED
  BY <1>1, <1>2, IInvStep, PTL DEF Spec

(* A record freed by any step other than the failed malloc of the cthread *)
(* is one whose thread has returned.                                      *)
LEMMA FreedStep ==
  ASSUME ~LinkAllocCanFail, IInv, NoFreeBeforeJoin, [Next]_vars
  PROVE  NoFreeBeforeJoin'
<1>0. TypeOK /\ TypeOK'
  BY TypeStep DEF IInv
<1> USE <1>0 DEF TypeOK
<1>1. ASSUME NEW c \in Clients, SupReapClient(c) PROVE NoFreeBeforeJoin'
  BY <1>1 DEF SupReapClient, IInv, ClosedHasReturned, NoFreeBeforeJoin, clientVars
<1>2. ASSUME NEW l \in Listeners, NEW c \in Clients, ListenSpawnClient(l, c)
      PROVE  NoFreeBeforeJoin'
  BY <1>2 DEF ListenSpawnClient, NoFreeBeforeJoin
<1>3. CASE SupBcastWrite
  BY <1>3 DEF SupBcastWrite, NoFreeBeforeJoin
<1>4. ASSUME NEW c \in Clients, SupCloseIdle(c) PROVE NoFreeBeforeJoin'
  BY <1>4 DEF SupCloseIdle, NoFreeBeforeJoin
<1>5. ASSUME NEW c \in Clients,
             ClientActivate(c) \/ ClientObserveClose(c) \/ ClientFinish(c)
             \/ ClientEnd(c)
      PROVE  NoFreeBeforeJoin'
  BY <1>5 DEF ClientActivate, ClientObserveClose, ClientFinish, ClientEnd,
     NoFreeBeforeJoin
<1>6. ASSUME NEW l \in Listeners, ListenLinkAllocFail(l) PROVE FALSE
  BY <1>6 DEF ListenLinkAllocFail
<1>7. CASE /\ ~(\E c \in Clients : SupReapClient(c) \/ SupCloseIdle(c))
           /\ ~(\E l \in Listeners : \E c \in Clients : ListenSpawnClient(l, c))
           /\ ~SupBcastWrite
           /\ ~(\E c \in Clients : ClientActivate(c) \/ ClientObserveClose(c)
                                    \/ ClientFinish(c) \/ ClientEnd(c))
  <2>1. UNCHANGED <<cstate, calive>>
    BY <1>6, <1>7 DEF Next, Supervisor, Listener, Client, vars, clientVars,
       Signal, SupRequestShutdown, SupNoShutdownRequest, SupBcastRead,
       SupBcastDone, SupAbandon, SupValvePass, SupServers, SupVisitClient,
       SupDecrement, SupClientsDone, SupExit, SupSleep, ListenStart,
       ListenAwait, ListenStop, ListenAccept, ListenAcceptRetry,
       ListenSocketClosed, ListenAcceptError, ListenReject, ListenAllocFail,
       ListenCreateFail, ListenLink, ListenIncRead, ListenIncWrite
  <2>. QED BY <2>1 DEF NoFreeBeforeJoin
<1>. QED BY <1>1, <1>2, <1>3, <1>4, <1>5, <1>7

(* No use after free (spec 8.4) when the malloc of the cthread cannot fail *)
(* (ringserver.c, line 1066): a thread_data is then freed only by the     *)
(* supervisor's reap, after the thread has returned.  The link_uaf run    *)
(* shows that the hypothesis is needed: when that malloc fails,           *)
(* ListenThread frees the thread_data of a client thread that is running. *)
THEOREM FreeOnlyAfterReturn ==
  ASSUME ~LinkAllocCanFail
  PROVE  Spec => []NoFreeBeforeJoin
<1>1. Init => IInv /\ NoFreeBeforeJoin
  BY AnyValues DEF Init, IInv, TypeOK, LinkedInUse, ClosedHasReturned,
     SpawnedUnlinked, SpawnedDistinct, WalkLinked, NoFreeBeforeJoin
<1>2. IInv /\ NoFreeBeforeJoin /\ [Next]_vars => (IInv /\ NoFreeBeforeJoin)'
  BY IInvStep, FreedStep
<1>3. QED
  BY <1>1, <1>2, PTL DEF Spec

-----------------------------------------------------------------------------
(* A step that leaves the records, the threads and the client list alone  *)
(* is a stutter of ClientSlots.                                           *)
LEMMA SlotsStutter ==
  UNCHANGED <<cstate, calive, cthreads>> => UNCHANGED Slots!avars
BY DEF SlotOf, Slots!avars

(* Every step of the server core is a step of ClientSlots or a stutter.   *)
LEMMA SlotsStep ==
  ASSUME ~LinkAllocCanFail, IInv, [Next]_vars
  PROVE  [Slots!ANext]_(Slots!avars)
<1> USE DEF IInv, TypeOK, clientVars, listenVars, superVars
<1>1. CASE Signal
  BY <1>1, SlotsStutter DEF Signal
<1>2. CASE SupRequestShutdown
  BY <1>2, SlotsStutter DEF SupRequestShutdown
<1>3. CASE SupNoShutdownRequest
  BY <1>3, SlotsStutter DEF SupNoShutdownRequest
<1>4. CASE SupBcastDone
  BY <1>4, SlotsStutter DEF SupBcastDone
<1>5. CASE SupAbandon
  BY <1>5, SlotsStutter DEF SupAbandon
<1>6. CASE SupValvePass
  BY <1>6, SlotsStutter DEF SupValvePass
<1>7. CASE SupServers
  BY <1>7, SlotsStutter DEF SupServers
<1>8. CASE SupDecrement
  BY <1>8, SlotsStutter DEF SupDecrement
<1>9. CASE SupClientsDone
  BY <1>9, SlotsStutter DEF SupClientsDone
<1>10. CASE SupExit
  BY <1>10, SlotsStutter DEF SupExit
<1>11. CASE SupSleep
  BY <1>11, SlotsStutter DEF SupSleep
<1>12. ASSUME NEW c \in Clients, SupBcastRead(c)
      PROVE  [Slots!ANext]_(Slots!avars)
  BY <1>12, SlotsStutter DEF SupBcastRead
<1>13. ASSUME NEW c \in Clients, SupVisitClient(c)
      PROVE  [Slots!ANext]_(Slots!avars)
  BY <1>13, SlotsStutter DEF SupVisitClient
<1>14. ASSUME NEW l \in Listeners, ListenStart(l)
      PROVE  [Slots!ANext]_(Slots!avars)
  BY <1>14, SlotsStutter DEF ListenStart
<1>15. ASSUME NEW l \in Listeners, ListenAwait(l)
      PROVE  [Slots!ANext]_(Slots!avars)
  BY <1>15, SlotsStutter DEF ListenAwait
<1>16. ASSUME NEW l \in Listeners, ListenStop(l)
      PROVE  [Slots!ANext]_(Slots!avars)
  BY <1>16, SlotsStutter DEF ListenStop, ListenerExits
<1>17. ASSUME NEW l \in Listeners, ListenAcceptRetry(l)
      PROVE  [Slots!ANext]_(Slots!avars)
  BY <1>17, SlotsStutter DEF ListenAcceptRetry
<1>18. ASSUME NEW l \in Listeners, ListenSocketClosed(l)
      PROVE  [Slots!ANext]_(Slots!avars)
  BY <1>18, SlotsStutter DEF ListenSocketClosed, ListenerExits
<1>19. ASSUME NEW l \in Listeners, ListenAcceptError(l)
      PROVE  [Slots!ANext]_(Slots!avars)
  BY <1>19, SlotsStutter DEF ListenAcceptError, ListenerExits
<1>20. ASSUME NEW l \in Listeners, ListenReject(l)
      PROVE  [Slots!ANext]_(Slots!avars)
  BY <1>20, SlotsStutter DEF ListenReject
<1>21. ASSUME NEW l \in Listeners, ListenAllocFail(l)
      PROVE  [Slots!ANext]_(Slots!avars)
  BY <1>21, SlotsStutter DEF ListenAllocFail, ListenerExits
<1>22. ASSUME NEW l \in Listeners, ListenCreateFail(l)
      PROVE  [Slots!ANext]_(Slots!avars)
  BY <1>22, SlotsStutter DEF ListenCreateFail
<1>23. ASSUME NEW l \in Listeners, ListenLinkAllocFail(l)
      PROVE  [Slots!ANext]_(Slots!avars)
  BY <1>23 DEF ListenLinkAllocFail
<1>24. ASSUME NEW l \in Listeners, ListenIncRead(l)
      PROVE  [Slots!ANext]_(Slots!avars)
  BY <1>24, SlotsStutter DEF ListenIncRead
<1>25. ASSUME NEW l \in Listeners, ListenIncWrite(l)
      PROVE  [Slots!ANext]_(Slots!avars)
  BY <1>25, SlotsStutter DEF ListenIncWrite
<1>26. ASSUME NEW l \in Listeners, NEW a \in Addrs, ListenAccept(l, a)
      PROVE  [Slots!ANext]_(Slots!avars)
  BY <1>26, SlotsStutter DEF ListenAccept
<1>27. CASE SupBcastWrite
  <2>1. cstate[scur] # Free
    BY <1>27 DEF SupBcastWrite, WalkLinked, LinkedInUse
  <2>2. UNCHANGED Slots!avars
    BY <1>27, <2>1 DEF SupBcastWrite, SlotOf, Slots!avars
  <2>. QED
    BY <2>2
<1>28. ASSUME NEW c \in Clients, SupCloseIdle(c)
      PROVE  [Slots!ANext]_(Slots!avars)
  <2>1. cstate[c] # Free
    BY <1>28 DEF SupCloseIdle, WalkLinked, LinkedInUse
  <2>2. UNCHANGED Slots!avars
    BY <1>28, <2>1 DEF SupCloseIdle, SlotOf, Slots!avars
  <2>. QED
    BY <2>2
<1>29. ASSUME NEW c \in Clients, SupReapClient(c)
      PROVE  [Slots!ANext]_(Slots!avars)
  <2>1. SlotOf[c] = "finished" /\ c \in cthreads
    BY <1>29 DEF SupReapClient, WalkLinked, ClosedHasReturned, SlotOf
  <2>2. SlotOf' = [SlotOf EXCEPT ![c] = "free"] /\ cthreads' = cthreads \ {c}
    BY <1>29 DEF SupReapClient, SlotOf
  <2>. QED
    BY <2>1, <2>2 DEF Slots!ANext, Slots!Release
<1>30. ASSUME NEW l \in Listeners, NEW c \in Clients, ListenSpawnClient(l, c)
      PROVE  [Slots!ANext]_(Slots!avars)
  <2>1. SlotOf[c] = "free"
    BY <1>30 DEF ListenSpawnClient, SlotOf
  <2>2. SlotOf' = [SlotOf EXCEPT ![c] = "running"] /\ cthreads' = cthreads
    BY <1>30 DEF ListenSpawnClient, SlotOf
  <2>. QED
    BY <2>1, <2>2 DEF Slots!ANext, Slots!Spawn
<1>31. ASSUME NEW l \in Listeners, ListenLink(l)
      PROVE  [Slots!ANext]_(Slots!avars)
  <2> DEFINE c == lcli[l]
  <2>1. c \in Clients /\ SlotOf[c] # "free" /\ c \notin cthreads
    BY <1>31 DEF ListenLink, SpawnedUnlinked, SlotOf
  <2>2. cthreads' = cthreads \cup {c} /\ SlotOf' = SlotOf
    BY <1>31 DEF ListenLink, SlotOf
  <2>. QED
    BY <2>1, <2>2 DEF Slots!ANext, Slots!Register
<1>32. ASSUME NEW c \in Clients, ClientActivate(c)
      PROVE  [Slots!ANext]_(Slots!avars)
  <2>1. UNCHANGED Slots!avars
    BY <1>32 DEF ClientActivate, SlotOf, Slots!avars
  <2>. QED
    BY <2>1
<1>33. ASSUME NEW c \in Clients, ClientObserveClose(c)
      PROVE  [Slots!ANext]_(Slots!avars)
  <2>1. UNCHANGED Slots!avars
    BY <1>33 DEF ClientObserveClose, SlotOf, Slots!avars
  <2>. QED
    BY <2>1
<1>34. ASSUME NEW c \in Clients, ClientFinish(c)
      PROVE  [Slots!ANext]_(Slots!avars)
  <2>1. SlotOf[c] = "running"
    BY <1>34 DEF ClientFinish, SlotOf
  <2>2. SlotOf' = [SlotOf EXCEPT ![c] = "finished"] /\ cthreads' = cthreads
    BY <1>34 DEF ClientFinish, SlotOf
  <2>. QED
    BY <2>1, <2>2 DEF Slots!ANext, Slots!Finish
<1>35. ASSUME NEW c \in Clients, ClientEnd(c)
      PROVE  [Slots!ANext]_(Slots!avars)
  <2>1. SlotOf[c] = "running"
    BY <1>35 DEF ClientEnd, SlotOf
  <2>2. SlotOf' = [SlotOf EXCEPT ![c] = "finished"] /\ cthreads' = cthreads
    BY <1>35 DEF ClientEnd, SlotOf
  <2>. QED
    BY <2>1, <2>2 DEF Slots!ANext, Slots!Finish
<1>36. CASE UNCHANGED vars
  BY <1>36, SlotsStutter DEF vars
<1>. QED
  BY <1>1, <1>2, <1>3, <1>4, <1>5, <1>6, <1>7, <1>8, <1>9, <1>10, <1>11, <1>12, <1>13, <1>14, <1>15, <1>16, <1>17, <1>18, <1>19, <1>20, <1>21, <1>22, <1>23, <1>24, <1>25, <1>26, <1>27, <1>28, <1>29, <1>30, <1>31, <1>32, <1>33, <1>34, <1>35, <1>36
  DEF Next, Supervisor, Listener, Client

(* The server core implements ClientSlots when the malloc of the cthread *)
(* cannot fail: a thread is started only in a free record, and a record   *)
(* is freed only once its thread has returned and only by unlinking it    *)
(* from the client list.  Without the hypothesis the refinement fails at  *)
(* the step the link_uaf run reaches: a running slot becomes free.        *)
THEOREM ImplementsClientSlots ==
  ASSUME ~LinkAllocCanFail
  PROVE  Spec => SlotsRefined
<1>1. Init => Slots!AInit
  BY DEF Init, SlotOf, Slots!AInit
<1>2. Init => IInv
  BY AnyValues DEF Init, IInv, TypeOK, LinkedInUse, ClosedHasReturned,
     SpawnedUnlinked, SpawnedDistinct, WalkLinked
<1>3. IInv /\ [Next]_vars => IInv'
  BY IInvStep
<1>4. IInv /\ [Next]_vars => [Slots!ANext]_(Slots!avars)
  BY SlotsStep
<1>5. QED
  BY <1>1, <1>2, <1>3, <1>4, PTL DEF Spec, SlotsRefined, Slots!ASpec

-----------------------------------------------------------------------------
(* The per-address limit.  ListenThread checks ClientIPCount when it      *)
(* admits a connection and links the new client only later: a client a   *)
(* listener has spawned but not yet linked was admitted while its address *)
(* had fewer linked clients than the limit.                               *)
AdmittedWithinLimit ==
  \A l \in Listeners :
     (lpc[l] = "link" /\ MaxClientsPerIP # 0 /\ caddr[lcli[l]] \notin WriteIPs)
       => ClientIPCount(caddr[lcli[l]]) < MaxClientsPerIP

PIInv == IInv /\ PerIPLimit /\ AdmittedWithinLimit

(* Counting the linked clients of an address.                            *)
LEMMA CountSubset ==
  ASSUME NEW S \in SUBSET Clients, NEW T \in SUBSET Clients, S \subseteq T
  PROVE  Cardinality(S) <= Cardinality(T) /\ Cardinality(S) \in Nat
<1>1. IsFiniteSet(T) BY ConstantsAssumption, FS_Subset
<1>. QED BY <1>1, FS_Subset, FS_CardinalityType

LEMMA CountAdd ==
  ASSUME NEW S \in SUBSET Clients, NEW x
  PROVE  Cardinality(S \cup {x}) <= Cardinality(S) + 1 /\ Cardinality(S) \in Nat
<1>1. IsFiniteSet(S) BY ConstantsAssumption, FS_Subset
<1>2. Cardinality(S \cup {x}) = IF x \in S THEN Cardinality(S) ELSE Cardinality(S) + 1
  BY <1>1, FS_AddElement
<1>3. Cardinality(S) \in Nat BY <1>1, FS_CardinalityType
<1>. QED BY <1>2, <1>3

(* A step that links and unlinks nobody, moves no address, and takes no   *)
(* listener to the link step keeps the limit and the admitted bound.      *)
LEMMA PerIPFrame ==
  ASSUME PIInv, UNCHANGED <<cthreads, caddr>>,
         \A l \in Listeners : lpc'[l] = "link" => lpc[l] = "link" /\ lcli'[l] = lcli[l]
  PROVE  PerIPLimit' /\ AdmittedWithinLimit'
<1>1. \A a : ClientIPCount(a)' = ClientIPCount(a) BY DEF ClientIPCount
<1>. QED BY <1>1 DEF PIInv, PerIPLimit, AdmittedWithinLimit

LEMMA PIInvInit == Init => PIInv
<1> SUFFICES ASSUME Init PROVE PIInv OBVIOUS
<1>1. IInv
  BY AnyValues DEF Init, IInv, TypeOK, LinkedInUse, ClosedHasReturned,
     SpawnedUnlinked, SpawnedDistinct, WalkLinked
<1>2. \A a : ClientIPCount(a) = 0 BY FS_EmptySet DEF Init, ClientIPCount
<1>. QED BY <1>1, <1>2, ConstantsAssumption DEF Init, PIInv, PerIPLimit, AdmittedWithinLimit

(* Every step keeps PIInv when there is a single endpoint.  Only the link *)
(* step needs that: with a second endpoint another listener may link a    *)
(* client of the same address between this one's check and its link.     *)
LEMMA PIInvStep ==
  ASSUME NEW l0, Listeners = {l0}
  PROVE  PIInv /\ [Next]_vars => PIInv'
<1> SUFFICES ASSUME PIInv, [Next]_vars PROVE PIInv'
  OBVIOUS
<1>0. IInv' /\ TypeOK /\ TypeOK' BY IInvStep DEF PIInv, IInv
<1> USE <1>0
<1> DEFINE Frame == \A l \in Listeners : lpc'[l] = "link" => lpc[l] = "link" /\ lcli'[l] = lcli[l]
<1>a. ASSUME UNCHANGED <<cthreads, caddr>>, Frame PROVE PIInv'
  BY <1>a, PerIPFrame DEF PIInv
<1>1. ASSUME NEW c \in Clients, SupReapClient(c) PROVE PIInv'
  <2>1. /\ c \in cthreads /\ cthreads' = cthreads \ {c}
        /\ caddr' = [caddr EXCEPT ![c] = AnyAddr] /\ UNCHANGED <<lpc, lcli>>
    BY <1>1 DEF SupReapClient, PIInv, IInv, WalkLinked, listenVars
  <2>2. \A a : /\ {d \in cthreads' : caddr'[d] = a} \subseteq {d \in cthreads : caddr[d] = a}
               /\ {d \in cthreads : caddr[d] = a} \subseteq Clients
    BY <2>1 DEF TypeOK
  <2>3. \A a : ClientIPCount(a)' <= ClientIPCount(a)
    BY <2>2, CountSubset DEF ClientIPCount, TypeOK
  <2>4. \A l \in Listeners : lpc[l] = "link" => caddr'[lcli[l]] = caddr[lcli[l]]
    BY <2>1 DEF PIInv, IInv, SpawnedUnlinked, TypeOK
  <2>5. \A a : ClientIPCount(a) \in Nat /\ ClientIPCount(a)' \in Nat
    BY <2>2, CountSubset DEF ClientIPCount, TypeOK
  <2>. QED BY <2>1, <2>3, <2>4, <2>5, ConstantsAssumption
       DEF PIInv, PerIPLimit, AdmittedWithinLimit
<1>2. ASSUME NEW l \in Listeners, NEW c \in Clients, ListenSpawnClient(l, c)
      PROVE PIInv'
  <2>1. /\ cstate[c] = Free /\ Admissible(lconn[l])
        /\ caddr' = [caddr EXCEPT ![c] = lconn[l]] /\ UNCHANGED cthreads
        /\ lcli' = [lcli EXCEPT ![l] = c] /\ lpc' = [lpc EXCEPT ![l] = "link"]
    BY <1>2 DEF ListenSpawnClient
  <2>2. c \notin cthreads BY <2>1 DEF PIInv, IInv, LinkedInUse
  <2>3. \A a : ClientIPCount(a)' = ClientIPCount(a)
    <3>1. \A a : {d \in cthreads' : caddr'[d] = a} = {d \in cthreads : caddr[d] = a}
      BY <2>1, <2>2 DEF TypeOK
    <3>. QED BY <3>1 DEF ClientIPCount
  <2>4. l = l0 /\ lcli'[l0] = c /\ caddr'[c] = lconn[l] /\ lpc'[l0] = "link"
    BY <2>1 DEF TypeOK
  <2>. QED BY <2>1, <2>3, <2>4 DEF PIInv, PerIPLimit, AdmittedWithinLimit, Admissible
<1>3. ASSUME NEW l \in Listeners, ListenLink(l) PROVE PIInv'
  <2> DEFINE x == lcli[l]
  <2>1. /\ lpc[l] = "link" /\ cthreads' = cthreads \cup {x} /\ UNCHANGED caddr
        /\ lpc' = [lpc EXCEPT ![l] = "incread"]
    BY <1>3 DEF ListenLink
  <2>2. PerIPLimit'
    <3> SUFFICES ASSUME MaxClientsPerIP # 0, NEW a \in Addrs \ WriteIPs
                 PROVE  ClientIPCount(a)' <= MaxClientsPerIP
      BY DEF PerIPLimit
    <3>1. ClientIPCount(a) \in Nat /\ ClientIPCount(a) <= MaxClientsPerIP
      BY CountSubset DEF ClientIPCount, TypeOK, PIInv, PerIPLimit
    <3>2. CASE caddr[x] = a
      <4>1. {d \in cthreads' : caddr'[d] = a} = {d \in cthreads : caddr[d] = a} \cup {x}
        BY <2>1, <3>2
      <4>2. ClientIPCount(a)' <= ClientIPCount(a) + 1 /\ ClientIPCount(a)' \in Nat
        <5>1. {d \in cthreads' : caddr'[d] = a} \in SUBSET Clients BY DEF TypeOK
        <5>. QED BY <4>1, <5>1, CountAdd, CountSubset DEF ClientIPCount, TypeOK
      <4>3. ClientIPCount(a) < MaxClientsPerIP
        BY <2>1, <3>2 DEF PIInv, AdmittedWithinLimit
      <4>. QED BY <3>1, <4>2, <4>3, CountSubset, ConstantsAssumption
    <3>3. CASE caddr[x] # a
      <4>1. {d \in cthreads' : caddr'[d] = a} = {d \in cthreads : caddr[d] = a}
        BY <2>1, <3>3
      <4>. QED BY <3>1, <4>1 DEF ClientIPCount
    <3>. QED BY <3>2, <3>3
  <2>3. AdmittedWithinLimit'
    BY <2>1 DEF AdmittedWithinLimit, TypeOK
  <2>. QED BY <2>2, <2>3 DEF PIInv
<1>4. CASE UNCHANGED vars
  BY <1>4, <1>a DEF vars
<1>5. CASE Signal BY <1>5, <1>a DEF Signal, listenVars, clientVars
<1>6. CASE SupRequestShutdown BY <1>6, <1>a DEF SupRequestShutdown, clientVars
<1>7. CASE SupNoShutdownRequest BY <1>7, <1>a DEF SupNoShutdownRequest, listenVars, clientVars
<1>8. CASE SupBcastWrite BY <1>8, <1>a DEF SupBcastWrite, listenVars
<1>9. CASE SupBcastDone BY <1>9, <1>a DEF SupBcastDone, listenVars, clientVars
<1>10. CASE SupAbandon BY <1>10, <1>a DEF SupAbandon, listenVars, clientVars
<1>11. CASE SupValvePass BY <1>11, <1>a DEF SupValvePass, listenVars, clientVars
<1>12. CASE SupDecrement BY <1>12, <1>a DEF SupDecrement, listenVars, clientVars
<1>13. CASE SupClientsDone BY <1>13, <1>a DEF SupClientsDone, listenVars, clientVars
<1>14. CASE SupExit BY <1>14, <1>a DEF SupExit, listenVars, clientVars
<1>15. CASE SupSleep BY <1>15, <1>a DEF SupSleep, listenVars, clientVars
<1>16. CASE SupServers BY <1>16, <1>a DEF SupServers, clientVars
<1>17. ASSUME NEW c \in Clients,
              \/ SupBcastRead(c) \/ SupVisitClient(c) \/ SupCloseIdle(c)
              \/ ClientActivate(c) \/ ClientObserveClose(c) \/ ClientFinish(c)
              \/ ClientEnd(c)
       PROVE PIInv'
  BY <1>17, <1>a DEF SupBcastRead, SupVisitClient, SupCloseIdle, ClientActivate,
     ClientObserveClose, ClientFinish, ClientEnd, listenVars, clientVars
<1>18. ASSUME NEW l \in Listeners, NEW a \in Addrs, ListenAccept(l, a) PROVE PIInv'
  BY <1>18, <1>a DEF ListenAccept, clientVars
<1>19. ASSUME NEW l \in Listeners, ListenStart(l) PROVE PIInv'
  BY <1>19, <1>a DEF ListenStart, clientVars
<1>20. ASSUME NEW l \in Listeners, ListenAwait(l) PROVE PIInv'
  BY <1>20, <1>a DEF ListenAwait, clientVars
<1>21. ASSUME NEW l \in Listeners, ListenStop(l) PROVE PIInv'
  BY <1>21, <1>a DEF ListenStop, ListenerExits, clientVars
<1>22. ASSUME NEW l \in Listeners, ListenAcceptRetry(l) PROVE PIInv'
  BY <1>22, <1>a DEF ListenAcceptRetry, clientVars
<1>23. ASSUME NEW l \in Listeners, ListenSocketClosed(l) PROVE PIInv'
  BY <1>23, <1>a DEF ListenSocketClosed, ListenerExits, clientVars
<1>24. ASSUME NEW l \in Listeners, ListenAcceptError(l) PROVE PIInv'
  BY <1>24, <1>a DEF ListenAcceptError, ListenerExits, clientVars
<1>25. ASSUME NEW l \in Listeners, ListenReject(l) PROVE PIInv'
  BY <1>25, <1>a DEF ListenReject, clientVars
<1>26. ASSUME NEW l \in Listeners, ListenAllocFail(l) PROVE PIInv'
  BY <1>26, <1>a DEF ListenAllocFail, ListenerExits, clientVars
<1>27. ASSUME NEW l \in Listeners, ListenCreateFail(l) PROVE PIInv'
  BY <1>27, <1>a DEF ListenCreateFail, clientVars
<1>28. ASSUME NEW l \in Listeners, ListenLinkAllocFail(l) PROVE PIInv'
  <2>1. /\ lpc' = [lpc EXCEPT ![l] = "done"] /\ lcli' = [lcli EXCEPT ![l] = AnyClient]
        /\ UNCHANGED <<cthreads, caddr>>
    BY <1>28 DEF ListenLinkAllocFail, ListenerExits, clientVars
  <2>2. Frame BY <2>1 DEF TypeOK
  <2>. QED BY <2>1, <2>2, <1>a
<1>29. ASSUME NEW l \in Listeners, ListenIncRead(l) PROVE PIInv'
  BY <1>29, <1>a DEF ListenIncRead, clientVars
<1>30. ASSUME NEW l \in Listeners, ListenIncWrite(l) PROVE PIInv'
  BY <1>30, <1>a DEF ListenIncWrite, clientVars
<1>. QED
  BY <1>1, <1>2, <1>3, <1>4, <1>5, <1>6, <1>7, <1>8, <1>9, <1>10, <1>11,
     <1>12, <1>13, <1>14, <1>15, <1>16, <1>17, <1>18, <1>19, <1>20, <1>21, <1>22, <1>23, <1>24, <1>25, <1>26, <1>27, <1>28, <1>29, <1>30
  DEF Next, Supervisor, Listener, Client

(* With a single endpoint, ListenThread never lets an address that is not *)
(* a write address have more linked clients than maxclientsperip, for     *)
(* every configuration (ringserver.c, the ClientIPCount check before     *)
(* the client is linked).  The perip_race run shows that the hypothesis   *)
(* is needed: two endpoints can both pass the check for one address.     *)
THEOREM PerIPLimitOneEndpoint ==
  ASSUME NEW l0, Listeners = {l0}
  PROVE  Spec => []PerIPLimit
<1>1. Init => PIInv BY PIInvInit
<1>2. PIInv /\ [Next]_vars => PIInv' BY PIInvStep
<1>3. PIInv => PerIPLimit BY DEF PIInv
<1>. QED BY <1>1, <1>2, <1>3, PTL DEF Spec

=============================================================================
