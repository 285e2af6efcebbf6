----------------------------- MODULE Ringserver -----------------------------
(***************************************************************************)
(* The server core of ringserver (src/src/ringserver.c): the watchdog loop *)
(* of main() (the supervisor), the ListenThread of every endpoint, the     *)
(* lifecycle of the client threads the listeners spawn, and the            *)
(* SignalThread that requests shutdown.                                    *)
(*                                                                         *)
(* Granularity.  A step is what one thread does between two points where   *)
(* another thread can observe or change the shared state it touches:       *)
(*  - everything done while holding cthreads_lock (the supervisor's walks  *)
(*    of the client list, ClientIPCount, the list insertion) excludes the  *)
(*    other holders of that lock, so a walk is split per list element but  *)
(*    no listener links a client during it;                                *)
(*  - reads of td_state outside td_lock, and param.clientcount++ /         *)
(*    clientcount-- (plain loads and stores of a shared int) are split     *)
(*    into a read step and a write step.                                   *)
(* Data is abstracted: an address is a model value, and an IP list is the  *)
(* set of modelled addresses MatchIP finds in it (MatchIP itself is        *)
(* modelled in IPPolicy).  Time is abstracted: whether a client has been   *)
(* idle longer than clienttimeout is a free choice at each check.          *)
(***************************************************************************)
EXTENDS Naturals, FiniteSets

CONSTANTS
  Listeners,          \* the configured endpoints (ListenPortParams)
  Clients,            \* client thread slots (ClientInfo/thread_data records)
  Addrs,              \* remote addresses connections come from
  MatchIPs,           \* addresses config.matchips admits (Addrs if unset)
  RejectIPs,          \* addresses config.rejectips rejects ({} if unset)
  WriteIPs,           \* addresses config.writeips matches ({} if unset)
  MaxClients,         \* config.maxclients, 0 = unlimited
  MaxClientsPerIP,    \* config.maxclientsperip, 0 = unlimited
  ReserveConnections, \* RESERVECONNECTIONS (10 in the code)
  ClientTimeoutSet,   \* config.clienttimeout /= 0
  ShutdownValve,      \* the shutdownsig value abandoning shutdown (100)
  MaxSignals,         \* bound on the termination signals delivered
  AllocCanFail,       \* whether the listener's mallocs before the spawn may fail
  LinkAllocCanFail    \* whether the malloc of the cthread may fail

ASSUME ConstantsAssumption ==
  /\ IsFiniteSet(Listeners) /\ Listeners # {}
  /\ IsFiniteSet(Clients) /\ Clients # {} /\ Addrs # {}
  /\ MatchIPs \subseteq Addrs /\ RejectIPs \subseteq Addrs
  /\ WriteIPs \subseteq Addrs
  /\ MaxClients \in Nat /\ MaxClientsPerIP \in Nat
  /\ ReserveConnections \in Nat
  /\ ClientTimeoutSet \in BOOLEAN /\ AllocCanFail \in BOOLEAN
  /\ LinkAllocCanFail \in BOOLEAN
  /\ ShutdownValve \in Nat /\ ShutdownValve > 2
  /\ MaxSignals \in Nat

(* td_state values (the TDS_ constants); Free: a slot with no thread_data. *)
Spawning == "SPAWNING"
Active   == "ACTIVE"
Close    == "CLOSE"
Closing  == "CLOSING"
Closed   == "CLOSED"
Free     == "FREE"
NoThread == "NOTHREAD"   \* stp->td == NULL for a server thread

ClientStates   == {Spawning, Active, Close, Closing, Closed, Free}
ListenerStates == {NoThread, Spawning, Active, Closed}

(* Program counters of the supervisor and of a listener thread.            *)
SupPcs == {"tick", "bcast", "bcastwrite", "valve", "servers", "clients",
           "dec", "check", "exit", "abandon"}
ListenPcs == {"start", "top", "accept", "admit", "link", "incread",
              "incwrite", "done"}

VARIABLES
  shutdownsig,   \* param.shutdownsig
  clientcount,   \* param.clientcount
  cthreads,      \* the clients linked in param.cthreads
  cstate,        \* td_state of each client slot, Free when freed
  calive,        \* the client's thread has not returned yet
  caddr,         \* cinfo->addr of each client slot
  lstate,        \* td_state of each listener's thread_data
  lsock,         \* lpp->socket is open
  lpc,           \* where each listener thread is in ListenThread
  lconn,         \* address of the connection a listener has accepted
  lcli,          \* the client a listener has just spawned
  ltmp,          \* value of clientcount a listener loaded for ++
  spc,           \* where the supervisor is in the watchdog loop
  stodo,         \* clients the current list walk has still to visit
  scur,          \* client whose td_state the broadcast read
  stmp,          \* value of clientcount the supervisor loaded for --
  servercount,   \* servercount of the current iteration
  signals        \* termination signals delivered so far

vars == <<shutdownsig, clientcount, cthreads, cstate, calive, caddr,
          lstate, lsock, lpc, lconn, lcli, ltmp,
          spc, stodo, scur, stmp, servercount, signals>>

clientVars   == <<cthreads, cstate, calive, caddr>>
listenVars   == <<lstate, lsock, lpc, lconn, lcli, ltmp>>
superVars    == <<spc, stodo, scur, stmp, servercount>>

(* Type invariant: every variable holds a value of its type.              *)
TypeOK ==
  /\ shutdownsig \in Nat
  /\ clientcount \in Nat
  /\ cthreads \subseteq Clients
  /\ cstate \in [Clients -> ClientStates]
  /\ calive \in [Clients -> BOOLEAN]
  /\ caddr \in [Clients -> Addrs]
  /\ lstate \in [Listeners -> ListenerStates]
  /\ lsock \in [Listeners -> BOOLEAN]
  /\ lpc \in [Listeners -> ListenPcs]
  /\ lconn \in [Listeners -> Addrs]
  /\ lcli \in [Listeners -> Clients]
  /\ ltmp \in [Listeners -> Nat]
  /\ spc \in SupPcs
  /\ stodo \subseteq Clients
  /\ scur \in Clients
  /\ stmp \in Nat
  /\ servercount \in Nat
  /\ signals \in Nat

-----------------------------------------------------------------------------
(* The process runs until the watchdog loop breaks; main() then returns    *)
(* and every other thread ends with the process.                           *)
Running == spc \notin {"exit", "abandon"}

(* The supervisor holds cthreads_lock across its walks of the client list. *)
CThreadsLockFree == spc \notin {"bcast", "bcastwrite", "clients", "dec"}

(* ClientIPCount: the linked clients whose address equals addr.            *)
ClientIPCount(addr) == Cardinality({c \in cthreads : caddr[c] = addr})

(* Whether admitting addr calls ClientIPCount, which takes cthreads_lock. *)
NeedsIPCount(addr) ==
  /\ addr \in MatchIPs /\ addr \notin RejectIPs
  /\ MaxClientsPerIP # 0 /\ addr \notin WriteIPs

(* Mutant: the per-address check lets one connection too many through.   *)
AdmissiblePerIPOffByOne(addr) ==
  /\ addr \in MatchIPs
  /\ addr \notin RejectIPs
  /\ \/ MaxClientsPerIP = 0
     \/ addr \in WriteIPs
     \/ ClientIPCount(addr) <= MaxClientsPerIP
  /\ \/ MaxClients = 0
     \/ clientcount < MaxClients
     \/ addr \in WriteIPs /\ clientcount <= MaxClients + ReserveConnections

(* The admission checks of ListenThread, in the code's order.              *)
Admissible(addr) ==
  /\ addr \in MatchIPs
  /\ addr \notin RejectIPs
  /\ \/ MaxClientsPerIP = 0
     \/ addr \in WriteIPs
     \/ ClientIPCount(addr) < MaxClientsPerIP
  /\ \/ MaxClients = 0
     \/ clientcount < MaxClients
     \/ addr \in WriteIPs /\ clientcount <= MaxClients + ReserveConnections

(* Placeholder contents of fields not yet written.                        *)
AnyAddr   == CHOOSE a \in Addrs : TRUE
AnyClient == CHOOSE c \in Clients : TRUE

Init ==
  /\ shutdownsig = 0
  /\ clientcount = 0
  /\ cthreads = {}
  /\ cstate = [c \in Clients |-> Free]
  /\ calive = [c \in Clients |-> FALSE]
  /\ caddr = [c \in Clients |-> AnyAddr]
  /\ lstate = [l \in Listeners |-> NoThread]
  /\ lsock = [l \in Listeners |-> TRUE]
  /\ lpc = [l \in Listeners |-> "done"]
  /\ lconn = [l \in Listeners |-> AnyAddr]
  /\ lcli = [l \in Listeners |-> AnyClient]
  /\ ltmp = [l \in Listeners |-> 0]
  /\ spc = "tick"
  /\ stodo = {}
  /\ scur = AnyClient
  /\ stmp = 0
  /\ servercount = 0
  /\ signals = 0

-----------------------------------------------------------------------------
(* SignalThread: SIGINT or SIGTERM sets param.shutdownsig to 1, whatever   *)
(* its value (a second signal during shutdown resets the valve counter).   *)
Signal ==
  /\ Running
  /\ signals < MaxSignals
  /\ shutdownsig' = 1
  /\ signals' = signals + 1
  /\ UNCHANGED <<clientcount, clientVars, listenVars, superVars>>

-----------------------------------------------------------------------------
(* The watchdog loop of main().                                            *)

(* A shutdown was just requested: shutdownsig becomes 2, every listener    *)
(* socket is closed (which makes accept() fail), and the walk of the       *)
(* client list that sets CLOSE begins.                                     *)
SupRequestShutdown ==
  /\ spc = "tick"
  /\ shutdownsig = 1
  /\ shutdownsig' = 2
  /\ lsock' = [l \in Listeners |-> FALSE]
  /\ stodo' = cthreads
  /\ spc' = "bcast"
  /\ UNCHANGED <<clientcount, clientVars, lstate, lpc, lconn, lcli, ltmp,
                 scur, stmp, servercount, signals>>

SupNoShutdownRequest ==
  /\ spc = "tick"
  /\ shutdownsig # 1
  /\ spc' = "valve"
  /\ UNCHANGED <<shutdownsig, clientcount, clientVars, listenVars,
                 stodo, scur, stmp, servercount, signals>>

(* The broadcast reads td_state without td_lock; only if the client is not *)
(* CLOSING or CLOSED does it go on to take the lock and write CLOSE.       *)
SupBcastRead(c) ==
  /\ spc = "bcast"
  /\ c \in stodo
  /\ stodo' = stodo \ {c}
  /\ IF cstate[c] \notin {Closing, Closed}
       THEN spc' = "bcastwrite" /\ scur' = c
       ELSE UNCHANGED <<spc, scur>>
  /\ UNCHANGED <<shutdownsig, clientcount, clientVars, listenVars,
                 stmp, servercount, signals>>

SupBcastWrite ==
  /\ spc = "bcastwrite"
  /\ cstate' = [cstate EXCEPT ![scur] = Close]
  /\ scur' = AnyClient
  /\ spc' = "bcast"
  /\ UNCHANGED <<shutdownsig, clientcount, cthreads, calive, caddr,
                 listenVars, stodo, stmp, servercount, signals>>

SupBcastDone ==
  /\ spc = "bcast"
  /\ stodo = {}
  /\ spc' = "valve"
  /\ UNCHANGED <<shutdownsig, clientcount, clientVars, listenVars,
                 stodo, scur, stmp, servercount, signals>>

(* The deadlock safety valve: while shutting down shutdownsig counts the   *)
(* iterations, and at ShutdownValve the loop is left without cleanup.      *)
SupAbandon ==
  /\ spc = "valve"
  /\ shutdownsig >= ShutdownValve
  /\ spc' = "abandon"
  /\ UNCHANGED <<shutdownsig, clientcount, clientVars, listenVars,
                 stodo, scur, stmp, servercount, signals>>

(* Mutant: the valve counter is never advanced during shutdown.           *)
SupValvePassNoCount ==
  /\ spc = "valve"
  /\ shutdownsig < ShutdownValve
  /\ spc' = "servers"
  /\ UNCHANGED <<shutdownsig, clientcount, clientVars, listenVars,
                 stodo, scur, stmp, servercount, signals>>

SupValvePass ==
  /\ spc = "valve"
  /\ shutdownsig < ShutdownValve
  /\ shutdownsig' = IF shutdownsig > 1 THEN shutdownsig + 1 ELSE shutdownsig
  /\ spc' = "servers"
  /\ UNCHANGED <<clientcount, clientVars, listenVars,
                 stodo, scur, stmp, servercount, signals>>

(* The walk of the server thread list: count the threads with thread_data, *)
(* join and drop each CLOSED one, and unless shutting down start a new     *)
(* thread wherever there is none; pthread_create may fail for any of them, *)
(* leaving td NULL until the next iteration.  Then the client walk starts. *)
SupServers ==
  /\ spc = "servers"
  /\ servercount' = Cardinality({l \in Listeners : lstate[l] # NoThread})
  /\ \E failed \in SUBSET Listeners :
       LET joined(l)  == IF lstate[l] = Closed THEN NoThread ELSE lstate[l]
           spawned(l) == joined(l) = NoThread /\ shutdownsig = 0
                         /\ l \notin failed
       IN  /\ lstate' = [l \in Listeners |->
                           IF spawned(l) THEN Spawning ELSE joined(l)]
           /\ lpc' = [l \in Listeners |->
                        IF spawned(l) THEN "start" ELSE lpc[l]]
  /\ stodo' = cthreads
  /\ spc' = "clients"
  /\ UNCHANGED <<shutdownsig, clientcount, clientVars, lsock, lconn, lcli,
                 ltmp, scur, stmp, signals>>

(* Mutant: the record is freed but not unlinked from param.cthreads.      *)
SupReapClientKeepLinked(c) ==
  /\ spc = "clients"
  /\ c \in stodo
  /\ cstate[c] = Closed
  /\ stodo' = stodo \ {c}
  /\ cthreads' = cthreads
  /\ cstate' = [cstate EXCEPT ![c] = Free]
  /\ caddr' = [caddr EXCEPT ![c] = AnyAddr]
  /\ stmp' = clientcount
  /\ spc' = "dec"
  /\ UNCHANGED <<shutdownsig, clientcount, calive, listenVars,
                 scur, servercount, signals>>

(* A CLOSED client is unlinked, joined and freed; the supervisor then      *)
(* loads clientcount for "if (clientcount > 0) clientcount--".             *)
SupReapClient(c) ==
  /\ spc = "clients"
  /\ c \in stodo
  /\ cstate[c] = Closed
  /\ stodo' = stodo \ {c}
  /\ cthreads' = cthreads \ {c}
  /\ cstate' = [cstate EXCEPT ![c] = Free]
  /\ caddr' = [caddr EXCEPT ![c] = AnyAddr]
  /\ stmp' = clientcount
  /\ spc' = "dec"
  /\ UNCHANGED <<shutdownsig, clientcount, calive, listenVars,
                 scur, servercount, signals>>

(* Mutant: clientcount-- without the "clientcount > 0" test.              *)
SupDecrementUnguarded ==
  /\ spc = "dec"
  /\ clientcount' = stmp - 1
  /\ stmp' = 0
  /\ spc' = "clients"
  /\ UNCHANGED <<shutdownsig, clientVars, listenVars,
                 stodo, scur, servercount, signals>>

SupDecrement ==
  /\ spc = "dec"
  /\ clientcount' = IF stmp > 0 THEN stmp - 1 ELSE clientcount
  /\ stmp' = 0
  /\ spc' = "clients"
  /\ UNCHANGED <<shutdownsig, clientVars, listenVars,
                 stodo, scur, servercount, signals>>

(* A live client: CalcStats, the rate totals and the transfer log leave    *)
(* the lifecycle alone; the client is not idle, or no timeout is set.      *)
SupVisitClient(c) ==
  /\ spc = "clients"
  /\ c \in stodo
  /\ cstate[c] # Closed
  /\ stodo' = stodo \ {c}
  /\ UNCHANGED <<shutdownsig, clientcount, clientVars, listenVars,
                 spc, scur, stmp, servercount, signals>>

(* A live client idle past clienttimeout: under td_lock, CLOSE is set      *)
(* unless the state already is CLOSE, CLOSING or CLOSED.                   *)
SupCloseIdle(c) ==
  /\ spc = "clients"
  /\ c \in stodo
  /\ ClientTimeoutSet
  /\ cstate[c] # Closed
  /\ stodo' = stodo \ {c}
  /\ cstate' = IF cstate[c] \in {Close, Closing}
                 THEN cstate ELSE [cstate EXCEPT ![c] = Close]
  /\ UNCHANGED <<shutdownsig, clientcount, cthreads, calive, caddr,
                 listenVars, spc, scur, stmp, servercount, signals>>

SupClientsDone ==
  /\ spc = "clients"
  /\ stodo = {}
  /\ spc' = "check"
  /\ UNCHANGED <<shutdownsig, clientcount, clientVars, listenVars,
                 stodo, scur, stmp, servercount, signals>>

(* "All done if shutting down and no threads left".                        *)
SupExit ==
  /\ spc = "check"
  /\ shutdownsig >= 2 /\ clientcount = 0 /\ servercount = 0
  /\ spc' = "exit"
  /\ UNCHANGED <<shutdownsig, clientcount, clientVars, listenVars,
                 stodo, scur, stmp, servercount, signals>>

SupSleep ==
  /\ spc = "check"
  /\ ~(shutdownsig >= 2 /\ clientcount = 0 /\ servercount = 0)
  /\ spc' = "tick"
  /\ UNCHANGED <<shutdownsig, clientcount, clientVars, listenVars,
                 stodo, scur, stmp, servercount, signals>>

Supervisor ==
  \/ SupRequestShutdown \/ SupNoShutdownRequest
  \/ \E c \in Clients : SupBcastRead(c)
  \/ SupBcastWrite \/ SupBcastDone
  \/ SupAbandon \/ SupValvePass \/ SupServers
  \/ \E c \in Clients : SupReapClient(c) \/ SupVisitClient(c) \/ SupCloseIdle(c)
  \/ SupDecrement \/ SupClientsDone \/ SupExit \/ SupSleep

-----------------------------------------------------------------------------
(* ListenThread of endpoint l.                                             *)

(* The thread leaves its loop: td_state becomes CLOSED and it returns.     *)
ListenerExits(l) ==
  /\ lstate' = [lstate EXCEPT ![l] = Closed]
  /\ lpc' = [lpc EXCEPT ![l] = "done"]

ListenStart(l) ==
  /\ Running /\ lpc[l] = "start"
  /\ lstate' = [lstate EXCEPT ![l] = Active]
  /\ lpc' = [lpc EXCEPT ![l] = "top"]
  /\ UNCHANGED <<shutdownsig, clientcount, clientVars, lsock, lconn, lcli,
                 ltmp, superVars, signals>>

(* "while (!param.shutdownsig)": block in accept(), or leave the loop.     *)
ListenAwait(l) ==
  /\ Running /\ lpc[l] = "top"
  /\ shutdownsig = 0
  /\ lpc' = [lpc EXCEPT ![l] = "accept"]
  /\ UNCHANGED <<shutdownsig, clientcount, clientVars, lstate, lsock, lconn,
                 lcli, ltmp, superVars, signals>>

ListenStop(l) ==
  /\ Running /\ lpc[l] = "top"
  /\ shutdownsig # 0
  /\ ListenerExits(l)
  /\ UNCHANGED <<shutdownsig, clientcount, clientVars, lsock, lconn, lcli,
                 ltmp, superVars, signals>>

(* A connection from addr is accepted on the open socket.                  *)
ListenAccept(l, addr) ==
  /\ Running /\ lpc[l] = "accept"
  /\ lsock[l]
  /\ lpc' = [lpc EXCEPT ![l] = "admit"]
  /\ lconn' = [lconn EXCEPT ![l] = addr]
  /\ UNCHANGED <<shutdownsig, clientcount, clientVars, lstate, lsock, lcli,
                 ltmp, superVars, signals>>

(* accept() fails with ECONNABORTED or EINTR, or getnameinfo() fails:      *)
(* the loop continues.                                                     *)
ListenAcceptRetry(l) ==
  /\ Running /\ lpc[l] = "accept"
  /\ lsock[l]
  /\ lpc' = [lpc EXCEPT ![l] = "top"]
  /\ UNCHANGED <<shutdownsig, clientcount, clientVars, lstate, lsock, lconn,
                 lcli, ltmp, superVars, signals>>

(* accept() on the socket the supervisor closed fails: the loop breaks.   *)
ListenSocketClosed(l) ==
  /\ Running /\ lpc[l] = "accept"
  /\ ~lsock[l]
  /\ ListenerExits(l)
  /\ UNCHANGED <<shutdownsig, clientcount, clientVars, lsock, lconn, lcli,
                 ltmp, superVars, signals>>

(* Any other accept() error on the open socket also breaks the loop; the  *)
(* supervisor joins the thread and starts a new one.                      *)
ListenAcceptError(l) ==
  /\ Running /\ lpc[l] = "accept"
  /\ lsock[l]
  /\ ListenerExits(l)
  /\ UNCHANGED <<shutdownsig, clientcount, clientVars, lsock, lconn, lcli,
                 ltmp, superVars, signals>>

(* The admission steps call ClientIPCount only on the per-address branch. *)
AdmitLock(l) == NeedsIPCount(lconn[l]) => CThreadsLockFree

(* A policy check or a cap rejects the connection; the socket is closed.   *)
ListenReject(l) ==
  /\ Running /\ lpc[l] = "admit"
  /\ AdmitLock(l)
  /\ ~Admissible(lconn[l])
  /\ lpc' = [lpc EXCEPT ![l] = "top"]
  /\ lconn' = [lconn EXCEPT ![l] = AnyAddr]
  /\ UNCHANGED <<shutdownsig, clientcount, clientVars, lstate, lsock,
                 lcli, ltmp, superVars, signals>>

(* Admitted, but a calloc/malloc of ClientInfo, its address, its miniSEED  *)
(* writer or its thread_data fails: the loop breaks.                       *)
ListenAllocFail(l) ==
  /\ Running /\ lpc[l] = "admit"
  /\ AllocCanFail
  /\ AdmitLock(l)
  /\ Admissible(lconn[l])
  /\ ListenerExits(l)
  /\ lconn' = [lconn EXCEPT ![l] = AnyAddr]
  /\ UNCHANGED <<shutdownsig, clientcount, clientVars, lsock, lcli,
                 ltmp, superVars, signals>>

(* Admitted, but pthread_create fails: the loop continues.                *)
ListenCreateFail(l) ==
  /\ Running /\ lpc[l] = "admit"
  /\ AdmitLock(l)
  /\ Admissible(lconn[l])
  /\ lpc' = [lpc EXCEPT ![l] = "top"]
  /\ lconn' = [lconn EXCEPT ![l] = AnyAddr]
  /\ UNCHANGED <<shutdownsig, clientcount, clientVars, lstate, lsock,
                 lcli, ltmp, superVars, signals>>

(* Admitted: a ClientInfo for the connection is set up in the free slot c  *)
(* and its thread is created; it runs before it is linked.                 *)
ListenSpawnClient(l, c) ==
  /\ Running /\ lpc[l] = "admit"
  /\ AdmitLock(l)
  /\ Admissible(lconn[l])
  /\ cstate[c] = Free
  /\ cstate' = [cstate EXCEPT ![c] = Spawning]
  /\ calive' = [calive EXCEPT ![c] = TRUE]
  /\ caddr' = [caddr EXCEPT ![c] = lconn[l]]
  /\ lconn' = [lconn EXCEPT ![l] = AnyAddr]
  /\ lcli' = [lcli EXCEPT ![l] = c]
  /\ lpc' = [lpc EXCEPT ![l] = "link"]
  /\ UNCHANGED <<shutdownsig, clientcount, cthreads, lstate, lsock,
                 ltmp, superVars, signals>>

(* The cthread is put at the head of param.cthreads under cthreads_lock.   *)
ListenLink(l) ==
  /\ Running /\ lpc[l] = "link"
  /\ CThreadsLockFree
  /\ cthreads' = cthreads \cup {lcli[l]}
  /\ lcli' = [lcli EXCEPT ![l] = AnyClient]
  /\ lpc' = [lpc EXCEPT ![l] = "incread"]
  /\ UNCHANGED <<shutdownsig, clientcount, cstate, calive, caddr, lstate,
                 lsock, lconn, ltmp, superVars, signals>>

(* The malloc of the cthread fails after the client thread was created:    *)
(* the socket is closed, the thread_data is freed and the loop breaks.     *)
(* The client thread keeps running on the freed record; it is never        *)
(* linked, counted or joined.                                              *)
ListenLinkAllocFail(l) ==
  /\ Running /\ lpc[l] = "link"
  /\ LinkAllocCanFail
  /\ cstate' = [cstate EXCEPT ![lcli[l]] = Free]
  /\ ListenerExits(l)
  /\ lcli' = [lcli EXCEPT ![l] = AnyClient]
  /\ UNCHANGED <<shutdownsig, clientcount, cthreads, calive, caddr, lsock,
                 lconn, ltmp, superVars, signals>>

(* param.clientcount++ after the lock is released: a load, then a store.   *)
ListenIncRead(l) ==
  /\ Running /\ lpc[l] = "incread"
  /\ ltmp' = [ltmp EXCEPT ![l] = clientcount]
  /\ lpc' = [lpc EXCEPT ![l] = "incwrite"]
  /\ UNCHANGED <<shutdownsig, clientcount, clientVars, lstate, lsock, lconn,
                 lcli, superVars, signals>>

ListenIncWrite(l) ==
  /\ Running /\ lpc[l] = "incwrite"
  /\ clientcount' = ltmp[l] + 1
  /\ ltmp' = [ltmp EXCEPT ![l] = 0]
  /\ lpc' = [lpc EXCEPT ![l] = "top"]
  /\ UNCHANGED <<shutdownsig, clientVars, lstate, lsock, lconn, lcli,
                 superVars, signals>>

Listener(l) ==
  \/ ListenStart(l) \/ ListenAwait(l) \/ ListenStop(l)
  \/ \E a \in Addrs : ListenAccept(l, a)
  \/ ListenAcceptRetry(l) \/ ListenSocketClosed(l) \/ ListenAcceptError(l)
  \/ ListenReject(l) \/ ListenAllocFail(l) \/ ListenCreateFail(l)
  \/ \E c \in Clients : ListenSpawnClient(l, c)
  \/ ListenLink(l) \/ ListenLinkAllocFail(l)
  \/ ListenIncRead(l) \/ ListenIncWrite(l)

-----------------------------------------------------------------------------
(* A client thread (ClientThread and the protocol handlers, which are not  *)
(* in src/): it announces ACTIVE, notices CLOSE and drains through CLOSING *)
(* to CLOSED, or ends on its own (disconnect, error) by setting CLOSED.    *)
(* It takes td_lock for each transition; CLOSED is its last act.           *)

ClientActivate(c) ==
  /\ Running /\ calive[c]
  /\ cstate[c] = Spawning
  /\ cstate' = [cstate EXCEPT ![c] = Active]
  /\ UNCHANGED <<shutdownsig, clientcount, cthreads, calive, caddr,
                 listenVars, superVars, signals>>

ClientObserveClose(c) ==
  /\ Running /\ calive[c]
  /\ cstate[c] = Close
  /\ cstate' = [cstate EXCEPT ![c] = Closing]
  /\ UNCHANGED <<shutdownsig, clientcount, cthreads, calive, caddr,
                 listenVars, superVars, signals>>

ClientFinish(c) ==
  /\ Running /\ calive[c]
  /\ cstate[c] = Closing
  /\ cstate' = [cstate EXCEPT ![c] = Closed]
  /\ calive' = [calive EXCEPT ![c] = FALSE]
  /\ UNCHANGED <<shutdownsig, clientcount, cthreads, caddr,
                 listenVars, superVars, signals>>

ClientEnd(c) ==
  /\ Running /\ calive[c]
  /\ cstate[c] \in {Spawning, Active, Close}
  /\ cstate' = [cstate EXCEPT ![c] = Closed]
  /\ calive' = [calive EXCEPT ![c] = FALSE]
  /\ UNCHANGED <<shutdownsig, clientcount, cthreads, caddr,
                 listenVars, superVars, signals>>

Client(c) ==
  ClientActivate(c) \/ ClientObserveClose(c) \/ ClientFinish(c) \/ ClientEnd(c)

-----------------------------------------------------------------------------
Next ==
  \/ Signal
  \/ Supervisor
  \/ \E l \in Listeners : Listener(l)
  \/ \E c \in Clients : Client(c)

(* Threads are scheduled: the supervisor, every step a listener takes of   *)
(* its own accord, and a client's draining once CLOSE is set.  Arriving    *)
(* connections, accept errors, failed allocations, signals and a client's  *)
(* own disconnect come from the environment and are not fair.              *)
Fairness ==
  /\ WF_vars(Supervisor)
  /\ \A l \in Listeners :
       /\ WF_vars(ListenStart(l)) /\ WF_vars(ListenStop(l))
       /\ WF_vars(ListenSocketClosed(l))
       /\ WF_vars(ListenReject(l) \/ ListenCreateFail(l)
                  \/ \E c \in Clients : ListenSpawnClient(l, c))
       /\ WF_vars(ListenLink(l))
       /\ WF_vars(ListenIncRead(l)) /\ WF_vars(ListenIncWrite(l))
  /\ \A c \in Clients :
       WF_vars(ClientActivate(c)) /\ WF_vars(ClientObserveClose(c))
       /\ WF_vars(ClientFinish(c))

Spec == Init /\ [][Next]_vars /\ Fairness

-----------------------------------------------------------------------------
(* The connections being served: client threads that have not returned.    *)
LiveClients == {c \in Clients : calive[c]}

(* A client record slot as ClientSlots sees it.                          *)
SlotOf == [c \in Clients |-> IF cstate[c] = Free THEN "free"
                              ELSE IF calive[c] THEN "running" ELSE "finished"]

Slots == INSTANCE ClientSlots WITH slot <- SlotOf, registered <- cthreads

(* Refinement: the server core implements ClientSlots.  Every step either *)
(* leaves the records and the client list as they were or is one of the  *)
(* abstract steps: a thread started in a free record (ListenThread), a    *)
(* record linked (ListenThread), a thread returning (ClientThread), or a  *)
(* finished, linked record unlinked and freed (the supervisor's reap).    *)
SlotsRefined == Slots!ASpec

(* No use after free (spec 8.4): a client's thread_data is freed only once *)
(* its thread has returned and been joined, whichever thread frees it (the *)
(* supervisor's reap, or ListenThread when a malloc fails after the spawn).*)
NoFreeBeforeJoin == \A c \in Clients : cstate[c] = Free => ~calive[c]

(* The supervisor's walks of param.cthreads never reach a freed record: a  *)
(* reap unlinks the client in the step that frees it, ListenThread links   *)
(* only the record it has just spawned, and a record ListenThread frees on *)
(* a failed malloc was never linked.                                       *)
LinkedInUse == \A c \in cthreads : cstate[c] # Free

(* Per-address cap (ListenThread, ClientIPCount): the linked clients from  *)
(* an address without write permission never exceed maxclientsperip.      *)
PerIPLimit ==
  MaxClientsPerIP # 0 =>
    \A a \in Addrs \ WriteIPs : ClientIPCount(a) <= MaxClientsPerIP

(* Reserve connections (spec 8.6 and S3): write-permitted addresses may    *)
(* exceed maxclients, but no more than maxclients + RESERVECONNECTIONS     *)
(* connections are ever served at once.                                   *)
ReserveLimit ==
  MaxClients # 0 => Cardinality(LiveClients) <= MaxClients + ReserveConnections

(* Once a client thread has set CLOSED, its state never changes again     *)
(* until the supervisor frees it (spec 3: CLOSING/CLOSED are set only by   *)
(* the worker; CLOSE only requests a stop).                                *)
ClosedIsFinal ==
  [][\A c \in Clients : cstate[c] = Closed => cstate'[c] \in {Closed, Free}]_vars

(* Clean shutdown (spec 8.7): when the watchdog loop ends by "all done",   *)
(* no client thread is still running.                                     *)
CleanShutdown == spc = "exit" => LiveClients = {}

(* A termination signal always ends the watchdog loop, cleanly or through  *)
(* the deadlock safety valve.                                             *)
ShutdownTerminates == shutdownsig # 0 ~> ~Running

=============================================================================
