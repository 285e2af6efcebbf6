# TLA+ models of ringserver's server core

These modules model `src/src/ringserver.c`: its concurrent core, its IP
policy, its per-client statistics and its ring auto-recovery. TLC checks them,
and TLAPS proves some of their properties.

## The system and its parts

`ringserver.c` holds the process skeleton of the ring server. It is made of
four kinds of thread, which share the `param` structure:

| Part | Code | Shared state it changes |
|---|---|---|
| Supervisor (the watchdog loop of `main`) | lines 369-779 | `param.shutdownsig`, `param.clientcount`, `param.cthreads` (unlink/free), `param.sthreads` (join/respawn), client `td_state` (CLOSE) |
| Listener (`ListenThread`), one per endpoint | lines 823-1110 | its `td_state`, `param.cthreads` (link), `param.clientcount` (++) |
| Client thread (`ClientThread`, not in `src/`) | spec section 3 | its own `td_state` |
| Signal dispatcher (`SignalThread`) | lines 1363-1404 | `param.shutdownsig` |
| IP policy (`MatchIP`, `ClientIPCount`) | lines 1205-1314 | none (reads `param.cthreads` under `cthreads_lock`) |
| Per-client statistics (`CalcStats`) | lines 1129-1200 | the client's rate fields |
| Ring initialisation and auto-recovery | lines 121-340 | ring files on disk |

The parts interact like this:
- A listener accepts a connection and applies the admission policy: the match
  and reject lists, the per-address cap counted over `param.cthreads`, and
  `maxclients` with its reserve for write-permitted addresses.
- It then allocates the client records and starts the client thread. After
  that it links the client into `param.cthreads` under `cthreads_lock`, and
  only then increments `param.clientcount` without any lock.
- Every tick the supervisor walks the server threads, joining the ones that
  have closed and respawning them. It also walks the client list: it reaps
  CLOSED clients (join, unlink, free, `clientcount--`) and sets idle clients to
  CLOSE.
- A SIGINT or SIGTERM sets `shutdownsig = 1`. The supervisor then closes the
  listening sockets and broadcasts CLOSE to every client. It counts
  `shutdownsig` up on each tick and leaves the loop when no clients and no
  server threads are left. It also leaves the loop at the safety valve,
  `shutdownsig >= 100`.

## Modules

- `Ringserver.tla` is the core: the supervisor, the listeners, the clients and
  the signal thread as one specification.
- `MC_Ringserver.tla` holds the model values and the small sets that the
  `.cfg` files use.
- `RingserverProofs.tla` holds the TLAPS theorems about `Ringserver`.
- `ClientSlots.tla` is an abstract specification of what the core promises
  about a client slot. `Ringserver` instantiates it (`Slots`) with a
  refinement mapping.
- `ClientStats.tla` (with `MC_ClientStats.tla`) models `CalcStats`,
  interleaved with the ring writer and the client thread.
  `ClientStatsProofs.tla` holds its TLAPS theorems.
- `IPPolicy.tla` (with `MC_IPPolicy.tla`) models `MatchIP` and the policy
  decisions of `ListenThread`. It extends `IPPolicyConfig.tla`, which holds
  the address families, the CIDR entries and the configuration reader.
- `RingRecovery.tla` (with `MC_RingRecovery.tla`) models ring initialisation
  and auto-recovery in `main`, across crashes and restarts.
  `RingRecoveryProofs.tla` holds its TLAPS theorems.

### Correspondence with the code (Ringserver)

State:
- `shutdownsig` and `clientcount` are the `param` fields.
- `cthreads` is the set of linked client slots. List order is abstracted, so a
  walk visits its elements in any order.
- `cstate[c]` is the client's `td_state`. `Free` stands for freed records.
- `calive[c]` says whether the client's thread has not yet returned.
- `caddr[c]` is `cinfo->addr`.
- `lstate`, `lsock` and `lpc` are each listener's `td_state`, whether its socket
  is open, and where its thread is in `ListenThread`.
- `lconn`, `lcli` and `ltmp` are the listener's locals: the accepted address,
  the spawned client, and the value it loaded for `clientcount++`.
- `spc`, `stodo`, `scur`, `stmp` and `servercount` are the supervisor's place in
  the loop, the list walk still to do, the client whose state the broadcast
  read, its load for `clientcount--`, and the server count.

Granularity. A step is what one thread does between two points where another
thread can see what it does.
- Anything done under `cthreads_lock` is atomic with respect to the other
  holders of that lock. The lock is modelled by `CThreadsLockFree`: a
  supervisor walk holds it, so no listener links or counts during the walk.
- The shutdown broadcast reads `td_state` outside `td_lock`. That read is its
  own step, `SupBcastRead`, and the write of CLOSE is another, `SupBcastWrite`.
- Both `clientcount++` (`ListenIncRead`, `ListenIncWrite`) and `clientcount--`
  (`SupReapClient` loads, `SupDecrement` stores) are split into a load step and
  a store step. They are plain loads and stores of a shared `int`.

Actions:
- Each early return, error exit and allocation failure of `ListenThread` is an
  action of its own: `ListenAcceptRetry`, `ListenSocketClosed`,
  `ListenAcceptError`, `ListenReject`, `ListenAllocFail`, `ListenCreateFail`
  and `ListenLinkAllocFail`.
- `ListenLinkAllocFail` is lines 1067-1076. The client thread was created at
  line 1052, and then the malloc of its `struct cthread` fails. The listener
  frees `tdp` and leaves its loop. The slot becomes `Free`, while `calive`
  stays TRUE: the thread keeps running on the freed record and is never
  linked, counted or joined. Because `Free` enables no client step, the model
  stops that thread's steps at the free. The constant `LinkAllocCanFail`
  enables this step, and `AllocCanFail` enables the earlier allocation
  failures.
- `SupServers` is the whole server-thread walk. It joins closed listeners and
  respawns every listener without a thread while no shutdown is pending. Any
  subset of the respawns may fail.
- The client thread is not in `src/`. Its states are modelled from spec
  section 3: `ClientActivate`, `ClientObserveClose`, `ClientFinish`, and
  `ClientEnd` for a connection that ends on its own.

Abstractions:
- An address is a model value. `MatchIPs`, `RejectIPs` and `WriteIPs` are the
  sets of addresses that `MatchIP` finds in each list.
- Client idleness is a free choice at every check, enabled by
  `ClientTimeoutSet`.
- The valve of 100 ticks is the constant `ShutdownValve`.
- `RESERVECONNECTIONS` (10) is the constant `ReserveConnections`.

### Correspondence with the code (ClientStats)

- `earliest`, `latest` and `rpos` are `ringparams->earliestoffset`,
  `->latestoffset` and the reader's `pktoffset`. Offsets are slots
  `0..RingSlots-1`, and `maxoffset` is `RingSlots`. `rset` says whether the
  reader's `pktid` is set (line 1141).
- `txcount` and `txhist` are `txpackets[0]` and `txpackets[1]`. `txrate` is
  the fraction (packets, seconds) that line 1170 divides. `ratetime` and
  `now` are in whole seconds.
- Every load of a shared field in lines 1143-1173 is a step of its own
  (`LoadL1` ... `LoadE3`, `RateCalc`, `RateShift`); `ld` holds what has been
  loaded. These are plain loads of fields another thread writes, so a later
  use may reload the field or reuse the earlier value in a register
  (`Reuse`). Which one happens depends on the build.
- `RingWrite` (the ring engine appends, overwriting the earliest packet when
  full) and `ClientSend` (the client thread sends the next packet) are the
  other threads. They are not in `src/` and are modelled from spec 4.4.
- `(int)` of the NaN that a division by zero gives is undefined in C.
  `UndefLag` is INT_MIN, what `cvttsd2si` produces on x86-64.
- The lag is computed with integer truncation toward zero. The code's
  double arithmetic can round one below that (for example `0.29 * 100`);
  this is abstracted.
- The rx half of `CalcStats` is the same code over `rxpackets` and is not
  repeated. The byte rates follow the packet rates.

### Correspondence with the code (IPPolicy)

- Addresses are scaled down: IPv4 is one word of `V4Bits` bits (`s_addr`,
  one AND), IPv6 is `V6Bytes` bytes of `ByteBits` bits (`s6_addr`, one AND
  per byte). A `struct sockaddr` carries both views, as the storage of the
  two structures overlaps. `sa_family` selects the view; any family but
  INET and INET6 is `NOTIP`.
- `NetMatches` and `MatchIP` are lines 1218-1252: the first entry in list
  order that matches, or 0 (NULL).
- `Decision` is what `ListenThread` derives from `MatchIP` for a connection
  (lines 896-1007): admission by the match and reject lists, write
  permission, trust, and the limit entry.
- The config parser is not in `src/`. `IPNetOf` builds each entry from a
  CIDR block, with a prefix netmask and the network masked by it. `MatchIP`
  compares the masked address with the stored network (lines 1224 and
  1231-1246). The examples of `src/doc/ring.conf`, such as
  `MatchIP 192.168.0.1/24`, give networks with host bits set that are meant
  to match, so the reader must store them masked.
- The state is the configuration, `cfg`: `AddEntry` appends a CIDR entry to
  one of the lists. It is defined in `IPPolicyConfig`, apart from the
  matching, because the configuration reader and `MatchIP` are separate
  pieces of code.

### Correspondence with the code (RingRecovery)

- `disk` maps every file of the ring directory (`packetbuf`, `streamidx`,
  each with no suffix, `.corrupt` or `.versionN`) to its content. A content
  is a current ring, a corrupt ring, or a ring in an older version. It also
  carries the identity of the ring it was created as and of the older data
  loaded into it.
- `pc` is where `main` is in lines 197-331. `ringinit`, `convert` and `ar`
  are `ringinit`, `convert_version` and `config.autorecovery`.
- Each `rename` and `unlink` is one atomic step (`MovePB`, `MoveSI`,
  `RemovePB`, `RemoveSI`, `RemoveBackupPB`, `RemoveBackupSI`). ENOENT is
  accepted, as in the code. Any other failure ends the process
  (`return 1`).
- `RingInit` and `Reinit` are the two `RingInitialize` calls with the code
  that acts on their result. `Load` is the version conversion.
- `RingInitialize` and `LoadBufferV1` are ring-engine code, not in `src/`,
  and are modelled from spec section 6.
  - `RingInitialize` returns 0 on a ring pair, creating one where there is
    none. It returns the version of an older packet buffer, -1 on a corrupt
    one, and -2 at any time.
  - A stream index without its packet buffer (or the reverse) may be
    reported as corrupt or replaced by a new pair.
- The environment:
  - `Crash`: the process dies at any step, or the server stops.
  - `Boot`: the process is started again with any autorecovery setting.
  - `Damage`: a running server dies while writing and leaves the packet
    buffer corrupt.

## Runs

| Run | cfg | Expect | What it shows |
|---|---|---|---|
| lifecycle | `MC_Ringserver_lifecycle.cfg` | pass | `TypeOK`, `PerIPLimit`, `LinkedInUse` and `ShutdownTerminates` over about 0.65M states, with every action enabled, every allocation failure included |
| link_uaf | `MC_Ringserver_link_uaf.cfg` | violation | `NoFreeBeforeJoin` fails: a failed malloc of the cthread frees the thread_data of a running client (line 1074) |
| reserve_offbyone | `MC_Ringserver_reserve.cfg` | violation | `ReserveLimit` fails: the `<=` at line 936 admits one extra client |
| bcast_race | `MC_Ringserver_bcast_race.cfg` | violation | `ClosedIsFinal` fails: the unlocked read at line 421 lets CLOSE overwrite CLOSED |
| count_race | `MC_Ringserver_count_race.cfg` | violation | `CleanShutdown` fails: a lost `clientcount++` lets shutdown exit while a client runs |
| perip_race | `MC_Ringserver_perip_race.cfg` | violation | `PerIPLimit` fails with two listeners: the count and the link are separate critical sections |
| stats | `MC_ClientStats.cfg` | pass | `TypeOK`, `LagMatchesReference`, `RateZeroWhenIdle` over about 3.6M states |
| lag_torn | `MC_ClientStats_lag_torn.cfg` | violation | `LagInRange` fails: a writer wrap between the loads of lines 1143-1153 gives a lag of 400 |
| matchip | `MC_IPPolicy.cfg` | pass | `MatchAgreesWithCIDR` for every list of up to three entries and every address |
| unix_policy | `MC_IPPolicy_unix.cfg` | violation | `UnixDecisionFixed` fails: the decisions for a UNIX connection depend on the uninitialised `addr_storage` |
| recovery | `MC_RingRecovery.cfg` | pass | `TypeOK`, `OldDataKept`, `ServesCurrentRing` across crashes, failing system calls, corrupted rings and mode changes |
| backup_clobber | `MC_RingRecovery_clobber.cfg` | violation | `CorruptBackupKept` fails: the second recovery renames over the first `.corrupt` backup |

Bounds, and why they are enough:
- **lifecycle** uses one listener and two client slots. `MaxClients = 1`,
  `MaxClientsPerIP = 1`, the reserve is 1, and up to two signals are sent.
  Four addresses cover every role: write-permitted (`aw`), ordinary (`ao`),
  rejected (`ar`) and unmatched (`ax`).
  - With two slots, one client can be linked while a second is admitted, so
    both the per-address cap and the global cap are reached.
  - Two signals reach the broadcast re-run caused by a second SIGTERM.
  - A valve of 4 ticks lets shutdown end both cleanly and through the valve.
  - The liveness check of `ShutdownTerminates` on this instance takes about
    2 minutes.
- Each violation run is the smallest instance that shows its race.
  - link_uaf has one client slot, one admitted address and no other
    failure.
  - reserve_offbyone has three slots with `MaxClients = Reserve = 1`.
  - bcast_race has one client and one signal.
  - count_race has two clients with `MaxClients = 2`.
  - perip_race has two listeners.

- **stats** uses a ring of 4 slots, 6 writes (more than one wrap), 4 packets
  sent and 4 calls. Four calls give three rates after the first. Four slots
  give rings that are full, partly full, wrapped and unwrapped, and a reader
  on either side of the wrap.
- **lag_torn** uses the same bounds as stats.
- **matchip** uses 3-bit IPv4 words and IPv6 addresses of two 2-bit bytes:
  25 addresses and 46 CIDR blocks of every length. With up to three entries
  in a list, it reaches an address in several blocks, in the same block in
  both families, and a block of length 0. Two bytes are needed to tell the
  bytewise IPv6 test from one on the first byte.
- **recovery** allows five starts, two damaged rings, and every starting
  directory: none, a ring, a corrupt ring, or a version-1 or version-2 ring.
  That reaches a crash after each step of recovery, followed by a restart
  in every mode. It also reaches two corrupt-ring recoveries in a row, the
  second moving its ring over the first `.corrupt` backup.
  **backup_clobber** fixes the mode to 1 and checks that case.

`CHECK_DEADLOCK FALSE` in every run:
- in the Ringserver runs, once the watchdog loop has ended, `main` returns and
  the process exits;
- in the ClientStats, IPPolicy and RingRecovery runs, every behaviour ends
  when its counters reach their bounds.

Those final states are meant to be terminal.

## Fairness

`Fairness` is weak fairness on:
- the supervisor, because its loop runs on a 100 ms `nanosleep` and never
  blocks indefinitely;
- each listener step that needs no outside event: the start, the stop check,
  the socket-closed exit, deciding on an accepted connection, the link, and
  the load and store of the count;
- each client's response to CLOSE and its progress out of SPAWNING. Spec
  section 3 says a client observes CLOSE and finishes.

These are not fair: signals, new connections, accept errors, allocation
failures and clients ending on their own. They are events of the environment.

ClientStats, IPPolicy and RingRecovery assume no fairness. Their properties
are all safety properties.

## Properties

- `NoFreeBeforeJoin` (spec 8.4): a client's thread_data is freed only after
  its thread has returned, whichever thread frees it.
- `LinkedInUse`: no record linked in `param.cthreads` is free, so the
  supervisor's walks and `ClientIPCount` never read a freed record. It
  holds even with the use-after-free of link_uaf, since that record was
  never linked. To break it, the reap's unlink and its free must come apart,
  or a listener must link a record it has freed.
- `PerIPLimit` (spec 4.2c): the linked clients from one address without write
  permission never exceed `maxclientsperip`.
- `ReserveLimit` (spec 8.6): at most `maxclients + RESERVECONNECTIONS`
  connections are served.
- `ClosedIsFinal`, an action property: CLOSED changes only to Free.
- `CleanShutdown` (spec 8.7): the clean exit leaves no client thread running.
- `ShutdownTerminates`, liveness: a signal leads to the end of the loop.
- `SlotsRefined`: `Ringserver` implements `ClientSlots`. The mapping takes a
  client to `free` when its record is Free, and otherwise to `running` or
  `finished` by `calive`; `registered` is `cthreads`. No run checks it: with
  `LinkAllocCanFail` the refinement fails at the link_uaf step, and without
  that constant it is proved (`ImplementsClientSlots`).
- `LagMatchesReference` (spec 4.4): when the ring and the reader held still
  during `CalcStats`, the unwrapped lag equals the ring-order reference
  `100 * ((l - r) mod N) / ((l - e) mod N)`.
- `LagInRange` (spec 8.1): a reader inside a ring of at least two packets
  gets a lag in 0..100. The one-packet ring is left aside: its lag is
  `(int)` of NaN, which spec section 9 records.
- `RateZeroWhenIdle` (spec 8.10): a counter that did not change between two
  calls gives a rate of exactly 0 over a positive time.
- `MatchAgreesWithCIDR` (spec 4.3): `MatchIP` returns the first entry whose
  CIDR block, by prefix arithmetic, holds the address.
- `UnixDecisionFixed`: a UNIX connection's policy decision does not depend on
  the uninitialised storage.
- `OldDataKept`: until `LoadBufferV1` has converted it, the data of an
  older-version ring stays in a `packetbuf` file (the ring's own file or its
  `.versionN` backup), unless a delete-mode start removed it. The history
  variables `orig`, `converted` and `discarded` record the starting packet
  buffer, what has been loaded, and what mode 2 unlinked.
- `ServesCurrentRing`: when `main` reaches the server loop (line 343), the
  packet buffer is a current-format ring and the stream index is its own,
  whatever crashes and failed system calls came before.
- `CorruptBackupKept` (spec 8.9), an action property: a `.corrupt` backup is
  never replaced.

Each passing property has a mutant (see `PROJECT.json`) that the run catches:
- dropping the `> 0` guard of the decrement breaks `TypeOK`;
- an off-by-one in the per-address test breaks `PerIPLimit`;
- a reap that frees the record but does not unlink it breaks `LinkedInUse`;
- a valve that does not count breaks `ShutdownTerminates`;
- a writer that does not wrap `latest` breaks `TypeOK` (stats);
- a reader wrap test with `<=` breaks `LagMatchesReference`;
- a shift that does not roll the counter into the history breaks
  `RateZeroWhenIdle`;
- an IPv6 test on the first byte only breaks `MatchAgreesWithCIDR`;
- setting `convert_version` from every nonzero `RingInitialize` result, the
  -1 of a corrupt ring included, breaks `TypeOK` (recovery);
- a conversion that removes the backups after a failed load breaks
  `OldDataKept`;
- a `RingInitialize` that creates a new packet buffer but keeps a stream
  index it finds breaks `ServesCurrentRing`.

## Findings

1. **Reserve off-by-one** (line 936). The test
   `clientcount <= maxclients + RESERVECONNECTIONS` admits
   `maxclients + 11` clients.
2. **Broadcast overwrites CLOSED** (lines 421-427). The state is tested
   without `td_lock` and then set to CLOSE under it.
   - A client that has just set CLOSED and returned is left in CLOSE.
   - It is never reaped or joined, and `clientcount` never reaches 0.
   - Shutdown then ends only through the safety valve.
   - The server-thread broadcast at lines 402-407 has the same shape.
3. **`clientcount` lost update** (lines 1096 and 666). The listener's
   unlocked `++` races the supervisor's `--`.
   - The count can drop to 0 while a client is served.
   - The loop then takes the "all done" exit with that client thread still
     running.
4. **Per-address cap check-then-act** (lines 923 and 1082). Two listeners
   can each count below the cap for the same address, and both admit.

5. **Torn percent lag** (lines 1143-1153). The ring offsets are loaded
   several times without a lock. If the writer wraps between the wrap test
   and the sums, a reader inside the ring gets a lag of 400.

Two more defects of `CalcStats` are known and are recorded in spec section 9,
so no run is spent on them. A one-packet ring divides 0 by 0 at line 1153.
The second read of `txpackets[0]` at line 1173 can leave packets out of
every rate.
6. **UNIX connections judged on garbage** (lines 862-875 and 899). Accept
   fills `addr_un`, but `paddr` points to the uninitialised `addr_storage`.
   With a match, reject, write, trusted or limit list configured, a UNIX
   client is admitted, rejected, or given write permission at random.
   `ClientIPCount` and the `memcpy` into `cinfo->addr` read the same storage.
7. **Second recovery clobbers the first backup** (lines 252 and 258).
   `rename` replaces an existing `.corrupt` file. Spec 8.9 says the first
   backup is kept.
8. **Use after free on a failed cthread malloc** (lines 1067-1076). The
   client thread already runs with `tdp` as its argument when the malloc of
   its `struct cthread` fails. `ListenThread` then frees `tdp` and breaks.
   The thread goes on using freed memory, and it is never linked, counted or
   joined. Spec 8.4 says no unit is freed before it is joined.

## Proofs

### RingserverProofs.tla

All theorems hold for every value of the constants that satisfies
`ConstantsAssumption`.

- `TypeCorrect`: `Spec => []TypeOK`.
  - `TypeOK` is inductive on its own.
  - `TypeStep` proves `TypeOK /\ [Next]_vars => TypeOK'` with one step per
    action.
  - `ServerCountType` gives the cardinality facts `SupServers` needs, from
    `FiniteSetTheorems`.
- `LinkedRecordsInUse`: `Spec => []LinkedInUse`, with allocation failures
  included. `LinkedInUse` is not inductive, so `IInv` strengthens it with
  these facts:
  - `ClosedHasReturned`: a CLOSED client's thread has returned.
  - `SpawnedUnlinked` and `SpawnedDistinct`: the client a listener has spawned
    but not yet linked is neither Free nor linked. Two listeners never hold
    the same slot, so the link never inserts a freed slot. The record that
    `ListenLinkAllocFail` frees is this unlinked one.
  - `WalkLinked`: the clients the supervisor's walk still has to visit are
    linked, and so is the client whose state the broadcast has just read. A
    reap therefore only unlinks a linked client, and a broadcast write never
    touches a Free slot.

  `IInv` was checked with TLC on the lifecycle instance before it was proved.
  `IInvStep` proves that it is preserved, with one step per action.
- `FreeOnlyAfterReturn`: if `~LinkAllocCanFail`, then
  `Spec => []NoFreeBeforeJoin`. The link_uaf run shows that the hypothesis is
  needed. `FreedStep` proves that, under the hypothesis, `IInv` and
  `NoFreeBeforeJoin` give `NoFreeBeforeJoin'`:
  - the reap frees a CLOSED client, which has returned (`ClosedHasReturned`);
  - a spawn makes its slot SPAWNING, not Free;
  - the client's steps and the CLOSE writes never set Free;
  - `ListenLinkAllocFail` is disabled;
  - every other step leaves `cstate` and `calive` alone.
- `ImplementsClientSlots`: if `~LinkAllocCanFail`, then
  `Spec => SlotsRefined`.
  - The initial state maps to `AInit`.
  - `SlotsStep` proves `[Slots!ANext]_(Slots!avars)` from `IInv` and a step
    of `Next`, with one case per action:
    - the listener's spawn is `Spawn`, because the slot is Free;
    - the link is `Register`, by `SpawnedUnlinked`;
    - the client's finish and end are `Finish`;
    - the reap is `Release`, because CLOSED has returned and the client is
      linked;
    - `ListenLinkAllocFail` is disabled by the hypothesis. With it, a running
      slot would become free, which no abstract step allows;
    - every other step leaves the mapping unchanged. The broadcast write
      relies on `WalkLinked` and `LinkedInUse`: the slot it writes is not
      Free.
  - The theorem follows from `IInvStep`, `SlotsStep` and PTL.
- `PerIPLimitOneEndpoint`: with `Listeners = {l0}`, `Spec => []PerIPLimit`.
  The hypothesis is needed: the `perip_race` run shows that two listeners
  exceed the limit. `PIInv` adds to `IInv`:
  - `AdmittedWithinLimit`: a listener at the link step, holding a client from
    an address without write permission, saw fewer than `MaxClientsPerIP`
    linked clients from that address. With one listener nothing else links
    a client between the check at line 923 and the link at line 1093.
  - `CountSubset` and `CountAdd` state how `ClientIPCount` changes when a
    client is unlinked or linked. `PerIPFrame` covers the steps that leave
    `cthreads` and the addresses alone.

### ClientStatsProofs.tla

All theorems hold for every ring size and bound that satisfies
`StatsAssumption`.
- `StatsTypeCorrect`: `Spec => []TypeOK`. `TInv` adds two facts to
  `TypeOK`. `ClockInv` relates the clock to the number of calls, so the
  interval `now - ratetime` is positive inside a call. `AddendInv` says the
  unwrap addend loaded for the reader is 0 or `RingSlots`.
  `ModOffsets` gives the range of an offset taken modulo the ring size.
- `IdleRateIsZero`: `Spec => []RateZeroWhenIdle`. `RateInv` orders the
  counter samples: the history, the start-of-call value and the loaded value
  lie between the previous sample and the live counter. So a counter that did
  not move gives a numerator of 0.
- `LagIsReference`: `Spec => []LagMatchesReference`. `LagInv` says that,
  while the ring and the reader have not moved since the snapshot, every value
  loaded so far equals the snapshot's. When the call ends, `percentlag` is
  the lag computed from the snapshot. `UnwrapIsRingOrder` is the arithmetic
  core: for a reader inside the ring, the unwrapped offsets of lines
  1143-1153 give the reference lag in ring order. It rests on
  `RingDistances`, the ring-order distances that the unwrapped offsets give.
  `LagStep` splits each load on whether the snapshot is still consistent.
- `StableLagBounded`: `Spec => []StableLagInRange`. This is spec 8.1 for a
  call during which the ring and the reader held still: the lag is then in
  0..100.
  - It follows from `LagIsReference` and `RefLagInRange`, which says that
    the reader is no further behind latest than earliest is.
  - `PercentBound` is the division fact it needs.
  - No run checks `StableLagInRange`: it is a corollary of
    `LagMatchesReference`, which the stats run checks.
  - `lag_torn` shows that `LagInRange` fails without the condition.

### RingRecoveryProofs.tla

`OldDataPreserved`: `Spec => []OldDataKept`, for every set of versions and
modes that satisfies `RecoveryAssumption`. `OldDataKept` is not inductive: a
step must know where `main` is and what the files hold. `IInv` adds these:
- `TypeP`: the types, without the bounds of `TypeOK`.
- `OldIsOrig`: every older-version file on disk is the starting packet buffer
  `orig`, whose version is in `Versions`. `rename` moves a file; it never
  copies one.
- `PcFiles`: what each point of `main` implies about the files.
  - Before the first rename, `ringinit` is -1 for a ring that is not old, or
    the version of the old one.
  - After it, the packet buffer is gone until `Reinit`.
  - From the load on, the packet buffer and stream index are a ring pair.
  - The backups are removed only with `convert_version = 1`, after the load
    has converted the data of the `.version1` backup.
- `OrigPlaced`: until converted or deleted, `orig` is the packet buffer or
  its `.versionN` backup.

`InitIInv`, `IInvStep` (one case per action, one step per conjunct the action
can change) and `IInvOldDataKept` give the theorem by PTL. The lemmas
`RenameKeepsOld` and `UnlinkFacts` state what a rename and an unlink do to the
files, and `InitResultsFacts` that `RingInitialize` never returns 0 on an
older packet buffer. `IInv` was checked with TLC on the recovery instance
before it was proved. The proof needs the ordered test of lines 216-287:
`ringinit == -2 || !autorecovery` is tried before the mode.

`RecoveryTypeCorrect`: `Spec => []TypeOK`. The bounds of `TypeOK` on ring
ids do not follow from the types alone. `BoundInv` adds them:
- each start mints at most one id, since `RingInitialize` is called once or,
  after a recovery, twice with one mint between the calls;
- so `nextid` stays at most `starts + 2`, one more while a mint is pending
  (`PendingPcs`);
- every id on disk, in `orig`, and in the history sets is below `nextid`
  (`IdsBelow`).

`MintStep`, `RenameBelow`, `UnlinkBelow` and `InitializedBelow` show what one
step does to these bounds.

`ServesOnlyCurrentRing`: `Spec => []ServesCurrentRing`. It follows from
`IInv`: `PcFiles` holds, from the load on, that the packet buffer is a ring
and that the stream index equals it. That part of `PcFiles` is preserved
for these reasons:
- both `RingInitialize` calls create the pair together;
- `LoadBufferV1` records the loaded data in both files;
- the backup removals touch only `.version1` files.

### Only model-checked, not proved
- `ShutdownTerminates`. It is liveness, which depends on fairness and
  ENABLED; TLAPS cannot handle these here.
- `NoFreeBeforeJoin` and `SlotsRefined` when the malloc of the cthread can
  fail. They are false then, as link_uaf shows. They are proved for
  `~LinkAllocCanFail`.
- `PerIPLimit` with more than one listener. It is false, as the
  `perip_race` run shows. It is proved for one listener.
- `LagInRange`, and the other properties of the violation runs. These
  properties fail on the code. For `LagInRange`, `StableLagBounded` proves
  the bound under the condition the code does meet.
- `MatchAgreesWithCIDR`. `&` is defined recursively in `Bitwise`, which a
  module with theorems cannot use. The fact the property rests on is that
  ANDing a prefix mask keeps the first bits. That holds for every width, so
  proving it needs induction over the bits, which the provers here cannot
  do.

## Not modelled, and why

- The ring buffer engine, the protocol handlers, config parsing, the
  transfer-log interval code and the directory scanner body. They are not in
  `src/`.
- Logging and the parameter printout. They are output only.
- The transfer-log window and the config reread. `CalcIntWin` and
  `ReadConfigFile` are not in `src/`; see the plan.
- `NSnow`, the clock. It is not in `src/`. `ClientStats` assumes it advances
  between supervisor passes, which the watchdog's sleep ensures for a
  monotonic clock.
- The volatile ring and the building of the ring file paths
  (lines 198-209). They create no state that recovery depends on.
- In `Ringserver` the UNIX-socket listener is not told apart from a TCP one.
  `IPPolicy` shows what its uninitialised address does to the policy.

## Plan

1. The directory-scanner branch of `SupServers`.
2. The transfer-log window and the config reread in the supervisor.
3. Listener respawn liveness.
4. A proof that `ClientStats` refines an atomic `CalcStats` when the ring
   holds still.
