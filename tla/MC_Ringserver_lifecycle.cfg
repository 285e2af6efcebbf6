\* One endpoint, two client slots, all four address roles, every error path
\* enabled, up to two termination signals.
CONSTANTS
  l1 = l1  l2 = l2  c1 = c1  c2 = c2  c3 = c3
  aw = aw  ao = ao  ar = ar  ax = ax
  Listeners <- OneListener
  Clients <- TwoClients
  Addrs <- MCAddrs
  MatchIPs <- MCMatchIPs
  RejectIPs <- MCRejectIPs
  WriteIPs <- MCWriteIPs
  MaxClients = 1
  MaxClientsPerIP = 1
  ReserveConnections = 1
  ClientTimeoutSet = TRUE
  ShutdownValve = 4
  MaxSignals = 2
  AllocCanFail = TRUE
  LinkAllocCanFail = TRUE
SPECIFICATION Spec
INVARIANTS TypeOK PerIPLimit LinkedInUse
PROPERTIES ShutdownTerminates

\* After the watchdog loop ends main() returns and the process exits.
CHECK_DEADLOCK FALSE
