\* Only write-permitted connections, maxclients 1 and one reserve slot.
CONSTANTS
  l1 = l1  l2 = l2  c1 = c1  c2 = c2  c3 = c3
  aw = aw  ao = ao  ar = ar  ax = ax
  Listeners <- OneListener
  Clients <- ThreeClients
  Addrs = {aw}  MatchIPs = {aw}  RejectIPs = {}  WriteIPs = {aw}
  MaxClients = 1  MaxClientsPerIP = 0  ReserveConnections = 1
  ClientTimeoutSet = FALSE  ShutdownValve = 3  MaxSignals = 0
  AllocCanFail = FALSE
  LinkAllocCanFail = FALSE
SPECIFICATION Spec
INVARIANT ReserveLimit
CHECK_DEADLOCK FALSE
