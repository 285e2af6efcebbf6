\* One client slot, one termination signal.
CONSTANTS
  l1 = l1  l2 = l2  c1 = c1  c2 = c2  c3 = c3
  aw = aw  ao = ao  ar = ar  ax = ax
  Listeners <- OneListener
  Clients = {c1}
  Addrs = {ao}  MatchIPs = {ao}  RejectIPs = {}  WriteIPs = {}
  MaxClients = 1  MaxClientsPerIP = 0  ReserveConnections = 0
  ClientTimeoutSet = FALSE  ShutdownValve = 3  MaxSignals = 1
  AllocCanFail = FALSE
  LinkAllocCanFail = FALSE
SPECIFICATION Spec
PROPERTY ClosedIsFinal
CHECK_DEADLOCK FALSE
