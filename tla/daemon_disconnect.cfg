SPECIFICATION DisconnectSpec
CONSTANTS
  Services = {api}
  Reqs = {r1, co}
  Coordinator = co
  Pids = {p1}
  NoPid = NoPid
  NoReq = NoReq
  Lost = Lost
  Offered = {"start", "stop", "shutdown", "reconcile"}
  MaxGen = 1
  MaxCrashes = 1
  PidReuse = FALSE
  FdReuse = TRUE
CHECK_DEADLOCK FALSE
INVARIANTS StopsServingOnceDown
