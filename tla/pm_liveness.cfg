SPECIFICATION FairSpec
CONSTANTS
  Services = {api}
  Reqs = {r1, r2}
  Pids = {p1}
  NoPid = NoPid
  NoReq = NoReq
  Lost = Lost
  Offered = {"start", "stop", "restart", "shutdown", "reconcile"}
  MaxGen = 1
  MaxCrashes = 1
  PidReuse = FALSE
PROPERTIES EveryCallReturns ExitIsReported
