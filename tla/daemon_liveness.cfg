SPECIFICATION FairDaemonSpec
CONSTANTS
  Services = {api}
  Reqs = {r1, co}
  Coordinator = co
  Pids = {p1}
  NoPid = NoPid
  NoReq = NoReq
  Lost = Lost
  Offered = {"start", "stop", "restart", "shutdown", "reconcile"}
  MaxGen = 1
  MaxCrashes = 1
  PidReuse = FALSE
CHECK_DEADLOCK FALSE
PROPERTIES SignalEndsDaemon DrainEnds
