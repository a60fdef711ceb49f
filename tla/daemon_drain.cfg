SPECIFICATION DaemonSpec
CONSTANTS
  Services = {api}
  Reqs = {r1, r2, co}
  Coordinator = co
  Pids = {p1, p2}
  NoPid = NoPid
  NoReq = NoReq
  Lost = Lost
  Offered = {"start", "stop", "restart", "shutdown", "reconcile"}
  MaxGen = 2
  MaxCrashes = 2
  PidReuse = FALSE
CHECK_DEADLOCK FALSE
CONSTRAINT RelaunchesAlone
SYMMETRY DaemonSymmetry
INVARIANTS ServesOnlyItsOwn DrainedMeansDown DrainEndsLaunches
