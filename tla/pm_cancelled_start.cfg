SPECIFICATION CancelSpec
CONSTANTS
  Services = {api}
  Reqs = {r1, r2}
  Pids = {p1, p2}
  NoPid = NoPid
  NoReq = NoReq
  Lost = Lost
  Offered = {"start", "stop", "restart"}
  MaxGen = 2
  MaxCrashes = 1
  PidReuse = FALSE
  FdReuse = FALSE
INVARIANTS CrashLeavesNothingUnjournaled
