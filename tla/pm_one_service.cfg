SPECIFICATION Spec
CONSTANTS
  Services = {api}
  Reqs = {r1, r2}
  Pids = {p1, p2}
  NoPid = NoPid
  NoReq = NoReq
  Lost = Lost
  Offered = {"start", "stop", "restart", "shutdown", "reconcile"}
  MaxGen = 2
  MaxCrashes = 1
  PidReuse = TRUE
SYMMETRY Symmetry
INVARIANTS LiveIsJournaled OneGroupPerService NoHiddenGroup ConfirmedIsGone
PROPERTIES StopMeansStopped OwnershipSpec
