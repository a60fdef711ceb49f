SPECIFICATION Spec
CONSTANTS
  Services = {api, web}
  Reqs = {r1, r2}
  Pids = {p1, p2}
  NoPid = NoPid
  NoReq = NoReq
  Lost = Lost
  Offered = {"start", "shutdown"}
  MaxGen = 2
  MaxCrashes = 1
  PidReuse = TRUE
CONSTRAINT OwnersTakeTurns
SYMMETRY Symmetry
INVARIANTS LiveIsJournaled OneReleasePipeOpen
PROPERTIES RecoverySignalsOnlyRecorded
