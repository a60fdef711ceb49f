SPECIFICATION FairSpec
CONSTANTS
  p1 = p1
  v1 = v1
  v2 = v2
  Presses = {p1}
  Views = {v1, v2}
  DaemonViews = {v2}
  MaxWorld = 1
  MaxFails = 1
  None = None
INVARIANTS GitCovered
PROPERTIES GitAnswered PressesEnd CatchesUp
