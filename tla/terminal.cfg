SPECIFICATION Spec
CONSTANTS
  i1 = i1
  g1 = g1
  g2 = g2
  l1 = l1
  l2 = l2
  c1 = c1
  c2 = c2
  Ids = {i1}
  Gens = {g1, g2}
  Leases = {l1, l2}
  Callers = {c1, c2}
  Loads <- Instances
  None = None
INVARIANTS NoOrphan StateTruthful CloseMeansGone ShutdownComplete LeasedOutside OneWriter EndedNotOutside
PROPERTIES StaleNeverResets
SYMMETRY Symmetric
