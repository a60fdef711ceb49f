SPECIFICATION Spec
CONSTANTS
  i1 = i1
  i2 = i2
  c1 = c1
  c2 = c2
  Ids = {i1, i2}
  Creates = {c1, c2}
  Loads <- Instances
  Compose = Compose
  None = None
INVARIANTS TypeOK TypedOnce TabsInOrder ClosedStaysClosed NoSessionUnseen PresentationCurrent
PROPERTIES BackgroundStays
SYMMETRY Symmetric
CHECK_DEADLOCK FALSE
