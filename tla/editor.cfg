SPECIFICATION FairSpec
CONSTANTS
  f1 = f1
  f2 = f2
  Files = {f1, f2}
  Loads <- Instances
  MaxPosts = 1
  None = None
INVARIANTS TypeOK ReadNotTorn
PROPERTIES WorkKept TimeFollowed
CHECK_DEADLOCK FALSE
