CONSTANTS
  Pausers = {p1, p2}
  Loop = Loop
  MaxMessages = 3
SPECIFICATION FairSpec
INVARIANTS PermitNotLost AckedIsQuiet ForwardedInOrder
PROPERTY LoopEnds
CHECK_DEADLOCK FALSE
