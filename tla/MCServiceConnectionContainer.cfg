CONSTANTS
  Conns = {c1, c2, c3}
  Fixed = 1
  MaxCount = 2
SPECIFICATION FairSpec
INVARIANTS SlotsKept NoStray
PROPERTIES FixedRecovers StopEndsAll
