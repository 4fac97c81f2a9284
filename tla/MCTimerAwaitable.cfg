CONSTANTS
  Stoppers = {s1, s2}
SPECIFICATION FairSpec
INVARIANT ResumedOnce
PROPERTY StopEndsLoop
CHECK_DEADLOCK FALSE
