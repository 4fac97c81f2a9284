CONSTANTS
  Calls = {a, b, c}
  NoCall = NoCall
SPECIFICATION FairSpec
INVARIANTS ProbedExactlyOnce NoStampede
 
CHECK_DEADLOCK FALSE
