CONSTANTS
  Writers = {w1, w2}
SPECIFICATION FairSpec
INVARIANTS WritesReachTransport TasksSettled
PROPERTIES DeadServiceDetected StopTakesEffect
