CONSTANTS
  Users = {u1, u2}
  WrongStoppers = {w}
  MaxTimers = 3
SPECIFICATION Spec
INVARIANT SerialUseCounts
