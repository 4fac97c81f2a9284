CONSTANTS
  Callers = {c1, c2}
  Deliveries = {d}
  MaxTries = 2
  MaxRefreshes = 2
SPECIFICATION Spec
SYMMETRY CallerSymmetry
INVARIANTS NeverNull  NoneStranded
CHECK_DEADLOCK FALSE
