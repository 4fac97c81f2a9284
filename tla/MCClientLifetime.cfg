CONSTANTS
  Home = home
  Other = other
SPECIFICATION FairSpec
INVARIANTS MigrationSilent  StopLeavesNoneOpen
PROPERTY ClientEnds
CHECK_DEADLOCK FALSE
