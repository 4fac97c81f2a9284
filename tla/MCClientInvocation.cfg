CONSTANTS
  Endpoints = {e1, e2}
  Target = e1
  Token = token
SPECIFICATION FairSpec
INVARIANTS  RemovedIsSettled
PROPERTY AnsweredReturns
CHECK_DEADLOCK FALSE
