CONSTANTS
  MaxData = 4
  Closers = {service, migration, shutdown}
  Migrating = {migration}
  OffLoop = {shutdown}
SPECIFICATION FairSpec
INVARIANTS CompletionNotLost SingleCloserSparesWriter ReceivedInOrder
PROPERTY ImplementsPipe
CHECK_DEADLOCK FALSE
