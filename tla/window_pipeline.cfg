CONSTANTS
  Commands <- AllCommands
  MaxCommands = 1
  MaxDesk = 4
  MaxFaults = 2
SPECIFICATION FairSpec
INVARIANTS TypeOK ObserverNotBehindCache
PROPERTIES CatchesUpWithDesk
CHECK_DEADLOCK FALSE
