SPECIFICATION FairSpec
CONSTANTS
  Sectors = {1, 2}
  MaxPolls = 2
CHECK_DEADLOCK FALSE
INVARIANTS TypeOK StoppedBetweenCalls
PROPERTIES ImplementsSectorReader ReadReturns
