SPECIFICATION FairSpec
CONSTANTS
  Clients = {c1, c2}
  Addrs = {a1}
  Vals = {0, 1}
  None = None
  Burst = 2
  ServerBuf = 3
  ClientBuf = 3
  MaxRestarts = 1
CHECK_DEADLOCK FALSE
INVARIANTS TypeOK AnswersDoNotPileUp
PROPERTIES ImplementsBufferedMemory ReadReturns
