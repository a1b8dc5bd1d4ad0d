SPECIFICATION Spec
CONSTANTS
  EdclMax = 5
  ChunkSlots = 2
  NRegs = 1
  Vals = {0, 1}
  Dead = Dead
  Arrays = {1}
  Limits = {}
  MaxBlock = 0
  Acks = FALSE
  MaxFaults = 1
CONSTRAINT HistoryBound
INVARIANTS QueueBelowDoorbell NoConcurrentAccess InOrderExactlyOnce AllPerformedAtReturn
