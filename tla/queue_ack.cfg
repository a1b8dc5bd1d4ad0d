SPECIFICATION FairSpec
CONSTANTS
  EdclMax = 4
  ChunkSlots = 1
  NRegs = 2
  Vals = {0, 1}
  Dead = Dead
  Arrays = {2}
  Limits = {0, 1, 2}
  MaxBlock = 2
  Acks = TRUE
  MaxFaults = 0
INVARIANTS TypeOK QueueBelowDoorbell NoConcurrentAccess InOrderExactlyOnce AllPerformedAtReturn BellLeftOnlyByBlockRead
PROPERTIES ReadsReturnDeviceValues ImplementsRegisterBus CallReturns
