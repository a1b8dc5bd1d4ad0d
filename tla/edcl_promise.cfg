SPECIFICATION Spec
CONSTANTS
  MemSize = 3
  Vals = {0, 1}
  Payload = 2
  SeqMod = 3
  MaxBytes = 3
  MaxDupReq = 2
  MaxDupRsp = 0
  MaxLost = 0
  MaxSendErr = 0
  MaxRecvErr = 0
  MaxRestarts = 0
  MaxFaults = 3
INVARIANTS AckAnswersRequest ReadFitsBuffer
PROPERTIES ImplementsRemoteMemory
