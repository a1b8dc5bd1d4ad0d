SPECIFICATION FairSpec
CONSTANTS
  MemSize = 2
  Vals = {0, 1}
  Payload = 1
  SeqMod = 3
  MaxBytes = 2
  MaxDupReq = 2
  MaxDupRsp = 1
  MaxLost = 1
  MaxSendErr = 1
  MaxRecvErr = 1
  MaxRestarts = 1
  MaxFaults = 2
CHECK_DEADLOCK FALSE
INVARIANTS TypeOK CountersAgree ReturnedBytesAreThere
PROPERTIES CallReturns
