SPECIFICATION FairSpec
CONSTANTS
  MemSize = 2
  Vals = {0, 1}
  Payload = 1
  SeqMod = 3
  MaxBytes = 2
  MaxDupReq = 0
  MaxDupRsp = 0
  MaxLost = 0
  MaxSendErr = 1
  MaxRecvErr = 0
  MaxRestarts = 0
  MaxFaults = 3
CHECK_DEADLOCK FALSE
PROPERTIES SendErrorReported
