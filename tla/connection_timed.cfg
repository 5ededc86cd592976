SPECIFICATION FairSpec
CONSTANTS
  Modulus = 16
  SIZE_MAX = 100
  MAX_PAYLOAD_SIZE = 1
  MAX_RETX_ATTEMPTS = 3
  UINT16_MAX = 2
  LINGER_TIMEOUTS = 10
  Client = "client"
  Server = "server"
  Stream <- MCStream
  Isn <- MCIsn
  RecvCapacity = 2
  SendCapacity = 2
  Timeout = 1
  WriteLens = {1}
  MaxLoss = 3
  Prompt = TRUE
  Patient = TRUE
INVARIANT NoReset
 
CHECK_DEADLOCK FALSE
