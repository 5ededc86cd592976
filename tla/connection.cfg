SPECIFICATION Spec
CONSTANTS
  Modulus = 16
  SIZE_MAX = 100
  MAX_PAYLOAD_SIZE = 1
  MAX_RETX_ATTEMPTS = 1
  UINT16_MAX = 2
  LINGER_TIMEOUTS = 2
  Client = "client"
  Server = "server"
  Stream <- MCStream
  Isn <- MCIsn
  RecvCapacity = 2
  SendCapacity = 2
  Timeout = 1
  WriteLens = {2}
  Ticks = {4}
  InFlight <- MCInFlight
INVARIANTS
  TypeOK
  DeliveredIsPrefix
  AckedIsReceived
  CleanMeansDelivered
  OneEndLingers
  ResetMeansGivenUp
PROPERTY FollowsRFC793
CHECK_DEADLOCK FALSE
