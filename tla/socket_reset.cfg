SPECIFICATION Spec
CONSTANTS
  Modulus = 16
  SIZE_MAX = 100
  MAX_PAYLOAD_SIZE = 1
  MAX_RETX_ATTEMPTS = 1
  UINT16_MAX = 2
  LINGER_TIMEOUTS = 2
  OwnerData <- MCOwnerData
  PeerData <- MCPeerData
  Local <- MCLocal
  Senders <- MCSenders
  Starts <- MCStarts
  OwnerIsn = 14
  PeerIsn = 15
  RecvCapacity = 2
  SendCapacity = 1
  Timeout = 1
  PeerWindow = 1
  Room = 1
  MaxLate = 1

INVARIANT ResetIsSent
CHECK_DEADLOCK FALSE
