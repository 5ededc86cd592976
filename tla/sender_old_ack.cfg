SPECIFICATION Spec
CONSTANTS
  Modulus = 16
  MAX_PAYLOAD_SIZE = 2
  MAX_RETX_ATTEMPTS = 1
  Stream <- MCStream
  Isn = 13
  Capacity = 3
  Timeout = 2
  WriteLens = {1, 3}
  Windows = {0, 2, 5}
  Ticks = {1, 3}
INVARIANT WithinWindow
