SPECIFICATION Spec
CONSTANTS
  a = a
  b = b
  Byte = {a, b}
  Data <- MCData
  ReadLens <- MCReadLens
  Capacity = 3
  MaxWritten = 4
  MaxBuffers = 4
PROPERTY ImplementsByteStream
