SPECIFICATION SpecI
CONSTANTS
  Stream <- MCStream
  SIZE_MAX = 9
  Capacity = 3
  ReadLens = {1, 2}
  EofAhead = TRUE
INVARIANT EndsOnlyWhenComplete
