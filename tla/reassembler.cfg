SPECIFICATION FairSpecI
CONSTANTS
  Stream <- MCStream
  SIZE_MAX = 9
  Capacity = 4
  ReadLens = {1, 2}
  EofAhead = FALSE
INVARIANTS
  OutputIsPrefix
  DrainIsTheLoop
  IndInv
  IntervalsAreComplement
  
PROPERTIES
  EndIsFinal
  Completes
