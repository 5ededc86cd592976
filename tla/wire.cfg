SPECIFICATION Spec
CONSTANTS
  Here <- MCHere
  There <- MCThere
  Segments <- MCSegments
  Words <- MCWords
INVARIANTS
  SegmentSurvives
  DamageNoticed
  CutRefused
CHECK_DEADLOCK FALSE
