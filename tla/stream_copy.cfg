SPECIFICATION Spec
CONSTANTS
  Input <- MCInput
  Answer <- MCAnswer
  buffer_size_max = 2
  max_copy_length = 2
  Room = 1
INVARIANT NothingLost
INVARIANT FailsOnlyByRaceOrReset
PROPERTY Returns
CHECK_DEADLOCK FALSE
