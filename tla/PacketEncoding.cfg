\* Every packet type, ranges at the limit of a byte, numbers at the limit of 16 bits.
SPECIFICATION Spec
CONSTANTS
  InitialCapacity = 16
  Names <- SomeNames
  PlayerIds <- SomeIds
  SequenceNumbers = {0, 1, 255, 256, 40961, 65535}
  Counts = {0, 1, 2, 255, 256, 257, 300}
INVARIANTS
  Understood
  ReadsWhatArrived
CHECK_DEADLOCK FALSE
