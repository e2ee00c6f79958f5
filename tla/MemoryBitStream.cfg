\* Fields that straddle bytes, one doubling of the buffer, one cut byte.
SPECIFICATION Spec
CONSTANTS
  InitialCapacity = 8
  PacketMem = 2
  Data <- TwoBytes
  FieldWidth = {2, 3, 11}
  MaxBits = 18
INVARIANTS
  StreamTypeOK
  Intact
  ReadIsWritten
  NothingCut
CHECK_DEADLOCK FALSE
