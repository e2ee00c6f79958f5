\* Every range and every consecutive deque of up to 6 packets, numbers modulo 5.
SPECIFICATION Spec
CONSTANTS
  SeqMod = 5
  MaxRange = 5
  MaxInFlight = 6
INVARIANTS
  TypeOK
  LoopSettles
  OnlyAckedDelivered
PROPERTIES
  Terminates
CHECK_DEADLOCK FALSE
