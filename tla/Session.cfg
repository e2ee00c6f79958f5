\* Two clients, a lossy, duplicating, reordering network.
SPECIFICATION Spec
CONSTANTS
  Client = {c1, c2}
  NoProxy = NoProxy
INVARIANTS
  TypeOK
  WelcomedIdIsTheServers
  WonOnlyByClaim
  LostOnlyToAnother
CHECK_DEADLOCK FALSE
