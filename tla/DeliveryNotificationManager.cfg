\* Server and client in the wiring of ClientProxy, before any wrap.
SPECIFICATION Spec
CONSTANTS
  server = server
  client = client
  Peer <- Both
  ShouldSendAcks <- ClientSendsAcks
  ShouldProcessAcks <- ServerProcessesAcks
  SeqMod = 8
  MaxRange = 2
  MaxSends <- ServerFiveClientThree
  MaxAccepts <- Five
INVARIANTS
  TypeOK
  DeliveredWasAccepted
  AcceptedInOrder
  AckLostOnlyBehindFullRange
PROPERTIES
  KeepsPromise
CHECK_DEADLOCK FALSE
