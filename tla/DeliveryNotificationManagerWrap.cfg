\* Server and client in the wiring of ClientProxy, across a wrap.
SPECIFICATION Spec
CONSTANTS
  server = server
  client = client
  Peer <- Both
  ShouldSendAcks <- ClientSendsAcks
  ShouldProcessAcks <- ServerProcessesAcks
  SeqMod = 2
  MaxRange = 2
  MaxSends <- ServerFourClientTwo
  MaxAccepts <- ServerTwoClientFour
INVARIANTS
  Accounting
PROPERTIES
  EveryPacketReported
CHECK_DEADLOCK FALSE
