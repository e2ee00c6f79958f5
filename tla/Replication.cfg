\* One object with one state bit, four state packets.
SPECIFICATION ReplicationSpec
CONSTANTS
  server = server
  client = client
  Absent = Absent
  Nothing = Nothing
  Indeterminate = Indeterminate
  Peer <- Both
  ShouldSendAcks <- ClientSendsAcks
  ShouldProcessAcks <- ServerProcessesAcks
  SeqMod = 8
  MaxRange = 2
  MaxSends <- ServerFourClientTwo
  MaxAccepts <- Five
  NetworkId = {n1}
  StateBit = {b1}
INVARIANTS
  ReplicationTypeOK
  NoIndeterminateCommand
  WritesOnlyRegistered
  CreateNotForgotten
  DestroyNotForgotten
PROPERTIES
  ReplicatesObjects
  AckedLossIsDirtyAgain
CHECK_DEADLOCK FALSE
