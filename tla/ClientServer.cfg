\* Two clients, one claim each; the socket of one holds two packets.
SPECIFICATION Spec
CONSTANTS
  c1 = c1
  c2 = c2
  Client = {c1, c2}
  Server = Server
  NoProxy = NoProxy
  NoClaim = NoClaim
  kMaxPacketsPerFrameCount = 1
  MaxHeld <- C1Two
  MaxPresses <- OneEach
INVARIANTS
  ClientServerTypeOK
  ResultAfterWelcome
  FirstResultsAgree
PROPERTIES
  ImplementsSession
  EventuallyWelcomed
  ClaimEndsGame
