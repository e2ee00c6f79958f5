\* One test in the process, port 2000 free.
SPECIFICATION FixtureSpec
CONSTANTS
  MaxWatched = 1
  Noise = Noise
  Failed = Failed
  kMaxPacketsPerFrameCount = 2
  Latency = {0}
  MaxHeld = 3
  MaxUnanswered = 0
  MaxTests = 1
  PortTaken = FALSE
INVARIANTS
  FixtureTypeOK
PROPERTIES
  TearDownReturns
