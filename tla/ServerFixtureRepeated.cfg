\* Two tests in the process: the first leaves port 2000 bound.
SPECIFICATION FixtureSpec
CONSTANTS
  MaxWatched = 1
  Noise = Noise
  Failed = Failed
  kMaxPacketsPerFrameCount = 2
  Latency = {0}
  MaxHeld = 3
  MaxUnanswered = 0
  MaxTests = 2
  PortTaken = FALSE
PROPERTIES
  TearDownReturns
CHECK_DEADLOCK FALSE
