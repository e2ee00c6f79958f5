\* Two packets to watch among noise; two packets a frame.
SPECIFICATION NetSpec
CONSTANTS
  MaxWatched = 2
  Noise = Noise
  Failed = Failed
  kMaxPacketsPerFrameCount = 2
  Latency = {0, 1}
  MaxHeld = 3
  MaxUnanswered = 1
INVARIANTS
  NetTypeOK
  NothingMislaid
PROPERTIES
  FrameEnds
  EventuallyHandled
