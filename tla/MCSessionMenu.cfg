CONSTANTS
  m1 = m1
  s1 = s1
  OutCap = 2
  InCap = 2
  DeferCap = 1
  PumpBatch = 1
  PollMax = 2
  ReceiptCap = 1
  MaxAttempts = 2
  MenuClips <- OneMenuClip
  SpeechClips <- NoClips
  Uses <- Speaking
  MaxAsks = 3
  MaxGenerations = 1
  MaxEvents = 1
SPECIFICATION FairSpec
CHECK_DEADLOCK FALSE
INVARIANT MenuFollowsItsClip
PROPERTIES
  EventsArrive
  HandshakeEnds
