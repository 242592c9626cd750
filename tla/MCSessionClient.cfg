CONSTANTS
  m1 = m1
  s1 = s1
  OutCap = 2
  InCap = 2
  DeferCap = 2
  PumpBatch = 1
  PollMax = 1
  ReceiptCap = 1
  MaxAttempts = 2
  MenuClips <- NoClips
  SpeechClips <- OneSpeechClip
  Uses <- Paused
  MaxAsks = 2
  MaxGenerations = 2
  MaxEvents = 1
SPECIFICATION Spec
CHECK_DEADLOCK FALSE
INVARIANTS
  SessionInv
  EventsInOrder
  NobodyWaitsForNothing
PROPERTY ResultsInOrder
