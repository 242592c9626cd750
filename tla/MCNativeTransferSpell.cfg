SPECIFICATION Spec
CONSTANTS
  Actions <- MCActions
  Turns <- MCTurns
  Kind <- MCKind
  TurnOf <- MCTurnOf
  RecordCap = 2
  SnapCap = 1
  PendingCap = 2
  MaxGenerations = 2
  MaxFailures = 1
INVARIANT NoFallbackCast
CHECK_DEADLOCK FALSE
