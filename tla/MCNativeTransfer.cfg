SPECIFICATION FairSpec
CONSTANTS
  Actions <- MCActions
  Turns <- MCTurns
  Kind <- MCKind
  TurnOf <- MCTurnOf
  RecordCap = 2
  SnapCap = 1
  PendingCap = 1
  MaxGenerations = 2
  MaxFailures = 1
INVARIANT TypeOK
PROPERTY KeepsItsWord OnlyWhileAsked LeavesTheList
CHECK_DEADLOCK FALSE
