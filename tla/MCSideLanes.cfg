SPECIFICATION MCSpec
CONSTANTS
  Books <- MCBooks
  BookOf <- MCBookOf
  MaxAttempts = 2
  MaxGenerations = 2
  MaxTroubles = 3
  Adjustments = {"adjustment"}
  Readings = {"low", "high"}
  QueueCap = 1
  ReceiptCap = 2
  OutCap = 2
  MaxMishaps = 1
  MaxChanges = 1
  Places = {"home", "inn"}
  Home <- MCHome
  MaxCommands = 2
  MaxWalks = 1
INVARIANT DiaryInv NpcInv
PROPERTY KeepsItsWord OnlyWhatIsAwaited AppliesOnce EveryLaneSettles
CHECK_DEADLOCK FALSE
