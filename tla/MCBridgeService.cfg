CONSTANTS
  r1 = r1
  r2 = r2
  r3 = r3
  Requests = {r1, r2}
  OutCapacity = 2
  InCapacity = 2
  Reserved = 1
  MaxGeneration = 2
SPECIFICATION FairSpec
CHECK_DEADLOCK FALSE
INVARIANTS
  BridgeInv
  OneOfEach
  NoLostInterrupt
  CurrentResultsOnly
  HaltLeavesNothing
PROPERTIES
  StartsOnlyLive
  HaltCompletes
  EveryRequestSettles
