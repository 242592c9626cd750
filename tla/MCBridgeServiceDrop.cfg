CONSTANTS
  r1 = r1
  r2 = r2
  r3 = r3
  Requests = {r1, r2, r3}
  OutCapacity = 3
  InCapacity = 2
  Reserved = 1
  MaxGeneration = 2
SPECIFICATION Spec
CHECK_DEADLOCK FALSE
INVARIANT NoResultDropped
