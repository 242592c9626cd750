CONSTANTS
  l1 = l1
  l2 = l2
  l3 = l3
  c1 = c1
  c2 = c2
  ann = ann
  bob = bob
  NoLine = NoLine
  Dialogue = {l1, l2}
  Commands = {c1, c2}
  Actors = {ann, bob}
  Speaker <- ActBy
  Script <- Act
  Mute = {l2}
  Confirm = {c1}
  FollowUp = {c1}
  Ends = {c2}
  PrefetchDepth = 1
  Budgets <- Disturbed
SPECIFICATION Spec
CHECK_DEADLOCK FALSE
INVARIANTS
  NeverTwice
  ConfirmationIsCurrent
