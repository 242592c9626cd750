CONSTANTS
  l1 = l1
  l2 = l2
  l3 = l3
  c1 = c1
  c2 = c2
  ann = ann
  bob = bob
  NoLine = NoLine
  Dialogue = {l1, l2}
  Commands = {}
  Actors = {ann, bob}
  Speaker <- BriefBy
  Script <- Reply
  Mute = {l2}
  Confirm = {}
  FollowUp = {}
  Ends = {}
  PrefetchDepth = 1
  Budgets <- Interrupted
SPECIFICATION FairSpec
CHECK_DEADLOCK FALSE
PROPERTIES
  HeadIsServed
