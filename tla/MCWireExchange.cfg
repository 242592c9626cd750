SPECIFICATION Spec
CONSTANTS
  Bad = Bad
  Null = Null
  Ok = Ok
  Text = Text
  a = a
  b = b
  Ids = {a, b}
  Generation = 1
  Requests <- MCRequests
  Answers <- MCAnswers
INVARIANTS
  SentAsItself
  OnlyItsOwnAnswer
  PowerNeedsConsent
  AnswersAreUsable
