SPECIFICATION Spec
CONSTANTS
  Null = Null
  Skill = Skill
  RetryCap = 1
  SubjectCap = 2
  MaxAttempts = 2
  MaxSteps = 3
  Budget = 7
  BackoffAttempts = 2
  Void <- MCVoid
  OtherPreds <- MCOtherPreds
  Data <- MCData
  NearMiss <- MCNearMiss
  TestCase <- MCTestCase
  Query <- MCQuery
  ReplyTokens <- MCReplyTokens
PROPERTY Deadline
