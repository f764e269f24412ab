CONSTANTS
  Default = 2
  Account = 4
  MaxStarts = 5
  MaxCrashes = 2
  MaxTokens = 2
SPECIFICATION FairSpec
INVARIANTS
  ReturnedSignedIn
  SignedInSurvives
  TokenOnce
PROPERTY
  LoginEnds
CHECK_DEADLOCK FALSE
