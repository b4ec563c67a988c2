SPECIFICATION Spec
CONSTANTS
  Keys = {0, 1, 2, 4}
  Values = {0, 1}
  KeyBits = 3
  SmtDepth = 3
  Accounts = {admin1, admin2}
  Deployer = admin1
  MaxStale = 1
INVARIANT StateComplete
CHECK_DEADLOCK FALSE
