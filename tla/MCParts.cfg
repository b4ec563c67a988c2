SPECIFICATION PartsSpec
CONSTANTS
  Levels = 3
  EmptyLeaf = zero
  Commitments = {a, b}
  RootHistorySize = 3
  Accounts = {admin1, user1}
  Deployer = admin1
  Members = {m1, m2}
  Keys = {0, 1, 2, 4}
  Values = {0, 1}
  KeyBits = 3
  SmtDepth = 3
  MaxStale = 1
  MaxNodes = 9
INVARIANTS
  ClientRootIsCurrent
  EveryNoteProvable
  EventsTellTheTree
  EveryMemberProvable
  RootIsCanonical
  StateComplete
  ProofsDecideBlocking
  ClientTreeAgrees
PROPERTY
  ImplementsMerkleWithHistory
CHECK_DEADLOCK FALSE
