SPECIFICATION FlowSpec
CONSTANTS
  Levels = 3
  RootHistorySize = 2
  u1 = u1
  u2 = u2
  pool = pool
  f1 = f1
  f2 = f2
  a1 = a1
  a2 = a2
  a3 = a3
  a4 = a4
  b1 = b1
  b2 = b2
  b3 = b3
  b4 = b4
  c1 = c1
  c2 = c2
  Users = {u1, u2}
  PoolAddr = pool
  Dummies = {a1, a2, a3, a4, b1, b2, b3, b4, c1, c2}
  Outputs = {}
  ExtData = {}
  FieldSize = 41
  MaxMultiple = 0
  MaxExtAmount = 10
  MaxI128 = 4
  MaxDeposit = 3
  InitialBalance <- MCInitialBalance
  Deployer = u1
  MembershipAsps = {1}
  NonMembershipAsps = {1}
  AspCapacity = 2
  InitialMembers <- MCFirstMember
  Flows = {f1, f2}
  DummyOf <- MCDummyOf
  Scenarios <- MCScenarios
  FirstNotes <- MCFirstNotes
  FirstSpent <- MCFirstSpent
  MaxSnapshotAttempts = 2
INVARIANT
  FlowTypeOK
  WitnessesFit
  SignedIsAccepted
  BooksBalance
PROPERTY
  FlowsEnd
CHECK_DEADLOCK FALSE
