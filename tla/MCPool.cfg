SPECIFICATION PoolSpec
CONSTANTS
  Levels = 3
  RootHistorySize = 2
  u1 = u1
  u2 = u2
  pool = pool
  d1 = d1
  d2 = d2
  d3 = d3
  Users = {u1, u2}
  PoolAddr = pool
  Dummies = {d1, d2, d3}
  Outputs <- MCOutputs
  ExtData <- MCExtData
  FieldSize = 13
  MaxMultiple = 1
  MaxExtAmount = 3
  MaxI128 = 2
  MaxDeposit = 1
  InitialBalance <- MCInitialBalance
  Deployer = u1
  MembershipAsps = {1, 2}
  NonMembershipAsps = {1}
  AspCapacity = 2
  InitialMembers <- MCFirstMember
SYMMETRY DummySymmetry
INVARIANTS
  TypeOK
  KnownRootsExact
  Solvent
  FreshNullifiers
PROPERTIES
  ImplementsLedger
  PolicyEnforced
CHECK_DEADLOCK FALSE
