SPECIFICATION ToolsSpec
CONSTANTS
  MaxEdits = 2
  MaxBuilds = 3
  MaxMishaps = 2
  MaxCircuits = 2
  MaxSetups = 3
  MaxExports = 2
  Rows = 2
  Keep = 1
  MaxSends = 2
  MaxTyped = 3
  MaxActions = 2
  MaxCloses = 1
  Holders = {alice, bob}
  MaxSwitches = 2
  MaxClicks = 2
  MaxLosses = 1
  MaxWaiting = 2
  MaxAdminClicks = 4
  MaxFailures = 1
  MaxVisiting = 3
  Modulus = 7
  HalfFull = 2
  Partial = 2
  RoundConstants <- SomeConstants
  Diagonal4 <- SomeDiagonal
INVARIANTS
  PublishedFilesFit
  KeysOfOneSetup
  ExportOfOneSetup
  ProofsAreAccepted
  SecretsAreKept
  ClaimsAreOfOneEmployee
  TimelineTellsActions
  HashesAgree
  SettledPageFits
  BookShowsOwnKeys
  PageSpeaksForOneAccount
CHECK_DEADLOCK FALSE
