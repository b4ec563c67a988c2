SPECIFICATION KnownSpec
CONSTANTS
  p1 = p1
  p2 = p2
  asp = asp
  Pools <- MCPools
  Asp = asp
  DeploymentLedger <- MCDeploymentLedger
  Configs <- TwoConfigs
  FirstConfigs <- BothPools
  PageSize = 1
  MaxPagesPerRound = 2
  MaxLedger = 3
  MaxEvents = 4
  MaxEventsPerLedger = 2
  MaxReloads = 2
INVARIANT
  CaughtUpIsComplete
PROPERTIES
  OrderedFeed
  CatchesUp
