SPECIFICATION Spec
CONSTANTS
  alice = alice
  bob = bob
  stranger = stranger
  Accounts <- MCAccounts
  Pools <- MCPools
  Chains <- MCChains
  PageSize = 2
  FetchLimit = 2
  AccountChunk = 1
  MaxFaults = 0
INVARIANT
  OnlyFaultsEndARun
