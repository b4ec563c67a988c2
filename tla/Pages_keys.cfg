SPECIFICATION PagesSpec
CONSTANTS
  Holders = {alice, bob}
  MaxSwitches = 2
  MaxClicks = 1
  MaxLosses = 0
  MaxWaiting = 2
  MaxAdminClicks = 2
  MaxFailures = 0
INVARIANT
  KeysAreRecoverable
CHECK_DEADLOCK FALSE
