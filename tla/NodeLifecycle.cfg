\* two operators and a restart, with a file and a database that may fail
CONSTANTS
  None = None
  Local = ctrl
  Node = {ctrl, pop}
  Meta = {a, b}
  Seeded = {ctrl, pop}
  Seed = a
  Patched = {pop}
  Operator = {web, bot}
  HasDb = TRUE
  CanFileFail = TRUE
  CanDbFail = TRUE
  MaxRestarts = 1
SPECIFICATION FairSpec
INVARIANTS
  LiveFollowsRegistry
  NothingLeftOver
PROPERTIES
  StatusCatchesUp
  ShowsFleetView
