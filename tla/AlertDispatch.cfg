\* two rules on three nodes, the dependent evaluated first
CONSTANTS
  n1 = n1
  n2 = n2
  n3 = n3
  root = root
  leaf = leaf
  gk = gk
  NoKey = NoKey
  NoEvent = NoEvent
  GroupKey = {NoKey, gk}
  Rank <- LeafFirst
  Stores <- DispatchStores
  Edits <- NoEdits
  Elsewhere = Elsewhere
  CanSaveFail = FALSE
  Node = {n1, n2, n3}
  RuleID = {root, leaf}
  Inhibits <- RootInhibitsLeaf
  Removable = {}
  CanAck = FALSE
  CanRestart = FALSE
  Cooldown = 30
  StormThreshold = 3
  HistCap = 2
  LongAgo = 30
  StreakCap = 0
  MaxIncidents = 3
SPECIFICATION Spec
INVARIANTS
  RootCauseMutes
  HistoryMirrorsActive
