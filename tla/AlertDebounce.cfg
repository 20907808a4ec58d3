\* one rule on one node, retimed, muted and rescoped while it fires
CONSTANTS
  n1 = n1
  n2 = n2
  n3 = n3
  root = root
  leaf = leaf
  gk = gk
  NoKey = NoKey
  NoEvent = NoEvent
  GroupKey = {NoKey, gk}
  Rank <- RankOf
  Stores <- DebounceStores
  Edits <- DebounceStores
  Elsewhere = Elsewhere
  CanSaveFail = FALSE
  Node = {n1}
  RuleID = {root}
  Inhibits <- NoInhibits
  Removable = {}
  CanAck = FALSE
  CanRestart = FALSE
  Cooldown = 60
  StormThreshold = 6
  HistCap = 1
  LongAgo = 90
  StreakCap = 3
  MaxIncidents = 2
SPECIFICATION FairSpec
PROPERTIES
  DebouncedFire
  DebouncedResolve
  NoHangingAlerts
  EscalationIsAnswered
