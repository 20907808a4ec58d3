\* cards, nudges and saves of a node that comes and goes, across restarts
CONSTANTS
  n1 = n1
  n2 = n2
  n3 = n3
  root = root
  leaf = leaf
  gk = gk
  NoKey = NoKey
  NoEvent = NoEvent
  GroupKey = {NoKey, gk}
  Rank <- RankOf
  Stores <- NudgeStores
  Edits <- NudgeStores
  Elsewhere = Elsewhere
  CanSaveFail = TRUE
  Node = {n1}
  RuleID = {root}
  Inhibits <- NoInhibits
  Removable = {n1}
  CanAck = TRUE
  CanRestart = TRUE
  Cooldown = 60
  StormThreshold = 6
  HistCap = 1
  LongAgo = 60
  StreakCap = 0
  MaxIncidents = 2
SPECIFICATION Spec
INVARIANTS
  NudgesPair
  CleanMeansSaved
