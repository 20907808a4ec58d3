\* one armed controller over a primary and its replica
CONSTANTS
  NoOrigin = NoOrigin
  Primary = ctrl
  Standby = pop
  Origin = {ctrl, pop}
  Priority <- Ranked
  HasAlt = {ctrl, pop}
  ConfigFile <- Armed
  Record = {A, AAAA}
  MaxCrashes = 1
  MaxRestarts = 1
SPECIFICATION FairSpec
INVARIANTS
  ServesOnlyPromoted
  SplitNeedsMissedFence
PROPERTIES
  NoSecondTakeover
  LossIsTakenOver
