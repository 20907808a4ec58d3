\* every configuration the loader accepts
CONSTANTS
  o1 = o1
  o2 = o2
  o3 = o3
  Origin = {o1, o2, o3}
  NoOrigin = NoOrigin
  HasAlt = {o1}
  Priority <- RankedPriority
  ConfigFile <- ManyFiles
SPECIFICATION FairSpec
PROPERTIES
  FailoverIsWarranted
  ImplementsLatch
  LossIsActedOn
