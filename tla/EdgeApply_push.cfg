CONSTANTS
  x = x
  EMPTY = EMPTY
  FOREIGN = FOREIGN
  NONE = NONE
  Rulesets = {x}
  MaxApplies = 2
  MaxRev = 2
  MaxMishaps = 1
SPECIFICATION FairSpec
INVARIANTS
  RecordedSurvivesReboot
PROPERTIES
  TrafficMeetsWholeGenerations
  ImplementsVersionedConfig
  WrongClaimIsDropped
  RestoredAfterBoot
CHECK_DEADLOCK FALSE
