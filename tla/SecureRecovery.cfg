SPECIFICATION FairSpec
CONSTANTS
  N = 4
  Threshold = 2
  Field = 5
  Ring = 128
  Magnitude = 2
  MaxWeights = {3, 6}
  Margin = 1
  PairMask <- SmallMask
  Coefficients = {3}
  Generations = 1
  Inputs <- MixedCohort
  MaxDeaths = 1
  MaxExpired = 1
  MaxRestarts = 1
INVARIANTS
  AggregateIsExact
  SharesHideTheKey
PROPERTIES
  RecoverySucceeds
CHECK_DEADLOCK FALSE
