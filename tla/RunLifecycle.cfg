SPECIFICATION FairSpec
CONSTANTS
  MaxRounds = 3
  Budget = 2
  Faults <- EveryMixture
INVARIANTS
  RestsInStableState
  ReleaseIsCharged
  OneReleasePerRound
  BudgetRespected
PROPERTIES
  EveryRunEnds
  ReleasesSurvive
CHECK_DEADLOCK FALSE
