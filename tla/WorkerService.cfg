SPECIFICATION FairSpec
CONSTANTS
  Clients = {c1}
  Workers = {w1, w2}
  NoWorker = NoWorker
  LeaseSeconds = 0
  MaxRetries = 2
  MinResults = 1
  LocalSteps = 2
  Configs <- EveryPolicy
  RosterPolls = 2
  SubmitAttempts = 2
  MaxFaults = 1
  MaxCrashes = 1
INVARIANTS
  SubmittedWasTaken
  SubmissionsRespectBudget
PROPERTIES
  EachTaskTrainsOnce
  RunEnds
CHECK_DEADLOCK FALSE
