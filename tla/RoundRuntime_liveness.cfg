SPECIFICATION FairSpec
CONSTANTS
  Clients <- TwoClients
  Workers <- OneWorker
  NoWorker = NoWorker
  LeaseSeconds = 1
  MaxRetries = 2
  MaxRounds = 2
  Budget = 0
  Faults <- AnyFault
  Cohort <- BothClients
  MinResults = 1
  RoundTimeout = 1
  Revocable <- NoWorkers
  MaxClock = 4
  NoDispatcher = NoDispatcher
  w1 = w1
  w2 = w2
PROPERTIES
  EveryRoundEnds
CHECK_DEADLOCK FALSE
