SPECIFICATION Spec
CONSTANTS
  Clients <- TwoClients
  Workers <- TwoWorkers
  NoWorker = NoWorker
  LeaseSeconds = 1
  MaxRetries = 2
  MaxRounds = 1
  Budget = 0
  Faults <- OnlyCrash
  Cohort <- BothClients
  MinResults = 1
  RoundTimeout = 2
  Revocable <- TwoWorkers
  MaxClock = 3
  NoDispatcher = NoDispatcher
  w1 = w1
  w2 = w2
SYMMETRY WorkerSymmetry
INVARIANTS
  LeasesDoNotOverlap
  ReleaseMeetsQuorum
PROPERTY
  AcceptedResultsSurvive
CHECK_DEADLOCK FALSE
