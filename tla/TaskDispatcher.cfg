SPECIFICATION FairSpec
CONSTANTS
  c1 = c1
  w1 = w1
  w2 = w2
  Clients <- MCClients
  Workers <- MCWorkers
  NoWorker = NoWorker
  LeaseSeconds = 1
  MaxRetries = 2
  MaxTasks = 2
INVARIANTS
  SlotsMatchLeases
  RetryBudget
  LatestLeaseWins
PROPERTIES
  EveryTaskSettles
CHECK_DEADLOCK FALSE
