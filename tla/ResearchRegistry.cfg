SPECIFICATION Spec
CONSTANTS
  NumSeeds = 2
  t1 = t1
  t2 = t2
  Threads <- TwoThreads
  NoThread = NoThread
  Commands <- EveryCommand
  Outcomes <- TwoOutcomes
  MaxCalls = 4
  MaxExpired = 1
  MaxAttempts = 2
  MaxCrashes = 1
SYMMETRY ThreadSymmetry
INVARIANTS
  OneExecutor
  CancelStopsUnstarted
  CreateAnswerIsDurable
CHECK_DEADLOCK FALSE
