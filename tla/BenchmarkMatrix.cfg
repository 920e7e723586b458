SPECIFICATION MatrixSpec
CONSTANTS
  Algorithms = {a1, a2}
  Baseline = a1
  Seeds = {1}
  Configs <- TwoPartitions
  Accuracies <- TwoAccuracies
  Missing = Missing
  MinimumReplicates = 1
  MaxEdits = 1
  MaxFaults = 2
  MaxLaunches = 3
INVARIANTS
  EvaluatedAsTrained
  ComparedLikeWithLike
CHECK_DEADLOCK FALSE
