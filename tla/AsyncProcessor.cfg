SPECIFICATION ProcessorSpec
CONSTANTS
  c1 = c1
  c2 = c2
  d1 = d1
  d2 = d2
  Clients <- TwoClients
  RoundIds = {1, 2}
  Deltas <- TwoDeltas
  MaxStaleness = 1
  MaxResults = 3
  Down = Down
SYMMETRY ProcessorSymmetry
INVARIANTS
  ConfirmedIsDurable
  AppliedOnce
  TrainedOnAncestor
CHECK_DEADLOCK FALSE
