SPECIFICATION PartitionSpec
CONSTANTS
  NumClients = 3
  NumClasses = 3
  MaxOfClass = 3
  MaxSamples = 7
  MaxHeldOut = 2
  TrainingSets <- EveryTrainingSet
  EvaluationSets <- EveryEvaluationSet
  MinPartitionSize = 1
  ClassesPerClient = 2
INVARIANTS
  TrainingIsDealt
  TestedAsTrained
  EveryoneIsTested
CHECK_DEADLOCK FALSE
