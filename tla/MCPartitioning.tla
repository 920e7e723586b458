--------------------------- MODULE MCPartitioning ---------------------------
(* The data sets Partitioning is checked on: every small one.               *)
EXTENDS Partitioning

CONSTANTS
    MaxOfClass, MaxSamples,  \* bounds of a training set
    MaxHeldOut               \* bound of a class of an evaluation set

EveryTrainingSet ==
    {s \in [Classes -> 0 .. MaxOfClass] :
        SumFunction(s) \in NumClients * Max({MinPartitionSize, ClassesPerClient}) .. MaxSamples}

EveryEvaluationSet ==
    {s \in [Classes -> 0 .. MaxHeldOut] : SumFunction(s) >= NumClients}
=============================================================================
