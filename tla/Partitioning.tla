---------------------------- MODULE Partitioning ----------------------------
(***************************************************************************)
(* How samples are dealt to clients: the training set by one of four       *)
(* strategies (data/partitioner.py, and the manifests of                   *)
(* fl_platform/datasets/partitioning.py), and the evaluation set in the    *)
(* proportions of the training set.  Which sample of a class a client gets *)
(* is the random generator's business; the model counts the samples of     *)
(* each class.  What depends on a floating point draw is left open.        *)
(***************************************************************************)
EXTENDS Integers, FiniteSetsExt, Functions

CONSTANTS
    NumClients,
    NumClasses,
    TrainingSets,     \* training sets tried: how many samples of each class
    EvaluationSets,   \* evaluation sets tried
    MinPartitionSize, \* min_partition_size, minimum_client_samples
    ClassesPerClient  \* classes_per_client

Clients == 0 .. (NumClients - 1)
Classes == 0 .. (NumClasses - 1)

\* _validate_partition_request, and what the strategies and the evaluation ask
\* for besides: as many samples as clients times classes is what the pathological
\* strategy of data/ asks for (the platform deals without a minimum); it is
\* assumed of every strategy here.
ASSUME PartitionAssumption ==
    /\ {NumClients, NumClasses, MinPartitionSize} \subseteq Nat \ {0}
    /\ ClassesPerClient \in 1 .. NumClasses
    /\ TrainingSets \cup EvaluationSets \subseteq [Classes -> Nat]
    /\ \A s \in TrainingSets :
           SumFunction(s) >= NumClients * Max({MinPartitionSize, ClassesPerClient})
    /\ \A s \in EvaluationSets : SumFunction(s) >= NumClients

Strategies == {"iid", "dirichlet", "pathological", "quantity_skew"}

VARIABLES
    runtime,    \* "root" for data/, "platform" for fl_platform/datasets
    strategy,
    samples,    \* the training set
    heldOut,    \* the evaluation set
    phase,
    todo,       \* classes or clients the loop at work has still to visit
    sizes,      \* how many samples each client may get
    train,      \* train[class][client]
    evaluation  \* evaluation[class][client]

given == <<runtime, strategy, samples, heldOut>>
partitionVars == <<given, phase, todo, sizes, train, evaluation>>

NoSamples == [k \in Classes |-> [c \in Clients |-> 0]]

HeldBy(deal, c) == SumFunction([k \in Classes |-> deal[k][c]])

\* The loops go through classes and clients in their order.
IsNext(x) == x \in todo /\ \A y \in todo : x <= y

\* Every way to split n samples.
Splits(n) == {split \in [Clients -> 0 .. n] : SumFunction(split) = n}

\* np.array_split: the size of each of k parts of n.
ArraySplit(n, k) == [i \in 0 .. (k - 1) |-> n \div k + (IF i < n % k THEN 1 ELSE 0)]

PartitionInit ==
    /\ runtime \in {"root", "platform"}
    /\ strategy \in Strategies
    /\ samples \in TrainingSets
    /\ heldOut \in IF runtime = "root" THEN EvaluationSets ELSE {[k \in Classes |-> 0]}
    /\ phase = "sizes"
    /\ todo = Classes
    /\ sizes = [c \in Clients |-> SumFunction(samples)]
    /\ train = NoSamples
    /\ evaluation = NoSamples

-----------------------------------------------------------------------------
(* The training set.                                                        *)

\* The platform has no evaluation set.
AfterTraining == IF runtime = "root" THEN "allocate" ELSE "manifest"

EnoughForAll(deal) == \A c \in Clients : HeldBy(deal, c) >= MinPartitionSize

\* The sizes of the parts of a shuffled training set.  The platform's quantity
\* skew may be any split: its sizes are compared with the minimum at the end.
ChooseSizes ==
    /\ phase = "sizes"
    /\ LET total == SumFunction(samples)
       IN \/ strategy = "iid" /\ sizes' = ArraySplit(total, NumClients)
          \/ strategy = "dirichlet" /\ UNCHANGED sizes
          \/ /\ strategy = "quantity_skew"
             /\ sizes' \in {s \in Splits(total) :
                              runtime = "root" => \A c \in Clients : s[c] >= MinPartitionSize}
    /\ phase' = "deal"
    /\ UNCHANGED <<given, todo, train, evaluation>>

\* The samples of one class go to any clients that have room for them.
DealClass(k) ==
    /\ phase = "deal"
    /\ IsNext(k)
    /\ \E column \in Splits(samples[k]) :
           /\ \A c \in Clients : HeldBy(train, c) + column[c] <= sizes[c]
           /\ train' = [train EXCEPT ![k] = column]
    /\ todo' = todo \ {k}
    /\ UNCHANGED <<given, phase, sizes, evaluation>>

\* A Dirichlet deal that starves a client is drawn again, and given up after
\* max_retries; the platform refuses it, as it does every other.
AcceptDeal ==
    /\ phase = "deal"
    /\ todo = {}
    /\ \/ /\ EnoughForAll(train)
          /\ phase' = AfterTraining
          /\ todo' = Classes
          /\ UNCHANGED train
       \/ /\ ~EnoughForAll(train)
          /\ runtime = "root"
          /\ todo' = Classes
          /\ train' = NoSamples
          /\ UNCHANGED phase
       \/ /\ ~EnoughForAll(train)
          /\ phase' = "refused"
          /\ UNCHANGED <<todo, train>>
    /\ UNCHANGED <<given, sizes, evaluation>>

(* partition_pathological: the set sorted by label is cut into shards.      *)
NumShards == NumClients * ClassesPerClient
Shards == 0 .. (NumShards - 1)

\* (Mistake: the parts are taken to be of one size.)
ShardStartEven(s) == s * (SumFunction(samples) \div NumShards)

ShardStart(s) ==
    LET total == SumFunction(samples)
    IN s * (total \div NumShards) + Min({s, total % NumShards})

ClassStart(k) == SumFunctionOnSet(samples, 0 .. (k - 1))

InShard(s, k) ==
    Max({0, Min({ShardStart(s + 1), ClassStart(k + 1)}) - Max({ShardStart(s), ClassStart(k)})})

DealShards ==
    /\ phase = "sizes" /\ strategy = "pathological" /\ runtime = "root"
    /\ \E owner \in [Shards -> Clients] :
           /\ \A c \in Clients : Cardinality({s \in Shards : owner[s] = c}) = ClassesPerClient
           /\ train' = [k \in Classes |-> [c \in Clients |->
                          SumFunction([s \in {t \in Shards : owner[t] = c} |-> InShard(s, k)])]]
    /\ phase' = IF EnoughForAll(train') THEN "allocate" ELSE "refused"
    /\ UNCHANGED <<given, todo, sizes, evaluation>>

\* create_pathological_partition: each client draws its classes, and a class is
\* split evenly between the clients that drew it; one nobody drew is left out.
DealDrawnClasses ==
    /\ phase = "sizes" /\ strategy = "pathological" /\ runtime = "platform"
    /\ \E drawn \in [Clients -> kSubset(ClassesPerClient, Classes)] :
           train' = [k \in Classes |->
                       LET holders == {c \in Clients : k \in drawn[c]}
                       IN [c \in Clients |->
                             IF c \in holders
                             THEN ArraySplit(samples[k], Cardinality(holders))
                                      [Cardinality({d \in holders : d < c})]
                             ELSE 0]]
    /\ phase' = IF EnoughForAll(train') THEN "manifest" ELSE "refused"
    /\ UNCHANGED <<given, todo, sizes, evaluation>>

-----------------------------------------------------------------------------
(* partition_evaluation_by_train_distribution.                              *)

Uniform == [c \in Clients |-> 1]

\* (Mistake: what rounding leaves over goes to anybody.)
AllocationsAnyhow(n, counts) ==
    LET weights == IF SumFunction(counts) = 0 THEN Uniform ELSE counts
        whole == SumFunction(weights)
        floor == [c \in Clients |-> (weights[c] * n) \div whole]
    IN {[c \in Clients |-> floor[c] + (IF c \in favoured THEN 1 ELSE 0)] :
          favoured \in kSubset(n - SumFunction(floor), Clients)}

\* _largest_remainder_allocation.  Which of two equal fractions comes first is
\* up to the rounding of the floating point numbers that stand for them.
Allocations(n, counts) ==
    LET weights == IF SumFunction(counts) = 0 THEN Uniform ELSE counts
        whole == SumFunction(weights)
        floor == [c \in Clients |-> (weights[c] * n) \div whole]
        fraction == [c \in Clients |-> (weights[c] * n) % whole]
    IN {[c \in Clients |-> floor[c] + (IF c \in favoured THEN 1 ELSE 0)] :
          favoured \in {f \in kSubset(n - SumFunction(floor), Clients) :
                          \A c \in f, d \in Clients \ f : fraction[c] >= fraction[d]}}

AllocateClass(k) ==
    /\ phase = "allocate"
    /\ IsNext(k)
    /\ \E column \in Allocations(heldOut[k], train[k]) :
           evaluation' = [evaluation EXCEPT ![k] = column]
    /\ todo' = todo \ {k}
    /\ UNCHANGED <<given, phase, sizes, train>>

Empty == {c \in Clients : HeldBy(evaluation, c) = 0}

BeginRepair ==
    /\ phase = "allocate"
    /\ todo = {}
    /\ phase' = "repair"
    /\ todo' = Empty
    /\ UNCHANGED <<given, sizes, train, evaluation>>

Donors(c) == {d \in Clients \ {c} : HeldBy(evaluation, d) > 1}
DonorsOf(c, k) == {d \in Donors(c) : evaluation[k][d] > 0}

\* The class a client trains on most, of those somebody can give a sample of.
Preferred(c) ==
    LET offered == {k \in Classes : train[k][c] > 0 /\ DonorsOf(c, k) # {}}
    IN {k \in offered : \A l \in offered :
          train[l][c] < train[k][c] \/ (train[l][c] = train[k][c] /\ k <= l)}

\* max over (samples of the class, samples, client).
LargestOf(c, k) ==
    CHOOSE d \in DonorsOf(c, k) : \A e \in DonorsOf(c, k) :
        \/ evaluation[k][e] < evaluation[k][d]
        \/ /\ evaluation[k][e] = evaluation[k][d]
           /\ \/ HeldBy(evaluation, e) < HeldBy(evaluation, d)
              \/ HeldBy(evaluation, e) = HeldBy(evaluation, d) /\ e <= d

Largest(c) ==
    CHOOSE d \in Donors(c) : \A e \in Donors(c) :
        \/ HeldBy(evaluation, e) < HeldBy(evaluation, d)
        \/ HeldBy(evaluation, e) = HeldBy(evaluation, d) /\ e <= d

\* A donor's last sample is one of its highest class.
LastClass(d) == Max({k \in Classes : evaluation[k][d] > 0})

Move(k, donor, c) ==
    evaluation' = [evaluation EXCEPT ![k][donor] = @ - 1, ![k][c] = @ + 1]

\* (Mistake: the client's own classes are not asked for first.)
RepairFromLargest(c) ==
    /\ phase = "repair"
    /\ IsNext(c)
    /\ Donors(c) # {}
    /\ Move(LastClass(Largest(c)), Largest(c), c)
    /\ todo' = todo \ {c}
    /\ UNCHANGED <<given, phase, sizes, train>>

\* One turn of _repair_empty_evaluation_clients.
Repair(c) ==
    /\ phase = "repair"
    /\ IsNext(c)
    /\ \/ \E k \in Preferred(c) : Move(k, LargestOf(c, k), c) /\ UNCHANGED phase
       \/ /\ Preferred(c) = {} /\ Donors(c) # {}
          /\ Move(LastClass(Largest(c)), Largest(c), c)
          /\ UNCHANGED phase
       \/ Donors(c) = {} /\ phase' = "failed" /\ UNCHANGED evaluation
    /\ todo' = todo \ {c}
    /\ UNCHANGED <<given, sizes, train>>

\* The result is checked once more before it is returned.
Return ==
    /\ phase = "repair"
    /\ todo = {}
    /\ phase' = IF /\ Empty = {}
                   /\ \A k \in Classes : SumFunction(evaluation[k]) = heldOut[k]
                THEN "done" ELSE "failed"
    /\ UNCHANGED <<given, todo, sizes, train, evaluation>>

PartitionNext ==
    \/ ChooseSizes \/ (\E k \in Classes : DealClass(k)) \/ AcceptDeal
    \/ DealShards \/ DealDrawnClasses
    \/ (\E k \in Classes : AllocateClass(k)) \/ BeginRepair
    \/ (\E c \in Clients : Repair(c)) \/ Return

PartitionSpec == PartitionInit /\ [][PartitionNext]_partitionVars

-----------------------------------------------------------------------------
(***************************************************************************)
(* Properties.                                                             *)
(***************************************************************************)

(* A deal that is used gives every client its minimum and every sample to   *)
(* one client, but for the classes no platform client drew; under the       *)
(* pathological strategy a client sees few classes: those it drew, or, when *)
(* no class is smaller than a shard, at most two for every shard it got.    *)
TrainingIsDealt ==
    phase \in {"allocate", "repair", "done", "failed", "manifest"} =>
        /\ EnoughForAll(train)
        /\ \A k \in Classes :
               \/ SumFunction(train[k]) = samples[k]
               \/ /\ runtime = "platform" /\ strategy = "pathological"
                  /\ train[k] = [c \in Clients |-> 0]
        /\ strategy = "pathological" => \A c \in Clients :
               LET seen == Cardinality({k \in Classes : train[k][c] > 0})
               IN \/ runtime = "platform" /\ seen <= ClassesPerClient
                  \/ runtime = "root" /\ seen <= 2 * ClassesPerClient
                  \/ /\ runtime = "root"
                     /\ \E k \in Classes : samples[k] * NumShards < SumFunction(samples)

\* How far a split of a class is from the proportions it is to mirror.
Distance(split, counts, n) ==
    LET weights == IF SumFunction(counts) = 0 THEN Uniform ELSE counts
        whole == SumFunction(weights)
    IN SumFunction([c \in Clients |-> LET d == split[c] * whole - weights[c] * n
                                       IN IF d < 0 THEN -d ELSE d])

(* No other split of a class comes closer to the proportions in which the   *)
(* clients train on it than the one that is made: largest remainders are    *)
(* measured against every split there is.                                   *)
TestedAsTrained ==
    phase = "allocate" =>
        \A k \in Classes \ todo : \A other \in Splits(heldOut[k]) :
            Distance(evaluation[k], train[k], heldOut[k])
                <= Distance(other, train[k], heldOut[k])

(* The held-out samples are all dealt, nobody is left without one (none of  *)
(* the RuntimeErrors on the way is ever raised), and a client is tested on  *)
(* a class it does not train on only if nobody does, or if it would have    *)
(* had no sample at all and nobody could spare one of its own classes.      *)
EveryoneIsTested ==
    /\ phase # "failed"
    /\ phase = "done" =>
           \A c \in Clients, k \in Classes :
               evaluation[k][c] > 0 /\ train[k][c] = 0 =>
                   \/ \A d \in Clients : train[k][d] = 0
                   \/ /\ HeldBy(evaluation, c) = 1
                      /\ \A d \in Donors(c), l \in Classes :
                             evaluation[l][d] > 0 => train[l][c] = 0

=============================================================================
