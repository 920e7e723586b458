---------------------------- MODULE SecureRecovery ----------------------------
(***************************************************************************)
(* One secure aggregation session as the Python package                    *)
(* fl_platform/secure_aggregation computes it: a cohort of participants    *)
(* 1..N (in the order their ids sort in) agrees on keys, every one masks   *)
(* its encoded update against every other, and shares its ephemeral key    *)
(* among them, so that the masks of one who drops out can be rebuilt from  *)
(* a threshold of shares.  The coordinator's collector of shares is        *)
(* volatile; what it keeps over a restart are receipts.                    *)
(*                                                                         *)
(* Values are integers already scaled; the ring is that of UINT64_MASK and *)
(* the field that of _FIELD_PRIME, both made small.                        *)
(***************************************************************************)
EXTENDS Integers, Sequences, FiniteSetsExt

CONSTANTS
  N,             \* cohort size
  Threshold,     \* threshold of create_recovery_shares
  Field,         \* _FIELD_PRIME
  Ring,          \* UINT64_MASK + 1
  Magnitude,     \* FixedPointEncodingProfile.max_input_magnitude
  MaxWeights,    \* max_client_weight of a session; with 0, which the coordinator
                 \* never sets, the worker would check no upper bound
  Margin,        \* safety_margin
  PairMask(_, _, _), \* the mask two keys give a stream: X25519, HKDF, ChaCha20
  Coefficients,  \* coefficients the owner of a key may draw
  Generations,   \* bound: times an owner shares its key
  Inputs,        \* what the participants bring
  MaxDeaths,     \* bound: participants that die
  MaxExpired,    \* bound: relays that run out
  MaxRestarts    \* bound: restarts of the coordinator

Parties == 1..N
Streams == {"tensor", "weight", "indicator"}

ASSUME CohortAssumption == N \in Nat /\ N >= 3
ASSUME ThresholdAssumption == Threshold \in 2..(N - 1)
(* Field is prime: whatever is not 0 in it has an inverse. *)
ASSUME FieldAssumption ==
  /\ Field \in Nat /\ Field > N /\ Coefficients \subseteq 0..(Field - 1)
  /\ \A v \in 1..(Field - 1) : \E u \in 1..(Field - 1) : (u * v) % Field = 1
ASSUME RingAssumption == Ring \in Nat /\ Ring % 2 = 0 /\ Ring > 0
ASSUME ProfileAssumption == {Magnitude, Margin} \subseteq Nat /\ MaxWeights \subseteq Nat \ {0}
(* A key fits the field; a clipping indicator is 0 or 1 (mask_clipping_indicator). *)
ASSUME InputsAssumption ==
  \A i \in Inputs, p \in Parties :
    /\ i[p].key \in 1..(Field - 1)
    /\ {i[p].delta, i[p].count} \subseteq Int /\ i[p].indicator \in {0, 1}
ASSUME MaskAssumption ==
  \A k, l \in 1..(Field - 1), s \in Streams :
    PairMask(k, l, s) \in 0..(Ring - 1) /\ PairMask(k, l, s) = PairMask(l, k, s)

VARIABLES
  input,      \* what each participant brings: key, delta, sample count, indicator
  maxWeight,  \* max_client_weight of the session
  session,    \* CohortStateMachine.state
  advertised, \* participants whose key the coordinator has
  task,       \* task[p]: the SecureTaskState of p, "dead" for a process that is gone
  sharing,    \* sharing[p]: how often p shared its key, its last generation
  relays,     \* encrypted shares, which an owner left for their holders
  updates,    \* updates[p]: p's masked update at the coordinator
  submitted,  \* ThresholdRecoveryCoordinator.submitted
  receipts,   \* ThresholdRecoveryCoordinator.persisted_receipts
  saved,      \* the receipts last persisted
  recovered,  \* the recovered key, 0 before
  result,     \* the decoded aggregate and who is in it
  deaths, restarts, expired

parties == <<advertised, task, sharing, relays>>
collector == <<submitted, receipts, saved, recovered>>
bounds == <<deaths, restarts, expired>>
vars == <<input, maxWeight, session, parties, updates, collector, result, bounds>>

NoUpdate == [tensor |-> -1, weight |-> -1, indicator |-> -1]
NoResult == [from |-> {}, sums |-> NoUpdate]

-----------------------------------------------------------------------------
(***************************************************************************)
(* Encoding and pairwise masks.                                            *)
(***************************************************************************)

(* prove_domain_bounds: no aggregate of the cohort can wrap. *)
DomainSafe(weight) == (Magnitude + 1) * weight * N + Margin < Ring \div 2 - 1

Absolute(v) == IF v < 0 THEN -v ELSE v

(* encode_value takes it. *)
Encodes(v) == Absolute(v) <= Magnitude

(* validate_client_weight takes p's sample count. *)
WeightValid(p) == input[p].count \in 1..maxWeight

(* validate_local_delta and encode_weighted_delta take p's update: the     *)
(* weight is encoded as any other value is.                                *)
Encodable(p) == Encodes(input[p].delta) /\ Encodes(input[p].count)

(* What encode_weighted_delta makes of it; the ring sum wraps it. *)
Encoded(p) ==
  [tensor |-> input[p].delta * input[p].count, weight |-> input[p].count,
   indicator |-> input[p].indicator]

(* Fault for Signed: everybody adds. *)
SignedAlwaysAdding(p, q, mask) == mask

(* resolve_pairwise_mask_sign: the first of a pair adds, the other one     *)
(* subtracts.                                                              *)
Signed(p, q, mask) == IF p < q THEN mask ELSE -mask

(* mask_tensor and mask_encoded_value: base and p's side of every mask it  *)
(* has with peers, in the ring.                                            *)
Masked(base, p, key, peers, stream) ==
  (base + SumFunction([q \in peers |-> Signed(p, q, PairMask(key, input[q].key, stream))])) % Ring

(* mask_weighted_delta and mask_clipping_indicator. *)
MaskedUpdate(p) ==
  [s \in Streams |-> Masked(Encoded(p)[s], p, input[p].key, Parties \ {p}, s)]

(* compute_dropout_mask_correction: the side of the masks that o's update  *)
(* would have brought.                                                     *)
Correction(o, key, survivors) ==
  [s \in Streams |-> Masked(0, o, key, survivors, s)]

(* to_signed_ring_value *)
SignedValue(v) == IF v > Ring \div 2 - 1 THEN v - Ring ELSE v

-----------------------------------------------------------------------------
(***************************************************************************)
(* Threshold shares of a key.                                              *)
(***************************************************************************)

(* create_recovery_shares: the key is the constant term. *)
Polynomials(key) ==
  {[i \in 1..Threshold |-> IF i = 1 THEN key ELSE c[i - 1]] :
     c \in [1..(Threshold - 1) -> Coefficients]}

(* The powers of x, as the loop multiplies them up. *)
Powers(x) ==
  LET power[i \in 1..Threshold] == IF i = 1 THEN 1 ELSE (power[i - 1] * x) % Field
  IN  power

(* A polynomial at x. *)
At(poly, x) == SumFunction([i \in 1..Threshold |-> poly[i] * Powers(x)[i]]) % Field

(* Fault for ShareIndex: numbered from 0, where a polynomial is its key. *)
ShareIndexFromZero(o, h) == IF h < o THEN h - 1 ELSE h - 2

(* The holders of o's key are all others, numbered from 1 in their order. *)
ShareIndex(o, h) == IF h < o THEN h ELSE h - 1

ShareOf(poly, o, h, g) ==
  [owner |-> o, holder |-> h, generation |-> g, index |-> ShareIndex(o, h),
   value |-> At(poly, ShareIndex(o, h))]

(* _mod_inverse: v to the power of Field - 2. *)
ModInverse(v) == CHOOSE u \in 1..(Field - 1) : (u * v) % Field = 1

Product(f(_), S) == FoldSet(LAMBDA i, acc : (acc * f(i)) % Field, 1, S)

Lagrange(i, indices) ==
  (Product(LAMBDA j : -j, indices \ {i})
     * ModInverse(Product(LAMBDA j : i - j, indices \ {i}))) % Field

(* The first Threshold shares by index. *)
Selected(shares) ==
  {s \in shares : Cardinality({r \in shares : r.index < s.index}) < Threshold}

(* reconstruct_recovery_secret, before the digest is looked at. *)
Interpolated(shares) ==
  LET indices == {s.index : s \in Selected(shares)}
  IN  SumFunction([s \in Selected(shares) |-> s.value * Lagrange(s.index, indices)]) % Field

-----------------------------------------------------------------------------
(***************************************************************************)
(* The cohort's session and its participants.                              *)
(***************************************************************************)

Alive(p) == task[p] # "dead"

(* create_session: a session exists only if its profile is safe. *)
OpenSession ==
  /\ session = "COHORT_FORMING"
  /\ session' = IF DomainSafe(maxWeight) THEN "KEY_ADVERTISEMENT" ELSE "FAILED"
  /\ UNCHANGED <<input, maxWeight, parties, updates, collector, result, bounds>>

(* build_signed_key_advertisement *)
Advertise(p) ==
  /\ session = "KEY_ADVERTISEMENT" /\ task[p] = "EPHEMERAL_KEY_CREATED"
  /\ advertised' = advertised \cup {p}
  /\ task' = [task EXCEPT ![p] = "KEY_ADVERTISEMENT_ACCEPTED"]
  /\ UNCHANGED <<input, maxWeight, session, sharing, relays, updates, collector, result, bounds>>

FreezeCohort ==
  /\ session = "KEY_ADVERTISEMENT" /\ advertised = Parties
  /\ session' = "COHORT_FROZEN"
  /\ UNCHANGED <<input, maxWeight, parties, updates, collector, result, bounds>>

(* verify_frozen_cohort_roster: a frozen roster, with the key p advertised. *)
RosterVerifies(p) ==
  /\ session \in {"COHORT_FROZEN", "MASKED_UPDATE_COLLECTION"}
  /\ p \in advertised

(* encrypt_recovery_share_for_holder, once for each holder: nobody reads a *)
(* sealed share but the holder it names.                                   *)
Sealed(poly, p, g) == {ShareOf(poly, p, h, g) : h \in Parties \ {p}}

(* create_ephemeral_key_recovery_shares; an owner may share again, one     *)
(* generation on.                                                          *)
ShareKey(p) ==
  /\ RosterVerifies(p)
  /\ task[p] \in {"KEY_ADVERTISEMENT_ACCEPTED", "FROZEN_ROSTER_VERIFIED"}
  /\ sharing[p] < Generations
  /\ task' = [task EXCEPT ![p] = "FROZEN_ROSTER_VERIFIED"]
  /\ sharing' = [sharing EXCEPT ![p] = @ + 1]
  /\ \E poly \in Polynomials(input[p].key) :
       relays' = relays \cup Sealed(poly, p, sharing[p] + 1)
  /\ UNCHANGED <<input, maxWeight, session, advertised, updates, collector, result, bounds>>

(* A relay that ran out is not opened any more. *)
ExpireRelay ==
  /\ expired < MaxExpired
  /\ expired' = expired + 1
  /\ \E r \in relays : relays' = relays \ {r}
  /\ UNCHANGED <<input, maxWeight, session, advertised, task, sharing, updates, collector, result, deaths, restarts>>

(* Training, validation, encoding, masking and the submission. *)
SubmitUpdate(p) ==
  /\ session = "MASKED_UPDATE_COLLECTION"
  /\ task[p] = "FROZEN_ROSTER_VERIFIED"
  /\ IF WeightValid(p) /\ Encodable(p)
     THEN /\ updates' = [updates EXCEPT ![p] = MaskedUpdate(p)]
          /\ task' = [task EXCEPT ![p] = "MASKED_UPDATE_SUBMITTED"]
     ELSE /\ task' = [task EXCEPT ![p] = "SECURE_TASK_FAILED"]
          /\ UNCHANGED updates
  /\ UNCHANGED <<input, maxWeight, session, advertised, sharing, relays, collector, result, bounds>>

(* A process that dies takes its key with it, and comes back to no session. *)
Die(p) ==
  /\ Alive(p) /\ deaths < MaxDeaths
  /\ task' = [task EXCEPT ![p] = "dead"]
  /\ deaths' = deaths + 1
  /\ UNCHANGED <<input, maxWeight, session, advertised, sharing, relays, updates, collector, result, restarts, expired>>

-----------------------------------------------------------------------------
(***************************************************************************)
(* The coordinator.                                                        *)
(***************************************************************************)

OpenCollection ==
  /\ session = "COHORT_FROZEN"
  /\ session' = "MASKED_UPDATE_COLLECTION"
  /\ UNCHANGED <<input, maxWeight, parties, updates, collector, result, bounds>>

Contributors == {p \in Parties : updates[p] # NoUpdate}
Missing == Parties \ Contributors

(* LiveRecoveryRegistry._validate_binding *)
Bound(s) ==
  /\ session = "MASKED_UPDATE_COLLECTION"
  /\ Missing = {s.owner}
  /\ s.holder \in Contributors
  /\ Threshold <= Cardinality(Contributors)

(* The shares collected under the key of s. *)
OfKey(shares, s) == {r \in shares : r.owner = s.owner /\ r.generation = s.generation}

(* Fault for Conflicts: a receipt counts as the share. *)
ConflictsWithReceipt(shares, s) == \E r \in OfKey(shares, s) : r.holder = s.holder

(* The holder's share differs from an earlier one, or its index is taken. *)
Conflicts(shares, s) ==
  \E r \in OfKey(shares, s) :
    \/ r.holder = s.holder /\ r # s
    \/ r.holder # s.holder /\ r.index = s.index

(* decrypt_recovery_share_from_owner *)
Opens(h, s) == s.holder = h /\ Alive(h)

(* A holder opens a share and hands it in as it is, LiveRecoveryRegistry.submit. *)
(* With enough shares the key is rebuilt, and taken if it is the one in    *)
(* the roster.                                                             *)
SubmitShare(h) ==
  \E s \in relays :
    /\ Opens(h, s) /\ Bound(s)
    /\ ~Conflicts(receipts, s) /\ ~Conflicts(submitted, s)
    /\ submitted' = submitted \cup {s}
    /\ LET shares == OfKey(submitted', s) IN
         recovered' = IF /\ Cardinality(shares) >= Threshold
                         /\ Interpolated(shares) = input[s.owner].key
                      THEN Interpolated(shares) ELSE recovered
    /\ UNCHANGED <<input, maxWeight, session, parties, updates, receipts, saved, result, bounds>>

(* snapshot; a receipt commits to a share without telling its value. *)
PersistReceipts ==
  /\ saved # receipts \cup submitted
  /\ saved' = receipts \cup submitted
  /\ UNCHANGED <<input, maxWeight, session, parties, updates, submitted, receipts, recovered, result, bounds>>

(* restore of the Python reference: receipts come back, shares do not.  The *)
(* live C++ coordinator keeps its collector in memory only.                 *)
Restart ==
  /\ session = "MASKED_UPDATE_COLLECTION"
  /\ restarts < MaxRestarts
  /\ restarts' = restarts + 1
  /\ submitted' = {} /\ receipts' = saved /\ recovered' = 0
  /\ UNCHANGED <<input, maxWeight, session, parties, updates, saved, result, deaths, expired>>

Add(u, v) == [s \in Streams |-> (u[s] + v[s]) % Ring]

SumOfUpdates(S) == [s \in Streams |-> SumFunction([p \in S |-> updates[p][s]]) % Ring]

Decoded(sums) == [s \in Streams |-> SignedValue(sums[s])]

(* sum_masked_tensors over the whole cohort, or over all but one with      *)
(* apply_dropout_mask_correction.                                          *)
Aggregate ==
  /\ session = "MASKED_UPDATE_COLLECTION"
  /\ \/ Missing = {} /\ result' = [from |-> Parties, sums |-> Decoded(SumOfUpdates(Parties))]
     \/ \E o \in Missing :
          /\ Missing = {o} /\ recovered # 0
          /\ result' = [from |-> Contributors,
                        sums |-> Decoded(Add(SumOfUpdates(Contributors),
                                             Correction(o, recovered, Contributors)))]
  /\ session' = "AGGREGATE_VALIDATION"
  /\ UNCHANGED <<input, maxWeight, parties, updates, collector, bounds>>

Complete ==
  /\ session = "AGGREGATE_VALIDATION"
  /\ session' = "COMPLETED"
  /\ UNCHANGED <<input, maxWeight, parties, updates, collector, result, bounds>>

(* A deadline for the keys or for the updates ends the session. *)
Abort ==
  /\ session \in {"KEY_ADVERTISEMENT", "MASKED_UPDATE_COLLECTION"}
  /\ session' = "ABORTED"
  /\ UNCHANGED <<input, maxWeight, parties, updates, collector, result, bounds>>

-----------------------------------------------------------------------------

Init ==
  /\ input \in Inputs
  /\ maxWeight \in MaxWeights
  /\ session = "COHORT_FORMING"
  /\ advertised = {}
  /\ task = [p \in Parties |-> "EPHEMERAL_KEY_CREATED"]
  /\ sharing = [p \in Parties |-> 0]
  /\ relays = {}
  /\ updates = [p \in Parties |-> NoUpdate]
  /\ submitted = {} /\ receipts = {} /\ saved = {} /\ recovered = 0
  /\ result = NoResult
  /\ deaths = 0 /\ restarts = 0 /\ expired = 0

Party(p) ==
  \/ Advertise(p) \/ ShareKey(p) \/ SubmitUpdate(p)
  \/ SubmitShare(p) \/ Die(p)

Next ==
  \/ \E p \in Parties : Party(p)
  \/ OpenSession \/ FreezeCohort \/ OpenCollection
  \/ ExpireRelay \/ PersistReceipts \/ Restart \/ Aggregate \/ Complete \/ Abort

Spec == Init /\ [][Next]_vars

(* A holder that has a share hands it in, and what can be aggregated is. *)
FairSpec ==
  /\ Spec
  /\ WF_vars(Aggregate)
  /\ \A p \in Parties : WF_vars(SubmitShare(p))

-----------------------------------------------------------------------------

(* The decoded aggregate is the sum of what its contributors brought: the  *)
(* masks of a whole cohort cancel, those with a participant that dropped   *)
(* out are made up for by its key, and nothing wraps on the way.           *)
AggregateIsExact ==
  result # NoResult =>
    \A s \in Streams : result.sums[s] = SumFunction([p \in result.from |-> Encoded(p)[s]])

(* As long as no generation has a threshold of shares collected, every key *)
(* is still one the shares the coordinator saw may come from.              *)
SharesHideTheKey ==
  \A o \in Parties :
    (\A g \in 1..Generations :
       Cardinality({s \in submitted : s.owner = o /\ s.generation = g}) < Threshold)
    => \A key \in 1..(Field - 1), g \in 1..Generations :
         \E c \in [1..Threshold -> 0..(Field - 1)] :
           /\ c[1] = key
           /\ \A s \in submitted :
                s.owner = o /\ s.generation = g => At(c, s.index) = s.value

(* Only one participant is missing, and a threshold of those that handed   *)
(* in their update can hand in their share of its key.                     *)
Recoverable ==
  /\ session = "MASKED_UPDATE_COLLECTION"
  /\ \E o \in Parties, g \in 1..Generations :
       /\ Missing = {o}
       /\ Cardinality({h \in Contributors :
                         Alive(h) /\ \E s \in relays :
                                        s.owner = o /\ s.holder = h /\ s.generation = g}) >= Threshold

(* A session that can be recovered is, over any restart of the collector. *)
RecoverySucceeds == Recoverable ~> ~Recoverable
===============================================================================
