---------------------------- MODULE MCSecureRecovery ----------------------------
(* The runs SecureRecovery is checked with. *)
EXTENDS SecureRecovery

(* Any symmetric mask will do, as long as the streams differ. *)
SmallMask(k, l, stream) ==
  (7 * k * l + (CASE stream = "tensor" -> 1 [] stream = "weight" -> 2 [] OTHER -> 3)) % Ring

Cohort(delta, count, indicator) ==
  [p \in Parties |-> [key |-> p, delta |-> delta[p], count |-> count[p], indicator |-> indicator[p]]]

(* Updates and weights at their bounds and inside them, of either sign. *)
Mixed ==
  Cohort([p \in Parties |-> IF p = N THEN 1 ELSE -Magnitude],
         [p \in Parties |-> IF p = 2 THEN 1 ELSE Magnitude],
         [p \in Parties |-> p % 2])

MixedCohort == {Mixed}
=================================================================================
