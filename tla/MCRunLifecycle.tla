---------------------------- MODULE MCRunLifecycle ----------------------------
(* The sets of disturbances the run of RunLifecycle is checked under. *)
EXTENDS RunLifecycle

AnyFault == {"crash", "aggregate", "pause", "cancel"}
Operators == {"pause", "cancel"}
EveryMixture == {AnyFault, Operators}
===============================================================================
