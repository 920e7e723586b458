------------------------ MODULE MCSecurityEventRelay ------------------------
(* The runs SecurityEventRelay is checked with. *)
EXTENDS SecurityEventRelay
=============================================================================
