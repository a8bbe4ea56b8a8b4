----------------------------- MODULE MCBilling -----------------------------
(* Small instances of Billing. *)
EXTENDS Billing

CONSTANTS s1, s2, o1, o2, e1
=============================================================================
