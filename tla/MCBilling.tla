----------------------------- MODULE MCBilling -----------------------------
(* The instance of Billing for TLC.  Its run checks liveness, so there is no  *)
(* symmetry in it.                                                            *)
EXTENDS Billing
=============================================================================
