----------------------------- MODULE MCServices -----------------------------
(***************************************************************************)
(* Every call of the four services for TLC.                                *)
(***************************************************************************)
EXTENDS Services

AllCalls == DOMAIN Calls

=============================================================================
