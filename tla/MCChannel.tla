------------------------------ MODULE MCChannel ------------------------------
(* Channel on a ring of two slots, in both modes and on two days, created at most twice.           *)
EXTENDS Channel
==============================================================================
