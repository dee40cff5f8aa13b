----------------------------- MODULE MCFactStore -----------------------------
(* A finite instance of FactStore. *)
EXTENDS FactStore
CONSTANTS b1, b2
=============================================================================
