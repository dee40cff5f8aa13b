---------------------------- MODULE MCRetention ----------------------------
(* A finite instance of Retention. *)
EXTENDS Retention
BudgetAndAuto == {[mode |-> "fixed", limit |-> 4], [mode |-> "auto", limit |-> 5]}
AutoOnly == {[mode |-> "auto", limit |-> 6]}
=============================================================================
