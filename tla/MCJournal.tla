------------------------------ MODULE MCJournal ------------------------------
(* Finite instances of Journal, and the promise it implements. *)
EXTENDS JournalInvariant

CONSTANTS p1, p2, s1, s2
\* Windows of different length: a place freed by a reset or a rollback is reused
\* by a part with other bounds.  Windows of the same length: it is reused by a
\* part that only the handle's generation tells from the old one.
MCPartLen == [p \in {p1, p2} |-> IF p = p1 THEN 1 ELSE 2]
MCEqualLen == [p \in {p1, p2} |-> 1]
=============================================================================
