----------------------------- MODULE MCLogTailer -----------------------------
(* A finite instance of LogTailer. *)
EXTENDS LogTailer
AllRotations == {"path", "rename", "truncate", "remove"}
=============================================================================
