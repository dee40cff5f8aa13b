----------------------------- MODULE MCScheduler -----------------------------
(* Finite instances of Scheduler. *)
EXTENDS Scheduler
\* One source of each kind the loop tells apart, the cheapest with interval zero.
FiveSources == {"Activity", "UserTables", "UserIndexes", "Settings", "PgLog"}
ShortIntervals ==
  [s \in FiveSources |->
     CASE s = "Activity" -> 3 [] s = "UserTables" -> 2 [] s = "UserIndexes" -> 3
       [] s = "Settings" -> 6 [] s = "PgLog" -> 0]
FastActivity == [s \in {"Activity"} |-> 1]
ServiceSources == {"Settings"}
=============================================================================
