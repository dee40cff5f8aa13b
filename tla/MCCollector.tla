---------------------------- MODULE MCCollector ----------------------------
(* Finite instances of Collector. *)
EXTENDS Collector
AllFaults == {"open", "rotate", "activate", "alternate", "inspect", "replay",
              "append", "reset", "seal", "reseal", "publish", "quarantine", "commit"}
\* Transient failures the code answers with a retry, but not those in the middle
\* of a seal or of replay.
RetriedFaults == {"open", "activate", "quarantine", "commit", "reset"}
PublishFault == {"publish"}
NoFaults == {}
SixFiles == 1..6
============================================================================
