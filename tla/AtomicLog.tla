------------------------------ MODULE AtomicLog ------------------------------
(***************************************************************************)
(* What active.parts promises the collector, without headers, frames,      *)
(* markers and syncs: one log of windows under one segment identity.  A    *)
(* call asks for a new content; until it has settled, a crash or a failure *)
(* may leave the settled content or any content asked for, and nothing     *)
(* else.  Journal implements it with `log` being what a restart would      *)
(* recover (PROPERTY ImplementsAtomicLog of MCJournal).                    *)
(***************************************************************************)
EXTENDS Sequences

CONSTANTS Parts, SegIds, NoId

VARIABLES
  log,     \* the content a restart finds now
  settled, \* the content of the last call that returned Ok
  asked    \* contents asked for since

logvars == <<log, settled, asked>>

Nothing == [id |-> NoId, parts |-> <<>>]

Init == log = Nothing /\ settled = Nothing /\ asked = {}

\* One more window, under the identity of the log or a new one for an empty log.
AskAppend(i, p) ==
  /\ log = Nothing \/ log.id = i
  /\ asked' = asked \cup {[id |-> i, parts |-> Append(log.parts, p)]}
  /\ UNCHANGED <<log, settled>>

AskClear == asked' = asked \cup {Nothing} /\ UNCHANGED <<log, settled>>

\* Writes, failed writes, undo and crashes move between the contents in play.
Move == log' \in {settled} \cup asked /\ UNCHANGED <<settled, asked>>

Settle == settled' = log /\ asked' = {} /\ UNCHANGED log

\* The content goes elsewhere as a whole and the log starts over.
Handover == log' = Nothing /\ settled' = Nothing /\ asked' = {}

Next ==
  \/ \E i \in SegIds, p \in Parts : AskAppend(i, p)
  \/ AskClear \/ Move \/ Settle \/ Handover

Spec == Init /\ [][Next]_logvars
=============================================================================
