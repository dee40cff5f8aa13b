------------------------------- MODULE Archive -------------------------------
(***************************************************************************)
(* What the collector promises of the windows it collects, without files,  *)
(* system calls, failures and restarts.  Windows are kept in the order of  *)
(* their numbers; a kept window may have been acknowledged or not, and is  *)
(* never dropped.  The log position goes forward one batch at a time, over *)
(* acknowledged windows; a batch may be collected again until it does.     *)
(* Segments are filed for good, each under the number of its first window, *)
(* and no window is in two of them.                                        *)
(* Collector implements it (PROPERTY ImplementsArchive).                   *)
(***************************************************************************)
EXTENDS Naturals, Sequences

CONSTANTS
  Windows, \* records with a number n and the end e of their log batch
  Ids      \* segment identities

VARIABLES
  kept,     \* windows on stable storage
  accepted, \* those the collector has acknowledged
  position, \* end of the last batch it will not ask for again
  filed     \* identity -> windows of its segment, <<>> when there is none

archive == <<kept, accepted, position, filed>>

Init ==
  /\ kept = {} /\ accepted = {} /\ position = 0
  /\ filed = [i \in Ids |-> <<>>]

\* A window later than all others, of the batch that is due or of the last one
\* again; the writer may not live to acknowledge it.
Keep(w) ==
  /\ kept' = kept \cup {w}
  /\ \A v \in kept : v.n < w.n
  /\ w.e \in {position, position + 1}
  /\ accepted' \in {accepted, accepted \cup {w}}

Members(s) == {s[k] : k \in DOMAIN s}
InOrder(s) == \A j, k \in DOMAIN s : j < k => s[j].n < s[k].n
Titled(i, s) == s # <<>> => s[1].n = i

\* Segments of kept windows are added to those there are.
File ==
  /\ filed' \in [Ids -> Seq(Windows)]
  /\ \A i \in Ids :
       /\ filed[i] # <<>> => filed'[i] = filed[i]
       /\ Titled(i, filed'[i]) /\ InOrder(filed'[i])
       /\ Members(filed'[i]) \subseteq kept'
  /\ \A i, j \in Ids : i # j => Members(filed'[i]) \cap Members(filed'[j]) = {}

\* Both at once when a power loss meets an append.
Store ==
  /\ UNCHANGED <<kept, accepted>> \/ \E w \in Windows \ kept : Keep(w)
  /\ UNCHANGED filed \/ File
  /\ UNCHANGED position

Advance ==
  /\ \E w \in accepted : w.e = position + 1
  /\ position' = position + 1
  /\ UNCHANGED <<kept, accepted, filed>>

Next == Store \/ Advance

Spec == Init /\ [][Next]_archive
=============================================================================
