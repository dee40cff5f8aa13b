-------------------------- MODULE CollectorInvariant --------------------------
(***************************************************************************)
(* The inductive invariant behind the theorems of CollectorProofs, layer   *)
(* by layer: who holds what at each step of the process (Control), what    *)
(* the open journal holds (Open), that nothing is cleared which is not     *)
(* elsewhere (Kept), that a window has one identity (Identity), and what   *)
(* the log position stands for (Position).                                 *)
(* Unpublished, RestartInv and ArchiveInv extend it for three more         *)
(* theorems.                                                               *)
(***************************************************************************)
EXTENDS Collector

Pcs == {"down", "open", "rotate", "activate", "promote", "evidence", "settle", "scan",
        "pending", "tick", "append", "seal", "sync", "commit", "check"} \cup Resets
Places == {"none", "active", "pending", "quarantine"}
Contents == [id : 0..MaxWindows, wins : Seq(Windows), cond : {"ok", "torn", "lost"}]

Sealing == pc \in {"seal", "sync"} \cup Resets
\* The startup, and what it seals and resets.
Starting ==
  \/ pc \in {"down", "open", "rotate", "activate", "promote", "evidence", "settle",
             "scan", "pending"}
  \/ task \in {"recovery"} \cup EvidenceTasks

-----------------------------------------------------------------------------
(* Who holds what. *)

DiskTypes ==
  /\ content \in [Files -> Contents] /\ place \in [Files -> Places]
  /\ segs \in [Ids -> Seq(Windows)] /\ unsynced \subseteq Ids
ProcessTypes ==
  /\ pc \in Pcs /\ task \in {"none", "recovery"} \cup RunTasks \cup EvidenceTasks
  /\ jf \in Files \cup {None} /\ src \in Files \cup {None} /\ todo \subseteq Files
  /\ touched \in BOOLEAN /\ first \in 0..MaxWindows
  /\ published \in BOOLEAN /\ poisoned \in BOOLEAN
  /\ win \in Windows /\ acked \subseteq Windows /\ next \in 0..MaxWindows
  /\ pos \in Nat /\ mem \in Nat

TaskByPc ==
  /\ (task = "none") = (pc \notin {"activate", "promote", "evidence", "settle", "seal", "sync"} \cup Resets)
  /\ pc \in {"activate", "promote"} => task = "rotated"
  /\ pc \in {"evidence", "settle", "reset2", "reset3"} => task \in EvidenceTasks

FilesByPc ==
  /\ (jf = None) = (pc \in {"down", "open", "rotate"})
  /\ (src = None) = (task \notin EvidenceTasks)
  /\ \A f \in {jf, src} \ {None} : place[f] # "none"
  /\ \A f \in todo : place[f] # "none"
  /\ \A f, g \in Files : place[f] = "active" /\ place[g] = "active" => f = g
  /\ pc \in {"activate", "promote"} => jf # src /\ content[jf] = Empty
  /\ pc = "activate" => place[src] = "active"
  /\ pc = "promote" => \A f \in Files : place[f] # "active"

\* first_id, published_pending_reset and poisoned.
HandleByPc ==
  /\ Starting => first = None /\ ~published
  /\ published => pc \in {"reset", "check"}
  /\ pc = "reset" /\ task \in RunTasks => published
  /\ poisoned => pc \in {"evidence", "settle", "scan", "pending", "tick", "append", "check"}
  /\ poisoned /\ pc \in {"tick", "append"} => first = None

Control == DiskTypes /\ ProcessTypes /\ TaskByPc /\ FilesByPc /\ HandleByPc

-----------------------------------------------------------------------------
(* What the open journal holds. *)

Identified == \A f \in Files : content[f].wins # <<>> => content[f].id \in Ids

\* SegmentState describes the journal of the run, in the middle of a seal too.
Described ==
  /\ \/ pc \in {"tick", "append", "commit"}
     \/ pc \in {"seal", "sync"} /\ task \in RunTasks
     \/ pc = "check" /\ ~published
  /\ ~poisoned
  => first = IF content[jf].wins = <<>> THEN None ELSE content[jf].id

\* c is a beginning of what d has verified, under the same identity.
CopyOf(c, d) ==
  /\ Len(c.wins) <= Len(Verified(d))
  /\ \A k \in 1..Len(c.wins) : c.wins[k] = Verified(d)[k]
  /\ c.wins # <<>> => c.id = d.id

OpenHolds ==
  /\ Sealing => content[jf].wins # <<>>
  /\ pc \in {"settle", "scan", "pending"} /\ ~poisoned => content[jf].wins = <<>>
  /\ pc = "evidence" /\ ~poisoned => CopyOf(content[jf], content[src])
  /\ Sealing /\ task \in EvidenceTasks => CopyOf(content[jf], content[src])
  /\ src # None /\ src = jf /\ ~poisoned => content[jf].wins = <<>>
  /\ pc = "sync" => segs[content[jf].id] = content[jf].wins
  /\ pc = "reset" => segs[content[jf].id] = content[jf].wins /\ content[jf].id \notin unsynced

Open == Identified /\ Described /\ OpenHolds

-----------------------------------------------------------------------------
(* What is acknowledged. *)

Kept == NothingVanishes

\* The window in hand is not in the journal yet.
InHand == pc = "append" \/ task = "early"
\* Its number is new, as the name of a window and as that of a segment.
Identity ==
  /\ InHand => win.n = next /\ win.n # 0
  /\ \A w \in Windows : \A i \in Claims(w) :
       w.n <= next /\ i <= next /\ (InHand => win.n \notin {w.n, i})
  /\ \A w \in Windows : \A i, j \in Claims(w) : i = j

Position ==
  /\ mem <= pos /\ pos <= next
  /\ \A e \in 1..pos : \E w \in acked : w.e = e
  /\ InHand \/ pc = "commit" \/ task = "run" => win.e = mem + 1 /\ win.e <= win.n /\ win.n <= next
  /\ pc = "commit" \/ task = "run" => win \in acked

CInv == Control /\ Open /\ Kept /\ Identity /\ Position

-----------------------------------------------------------------------------
\* While no synchronization of a published segment fails, the journal of the
\* run is not the source of a segment.
Unpublished ==
  /\ \/ pc \in {"tick", "append", "commit"}
     \/ pc = "seal" /\ task \in RunTasks
     \/ pc = "check" /\ ~published
  /\ first # None
  => segs[first] = <<>>
-----------------------------------------------------------------------------
(* What Archive promises beyond CInv. *)

\* The copy in memory is at most one batch behind the state file.
Behind == pc # "down" => pos \in {mem, mem + 1}
\* Files and segments hold windows in the order of their numbers, under the
\* number of the first.
Chronicle(i, s) == Promise!Titled(i, s) /\ Promise!InOrder(s)
Chronicles ==
  /\ \A f \in Files : Chronicle(content[f].id, content[f].wins)
  /\ \A i \in Ids : Chronicle(i, segs[i])
\* What has an identity is on stable storage, in an unsynchronized segment too.
Backed == \A w \in Windows : Claims(w) # {} => w \in OnDisk

ArchiveInv == Behind /\ Chronicles /\ Backed
-----------------------------------------------------------------------------
(* What a restart gives back.  Errors in Losing stop a rotation, a replay  *)
(* or a seal where the next start cannot take it up again, and so does a   *)
(* crash between two frames of a replay; without them nothing is lost.     *)

Losing == {"rotate", "alternate", "inspect", "replay", "reseal", "publish"}
Copying == Replaying /\ ~ReplayEnds(Replayed)
Undisturbed == Kill \/ PowerLoss => ~Copying

\* Every file is readable and where the startup looks for it.
Placed ==
  /\ poisoned => pc = "check"
  /\ \A f \in Files : content[f].cond # "lost"
  /\ jf # None => place[jf] = IF pc \in {"activate", "promote"} THEN "pending" ELSE "active"
  /\ task # "retained"
  /\ src # None /\ pc # "activate" => place[src] = "pending"
  /\ \A f \in todo : place[f] = "pending"
  /\ todo # {} => pc = "pending" \/ task = "pending"

\* A copy is sealed when it is complete, and reset when its segment is durable.
CopyComplete ==
  /\ pc \in {"reset2", "reset3"} =>
       segs[content[jf].id] = content[jf].wins /\ content[jf].id \notin unsynced
  /\ Sealing /\ task \in EvidenceTasks => content[jf].wins = content[src].wins

\* Files with windows, but for a copy in the making.
Whole(f) == content[f].wins # <<>> /\ (pc = "evidence" => f # jf)
\* An identity has one content, in every file and in its segment, and the
\* segment of the run is in the journal of the run only.
OneContent ==
  /\ \A f \in Files : Whole(f) => segs[content[f].id] \in {<<>>, content[f].wins}
  /\ \A f, g \in Files :
       Whole(f) /\ Whole(g) /\ content[f].id = content[g].id => content[f].wins = content[g].wins
  /\ first # None => \A g \in Files \ {jf} : content[g].wins # <<>> => content[g].id # first

\* Before the scan every file in the root is still to be looked at, after it
\* those in hand and those of the scan.
Unscanned ==
  \/ pc \in {"down", "open", "rotate", "activate", "promote", "scan"}
  \/ task \in {"recovery", "rotated"}
InRoot == {f \in Files : place[f] \in {"active", "pending"}}
Held == IF Unscanned THEN InRoot ELSE ({jf, src} \cup todo) \cap Files
Recoverable(w) == InSegment(w) \/ \E f \in Held : w \in In(content[f].wins)
Recovered ==
  /\ \A w \in acked : Recoverable(w)
  /\ pc = "settle" => \A w \in In(content[src].wins) : InSegment(w)

RestartInv == Placed /\ CopyComplete /\ OneContent /\ Recovered
=============================================================================
