------------------------------ MODULE Collector ------------------------------
(***************************************************************************)
(* The collector's storage path, from a collected window to an immutable   *)
(* segment and back through every restart                                  *)
(* (bins/pg_kronika-collector/src/{main,segments,pg_log_source}.rs,        *)
(* kronika-writer/src/{segment,recovery}.rs, the journal rotation and      *)
(* quarantine of kronika-layout/src/root.rs).                              *)
(*                                                                         *)
(* A journal is what module Journal leaves of one: the windows of one      *)
(* segment and whether Journal::open accepts the file.  An append or a     *)
(* reset is one step that succeeds, is rolled back, or poisons the handle; *)
(* a crash in front of it leaves any content Journal allows for that call. *)
(* Segment publication, rotation, replay, quarantine and the log position  *)
(* are taken system call by system call.                                   *)
(***************************************************************************)
EXTENDS Naturals, Sequences, FiniteSets

CONSTANTS
  Files,       \* journal files a behaviour may create, numbered
  Cap,         \* windows until Full or an admission limit closes the segment early
  FaultKinds,  \* the operations that may report an I/O error
  TornHeaders, \* a power loss may tear a journal header write
  MaxWindows,  \* bound: windows collected
  MaxFaults,   \* bound: injected I/O errors
  MaxCrashes   \* bound: kills and power losses

ASSUME FilesAssumption == Files \subseteq Nat \ {0} /\ IsFiniteSet(Files)
ASSUME CapAssumption == Cap \in Nat \ {0}
ASSUME CollectorFailureAssumption ==
  /\ TornHeaders \in BOOLEAN
  /\ FaultKinds \subseteq {"open", "rotate", "activate", "alternate", "inspect", "replay",
                           "append", "reset", "seal", "reseal", "publish", "quarantine", "commit"}
ASSUME CollectorBoundsAssumption ==
  MaxWindows \in Nat /\ MaxFaults \in Nat /\ MaxCrashes \in Nat

VARIABLES
  \* on disk
  content,   \* file -> the journal content it holds
  place,     \* file -> "none", "active" (active.parts), "pending" (a generation or
             \* evidence name in the root), "quarantine"
  segs,      \* SegmentId -> windows of the published PGM, <<>> when there is none
  unsynced,  \* identities whose link a power loss may still undo
  pos,       \* the PostgreSQL log position in the state file
  \* the process
  pc,        \* what it does next; "down" when there is none, "tick" between cycles
  task,      \* whom the seal and the reset in progress serve
  jf,        \* the file behind the open Journal, None without one
  src,       \* the evidence being replayed
  todo,      \* pending root entries of the startup scan still to be handled
  touched,   \* the open journal was written since that scan
  first,     \* SegmentState::first_id
  published, \* SegmentState::published_pending_reset
  poisoned,  \* the open Journal is poisoned
  win,       \* the window in hand
  mem,       \* the log position in memory
  \* observation and bounds
  acked,     \* windows whose append returned Ok
  next, faults, crashes

files == <<content, place>>
segments == <<segs, unsynced>>
recovery == <<src, todo, touched>>
segment == <<first, published>>
cycle == <<win, mem>>
bounds == <<next, faults, crashes>>
vars == <<files, segments, pos, pc, task, jf, recovery, segment, poisoned, cycle, acked, bounds>>

None == 0
NoWin == [n |-> 0, e |-> 0]
Ids == 1..MaxWindows
\* Window n carries the log batch that ends at position e.  Its timestamp is
\* its number: the wall clock does not repeat or step back here.
Windows == [n : 0..MaxWindows, e : 0..MaxWindows]

RunTasks == {"run", "early", "age"}
EvidenceTasks == {"rotated", "retained", "pending"}

-----------------------------------------------------------------------------
(* Journal contents. *)

Empty == [id |-> None, wins |-> <<>>, cond |-> "ok"]
In(s) == {s[k] : k \in DOMAIN s}

\* What JournalRecovery::inspect verifies: whatever the body holds, if the
\* header still names the segment.
Verified(c) == IF c.cond = "lost" THEN <<>> ELSE c.wins

With(c, i, w) == [id |-> i, wins |-> Append(c.wins, w), cond |-> "ok"]
Damaged(c, i) == [c EXCEPT !.id = i, !.cond = "torn"]
\* What is left of an append of w under i that did not run to its end: nothing,
\* all of it, or a file Journal::open refuses because header and body disagree.
\* A frame behind an empty header is not scanned.
Interrupted(c, i, w) ==
  {c, With(c, i, w), Damaged(c, i)}
    \cup (IF c.wins = <<>> THEN {} ELSE {Damaged(With(c, i, w), i)})
\* A torn in-place header no longer names the segment.
HeaderTorn(c) == IF TornHeaders THEN {[c EXCEPT !.cond = "lost"]} ELSE {}
\* Until its marker is durable an interrupted reset leaves the windows, after
\* that Journal::open completes it.
HalfReset(c) == {c, Damaged(c, c.id), Empty}

ActiveFile == {f \in Files : place[f] = "active"}
Fresh == {f \in Files : place[f] = "none" /\ \A g \in Files : place[g] = "none" => f <= g}

Fault(kind) ==
  /\ kind \in FaultKinds
  /\ faults < MaxFaults
  /\ faults' = faults + 1
  /\ UNCHANGED <<next, crashes>>

\* The process ends; the next one starts from what is on disk.
Gone ==
  /\ pc' = "down" /\ task' = "none" /\ jf' = None
  /\ src' = None /\ todo' = {} /\ touched' = FALSE
  /\ first' = None /\ published' = FALSE /\ poisoned' = FALSE
  /\ win' = NoWin /\ mem' = 0

-----------------------------------------------------------------------------
(* Startup: open_collector_journal. *)

Start ==
  /\ pc = "down"
  /\ pc' = "open"
  /\ mem' = pos
  /\ UNCHANGED <<files, segments, pos, task, jf, recovery, segment, poisoned, win, acked, bounds>>

OpenFresh ==
  /\ pc = "open" /\ ActiveFile = {}
  /\ \E f \in Fresh :
       /\ place' = [place EXCEPT ![f] = "active"]
       /\ content' = [content EXCEPT ![f] = Empty]
       /\ jf' = f
  /\ pc' = "scan"
  /\ UNCHANGED <<segments, pos, task, recovery, segment, poisoned, cycle, acked, bounds>>

\* (broken) The windows of the earlier process stay in the journal.
NeverSealed(f) == FALSE
\* A journal with windows is sealed before anything else.
SealedFirst(f) == content[f].wins # <<>>
OpenExisting ==
  /\ pc = "open"
  /\ \E f \in ActiveFile :
       /\ content[f].cond = "ok"
       /\ jf' = f
       /\ IF SealedFirst(f)
          THEN pc' = "seal" /\ task' = "recovery"
          ELSE pc' = "scan" /\ UNCHANGED task
  /\ UNCHANGED <<files, segments, pos, recovery, segment, poisoned, cycle, acked, bounds>>

\* localized_journal_error: the file is kept as evidence and replaced.
OpenDamaged ==
  /\ pc = "open"
  /\ \E f \in ActiveFile : content[f].cond # "ok"
  /\ pc' = "rotate"
  /\ UNCHANGED <<files, segments, pos, task, jf, recovery, segment, poisoned, cycle, acked, bounds>>

\* Every other error ends the process, as do errors of a rotation for which
\* there is no local fallback.
StartupFails ==
  /\ pc \in {"open", "scan", "rotate", "activate"}
  /\ Fault("open")
  /\ Gone
  /\ UNCHANGED <<files, segments, pos, acked>>

-----------------------------------------------------------------------------
(* recover_active_journal: rotation of active.parts to evidence. *)

\* A generation with an empty header is created beside active.parts: for the
\* rotation, or, when begin_journal_rotation fails, as the journal itself.
NewGeneration(t, p) ==
  /\ pc = "rotate"
  /\ \E f \in Fresh :
       /\ place' = [place EXCEPT ![f] = "pending"]
       /\ content' = [content EXCEPT ![f] = Empty]
       /\ jf' = f
  /\ src' \in ActiveFile
  /\ task' = t /\ pc' = p
  /\ UNCHANGED <<segments, pos, todo, touched, segment, poisoned, cycle, acked>>
BeginRotation == NewGeneration("rotated", "activate") /\ UNCHANGED bounds
BeginFails == NewGeneration("retained", "evidence") /\ Fault("rotate")

RotationStep(p) ==
  /\ pc' = p
  /\ UNCHANGED <<content, segments, pos, task, jf, recovery, segment, poisoned, cycle, acked>>

\* JournalRotation::activate: RENAME_EXCHANGE, or else two renames.
Exchange ==
  /\ pc = "activate"
  /\ place' = [place EXCEPT ![jf] = "active", ![src] = "pending"]
  /\ RotationStep("evidence") /\ UNCHANGED bounds
MoveAside ==
  /\ pc = "activate" /\ Fault("activate")
  /\ place' = [place EXCEPT ![src] = "pending"]
  /\ RotationStep("promote")
Promote ==
  /\ pc = "promote"
  /\ place' = [place EXCEPT ![jf] = "active"]
  /\ RotationStep("evidence") /\ UNCHANGED bounds
\* Any other failure continues in the generation under its root name.
KeepAlternate ==
  /\ pc \in {"activate", "promote"} /\ Fault("alternate")
  /\ UNCHANGED place
  /\ RotationStep("evidence")

-----------------------------------------------------------------------------
(* recover_evidence: replay of verified windows into the open journal. *)

Replayed == Len(content[jf].wins)
\* (broken) Replays the first verified window only.
ReplayEndsEarly(k) == k = 1
ReplayEnds(k) == k = Len(Verified(content[src]))

\* (broken) Replays under the identity of the window at hand.
IdOfWindow(f) == Verified(content[f])[Replayed + 1].n
ReplayId(f) == content[f].id

\* There is a window to replay and a handle that takes it.
Replaying == pc = "evidence" /\ Verified(content[src]) # <<>> /\ ~poisoned
NextWindow == Verified(content[src])[Replayed + 1]
Evidence(p) == pc' = p /\ UNCHANGED <<place, segments, pos, task, jf, src, todo, segment, cycle, acked>>

Replay ==
  /\ Replaying /\ ~ReplayEnds(Replayed)
  /\ content' = [content EXCEPT ![jf] = With(@, ReplayId(src), NextWindow)]
  /\ touched' = TRUE
  /\ Evidence("evidence") /\ UNCHANGED <<poisoned, bounds>>
ReplayDone ==
  /\ Replaying /\ ReplayEnds(Replayed)
  /\ Evidence("seal") /\ UNCHANGED <<content, touched, poisoned, bounds>>
\* Nothing verified, or a handle poisoned by an earlier replay.
ReplayNothing ==
  /\ pc = "evidence" /\ ~Replaying
  /\ Evidence("settle") /\ UNCHANGED <<content, touched, poisoned, bounds>>
\* A partial replay is reset before going on.
ReplayRolledBack ==
  /\ Replaying /\ ~ReplayEnds(Replayed) /\ Fault("replay")
  /\ touched' = TRUE
  /\ Evidence(IF content[jf].wins = <<>> THEN "settle" ELSE "reset3")
  /\ UNCHANGED <<content, poisoned>>
\* The reset of a poisoned journal fails and ends startup; a handle without
\* parts is not reset and goes into operation as it is.
ReplayPoisons ==
  /\ Replaying /\ ~ReplayEnds(Replayed) /\ Fault("replay")
  /\ content' \in {[content EXCEPT ![jf] = c] :
       c \in Interrupted(content[jf], ReplayId(src), NextWindow)}
  /\ IF content[jf].wins = <<>>
     THEN poisoned' = TRUE /\ touched' = TRUE /\ Evidence("settle")
     ELSE Gone /\ UNCHANGED <<place, segments, pos, acked>>
InspectFails ==
  /\ pc = "evidence" /\ Replayed = 0 /\ Fault("inspect")
  /\ Evidence("settle") /\ UNCHANGED <<content, touched, poisoned>>

\* The source goes to quarantine; a retained one stays where it is.
Settle ==
  /\ pc = "settle"
  /\ \/ task # "retained" /\ place' = [place EXCEPT ![src] = "quarantine"] /\ UNCHANGED bounds
     \/ task # "retained" /\ Fault("quarantine") /\ UNCHANGED place
     \/ task = "retained" /\ UNCHANGED <<place, bounds>>
  /\ pc' = IF task = "pending" THEN "pending" ELSE "scan"
  /\ todo' = todo \ {src}
  /\ src' = None /\ task' = "none"
  /\ UNCHANGED <<content, segments, pos, jf, touched, segment, poisoned, cycle, acked>>

-----------------------------------------------------------------------------
(* recover_pending_journals. *)

PendingRootEntries == {f \in Files : place[f] = "pending"}

Scan ==
  /\ pc = "scan"
  /\ todo' = PendingRootEntries
  /\ touched' = FALSE
  /\ pc' = "pending" /\ task' = "none"
  /\ UNCHANGED <<files, segments, pos, jf, src, segment, poisoned, cycle, acked, bounds>>

\* open_pending_root compares the scanned identity, length and times included.
Unchanged(f) == ~(f = jf /\ touched)

NextPending ==
  /\ pc = "pending"
  /\ \E f \in todo :
       \/ /\ Unchanged(f)
          /\ src' = f /\ task' = "pending" /\ pc' = "evidence"
          /\ UNCHANGED <<todo, bounds>>
       \/ /\ todo' = todo \ {f}
          /\ IF Unchanged(f) THEN Fault("inspect") ELSE UNCHANGED bounds
          /\ UNCHANGED <<src, task, pc>>
  /\ UNCHANGED <<files, segments, pos, jf, touched, segment, poisoned, cycle, acked>>

Ready ==
  /\ pc = "pending" /\ todo = {}
  /\ pc' = "tick" /\ touched' = FALSE
  /\ UNCHANGED <<files, segments, pos, task, jf, src, todo, segment, poisoned, cycle, acked, bounds>>

-----------------------------------------------------------------------------
(* seal, publish, reset. *)

\* Where a failed seal leaves its caller: the run keeps collecting, recovery
\* hands the file to rotation, a replay resets the copy it made.
AfterFailedSeal(t) ==
  CASE t \in RunTasks -> "check"
    [] t = "recovery" -> "rotate"
    [] t \in EvidenceTasks -> "reset2"

SealFails ==
  /\ pc' = AfterFailedSeal(task)
  /\ task' = IF task \in EvidenceTasks THEN task ELSE "none"
  /\ jf' = IF task = "recovery" THEN None ELSE jf
  /\ win' = NoWin
  /\ UNCHANGED <<files, pos, recovery, segment, poisoned, mem, acked>>

\* (broken) A published segment is replaced by the newly encoded one.
Overwritten(i) == TRUE
\* link(2) never replaces an existing name.
NameFree(i) == segs[i] = <<>>
\* (broken) An existing segment of this identity is taken for the same.
AnyContent(i) == TRUE
\* seal accepts an existing segment only byte for byte.
Identical(i) == segs[i] = content[jf].wins

\* The temporary is written, validated and synchronized, then linked.
Link ==
  /\ pc = "seal"
  /\ LET i == content[jf].id IN
       /\ NameFree(i)
       /\ segs' = [segs EXCEPT ![i] = content[jf].wins]
       /\ unsynced' = unsynced \cup {i}
  /\ pc' = "sync"
  /\ UNCHANGED <<files, pos, task, jf, recovery, segment, poisoned, cycle, acked, bounds>>
AlreadyLinked ==
  /\ pc = "seal" /\ ~NameFree(content[jf].id) /\ Identical(content[jf].id)
  /\ pc' = "sync"
  /\ UNCHANGED <<files, segments, pos, task, jf, recovery, segment, poisoned, cycle, acked, bounds>>
LinkedByAnother ==
  /\ pc = "seal" /\ ~NameFree(content[jf].id) /\ ~Identical(content[jf].id)
  /\ SealFails /\ UNCHANGED <<segments, bounds>>
TemporaryFails ==
  /\ pc = "seal" /\ Fault(IF task \in EvidenceTasks THEN "reseal" ELSE "seal")
  /\ SealFails /\ UNCHANGED segments

\* (broken) The day directory is not synchronized.
DayUnsynced(i) == unsynced
DaySynced(i) == unsynced \ {i}
\* (broken) The segment state does not remember the publication.
PublicationForgotten(t) == FALSE
\* published_pending_reset is kept for the segment the run has open.
PublicationNoted(t) == t \in RunTasks
\* The day directory is synchronized around the unlink of the temporary.
SyncDay ==
  /\ pc = "sync"
  /\ unsynced' = DaySynced(content[jf].id)
  /\ published' = PublicationNoted(task)
  /\ pc' = "reset"
  /\ UNCHANGED <<files, segs, pos, task, jf, recovery, first, poisoned, cycle, acked, bounds>>
\* The segment is linked, and seal returns an error: from the first
\* synchronization, from the unlink, or from the second.
PublishFails ==
  /\ pc = "sync" /\ Fault("publish")
  /\ unsynced' \in {unsynced, DaySynced(content[jf].id)}
  /\ SealFails /\ UNCHANGED segs

\* Recovery tries a reset up to three times: in seal_recovered_journal, in the
\* error arm of recover_evidence and in its caller.
Resets == {"reset", "reset2", "reset3"}
AfterReset(t) ==
  CASE t = "run" -> "commit"
    [] t = "early" -> "append"
    [] t = "age" -> "check"
    [] t = "recovery" -> "scan"
    [] t \in EvidenceTasks -> "settle"

\* (broken) The segment state outlives the journal it described.
StateKept == first
StateCleared == None

Reset ==
  /\ pc \in Resets
  /\ content' = [content EXCEPT ![jf] = Empty]
  /\ first' = StateCleared /\ published' = FALSE
  /\ pc' = AfterReset(task)
  /\ task' = IF task \in EvidenceTasks THEN task ELSE "none"
  /\ UNCHANGED <<place, segments, pos, jf, recovery, poisoned, cycle, acked, bounds>>

\* Rolled back, or poisoned with any content an interrupted reset leaves.
\* Recovery of active.parts drops the handle and rotates the file; a replay
\* tries again, which a poisoned handle refuses until startup ends.
ResetFails ==
  /\ pc \in Resets /\ Fault("reset")
  /\ \E c \in HalfReset(content[jf]), rolledBack \in BOOLEAN :
       /\ rolledBack => c = content[jf]
       /\ content' = [content EXCEPT ![jf] = c]
       /\ \/ /\ task = "recovery"
             /\ pc' = "rotate" /\ task' = "none" /\ jf' = None
             /\ UNCHANGED <<recovery, segment, poisoned, cycle>>
          \/ /\ task \in EvidenceTasks /\ rolledBack /\ pc # "reset3"
             /\ pc' = IF pc = "reset" THEN "reset2" ELSE "reset3"
             /\ UNCHANGED <<task, jf, recovery, segment, poisoned, cycle>>
          \/ /\ task \in EvidenceTasks /\ (~rolledBack \/ pc = "reset3")
             /\ Gone
          \/ /\ task \in RunTasks
             /\ pc' = "check" /\ task' = "none" /\ win' = NoWin
             /\ poisoned' = ~rolledBack
             /\ UNCHANGED <<jf, recovery, segment, mem>>
  /\ UNCHANGED <<place, segments, pos, acked>>

-----------------------------------------------------------------------------
(* The main loop. *)

AgeSeal ==
  /\ pc = "tick" /\ first # None
  /\ task' = "age" /\ pc' = "seal"
  /\ UNCHANGED <<files, segments, pos, jf, recovery, segment, poisoned, cycle, acked, bounds>>

\* snapshot_and_seal, run_log_only_cycle: sources are read and encoded.
Collect ==
  /\ pc = "tick" /\ next < MaxWindows
  /\ next' = next + 1
  /\ win' = [n |-> next + 1, e |-> mem + 1]
  /\ pc' = "append"
  /\ UNCHANGED <<files, segments, pos, task, jf, recovery, segment, poisoned, mem, acked, faults, crashes>>

\* append_window_and_maybe_seal.
AppendId == IF first = None THEN win.n ELSE first
Full == first # None /\ Len(content[jf].wins) = Cap
\* ensure_append_allowed, and the journal's own refusal.
Refused == published \/ poisoned

EarlySeal ==
  /\ pc = "append" /\ ~Refused /\ Full
  /\ task' = "early" /\ pc' = "seal"
  /\ UNCHANGED <<files, segments, pos, jf, recovery, segment, poisoned, cycle, acked, bounds>>

\* Then seal_reason: forced, tick, size or age, or none of them.
AppendWindow ==
  /\ pc = "append" /\ ~Refused /\ ~Full
  /\ content' = [content EXCEPT ![jf] = With(@, AppendId, win)]
  /\ acked' = acked \cup {win}
  /\ first' = AppendId
  /\ \/ pc' = "seal" /\ task' = "run"
     \/ pc' = "commit" /\ UNCHANGED task
  /\ UNCHANGED <<place, segments, pos, jf, recovery, published, poisoned, cycle, bounds>>

\* The window is dropped: refused, rolled back, or lost in a poisoned handle.
AppendFails ==
  /\ pc = "append"
  /\ \/ Refused /\ UNCHANGED <<content, poisoned, bounds>>
     \/ ~Refused /\ ~Full /\ Fault("append") /\ UNCHANGED <<content, poisoned>>
     \/ /\ ~Refused /\ ~Full /\ Fault("append")
        /\ content' \in {[content EXCEPT ![jf] = c] : c \in Interrupted(content[jf], AppendId, win)}
        /\ poisoned' = TRUE
  /\ pc' = "check" /\ win' = NoWin
  /\ UNCHANGED <<place, segments, pos, task, jf, recovery, segment, mem, acked>>

PositionOfBatch(w) == w.e
\* commit_log_collection: the state file, then the copy in memory.
Commit ==
  /\ pc = "commit"
  /\ \/ pos' = PositionOfBatch(win) /\ mem' = pos' /\ UNCHANGED bounds
     \* save failed before or after the rename
     \/ pos' \in {pos, PositionOfBatch(win)} /\ UNCHANGED mem /\ Fault("commit")
  /\ pc' = "check" /\ win' = NoWin
  /\ UNCHANGED <<files, segments, task, jf, recovery, segment, poisoned, acked>>

\* stop_if_persistence_unhealthy ends every cycle.
Check ==
  /\ pc = "check"
  /\ IF published \/ poisoned
     THEN Gone
     ELSE /\ pc' = "tick"
          /\ UNCHANGED <<task, jf, recovery, segment, poisoned, cycle>>
  /\ UNCHANGED <<files, segments, pos, acked, bounds>>

\* SIGTERM and SIGINT are seen between cycles; nothing is flushed.
Stop ==
  /\ pc = "tick"
  /\ Gone
  /\ UNCHANGED <<files, segments, pos, acked, bounds>>

-----------------------------------------------------------------------------
(* Crashes. *)

\* What the call the process was about to make may leave of its file.
InFlight(torn) ==
  CASE pc = "append" /\ ~Refused /\ ~Full ->
         Interrupted(content[jf], AppendId, win) \cup torn
    [] Replaying /\ ~ReplayEnds(Replayed) ->
         Interrupted(content[jf], ReplayId(src), NextWindow) \cup torn
    [] pc \in Resets -> HalfReset(content[jf])
    [] OTHER -> {content[jf]}

Dies(torn) ==
  /\ crashes < MaxCrashes
  /\ crashes' = crashes + 1
  /\ IF jf = None THEN UNCHANGED content
     ELSE content' \in {[content EXCEPT ![jf] = c] : c \in InFlight(torn)}
  /\ Gone
  /\ UNCHANGED <<place, pos, acked, next, faults>>

Kill ==
  /\ pc # "down"
  /\ Dies({})
  /\ UNCHANGED segments

\* Segments whose directory entry was not synchronized may be gone.
PowerLoss ==
  /\ Dies(IF jf = None THEN {} ELSE HeaderTorn(content[jf]))
  /\ \E gone \in SUBSET unsynced :
       segs' = [i \in Ids |-> IF i \in gone THEN <<>> ELSE segs[i]]
  /\ unsynced' = {}

-----------------------------------------------------------------------------
Init ==
  /\ content = [f \in Files |-> Empty]
  /\ place = [f \in Files |-> "none"]
  /\ segs = [i \in Ids |-> <<>>]
  /\ unsynced = {}
  /\ pos = 0
  /\ pc = "down" /\ task = "none" /\ jf = None
  /\ src = None /\ todo = {} /\ touched = FALSE
  /\ first = None /\ published = FALSE /\ poisoned = FALSE
  /\ win = NoWin /\ mem = 0
  /\ acked = {} /\ next = 0 /\ faults = 0 /\ crashes = 0

Recover ==
  \/ OpenFresh \/ OpenExisting \/ OpenDamaged
  \/ BeginRotation \/ BeginFails \/ Exchange \/ MoveAside \/ Promote \/ KeepAlternate
  \/ Replay \/ ReplayDone \/ ReplayNothing \/ ReplayRolledBack \/ ReplayPoisons \/ InspectFails
  \/ Settle \/ Scan \/ NextPending \/ Ready

Seal ==
  \/ Link \/ AlreadyLinked \/ LinkedByAnother \/ TemporaryFails
  \/ SyncDay \/ PublishFails \/ Reset \/ ResetFails

Cycle ==
  \/ EarlySeal \/ AppendWindow \/ AppendFails \/ Commit \/ Check

\* Work in progress goes on; the idle loop, signals and crashes are the
\* environment's.
Work == Recover \/ StartupFails \/ Seal \/ Cycle

Next ==
  \/ Start \/ Work \/ Collect \/ AgeSeal \/ Stop
  \/ Kill \/ PowerLoss

Spec == Init /\ [][Next]_vars

\* The main loop runs on and its age valve fires; a supervisor restarts the
\* process.
Fairness == WF_vars(Start) /\ WF_vars(Work) /\ WF_vars(AgeSeal)
LiveSpec == Spec /\ Fairness

-----------------------------------------------------------------------------
(* Properties. *)


\* Every variable has its type and there is at most one active.parts.
TypeOK ==
  /\ \A f \in Files :
       /\ content[f].id \in 0..MaxWindows
       /\ content[f].cond \in {"ok", "torn", "lost"}
       /\ In(content[f].wins) \subseteq Windows
       /\ place[f] \in {"none", "active", "pending", "quarantine"}
  /\ Cardinality(ActiveFile) <= 1
  /\ \A i \in Ids : In(segs[i]) \subseteq Windows
  /\ unsynced \subseteq Ids /\ pos \in 0..MaxWindows
  /\ pc \in {"down", "open", "rotate", "activate", "promote", "evidence", "settle", "scan",
             "pending", "tick", "append", "seal", "sync", "commit", "check"} \cup Resets
  /\ task \in {"none", "recovery"} \cup RunTasks \cup EvidenceTasks
  /\ {jf, src} \subseteq Files \cup {None} /\ todo \subseteq Files /\ touched \in BOOLEAN
  /\ first \in 0..MaxWindows /\ published \in BOOLEAN /\ poisoned \in BOOLEAN
  /\ win \in Windows /\ mem \in 0..MaxWindows /\ acked \subseteq Windows

InSegment(w) == \E i \in Ids : w \in In(segs[i]) /\ i \notin unsynced
InFile(w) == \E f \in Files : place[f] # "none" /\ w \in In(content[f].wins)

\* What append acknowledged stays on disk through every failure, rotation and
\* crash: in a journal file, quarantined or not, or in a synchronized segment.
NothingVanishes == \A w \in acked : InSegment(w) \/ InFile(w)

\* The log position never passes an event that is not in a stored window.
PositionCovered == \A e \in 1..pos : \E w \in acked : w.e = e /\ (InSegment(w) \/ InFile(w))

\* A published segment is never changed, only lost with its directory entry.
NeverOverwritten ==
  [][\A i \in Ids : segs[i] # <<>> /\ segs'[i] # segs[i] => i \in unsynced /\ segs'[i] = <<>>]_vars

\* A window belongs to one identity in every file and segment that holds it:
\* no restart publishes it twice under different names.
Claims(w) == {i \in Ids : w \in In(segs[i])}
  \cup {content[f].id : f \in {g \in Files : w \in In(content[g].wins)}}
OneIdentity == \A w \in acked : Cardinality(Claims(w)) = 1

\* Between cycles SegmentState describes the journal: a first identity exactly
\* when the journal holds windows, and the same one.
StateMatchesJournal ==
  pc \in {"tick", "append", "commit"} /\ ~poisoned =>
    first = IF content[jf].wins = <<>> THEN None ELSE content[jf].id

\* No window joins a journal whose segment is already published (the refusal
\* of ensure_append_allowed and stop_if_persistence_unhealthy).
NoAppendAfterPublish ==
  [][acked' # acked /\ content[jf].wins # <<>> => segs[content[jf].id] = <<>>]_vars

\* Once startup is over every acknowledged window whose header survived is in
\* a published segment or in the open journal.
Reachable(w) == (\E i \in Ids : w \in In(segs[i])) \/ w \in In(Verified(content[jf]))
RestartLosesNothing == pc = "tick" => \A w \in acked : Reachable(w)

\* The whole storage path keeps the promises of Archive, with what is in a
\* journal file or in a synchronized segment kept, and synchronized segments
\* filed: whatever fails and wherever it dies, a segment is neither replaced
\* nor filed with windows out of order, missing in the journal or in another
\* segment too, and a batch is not skipped by the position.
OnDisk ==
  UNION ({In(segs[i]) : i \in Ids \ unsynced}
           \cup {In(content[f].wins) : f \in {g \in Files : place[g] # "none"}})
Filed == [i \in Ids |-> IF i \in unsynced THEN <<>> ELSE segs[i]]
Promise == INSTANCE Archive WITH kept <- OnDisk, accepted <- acked, position <- pos, filed <- Filed
ImplementsArchive == Promise!Spec

\* Every acknowledged window is eventually published.
EventuallyPublished ==
  \A n \in Ids : (\E w \in acked : w.n = n) ~> (\E w \in acked : w.n = n /\ InSegment(w))
=============================================================================
