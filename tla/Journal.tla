------------------------------- MODULE Journal -------------------------------
(***************************************************************************)
(* The collector's crash journal `active.parts`                            *)
(* (crates/kronika-writer/src/journal.rs, framing in                       *)
(* crates/kronika-format/src/parts.rs).                                    *)
(*                                                                         *)
(* Every system call that touches the file is a step of its own, and every *)
(* one may fail.  The file is seen twice: `hdr` and `body` are what any    *)
(* process reads now, `hdrs` and `bodies` are the headers and bodies a     *)
(* power loss may leave behind, collected since the last successful        *)
(* sync_data.  A process may die between any two steps, the machine may    *)
(* lose power, and the journal is opened again.                            *)
(***************************************************************************)
EXTENDS Integers, Sequences

CONSTANTS
  Parts,          \* encoded collection windows offered to the journal
  SegIds,         \* segment identities
  NoId,           \* the identity field of a header that names no segment
  PartLen,        \* Parts -> length of the encoded part
  HeaderLen,      \* JOURNAL_HEADER_LEN (36)
  FrameHeaderLen, \* FRAME_HEADER_LEN (16)
  MarkerLen,      \* RESET_MARKER_LEN (32)
  MaxLens,        \* the values config.max_journal_len takes across restarts
  MaxParts,       \* config.max_parts
  TornHeaders,    \* a header write may reach the disk in part
  DirtyReopen,    \* the file may be opened again before the kernel wrote it back
  MaxFaults,      \* bound: I/O errors injected in a behaviour
  MaxCrashes,     \* bound: process kills and power losses in a behaviour
  MaxGen          \* bound: handle generations of one process

ASSUME LengthsAssumption ==
  /\ PartLen \in [Parts -> Nat \ {0}]
  /\ HeaderLen \in Nat \ {0}
  /\ FrameHeaderLen \in Nat \ {0}
  /\ MarkerLen \in Nat \ {0}
\* validate_config refuses any other configuration.
ASSUME ConfigAssumption ==
  /\ MaxLens \subseteq {n \in Nat : n >= HeaderLen}
  /\ MaxParts \in Nat \ {0}
ASSUME IdAssumption == NoId \notin SegIds
ASSUME FailureAssumption == TornHeaders \in BOOLEAN /\ DirtyReopen \in BOOLEAN
ASSUME BoundsAssumption == MaxFaults \in Nat /\ MaxCrashes \in Nat /\ MaxGen \in Nat

VARIABLES
  \* the file
  linked,    \* directory entry: "absent", "entry" (not yet synced), "durable"
  hdr, body, \* the content a process reads
  hdrs, bodies, \* the contents a power loss may leave
  \* the process
  pc,        \* the next system call, "closed" without a handle, "idle" between calls
  op,        \* the call being served
  max, end, parts, gen, seg, poisoned, \* fields of struct Journal
  adopted,   \* the handle was opened over windows of an earlier process
  nextGen,   \* NEXT_JOURNAL_GENERATION
  ret,       \* how the last call returned
  \* what callers were told
  acked,     \* content whose appends returned Ok, until a reset returns Ok
  pending,   \* contents asked for by appends and resets that neither returned Ok nor
             \* were undone: one of them may come back instead
  issued,    \* part references handed out, with the part they were issued for
  \* bounds
  faults, crashes

file == <<linked, hdr, body, hdrs, bodies>>
handle == <<max, end, parts, gen, seg, poisoned, adopted>>
ghost == <<acked, pending, issued>>
vars == <<file, pc, op, handle, nextGen, ret, ghost, faults, crashes>>

-----------------------------------------------------------------------------
(* Root header and body. *)

NoHdr == [kind |-> "none", id |-> NoId, end |-> 0]
ShortHdr == [kind |-> "short", id |-> NoId, end |-> 0]
TornHdr == [kind |-> "torn", id |-> NoId, end |-> 0]
EmptyHdr == [kind |-> "empty", id |-> NoId, end |-> HeaderLen]
ActiveHdr(i, e) == [kind |-> "active", id |-> i, end |-> e]

\* Header `new` written over `old` but only in part.  A prefix of the empty
\* header over an active one keeps the old identity recognizable to
\* classify_header_transition; every other mix fails the header checksum.
Mixed(old) == [old EXCEPT !.kind = "mixed"]
Torn(old, new) ==
  IF old.kind = "none" THEN ShortHdr
  ELSE IF old.kind = "active" /\ new = EmptyHdr THEN Mixed(old)
  ELSE TornHdr

NoTail == [kind |-> "none", len |-> 0, prev |-> NoHdr]
\* Bytes behind the last whole frame that are no whole frame: cut short, or of
\* the full length with content that never reached the disk.
ShortTail(n) == [kind |-> "short", len |-> n, prev |-> NoHdr]
BadTail(n) == [kind |-> "bad", len |-> n, prev |-> NoHdr]
MarkerTail(h) == [kind |-> "marker", len |-> MarkerLen, prev |-> h]

Frame(at, p) == [at |-> at, len |-> FrameHeaderLen + PartLen[p], part |-> p]
Body(frames, tail) == [frames |-> frames, tail |-> tail]
EmptyBody == Body(<<>>, NoTail)

FramesEnd(fs) == IF fs = <<>> THEN HeaderLen ELSE fs[Len(fs)].at + fs[Len(fs)].len
FileLen(h, b) ==
  CASE h.kind = "none" -> 0
    [] h.kind = "short" -> 1
    [] OTHER -> FramesEnd(b.frames) + b.tail.len

\* Logical content: the windows of one segment, in order.
Nothing == [id |-> NoId, parts |-> <<>>]
Content(h, fs) ==
  IF fs = <<>> THEN Nothing
  ELSE [id |-> h.id, parts |-> [i \in DOMAIN fs |-> fs[i].part]]
With(c, i, p) == [id |-> i, parts |-> Append(c.parts, p)]

-----------------------------------------------------------------------------
(* What opening a file with header h and body b does. *)

\* recover_committed_reset: a whole marker at the end of the file that names
\* its own place and the header in front of it, over a body that scans clean.
ResetCommitted(h, b) ==
  /\ b.tail.kind = "marker"
  /\ b.tail.prev.end = FramesEnd(b.frames)
  /\ h \in {b.tail.prev, Mixed(b.tail.prev), EmptyHdr}
  /\ b.frames # <<>>

\* The checks of Journal::open after reset recovery, in the code's order.
\* (broken) Trusts the body length and lets an active header stand without a frame.
LengthTrusted(h, b) ==
  IF h.kind \notin {"empty", "active"} THEN "invalid_header"
  ELSE IF b.tail # NoTail THEN "damaged_body" ELSE "ok"
OpenVerdict(h, b) ==
  IF h.kind = "short" THEN "torn_header"
  ELSE IF h.kind \notin {"empty", "active"} THEN "invalid_header"
  ELSE IF h.end # FileLen(h, b) THEN "body_length_mismatch"
  ELSE IF h.kind = "empty" THEN "ok"
  ELSE IF Len(b.frames) > MaxParts THEN "too_many_parts"
  ELSE IF b.tail # NoTail THEN "damaged_body"
  ELSE IF b.frames = <<>> THEN "active_without_frame"
  ELSE "ok"

\* localized_journal_error: the verdicts the collector answers by rotating the
\* file away; every other error stops it.
Localized == {"journal_too_large", "torn_header", "invalid_header",
  "body_length_mismatch", "too_many_parts", "damaged_body", "active_without_frame"}

\* JournalRecovery::inspect: only a complete active header gives the frames an
\* identity; then every whole frame is taken and the tail is discarded.
\* (broken) Gives the frames up when the header does not give the length of the file.
SalvageOfExactLength(h, b) ==
  IF h.kind = "active" /\ h.end = FileLen(h, b) THEN Content(h, b.frames) ELSE Nothing
Salvage(h, b) == IF h.kind = "active" THEN Content(h, b.frames) ELSE Nothing

\* The windows a restarted collector ends up with.
Recovered(h, b) == IF ResetCommitted(h, b) THEN Nothing ELSE Salvage(h, b)

-----------------------------------------------------------------------------
(* Effects of the system calls. *)

PartialHeaders(hs, h) == IF TornHeaders THEN {Torn(g, h) : g \in hs \ {h}} ELSE {}
WriteHeader(h) ==
  /\ hdr' = h
  /\ hdrs' = hdrs \cup {h} \cup PartialHeaders(hdrs, h)
\* A failed write leaves the old bytes or a mix of both.
WriteHeaderFails(h) ==
  /\ hdr' \in {hdr} \cup PartialHeaders({hdr}, h)
  /\ hdrs' = hdrs \cup PartialHeaders(hdrs, h)

\* `partial` are the bodies of which only a part reached the disk.
WriteBody(b, partial) ==
  /\ body' = b
  /\ bodies' = bodies \cup {b} \cup partial

\* set_len(at): nothing behind `at` stays.
\* (broken) Rollback that cuts every frame.
TruncatedToHeader(b, at) == EmptyBody
Truncated(b, at) ==
  LET kept == CHOOSE n \in 0..Len(b.frames) : \A i \in DOMAIN b.frames :
                i <= n <=> b.frames[i].at + b.frames[i].len <= at
  IN  Body(SubSeq(b.frames, 1, kept), NoTail)

\* (broken) Reports success without waiting for the disk.
SyncIgnored == UNCHANGED <<hdrs, bodies>>
Sync == hdrs' = {hdr} /\ bodies' = {body}

IoError == faults < MaxFaults /\ faults' = faults + 1

CurrentHeader == IF seg = NoId THEN [EmptyHdr EXCEPT !.end = end] ELSE ActiveHdr(seg, end)

\* What the file shows a reader now.
Shown == Content(hdr, body.frames)

\* A call returned after a sync: what was asked for and is in the file is
\* acknowledged, anything else that was asked for is undone.  A file that shows
\* neither (an adopted one that lost what it was opened with) settles nothing.
Settle ==
  /\ acked' = IF Shown \in pending THEN Shown ELSE acked
  /\ pending' = IF Shown \in {acked} \cup pending THEN {} ELSE pending

NoHandle ==
  /\ max' = HeaderLen /\ end' = HeaderLen /\ parts' = <<>> /\ gen' = 0 /\ seg' = NoId
  /\ poisoned' = FALSE /\ adopted' = FALSE

NoOp == [kind |-> "none", id |-> NoId, part |-> <<>>]

HdrType == [kind : {"none", "short", "torn", "mixed", "empty", "active"},
            id : SegIds \cup {NoId}, end : Nat]
TailType == [kind : {"none", "short", "bad", "marker"}, len : Nat, prev : HdrType]
FrameType == [at : Nat, len : Nat, part : Parts]
BodyType == [frames : Seq(FrameType), tail : TailType]
RefType == [offset : Nat, len : Nat, gen : Nat]
OpType == [kind : {"none", "open", "append", "reset"}, id : SegIds \cup {NoId}, part : Seq(Parts)]
ContentType == [id : SegIds \cup {NoId}, parts : Seq(Parts)]
Rets == Localized \cup {"none", "ok", "io", "poisoned", "mismatch", "full",
  "rollback_failed", "reset_incomplete"}
Pcs == {"closed", "idle", "init_header", "init_sync", "inspect", "sync_root",
  "append_header", "append_frame", "append_part", "append_sync",
  "rollback_truncate", "rollback_header", "rollback_sync", "write_marker", "sync_marker",
  "empty_header", "sync_empty", "truncate", "final_sync"}

\* Every variable stays in its type.
TypeOK ==
  /\ linked \in {"absent", "entry", "durable"}
  /\ hdr \in HdrType /\ hdrs \subseteq HdrType
  /\ body \in BodyType /\ bodies \subseteq BodyType
  /\ pc \in Pcs
  /\ op \in OpType
  /\ max \in Nat /\ end \in Nat /\ parts \in Seq(RefType) /\ gen \in Nat
  /\ seg \in SegIds \cup {NoId} /\ poisoned \in BOOLEAN /\ adopted \in BOOLEAN
  /\ nextGen \in Nat
  /\ ret \in Rets
  /\ acked \in ContentType /\ pending \subseteq ContentType
  /\ issued \subseteq [ref : RefType, part : Parts]
  /\ faults \in Nat /\ crashes \in Nat

Init ==
  /\ linked = "absent" /\ hdr = NoHdr /\ body = EmptyBody
  /\ hdrs = {NoHdr} /\ bodies = {EmptyBody}
  /\ pc = "closed" /\ op = NoOp /\ ret = "none"
  /\ max = HeaderLen /\ end = HeaderLen /\ parts = <<>> /\ gen = 0 /\ seg = NoId
  /\ poisoned = FALSE /\ adopted = FALSE /\ nextGen = 1
  /\ acked = Nothing /\ pending = {} /\ issued = {}
  /\ faults = 0 /\ crashes = 0

Return(result) == pc' = "idle" /\ op' = NoOp /\ ret' = result
\* Journal::open gives no handle.
Refuse(result) == pc' = "closed" /\ op' = NoOp /\ ret' = result

-----------------------------------------------------------------------------
(* Journal::open *)

\* Creates the directory entry when there is none; a created file has its
\* header written before anything is read.  Nothing here syncs what an earlier
\* process left in the page cache.
Open(m) ==
  /\ pc = "closed" /\ ret \notin Localized
  /\ op' = [NoOp EXCEPT !.kind = "open"]
  /\ max' = m
  /\ IF linked = "absent" THEN pc' = "init_header" /\ linked' = "entry"
                          ELSE pc' = "inspect" /\ linked' = linked
  /\ IF DirtyReopen THEN UNCHANGED <<hdrs, bodies>> ELSE Sync
  /\ UNCHANGED <<hdr, body, end, parts, gen, seg, poisoned, adopted, nextGen,
                 ret, ghost, faults, crashes>>

InitHeader ==
  /\ pc = "init_header"
  /\ \/ WriteHeader(EmptyHdr) /\ pc' = "init_sync" /\ UNCHANGED <<op, ret, faults>>
     \/ WriteHeaderFails(EmptyHdr) /\ Refuse("io") /\ IoError
  /\ UNCHANGED <<linked, body, bodies, handle, nextGen, ghost, crashes>>

InitSync ==
  /\ pc = "init_sync"
  /\ \/ Sync /\ pc' = "inspect" /\ UNCHANGED <<op, ret, faults>>
     \/ Refuse("io") /\ IoError /\ UNCHANGED <<hdrs, bodies>>
  /\ UNCHANGED <<linked, hdr, body, handle, nextGen, ghost, crashes>>

\* The physical cap comes before reset recovery, an empty file after it.
Inspect ==
  /\ pc = "inspect"
  /\ LET verdict == OpenVerdict(hdr, body) IN
     \/ FileLen(hdr, body) > max /\ Refuse("journal_too_large")
     \/ FileLen(hdr, body) <= max /\ ResetCommitted(hdr, body)
        /\ pc' = "empty_header" /\ UNCHANGED <<op, ret>>
     \/ FileLen(hdr, body) <= max /\ ~ResetCommitted(hdr, body)
        /\ IF hdr = NoHdr THEN pc' = "init_header" /\ UNCHANGED <<op, ret>>
           ELSE IF verdict = "ok" THEN pc' = "sync_root" /\ UNCHANGED <<op, ret>>
           ELSE Refuse(verdict)
  /\ UNCHANGED <<file, handle, nextGen, ghost, faults, crashes>>

RefsOf(fs, g) ==
  [i \in DOMAIN fs |-> [offset |-> fs[i].at + FrameHeaderLen,
                        len |-> fs[i].len - FrameHeaderLen, gen |-> g]]
\* Callers hold every reference `parts` shows them.
Issue(fs, g) ==
  issued \cup {[ref |-> RefsOf(fs, g)[i], part |-> fs[i].part] : i \in DOMAIN fs}

RootSynced == linked' = "durable"

\* What the handle shows is what the file holds.
Opened ==
  /\ end' = FileLen(hdr, body) /\ parts' = RefsOf(body.frames, nextGen)
  /\ gen' = nextGen /\ nextGen' = nextGen + 1
  /\ seg' = hdr.id /\ poisoned' = FALSE /\ adopted' = (body.frames # <<>>)
  /\ issued' = Issue(body.frames, nextGen)
  /\ Return("ok")

\* The entry is made durable even when this call did not create it.
SyncRoot ==
  /\ pc = "sync_root"
  /\ \/ RootSynced /\ Opened /\ UNCHANGED faults
     \/ /\ Refuse("io") /\ IoError
        /\ UNCHANGED <<linked, end, parts, gen, nextGen, seg, poisoned, adopted, issued>>
  /\ UNCHANGED <<hdr, body, hdrs, bodies, max, acked, pending, crashes>>

-----------------------------------------------------------------------------
(* Journal::append *)

\* (broken) Lets a window of another segment follow.
AnySegment(i) == TRUE
SameSegment(i) == seg \in {NoId, i}
\* The length check keeps room for a reset marker behind the frame.
\* (broken) Leaves no room for the reset marker.
FrameAloneFits(p) == end + FrameHeaderLen + PartLen[p] <= max
FrameFits(p) == end + FrameHeaderLen + PartLen[p] + MarkerLen <= max
\* (broken) Omits ensure_healthy.
HealthUnchecked(i, p) ==
  IF ~SameSegment(i) THEN "mismatch"
  ELSE IF Len(parts) >= MaxParts THEN "too_many_parts"
  ELSE IF ~FrameFits(p) THEN "full" ELSE "ok"
\* Early returns, in the code's order.
AppendRefusal(i, p) ==
  IF poisoned THEN "poisoned"
  ELSE IF ~SameSegment(i) THEN "mismatch"
  ELSE IF Len(parts) >= MaxParts THEN "too_many_parts"
  ELSE IF ~FrameFits(p) THEN "full"
  ELSE "ok"

\* The collector seals and resets windows of an earlier process before it
\* appends its own, so an adopted generation is never appended to.
AppendCall(i, p) ==
  /\ pc = "idle"
  /\ ~adopted
  /\ IF AppendRefusal(i, p) # "ok"
     THEN ret' = AppendRefusal(i, p) /\ UNCHANGED <<pc, op, pending>>
     ELSE /\ op' = [kind |-> "append", id |-> i, part |-> <<p>>]
          /\ pc' = IF parts = <<>> THEN "append_header" ELSE "append_frame"
          /\ pending' = pending \cup {With(Shown, i, p)}
          /\ UNCHANGED ret
  /\ UNCHANGED <<file, handle, nextGen, acked, issued, faults, crashes>>

NewFrame == Frame(end, op.part[1])
NewHeader == ActiveHdr(op.id, end + NewFrame.len)
Fail == pc' = "rollback_truncate" /\ IoError

\* The first append writes the header before its frame, a later one after it.
AppendHeader ==
  /\ pc = "append_header"
  /\ \/ /\ WriteHeader(NewHeader)
        /\ pc' = IF parts = <<>> THEN "append_frame" ELSE "append_sync"
        /\ UNCHANGED faults
     \/ WriteHeaderFails(NewHeader) /\ Fail
  /\ UNCHANGED <<linked, body, bodies, op, handle, nextGen, ret, ghost, crashes>>

\* write_frame, up to the frame header: the file ends in a cut-short frame.
AppendFrame ==
  /\ pc = "append_frame"
  /\ \/ WriteBody(Body(body.frames, ShortTail(FrameHeaderLen)), {})
        /\ pc' = "append_part" /\ UNCHANGED faults
     \/ Fail /\ UNCHANGED <<body, bodies>>
  /\ UNCHANGED <<linked, hdr, hdrs, op, handle, nextGen, ret, ghost, crashes>>

AppendPart ==
  /\ pc = "append_part"
  /\ \/ /\ WriteBody(Body(Append(body.frames, NewFrame), NoTail),
                     {Body(body.frames, BadTail(NewFrame.len))})
        /\ pc' = IF parts = <<>> THEN "append_sync" ELSE "append_header"
        /\ UNCHANGED faults
     \/ Fail /\ UNCHANGED <<body, bodies>>
  /\ UNCHANGED <<linked, hdr, hdrs, op, handle, nextGen, ret, ghost, crashes>>

NewRef == RefsOf(<<NewFrame>>, gen)[1]
AppendSync ==
  /\ pc = "append_sync"
  /\ \/ /\ Sync
        /\ end' = end + NewFrame.len /\ parts' = Append(parts, NewRef) /\ seg' = op.id
        /\ issued' = issued \cup {[ref |-> NewRef, part |-> op.part[1]]}
        /\ Settle
        /\ Return("ok") /\ UNCHANGED faults
     \/ /\ Fail
        /\ UNCHANGED <<hdrs, bodies, end, parts, seg, acked, pending, issued, op, ret>>
  /\ UNCHANGED <<linked, hdr, body, max, gen, poisoned, adopted, nextGen, crashes>>

-----------------------------------------------------------------------------
(* rollback, of an append or of an unfinished reset marker *)

\* A rollback that fails leaves the file as it is and the handle poisoned.
Poison(result) == poisoned' = TRUE /\ Return(result) /\ IoError

RollbackTruncate ==
  /\ pc = "rollback_truncate"
  /\ \/ WriteBody(Truncated(body, end), {}) /\ pc' = "rollback_header"
        /\ UNCHANGED <<op, ret, poisoned, faults>>
     \/ Poison("rollback_failed") /\ UNCHANGED <<body, bodies>>
  /\ UNCHANGED <<linked, hdr, hdrs, max, end, parts, gen, seg, adopted, nextGen, ghost, crashes>>

RollbackHeader ==
  /\ pc = "rollback_header"
  /\ \/ WriteHeader(CurrentHeader) /\ pc' = "rollback_sync"
        /\ UNCHANGED <<op, ret, poisoned, faults>>
     \/ WriteHeaderFails(CurrentHeader) /\ Poison("rollback_failed")
  /\ UNCHANGED <<linked, body, bodies, max, end, parts, gen, seg, adopted, nextGen, ghost, crashes>>

\* The undone call leaves no trace: an append is not pending, a reset not asked for.
RollbackSync ==
  /\ pc = "rollback_sync"
  /\ \/ /\ Sync /\ Return("io")
        /\ Settle
        /\ UNCHANGED <<poisoned, faults>>
     \/ Poison("rollback_failed") /\ UNCHANGED <<hdrs, bodies, acked, pending>>
  /\ UNCHANGED <<linked, hdr, body, max, end, parts, gen, seg, adopted, nextGen,
                 issued, crashes>>

-----------------------------------------------------------------------------
(* Journal::reset *)

\* (broken) Writes the marker past the cap.
MarkerAssumedToFit == TRUE
MarkerFits == end + MarkerLen <= max

\* A generation number is spent even when the reset then fails.
ResetCall ==
  /\ pc = "idle"
  /\ IF poisoned THEN ret' = "poisoned" /\ UNCHANGED <<pc, op, nextGen, pending>>
     ELSE IF parts = <<>> THEN ret' = "ok" /\ UNCHANGED <<pc, op, nextGen, pending>>
     ELSE /\ nextGen < MaxGen
          /\ nextGen' = nextGen + 1
          /\ IF ~MarkerFits
             THEN ret' = "full" /\ UNCHANGED <<pc, op, pending>>
             ELSE /\ pc' = "write_marker" /\ op' = [NoOp EXCEPT !.kind = "reset"]
                  /\ pending' = pending \cup {Nothing} /\ UNCHANGED ret
  /\ UNCHANGED <<file, handle, acked, issued, faults, crashes>>

WriteMarker ==
  /\ pc = "write_marker"
  /\ \/ /\ WriteBody(Body(body.frames, MarkerTail(CurrentHeader)),
                     {Body(body.frames, ShortTail(1)), Body(body.frames, BadTail(MarkerLen))})
        /\ pc' = "sync_marker" /\ UNCHANGED faults
     \/ /\ \E b \in {body, Body(body.frames, ShortTail(1))} : WriteBody(b, {})
        /\ Fail
  /\ UNCHANGED <<linked, hdr, hdrs, op, handle, nextGen, ret, ghost, crashes>>

SyncMarker ==
  /\ pc = "sync_marker"
  /\ \/ Sync /\ pc' = "empty_header" /\ UNCHANGED faults
     \/ Fail /\ UNCHANGED <<hdrs, bodies>>
  /\ UNCHANGED <<linked, hdr, body, op, handle, nextGen, ret, ghost, crashes>>

-----------------------------------------------------------------------------
(* finish_committed_reset, from Journal::reset and from Journal::open *)

\* Past the marker nothing is rolled back: reset poisons its handle, open gives none.
FinishFails ==
  /\ IoError
  /\ IF op.kind = "reset" THEN poisoned' = TRUE /\ Return("reset_incomplete")
                          ELSE Refuse("io") /\ UNCHANGED poisoned

\* (broken) Goes straight to the truncation.
EmptyHeaderSkipped ==
  /\ pc = "empty_header" /\ pc' = "sync_empty"
  /\ UNCHANGED <<file, op, handle, nextGen, ret, ghost, faults, crashes>>
EmptyHeader ==
  /\ pc = "empty_header"
  /\ \/ WriteHeader(EmptyHdr) /\ pc' = "sync_empty" /\ UNCHANGED <<op, ret, poisoned, faults>>
     \/ WriteHeaderFails(EmptyHdr) /\ FinishFails
  /\ UNCHANGED <<linked, body, bodies, max, end, parts, gen, seg, adopted, nextGen, ghost, crashes>>

SyncEmpty ==
  /\ pc = "sync_empty"
  /\ \/ Sync /\ pc' = "truncate" /\ UNCHANGED <<op, ret, poisoned, faults>>
     \/ FinishFails /\ UNCHANGED <<hdrs, bodies>>
  /\ UNCHANGED <<linked, hdr, body, max, end, parts, gen, seg, adopted, nextGen, ghost, crashes>>

TruncateBody ==
  /\ pc = "truncate"
  /\ \/ WriteBody(EmptyBody, {}) /\ pc' = "final_sync" /\ UNCHANGED <<op, ret, poisoned, faults>>
     \/ FinishFails /\ UNCHANGED <<body, bodies>>
  /\ UNCHANGED <<linked, hdr, hdrs, max, end, parts, gen, seg, adopted, nextGen, ghost, crashes>>

\* (broken) Reset keeps the generation.
GenerationKept == gen
GenerationTaken == nextGen - 1

\* Journal::reset clears the handle under the generation it took at its start
\* (the last one given out); Journal::open goes on with the empty file.
FinalSync ==
  /\ pc = "final_sync"
  /\ \/ /\ Sync
        /\ Settle
        /\ IF op.kind = "reset"
           THEN /\ end' = HeaderLen /\ parts' = <<>> /\ gen' = GenerationTaken /\ seg' = NoId
                /\ adopted' = FALSE /\ Return("ok")
           ELSE /\ pc' = "inspect" /\ UNCHANGED <<end, parts, gen, seg, adopted, op, ret>>
        /\ UNCHANGED <<poisoned, faults>>
     \/ /\ FinishFails
        /\ UNCHANGED <<hdrs, bodies, acked, pending, end, parts, gen, seg, adopted>>
  /\ UNCHANGED <<linked, hdr, body, max, nextGen, issued, crashes>>

-----------------------------------------------------------------------------
(* The surroundings of the journal *)

\* The handle is dropped; references to its parts may outlive it.
Drop ==
  /\ pc = "idle" /\ nextGen < MaxGen
  /\ pc' = "closed" /\ ret' = "none" /\ NoHandle
  /\ UNCHANGED <<file, op, nextGen, ghost, faults, crashes>>

Crash == crashes < MaxCrashes /\ crashes' = crashes + 1
\* A new process starts its generation counter again and holds no references.
ProcessGone ==
  /\ pc' = "closed" /\ op' = NoOp /\ ret' = "none"
  /\ NoHandle /\ nextGen' = 1 /\ issued' = {}
  /\ UNCHANGED <<acked, pending, faults>>

\* The process ends by itself: on a stop signal, on an unhealthy journal
\* (stop_if_persistence_unhealthy), or when it cannot open one.
Exit == /\ pc = "idle" \/ (pc = "closed" /\ ret = "io")
        /\ ProcessGone /\ UNCHANGED <<file, crashes>>

\* The process dies; the page cache survives it.
Kill == Crash /\ ProcessGone /\ UNCHANGED file

\* The machine loses power: an unsynced entry may be gone, and each of header
\* and body is one of those written since the last sync.
PowerLoss ==
  /\ Crash /\ ProcessGone
  /\ \/ /\ linked = "entry" /\ linked' = "absent"
        /\ hdr' = NoHdr /\ body' = EmptyBody
     \/ /\ UNCHANGED linked
        /\ hdr' \in hdrs /\ body' \in bodies
  /\ hdrs' = {hdr'} /\ bodies' = {body'}

\* recover_active_journal: a file that cannot be opened is moved aside whole,
\* its salvage goes to a segment, a fresh synced file takes its name.
Rotate ==
  /\ pc = "closed" /\ ret \in Localized
  /\ linked' = "durable"
  /\ hdr' = EmptyHdr /\ body' = EmptyBody /\ hdrs' = {EmptyHdr} /\ bodies' = {EmptyBody}
  /\ acked' = Nothing /\ pending' = {}
  /\ ret' = "none"
  /\ UNCHANGED <<pc, op, handle, nextGen, issued, faults, crashes>>

Step ==
  \/ InitHeader \/ InitSync \/ Inspect \/ SyncRoot
  \/ AppendHeader \/ AppendFrame \/ AppendPart \/ AppendSync
  \/ RollbackTruncate \/ RollbackHeader \/ RollbackSync
  \/ WriteMarker \/ SyncMarker \/ EmptyHeader \/ SyncEmpty \/ TruncateBody \/ FinalSync

Next ==
  \/ \E m \in MaxLens : Open(m)
  \/ \E i \in SegIds, p \in Parts : AppendCall(i, p)
  \/ ResetCall
  \/ Step
  \/ Drop \/ Exit \/ Kill \/ PowerLoss \/ Rotate

Spec == Init /\ [][Next]_vars

\* System calls return, a collector that stopped is started again, it leaves an
\* unhealthy journal and rotates one it cannot open.  Whether the journal is
\* used is up to the collector: no fairness of appends and resets.
Fairness ==
  /\ WF_vars(Step)
  /\ WF_vars(\E m \in MaxLens : Open(m))
  /\ WF_vars(Exit /\ (pc = "closed" \/ poisoned))
  /\ WF_vars(Rotate)
FairSpec == Spec /\ Fairness

-----------------------------------------------------------------------------
(* Properties *)

Allowed == {acked} \cup pending
Headers == hdrs \cup {hdr}
Bodies == bodies \cup {body}

\* Whatever a crash leaves, Journal::open accepts only the acknowledged content
\* or one that an unfinished call asked for: never a part of a frame, never an
\* identity without its frame.
FailClosed ==
  \A h \in Headers, b \in Bodies :
    OpenVerdict(h, b) = "ok" /\ ~ResetCommitted(h, b) => Content(h, b.frames) \in Allowed

\* Whatever a crash leaves, opening or salvaging the file gives the
\* acknowledged content or one that an unfinished call asked for.  A header of
\* which only a part was written names no segment; its frames stay evidence.
NothingLost ==
  \A h \in Headers, b \in Bodies :
    h.kind \notin {"torn", "mixed"} => Recovered(h, b) \in Allowed

\* Acknowledged windows come back after any crash, whatever else comes back,
\* until a reset is asked for.
AckedSurvives ==
  \A h \in Headers, b \in Bodies :
    h.kind \notin {"torn", "mixed"} /\ acked # Nothing /\ Nothing \notin pending =>
      /\ Recovered(h, b).id = acked.id
      /\ acked.parts = SubSeq(Recovered(h, b).parts, 1, Len(acked.parts))

Healthy == pc = "idle" /\ ~poisoned

\* Between calls a healthy handle knows exactly what the file holds, after any
\* number of failed and rolled back calls.
HandleMatchesFile ==
  Healthy =>
    /\ hdr = CurrentHeader /\ body.tail = NoTail /\ end = FileLen(hdr, body)
    /\ parts = RefsOf(body.frames, gen)

\* What a healthy handle shows is on disk, so a power loss gives it back.
HealthyIsDurable == Healthy => hdrs = {hdr} /\ bodies = {body}

\* check_part_ref
CheckPartRef(r) ==
  /\ ~poisoned
  /\ r.gen = gen
  /\ \E i \in DOMAIN parts : parts[i] = r
  /\ r.offset >= HeaderLen + FrameHeaderLen /\ r.offset + r.len <= end

\* A reference that is accepted reads the part it was handed out for, though
\* resets and reopens put other parts at the same place.
RefsReadTheirPart ==
  pc = "idle" => \A x \in issued : CheckPartRef(x.ref) =>
    \E i \in DOMAIN body.frames :
      /\ body.frames[i].at + FrameHeaderLen = x.ref.offset
      /\ body.frames[i].len = FrameHeaderLen + x.ref.len
      /\ body.frames[i].part = x.part

\* max_journal_len bounds the physical file under an open handle, the reset
\* marker included.
PhysicalCap ==
  pc \notin {"closed", "init_header", "init_sync", "inspect"} => FileLen(hdr, body) <= max

\* A journal this process filled can always be reset.
ResetFits == Healthy /\ ~adopted /\ parts # <<>> => end + MarkerLen <= max

\* Nothing is acknowledged while the name of the file may still vanish.
EntryDurable == acked # Nothing \/ pending # {} => linked = "durable"

\* A poisoned handle never touches the file again.
PoisonedFrozen == [][poisoned /\ poisoned' => UNCHANGED <<hdr, body>>]_vars

\* A reset whose marker is on disk is finished, by this process or by a later
\* open, unless the file is rotated away.
CommittedResetCompletes ==
  (\A h \in hdrs, b \in bodies : ResetCommitted(h, b)) ~> (hdr = EmptyHdr /\ body = EmptyBody)

=============================================================================
