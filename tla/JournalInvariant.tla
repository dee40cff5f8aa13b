--------------------------- MODULE JournalInvariant ---------------------------
(***************************************************************************)
(* The invariants behind the theorems about Journal.  For every system     *)
(* call of an append, a rollback or a reset: how far the file has departed *)
(* from what the handle remembers (IInv), how long it is (Capped), what    *)
(* acknowledged windows rest on (AInv), and what a restart over any of the *)
(* headers and bodies that the disk may keep would find (DInv).            *)
(***************************************************************************)
EXTENDS Journal

\* A header that names its kind completely is whole; an active one names a segment.
HdrOk(h) == (h.kind = "empty" => h = EmptyHdr) /\ (h.kind = "active" => h.id \in SegIds)

\* Frames lie one behind the other, each longer than its header; a tail has bytes.
BodyOk(b) ==
  /\ b.tail # NoTail => b.tail.len > 0
  /\ \A i \in DOMAIN b.frames :
       /\ b.frames[i].at >= HeaderLen /\ b.frames[i].len > FrameHeaderLen
       /\ \A j \in DOMAIN b.frames :
            i < j => b.frames[i].at + b.frames[i].len <= b.frames[j].at
FileOk == (\A h \in Headers : HdrOk(h)) /\ (\A b \in Bodies : BodyOk(b))

Appending == {"append_header", "append_frame", "append_part", "append_sync"}
RollingBack == {"rollback_truncate", "rollback_header", "rollback_sync"}
Marking == {"write_marker", "sync_marker"}
Finishing == {"empty_header", "sync_empty", "truncate", "final_sync"}

\* A handle is open.
Serving ==
  \/ pc \in {"idle"} \cup Appending \cup RollingBack \cup Marking
  \/ pc \in Finishing /\ op.kind = "reset"

OpByPc ==
  /\ pc \in {"closed", "idle"} => op = NoOp
  /\ pc \in {"init_header", "init_sync", "inspect", "sync_root"} => op.kind = "open"
  /\ pc \in Appending => op.kind = "append"
  /\ pc \in RollingBack => op.kind \in {"append", "reset"}
  /\ pc \in Marking => op.kind = "reset"
  /\ pc \in Finishing => op.kind \in {"open", "reset"}
  /\ op.kind = "append" => \E p \in Parts : op.part = <<p>>
  /\ op.kind = "append" => op.id \in SegIds /\ seg \in {NoId, op.id}

\* The frames the handle knows are the first frames of the file.
Known ==
  /\ Len(parts) <= Len(body.frames)
  /\ \A i \in DOMAIN parts :
       /\ parts[i].offset = body.frames[i].at + FrameHeaderLen
       /\ parts[i].len = body.frames[i].len - FrameHeaderLen
       /\ parts[i].gen = gen
  /\ end = IF parts = <<>> THEN HeaderLen
           ELSE parts[Len(parts)].offset + parts[Len(parts)].len
NoMore == Len(body.frames) = Len(parts)
OneMore == Len(body.frames) = Len(parts) + 1
\* The file holds the frame being appended behind them.
HoldsNew == OneMore /\ body.frames[Len(body.frames)] = NewFrame
Unchanged == Known /\ NoMore /\ body.tail = NoTail /\ hdr = CurrentHeader

FileByPc ==
  /\ pc = "idle" /\ ~poisoned => Unchanged
  /\ pc = "append_header" => Known /\ body.tail = NoTail
       /\ IF parts = <<>> THEN NoMore ELSE HoldsNew
  /\ pc \in {"append_frame", "append_part"} => Known /\ NoMore
       /\ (parts = <<>> => hdr = NewHeader)
  /\ pc = "append_sync" => Known /\ HoldsNew /\ body.tail = NoTail /\ hdr = NewHeader
  /\ pc = "rollback_truncate" => Known
       /\ (NoMore \/ (OneMore /\ body.frames[Len(body.frames)].at = end))
  /\ pc \in {"rollback_header", "rollback_sync"} => Known /\ NoMore /\ body.tail = NoTail
  /\ pc = "rollback_sync" => hdr = CurrentHeader
  /\ pc = "write_marker" => Unchanged
  /\ pc = "sync_marker" => Known /\ NoMore
  /\ pc \in {"sync_empty", "truncate", "final_sync"} => hdr = EmptyHdr
  /\ pc = "final_sync" => body = EmptyBody
  /\ pc = "sync_root" => OpenVerdict(hdr, body) = "ok"

HandleOk ==
  Serving =>
    /\ linked = "durable"
    /\ gen < nextGen /\ (op.kind = "reset" => gen < nextGen - 1)
    /\ \A x \in issued : x.ref.gen <= gen
    /\ poisoned => pc = "idle"
    /\ ~poisoned => (seg = NoId <=> parts = <<>>)
    /\ ~poisoned /\ ~adopted /\ parts # <<>> => end + MarkerLen <= max
    /\ pc \in Appending => ~adopted /\ FrameFits(op.part[1])
    /\ pc \notin Finishing /\ ~poisoned => \A x \in issued : x.ref.gen = gen =>
         \E i \in DOMAIN parts : parts[i] = x.ref /\ body.frames[i].part = x.part

IInv ==
  /\ TypeOK
  /\ FileOk
  /\ OpByPc /\ FileByPc /\ HandleOk
  /\ ~Serving => ~poisoned
  /\ \A x \in issued : x.ref.gen < nextGen
  /\ EntryDurable

-----------------------------------------------------------------------------
(* The cap on the physical file. *)

BodyEnd(b) == FramesEnd(b.frames) + b.tail.len

\* A marker stands in front of a header that was whole.
NamesHeader(b) == b.tail.kind = "marker" => b.tail.prev.kind \in {"empty", "active"}

\* What the file holds, and what the handle would cut it back to, stay within the cap.
Capped ==
  /\ pc \notin {"closed", "init_header", "init_sync", "inspect"} => BodyEnd(body) <= max
  /\ Serving /\ ~poisoned => end <= max
  /\ pc = "write_marker" => MarkerFits
  /\ \A b \in Bodies : NamesHeader(b)

-----------------------------------------------------------------------------
(* What acknowledged windows rest on, whatever the disk keeps of unsynced writes. *)

\* The content the handle shows.
HeldParts == [i \in DOMAIN parts |-> body.frames[i].part]
Held == IF parts = <<>> THEN Nothing ELSE [id |-> seg, parts |-> HeldParts]

\* The call being served has asked for its outcome.
Asked ==
  /\ op.kind = "append" => [id |-> op.id, parts |-> Append(HeldParts, op.part[1])] \in pending
  /\ op.kind = "reset" => Nothing \in pending

\* Windows are acknowledged and no reset is asked for: the caller is owed them.
Owed == acked # Nothing /\ Nothing \notin pending

\* A header that keeps content c is whole and names its segment, or is torn; a
\* body that keeps it begins with its windows and commits no reset.
KeepsId(h, c) == h.kind \in {"active", "torn"} /\ (h.kind = "active" => h.id = c.id)
KeepsParts(b, c) ==
  /\ b.tail.kind # "marker" /\ Len(c.parts) <= Len(b.frames)
  /\ \A i \in 1..Len(c.parts) : b.frames[i].part = c.parts[i]

\* Every header and every body a crash may leave keeps the windows owed, and a
\* handle that writes knows at least these.
Owes ==
  Owed =>
    /\ \A h \in Headers : KeepsId(h, acked)
    /\ \A b \in Bodies : KeepsParts(b, acked)
    /\ Serving /\ ~poisoned => seg = acked.id /\ Len(acked.parts) <= Len(parts)

\* The file at the steps that lead to a first header or past a marker.
Committing ==
  /\ linked = "absent" => pc = "closed" /\ hdr = NoHdr /\ hdrs = {NoHdr}
  /\ pc = "init_header" => hdr = NoHdr
  /\ pc \in Marking => parts # <<>>
  /\ pc = "sync_marker" => hdr = CurrentHeader /\ body.tail = MarkerTail(CurrentHeader)
  /\ pc = "empty_header" => body.tail.kind = "marker"

AInv ==
  /\ IInv
  /\ acked.parts = <<>> => acked = Nothing
  /\ Committing /\ Asked /\ Owes

-----------------------------------------------------------------------------
(* What the disk may keep when a file is written back before it is opened again. *)

\* Between the last sync of a call and the next call nothing is left to lose.
Clean ==
  pc \in {"inspect", "sync_root"} \/ (pc = "idle" /\ ~poisoned) =>
    hdrs = {hdr} /\ bodies = {body}

\* A header of which only a part was written names no segment.
Whole(h) == h.kind \notin {"torn", "mixed"}
\* A restart over this file finds a content the caller knows of.
Safe(h, b) ==
  /\ Whole(h) => Recovered(h, b) \in Allowed
  /\ ResetCommitted(h, b) => Nothing \in Allowed

\* Whatever a power loss leaves now is safe.
SafeFile == \A h \in Headers, b \in Bodies : Safe(h, b)

\* During a call every header is of the old or of the new segment, every body
\* holds the frames the handle knows and at most the one being appended.
OldOrNewHeader(h) ==
  /\ h.kind \in {"active", "torn"} \/ (parts = <<>> /\ h.kind \in {"empty", "mixed"})
  /\ h.kind = "active" => h.id = seg \/ (op.kind = "append" /\ h.id = op.id)
OldOrNewBody(b) ==
  /\ \A i \in 1..Len(parts) : b.frames[i].part = body.frames[i].part
  /\ \/ Len(b.frames) = Len(parts)
     \/ /\ op.kind = "append" /\ Len(b.frames) = Len(parts) + 1
        /\ b.frames[Len(parts) + 1].part = op.part[1]
  /\ b.tail.kind = "marker" => op.kind = "reset"
OldOrNew ==
  /\ Held \in Allowed
  /\ \A h \in Headers : OldOrNewHeader(h)
  /\ \A b \in Bodies : OldOrNewBody(b)

\* A committed reset, or the first header of a new file: nothing comes back.
EmptyAhead ==
  /\ Nothing \in Allowed
  /\ \A h \in Headers, b \in Bodies : Whole(h) => Recovered(h, b) = Nothing

DInv ==
  /\ AInv
  /\ Clean
  /\ SafeFile
  /\ pc \in Appending \cup RollingBack \cup Marking => OldOrNew
  /\ pc \in Finishing \cup {"init_header", "init_sync"} => EmptyAhead

-----------------------------------------------------------------------------
(* The promise Journal implements. *)

Log == INSTANCE AtomicLog WITH log <- Recovered(hdr, body), settled <- acked, asked <- pending
\* The journal keeps the promise of AtomicLog across faults and crashes.
ImplementsAtomicLog == Log!Spec
=============================================================================
