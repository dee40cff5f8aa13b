-------------------------- MODULE JournalDurability --------------------------
(***************************************************************************)
(* What a crash may leave of the journal, for every value of the           *)
(* constants: the cap on the physical file, acknowledged windows under any *)
(* order of write-back, and, where a file is written back before it is     *)
(* opened again, that a restart finds only contents the caller knows of    *)
(* and that Journal implements AtomicLog.                                  *)
(***************************************************************************)
EXTENDS JournalProofs

USE LengthsAssumption, ConfigAssumption, IdAssumption, FailureAssumption, BoundsAssumption
    DEF LengthsAssumption, ConfigAssumption, IdAssumption, FailureAssumption, BoundsAssumption

-----------------------------------------------------------------------------
(* The cap. *)

\* A file is never longer than its frames and its tail.
LEMMA FileLenBound ==
  ASSUME NEW h \in HdrType, NEW b \in BodyType, BodyOk(b)
  PROVE  /\ FramesEnd(b.frames) \in Nat /\ FramesEnd(b.frames) >= HeaderLen
         /\ BodyEnd(b) \in Nat /\ FileLen(h, b) <= BodyEnd(b)
         /\ h.kind \notin {"none", "short"} => FileLen(h, b) = BodyEnd(b)
<1>1. FramesEnd(b.frames) \in Nat
  BY FramesEndType
<1>2. FramesEnd(b.frames) >= HeaderLen
  <2>1. CASE b.frames = <<>>
    BY <2>1 DEF FramesEnd
  <2>2. CASE b.frames # <<>>
    BY <2>2, LastFrame DEF FramesEnd, BodyOk, FrameType
  <2> QED BY <2>1, <2>2
<1>3. b.tail.len \in Nat
  BY DEF BodyType, TailType
<1> QED BY <1>1, <1>2, <1>3 DEF BodyEnd, FileLen

\* The frames the handle knows and no others end at `end`.
LEMMA KnownFramesEnd ==
  ASSUME TypeOK, Known, NEW b \in BodyType, Len(b.frames) = Len(parts),
         \A i \in 1..Len(parts) : b.frames[i] = body.frames[i]
  PROVE  FramesEnd(b.frames) = end
<1>1. b.frames = <<>> <=> parts = <<>>
  <2>1. b.frames \in Seq(FrameType)
    BY DEF BodyType
  <2> QED BY <2>1, PartsType, EmptySeq
<1>2. CASE parts = <<>>
  BY <1>1, <1>2 DEF FramesEnd, Known
<1>3. CASE parts # <<>>
  <2> DEFINE n == Len(parts)
  <2>1. n \in 1..n /\ n \in DOMAIN parts /\ n \in 1..Len(body.frames)
    BY <1>3, PartsType DEF Known
  <2>2. b.frames[n] = body.frames[n] /\ body.frames[n] \in FrameType
    BY <2>1, PartsType
  <2>3. end = parts[n].offset + parts[n].len
    BY <1>3 DEF Known
  <2>4. parts[n].offset = body.frames[n].at + FrameHeaderLen /\ parts[n].len = body.frames[n].len - FrameHeaderLen
    BY <2>1 DEF Known
  <2>5. FramesEnd(b.frames) = b.frames[n].at + b.frames[n].len
    BY <1>1, <1>3 DEF FramesEnd
  <2> QED BY <2>2, <2>3, <2>4, <2>5 DEF FrameType
<1> QED BY <1>2, <1>3

NotOpen == {"closed", "init_header", "init_sync", "inspect"}

\* A marker is only ever written in front of a header that stands.
LEMMA MarkersNameHeaders ==
  ASSUME [Next]_vars, \A b \in Bodies : NamesHeader(b)
  PROVE  \A b \in Bodies' : NamesHeader(b)
<1>1. \A fs : /\ \A n : NamesHeader(Body(fs, ShortTail(n))) /\ NamesHeader(Body(fs, BadTail(n)))
              /\ NamesHeader(Body(fs, NoTail)) /\ NamesHeader(Body(fs, MarkerTail(CurrentHeader)))
  BY DEF NamesHeader, Body, ShortTail, BadTail, NoTail, MarkerTail, CurrentHeader, EmptyHdr, ActiveHdr
<1>2. NamesHeader(EmptyBody) /\ NamesHeader(Truncated(body, end))
  BY <1>1 DEF EmptyBody, Truncated
<1>3. \A b \in bodies \cup {body} : NamesHeader(b)
  BY DEF Bodies
<1> SUFFICES \A b \in bodies' \cup {body'} : NamesHeader(b)
  BY DEF Bodies
<1>4. ASSUME NEW m \in MaxLens, Open(m) PROVE \A b \in bodies' \cup {body'} : NamesHeader(b)
  BY <1>3, <1>4 DEF Open, Sync
<1>5. CASE AppendFrame
  BY <1>1, <1>3, <1>5 DEF AppendFrame, WriteBody
<1>6. CASE AppendPart
  <2> DEFINE b1 == Body(Append(body.frames, NewFrame), NoTail)
             b2 == Body(body.frames, BadTail(NewFrame.len))
  <2>1. NamesHeader(b1) /\ NamesHeader(b2)
    BY <1>1
  <2> HIDE DEF b1, b2
  <2>2. (body' = b1 /\ bodies' = bodies \cup {b1} \cup {b2}) \/ UNCHANGED <<body, bodies>>
    BY <1>6 DEF AppendPart, WriteBody, b1, b2
  <2> QED BY <1>3, <2>1, <2>2
<1>7. CASE RollbackTruncate
  BY <1>2, <1>3, <1>7 DEF RollbackTruncate, WriteBody
<1>8. CASE WriteMarker
  BY <1>1, <1>3, <1>8 DEF WriteMarker, WriteBody
<1>9. CASE TruncateBody
  BY <1>2, <1>3, <1>9 DEF TruncateBody, WriteBody
<1>10. CASE PowerLoss \/ Rotate
  BY <1>2, <1>3, <1>10 DEF PowerLoss, Rotate
<1>11. CASE AppendHeader \/ AppendSync \/ RollbackHeader \/ RollbackSync \/ SyncMarker \/ EmptyHeader
            \/ SyncEmpty \/ FinalSync
  BY <1>3, <1>11
     DEF AppendHeader, AppendSync, RollbackHeader, RollbackSync, SyncMarker, EmptyHeader, SyncEmpty, FinalSync, Sync
<1>12. CASE InitHeader \/ InitSync \/ Inspect \/ SyncRoot
  BY <1>3, <1>12 DEF InitHeader, InitSync, Inspect, SyncRoot, Sync, file
<1>13. CASE Drop \/ Exit \/ Kill \/ ResetCall \/ UNCHANGED vars
  BY <1>3, <1>13 DEF Drop, Exit, Kill, ResetCall, vars, file
<1>14. ASSUME NEW i \in SegIds, NEW p \in Parts, AppendCall(i, p)
       PROVE  \A b \in bodies' \cup {body'} : NamesHeader(b)
  BY <1>3, <1>14 DEF AppendCall, file
<1> QED
  BY <1>4, <1>5, <1>6, <1>7, <1>8, <1>9, <1>10, <1>11, <1>12, <1>13, <1>14 DEF Next, Step

\* Nothing of the file or the handle grows.
LEMMA CapKept ==
  ASSUME Capped, UNCHANGED <<body, max>>,
         \A b \in Bodies' : NamesHeader(b),
         pc' \notin NotOpen => pc \notin NotOpen,
         Serving' /\ ~poisoned' => Serving /\ ~poisoned /\ end' = end,
         pc' = "write_marker" => MarkerFits'
  PROVE  Capped'
BY DEF Capped, NotOpen

LEMMA NotOpenKeepsCap ==
  ASSUME pc' \in NotOpen,
         \A b \in Bodies' : NamesHeader(b)
  PROVE  Capped'
BY DEF NotOpen, Capped, Serving, Appending, RollingBack, Marking, Finishing

LEMMA InspectKeepsCap ==
  ASSUME IInv, Capped, Inspect,
         \A b \in Bodies' : NamesHeader(b)
  PROVE  Capped'
<1>1. CASE pc' \in NotOpen
  BY <1>1, NotOpenKeepsCap
<1>2. CASE pc' \notin NotOpen
  <2>1. /\ FileLen(hdr, body) <= max /\ UNCHANGED <<body, max, op>>
        /\ pc' \in {"empty_header", "sync_root"}
        /\ ResetCommitted(hdr, body) \/ OpenVerdict(hdr, body) = "ok"
    BY <1>2 DEF Inspect, Refuse, file, handle, NotOpen
  <2>2. hdr.kind \notin {"none", "short"}
    <3>1. ASSUME ResetCommitted(hdr, body) PROVE hdr.kind \notin {"none", "short"}
      <4>1. hdr \in {body.tail.prev, Mixed(body.tail.prev), EmptyHdr} /\ body.tail.kind = "marker"
        BY <3>1 DEF ResetCommitted
      <4>2. body.tail.prev.kind \in {"empty", "active"} /\ body.tail.prev \in HdrType
        BY <4>1 DEF Capped, NamesHeader, Bodies, IInv, TypeOK, BodyType, TailType
      <4> QED BY <4>1, <4>2 DEF Mixed, EmptyHdr, HdrType
    <3>2. ASSUME OpenVerdict(hdr, body) = "ok" PROVE hdr.kind \notin {"none", "short"}
      BY <3>2 DEF OpenVerdict
    <3> QED BY <2>1, <3>1, <3>2
  <2>3. FileLen(hdr, body) = BodyEnd(body)
    BY <2>2, FileLenBound DEF IInv, TypeOK, FileOk, Bodies
  <2>4. ~Serving'
    <3>1. op.kind = "open"
      BY DEF IInv, OpByPc, Inspect
    <3> QED BY <2>1, <3>1 DEF Serving, Appending, RollingBack, Marking, Finishing
  <2>5. BodyEnd(body') <= max'
    BY <2>1, <2>3
  <2> QED BY <2>1, <2>4, <2>5 DEF Capped
<1> QED BY <1>1, <1>2

LEMMA SyncRootKeepsCap ==
  ASSUME IInv, Capped, SyncRoot,
         \A b \in Bodies' : NamesHeader(b)
  PROVE  Capped'
<1>1. CASE Opened
  <2>1. UNCHANGED <<body, max>> /\ BodyEnd(body) <= max /\ pc' = "idle"
    BY <1>1 DEF SyncRoot, Capped, Opened, Return
  <2>2. end' = FileLen(hdr, body)
    BY <1>1 DEF Opened
  <2>3. end' <= max' /\ BodyEnd(body') <= max'
    <3>1. FileLen(hdr, body) <= BodyEnd(body) /\ FileLen(hdr, body) \in Nat /\ BodyEnd(body) \in Nat
      BY FileLenBound, FileLenType DEF IInv, TypeOK, FileOk, Bodies
    <3> QED BY <2>1, <2>2, <3>1 DEF IInv, TypeOK
  <2> QED BY <2>1, <2>3 DEF Capped
<1>2. CASE ~Opened
  BY <1>2, NotOpenKeepsCap DEF SyncRoot, Refuse, NotOpen
<1> QED BY <1>1, <1>2

LEMMA AppendKeepsCap ==
  ASSUME IInv, IInv', Capped, AppendHeader \/ AppendFrame \/ AppendPart \/ AppendSync,
         \A b \in Bodies' : NamesHeader(b)
  PROVE  Capped'
<1>0. /\ TypeOK /\ TypeOK' /\ BodyOk(body) /\ BodyOk(body') /\ Known /\ Serving
      /\ FrameFits(op.part[1]) /\ ~poisoned
  BY DEF IInv, FileOk, Bodies, FileByPc, HandleOk, Serving, Appending, AppendHeader, AppendFrame, AppendPart,
         AppendSync
<1>1. PICK p \in Parts : op.part = <<p>>
  BY DEF IInv, OpByPc, Appending, AppendHeader, AppendFrame, AppendPart, AppendSync
<1>2. /\ NewFrame.at = end /\ NewFrame.len = FrameHeaderLen + PartLen[p] /\ PartLen[p] \in Nat \ {0}
      /\ end \in Nat /\ max \in Nat /\ end + FrameHeaderLen + PartLen[p] + MarkerLen <= max
      /\ NewFrame \in FrameType
  BY <1>0, <1>1 DEF NewFrame, Frame, FrameFits, TypeOK, FrameType
<1>3. UNCHANGED max /\ pc' \notin NotOpen /\ pc' # "write_marker"
  BY DEF AppendHeader, AppendFrame, AppendPart, AppendSync, Fail, Return, handle, NotOpen
<1>4. CASE UNCHANGED <<body, end>>
  BY <1>0, <1>3, <1>4, CapKept
     DEF Capped, AppendHeader, AppendFrame, AppendPart, AppendSync, Appending, Serving, NotOpen
<1>5. CASE AppendFrame /\ body' # body
  <2>1. body' = Body(body.frames, ShortTail(FrameHeaderLen)) /\ UNCHANGED end
    BY <1>5 DEF AppendFrame, WriteBody, handle
  <2>2. FramesEnd(body.frames) = end
    BY <1>0, <1>5, KnownFramesEnd DEF IInv, FileByPc, NoMore, AppendFrame, TypeOK
  <2>3. BodyEnd(body') = end + FrameHeaderLen
    BY <2>1, <2>2 DEF BodyEnd, Body, ShortTail
  <2> QED BY <1>2, <1>3, <2>1, <2>3 DEF Capped
<1>6. CASE AppendPart /\ body' # body
  <2>1. body' = Body(Append(body.frames, NewFrame), NoTail) /\ UNCHANGED end
    BY <1>6 DEF AppendPart, WriteBody, handle
  <2>2. Len(body'.frames) = Len(parts) + 1 /\ body'.frames[Len(body'.frames)] = NewFrame /\ body'.tail = NoTail
    BY <1>0, <1>1, <1>6, <2>1, FrameAppended DEF IInv, FileByPc, AppendPart
  <2>3. body'.frames # <<>>
    BY <1>0, <2>2, PartsType, EmptySeq
  <2>4. BodyEnd(body') = end + FrameHeaderLen + PartLen[p]
    BY <1>2, <2>2, <2>3 DEF BodyEnd, FramesEnd, NoTail
  <2> QED BY <1>2, <1>3, <2>1, <2>4 DEF Capped
<1>7. CASE AppendSync /\ end' # end
  <2>1. end' = end + NewFrame.len /\ UNCHANGED body
    BY <1>7 DEF AppendSync
  <2>2. BodyEnd(body) <= max
    BY <1>7 DEF Capped, AppendSync
  <2> QED BY <1>2, <1>3, <2>1, <2>2 DEF Capped
<1> QED BY <1>4, <1>5, <1>6, <1>7 DEF AppendHeader, AppendFrame, AppendPart, AppendSync, handle

LEMMA CallKeepsCap ==
  ASSUME IInv, Capped, ResetCall \/ \E i \in SegIds, p \in Parts : AppendCall(i, p),
         \A b \in Bodies' : NamesHeader(b)
  PROVE  Capped'
<1>1. /\ UNCHANGED <<body, max, end, poisoned>> /\ pc = "idle" /\ Serving
      /\ pc' \in {"idle", "append_header", "append_frame", "write_marker"}
      /\ pc' = "write_marker" => MarkerFits
  BY DEF ResetCall, AppendCall, file, handle, Serving
<1>2. pc' = "write_marker" => MarkerFits'
  BY <1>1 DEF MarkerFits
<1> QED BY <1>1, <1>2, CapKept DEF NotOpen

LEMMA RollbackKeepsCap ==
  ASSUME IInv, Capped, RollbackTruncate \/ RollbackHeader \/ RollbackSync,
         \A b \in Bodies' : NamesHeader(b)
  PROVE  Capped'
<1>1. /\ TypeOK /\ BodyOk(body) /\ Known /\ Serving /\ ~poisoned
      /\ end \in Nat /\ max \in Nat
  BY DEF IInv, FileOk, Bodies, FileByPc, HandleOk, Serving, RollingBack, RollbackTruncate, RollbackHeader,
         RollbackSync, TypeOK
<1>2. UNCHANGED <<max, end>> /\ pc' \in {"idle", "rollback_header", "rollback_sync"}
  BY DEF RollbackTruncate, RollbackHeader, RollbackSync, Poison, Return
<1>3. CASE UNCHANGED body
  BY <1>1, <1>2, <1>3, CapKept DEF NotOpen, RollbackTruncate, RollbackHeader, RollbackSync
<1>4. CASE RollbackTruncate /\ body' = Truncated(body, end)
  <2> DEFINE b == Truncated(body, end)
  <2>1. /\ b \in BodyType /\ BodyOk(b) /\ b.tail = NoTail /\ Len(b.frames) = Len(parts)
        /\ \A i \in 1..Len(parts) : b.frames[i] = body.frames[i]
    BY <1>1, <1>4, TruncatedToKnown DEF IInv, FileByPc, RollbackTruncate
  <2> HIDE DEF b
  <2>2. FramesEnd(b.frames) = end
    BY <1>1, <2>1, KnownFramesEnd
  <2>3. BodyEnd(b) = end
    BY <1>1, <2>1, <2>2 DEF BodyEnd, NoTail
  <2>4. end <= max
    BY <1>1 DEF Capped
  <2> QED BY <1>2, <1>4, <2>3, <2>4 DEF Capped, b
<1> QED BY <1>3, <1>4 DEF RollbackTruncate, RollbackHeader, RollbackSync, WriteBody

LEMMA MarkerKeepsCap ==
  ASSUME IInv, Capped, WriteMarker \/ SyncMarker,
         \A b \in Bodies' : NamesHeader(b)
  PROVE  Capped'
<1>1. /\ TypeOK /\ Known /\ NoMore /\ Serving /\ ~poisoned /\ op.kind = "reset"
      /\ end \in Nat /\ max \in Nat /\ end <= max
  BY DEF IInv, FileByPc, HandleOk, OpByPc, Unchanged, Serving, Marking, WriteMarker, SyncMarker, TypeOK, Capped
<1>2. UNCHANGED <<max, end>> /\ pc' \in {"sync_marker", "empty_header", "rollback_truncate"}
  BY DEF WriteMarker, SyncMarker, Fail, handle
<1>3. CASE UNCHANGED body
  BY <1>1, <1>2, <1>3, CapKept DEF NotOpen, WriteMarker, SyncMarker
<1>4. CASE WriteMarker /\ body' # body
  <2>1. FramesEnd(body.frames) = end /\ end + MarkerLen <= max
    BY <1>1, <1>4, KnownFramesEnd DEF WriteMarker, Capped, MarkerFits, NoMore, TypeOK
  <2>2. body' \in {Body(body.frames, MarkerTail(CurrentHeader)), Body(body.frames, ShortTail(1))}
    BY <1>4 DEF WriteMarker, WriteBody
  <2>3. BodyEnd(body') \in {end + MarkerLen, end + 1}
    BY <2>1, <2>2 DEF BodyEnd, Body, MarkerTail, ShortTail
  <2>4. BodyEnd(body') <= max
    BY <1>1, <2>1, <2>3
  <2> QED BY <1>1, <1>2, <2>4 DEF Capped
<1> QED BY <1>3, <1>4 DEF WriteMarker, SyncMarker

LEMMA FinishKeepsCap ==
  ASSUME IInv, Capped, EmptyHeader \/ SyncEmpty \/ TruncateBody \/ FinalSync,
         \A b \in Bodies' : NamesHeader(b)
  PROVE  Capped'
<1>1. CASE pc' \in NotOpen
  BY <1>1, NotOpenKeepsCap
<1>2. CASE pc' \notin NotOpen
  <2>1. /\ pc \in Finishing /\ pc' \in Finishing \cup {"idle"} /\ UNCHANGED max /\ max \in Nat
        /\ pc' = "idle" => op.kind = "reset"
        /\ pc' # "idle" => op' = op
    BY <1>2 DEF EmptyHeader, SyncEmpty, TruncateBody, FinalSync, FinishFails, Return, Refuse, Finishing, NotOpen,
       IInv, TypeOK
  <2>2. op.kind = "reset" => Serving /\ ~poisoned
    BY <2>1 DEF Serving, IInv, HandleOk, Finishing
  <2>3. CASE UNCHANGED <<body, end>>
    BY <1>2, <2>1, <2>2, <2>3, CapKept
       DEF NotOpen, Finishing, Serving, Appending, RollingBack, Marking, IInv, OpByPc
  <2>4. CASE TruncateBody /\ body' # body
    <3>1. body' = EmptyBody /\ BodyEnd(body) <= max /\ UNCHANGED <<end, poisoned, op>>
      BY <2>4 DEF TruncateBody, WriteBody, Capped, FinishFails
    <3>2. BodyEnd(EmptyBody) = HeaderLen /\ BodyEnd(body) >= HeaderLen /\ BodyEnd(body) \in Nat
      <4>1. body \in BodyType /\ BodyOk(body) /\ hdr \in HdrType /\ body.tail.len \in Nat
        BY DEF IInv, TypeOK, FileOk, Bodies, BodyType, TailType
      <4> QED BY <4>1, FileLenBound DEF BodyEnd, EmptyBody, Body, FramesEnd, NoTail
    <3>3. Serving' /\ ~poisoned' => end <= max
      BY <2>1, <2>2, <3>1 DEF Capped, Serving, Appending, RollingBack, Marking, Finishing, TruncateBody
    <3> QED BY <2>1, <3>1, <3>2, <3>3 DEF Capped, Finishing
  <2>5. CASE FinalSync /\ end' # end
    <3>1. end' = HeaderLen /\ UNCHANGED body /\ BodyEnd(body) <= max
      BY <2>5 DEF FinalSync, Capped
    <3>2. BodyEnd(body) >= HeaderLen /\ BodyEnd(body) \in Nat
      <4>1. body \in BodyType /\ BodyOk(body) /\ hdr \in HdrType /\ body.tail.len \in Nat
        BY DEF IInv, TypeOK, FileOk, Bodies, BodyType, TailType
      <4> QED BY <4>1, FileLenBound DEF BodyEnd
    <3> QED BY <2>1, <3>1, <3>2 DEF Capped, Finishing
  <2> QED BY <2>3, <2>4, <2>5 DEF EmptyHeader, SyncEmpty, TruncateBody, FinalSync
<1> QED BY <1>1, <1>2

LEMMA CapPreserved == IInv /\ Capped /\ [Next]_vars => Capped'
<1> SUFFICES ASSUME IInv, Capped, [Next]_vars PROVE Capped'
  OBVIOUS
<1>0. IInv'
  BY NextPreserves
<1>1. \A b \in Bodies' : NamesHeader(b)
  BY MarkersNameHeaders DEF Capped
<1>2. ASSUME NEW m \in MaxLens, Open(m) PROVE Capped'
  BY <1>1, <1>2, NotOpenKeepsCap DEF Open, NotOpen
<1>3. CASE InitHeader \/ InitSync \/ Drop \/ Exit \/ Kill \/ PowerLoss \/ Rotate
  BY <1>1, <1>3, NotOpenKeepsCap DEF InitHeader, InitSync, Drop, Exit, Kill, PowerLoss, Rotate, ProcessGone, Refuse, NotOpen
<1>4. CASE Inspect \/ SyncRoot
  BY <1>1, <1>4, InspectKeepsCap, SyncRootKeepsCap
<1>5. CASE AppendHeader \/ AppendFrame \/ AppendPart \/ AppendSync
  BY <1>0, <1>1, <1>5, AppendKeepsCap
<1>6. CASE RollbackTruncate \/ RollbackHeader \/ RollbackSync
  BY <1>1, <1>6, RollbackKeepsCap
<1>7. CASE WriteMarker \/ SyncMarker
  BY <1>1, <1>7, MarkerKeepsCap
<1>8. CASE EmptyHeader \/ SyncEmpty \/ TruncateBody \/ FinalSync
  BY <1>1, <1>8, FinishKeepsCap
<1>9. CASE ResetCall \/ \E i \in SegIds, p \in Parts : AppendCall(i, p)
  BY <1>1, <1>9, CallKeepsCap
<1>10. CASE UNCHANGED vars
  BY <1>10 DEF vars, file, handle, Capped, Bodies, Serving, MarkerFits
<1> QED BY <1>2, <1>3, <1>4, <1>5, <1>6, <1>7, <1>8, <1>9, <1>10 DEF Next, Step

\* max_journal_len bounds the file under every open handle, whatever fails:
\* a frame is only started, and a marker only written, where both end within it.
THEOREM CapHolds == Spec => []PhysicalCap
<1>1. Init => Capped
  BY DEF Init, Capped, Serving, Appending, RollingBack, Marking, Finishing, Bodies, NamesHeader, EmptyBody, Body, NoTail
<1>2. IInv /\ Capped => PhysicalCap
  <2> SUFFICES ASSUME IInv, Capped, pc \notin NotOpen PROVE FileLen(hdr, body) <= max
    BY DEF PhysicalCap, NotOpen
  <2>1. FileLen(hdr, body) <= BodyEnd(body) /\ FileLen(hdr, body) \in Nat /\ BodyEnd(body) \in Nat
    BY FileLenBound, FileLenType DEF IInv, TypeOK, FileOk, Bodies
  <2> QED BY <2>1 DEF Capped, IInv, TypeOK, NotOpen
<1>3. Spec => []Capped
  BY <1>1, CapPreserved, Inductive, PTL DEF Spec
<1> QED BY <1>2, <1>3, Inductive, PTL

-----------------------------------------------------------------------------
(* What a file shows. *)

LEMMA ContentShape ==
  ASSUME NEW h \in HdrType, NEW b \in BodyType
  PROVE  LET c == Content(h, b.frames) IN
         /\ c.parts \in Seq(Parts) /\ Len(c.parts) = Len(b.frames)
         /\ DOMAIN b.frames = 1..Len(b.frames) /\ Len(b.frames) \in Nat
         /\ \A i \in 1..Len(b.frames) : c.parts[i] = b.frames[i].part
         /\ b.frames # <<>> => c.id = h.id
         /\ b.frames = <<>> <=> Len(b.frames) = 0
         /\ b.frames = <<>> <=> c.parts = <<>>
         /\ c.parts = <<>> => c = Nothing
<1> DEFINE c == Content(h, b.frames)
           ps == [i \in DOMAIN b.frames |-> b.frames[i].part]
<1>1. b.frames \in Seq(FrameType)
  BY DEF BodyType
<1>2. /\ DOMAIN b.frames = 1..Len(b.frames) /\ Len(b.frames) \in Nat
      /\ b.frames = <<>> <=> Len(b.frames) = 0
  BY <1>1, LenProperties, EmptySeq
<1>3. c \in ContentType
  BY ContentOfType
<1>4. CASE b.frames = <<>>
  <2>1. c = Nothing
    BY <1>4 DEF Content
  <2> HIDE DEF c
  <2>2. c.parts = <<>> /\ Len(c.parts) = 0 /\ c.parts \in Seq(Parts)
    BY <2>1, EmptySeq DEF Nothing
  <2> QED BY <1>2, <1>4, <2>1, <2>2 DEF c
<1>5. CASE b.frames # <<>>
  <2>1. c = [id |-> h.id, parts |-> ps]
    BY <1>5 DEF Content
  <2>2. ps \in Seq(Parts)
    BY <1>3, <2>1 DEF ContentType
  <2>3. DOMAIN ps = 1..Len(b.frames) /\ \A i \in 1..Len(b.frames) : ps[i] = b.frames[i].part
    BY <1>2
  <2> HIDE DEF c, ps
  <2>4. c.parts = ps /\ c.id = h.id
    BY <2>1
  <2>5. Len(ps) = Len(b.frames) /\ ps # <<>>
    <3>1. DOMAIN ps = 1..Len(ps) /\ Len(ps) \in Nat /\ (ps = <<>> <=> Len(ps) = 0)
      BY <2>2, LenProperties, EmptySeq
    <3> QED BY <1>2, <1>5, <2>3, <3>1
  <2> QED BY <1>2, <1>5, <2>2, <2>3, <2>4, <2>5 DEF c
<1> QED BY <1>4, <1>5

\* The windows behind the parts the handle knows.
LEMMA HeldPartsType ==
  ASSUME TypeOK, Known
  PROVE  /\ HeldParts \in Seq(Parts) /\ Len(HeldParts) = Len(parts)
         /\ \A i \in 1..Len(parts) : HeldParts[i] = body.frames[i].part
         /\ parts = <<>> => HeldParts = <<>>
<1>1. /\ DOMAIN parts = 1..Len(parts) /\ Len(parts) \in Nat /\ Len(parts) <= Len(body.frames)
      /\ parts = <<>> <=> Len(parts) = 0
      /\ \A i \in 1..Len(body.frames) : body.frames[i] \in FrameType
      /\ Len(body.frames) \in Nat
  BY PartsType DEF Known
<1>2. HeldParts \in [1..Len(parts) -> Parts] /\ \A i \in 1..Len(parts) : HeldParts[i] = body.frames[i].part
  BY <1>1 DEF HeldParts, FrameType
<1>3. HeldParts \in Seq(Parts)
  BY <1>1, <1>2, SeqDef
<1>4. /\ DOMAIN HeldParts = 1..Len(HeldParts) /\ Len(HeldParts) \in Nat
      /\ HeldParts = <<>> <=> Len(HeldParts) = 0
  BY <1>3, LenProperties, EmptySeq
<1> QED BY <1>1, <1>2, <1>3, <1>4

LEMMA HeldKept ==
  ASSUME TypeOK, Known, UNCHANGED parts,
         \A i \in 1..Len(parts) : body'.frames[i].part = body.frames[i].part
  PROVE  HeldParts' = HeldParts
BY PartsType DEF HeldParts

\* A body of exactly the known frames shows what the handle holds.
LEMMA HeldShown ==
  ASSUME TypeOK, Known, NEW h \in HdrType, NEW b \in BodyType,
         Len(b.frames) = Len(parts), \A i \in 1..Len(parts) : b.frames[i].part = body.frames[i].part
  PROVE  /\ Content(h, b.frames).parts = HeldParts
         /\ parts = <<>> \/ h.id = seg => Content(h, b.frames) = Held
<1> DEFINE c == Content(h, b.frames)
<1>1. /\ c.parts \in Seq(Parts) /\ Len(c.parts) = Len(b.frames)
      /\ \A i \in 1..Len(b.frames) : c.parts[i] = b.frames[i].part
      /\ b.frames = <<>> <=> Len(b.frames) = 0
      /\ c.parts = <<>> => c = Nothing
      /\ b.frames = <<>> <=> c.parts = <<>>
  BY ContentShape
<1>2. /\ HeldParts \in Seq(Parts) /\ Len(HeldParts) = Len(parts)
      /\ \A i \in 1..Len(parts) : HeldParts[i] = body.frames[i].part
      /\ parts = <<>> => HeldParts = <<>>
  BY HeldPartsType
<1>3. parts = <<>> <=> Len(parts) = 0
  BY PartsType
<1> HIDE DEF c
<1>4. c.parts = HeldParts
  BY <1>1, <1>2, SeqEqual
<1>5. b.frames # <<>> => c = [id |-> h.id, parts |-> c.parts]
  BY DEF c, Content
<1> QED BY <1>1, <1>2, <1>3, <1>4, <1>5 DEF Held, c

\* A body of one frame more shows one window more.
LEMMA NextShown ==
  ASSUME TypeOK, Known, NEW h \in HdrType, NEW b \in BodyType, NEW p \in Parts,
         Len(b.frames) = Len(parts) + 1, \A i \in 1..Len(parts) : b.frames[i].part = body.frames[i].part,
         b.frames[Len(parts) + 1].part = p
  PROVE  Content(h, b.frames) = [id |-> h.id, parts |-> Append(HeldParts, p)]
<1> DEFINE c == Content(h, b.frames)
           n == Len(parts)
<1>1. /\ c.parts \in Seq(Parts) /\ Len(c.parts) = Len(b.frames)
      /\ \A i \in 1..Len(b.frames) : c.parts[i] = b.frames[i].part
      /\ b.frames = <<>> <=> Len(b.frames) = 0
  BY ContentShape
<1>2. /\ HeldParts \in Seq(Parts) /\ Len(HeldParts) = n
      /\ \A i \in 1..n : HeldParts[i] = body.frames[i].part
  BY HeldPartsType
<1>3. n \in Nat
  BY PartsType
<1>4. /\ Append(HeldParts, p) \in Seq(Parts) /\ Len(Append(HeldParts, p)) = n + 1
      /\ \A i \in 1..n : Append(HeldParts, p)[i] = HeldParts[i]
      /\ Append(HeldParts, p)[n + 1] = p
  BY <1>2, AppendProperties
<1>5. b.frames # <<>> /\ c = [id |-> h.id, parts |-> c.parts]
  <2>1. b.frames # <<>>
    BY <1>1, <1>3
  <2> QED BY <2>1 DEF Content
<1> HIDE DEF c
<1>6. \A i \in 1..Len(c.parts) : c.parts[i] = Append(HeldParts, p)[i]
  <2> SUFFICES ASSUME NEW i \in 1..(n + 1) PROVE c.parts[i] = Append(HeldParts, p)[i]
    BY <1>1
  <2>1. \A k \in 1..n : k \in 1..Len(b.frames)
    BY <1>3
  <2>2. i \in 1..n \/ i = n + 1
    BY <1>3
  <2>3. CASE i \in 1..n
    BY <1>1, <1>2, <1>4, <2>1, <2>3
  <2>4. CASE i = n + 1
    BY <1>1, <1>4, <2>4
  <2> QED BY <2>2, <2>3, <2>4
<1>7. c.parts = Append(HeldParts, p)
  <2>1. Len(c.parts) = Len(Append(HeldParts, p))
    BY <1>1, <1>4
  <2> QED BY <1>1, <1>4, <1>6, <2>1, SeqEqual
<1> QED BY <1>5, <1>7 DEF c

\* A healthy handle between calls holds what the file shows.
LEMMA ShownUnchanged ==
  ASSUME TypeOK, Unchanged
  PROVE  Shown = Held /\ Shown.parts = HeldParts
<1>1. hdr.id = seg
  BY DEF Unchanged, CurrentHeader, EmptyHdr, ActiveHdr
<1> QED BY <1>1, HeldShown DEF Unchanged, NoMore, Shown, TypeOK

-----------------------------------------------------------------------------
(* What a step may do to the file, the call and the promises. *)

\* The steps between a call and its return, up to the commit of a reset.
CallWork ==
  \/ AppendHeader \/ AppendFrame \/ AppendPart \/ AppendSync
  \/ RollbackTruncate \/ RollbackHeader \/ RollbackSync
  \/ WriteMarker \/ SyncMarker
FinishWork == EmptyHeader \/ SyncEmpty \/ TruncateBody \/ FinalSync
OpeningStep == (\E m \in MaxLens : Open(m)) \/ InitHeader \/ InitSync \/ Inspect \/ SyncRoot
CallStart == ResetCall \/ \E i \in SegIds, p \in Parts : AppendCall(i, p)
GoneStep == Drop \/ Exit \/ Kill \/ PowerLoss

LEMMA StepKinds ==
  ASSUME [Next]_vars
  PROVE  CallWork \/ FinishWork \/ OpeningStep \/ CallStart \/ GoneStep \/ Rotate \/ UNCHANGED vars
BY DEF Next, Step, CallWork, FinishWork, OpeningStep, CallStart, GoneStep

\* In a call a handle serves, knows the first frames of the file, and is healthy.
LEMMA InCall ==
  ASSUME IInv, CallWork
  PROVE  /\ TypeOK /\ FileOk /\ BodyOk(body) /\ HdrOk(hdr) /\ Known /\ Serving /\ ~poisoned /\ HandleOk
         /\ linked = "durable" /\ (seg = NoId <=> parts = <<>>)
         /\ op.kind \in {"append", "reset"}
         /\ op.kind = "append" => op.id \in SegIds /\ seg \in {NoId, op.id} /\ \E p \in Parts : op.part = <<p>>
<1>1. /\ TypeOK /\ FileOk /\ BodyOk(body) /\ HdrOk(hdr) /\ HandleOk /\ OpByPc /\ FileByPc
  BY DEF IInv, FileOk, Headers, Bodies
<1>2. pc \in Appending \cup RollingBack \cup Marking
  BY DEF CallWork, AppendHeader, AppendFrame, AppendPart, AppendSync, RollbackTruncate, RollbackHeader,
         RollbackSync, WriteMarker, SyncMarker, Appending, RollingBack, Marking
<1>3. Serving /\ pc # "idle"
  BY <1>2 DEF Serving, Appending, RollingBack, Marking
<1>4. Known
  BY <1>1, <1>2 DEF FileByPc, Appending, RollingBack, Marking, Unchanged
<1>5. ~poisoned /\ (seg = NoId <=> parts = <<>>) /\ linked = "durable"
  BY <1>1, <1>3 DEF HandleOk
<1>6. op.kind \in {"append", "reset"}
  BY <1>1, <1>2 DEF OpByPc
<1> QED BY <1>1, <1>3, <1>4, <1>5, <1>6 DEF OpByPc

\* No step of a call touches the frames the handle knows.
LEMMA CallKeepsFrames ==
  ASSUME IInv, CallWork
  PROVE  /\ Len(parts) <= Len(body'.frames)
         /\ \A i \in 1..Len(parts) : body'.frames[i] = body.frames[i]
<1>1. TypeOK /\ BodyOk(body) /\ Known
  BY InCall
<1>2. /\ Len(parts) \in Nat /\ Len(parts) <= Len(body.frames) /\ Len(body.frames) \in Nat
      /\ body.frames \in Seq(FrameType)
  BY <1>1, PartsType DEF Known, TypeOK, BodyType
<1>3. CASE UNCHANGED body
  BY <1>2, <1>3
<1>4. CASE AppendFrame /\ body' # body
  BY <1>2, <1>4 DEF AppendFrame, WriteBody, Body
<1>5. CASE AppendPart /\ body' # body
  <2> DEFINE b == Body(Append(body.frames, NewFrame), NoTail)
  <2>1. NoMore /\ body' = b
    BY <1>5 DEF IInv, FileByPc, AppendPart, WriteBody
  <2>2. PICK p \in Parts : op.part = <<p>>
    BY <1>5 DEF IInv, OpByPc, AppendPart, Appending
  <2>3. /\ Len(b.frames) = Len(parts) + 1
        /\ \A i \in 1..Len(parts) : b.frames[i] = body.frames[i]
    BY <1>1, <2>1, <2>2, FrameAppended
  <2> QED BY <1>2, <2>1, <2>3
<1>6. CASE RollbackTruncate /\ body' # body
  <2> DEFINE b == Truncated(body, end)
  <2>1. NoMore \/ (OneMore /\ body.frames[Len(body.frames)].at = end)
    BY <1>6 DEF IInv, FileByPc, RollbackTruncate
  <2>2. body' = b
    BY <1>6 DEF RollbackTruncate, WriteBody
  <2>3. Len(b.frames) = Len(parts) /\ \A i \in 1..Len(parts) : b.frames[i] = body.frames[i]
    BY <1>1, <2>1, TruncatedToKnown
  <2> QED BY <1>2, <2>2, <2>3
<1>7. CASE WriteMarker /\ body' # body
  <2>1. body'.frames = body.frames
    BY <1>7 DEF WriteMarker, WriteBody, Body
  <2> QED BY <1>2, <2>1
<1> QED
  BY <1>3, <1>4, <1>5, <1>6, <1>7
     DEF CallWork, AppendHeader, AppendFrame, AppendPart, AppendSync, RollbackTruncate, RollbackHeader,
         RollbackSync, WriteMarker, SyncMarker

\* Promises change only when a call asks, when one settles and when the file is moved away.
LEMMA PromiseStep ==
  ASSUME [Next]_vars
  PROVE  \/ UNCHANGED <<acked, pending>>
         \/ CallStart /\ acked' = acked /\ pending \subseteq pending'
         \/ (AppendSync \/ RollbackSync \/ FinalSync) /\ Sync /\ Settle /\ UNCHANGED faults
         \/ Rotate /\ acked' = Nothing /\ pending' = {}
<1>1. CASE CallWork
  BY <1>1 DEF CallWork, AppendHeader, AppendFrame, AppendPart, AppendSync, RollbackTruncate, RollbackHeader,
         RollbackSync, WriteMarker, SyncMarker, ghost
<1>2. CASE FinishWork
  BY <1>2 DEF FinishWork, EmptyHeader, SyncEmpty, TruncateBody, FinalSync, ghost
<1>3. CASE OpeningStep
  BY <1>3 DEF OpeningStep, Open, InitHeader, InitSync, Inspect, SyncRoot, ghost
<1>4. CASE CallStart
  BY <1>4 DEF CallStart, ResetCall, AppendCall
<1>5. CASE GoneStep
  BY <1>5 DEF GoneStep, Drop, Exit, Kill, PowerLoss, ProcessGone, ghost
<1>6. CASE Rotate \/ UNCHANGED vars
  BY <1>6 DEF Rotate, vars, ghost
<1> QED BY <1>1, <1>2, <1>3, <1>4, <1>5, <1>6, StepKinds

\* What the call asked for stays asked for until the call returns.
LEMMA AskedKept ==
  ASSUME IInv, Asked, [Next]_vars
  PROVE  Asked'
<1>1. CASE CallWork
  <2>1. op' = NoOp \/ UNCHANGED <<op, pending, parts>>
    BY <1>1 DEF CallWork, AppendHeader, AppendFrame, AppendPart, AppendSync, RollbackTruncate, RollbackHeader,
       RollbackSync, WriteMarker, SyncMarker, ghost, handle, Return, Poison, Fail
  <2>2. CASE op' = NoOp
    BY <2>2 DEF Asked, NoOp
  <2>3. CASE UNCHANGED <<op, pending, parts>>
    <3>1. HeldParts' = HeldParts
      BY <1>1, <2>3, InCall, CallKeepsFrames, HeldKept
    <3> QED BY <2>3, <3>1 DEF Asked
  <2> QED BY <2>1, <2>2, <2>3
<1>2. CASE FinishWork
  <2>1. op.kind \in {"open", "reset"}
    BY <1>2 DEF IInv, OpByPc, FinishWork, EmptyHeader, SyncEmpty, TruncateBody, FinalSync, Finishing
  <2>2. op' = NoOp \/ (op' = op /\ (op.kind = "reset" => pending' = pending))
    BY <1>2 DEF FinishWork, EmptyHeader, SyncEmpty, TruncateBody, FinalSync, FinishFails, Return, Refuse, ghost
  <2> QED BY <2>1, <2>2 DEF Asked, NoOp
<1>3. CASE OpeningStep
  <2>1. op'.kind \in {"none", "open"}
    BY <1>3 DEF OpeningStep, Open, InitHeader, InitSync, Inspect, SyncRoot, Refuse, Return, Opened, NoOp,
       IInv, OpByPc
  <2> QED BY <2>1 DEF Asked
<1>4. CASE ResetCall
  <2>1. op = NoOp
    BY <1>4 DEF IInv, OpByPc, ResetCall
  <2>2. (op' = op /\ pending' = pending) \/ (op'.kind = "reset" /\ Nothing \in pending')
    BY <1>4 DEF ResetCall, NoOp
  <2> QED BY <2>1, <2>2 DEF Asked, NoOp
<1>5. ASSUME NEW i \in SegIds, NEW p \in Parts, AppendCall(i, p) PROVE Asked'
  <2>1. op = NoOp
    BY <1>5 DEF IInv, OpByPc, AppendCall
  <2>2. CASE AppendRefusal(i, p) # "ok"
    BY <1>5, <2>1, <2>2 DEF AppendCall, Asked, NoOp
  <2>3. CASE AppendRefusal(i, p) = "ok"
    <3>1. ~poisoned /\ pc = "idle"
      BY <1>5, <2>3 DEF AppendCall, AppendRefusal
    <3>2. Shown.parts = HeldParts
      BY <3>1, ShownUnchanged DEF IInv, FileByPc
    <3>3. op' = [kind |-> "append", id |-> i, part |-> <<p>>] /\ pending' = pending \cup {With(Shown, i, p)}
          /\ UNCHANGED <<parts, body>>
      BY <1>5, <2>3 DEF AppendCall, handle, file
    <3>4. HeldParts' = HeldParts
      BY <3>3 DEF HeldParts
    <3>5. op'.kind = "append" /\ op'.id = i /\ op'.part[1] = p
      BY <3>3
    <3>6. [id |-> i, parts |-> Append(HeldParts, p)] \in pending'
      BY <3>2, <3>3 DEF With
    <3> QED BY <3>4, <3>5, <3>6 DEF Asked
  <2> QED BY <2>2, <2>3
<1>6. CASE GoneStep \/ Rotate
  <2>1. op' = NoOp
    BY <1>6 DEF GoneStep, Drop, Exit, Kill, PowerLoss, ProcessGone, Rotate, IInv, OpByPc
  <2> QED BY <2>1 DEF Asked, NoOp
<1>7. CASE UNCHANGED vars
  BY <1>7 DEF vars, handle, file, ghost, Asked, HeldParts
<1> QED BY <1>1, <1>2, <1>3, <1>4, <1>5, <1>6, <1>7, StepKinds DEF CallStart

LEMMA CommittingKept ==
  ASSUME IInv, IInv', Committing, [Next]_vars
  PROVE  Committing'
<1>1. linked' = "absent" => pc' = "closed" /\ hdr' = NoHdr /\ hdrs' = {NoHdr}
  <2>1. CASE CallWork
    BY <2>1, InCall DEF CallWork, AppendHeader, AppendFrame, AppendPart, AppendSync, RollbackTruncate,
       RollbackHeader, RollbackSync, WriteMarker, SyncMarker
  <2>2. CASE FinishWork
    BY <2>2 DEF FinishWork, EmptyHeader, SyncEmpty, TruncateBody, FinalSync, Committing
  <2>3. CASE OpeningStep
    BY <2>3 DEF OpeningStep, Open, InitHeader, InitSync, Inspect, SyncRoot, RootSynced, Committing, file
  <2>4. CASE CallStart
    BY <2>4 DEF CallStart, ResetCall, AppendCall, Committing, file
  <2>5. CASE GoneStep
    BY <2>5 DEF GoneStep, Drop, Exit, Kill, PowerLoss, ProcessGone, Committing, file
  <2>6. CASE Rotate \/ UNCHANGED vars
    BY <2>6 DEF Rotate, vars, file, Committing
  <2> QED BY <2>1, <2>2, <2>3, <2>4, <2>5, <2>6, StepKinds
<1>2. pc' = "init_header" => hdr' = NoHdr
  <2>1. CASE CallWork
    BY <2>1 DEF CallWork, AppendHeader, AppendFrame, AppendPart, AppendSync, RollbackTruncate,
       RollbackHeader, RollbackSync, WriteMarker, SyncMarker, Fail, Return, Poison
  <2>2. CASE FinishWork
    BY <2>2 DEF FinishWork, EmptyHeader, SyncEmpty, TruncateBody, FinalSync, FinishFails, Return, Refuse
  <2>3. CASE OpeningStep
    BY <2>3 DEF OpeningStep, Open, InitHeader, InitSync, Inspect, SyncRoot, Opened, Return, Refuse, Committing, file
  <2>4. CASE CallStart
    BY <2>4 DEF CallStart, ResetCall, AppendCall, Committing, file
  <2>5. CASE GoneStep
    BY <2>5 DEF GoneStep, Drop, Exit, Kill, PowerLoss, ProcessGone
  <2>6. CASE Rotate \/ UNCHANGED vars
    BY <2>6 DEF Rotate, vars, file, Committing
  <2> QED BY <2>1, <2>2, <2>3, <2>4, <2>5, <2>6, StepKinds
<1>3. pc' = "sync_marker" => hdr' = CurrentHeader' /\ body'.tail = MarkerTail(CurrentHeader')
  <2>1. CASE WriteMarker /\ pc' = "sync_marker"
    <3>1. UNCHANGED <<hdr, seg, end>> /\ body' = Body(body.frames, MarkerTail(CurrentHeader))
      BY <2>1 DEF WriteMarker, WriteBody, Fail, handle
    <3>2. CurrentHeader' = CurrentHeader
      BY <3>1 DEF CurrentHeader
    <3>3. hdr = CurrentHeader
      BY <2>1 DEF IInv, FileByPc, Unchanged, WriteMarker
    <3> QED BY <3>1, <3>2, <3>3 DEF Body
  <2>2. CASE pc' = "sync_marker" /\ ~WriteMarker
    <3>1. UNCHANGED vars
      <4>1. ~CallWork
        BY <2>2 DEF CallWork, AppendHeader, AppendFrame, AppendPart, AppendSync, RollbackTruncate,
           RollbackHeader, RollbackSync, SyncMarker, Fail, Return, Poison
      <4>2. ~FinishWork
        BY <2>2 DEF FinishWork, EmptyHeader, SyncEmpty, TruncateBody, FinalSync, FinishFails, Return, Refuse
      <4>3. ~OpeningStep
        <5>1. ~Inspect
          BY <2>2 DEF Inspect, Refuse
        <5> QED BY <2>2, <5>1 DEF OpeningStep, Open, InitHeader, InitSync, SyncRoot, Opened, Return, Refuse
      <4>4. ~CallStart
        BY <2>2 DEF CallStart, ResetCall, AppendCall
      <4>5. ~GoneStep /\ ~Rotate
        BY <2>2 DEF GoneStep, Drop, Exit, Kill, PowerLoss, ProcessGone, Rotate
      <4> QED BY <4>1, <4>2, <4>3, <4>4, <4>5, StepKinds
    <3> QED BY <2>2, <3>1 DEF vars, file, handle, Committing, CurrentHeader
  <2> QED BY <2>1, <2>2
<1>4. pc' = "empty_header" => body'.tail.kind = "marker"
  <2>1. CASE CallWork
    <3>1. pc' = "empty_header" => SyncMarker
      BY <2>1 DEF CallWork, AppendHeader, AppendFrame, AppendPart, AppendSync, RollbackTruncate,
         RollbackHeader, RollbackSync, WriteMarker, Fail, Return, Poison
    <3> QED BY <3>1 DEF SyncMarker, Committing, MarkerTail
  <2>2. CASE FinishWork
    BY <2>2 DEF FinishWork, EmptyHeader, SyncEmpty, TruncateBody, FinalSync, FinishFails, Return, Refuse
  <2>3. CASE OpeningStep
    <3>1. CASE Inspect
      BY <3>1 DEF Inspect, ResetCommitted, Refuse, file
    <3> QED BY <2>3, <3>1 DEF OpeningStep, Open, InitHeader, InitSync, SyncRoot, Opened, Return, Refuse
  <2>4. CASE CallStart
    BY <2>4 DEF CallStart, ResetCall, AppendCall
  <2>5. CASE GoneStep
    BY <2>5 DEF GoneStep, Drop, Exit, Kill, PowerLoss, ProcessGone
  <2>6. CASE Rotate \/ UNCHANGED vars
    BY <2>6 DEF Rotate, vars, file, Committing
  <2> QED BY <2>1, <2>2, <2>3, <2>4, <2>5, <2>6, StepKinds
<1>5. pc' \in Marking => parts' # <<>>
  <2>1. CASE CallWork
    <3>1. pc' \in Marking => pc \in Marking /\ UNCHANGED parts
      BY <2>1 DEF CallWork, AppendHeader, AppendFrame, AppendPart, AppendSync, RollbackTruncate,
         RollbackHeader, RollbackSync, WriteMarker, SyncMarker, Fail, Return, Poison, Marking, handle
    <3> QED BY <3>1 DEF Committing
  <2>2. CASE FinishWork
    BY <2>2 DEF FinishWork, EmptyHeader, SyncEmpty, TruncateBody, FinalSync, FinishFails, Return, Refuse, Marking
  <2>3. CASE OpeningStep
    <3>1. CASE Inspect
      BY <3>1 DEF Inspect, Refuse, Marking
    <3> QED BY <2>3, <3>1 DEF OpeningStep, Open, InitHeader, InitSync, SyncRoot, Opened, Return, Refuse, Marking
  <2>4. CASE CallStart
    BY <2>4 DEF CallStart, ResetCall, AppendCall, Marking, handle
  <2>5. CASE GoneStep
    BY <2>5 DEF GoneStep, Drop, Exit, Kill, PowerLoss, ProcessGone, Marking
  <2>6. CASE Rotate \/ UNCHANGED vars
    BY <2>6 DEF Rotate, vars, handle, Committing, Marking
  <2> QED BY <2>1, <2>2, <2>3, <2>4, <2>5, <2>6, StepKinds
<1> QED BY <1>1, <1>2, <1>3, <1>4, <1>5 DEF Committing

-----------------------------------------------------------------------------
(* Acknowledged windows. *)

\* A header written over headers that keep the windows owed keeps them, or is torn.
LEMMA KeepsIdWritten ==
  ASSUME NEW c, \A g \in Headers : KeepsId(g, c), NEW h, h.kind = "active", h.id = c.id,
         WriteHeader(h) \/ WriteHeaderFails(h)
  PROVE  \A g \in hdrs' \cup {hdr'} : KeepsId(g, c)
<1>1. h # EmptyHdr /\ KeepsId(h, c)
  BY DEF EmptyHdr, KeepsId
<1>2. \A g : KeepsId(g, c) => KeepsId(Torn(g, h), c)
  BY <1>1 DEF KeepsId, Torn, TornHdr
<1>3. \A g \in PartialHeaders(hdrs, h) \cup PartialHeaders({hdr}, h) : KeepsId(g, c)
  BY <1>2 DEF PartialHeaders, Headers
<1> QED BY <1>1, <1>3 DEF WriteHeader, WriteHeaderFails, Headers

\* What is owed has windows, so the handle that serves it has a segment.
LEMMA OwedSegment ==
  ASSUME AInv, Owed, Serving, ~poisoned
  PROVE  /\ parts # <<>> /\ seg # NoId /\ seg = acked.id /\ Len(acked.parts) \in Nat \ {0}
         /\ Len(acked.parts) <= Len(parts)
<1>1. acked.parts \in Seq(Parts) /\ acked.parts # <<>>
  BY DEF AInv, IInv, TypeOK, ContentType, Owed
<1>2. Len(acked.parts) \in Nat \ {0}
  BY <1>1, EmptySeq
<1>3. seg = acked.id /\ Len(acked.parts) <= Len(parts)
  BY DEF AInv, Owes
<1>4. parts # <<>>
  BY <1>2, <1>3, PartsType DEF AInv, IInv
<1>5. seg # NoId
  BY <1>4 DEF AInv, IInv, HandleOk
<1> QED BY <1>2, <1>3, <1>4, <1>5

LEMMA OwedHeadersInCall ==
  ASSUME AInv, Owed, CallWork
  PROVE  \A h \in hdrs' \cup {hdr'} : KeepsId(h, acked)
<1>1. \A h \in Headers : KeepsId(h, acked)
  BY DEF AInv, Owes
<1>2. seg # NoId /\ seg = acked.id
  BY InCall, OwedSegment DEF AInv
<1>3. CASE AppendHeader
  <2>1. op.id = seg
    BY <1>2, <1>3, InCall DEF AInv, AppendHeader, IInv, OpByPc, Appending
  <2>2. NewHeader.kind = "active" /\ NewHeader.id = acked.id
    BY <1>2, <2>1 DEF NewHeader, ActiveHdr
  <2>3. WriteHeader(NewHeader) \/ WriteHeaderFails(NewHeader)
    BY <1>3 DEF AppendHeader
  <2> QED BY <1>1, <2>2, <2>3, KeepsIdWritten
<1>4. CASE RollbackHeader
  <2>1. CurrentHeader.kind = "active" /\ CurrentHeader.id = acked.id
    BY <1>2 DEF CurrentHeader, ActiveHdr
  <2>2. WriteHeader(CurrentHeader) \/ WriteHeaderFails(CurrentHeader)
    BY <1>4 DEF RollbackHeader
  <2> QED BY <1>1, <2>1, <2>2, KeepsIdWritten
<1>5. CASE ~AppendHeader /\ ~RollbackHeader
  <2>1. hdr' = hdr /\ (hdrs' = hdrs \/ hdrs' = {hdr})
    BY <1>5 DEF CallWork, AppendFrame, AppendPart, AppendSync, RollbackTruncate, RollbackSync, WriteMarker,
       SyncMarker, Sync
  <2> QED BY <1>1, <2>1 DEF Headers
<1> QED BY <1>3, <1>4, <1>5

\* A body with the same frames, with one more, or with only the known ones.
LEMMA KeepsPartsOf ==
  ASSUME NEW c \in ContentType, NEW n \in Nat, Len(c.parts) <= n,
         KeepsParts(body, c), NEW b, n <= Len(b.frames), Len(b.frames) \in Nat, b.tail.kind # "marker",
         \A i \in 1..n : b.frames[i].part = body.frames[i].part
  PROVE  KeepsParts(b, c)
<1>1. Len(c.parts) \in Nat
  BY LenProperties DEF ContentType
<1> QED BY <1>1 DEF KeepsParts

LEMMA OwedBodiesInCall ==
  ASSUME AInv, Owed, CallWork
  PROVE  \A b \in bodies' \cup {body'} : KeepsParts(b, acked)
<1>1. \A b \in bodies \cup {body} : KeepsParts(b, acked)
  BY DEF AInv, Owes, Bodies
<1>2. /\ TypeOK /\ BodyOk(body) /\ Known /\ acked \in ContentType /\ KeepsParts(body, acked)
      /\ Len(body.frames) \in Nat /\ Len(parts) \in Nat /\ Len(acked.parts) <= Len(parts)
      /\ Len(acked.parts) <= Len(body.frames) /\ body.frames \in Seq(FrameType)
      /\ Len(acked.parts) \in Nat
  <2>1. Len(acked.parts) <= Len(parts) /\ Len(acked.parts) \in Nat
    BY InCall, OwedSegment DEF AInv
  <2>2. TypeOK /\ BodyOk(body) /\ Known
    BY InCall DEF AInv
  <2> QED BY <1>1, <2>1, <2>2, PartsType DEF KeepsParts, TypeOK, BodyType
<1>3. ASSUME NEW t, t.kind # "marker" PROVE KeepsParts(Body(body.frames, t), acked)
  <2>1. Body(body.frames, t).frames = body.frames /\ Body(body.frames, t).tail = t
    BY DEF Body
  <2> QED BY <1>2, <1>3, <2>1 DEF KeepsParts
<1>4. CASE AppendFrame
  <2>1. KeepsParts(Body(body.frames, ShortTail(FrameHeaderLen)), acked)
    BY <1>3 DEF ShortTail
  <2> QED BY <1>1, <1>4, <2>1 DEF AppendFrame, WriteBody
<1>5. CASE AppendPart
  <2> DEFINE b1 == Body(Append(body.frames, NewFrame), NoTail)
             b2 == Body(body.frames, BadTail(NewFrame.len))
  <2>1. PICK p \in Parts : op.part = <<p>>
    BY <1>5 DEF AInv, IInv, OpByPc, AppendPart, Appending
  <2>2. NoMore
    BY <1>5 DEF AInv, IInv, FileByPc, AppendPart
  <2>3. /\ Len(b1.frames) = Len(parts) + 1 /\ b1.tail = NoTail
        /\ \A i \in 1..Len(parts) : b1.frames[i] = body.frames[i]
    BY <1>2, <2>1, <2>2, FrameAppended
  <2>4. KeepsParts(b2, acked)
    BY <1>3 DEF BadTail
  <2> HIDE DEF b1
  <2>5. KeepsParts(b1, acked)
    <3>1. Len(parts) <= Len(b1.frames) /\ Len(b1.frames) \in Nat /\ b1.tail.kind # "marker"
      BY <1>2, <2>3 DEF NoTail
    <3>2. \A i \in 1..Len(parts) : b1.frames[i].part = body.frames[i].part
      BY <2>3
    <3> QED BY <1>2, <3>1, <3>2, KeepsPartsOf
  <2> HIDE DEF b2
  <2>6. (body' = b1 /\ bodies' = bodies \cup {b1} \cup {b2}) \/ UNCHANGED <<body, bodies>>
    BY <1>5 DEF AppendPart, WriteBody, b1, b2
  <2> QED BY <1>1, <2>4, <2>5, <2>6
<1>6. CASE RollbackTruncate
  <2> DEFINE b == Truncated(body, end)
  <2>1. NoMore \/ (OneMore /\ body.frames[Len(body.frames)].at = end)
    BY <1>6 DEF AInv, IInv, FileByPc, RollbackTruncate
  <2>2. /\ Len(b.frames) = Len(parts) /\ b.tail = NoTail
        /\ \A i \in 1..Len(parts) : b.frames[i] = body.frames[i]
    BY <1>2, <2>1, TruncatedToKnown
  <2> HIDE DEF b
  <2>3. KeepsParts(b, acked)
    BY <1>2, <2>2, KeepsPartsOf DEF NoTail
  <2> QED BY <1>1, <1>6, <2>3 DEF RollbackTruncate, WriteBody, b
<1>7. CASE WriteMarker \/ SyncMarker
  <2>1. Nothing \in pending
    BY <1>7 DEF AInv, Asked, IInv, OpByPc, WriteMarker, SyncMarker, Marking
  <2> QED BY <2>1 DEF Owed
<1>8. CASE AppendHeader \/ AppendSync \/ RollbackHeader \/ RollbackSync
  BY <1>1, <1>8 DEF AppendHeader, AppendSync, RollbackHeader, RollbackSync, Sync
<1> QED BY <1>4, <1>5, <1>6, <1>7, <1>8 DEF CallWork

\* While windows are owed no header is emptied and no body cut.
LEMMA NoFinishWhileOwed ==
  ASSUME AInv, Owed
  PROVE  ~FinishWork /\ ~InitHeader
<1>1. KeepsId(hdr, acked) /\ KeepsParts(body, acked)
  BY DEF AInv, Owes, Headers, Bodies
<1>2. hdr # EmptyHdr /\ hdr # NoHdr /\ body.tail.kind # "marker"
  BY <1>1 DEF KeepsId, KeepsParts, EmptyHdr, NoHdr
<1>3. pc \notin {"empty_header", "sync_empty", "truncate", "final_sync", "init_header"}
  BY <1>2 DEF AInv, Committing, IInv, FileByPc
<1> QED BY <1>3 DEF FinishWork, EmptyHeader, SyncEmpty, TruncateBody, FinalSync, InitHeader

LEMMA OwedFileOutside ==
  ASSUME AInv, Owed, acked' = acked, OpeningStep \/ CallStart \/ GoneStep \/ Rotate \/ UNCHANGED vars
  PROVE  /\ \A h \in hdrs' \cup {hdr'} : KeepsId(h, acked)
         /\ \A b \in bodies' \cup {body'} : KeepsParts(b, acked)
<1>1. /\ \A h \in hdrs \cup {hdr} : KeepsId(h, acked)
      /\ \A b \in bodies \cup {body} : KeepsParts(b, acked)
  BY DEF AInv, Owes, Headers, Bodies
<1>2. ~InitHeader
  BY NoFinishWhileOwed
<1>3. CASE OpeningStep
  BY <1>1, <1>2, <1>3 DEF OpeningStep, Open, InitSync, Inspect, SyncRoot, Sync, file
<1>4. CASE CallStart
  BY <1>1, <1>4 DEF CallStart, ResetCall, AppendCall, file
<1>5. CASE Drop \/ Exit \/ Kill \/ UNCHANGED vars
  BY <1>1, <1>5 DEF Drop, Exit, Kill, vars, file
<1>6. CASE PowerLoss
  <2>1. linked # "entry"
    BY DEF AInv, IInv, EntryDurable, Owed
  <2> QED BY <1>1, <1>6, <2>1 DEF PowerLoss
<1>7. CASE Rotate
  BY <1>7 DEF Rotate, Owed
<1> QED BY <1>3, <1>4, <1>5, <1>6, <1>7 DEF GoneStep

\* An opened handle knows every window owed.
LEMMA OwedHandle ==
  ASSUME AInv, Owed, acked' = acked, [Next]_vars, Serving', ~poisoned'
  PROVE  seg' = acked.id /\ Len(acked.parts) <= Len(parts')
<1>1. CASE CallWork
  <2>1. /\ seg # NoId /\ seg = acked.id /\ Len(acked.parts) <= Len(parts) /\ Len(acked.parts) \in Nat
        /\ Len(parts) \in Nat /\ parts \in Seq(RefType)
    <3>1. seg # NoId /\ seg = acked.id /\ Len(acked.parts) <= Len(parts) /\ Len(acked.parts) \in Nat
      BY <1>1, InCall, OwedSegment DEF AInv
    <3> QED BY <3>1, PartsType DEF AInv, IInv, TypeOK
  <2>2. CASE UNCHANGED <<seg, parts>>
    BY <2>1, <2>2
  <2>3. CASE AppendSync /\ ~UNCHANGED <<seg, parts>>
    <3>1. seg' = op.id /\ parts' = Append(parts, NewRef)
      BY <2>3 DEF AppendSync
    <3>2. op.id = seg
      BY <2>1, <2>3 DEF AInv, IInv, OpByPc, AppendSync, Appending
    <3>3. NewRef \in RefType
      <4>1. PICK p \in Parts : op.part = <<p>>
        BY <2>3 DEF AInv, IInv, OpByPc, AppendSync, Appending
      <4>2. end \in Nat /\ gen \in Nat
        BY DEF AInv, IInv, TypeOK
      <4>3. DOMAIN <<NewFrame>> = 1..1 /\ <<NewFrame>>[1] = NewFrame
        OBVIOUS
      <4>4. NewFrame.at = end /\ NewFrame.len = FrameHeaderLen + PartLen[p]
        BY <4>1 DEF NewFrame, Frame
      <4>5. NewRef = [offset |-> NewFrame.at + FrameHeaderLen, len |-> NewFrame.len - FrameHeaderLen, gen |-> gen]
        BY <4>3 DEF NewRef, RefsOf
      <4> QED BY <4>2, <4>4, <4>5 DEF RefType
    <3>4. Len(parts') = Len(parts) + 1
      BY <2>1, <3>1, <3>3, AppendProperties
    <3> QED BY <2>1, <3>1, <3>2, <3>4
  <2> QED BY <1>1, <2>2, <2>3 DEF CallWork, AppendHeader, AppendFrame, AppendPart, AppendSync,
             RollbackTruncate, RollbackHeader, RollbackSync, WriteMarker, SyncMarker, handle
<1>2. CASE FinishWork
  BY <1>2, NoFinishWhileOwed
<1>3. CASE OpeningStep
  <2>1. CASE SyncRoot /\ Opened
    <3>1. TypeOK /\ HdrOk(hdr) /\ BodyOk(body) /\ OpenVerdict(hdr, body) = "ok" /\ nextGen \in Nat
      BY <2>1 DEF AInv, IInv, SyncRoot, FileByPc, FileOk, Headers, Bodies, TypeOK
    <3>2. hdr.kind \in {"empty", "active"}
      BY <3>1, VerifiedFile
    <3>3. KeepsId(hdr, acked) /\ KeepsParts(body, acked)
      BY DEF AInv, Owes, Headers, Bodies
    <3>4. hdr.id = acked.id
      BY <3>2, <3>3 DEF KeepsId
    <3>5. parts' = RefsOf(body.frames, nextGen) /\ seg' = hdr.id
      BY <2>1 DEF Opened
    <3>6. Len(parts') = Len(body.frames)
      BY <3>1, <3>5, RefsOfFrames DEF TypeOK
    <3> QED BY <3>3, <3>4, <3>5, <3>6 DEF KeepsParts
  <2>2. CASE ~(SyncRoot /\ Opened)
    <3>1. pc' \in {"init_header", "init_sync", "inspect", "sync_root", "closed"} \/ (pc' = "empty_header" /\ op' = op /\ op.kind = "open")
      <4>1. CASE Inspect
        BY <4>1 DEF Inspect, Refuse, AInv, IInv, OpByPc
      <4> QED BY <1>3, <2>2, <4>1 DEF OpeningStep, Open, InitHeader, InitSync, SyncRoot, Refuse
    <3> QED BY <3>1 DEF Serving, Appending, RollingBack, Marking, Finishing
  <2> QED BY <2>1, <2>2
<1>4. CASE CallStart
  <2>1. UNCHANGED <<seg, parts, poisoned>> /\ Serving
    BY <1>4 DEF CallStart, ResetCall, AppendCall, handle, Serving
  <2> QED BY <2>1 DEF AInv, Owes
<1>5. CASE GoneStep \/ Rotate
  <2>1. pc' = "closed"
    BY <1>5 DEF GoneStep, Drop, Exit, Kill, PowerLoss, ProcessGone, Rotate
  <2> QED BY <2>1 DEF Serving, Appending, RollingBack, Marking, Finishing
<1>6. CASE UNCHANGED vars
  <2>1. UNCHANGED <<seg, parts, poisoned, pc, op>>
    BY <1>6 DEF vars, handle
  <2>2. Serving
    BY <2>1 DEF Serving
  <2> QED BY <2>1, <2>2 DEF AInv, Owes
<1> QED BY <1>1, <1>2, <1>3, <1>4, <1>5, <1>6, StepKinds

\* When a call settles, the handle shows what the file holds.
LEMMA SettledFile ==
  ASSUME AInv, IInv', AppendSync \/ RollbackSync, Sync, UNCHANGED faults
  PROVE  /\ body.tail = NoTail /\ body'.frames = body.frames /\ hdr' = hdr
         /\ hdrs' = {hdr} /\ bodies' = {body} /\ body' = body
         /\ Serving' /\ Len(parts') = Len(body.frames)
         /\ body.frames # <<>> => hdr.kind = "active" /\ seg' = hdr.id
<1>1. /\ TypeOK /\ BodyOk(body) /\ Known /\ Serving /\ ~poisoned /\ (seg = NoId <=> parts = <<>>)
      /\ HdrOk(hdr)
  BY InCall DEF AInv, CallWork
<1>2. UNCHANGED <<hdr, body>> /\ hdrs' = {hdr} /\ bodies' = {body} /\ pc' = "idle"
  <2>1. faults \in Nat
    BY <1>1 DEF TypeOK
  <2> QED BY <2>1 DEF AppendSync, RollbackSync, Sync, Return, Fail, Poison, IoError
<1>3. CASE AppendSync
  <2>1. body.tail = NoTail /\ hdr = NewHeader /\ HoldsNew
    BY <1>3 DEF AInv, IInv, FileByPc, AppendSync
  <2>2. seg' = op.id \/ pc' = "rollback_truncate"
    BY <1>3 DEF AppendSync, Fail
  <2>3. parts' \in Seq(RefType) /\ ~poisoned'
    BY <1>2, <1>1, <1>3 DEF IInv, TypeOK, AppendSync
  <2>4. Unchanged'
    BY <1>2, <2>3 DEF IInv, FileByPc
  <2>5. Len(parts') = Len(body.frames)
    BY <1>2, <2>4 DEF Unchanged, NoMore
  <2>6. hdr.kind = "active" /\ seg' = hdr.id
    BY <1>2, <2>1, <2>2 DEF NewHeader, ActiveHdr
  <2> QED BY <1>2, <2>1, <2>5, <2>6 DEF Serving
<1>4. CASE RollbackSync
  <2>1. body.tail = NoTail /\ hdr = CurrentHeader /\ NoMore
    BY <1>4 DEF AInv, IInv, FileByPc, RollbackSync
  <2>2. UNCHANGED <<parts, seg>>
    BY <1>4 DEF RollbackSync
  <2>3. body.frames # <<>> => parts # <<>>
    BY <1>1, <2>1, PartsType DEF NoMore
  <2>4. seg # NoId => hdr.kind = "active" /\ seg' = hdr.id
    BY <2>1, <2>2 DEF CurrentHeader, ActiveHdr
  <2> QED BY <1>1, <1>2, <2>1, <2>2, <2>3, <2>4 DEF Serving, NoMore
<1> QED BY <1>3, <1>4

LEMMA FinalSyncShowsNothing ==
  ASSUME IInv, FinalSync
  PROVE  Shown = Nothing
BY DEF IInv, FileByPc, FinalSync, Shown, Content, EmptyBody, Body

\* What a call settles is owed from then on, and the file keeps it.
LEMMA SettledIsKept ==
  ASSUME AInv, IInv', AppendSync \/ RollbackSync \/ FinalSync, Sync, UNCHANGED faults,
         acked' = Shown, Shown # Nothing
  PROVE  /\ \A h \in hdrs' \cup {hdr'} : KeepsId(h, acked')
         /\ \A b \in bodies' \cup {body'} : KeepsParts(b, acked')
         /\ seg' = acked'.id /\ Len(acked'.parts) <= Len(parts')
<1>1. ~FinalSync
  BY FinalSyncShowsNothing DEF AInv
<1>2. /\ body.tail = NoTail /\ hdr' = hdr /\ hdrs' = {hdr} /\ bodies' = {body} /\ body' = body
      /\ Len(parts') = Len(body.frames)
      /\ body.frames # <<>> => hdr.kind = "active" /\ seg' = hdr.id
  BY <1>1, SettledFile
<1>3. hdr \in HdrType /\ body \in BodyType
  BY DEF AInv, IInv, TypeOK
<1> DEFINE c == Content(hdr, body.frames)
<1>4. /\ Len(c.parts) = Len(body.frames) /\ Len(body.frames) \in Nat
      /\ \A i \in 1..Len(body.frames) : c.parts[i] = body.frames[i].part
      /\ body.frames # <<>> => c.id = hdr.id
      /\ body.frames = <<>> => c = Nothing
  BY <1>3, ContentShape
<1> HIDE DEF c
<1>5. acked' = c /\ c # Nothing
  BY DEF Shown, c
<1>6. body.frames # <<>> /\ c.id = hdr.id /\ hdr.kind = "active" /\ seg' = hdr.id
  BY <1>2, <1>4, <1>5
<1>7. KeepsId(hdr, c) /\ KeepsParts(body, c)
  BY <1>2, <1>4, <1>6 DEF KeepsId, KeepsParts, NoTail
<1> QED BY <1>2, <1>4, <1>5, <1>6, <1>7

LEMMA OwesKept ==
  ASSUME AInv, IInv', [Next]_vars
  PROVE  Owes'
<1> SUFFICES ASSUME Owed'
             PROVE  /\ \A h \in hdrs' \cup {hdr'} : KeepsId(h, acked')
                    /\ \A b \in bodies' \cup {body'} : KeepsParts(b, acked')
                    /\ Serving' /\ ~poisoned' => seg' = acked'.id /\ Len(acked'.parts) <= Len(parts')
  BY DEF Owes, Headers, Bodies
<1>1. CASE Owed /\ acked' = acked
  <2>1. /\ \A h \in hdrs' \cup {hdr'} : KeepsId(h, acked)
        /\ \A b \in bodies' \cup {body'} : KeepsParts(b, acked)
    <3>1. CASE CallWork
      BY <1>1, <3>1, OwedHeadersInCall, OwedBodiesInCall
    <3>2. CASE ~CallWork
      BY <1>1, <3>2, StepKinds, NoFinishWhileOwed, OwedFileOutside
    <3> QED BY <3>1, <3>2
  <2>2. Serving' /\ ~poisoned' => seg' = acked.id /\ Len(acked.parts) <= Len(parts')
    BY <1>1, OwedHandle
  <2> QED BY <1>1, <2>1, <2>2
<1>2. CASE ~(Owed /\ acked' = acked)
  <2>1. (AppendSync \/ RollbackSync \/ FinalSync) /\ Sync /\ Settle /\ UNCHANGED faults
    BY <1>2, PromiseStep DEF Owed
  <2>2. acked' = Shown /\ Shown # Nothing
    BY <1>2, <2>1 DEF Owed, Settle
  <2> QED BY <2>1, <2>2, SettledIsKept
<1> QED BY <1>1, <1>2

LEMMA AckedFormKept ==
  ASSUME AInv, [Next]_vars
  PROVE  acked'.parts = <<>> => acked' = Nothing
<1>1. acked' = acked \/ acked' = Shown \/ acked' = Nothing
  BY PromiseStep DEF Settle
<1>2. Shown.parts = <<>> => Shown = Nothing
  <2>1. hdr \in HdrType /\ body \in BodyType
    BY DEF AInv, IInv, TypeOK
  <2> QED BY <2>1, ContentShape DEF Shown
<1> QED BY <1>1, <1>2 DEF AInv

LEMMA AInvInit == Init => AInv
<1> SUFFICES ASSUME Init PROVE AInv
  OBVIOUS
<1>1. Committing /\ Asked /\ Owes
  BY DEF Init, Committing, Asked, Owes, Owed, NoOp, Marking
<1> QED BY <1>1, InitEstablishes DEF AInv, Init

LEMMA AInvPreserved == AInv /\ [Next]_vars => AInv'
<1> SUFFICES ASSUME AInv, [Next]_vars PROVE AInv'
  OBVIOUS
<1>1. IInv'
  BY NextPreserves DEF AInv
<1>2. Committing' /\ Asked' /\ Owes'
  BY <1>1, CommittingKept, AskedKept, OwesKept DEF AInv
<1> QED BY <1>1, <1>2, AckedFormKept DEF AInv

\* At every step of every call, what it asked for is still asked for, and each
\* header and each body that the disk may keep bears the windows owed.
THEOREM AckedInductive == Spec => []AInv
BY AInvInit, AInvPreserved, PTL DEF Spec

LEMMA KeptIsRecovered == AInv => AckedSurvives
<1> SUFFICES ASSUME AInv, NEW h \in Headers, NEW b \in Bodies,
                    h.kind \notin {"torn", "mixed"}, acked # Nothing, Nothing \notin pending
             PROVE  /\ Recovered(h, b).id = acked.id
                    /\ acked.parts = SubSeq(Recovered(h, b).parts, 1, Len(acked.parts))
  BY DEF AckedSurvives
<1>1. KeepsId(h, acked) /\ KeepsParts(b, acked)
  BY DEF AInv, Owes, Owed
<1>2. h.kind = "active" /\ h.id = acked.id /\ b.tail.kind # "marker"
  BY <1>1 DEF KeepsId, KeepsParts
<1>3. Recovered(h, b) = Content(h, b.frames)
  BY <1>2 DEF Recovered, ResetCommitted, Salvage
<1>4. h \in HdrType /\ b \in BodyType /\ acked \in ContentType
  BY DEF AInv, IInv, TypeOK, Headers, Bodies
<1>5. acked.parts \in Seq(Parts) /\ acked.parts # <<>>
  BY <1>4 DEF AInv, ContentType
<1>6. Len(acked.parts) \in Nat \ {0}
  BY <1>5, EmptySeq
<1> DEFINE c == Content(h, b.frames)
           n == Len(acked.parts)
<1>7. /\ c.parts \in Seq(Parts) /\ Len(c.parts) = Len(b.frames) /\ Len(b.frames) \in Nat
      /\ \A i \in 1..Len(b.frames) : c.parts[i] = b.frames[i].part
      /\ b.frames # <<>> => c.id = h.id
      /\ b.frames = <<>> <=> Len(b.frames) = 0
  BY <1>4, ContentShape
<1> HIDE DEF c
<1>8. n <= Len(b.frames) /\ \A i \in 1..n : b.frames[i].part = acked.parts[i]
  BY <1>1 DEF KeepsParts
<1>9. c.id = acked.id
  BY <1>2, <1>6, <1>7, <1>8
<1>10. \A i \in 1..n : c.parts[i] = acked.parts[i] /\ c.parts[i] \in Parts
  <2> SUFFICES ASSUME NEW i \in 1..n PROVE c.parts[i] = acked.parts[i] /\ c.parts[i] \in Parts
    OBVIOUS
  <2>1. i \in 1..Len(b.frames) /\ i \in 1..Len(c.parts)
    BY <1>6, <1>7, <1>8
  <2> QED BY <1>7, <1>8, <2>1, ElementOfSeq
<1>11. /\ SubSeq(c.parts, 1, n) \in Seq(Parts) /\ Len(SubSeq(c.parts, 1, n)) = n
       /\ \A i \in 1..n : SubSeq(c.parts, 1, n)[i] = c.parts[i]
  BY <1>6, <1>10, SubSeqProperties
<1>12. acked.parts = SubSeq(c.parts, 1, n)
  BY <1>5, <1>10, <1>11, SeqEqual
<1> QED BY <1>3, <1>9, <1>12 DEF c

\* Acknowledged windows come back after any kill or power loss, torn header
\* writes and unsynced reopening included, until a reset is asked for.
THEOREM AckedWindowsSurvive == Spec => []AckedSurvives
BY AckedInductive, KeptIsRecovered, PTL

-----------------------------------------------------------------------------
(* What a restart finds. *)

LEMMA NothingRecovered ==
  ASSUME NEW h, NEW b, h.kind # "active" \/ b.frames = <<>> \/ ResetCommitted(h, b)
  PROVE  Recovered(h, b) = Nothing
BY DEF Recovered, Salvage, Content

\* A header and a body that the disk may keep during a call are safe together.
LEMMA CallPairSafe ==
  ASSUME TypeOK, Known, Asked, (seg = NoId <=> parts = <<>>), Held \in Allowed,
         op.kind = "append" => op.id \in SegIds /\ seg \in {NoId, op.id} /\ (\E p \in Parts : op.part = <<p>>),
         NEW h \in HdrType, HdrOk(h), OldOrNewHeader(h),
         NEW b \in BodyType, OldOrNewBody(b)
  PROVE  Safe(h, b)
<1>1. ResetCommitted(h, b) => Nothing \in Allowed
  BY DEF ResetCommitted, OldOrNewBody, Asked, Allowed
<1>2. ASSUME Whole(h), ~ResetCommitted(h, b) PROVE Recovered(h, b) \in Allowed
  <2>1. CASE h.kind # "active"
    <3>1. Recovered(h, b) = Nothing
      BY <2>1, NothingRecovered
    <3>2. parts = <<>>
      BY <1>2, <2>1 DEF OldOrNewHeader, Whole
    <3> QED BY <3>1, <3>2 DEF Held
  <2>2. CASE h.kind = "active" /\ Len(b.frames) = Len(parts)
    <3>1. Recovered(h, b) = Content(h, b.frames)
      BY <1>2, <2>2 DEF Recovered, Salvage
    <3>2. parts = <<>> \/ h.id = seg
      BY <2>2 DEF OldOrNewHeader
    <3>3. Content(h, b.frames) = Held
      BY <2>2, <3>2, HeldShown DEF OldOrNewBody
    <3> QED BY <3>1, <3>3
  <2>3. CASE h.kind = "active" /\ Len(b.frames) # Len(parts)
    <3>1. Recovered(h, b) = Content(h, b.frames)
      BY <1>2, <2>3 DEF Recovered, Salvage
    <3>2. op.kind = "append" /\ Len(b.frames) = Len(parts) + 1 /\ b.frames[Len(parts) + 1].part = op.part[1]
      BY <2>3 DEF OldOrNewBody
    <3>3. PICK p \in Parts : op.part = <<p>>
      BY <3>2
    <3>4. h.id = op.id
      BY <2>3, <3>2 DEF OldOrNewHeader, HdrOk
    <3>5. Content(h, b.frames) = [id |-> h.id, parts |-> Append(HeldParts, p)]
      BY <3>2, <3>3, NextShown DEF OldOrNewBody
    <3> QED BY <3>1, <3>2, <3>3, <3>4, <3>5 DEF Asked, Allowed
  <2> QED BY <2>1, <2>2, <2>3
<1>3. ResetCommitted(h, b) => Recovered(h, b) = Nothing
  BY NothingRecovered
<1> QED BY <1>1, <1>2, <1>3 DEF Safe

\* Between calls a restart finds what the handle holds.
LEMMA RecoveredUnchanged ==
  ASSUME TypeOK, Unchanged, seg = NoId <=> parts = <<>>
  PROVE  Recovered(hdr, body) = Held /\ ~ResetCommitted(hdr, body) /\ Whole(hdr)
<1>1. ~ResetCommitted(hdr, body) /\ Whole(hdr)
  BY DEF Unchanged, ResetCommitted, NoTail, Whole, CurrentHeader, EmptyHdr, ActiveHdr
<1>2. CASE parts = <<>>
  <2>1. hdr.kind # "active"
    BY <1>2 DEF Unchanged, CurrentHeader, EmptyHdr
  <2> QED BY <1>1, <1>2, <2>1, NothingRecovered DEF Held
<1>3. CASE parts # <<>>
  <2>1. hdr.kind = "active" /\ hdr.id = seg /\ hdr \in HdrType /\ body \in BodyType
    BY <1>3 DEF Unchanged, CurrentHeader, ActiveHdr, TypeOK
  <2>2. Content(hdr, body.frames) = Held
    BY <2>1, HeldShown DEF Unchanged, NoMore
  <2> QED BY <1>1, <2>1, <2>2 DEF Recovered, Salvage
<1> QED BY <1>2, <1>3

-----------------------------------------------------------------------------
(* The file during a call. *)

\* A header written during a call is of the old or of the new segment, or torn.
LEMMA OldOrNewWritten ==
  ASSUME \A g \in Headers : OldOrNewHeader(g), NEW h, h.kind \in {"active", "empty"}, OldOrNewHeader(h),
         WriteHeader(h) \/ WriteHeaderFails(h)
  PROVE  \A g \in hdrs' \cup {hdr'} : OldOrNewHeader(g)
<1>1. \A g : OldOrNewHeader(g) => OldOrNewHeader(Torn(g, h))
  <2> SUFFICES ASSUME NEW g, OldOrNewHeader(g) PROVE OldOrNewHeader(Torn(g, h))
    OBVIOUS
  <2>1. g.kind # "none"
    BY DEF OldOrNewHeader
  <2>2. CASE g.kind = "active" /\ h = EmptyHdr
    <3>1. parts = <<>>
      BY <2>2 DEF OldOrNewHeader, EmptyHdr
    <3>2. Torn(g, h) = Mixed(g)
      BY <2>1, <2>2 DEF Torn
    <3>3. Mixed(g).kind = "mixed" \/ Mixed(g) = g
      BY DEF Mixed
    <3> QED BY <3>1, <3>2, <3>3 DEF OldOrNewHeader
  <2>3. CASE ~(g.kind = "active" /\ h = EmptyHdr)
    BY <2>1, <2>3 DEF Torn, TornHdr, OldOrNewHeader
  <2> QED BY <2>2, <2>3
<1>2. \A g \in PartialHeaders(hdrs, h) \cup PartialHeaders({hdr}, h) : OldOrNewHeader(g)
  BY <1>1 DEF PartialHeaders, Headers
<1> QED BY <1>2 DEF WriteHeader, WriteHeaderFails, Headers

LEMMA CallHeaders ==
  ASSUME DInv, CallWork
  PROVE  \A h \in hdrs' \cup {hdr'} : OldOrNewHeader(h)
<1>1. pc \in Appending \cup RollingBack \cup Marking
  BY DEF CallWork, AppendHeader, AppendFrame, AppendPart, AppendSync, RollbackTruncate, RollbackHeader,
         RollbackSync, WriteMarker, SyncMarker, Appending, RollingBack, Marking
<1>2. \A h \in Headers : OldOrNewHeader(h)
  BY <1>1 DEF DInv, OldOrNew
<1>3. CASE AppendHeader
  <2>1. op.kind = "append"
    BY <1>3 DEF DInv, AInv, IInv, OpByPc, AppendHeader, Appending
  <2>2. NewHeader.kind = "active" /\ OldOrNewHeader(NewHeader)
    BY <2>1 DEF NewHeader, ActiveHdr, OldOrNewHeader
  <2> QED BY <1>2, <1>3, <2>2, OldOrNewWritten DEF AppendHeader
<1>4. CASE RollbackHeader
  <2>1. seg = NoId <=> parts = <<>>
    BY InCall DEF DInv, AInv
  <2>2. CurrentHeader.kind \in {"active", "empty"} /\ OldOrNewHeader(CurrentHeader)
    BY <2>1 DEF CurrentHeader, ActiveHdr, EmptyHdr, OldOrNewHeader
  <2> QED BY <1>2, <1>4, <2>2, OldOrNewWritten DEF RollbackHeader
<1>5. CASE ~AppendHeader /\ ~RollbackHeader
  <2>1. hdr' = hdr /\ (hdrs' = hdrs \/ hdrs' = {hdr})
    BY <1>5 DEF CallWork, AppendFrame, AppendPart, AppendSync, RollbackTruncate, RollbackSync, WriteMarker,
       SyncMarker, Sync
  <2> QED BY <1>2, <2>1 DEF Headers
<1> QED BY <1>3, <1>4, <1>5

LEMMA CallBodies ==
  ASSUME DInv, CallWork
  PROVE  \A b \in bodies' \cup {body'} : OldOrNewBody(b)
<1>1. pc \in Appending \cup RollingBack \cup Marking
  BY DEF CallWork, AppendHeader, AppendFrame, AppendPart, AppendSync, RollbackTruncate, RollbackHeader,
         RollbackSync, WriteMarker, SyncMarker, Appending, RollingBack, Marking
<1>2. \A b \in bodies \cup {body} : OldOrNewBody(b)
  BY <1>1 DEF DInv, OldOrNew, Bodies
<1>3. TypeOK /\ BodyOk(body) /\ Known /\ Len(parts) \in Nat /\ body.frames \in Seq(FrameType)
  BY InCall, PartsType DEF DInv, AInv, TypeOK, BodyType
<1>4. ASSUME NoMore, NEW t, t.kind = "marker" => op.kind = "reset" PROVE OldOrNewBody(Body(body.frames, t))
  <2>1. Body(body.frames, t).frames = body.frames /\ Body(body.frames, t).tail = t
    BY DEF Body
  <2> QED BY <1>4, <2>1 DEF OldOrNewBody, NoMore
<1>5. CASE AppendFrame
  <2>1. OldOrNewBody(Body(body.frames, ShortTail(FrameHeaderLen)))
    BY <1>4, <1>5 DEF ShortTail, DInv, AInv, IInv, FileByPc, AppendFrame
  <2> QED BY <1>2, <1>5, <2>1 DEF AppendFrame, WriteBody
<1>6. CASE AppendPart
  <2> DEFINE b1 == Body(Append(body.frames, NewFrame), NoTail)
             b2 == Body(body.frames, BadTail(NewFrame.len))
  <2>1. PICK p \in Parts : op.part = <<p>>
    BY <1>6 DEF DInv, AInv, IInv, OpByPc, AppendPart, Appending
  <2>2. NoMore /\ op.kind = "append"
    BY <1>6 DEF DInv, AInv, IInv, OpByPc, FileByPc, AppendPart, Appending
  <2>3. /\ Len(b1.frames) = Len(parts) + 1 /\ b1.tail = NoTail
        /\ b1.frames[Len(b1.frames)] = NewFrame
        /\ \A i \in 1..Len(parts) : b1.frames[i] = body.frames[i]
    BY <1>3, <2>1, <2>2, FrameAppended
  <2>4. OldOrNewBody(b2)
    BY <1>4, <2>2 DEF BadTail
  <2>5. NewFrame.part = op.part[1]
    BY DEF NewFrame, Frame
  <2> HIDE DEF b1
  <2>6. OldOrNewBody(b1)
    BY <2>2, <2>3, <2>5 DEF OldOrNewBody, NoTail
  <2> HIDE DEF b2
  <2>7. (body' = b1 /\ bodies' = bodies \cup {b1} \cup {b2}) \/ UNCHANGED <<body, bodies>>
    BY <1>6 DEF AppendPart, WriteBody, b1, b2
  <2> QED BY <1>2, <2>4, <2>6, <2>7
<1>7. CASE RollbackTruncate
  <2> DEFINE b == Truncated(body, end)
  <2>1. NoMore \/ (OneMore /\ body.frames[Len(body.frames)].at = end)
    BY <1>7 DEF DInv, AInv, IInv, FileByPc, RollbackTruncate
  <2>2. /\ Len(b.frames) = Len(parts) /\ b.tail = NoTail
        /\ \A i \in 1..Len(parts) : b.frames[i] = body.frames[i]
    BY <1>3, <2>1, TruncatedToKnown
  <2> HIDE DEF b
  <2>3. OldOrNewBody(b)
    BY <2>2 DEF OldOrNewBody, NoTail
  <2> QED BY <1>2, <1>7, <2>3 DEF RollbackTruncate, WriteBody, b
<1>8. CASE WriteMarker
  <2>1. op.kind = "reset" /\ NoMore
    BY <1>8 DEF DInv, AInv, IInv, OpByPc, FileByPc, Unchanged, WriteMarker, Marking
  <2> DEFINE b1 == Body(body.frames, MarkerTail(CurrentHeader))
             b2 == Body(body.frames, ShortTail(1))
             b3 == Body(body.frames, BadTail(MarkerLen))
  <2>2. OldOrNewBody(b1) /\ OldOrNewBody(b2) /\ OldOrNewBody(b3)
    BY <1>4, <2>1
  <2> HIDE DEF b1, b2, b3
  <2>3. \/ body' = b1 /\ bodies' = bodies \cup {b1} \cup {b2, b3}
        \/ \E b \in {body, b2} : body' = b /\ bodies' = bodies \cup {b} \cup {}
    BY <1>8 DEF WriteMarker, WriteBody, b1, b2, b3
  <2> QED BY <1>2, <2>2, <2>3
<1>9. CASE AppendHeader \/ AppendSync \/ RollbackHeader \/ RollbackSync \/ SyncMarker
  BY <1>2, <1>9 DEF AppendHeader, AppendSync, RollbackHeader, RollbackSync, SyncMarker, Sync
<1> QED BY <1>5, <1>6, <1>7, <1>8, <1>9 DEF CallWork

LEMMA SafeFromPairs ==
  ASSUME \A h \in hdrs' \cup {hdr'}, b \in bodies' \cup {body'} : Safe(h, b), Allowed \subseteq Allowed'
  PROVE  SafeFile'
BY DEF SafeFile, Safe, Headers, Bodies

\* A step that writes nothing and forgets no promise.
LEMMA SafeShrinks ==
  ASSUME SafeFile, hdrs' \cup {hdr'} \subseteq Headers, bodies' \cup {body'} \subseteq Bodies,
         Allowed \subseteq Allowed'
  PROVE  SafeFile'
BY SafeFromPairs DEF SafeFile

-----------------------------------------------------------------------------
(* Calls. *)

LEMMA CallSafe ==
  ASSUME DInv, IInv', CallWork, UNCHANGED <<acked, pending>>
  PROVE  SafeFile'
<1>1. pc \in Appending \cup RollingBack \cup Marking
  BY DEF CallWork, AppendHeader, AppendFrame, AppendPart, AppendSync, RollbackTruncate, RollbackHeader,
         RollbackSync, WriteMarker, SyncMarker, Appending, RollingBack, Marking
<1>2. /\ TypeOK /\ Known /\ Asked /\ (seg = NoId <=> parts = <<>>) /\ Held \in Allowed
      /\ op.kind = "append" => op.id \in SegIds /\ seg \in {NoId, op.id} /\ (\E p \in Parts : op.part = <<p>>)
  BY <1>1, InCall DEF DInv, AInv, OldOrNew
<1>3. /\ \A h \in hdrs' \cup {hdr'} : h \in HdrType /\ HdrOk(h)
      /\ \A b \in bodies' \cup {body'} : b \in BodyType
  BY DEF IInv, TypeOK, FileOk, Headers, Bodies
<1>4. \A h \in hdrs' \cup {hdr'}, b \in bodies' \cup {body'} : Safe(h, b)
  BY <1>2, <1>3, CallHeaders, CallBodies, CallPairSafe
<1>5. Allowed' = Allowed
  BY DEF Allowed
<1> QED BY <1>4, <1>5, SafeFromPairs

LEMMA CallStaysOldOrNew ==
  ASSUME DInv, IInv', CallWork, pc' \in Appending \cup RollingBack \cup Marking
  PROVE  OldOrNew'
<1>1. pc \in Appending \cup RollingBack \cup Marking
  BY DEF CallWork, AppendHeader, AppendFrame, AppendPart, AppendSync, RollbackTruncate, RollbackHeader,
         RollbackSync, WriteMarker, SyncMarker, Appending, RollingBack, Marking
<1>2. UNCHANGED <<op, seg, parts, acked, pending>>
  BY DEF CallWork, AppendHeader, AppendFrame, AppendPart, AppendSync, RollbackTruncate, RollbackHeader,
         RollbackSync, WriteMarker, SyncMarker, Appending, RollingBack, Marking, Return, Poison, ghost, handle
<1>3. TypeOK /\ Known /\ \A i \in 1..Len(parts) : body'.frames[i] = body.frames[i]
  BY InCall, CallKeepsFrames DEF DInv, AInv
<1>4. HeldParts' = HeldParts
  BY <1>2, <1>3, HeldKept
<1>5. Held' \in Allowed'
  BY <1>1, <1>2, <1>4 DEF Held, Allowed, DInv, OldOrNew
<1>6. \A h \in hdrs' \cup {hdr'} : OldOrNewHeader(h)'
  BY <1>2, CallHeaders DEF OldOrNewHeader
<1>7. ASSUME NEW b \in bodies' \cup {body'} PROVE OldOrNewBody(b)'
  <2>1. OldOrNewBody(b)
    BY <1>7, CallBodies
  <2> QED BY <1>2, <1>3, <2>1 DEF OldOrNewBody
<1> QED BY <1>5, <1>6, <1>7 DEF OldOrNew, Headers, Bodies

\* A durable marker: whatever is left of the reset, it has happened.
LEMMA MarkerCommits ==
  ASSUME DInv, CallWork, pc' \notin Appending \cup RollingBack \cup Marking \cup {"idle"}
  PROVE  pc' = "empty_header" /\ EmptyAhead'
<1>1. SyncMarker /\ Sync /\ pc' = "empty_header"
  BY DEF CallWork, AppendHeader, AppendFrame, AppendPart, AppendSync, RollbackTruncate, RollbackHeader,
         RollbackSync, WriteMarker, SyncMarker, Appending, RollingBack, Marking, Return, Poison, Fail
<1>2. /\ hdr' = hdr /\ body' = body /\ hdrs' = {hdr} /\ bodies' = {body}
      /\ UNCHANGED <<acked, pending>>
  BY <1>1 DEF SyncMarker, Sync, ghost
<1>3. op.kind = "reset" /\ parts # <<>> /\ Known /\ NoMore /\ TypeOK /\ BodyOk(body)
      /\ (seg = NoId <=> parts = <<>>) /\ hdr = CurrentHeader /\ body.tail = MarkerTail(CurrentHeader)
  BY <1>1, InCall DEF DInv, AInv, IInv, OpByPc, FileByPc, SyncMarker, Marking, Committing
<1>4. Nothing \in pending
  BY <1>3 DEF DInv, AInv, Asked
<1>5. FramesEnd(body.frames) = end /\ body.frames # <<>>
  BY <1>3, KnownFramesEnd, PartsType DEF NoMore, TypeOK
<1>6. CurrentHeader.end = end
  BY DEF CurrentHeader, ActiveHdr, EmptyHdr
<1>7. ResetCommitted(hdr, body)
  BY <1>3, <1>5, <1>6 DEF ResetCommitted, MarkerTail
<1>8. Recovered(hdr, body) = Nothing
  BY <1>7, NothingRecovered
<1> QED BY <1>1, <1>2, <1>4, <1>8 DEF EmptyAhead, Allowed, Headers, Bodies

\* A call that settles shows a content asked for or acknowledged, and a restart
\* would find exactly that.
LEMMA SettledShown ==
  ASSUME DInv, IInv', AppendSync \/ RollbackSync, Sync, UNCHANGED faults
  PROVE  /\ Recovered(hdr, body) = Shown /\ Shown \in Allowed /\ ~ResetCommitted(hdr, body)
         /\ hdr' = hdr /\ body' = body /\ hdrs' = {hdr} /\ bodies' = {body}
<1>1. /\ body.tail = NoTail /\ hdr' = hdr /\ hdrs' = {hdr} /\ bodies' = {body} /\ body' = body
      /\ body.frames # <<>> => hdr.kind = "active"
  BY SettledFile DEF DInv
<1>2. ~ResetCommitted(hdr, body)
  BY <1>1 DEF ResetCommitted, NoTail
<1>3. Recovered(hdr, body) = Shown
  BY <1>1, <1>2 DEF Recovered, Salvage, Shown, Content
<1>4. Whole(hdr)
  <2>1. hdr \in {NewHeader, CurrentHeader}
    BY DEF DInv, AInv, IInv, FileByPc, AppendSync, RollbackSync
  <2> QED BY <2>1 DEF NewHeader, CurrentHeader, ActiveHdr, EmptyHdr, Whole
<1>5. Safe(hdr, body)
  BY DEF DInv, SafeFile, Headers, Bodies
<1> QED BY <1>1, <1>2, <1>3, <1>4, <1>5 DEF Safe

LEMMA FinalSyncSettles ==
  ASSUME DInv, FinalSync, Sync, Settle
  PROVE  /\ acked' = Nothing /\ hdr' = EmptyHdr /\ body' = EmptyBody /\ hdrs' = {EmptyHdr} /\ bodies' = {EmptyBody}
         /\ Recovered(hdr, body) = Nothing
<1>1. hdr = EmptyHdr /\ body = EmptyBody /\ UNCHANGED <<hdr, body>>
  BY DEF DInv, AInv, IInv, FileByPc, FinalSync
<1>2. Nothing \in Allowed
  BY DEF DInv, EmptyAhead, FinalSync, Finishing
<1>3. Shown = Nothing
  BY FinalSyncShowsNothing DEF DInv, AInv
<1>4. Recovered(hdr, body) = Nothing
  BY <1>1, NothingRecovered DEF EmptyHdr
<1> QED BY <1>1, <1>2, <1>3, <1>4 DEF Settle, Allowed, Sync

LEMMA SettleSafe ==
  ASSUME DInv, IInv', AppendSync \/ RollbackSync \/ FinalSync, Sync, Settle, UNCHANGED faults
  PROVE  SafeFile'
<1>1. CASE FinalSync
  <2>1. Headers' = {EmptyHdr} /\ Bodies' = {EmptyBody} /\ acked' = Nothing
    BY <1>1, FinalSyncSettles DEF Headers, Bodies
  <2>2. Recovered(EmptyHdr, EmptyBody) = Nothing
    BY NothingRecovered DEF EmptyHdr
  <2> QED BY <2>1, <2>2 DEF SafeFile, Safe, Allowed
<1>2. CASE AppendSync \/ RollbackSync
  <2>1. /\ Recovered(hdr, body) = Shown /\ Shown \in Allowed /\ ~ResetCommitted(hdr, body)
        /\ hdr' = hdr /\ body' = body /\ hdrs' = {hdr} /\ bodies' = {body}
    BY <1>2, SettledShown
  <2>2. acked' = Shown
    BY <2>1 DEF Settle, Allowed
  <2>3. Headers' = {hdr} /\ Bodies' = {body}
    BY <2>1 DEF Headers, Bodies
  <2> QED BY <2>1, <2>2, <2>3 DEF SafeFile, Safe, Allowed
<1> QED BY <1>1, <1>2

-----------------------------------------------------------------------------
(* Finishing a reset, opening, and the rest. *)

LEMMA EmptyHeaderWritten ==
  ASSUME EmptyAhead, hdrs \cup {hdr} \subseteq HdrType,
         WriteHeader(EmptyHdr) \/ WriteHeaderFails(EmptyHdr), UNCHANGED <<body, bodies, acked, pending>>
  PROVE  EmptyAhead'
<1>1. \A g \in HdrType : Whole(Torn(g, EmptyHdr)) => Torn(g, EmptyHdr).kind # "active"
  BY DEF Torn, Mixed, ShortHdr, TornHdr, Whole, HdrType
<1>2. \A h \in PartialHeaders(hdrs, EmptyHdr) \cup PartialHeaders({hdr}, EmptyHdr) :
        Whole(h) => h.kind # "active"
  BY <1>1 DEF PartialHeaders
<1>3. EmptyHdr.kind # "active"
  BY DEF EmptyHdr
<1>4. \A h \in hdrs' \cup {hdr'} : h \in Headers \/ (Whole(h) => h.kind # "active")
  BY <1>2, <1>3 DEF WriteHeader, WriteHeaderFails, Headers
<1>5. \A h \in hdrs' \cup {hdr'}, b \in Bodies : Whole(h) => Recovered(h, b) = Nothing
  BY <1>4, NothingRecovered DEF EmptyAhead
<1> QED BY <1>5 DEF EmptyAhead, Allowed, Headers, Bodies

LEMMA FinishStaysEmpty ==
  ASSUME DInv, FinishWork, UNCHANGED <<acked, pending>>
  PROVE  EmptyAhead'
<1>1. EmptyAhead
  BY DEF DInv, FinishWork, EmptyHeader, SyncEmpty, TruncateBody, FinalSync, Finishing
<1>2. hdrs \cup {hdr} \subseteq HdrType
  BY DEF DInv, AInv, IInv, TypeOK
<1>3. CASE EmptyHeader
  BY <1>1, <1>2, <1>3, EmptyHeaderWritten DEF EmptyHeader
<1>4. CASE SyncEmpty \/ FinalSync
  BY <1>1, <1>4 DEF SyncEmpty, FinalSync, Sync, EmptyAhead, Headers, Bodies, Allowed
<1>5. CASE TruncateBody
  <2>1. \A h : Recovered(h, EmptyBody) = Nothing
    BY NothingRecovered DEF EmptyBody, Body
  <2> QED BY <1>1, <1>5, <2>1 DEF TruncateBody, WriteBody, EmptyAhead, Headers, Bodies, Allowed
<1> QED BY <1>3, <1>4, <1>5 DEF FinishWork

LEMMA OpeningSafe ==
  ASSUME DInv, ~DirtyReopen, OpeningStep
  PROVE  /\ SafeFile'
         /\ pc' \notin Appending \cup RollingBack \cup Marking
         /\ pc' \in Finishing \cup {"init_header", "init_sync"} => EmptyAhead'
<1>0. UNCHANGED <<acked, pending>>
  BY DEF OpeningStep, Open, InitHeader, InitSync, Inspect, SyncRoot, ghost
<1>1. CASE \E m \in MaxLens : Open(m)
  <2>1. /\ hdr' = hdr /\ body' = body /\ hdrs' = {hdr} /\ bodies' = {body}
        /\ IF linked = "absent" THEN pc' = "init_header" ELSE pc' = "inspect"
    BY <1>1 DEF Open, Sync
  <2>2. SafeFile'
    BY <1>0, <2>1, SafeShrinks DEF DInv, Allowed, Headers, Bodies
  <2>3. linked = "absent" => EmptyAhead'
    <3>1. linked = "absent" => acked = Nothing /\ hdr = NoHdr
      BY DEF DInv, AInv, IInv, EntryDurable, Committing
    <3>2. Recovered(NoHdr, body) = Nothing
      BY NothingRecovered DEF NoHdr
    <3> QED BY <1>0, <2>1, <3>1, <3>2 DEF EmptyAhead, Allowed, Headers, Bodies
  <2> QED BY <2>1, <2>2, <2>3 DEF Appending, RollingBack, Marking, Finishing
<1>2. CASE InitHeader
  <2>1. EmptyAhead /\ hdrs \cup {hdr} \subseteq HdrType
    BY <1>2 DEF DInv, AInv, IInv, TypeOK, InitHeader
  <2>2. EmptyAhead'
    BY <1>0, <1>2, <2>1, EmptyHeaderWritten DEF InitHeader
  <2>3. SafeFile'
    BY <2>2 DEF EmptyAhead, SafeFile, Safe
  <2> QED BY <1>2, <2>2, <2>3 DEF InitHeader, Refuse, Appending, RollingBack, Marking
<1>3. CASE InitSync
  <2>1. SafeFile'
    BY <1>0, <1>3, SafeShrinks DEF InitSync, Sync, DInv, Allowed, Headers, Bodies
  <2> QED BY <1>3, <2>1 DEF InitSync, Refuse, Appending, RollingBack, Marking, Finishing
<1>4. CASE Inspect
  <2>1. UNCHANGED <<hdr, body, hdrs, bodies>> /\ hdrs = {hdr} /\ bodies = {body}
    BY <1>4 DEF Inspect, file, DInv, Clean
  <2>2. SafeFile'
    BY <1>0, <2>1, SafeShrinks DEF DInv, Allowed, Headers, Bodies
  <2>3. Safe(hdr, body)
    BY DEF DInv, SafeFile, Headers, Bodies
  <2>4. /\ pc' \in {"closed", "empty_header", "init_header", "sync_root"}
        /\ pc' = "empty_header" => ResetCommitted(hdr, body)
        /\ pc' = "init_header" => hdr = NoHdr
    BY <1>4 DEF Inspect, Refuse
  <2>5. pc' \in {"empty_header", "init_header"} => Recovered(hdr, body) = Nothing /\ Nothing \in Allowed
    <3>1. CASE pc' = "empty_header"
      BY <2>3, <2>4, <3>1, NothingRecovered DEF Safe
    <3>2. CASE pc' = "init_header"
      BY <2>3, <2>4, <3>2, NothingRecovered DEF Safe, Whole, NoHdr
    <3> QED BY <3>1, <3>2
  <2>6. pc' \in {"empty_header", "init_header"} => EmptyAhead'
    BY <1>0, <2>1, <2>5 DEF EmptyAhead, Allowed, Headers, Bodies
  <2> QED BY <2>2, <2>4, <2>6 DEF Appending, RollingBack, Marking, Finishing
<1>5. CASE SyncRoot
  <2>1. SafeFile'
    BY <1>0, <1>5, SafeShrinks DEF SyncRoot, DInv, Allowed, Headers, Bodies
  <2> QED BY <1>5, <2>1 DEF SyncRoot, Opened, Return, Refuse, Appending, RollingBack, Marking, Finishing
<1> QED BY <1>1, <1>2, <1>3, <1>4, <1>5 DEF OpeningStep

LEMMA CallStartSafe ==
  ASSUME DInv, CallStart
  PROVE  /\ SafeFile'
         /\ pc' \in Appending \cup RollingBack \cup Marking => OldOrNew'
         /\ pc' \notin Finishing \cup {"init_header", "init_sync"}
<1>1. /\ UNCHANGED <<hdr, body, hdrs, bodies, seg, parts, acked>> /\ pending \subseteq pending' /\ pc = "idle"
      /\ pc' \in {"idle", "append_header", "append_frame", "write_marker"}
  BY DEF CallStart, ResetCall, AppendCall, file, handle
<1>2. SafeFile'
  BY <1>1, SafeShrinks DEF DInv, Allowed, Headers, Bodies
<1>3. ASSUME pc' # "idle" PROVE OldOrNew'
  <2>1. ~poisoned
    BY <1>3, <1>1 DEF CallStart, ResetCall, AppendCall, AppendRefusal
  <2>2. /\ TypeOK /\ Unchanged /\ (seg = NoId <=> parts = <<>>) /\ hdrs = {hdr} /\ bodies = {body}
    BY <1>1, <2>1 DEF DInv, AInv, IInv, FileByPc, HandleOk, Serving, Clean
  <2>3. Held \in Allowed
    <3>1. Safe(hdr, body)
      BY DEF DInv, SafeFile, Headers, Bodies
    <3> QED BY <2>2, <3>1, RecoveredUnchanged DEF Safe
  <2>4. Held' = Held /\ HeldParts' = HeldParts
    BY <1>1 DEF Held, HeldParts
  <2>5. Held' \in Allowed'
    BY <1>1, <2>3, <2>4 DEF Allowed
  <2>6. OldOrNewHeader(hdr)'
    BY <1>1, <2>2 DEF OldOrNewHeader, Unchanged, CurrentHeader, EmptyHdr, ActiveHdr
  <2>7. OldOrNewBody(body)'
    BY <1>1, <2>2 DEF OldOrNewBody, Unchanged, NoMore, NoTail
  <2> QED BY <1>1, <2>2, <2>5, <2>6, <2>7 DEF OldOrNew, Headers, Bodies
<1> QED BY <1>1, <1>2, <1>3 DEF Appending, RollingBack, Marking, Finishing

LEMMA OutsideSafe ==
  ASSUME DInv, GoneStep \/ Rotate
  PROVE  SafeFile' /\ pc' = "closed"
<1>1. pc' = "closed"
  BY DEF GoneStep, Drop, Exit, Kill, PowerLoss, ProcessGone, Rotate
<1>2. CASE Drop \/ Exit \/ Kill
  BY <1>1, <1>2, SafeShrinks DEF Drop, Exit, Kill, ProcessGone, file, ghost, DInv, Allowed, Headers, Bodies
<1>3. CASE PowerLoss /\ linked' = linked
  <2>1. hdrs' \cup {hdr'} \subseteq Headers /\ bodies' \cup {body'} \subseteq Bodies /\ UNCHANGED <<acked, pending>>
    BY <1>3 DEF PowerLoss, ProcessGone, Headers, Bodies
  <2> QED BY <1>1, <2>1, SafeShrinks DEF DInv, Allowed
<1>4. CASE PowerLoss /\ linked' # linked
  <2>1. hdrs' = {NoHdr} /\ hdr' = NoHdr /\ acked' = Nothing
    BY <1>4 DEF PowerLoss, ProcessGone, DInv, AInv, IInv, EntryDurable
  <2>2. \A b : Recovered(NoHdr, b) = Nothing
    BY NothingRecovered DEF NoHdr
  <2> QED BY <1>1, <2>1, <2>2 DEF SafeFile, Safe, Allowed, Headers, Bodies
<1>5. CASE Rotate
  <2>1. hdrs' = {EmptyHdr} /\ hdr' = EmptyHdr /\ acked' = Nothing
    BY <1>5 DEF Rotate
  <2>2. \A b : Recovered(EmptyHdr, b) = Nothing
    BY NothingRecovered DEF EmptyHdr
  <2> QED BY <1>1, <2>1, <2>2 DEF SafeFile, Safe, Allowed, Headers, Bodies
<1> QED BY <1>2, <1>3, <1>4, <1>5 DEF GoneStep

-----------------------------------------------------------------------------
(* The invariant of a restart. *)

LEMMA DInvInit == Init => DInv
<1> SUFFICES ASSUME Init PROVE DInv
  OBVIOUS
<1>1. AInv
  BY AInvInit
<1>2. Recovered(NoHdr, EmptyBody) = Nothing /\ ~ResetCommitted(NoHdr, EmptyBody)
  BY NothingRecovered DEF NoHdr, EmptyBody, Body, ResetCommitted, NoTail
<1>3. SafeFile
  BY <1>2 DEF Init, SafeFile, Safe, Headers, Bodies, Allowed
<1>4. Clean
  BY DEF Init, Clean
<1> QED BY <1>1, <1>3, <1>4 DEF DInv, Init, Appending, RollingBack, Marking, Finishing

\* What a step of a call leaves.
LEMMA CallKeepsDInv ==
  ASSUME DInv, IInv', [Next]_vars, CallWork
  PROVE  /\ SafeFile'
         /\ pc' \in Appending \cup RollingBack \cup Marking => OldOrNew'
         /\ pc' \in Finishing \cup {"init_header", "init_sync"} => EmptyAhead'
<1>1. SafeFile'
  <2>1. CASE UNCHANGED <<acked, pending>>
    BY <2>1, CallSafe
  <2>2. CASE ~UNCHANGED <<acked, pending>>
    <3>1. (AppendSync \/ RollbackSync) /\ Sync /\ Settle /\ UNCHANGED faults
      BY <2>2, PromiseStep DEF CallWork, AppendHeader, AppendFrame, AppendPart, AppendSync, RollbackTruncate,
         RollbackHeader, RollbackSync, WriteMarker, SyncMarker, FinalSync, Rotate, CallStart, ResetCall, AppendCall
    <3> QED BY <3>1, SettleSafe
  <2> QED BY <2>1, <2>2
<1>2. pc' \in Appending \cup RollingBack \cup Marking => OldOrNew'
  BY CallStaysOldOrNew
<1>3. pc' \in Finishing \cup {"init_header", "init_sync"} => EmptyAhead'
  BY MarkerCommits DEF Finishing, Appending, RollingBack, Marking
<1> QED BY <1>1, <1>2, <1>3

\* What a step past the marker leaves.
LEMMA FinishKeepsDInv ==
  ASSUME DInv, IInv', [Next]_vars, FinishWork
  PROVE  /\ SafeFile'
         /\ pc' \notin Appending \cup RollingBack \cup Marking
         /\ pc' \in Finishing \cup {"init_header", "init_sync"} => EmptyAhead'
<1>1. pc' \in Finishing \cup {"idle", "closed", "inspect"}
  BY DEF FinishWork, EmptyHeader, SyncEmpty, TruncateBody, FinalSync, FinishFails, Return, Refuse, Finishing
<1>2. CASE UNCHANGED <<acked, pending>>
  <2>1. EmptyAhead'
    BY <1>2, FinishStaysEmpty
  <2>2. SafeFile'
    BY <2>1 DEF EmptyAhead, SafeFile, Safe
  <2> QED BY <1>1, <2>1, <2>2 DEF Finishing, Appending, RollingBack, Marking
<1>3. CASE ~UNCHANGED <<acked, pending>>
  <2>1. FinalSync /\ Sync /\ Settle /\ UNCHANGED faults
    BY <1>3, PromiseStep DEF FinishWork, EmptyHeader, SyncEmpty, TruncateBody, FinalSync, AppendSync, RollbackSync,
       Rotate, CallStart, ResetCall, AppendCall
  <2>2. faults \in Nat
    BY DEF DInv, AInv, IInv, TypeOK
  <2>3. pc' \in {"idle", "inspect"}
    BY <2>1, <2>2 DEF FinalSync, FinishFails, IoError, Return
  <2> QED BY <2>1, <2>3, SettleSafe DEF Finishing, Appending, RollingBack, Marking
<1> QED BY <1>2, <1>3

LEMMA DInvPreserved ==
  ASSUME ~DirtyReopen, DInv, [Next]_vars
  PROVE  DInv'
<1>1. AInv' /\ IInv'
  BY AInvPreserved DEF DInv, AInv
<1>2. Clean'
  BY CleanKept DEF DInv
<1>3. /\ SafeFile'
      /\ pc' \in Appending \cup RollingBack \cup Marking => OldOrNew'
      /\ pc' \in Finishing \cup {"init_header", "init_sync"} => EmptyAhead'
  <2>1. CASE CallWork
    BY <1>1, <2>1, CallKeepsDInv
  <2>2. CASE FinishWork
    BY <1>1, <2>2, FinishKeepsDInv
  <2>3. CASE OpeningStep
    BY <2>3, OpeningSafe
  <2>4. CASE CallStart
    BY <2>4, CallStartSafe
  <2>5. CASE GoneStep \/ Rotate
    BY <2>5, OutsideSafe DEF Appending, RollingBack, Marking, Finishing
  <2>6. CASE UNCHANGED vars
    <3>1. /\ UNCHANGED <<hdr, body, hdrs, bodies, pc, op, seg, parts, acked, pending>>
      BY <2>6 DEF vars, file, handle, ghost
    <3>2. SafeFile'
      BY <3>1, SafeShrinks DEF DInv, Allowed, Headers, Bodies
    <3>3. OldOrNew => OldOrNew'
      BY <3>1 DEF OldOrNew, Held, HeldParts, Allowed, Headers, Bodies, OldOrNewHeader, OldOrNewBody
    <3>4. EmptyAhead => EmptyAhead'
      BY <3>1 DEF EmptyAhead, Allowed, Headers, Bodies
    <3> QED BY <3>1, <3>2, <3>3, <3>4 DEF DInv
  <2> QED BY <2>1, <2>2, <2>3, <2>4, <2>5, <2>6, StepKinds
<1> QED BY <1>1, <1>2, <1>3 DEF DInv

\* Whatever the disk keeps between two syncs of append, rollback and reset, a
\* restart over it finds only contents the caller knows of, and the file of an
\* open call is of the old or of the new segment (journal.rs append, reset).
THEOREM RestartInductive ==
  ASSUME ~DirtyReopen
  PROVE  Spec => []DInv
<1>1. Init => DInv
  BY DInvInit
<1>2. DInv /\ [Next]_vars => DInv'
  BY DInvPreserved
<1> QED BY <1>1, <1>2, PTL DEF Spec

\* After a crash Journal::open, or the salvage of a file it refuses, gives the
\* acknowledged windows or those an unfinished call asked for, where the file is
\* written back before it is opened again.
THEOREM OnlyKnownContents ==
  ASSUME ~DirtyReopen
  PROVE  Spec => []NothingLost
<1>1. DInv => NothingLost
  BY DEF DInv, SafeFile, Safe, Whole, NothingLost
<1> QED BY <1>1, RestartInductive, PTL

\* A file that Journal::open accepts is either empty or holds one segment's frames.
LEMMA AcceptedFile ==
  ASSUME NEW h \in HdrType, NEW b \in BodyType, HdrOk(h), BodyOk(b), OpenVerdict(h, b) = "ok"
  PROVE  Whole(h) /\ (h.kind = "active" \/ b.frames = <<>>)
<1>1. h.kind \in {"empty", "active"} /\ h.end = FileLen(h, b)
  BY DEF OpenVerdict
<1>2. CASE h.kind = "empty"
  <2>1. FileLen(h, b) = FramesEnd(b.frames) + b.tail.len /\ FileLen(h, b) = HeaderLen
    BY <1>1, <1>2 DEF FileLen, HdrOk, EmptyHdr
  <2>2. b.frames \in Seq(FrameType) /\ b.tail.len \in Nat /\ FramesEnd(b.frames) \in Nat
    BY FramesEndType DEF BodyType, TailType
  <2>3. b.frames # <<>> => FramesEnd(b.frames) > HeaderLen
    BY <2>2, LastFrame DEF FramesEnd, BodyOk, FrameType
  <2> QED BY <1>2, <2>1, <2>2, <2>3 DEF Whole
<1> QED BY <1>1, <1>2 DEF Whole

\* Journal::open fails closed: what it accepts after a crash is the acknowledged
\* content or one asked for, never half a window or another segment's.
THEOREM OpensOnlyKnownContents ==
  ASSUME ~DirtyReopen
  PROVE  Spec => []FailClosed
<1>1. DInv => FailClosed
  <2> SUFFICES ASSUME DInv, NEW h \in Headers, NEW b \in Bodies,
                      OpenVerdict(h, b) = "ok", ~ResetCommitted(h, b)
               PROVE  Content(h, b.frames) \in Allowed
    BY DEF FailClosed
  <2>1. h \in HdrType /\ b \in BodyType /\ HdrOk(h) /\ BodyOk(b)
    BY DEF DInv, AInv, IInv, TypeOK, FileOk, Headers, Bodies
  <2>2. Whole(h) /\ (h.kind = "active" \/ b.frames = <<>>)
    BY <2>1, AcceptedFile
  <2>3. Recovered(h, b) \in Allowed
    BY <2>2 DEF DInv, SafeFile, Safe
  <2>4. Recovered(h, b) = Content(h, b.frames)
    BY <2>2 DEF Recovered, Salvage, Content
  <2> QED BY <2>3, <2>4
<1> QED BY <1>1, RestartInductive, PTL

-----------------------------------------------------------------------------
(* The refinement of AtomicLog. *)

\* The disk keeps headers whole.
NoHeaderTorn == \A h \in Headers : Whole(h)

LEMMA HeadersStayWhole ==
  ASSUME ~TornHeaders, NoHeaderTorn, [Next]_vars
  PROVE  NoHeaderTorn'
<1>1. \A hs, h : PartialHeaders(hs, h) = {}
  BY DEF PartialHeaders
<1>2. Whole(NoHdr) /\ Whole(EmptyHdr) /\ Whole(NewHeader) /\ Whole(CurrentHeader)
  BY DEF Whole, NoHdr, EmptyHdr, NewHeader, CurrentHeader, ActiveHdr
<1>3. CASE CallWork
  <2>1. CASE AppendHeader
    BY <1>1, <1>2, <2>1 DEF AppendHeader, WriteHeader, WriteHeaderFails, NoHeaderTorn, Headers
  <2>2. CASE RollbackHeader
    BY <1>1, <1>2, <2>2 DEF RollbackHeader, WriteHeader, WriteHeaderFails, NoHeaderTorn, Headers
  <2>3. CASE ~AppendHeader /\ ~RollbackHeader
    <3>1. hdr' = hdr /\ (hdrs' = hdrs \/ hdrs' = {hdr})
      BY <1>3, <2>3 DEF CallWork, AppendFrame, AppendPart, AppendSync, RollbackTruncate, RollbackSync, WriteMarker,
         SyncMarker, Sync
    <3> QED BY <3>1 DEF NoHeaderTorn, Headers
  <2> QED BY <2>1, <2>2, <2>3
<1>4. CASE FinishWork
  BY <1>1, <1>2, <1>4 DEF FinishWork, EmptyHeader, SyncEmpty, TruncateBody, FinalSync, WriteHeader,
     WriteHeaderFails, Sync, NoHeaderTorn, Headers
<1>5. CASE OpeningStep
  BY <1>1, <1>2, <1>5 DEF OpeningStep, Open, InitHeader, InitSync, Inspect, SyncRoot, WriteHeader,
     WriteHeaderFails, Sync, file, NoHeaderTorn, Headers
<1>6. CASE CallStart \/ UNCHANGED vars
  BY <1>6 DEF CallStart, ResetCall, AppendCall, file, vars, NoHeaderTorn, Headers
<1>7. CASE GoneStep \/ Rotate
  BY <1>2, <1>7 DEF GoneStep, Drop, Exit, Kill, PowerLoss, Rotate, file, NoHeaderTorn, Headers
<1> QED BY <1>3, <1>4, <1>5, <1>6, <1>7, StepKinds

\* A call that starts asks for a content that follows the log, or for none.
LEMMA CallStartAsks ==
  ASSUME DInv, CallStart
  PROVE  [Log!Next]_(Log!logvars)
<1>1. UNCHANGED <<hdr, body, acked>>
  BY DEF CallStart, ResetCall, AppendCall, file
<1>2. CASE pending' = pending
  BY <1>1, <1>2 DEF Log!logvars
<1>3. CASE ResetCall /\ pending' # pending
  <2>1. pending' = pending \cup {Nothing}
    BY <1>3 DEF ResetCall
  <2>2. Log!AskClear
    BY <1>1, <2>1 DEF Log!AskClear, Nothing, Log!Nothing
  <2> QED BY <2>2 DEF Log!Next
<1>4. ASSUME NEW i \in SegIds, NEW p \in Parts, AppendCall(i, p), pending' # pending
      PROVE  [Log!Next]_(Log!logvars)
  <2>1. /\ pc = "idle" /\ ~poisoned /\ seg \in {NoId, i} /\ pending' = pending \cup {With(Shown, i, p)}
    BY <1>4 DEF AppendCall, AppendRefusal, SameSegment
  <2>2. TypeOK /\ Unchanged /\ (seg = NoId <=> parts = <<>>)
    BY <2>1 DEF DInv, AInv, IInv, FileByPc, HandleOk, Serving
  <2>3. Recovered(hdr, body) = Held
    BY <2>2, RecoveredUnchanged
  <2>4. Shown = Held
    BY <2>2, ShownUnchanged
  <2>5. Held = Nothing \/ Held.id = i
    BY <2>1, <2>2 DEF Held
  <2>6. With(Shown, i, p) = [id |-> i, parts |-> Append(Recovered(hdr, body).parts, p)]
    BY <2>3, <2>4 DEF With
  <2>7. Log!AskAppend(i, p)
    BY <1>1, <2>1, <2>3, <2>5, <2>6 DEF Log!AskAppend, Nothing, Log!Nothing
  <2> QED BY <2>7 DEF Log!Next
<1> QED BY <1>2, <1>3, <1>4 DEF CallStart

\* Every system call, fault and crash is a step of AtomicLog or leaves its variables alone.
LEMMA StepRefines ==
  ASSUME ~DirtyReopen, DInv, NoHeaderTorn, DInv', NoHeaderTorn', [Next]_vars
  PROVE  [Log!Next]_(Log!logvars)
<1>1. CASE UNCHANGED <<acked, pending>>
  <2>1. hdr' \in Headers' /\ body' \in Bodies'
    BY DEF Headers, Bodies
  <2>2. Recovered(hdr, body)' \in Allowed'
    BY <2>1 DEF DInv, SafeFile, Safe, NoHeaderTorn
  <2>3. Log!Move
    BY <1>1, <2>2 DEF Log!Move, Allowed
  <2> QED BY <2>3 DEF Log!Next
<1>2. CASE CallStart
  BY <1>2, CallStartAsks
<1>3. CASE (AppendSync \/ RollbackSync) /\ Sync /\ Settle /\ UNCHANGED faults
  <2>1. /\ Recovered(hdr, body) = Shown /\ Shown \in Allowed /\ hdr' = hdr /\ body' = body
    BY <1>3, SettledShown DEF DInv, AInv
  <2>2. acked' = Recovered(hdr, body) /\ pending' = {}
    BY <1>3, <2>1 DEF Settle, Allowed
  <2>3. Log!Settle
    BY <2>1, <2>2 DEF Log!Settle
  <2> QED BY <2>3 DEF Log!Next
<1>4. CASE FinalSync /\ Sync /\ Settle
  <2>1. /\ acked' = Nothing /\ hdr' = EmptyHdr /\ body' = EmptyBody /\ Recovered(hdr, body) = Nothing
    BY <1>4, FinalSyncSettles
  <2>2. pending' = {}
    <3>1. Shown = Nothing
      BY <1>4, FinalSyncShowsNothing DEF DInv, AInv
    <3>2. Nothing \in Allowed
      BY <1>4 DEF DInv, EmptyAhead, FinalSync, Finishing
    <3> QED BY <1>4, <3>1, <3>2 DEF Settle, Allowed
  <2>3. Recovered(hdr, body)' = Nothing
    BY <2>1, NothingRecovered DEF EmptyHdr
  <2>4. Log!Settle
    BY <2>1, <2>2, <2>3 DEF Log!Settle
  <2> QED BY <2>4 DEF Log!Next
<1>5. CASE Rotate
  <2>1. acked' = Nothing /\ pending' = {} /\ hdr' = EmptyHdr
    BY <1>5 DEF Rotate
  <2>2. Recovered(hdr, body)' = Nothing
    BY <2>1, NothingRecovered DEF EmptyHdr
  <2>3. Log!Handover
    BY <2>1, <2>2 DEF Log!Handover, Nothing, Log!Nothing
  <2> QED BY <2>3 DEF Log!Next
<1> QED BY <1>1, <1>2, <1>3, <1>4, <1>5, PromiseStep

\* Where a header write is atomic and the file is written back before it is opened
\* again, the headers, frames, markers and syncs of the journal implement the one
\* atomic log that AtomicLog promises the collector.
THEOREM RefinesAtomicLog ==
  ASSUME ~DirtyReopen, ~TornHeaders
  PROVE  Spec => ImplementsAtomicLog
<1>1. Init => NoHeaderTorn
  BY DEF Init, NoHeaderTorn, Headers, Whole, NoHdr
<1>2. Init => Log!Init
  <2>1. Recovered(NoHdr, EmptyBody) = Nothing
    BY NothingRecovered DEF NoHdr
  <2> QED BY <2>1 DEF Init, Log!Init, Nothing, Log!Nothing
<1>3. NoHeaderTorn /\ [Next]_vars => NoHeaderTorn'
  BY HeadersStayWhole
<1>4. DInv /\ NoHeaderTorn /\ DInv' /\ NoHeaderTorn' /\ [Next]_vars => [Log!Next]_(Log!logvars)
  BY StepRefines
<1>5. Spec => []DInv
  BY RestartInductive
<1> QED BY <1>1, <1>2, <1>3, <1>4, <1>5, PTL DEF Spec, ImplementsAtomicLog, Log!Spec
=============================================================================
