---------------------------- MODULE JournalProofs ----------------------------
(* Theorems about Journal for every value of its constants. *)
EXTENDS JournalInvariant, SequenceTheorems, TLAPS

USE LengthsAssumption, ConfigAssumption, IdAssumption, FailureAssumption, BoundsAssumption
    DEF LengthsAssumption, ConfigAssumption, IdAssumption, FailureAssumption, BoundsAssumption

-----------------------------------------------------------------------------
(* What the operators return. *)

LEMMA ConstantTypes ==
  /\ NoHdr \in HdrType /\ ShortHdr \in HdrType /\ TornHdr \in HdrType /\ EmptyHdr \in HdrType
  /\ HdrOk(NoHdr) /\ HdrOk(ShortHdr) /\ HdrOk(TornHdr) /\ HdrOk(EmptyHdr)
  /\ NoTail \in TailType
  /\ EmptyBody \in BodyType /\ BodyOk(EmptyBody)
  /\ Nothing \in ContentType
<1>1. <<>> \in Seq(FrameType) /\ <<>> \in Seq(Parts) /\ DOMAIN <<>> = {}
  BY EmptySeq
<1> QED BY <1>1 DEF NoHdr, ShortHdr, TornHdr, EmptyHdr, HdrType, HdrOk, NoTail, TailType,
       EmptyBody, Body, BodyType, BodyOk, Nothing, ContentType

LEMMA OpTypes ==
  /\ NoOp \in OpType
  /\ \A k \in {"open", "reset"} : [NoOp EXCEPT !.kind = k] \in OpType
  /\ \A i \in SegIds, p \in Parts : [kind |-> "append", id |-> i, part |-> <<p>>] \in OpType
<1>1. <<>> \in Seq(Parts) /\ \A p \in Parts : <<p>> \in Seq(Parts)
  BY EmptySeq
<1> QED BY <1>1 DEF NoOp, OpType

LEMMA TornType ==
  ASSUME NEW h \in HdrType, NEW g \in HdrType
  PROVE  Torn(h, g) \in HdrType /\ HdrOk(Torn(h, g))
BY ConstantTypes DEF Torn, Mixed, HdrType, HdrOk

LEMMA PartialHeadersType ==
  ASSUME NEW hs \in SUBSET HdrType, NEW h \in HdrType
  PROVE  PartialHeaders(hs, h) \subseteq HdrType /\ \A g \in PartialHeaders(hs, h) : HdrOk(g)
BY TornType DEF PartialHeaders

\* A header write, whole or failed, leaves only headers.
LEMMA HeaderWritten ==
  ASSUME hdr \in HdrType, hdrs \subseteq HdrType, FileOk, NEW h \in HdrType, HdrOk(h),
         WriteHeader(h) \/ WriteHeaderFails(h)
  PROVE  /\ hdr' \in HdrType /\ hdrs' \subseteq HdrType
         /\ \A g \in hdrs' \cup {hdr'} : HdrOk(g)
<1>1. PartialHeaders(hdrs, h) \subseteq HdrType /\ \A g \in PartialHeaders(hdrs, h) : HdrOk(g)
  BY PartialHeadersType
<1>2. PartialHeaders({hdr}, h) \subseteq HdrType /\ \A g \in PartialHeaders({hdr}, h) : HdrOk(g)
  BY PartialHeadersType
<1> QED BY <1>1, <1>2 DEF WriteHeader, WriteHeaderFails, FileOk, Headers

\* A body write leaves only bodies.
LEMMA BodyWritten ==
  ASSUME body \in BodyType, bodies \subseteq BodyType, FileOk,
         NEW b \in BodyType, BodyOk(b),
         NEW partial \in SUBSET BodyType, \A c \in partial : BodyOk(c),
         WriteBody(b, partial)
  PROVE  /\ body' = b /\ bodies' \subseteq BodyType
         /\ \A c \in bodies' \cup {body'} : BodyOk(c)
BY DEF WriteBody, FileOk, Bodies

\* Another tail behind the same frames.
LEMMA SameFrames ==
  ASSUME NEW b \in BodyType, BodyOk(b), NEW t \in TailType, t = NoTail \/ t.len > 0
  PROVE  /\ Body(b.frames, t) \in BodyType /\ BodyOk(Body(b.frames, t))
BY DEF Body, BodyType, BodyOk

LEMMA TailTypes ==
  /\ \A n \in Nat : ShortTail(n) \in TailType /\ BadTail(n) \in TailType
       /\ ShortTail(n).len = n /\ BadTail(n).len = n
  /\ \A h \in HdrType : MarkerTail(h) \in TailType /\ MarkerTail(h).len = MarkerLen
BY ConstantTypes DEF ShortTail, BadTail, MarkerTail, TailType

LEMMA LastFrame ==
  ASSUME NEW b \in BodyType, b.frames # <<>>
  PROVE  /\ Len(b.frames) \in DOMAIN b.frames
         /\ Len(b.frames) \in Nat \ {0}
         /\ b.frames[Len(b.frames)] \in FrameType
<1>1. b.frames \in Seq(FrameType)
  BY DEF BodyType
<1>2. Len(b.frames) \in Nat \ {0}
  BY <1>1, EmptySeq
<1>3. DOMAIN b.frames = 1..Len(b.frames)
  BY <1>1, LenProperties
<1>4. b.frames[Len(b.frames)] \in FrameType
  BY <1>1, <1>2, ElementOfSeq
<1> QED BY <1>2, <1>3, <1>4

LEMMA FramesEndType ==
  ASSUME NEW b \in BodyType
  PROVE  FramesEnd(b.frames) \in Nat
BY LastFrame DEF FramesEnd, FrameType

LEMMA FileLenType ==
  ASSUME NEW h \in HdrType, NEW b \in BodyType
  PROVE  FileLen(h, b) \in Nat
BY FramesEndType DEF FileLen, BodyType, TailType

LEMMA ContentOfType ==
  ASSUME NEW h \in HdrType, NEW b \in BodyType
  PROVE  Content(h, b.frames) \in ContentType
<1> DEFINE ps == [i \in DOMAIN b.frames |-> b.frames[i].part]
<1>1. b.frames \in Seq(FrameType)
  BY DEF BodyType
<1>2. ps \in Seq(Parts)
  <2>1. DOMAIN b.frames = 1..Len(b.frames) /\ Len(b.frames) \in Nat
    BY <1>1, LenProperties
  <2>2. \A i \in 1..Len(b.frames) : b.frames[i] \in FrameType
    BY <1>1, ElementOfSeq
  <2>3. ps \in [1..Len(b.frames) -> Parts]
    BY <2>1, <2>2 DEF FrameType
  <2> QED BY <2>1, <2>3, SeqDef
<1> HIDE DEF ps
<1>3. h.id \in SegIds \cup {NoId}
  BY DEF HdrType
<1> QED BY <1>2, <1>3, ConstantTypes DEF Content, ContentType, ps

LEMMA WithType ==
  ASSUME NEW c \in ContentType, NEW i \in SegIds, NEW p \in Parts
  PROVE  With(c, i, p) \in ContentType
<1>1. Append(c.parts, p) \in Seq(Parts)
  BY AppendProperties DEF ContentType
<1> QED BY <1>1 DEF With, ContentType

\* The references to the frames of a body.
LEMMA RefsOfFrames ==
  ASSUME NEW b \in BodyType, BodyOk(b), NEW g \in Nat
  PROVE  /\ RefsOf(b.frames, g) \in Seq(RefType)
         /\ Len(RefsOf(b.frames, g)) = Len(b.frames)
         /\ DOMAIN RefsOf(b.frames, g) = DOMAIN b.frames
         /\ \A i \in DOMAIN b.frames :
              /\ RefsOf(b.frames, g)[i] \in RefType
              /\ RefsOf(b.frames, g)[i].offset = b.frames[i].at + FrameHeaderLen
              /\ RefsOf(b.frames, g)[i].len = b.frames[i].len - FrameHeaderLen
              /\ RefsOf(b.frames, g)[i].gen = g
<1> DEFINE rs == RefsOf(b.frames, g)
<1>1. b.frames \in Seq(FrameType)
  BY DEF BodyType
<1>2. DOMAIN b.frames = 1..Len(b.frames) /\ Len(b.frames) \in Nat
  BY <1>1, LenProperties
<1>3. \A i \in 1..Len(b.frames) : b.frames[i] \in FrameType
  BY <1>1, ElementOfSeq
<1>4. \A i \in 1..Len(b.frames) : rs[i] = [offset |-> b.frames[i].at + FrameHeaderLen,
                                           len |-> b.frames[i].len - FrameHeaderLen, gen |-> g]
  BY <1>2 DEF RefsOf
<1>5. \A i \in 1..Len(b.frames) : rs[i] \in RefType
  <2> SUFFICES ASSUME NEW i \in 1..Len(b.frames) PROVE rs[i] \in RefType
    OBVIOUS
  <2>1. b.frames[i].at \in Nat /\ b.frames[i].len \in Nat
    BY <1>3 DEF FrameType
  <2>2. b.frames[i].len > FrameHeaderLen
    BY <1>2 DEF BodyOk
  <2>3. b.frames[i].at + FrameHeaderLen \in Nat /\ b.frames[i].len - FrameHeaderLen \in Nat
    BY <2>1, <2>2
  <2>4. rs[i] = [offset |-> b.frames[i].at + FrameHeaderLen,
                 len |-> b.frames[i].len - FrameHeaderLen, gen |-> g]
    BY <1>4
  <2>5. g \in Nat
    OBVIOUS
  <2> HIDE DEF rs
  <2> QED BY ONLY <2>3, <2>4, <2>5 DEF RefType
<1>6. rs \in [1..Len(b.frames) -> RefType]
  BY <1>2, <1>5 DEF RefsOf
<1>7. rs \in Seq(RefType)
  BY <1>2, <1>6, SeqDef
<1>8. DOMAIN rs = 1..Len(rs) /\ Len(rs) \in Nat
  BY <1>7, LenProperties
<1>9. Len(rs) = Len(b.frames)
  BY <1>2, <1>6, <1>8
<1>10. \A i \in 1..Len(b.frames) : /\ rs[i].offset = b.frames[i].at + FrameHeaderLen
                                    /\ rs[i].len = b.frames[i].len - FrameHeaderLen
                                    /\ rs[i].gen = g
  <2> SUFFICES ASSUME NEW i \in 1..Len(b.frames)
               PROVE  /\ rs[i].offset = b.frames[i].at + FrameHeaderLen
                      /\ rs[i].len = b.frames[i].len - FrameHeaderLen
                      /\ rs[i].gen = g
    OBVIOUS
  <2>1. rs[i] = [offset |-> b.frames[i].at + FrameHeaderLen,
                 len |-> b.frames[i].len - FrameHeaderLen, gen |-> g]
    BY <1>4
  <2> HIDE DEF rs
  <2> QED BY <2>1
<1> QED BY <1>2, <1>5, <1>6, <1>7, <1>9, <1>10

-----------------------------------------------------------------------------
(* What the handle knows of the file. *)

LEMMA PartsType ==
  ASSUME TypeOK
  PROVE  /\ DOMAIN parts = 1..Len(parts) /\ Len(parts) \in Nat
         /\ parts = <<>> <=> Len(parts) = 0
         /\ \A i \in 1..Len(parts) : parts[i] \in RefType
         /\ DOMAIN body.frames = 1..Len(body.frames) /\ Len(body.frames) \in Nat
         /\ body.frames = <<>> <=> Len(body.frames) = 0
         /\ \A i \in 1..Len(body.frames) : body.frames[i] \in FrameType
<1>1. parts \in Seq(RefType) /\ body.frames \in Seq(FrameType)
  BY DEF TypeOK, BodyType
<1>2. DOMAIN parts = 1..Len(parts) /\ Len(parts) \in Nat /\ (parts = <<>> <=> Len(parts) = 0)
  BY <1>1, LenProperties, EmptySeq
<1>3. /\ DOMAIN body.frames = 1..Len(body.frames) /\ Len(body.frames) \in Nat
      /\ body.frames = <<>> <=> Len(body.frames) = 0
  BY <1>1, LenProperties, EmptySeq
<1>4. \A i \in 1..Len(parts) : parts[i] \in RefType
  BY <1>1, ElementOfSeq
<1>5. \A i \in 1..Len(body.frames) : body.frames[i] \in FrameType
  BY <1>1, ElementOfSeq
<1> QED BY <1>2, <1>3, <1>4, <1>5

\* The known frames end where the handle thinks the file ends.
LEMMA KnownEnds ==
  ASSUME TypeOK, BodyOk(body), Known
  PROVE  /\ end >= HeaderLen
         /\ \A i \in 1..Len(parts) : body.frames[i].at + body.frames[i].len <= end
<1>1. CASE parts = <<>>
  BY <1>1, PartsType DEF Known
<1>2. CASE parts # <<>>
  <2> DEFINE n == Len(parts)
  <2>1. n \in 1..n /\ n \in DOMAIN body.frames /\ n \in DOMAIN parts
    BY <1>2, PartsType DEF Known
  <2>2. \A i \in 1..n : body.frames[i].at \in Nat /\ body.frames[i].len \in Nat
    BY PartsType DEF Known, FrameType
  <2>3. end = body.frames[n].at + body.frames[n].len
    BY <1>2, <2>1, <2>2 DEF Known
  <2>4. \A i \in 1..n : i < n => body.frames[i].at + body.frames[i].len <= body.frames[n].at
    BY <2>1, PartsType DEF BodyOk, Known
  <2>5. body.frames[n].at >= HeaderLen
    BY <2>1 DEF BodyOk
  <2> HIDE DEF n
  <2>6. n \in Nat
    BY PartsType DEF n
  <2>7. \A i \in 1..n : body.frames[i].at + body.frames[i].len <= end
    BY <2>1, <2>2, <2>3, <2>4, <2>6
  <2> QED BY <2>1, <2>2, <2>3, <2>5, <2>7 DEF n
<1> QED BY <1>1, <1>2

\* Known looks only at the known frames.
LEMMA KnownKept ==
  ASSUME TypeOK, Known, UNCHANGED <<parts, gen, end>>,
         Len(parts) <= Len(body'.frames),
         \A i \in 1..Len(parts) : body'.frames[i] = body.frames[i]
  PROVE  Known'
BY PartsType DEF Known

\* Rollback cuts the file exactly behind the known frames.
LEMMA TruncatedToKnown ==
  ASSUME TypeOK, BodyOk(body), Known,
         NoMore \/ (OneMore /\ body.frames[Len(body.frames)].at = end),
         NEW b, b = Truncated(body, end)
  PROVE  /\ b \in BodyType /\ BodyOk(b)
         /\ b.tail = NoTail /\ Len(b.frames) = Len(parts)
         /\ \A i \in 1..Len(parts) : b.frames[i] = body.frames[i]
<1> DEFINE fs == body.frames
           n == Len(parts)
           P(k) == \A i \in DOMAIN fs : i <= k <=> fs[i].at + fs[i].len <= end
           cut == CHOOSE k \in 0..Len(fs) : P(k)
<1>1. n \in 0..Len(fs) /\ DOMAIN fs = 1..Len(fs) /\ Len(fs) \in Nat
  BY PartsType DEF Known
<1>2. P(n)
  <2>1. \A i \in 1..n : fs[i].at + fs[i].len <= end
    BY KnownEnds
  <2>2. \A i \in 1..Len(fs) : i > n => ~(fs[i].at + fs[i].len <= end)
    <3> SUFFICES ASSUME NEW i \in 1..Len(fs), i > n PROVE ~(fs[i].at + fs[i].len <= end)
      OBVIOUS
    <3>1. i = Len(fs) /\ fs[i].at = end
      BY <1>1 DEF NoMore, OneMore
    <3>2. fs[i].len > FrameHeaderLen /\ fs[i].len \in Nat /\ fs[i].at \in Nat
      BY PartsType DEF BodyOk, FrameType
    <3> QED BY <3>1, <3>2
  <2> QED BY <1>1, <2>1, <2>2
<1>3. \A k \in 0..Len(fs) : P(k) => k = n
  <2> SUFFICES ASSUME NEW k \in 0..Len(fs), P(k), k # n PROVE FALSE
    OBVIOUS
  <2>1. CASE k < n
    BY <1>1, <1>2, <2>1
  <2>2. CASE n < k
    BY <1>1, <1>2, <2>2
  <2> QED BY <1>1, <2>1, <2>2
<1> HIDE DEF P
<1>4. cut = n
  BY <1>1, <1>2, <1>3
<1>5. b = Body(SubSeq(fs, 1, n), NoTail)
  BY <1>4 DEF Truncated, P
<1> HIDE DEF cut
<1>6. \A i \in 1..n : fs[i] \in FrameType
  BY <1>1, PartsType
<1>7. /\ SubSeq(fs, 1, n) \in Seq(FrameType) /\ Len(SubSeq(fs, 1, n)) = n
      /\ \A i \in 1..n : SubSeq(fs, 1, n)[i] = fs[i]
  BY <1>1, <1>6, SubSeqProperties
<1>8. DOMAIN SubSeq(fs, 1, n) = 1..n
  BY <1>7, LenProperties
<1>9. b.frames = SubSeq(fs, 1, n) /\ b.tail = NoTail /\ b \in BodyType
  BY <1>5, <1>7, ConstantTypes DEF Body, BodyType
<1>10. BodyOk(b)
  BY <1>1, <1>7, <1>8, <1>9 DEF BodyOk
<1> QED BY <1>7, <1>9, <1>10

\* The frame being appended goes behind the known ones.
LEMMA FrameAppended ==
  ASSUME TypeOK, BodyOk(body), Known, NoMore, NEW p \in Parts, op.part = <<p>>,
         NEW b, b = Body(Append(body.frames, NewFrame), NoTail)
  PROVE  /\ b \in BodyType /\ BodyOk(b)
         /\ b.tail = NoTail /\ Len(b.frames) = Len(parts) + 1
         /\ b.frames[Len(b.frames)] = NewFrame
         /\ \A i \in 1..Len(parts) : b.frames[i] = body.frames[i]
<1> DEFINE fs == body.frames
           n == Len(parts)
<1>1. fs \in Seq(FrameType) /\ Len(fs) = n /\ n \in Nat /\ DOMAIN fs = 1..n
  BY PartsType DEF NoMore, TypeOK, BodyType
<1>2. NewFrame \in FrameType /\ NewFrame.at = end /\ NewFrame.len > FrameHeaderLen
  BY DEF NewFrame, Frame, FrameType, TypeOK
<1>3. /\ Append(fs, NewFrame) \in Seq(FrameType) /\ Len(Append(fs, NewFrame)) = n + 1
      /\ \A i \in 1..n : Append(fs, NewFrame)[i] = fs[i]
      /\ Append(fs, NewFrame)[n + 1] = NewFrame
  BY <1>1, <1>2, AppendProperties
<1>4. DOMAIN Append(fs, NewFrame) = 1..(n + 1)
  BY <1>3, LenProperties
<1>5. b.frames = Append(fs, NewFrame) /\ b.tail = NoTail /\ b \in BodyType
  BY <1>3, ConstantTypes DEF Body, BodyType
<1>6. \A i \in 1..n : fs[i].at + fs[i].len <= end
  BY KnownEnds
<1>7. end >= HeaderLen
  BY KnownEnds
<1>8. BodyOk(b)
  <2> SUFFICES ASSUME NEW i \in 1..(n + 1)
               PROVE  /\ b.frames[i].at >= HeaderLen /\ b.frames[i].len > FrameHeaderLen
                      /\ \A j \in 1..(n + 1) :
                           i < j => b.frames[i].at + b.frames[i].len <= b.frames[j].at
    BY <1>4, <1>5 DEF BodyOk
  <2>1. CASE i = n + 1
    <3>1. b.frames[i] = NewFrame
      BY <1>3, <1>5, <2>1
    <3>2. \A j \in 1..(n + 1) : ~(i < j)
      BY <1>1, <2>1
    <3> QED BY <1>2, <1>7, <3>1, <3>2
  <2>2. CASE i # n + 1
    <3>1. i \in 1..n /\ b.frames[i] = fs[i]
      BY <1>1, <1>3, <1>5, <2>2
    <3>2. \A j \in 1..n : i < j => b.frames[i].at + b.frames[i].len <= b.frames[j].at
      BY <1>1, <1>3, <1>5, <3>1 DEF BodyOk
    <3>3. b.frames[i].at + b.frames[i].len <= b.frames[n + 1].at
      BY <1>2, <1>3, <1>5, <1>6, <3>1
    <3>4. b.frames[i].at >= HeaderLen /\ b.frames[i].len > FrameHeaderLen
      BY <1>1, <3>1 DEF BodyOk
    <3>5. \A j \in 1..(n + 1) : j \in 1..n \/ j = n + 1
      BY <1>1
    <3>6. \A j \in 1..(n + 1) :
            i < j => b.frames[i].at + b.frames[i].len <= b.frames[j].at
      BY <3>2, <3>3, <3>5
    <3> QED BY <3>4, <3>6
  <2> QED BY <2>1, <2>2
<1> QED BY <1>3, <1>5, <1>8

LEMMA CurrentHeaderType ==
  ASSUME TypeOK, Known, seg = NoId <=> parts = <<>>
  PROVE  CurrentHeader \in HdrType /\ HdrOk(CurrentHeader)
BY DEF TypeOK, Known, CurrentHeader, EmptyHdr, ActiveHdr, HdrType, HdrOk

-----------------------------------------------------------------------------
(* Opening. *)

\* Without a handle little is promised: the file is well formed, nothing is
\* acknowledged under a name that may vanish.
LEMMA Unserved ==
  ASSUME TypeOK', FileOk', OpByPc', ~Serving', ~poisoned', EntryDurable',
         pc' \notin {"rollback_truncate", "rollback_header", "rollback_sync"},
         pc' \in {"sync_empty", "truncate", "final_sync"} => hdr' = EmptyHdr,
         pc' = "final_sync" => body' = EmptyBody,
         pc' = "sync_root" => OpenVerdict(hdr', body') = "ok",
         \A x \in issued' : x.ref.gen < nextGen'
  PROVE  IInv'
<1>1. FileByPc'
  BY DEF FileByPc, Serving, Appending, RollingBack, Marking
<1>2. HandleOk'
  BY DEF HandleOk
<1> QED BY <1>1, <1>2 DEF IInv

LEMMA OpenStep ==
  ASSUME IInv, NEW m \in MaxLens, Open(m)
  PROVE  IInv'
<1>1. TypeOK' /\ FileOk'
  BY OpTypes DEF IInv, TypeOK, FileOk, Headers, Bodies, Open, Sync, Pcs, Rets, ghost
<1>2. pc' \in {"init_header", "inspect"} /\ ~Serving'
  BY DEF Open, Serving, Appending, RollingBack, Marking, Finishing
<1>3. ~poisoned' /\ OpByPc'
  BY DEF IInv, Open, Serving, Appending, RollingBack, Marking, Finishing, OpByPc, NoOp
<1>4. EntryDurable' /\ \A x \in issued' : x.ref.gen < nextGen'
  BY DEF IInv, Open, EntryDurable, ghost
<1> QED BY <1>1, <1>2, <1>3, <1>4, Unserved

LEMMA InitHeaderStep ==
  ASSUME IInv, InitHeader
  PROVE  IInv'
<1>1. TypeOK' /\ FileOk'
  <2>1. hdr' \in HdrType /\ hdrs' \subseteq HdrType /\ \A g \in hdrs' \cup {hdr'} : HdrOk(g)
    BY HeaderWritten, ConstantTypes DEF IInv, TypeOK, InitHeader
  <2> QED BY <2>1, OpTypes DEF IInv, TypeOK, FileOk, Headers, Bodies, InitHeader, Refuse, IoError, Pcs, Rets,
                     ghost, handle
<1>2. pc' \in {"init_sync", "closed"} /\ ~Serving'
  BY DEF InitHeader, Refuse, Serving, Appending, RollingBack, Marking, Finishing
<1>3. ~poisoned' /\ OpByPc'
  BY DEF IInv, InitHeader, Refuse, Serving, Appending, RollingBack, Marking, Finishing, OpByPc, NoOp,
         handle
<1>4. EntryDurable' /\ \A x \in issued' : x.ref.gen < nextGen'
  BY DEF IInv, InitHeader, EntryDurable, ghost
<1> QED BY <1>1, <1>2, <1>3, <1>4, Unserved

LEMMA InitSyncStep ==
  ASSUME IInv, InitSync
  PROVE  IInv'
<1>1. TypeOK' /\ FileOk'
  <2>1. /\ UNCHANGED <<linked, hdr, body, handle, nextGen, ghost, crashes>>
        /\ \/ hdrs' = {hdr} /\ bodies' = {body} /\ pc' = "inspect" /\ UNCHANGED <<op, ret, faults>>
           \/ pc' = "closed" /\ op' = NoOp /\ ret' = "io" /\ IoError /\ UNCHANGED <<hdrs, bodies>>
    BY DEF InitSync, Sync, Refuse
  <2>2. TypeOK'
    <3>1. TypeOK
      BY DEF IInv
    <3>2. CASE hdrs' = {hdr} /\ bodies' = {body} /\ pc' = "inspect" /\ UNCHANGED <<op, ret, faults>>
      BY ONLY <2>1, <3>1, <3>2 DEF TypeOK, Pcs, ghost, handle
    <3>3. CASE pc' = "closed" /\ op' = NoOp /\ ret' = "io" /\ IoError /\ UNCHANGED <<hdrs, bodies>>
      BY ONLY <2>1, <3>1, <3>3, OpTypes DEF TypeOK, IoError, Pcs, Rets, ghost, handle
    <3> QED BY ONLY <2>1, <3>2, <3>3
  <2>3. FileOk'
    BY <2>1 DEF IInv, FileOk, Headers, Bodies
  <2> QED BY <2>2, <2>3
<1>2. pc' \in {"inspect", "closed"} /\ ~Serving'
  BY DEF InitSync, Refuse, Serving, Appending, RollingBack, Marking, Finishing
<1>3. ~poisoned' /\ OpByPc'
  BY DEF IInv, InitSync, Refuse, Serving, Appending, RollingBack, Marking, Finishing, OpByPc, NoOp, handle
<1>4. EntryDurable' /\ \A x \in issued' : x.ref.gen < nextGen'
  BY DEF IInv, InitSync, EntryDurable, ghost
<1> QED BY <1>1, <1>2, <1>3, <1>4, Unserved

LEMMA InspectStep ==
  ASSUME IInv, Inspect
  PROVE  IInv'
<1> DEFINE verdict == OpenVerdict(hdr, body)
<1>1. verdict \in Localized \cup {"ok"}
  BY DEF OpenVerdict, Localized
<1>2. /\ pc' \in {"closed", "empty_header", "init_header", "sync_root"}
      /\ IF pc' = "closed" THEN op' = NoOp /\ ret' \in Localized ELSE UNCHANGED <<op, ret>>
      /\ pc' = "sync_root" => verdict = "ok"
  BY <1>1 DEF Inspect, Refuse, Localized
<1> HIDE DEF verdict
<1>3. UNCHANGED <<file, handle, nextGen, ghost, faults, crashes>> /\ pc = "inspect"
  BY DEF Inspect
<1>4. op.kind = "open" /\ op' \in {op, NoOp}
  BY <1>2, <1>3 DEF IInv, OpByPc
<1>5. TypeOK' /\ FileOk'
  BY <1>2, <1>3, <1>4, OpTypes DEF IInv, TypeOK, FileOk, Headers, Bodies, Pcs, Rets, ghost, handle, file
<1>6. ~Serving' /\ ~poisoned' /\ OpByPc'
  BY <1>2, <1>3, <1>4
     DEF IInv, Serving, Appending, RollingBack, Marking, Finishing, OpByPc, NoOp, handle
<1>7. EntryDurable' /\ \A x \in issued' : x.ref.gen < nextGen'
  BY <1>3 DEF IInv, EntryDurable, ghost, file
<1>8. pc' = "sync_root" => OpenVerdict(hdr', body') = "ok"
  BY <1>2, <1>3 DEF verdict, file
<1> QED BY <1>2, <1>5, <1>6, <1>7, <1>8, Unserved

\* A file that passes the checks of Journal::open is exactly what its header says.
LEMMA VerifiedFile ==
  ASSUME TypeOK, HdrOk(hdr), BodyOk(body), OpenVerdict(hdr, body) = "ok"
  PROVE  /\ body.tail = NoTail
         /\ hdr.end = FileLen(hdr, body) /\ FileLen(hdr, body) = FramesEnd(body.frames)
         /\ \/ hdr.kind = "empty" /\ hdr = EmptyHdr /\ body.frames = <<>>
            \/ hdr.kind = "active" /\ hdr.id \in SegIds /\ body.frames # <<>>
<1>1. /\ hdr.kind \in {"empty", "active"} /\ hdr.end = FileLen(hdr, body)
      /\ hdr.kind = "active" => body.tail = NoTail /\ body.frames # <<>>
  BY DEF OpenVerdict
<1>2. hdr \in HdrType /\ body \in BodyType /\ body.tail \in TailType
  BY DEF TypeOK, BodyType
<1>3. FileLen(hdr, body) = FramesEnd(body.frames) + body.tail.len
  BY <1>1 DEF FileLen
<1>4. FramesEnd(body.frames) \in Nat /\ body.tail.len \in Nat
  BY <1>2, FramesEndType DEF TailType
<1>5. CASE hdr.kind = "empty"
  <2>1. hdr = EmptyHdr /\ FramesEnd(body.frames) + body.tail.len = HeaderLen
    BY <1>1, <1>3, <1>5 DEF HdrOk, EmptyHdr
  <2>2. body.frames # <<>> => FramesEnd(body.frames) > HeaderLen
    BY <1>2, LastFrame DEF FramesEnd, BodyOk, FrameType
  <2>3. body.frames = <<>> => FramesEnd(body.frames) = HeaderLen
    BY DEF FramesEnd
  <2>4. body.frames = <<>> /\ body.tail.len = 0
    BY <1>4, <2>1, <2>2, <2>3
  <2>5. body.tail = NoTail
    BY <2>4 DEF BodyOk
  <2> QED BY <1>1, <1>3, <1>4, <1>5, <2>1, <2>4, <2>5
<1>6. CASE hdr.kind = "active"
  <2>1. body.tail.len = 0
    BY <1>1, <1>6 DEF NoTail
  <2> QED BY <1>1, <1>3, <1>4, <1>6, <2>1 DEF HdrOk
<1> QED BY <1>1, <1>5, <1>6

\* Opened handles know the whole file.
LEMMA SyncRootSucceeds ==
  ASSUME IInv, SyncRoot, RootSynced, Opened, UNCHANGED faults
  PROVE  IInv'
<1> DEFINE fs == body.frames
<1>1. TypeOK /\ FileOk /\ HdrOk(hdr) /\ BodyOk(body) /\ OpenVerdict(hdr, body) = "ok"
  BY DEF IInv, SyncRoot, FileByPc, FileOk, Headers, Bodies
<1>2. UNCHANGED <<hdr, body, hdrs, bodies, max, acked, pending, crashes>> /\ pc' = "idle" /\ op' = NoOp
  BY DEF SyncRoot, Opened, Return
<1>23. gen' = nextGen /\ nextGen' = nextGen + 1 /\ ~poisoned' /\ seg' = hdr.id
  BY DEF Opened
<1>3. /\ parts' \in Seq(RefType) /\ Len(parts') = Len(fs) /\ DOMAIN parts' = DOMAIN fs
      /\ \A i \in DOMAIN fs : /\ parts'[i] \in RefType
                             /\ parts'[i].offset = fs[i].at + FrameHeaderLen
                             /\ parts'[i].len = fs[i].len - FrameHeaderLen
                             /\ parts'[i].gen = nextGen
  <2>1. parts' = RefsOf(fs, nextGen)
    BY DEF Opened
  <2>2. body \in BodyType /\ BodyOk(body) /\ nextGen \in Nat
    BY <1>1 DEF TypeOK
  <2> QED BY <2>1, <2>2, RefsOfFrames
<1>4. \A i \in DOMAIN fs : fs[i] \in FrameType
  BY <1>1, PartsType
<1>5. issued' = issued \cup {[ref |-> parts'[i], part |-> fs[i].part] : i \in DOMAIN fs}
  BY DEF Issue, Opened
<1>6. \A x \in issued' : \/ x \in issued
                         \/ \E i \in DOMAIN fs : x = [ref |-> parts'[i], part |-> fs[i].part]
  BY <1>5
<1>7. issued' \subseteq [ref : RefType, part : Parts]
  <2>1. \A i \in DOMAIN fs : parts'[i] \in RefType
    BY <1>1, <1>3, PartsType, ElementOfSeq
  <2>2. \A i \in DOMAIN fs : fs[i].part \in Parts
    BY <1>4 DEF FrameType
  <2> QED BY <1>1, <1>6, <2>1, <2>2 DEF TypeOK
<1>8. /\ body.tail = NoTail /\ hdr.end = end' /\ end' = FramesEnd(fs)
      /\ \/ hdr.kind = "empty" /\ hdr = EmptyHdr /\ fs = <<>>
         \/ hdr.kind = "active" /\ hdr.id \in SegIds /\ fs # <<>>
  BY <1>1, VerifiedFile DEF Opened
<1>9. TypeOK'
  <2>1. end' \in Nat /\ seg' \in SegIds \cup {NoId}
    BY <1>1, FileLenType DEF TypeOK, HdrType, Opened
  <2>2. adopted' \in BOOLEAN /\ poisoned' \in BOOLEAN
    BY DEF Opened
  <2>3. linked' = "durable" /\ ret' = "ok" /\ gen' \in Nat /\ nextGen' \in Nat
    BY <1>1 DEF RootSynced, Return, TypeOK, Opened
  <2> QED BY <1>1, <1>2, <1>3, <1>7, <2>1, <2>2, <2>3, OpTypes DEF TypeOK, Pcs, Rets
<1>10. FileOk' /\ OpByPc'
  BY <1>1, <1>2 DEF FileOk, Headers, Bodies, OpByPc, NoOp, Appending, RollingBack, Marking, Finishing
<1>11. Known' /\ NoMore'
  <2>1. Len(parts') = Len(body'.frames)
    BY <1>2, <1>3
  <2>2. \A i \in DOMAIN parts' : /\ parts'[i].offset = body'.frames[i].at + FrameHeaderLen
                                /\ parts'[i].len = body'.frames[i].len - FrameHeaderLen
                                /\ parts'[i].gen = gen'
    BY <1>2, <1>3, <1>23
  <2>3. CASE fs = <<>>
    <3>1. parts' = <<>> /\ end' = HeaderLen
      BY <1>3, <1>8, <2>3, EmptySeq DEF FramesEnd
    <3> QED BY <1>3, <2>1, <2>2, <3>1, <1>1, PartsType DEF Known, NoMore
  <2>4. CASE fs # <<>>
    <3>1. parts' # <<>> /\ Len(fs) \in DOMAIN fs /\ end' = fs[Len(fs)].at + fs[Len(fs)].len
      BY <1>1, <1>3, <1>8, <2>4, EmptySeq, PartsType DEF FramesEnd
    <3>2. parts'[Len(parts')].offset + parts'[Len(parts')].len = end'
      <4>1. fs[Len(fs)].at \in Nat /\ fs[Len(fs)].len \in Nat
        BY <1>4, <3>1 DEF FrameType
      <4> QED BY <1>3, <3>1, <4>1
    <3> QED BY <1>3, <2>1, <2>2, <3>1, <3>2, <1>1, PartsType DEF Known, NoMore
  <2> QED BY <2>3, <2>4
<1>12. fs = <<>> <=> parts' = <<>>
  BY <1>1, <1>3, PartsType, EmptySeq
<1>13. Unchanged'
  <2>1. hdr' = CurrentHeader'
    BY <1>1, <1>2, <1>8, <1>23 DEF CurrentHeader, EmptyHdr, ActiveHdr, TypeOK, HdrType
  <2> QED BY <1>2, <1>8, <1>11, <2>1 DEF Unchanged
<1>14. FileByPc'
  BY <1>2, <1>13, <1>23 DEF FileByPc
<1>15. nextGen \in Nat /\ \A x \in issued : x.ref.gen < nextGen /\ x.ref.gen \in Nat
  BY <1>1 DEF IInv, TypeOK, RefType
<1>16. \A x \in issued' :
         /\ x.ref.gen <= gen'
         /\ x.ref.gen = gen' =>
              \E i \in DOMAIN parts' : parts'[i] = x.ref /\ body'.frames[i].part = x.part
  <2> SUFFICES ASSUME NEW x \in issued'
               PROVE  /\ x.ref.gen <= gen'
                      /\ x.ref.gen = gen' =>
                           \E i \in DOMAIN parts' : parts'[i] = x.ref /\ body'.frames[i].part = x.part
    OBVIOUS
  <2>1. CASE x \in issued
    BY <1>15, <1>23, <2>1
  <2>2. CASE \E i \in DOMAIN fs : x = [ref |-> parts'[i], part |-> fs[i].part]
    <3>1. PICK i \in DOMAIN fs : x = [ref |-> parts'[i], part |-> fs[i].part]
      BY <2>2
    <3>2. x.ref = parts'[i] /\ x.part = body'.frames[i].part /\ i \in DOMAIN parts'
      BY <1>2, <1>3, <3>1
    <3>3. parts'[i].gen = nextGen
      BY <1>3
    <3> QED BY <1>15, <1>23, <3>2, <3>3
  <2> QED BY <1>6, <2>1, <2>2
<1>17. seg' = NoId <=> parts' = <<>>
  BY <1>8, <1>12, <1>23 DEF EmptyHdr
<1>18. HandleOk'
  <2>1. gen' < nextGen' /\ linked' = "durable" /\ ~poisoned'
    BY <1>15, <1>23 DEF RootSynced
  <2>2. op'.kind # "reset" /\ pc' \notin Appending /\ pc' \notin Finishing
    BY <1>2 DEF Appending, Finishing, NoOp
  <2>3. ~adopted' => parts' = <<>>
    BY <1>12 DEF Opened
  <2> QED BY <1>2, <1>12, <1>16, <1>17, <2>1, <2>2, <2>3 DEF HandleOk
<1>19. EntryDurable' /\ (~Serving' => ~poisoned') /\ \A x \in issued' : x.ref.gen < nextGen'
  <2>1. \A x \in issued' : x.ref.gen \in Nat
    BY <1>7 DEF RefType
  <2>2. \A x \in issued' : x.ref.gen < nextGen'
    BY <1>15, <1>16, <1>23, <2>1
  <2>3. EntryDurable' /\ ~poisoned'
    BY <1>23 DEF EntryDurable, RootSynced
  <2> QED BY <2>2, <2>3
<1> QED BY <1>9, <1>10, <1>14, <1>18, <1>19 DEF IInv

LEMMA SyncRootStep ==
  ASSUME IInv, SyncRoot
  PROVE  IInv'
<1>1. CASE /\ Refuse("io") /\ IoError
           /\ UNCHANGED <<linked, end, parts, gen, nextGen, seg, poisoned, adopted, issued>>
  <2>1. pc' = "closed" /\ op' = NoOp /\ ret' = "io"
    BY <1>1 DEF Refuse
  <2>2. TypeOK' /\ FileOk'
    BY <1>1, <2>1, OpTypes DEF IInv, TypeOK, FileOk, Headers, Bodies, SyncRoot, IoError, Pcs, Rets
  <2>3. ~Serving' /\ ~poisoned' /\ OpByPc'
    BY <1>1, <2>1 DEF IInv, SyncRoot, Serving, Appending, RollingBack, Marking, Finishing, OpByPc, NoOp
  <2>4. EntryDurable' /\ \A x \in issued' : x.ref.gen < nextGen'
    BY <1>1 DEF IInv, SyncRoot, EntryDurable
  <2> QED BY <2>1, <2>2, <2>3, <2>4, Unserved
<1>2. CASE ~(Refuse("io") /\ IoError
             /\ UNCHANGED <<linked, end, parts, gen, nextGen, seg, poisoned, adopted, issued>>)
  BY <1>2, SyncRootSucceeds DEF SyncRoot
<1> QED BY <1>1, <1>2

-----------------------------------------------------------------------------
(* Appending. *)

\* A call that returns at once changes nothing.
LEMMA Refusal ==
  ASSUME IInv, UNCHANGED <<file, pc, op, handle, nextGen, ghost, faults, crashes>>, ret' \in Rets
  PROVE  IInv'
<1>1. /\ UNCHANGED <<linked, hdr, body, hdrs, bodies, pc, op, max, end, parts, gen, seg>>
      /\ UNCHANGED <<poisoned, adopted, nextGen, acked, pending, issued, faults, crashes>>
  BY DEF file, handle, ghost
<1>2. TypeOK' /\ FileOk'
  BY <1>1 DEF IInv, TypeOK, FileOk, Headers, Bodies
<1>3. OpByPc' /\ (Serving' <=> Serving)
  BY <1>1 DEF IInv, OpByPc, Serving
<1>4. FileByPc'
  <2>1. Known' <=> Known
    BY <1>1 DEF Known
  <2>2. (NoMore' <=> NoMore) /\ (OneMore' <=> OneMore) /\ (HoldsNew' <=> HoldsNew)
    BY <1>1 DEF NoMore, OneMore, HoldsNew, NewFrame
  <2>3. CurrentHeader' = CurrentHeader /\ NewHeader' = NewHeader
    BY <1>1 DEF CurrentHeader, NewHeader, NewFrame
  <2>4. Unchanged' <=> Unchanged
    BY <1>1, <2>1, <2>2, <2>3 DEF Unchanged
  <2> QED BY <1>1, <2>1, <2>2, <2>3, <2>4 DEF IInv, FileByPc
<1>5. HandleOk'
  BY <1>1, <1>3 DEF IInv, HandleOk, FrameFits
<1> QED BY <1>1, <1>2, <1>3, <1>4, <1>5 DEF IInv, EntryDurable

\* What holds while a call is being served, up to the marker.
LEMMA InService ==
  ASSUME IInv, pc \in Appending \cup RollingBack \cup Marking
  PROVE  /\ TypeOK /\ FileOk /\ HdrOk(hdr) /\ BodyOk(body)
         /\ Serving /\ HandleOk /\ linked = "durable" /\ ~poisoned /\ Known
         /\ seg = NoId <=> parts = <<>>
         /\ CurrentHeader \in HdrType /\ HdrOk(CurrentHeader)
<1>1. TypeOK /\ FileOk /\ HdrOk(hdr) /\ BodyOk(body) /\ HandleOk /\ FileByPc
  BY DEF IInv, FileOk, Headers, Bodies
<1>2. Serving
  BY DEF Serving
<1>3. linked = "durable" /\ ~poisoned /\ (seg = NoId <=> parts = <<>>)
  BY <1>1, <1>2 DEF HandleOk, Appending, RollingBack, Marking
<1>4. Known
  BY <1>1 DEF FileByPc, Appending, RollingBack, Marking, Unchanged
<1>5. CurrentHeader \in HdrType /\ HdrOk(CurrentHeader)
  BY <1>1, <1>3, <1>4, CurrentHeaderType
<1> QED BY <1>1, <1>2, <1>3, <1>4, <1>5

\* Steps of a call that keep the handle and the known frames keep HandleOk.
LEMMA HandleKept ==
  ASSUME IInv, pc \in Appending \cup RollingBack \cup Marking,
         pc' \in Appending => pc \in Appending,
         UNCHANGED <<linked, op, max, end, parts, gen, seg, poisoned, adopted, nextGen, issued>>,
         \A i \in 1..Len(parts) : body'.frames[i] = body.frames[i]
  PROVE  HandleOk'
<1>1. HandleOk /\ Serving /\ ~poisoned /\ pc \notin Finishing
  BY InService DEF Appending, RollingBack, Marking, Finishing
<1>2. DOMAIN parts = 1..Len(parts)
  BY PartsType DEF IInv
<1>3. \A x \in issued : x.ref.gen = gen =>
        \E i \in DOMAIN parts : parts[i] = x.ref /\ body'.frames[i].part = x.part
  BY <1>1, <1>2 DEF HandleOk
<1>4. pc' \in Appending => ~adopted' /\ FrameFits(op.part[1])'
  BY <1>1 DEF HandleOk, FrameFits
<1>5. ~poisoned' /\ \A x \in issued' : x.ref.gen = gen' =>
        \E i \in DOMAIN parts' : parts'[i] = x.ref /\ body'.frames[i].part = x.part
  BY <1>1, <1>3
<1> QED BY <1>1, <1>4, <1>5 DEF HandleOk

\* What remains of IInv' for a step of a call.
LEMMA CallStep ==
  ASSUME IInv, pc \in Appending \cup RollingBack \cup Marking,
         pc' \in Appending \cup RollingBack \cup Marking,
         pc' \in Appending => pc \in Appending,
         pc' \in Marking => pc \in Marking,
         UNCHANGED <<linked, op, max, end, parts, gen, seg, poisoned, adopted, nextGen, ret, ghost, crashes>>,
         faults' \in Nat,
         hdr' \in HdrType, hdrs' \subseteq HdrType, body' \in BodyType, bodies' \subseteq BodyType,
         FileOk', FileByPc',
         \A i \in 1..Len(parts) : body'.frames[i] = body.frames[i]
  PROVE  IInv'
<1>1. TypeOK'
  BY DEF IInv, TypeOK, ghost, Pcs, Appending, RollingBack, Marking
<1>2. OpByPc'
  BY DEF IInv, OpByPc, Appending, RollingBack, Marking, Finishing
<1>3. HandleOk'
  BY HandleKept DEF ghost
<1>4. (~Serving' => ~poisoned') /\ EntryDurable' /\ \A x \in issued' : x.ref.gen < nextGen'
  BY DEF IInv, Serving, EntryDurable, ghost
<1> QED BY <1>1, <1>2, <1>3, <1>4 DEF IInv

LEMMA AppendCallStep ==
  ASSUME IInv, NEW i \in SegIds, NEW p \in Parts, AppendCall(i, p)
  PROVE  IInv'
<1>1. AppendRefusal(i, p) \in Rets /\ pc = "idle" /\ ~adopted
  BY DEF AppendRefusal, Rets, Localized, AppendCall
<1>2. CASE AppendRefusal(i, p) # "ok"
  BY <1>1, <1>2, Refusal DEF AppendCall, ghost
<1>3. CASE AppendRefusal(i, p) = "ok"
  <2>1. ~poisoned /\ seg \in {NoId, i} /\ FrameFits(p)
    BY <1>3 DEF AppendRefusal, SameSegment
  <2>2. /\ op' = [kind |-> "append", id |-> i, part |-> <<p>>]
        /\ pc' = IF parts = <<>> THEN "append_header" ELSE "append_frame"
        /\ pending' = pending \cup {With(Shown, i, p)}
        /\ UNCHANGED <<linked, hdr, body, hdrs, bodies, max, end, parts, gen, seg, poisoned, adopted,
                       nextGen, ret, acked, issued, faults, crashes>>
    BY <1>3 DEF AppendCall, file, handle
  <2>3. op'.kind = "append" /\ op'.id = i /\ op'.part = <<p>> /\ op'.part[1] = p
    BY <2>2
  <2>4. TypeOK /\ FileOk /\ Serving /\ HandleOk /\ FileByPc
    BY <1>1 DEF IInv, Serving
  <2>5. Unchanged /\ linked = "durable"
    BY <1>1, <2>1, <2>4 DEF FileByPc, HandleOk
  <2>6. With(Shown, i, p) \in ContentType
    BY <2>4, ContentOfType, WithType DEF Shown, TypeOK
  <2>7. op' \in OpType
    BY <2>2, OpTypes
  <2>8. TypeOK'
    BY <2>2, <2>4, <2>6, <2>7 DEF TypeOK, Pcs
  <2>9. FileOk' /\ OpByPc'
    BY <2>1, <2>2, <2>3, <2>4 DEF FileOk, Headers, Bodies, OpByPc, Appending, RollingBack, Marking, Finishing
  <2>10. Known' /\ NoMore' /\ body'.tail = NoTail
    BY <2>2, <2>5 DEF Unchanged, Known, NoMore
  <2>11. FileByPc'
    BY <2>2, <2>10 DEF FileByPc
  <2>12. HandleOk'
    <3>1. FrameFits(p)'
      BY <2>1, <2>2 DEF FrameFits
    <3>2. \A x \in issued' : x.ref.gen = gen' =>
            \E k \in DOMAIN parts' : parts'[k] = x.ref /\ body'.frames[k].part = x.part
      BY <1>1, <2>1, <2>2, <2>4 DEF HandleOk, Finishing
    <3> QED BY <1>1, <2>1, <2>2, <2>3, <2>4, <3>1, <3>2 DEF HandleOk
  <2>13. EntryDurable' /\ Serving' /\ \A x \in issued' : x.ref.gen < nextGen'
    BY <2>2, <2>5 DEF EntryDurable, Serving, Appending, IInv
  <2> QED BY <2>8, <2>9, <2>11, <2>12, <2>13 DEF IInv
<1> QED BY <1>2, <1>3

\* A poisoned handle promises nothing about the file.
LEMMA PoisonStep ==
  ASSUME IInv, Serving, ~poisoned, NEW result \in Rets, poisoned' = TRUE, Return(result), IoError,
         UNCHANGED <<linked, max, end, parts, gen, seg, adopted, nextGen, ghost, crashes>>,
         hdr' \in HdrType, hdrs' \subseteq HdrType, body' \in BodyType, bodies' \subseteq BodyType,
         FileOk'
  PROVE  IInv'
<1>1. pc' = "idle" /\ op' = NoOp /\ ret' \in Rets /\ faults' \in Nat
  BY DEF Return, IInv, TypeOK, IoError
<1>2. TypeOK'
  BY <1>1, OpTypes DEF IInv, TypeOK, ghost, Pcs
<1>3. OpByPc' /\ FileByPc'
  BY <1>1 DEF OpByPc, FileByPc, NoOp, Appending, RollingBack, Marking, Finishing
<1>4. HandleOk'
  BY <1>1 DEF IInv, HandleOk, NoOp, Appending, ghost
<1>5. (~Serving' => ~poisoned') /\ EntryDurable' /\ \A x \in issued' : x.ref.gen < nextGen'
  BY <1>1 DEF IInv, Serving, EntryDurable, ghost
<1> QED BY <1>2, <1>3, <1>4, <1>5 DEF IInv

LEMMA AppendHeaderStep ==
  ASSUME IInv, AppendHeader
  PROVE  IInv'
<1>1. /\ pc = "append_header"
      /\ UNCHANGED <<linked, body, bodies, op, max, end, parts, gen, seg, poisoned, adopted, nextGen,
                     ret, ghost, crashes>>
  BY DEF AppendHeader, handle
<1>2. TypeOK /\ FileOk /\ Known /\ FileByPc /\ OpByPc
  BY <1>1, InService DEF IInv, Appending
<1>3. body.tail = NoTail /\ IF parts = <<>> THEN NoMore ELSE HoldsNew
  BY <1>1, <1>2 DEF FileByPc
<1>4. PICK p \in Parts : op.part = <<p>>
  BY <1>1, <1>2 DEF OpByPc, Appending
<1>5. NewHeader \in HdrType /\ HdrOk(NewHeader)
  <2>1. op.id \in SegIds /\ NewFrame.len \in Nat /\ end \in Nat
    BY <1>1, <1>2, <1>4 DEF OpByPc, Appending, NewFrame, Frame, TypeOK
  <2> QED BY <2>1 DEF NewHeader, ActiveHdr, HdrType, HdrOk
<1>6. hdr' \in HdrType /\ hdrs' \subseteq HdrType /\ \A g \in hdrs' \cup {hdr'} : HdrOk(g)
  BY <1>2, <1>5, HeaderWritten DEF AppendHeader, TypeOK
<1>7. FileOk' /\ body' \in BodyType /\ bodies' \subseteq BodyType
  BY <1>1, <1>2, <1>6 DEF FileOk, Headers, Bodies, TypeOK
<1>8. Known' /\ (NoMore' <=> NoMore) /\ (HoldsNew' <=> HoldsNew) /\ (OneMore' <=> OneMore)
  BY <1>1, <1>2 DEF Known, NoMore, HoldsNew, OneMore, NewFrame
<1>9. NewHeader' = NewHeader
  BY <1>1 DEF NewHeader, NewFrame
<1>10. CASE WriteHeader(NewHeader) /\ UNCHANGED faults
            /\ pc' = IF parts = <<>> THEN "append_frame" ELSE "append_sync"
  <2>1. hdr' = NewHeader'
    BY <1>9, <1>10 DEF WriteHeader
  <2>2. FileByPc'
    BY <1>1, <1>3, <1>8, <1>10, <2>1 DEF FileByPc
  <2> QED BY <1>1, <1>2, <1>6, <1>7, <1>10, <2>2, CallStep DEF Appending, RollingBack, Marking, TypeOK
<1>11. CASE Fail
  <2>1. pc' = "rollback_truncate" /\ faults' \in Nat
    BY <1>2, <1>11 DEF Fail, IoError, TypeOK
  <2>2. NoMore' \/ (OneMore' /\ body'.frames[Len(body'.frames)].at = end')
    BY <1>1, <1>3, <1>8 DEF HoldsNew, NewFrame, Frame
  <2>3. FileByPc'
    BY <1>8, <2>1, <2>2 DEF FileByPc
  <2> QED BY <1>1, <1>2, <1>6, <1>7, <2>1, <2>3, CallStep DEF Appending, RollingBack, Marking
<1> QED BY <1>10, <1>11 DEF AppendHeader

\* The frames stay, the tail behind them changes.
LEMMA TailStep ==
  ASSUME IInv, pc \in Appending \cup RollingBack \cup Marking, NoMore,
         UNCHANGED <<linked, hdr, hdrs, op, max, end, parts, gen, seg, poisoned, adopted, nextGen,
                     ret, ghost, crashes>>,
         faults' \in Nat,
         body' \in BodyType, bodies' \subseteq BodyType, \A c \in bodies' \cup {body'} : BodyOk(c),
         body'.frames = body.frames,
         \/ pc' = "rollback_truncate"
         \/ pc = "append_frame" /\ pc' = "append_part"
         \/ pc = "write_marker" /\ pc' = "sync_marker"
  PROVE  IInv'
<1>1. TypeOK /\ FileOk /\ Known /\ FileByPc
  BY InService DEF IInv
<1>2. FileOk'
  BY <1>1 DEF FileOk, Headers, Bodies
<1>3. Known' /\ NoMore'
  BY <1>1 DEF Known, NoMore
<1>4. pc = "append_frame" /\ parts' = <<>> => hdr' = NewHeader'
  BY <1>1 DEF FileByPc, NewHeader, NewFrame
<1>5. FileByPc'
  BY <1>3, <1>4 DEF FileByPc
<1> QED BY <1>1, <1>2, <1>5, CallStep DEF Appending, RollingBack, Marking, TypeOK

LEMMA AppendFrameStep ==
  ASSUME IInv, AppendFrame
  PROVE  IInv'
<1>1. /\ pc = "append_frame"
      /\ UNCHANGED <<linked, hdr, hdrs, op, max, end, parts, gen, seg, poisoned, adopted, nextGen,
                     ret, ghost, crashes>>
  BY DEF AppendFrame, handle
<1>2. TypeOK /\ FileOk /\ BodyOk(body) /\ NoMore
  BY <1>1, InService DEF IInv, FileByPc, Appending
<1>3. CASE WriteBody(Body(body.frames, ShortTail(FrameHeaderLen)), {}) /\ pc' = "append_part" /\ UNCHANGED faults
  <2> DEFINE b == Body(body.frames, ShortTail(FrameHeaderLen))
  <2>1. b \in BodyType /\ BodyOk(b) /\ b.frames = body.frames
    <3>1. ShortTail(FrameHeaderLen) \in TailType /\ ShortTail(FrameHeaderLen).len > 0
      BY TailTypes, LengthsAssumption
    <3>2. b \in BodyType /\ BodyOk(b)
      BY <1>2, <3>1, SameFrames DEF TypeOK
    <3> QED BY <3>2 DEF Body
  <2>2. body' = b /\ bodies' \subseteq BodyType /\ \A c \in bodies' \cup {body'} : BodyOk(c)
    <3> HIDE DEF b
    <3>1. WriteBody(b, {})
      BY <1>3 DEF b
    <3> QED BY <1>2, <2>1, <3>1, BodyWritten DEF TypeOK
  <2> HIDE DEF b
  <2> QED BY <1>1, <1>2, <1>3, <2>1, <2>2, TailStep DEF Appending, TypeOK
<1>4. CASE Fail /\ UNCHANGED <<body, bodies>>
  BY <1>1, <1>2, <1>4, TailStep DEF Appending, TypeOK, Fail, IoError, FileOk, Bodies
<1> QED BY <1>3, <1>4 DEF AppendFrame

LEMMA AppendPartStep ==
  ASSUME IInv, AppendPart
  PROVE  IInv'
<1>1. /\ pc = "append_part"
      /\ UNCHANGED <<linked, hdr, hdrs, op, max, end, parts, gen, seg, poisoned, adopted, nextGen,
                     ret, ghost, crashes>>
  BY DEF AppendPart, handle
<1>2. TypeOK /\ FileOk /\ BodyOk(body) /\ NoMore /\ Known /\ FileByPc
  BY <1>1, InService DEF IInv, FileByPc, Appending
<1>3. CASE /\ WriteBody(Body(Append(body.frames, NewFrame), NoTail), {Body(body.frames, BadTail(NewFrame.len))})
           /\ pc' = IF parts = <<>> THEN "append_sync" ELSE "append_header"
           /\ UNCHANGED faults
  <2> DEFINE b == Body(Append(body.frames, NewFrame), NoTail)
             c == Body(body.frames, BadTail(NewFrame.len))
  <2>1. PICK p \in Parts : op.part = <<p>>
    BY <1>1 DEF IInv, OpByPc, Appending
  <2>2. /\ b \in BodyType /\ BodyOk(b) /\ b.tail = NoTail /\ Len(b.frames) = Len(parts) + 1
        /\ b.frames[Len(b.frames)] = NewFrame
        /\ \A i \in 1..Len(parts) : b.frames[i] = body.frames[i]
    BY <1>2, <2>1, FrameAppended
  <2>3. NewFrame.len \in Nat \ {0}
    BY <2>1 DEF NewFrame, Frame
  <2>4. c \in BodyType /\ BodyOk(c)
    <3>1. BadTail(NewFrame.len) \in TailType /\ BadTail(NewFrame.len).len > 0
      BY <2>3, TailTypes
    <3> QED BY <1>2, <3>1, SameFrames DEF TypeOK
  <2> HIDE DEF b, c
  <2>5. WriteBody(b, {c})
    BY <1>3 DEF b, c
  <2>6. body' = b /\ bodies' \subseteq BodyType /\ \A d \in bodies' \cup {body'} : BodyOk(d)
    BY <1>2, <2>2, <2>4, <2>5, BodyWritten DEF TypeOK
  <2>7. Known'
    BY <1>1, <1>2, <2>2, <2>6, KnownKept, PartsType
  <2>8. HoldsNew' /\ NewHeader' = NewHeader
    BY <1>1, <2>2, <2>6 DEF HoldsNew, OneMore, NewHeader, NewFrame
  <2>9. parts = <<>> => hdr = NewHeader
    BY <1>1, <1>2 DEF FileByPc
  <2>10. FileByPc'
    BY <1>1, <1>3, <2>2, <2>6, <2>7, <2>8, <2>9 DEF FileByPc
  <2>11. FileOk'
    BY <1>1, <1>2, <2>6 DEF FileOk, Headers, Bodies
  <2>12. hdr' \in HdrType /\ hdrs' \subseteq HdrType /\ faults' \in Nat
    BY <1>1, <1>2, <1>3 DEF TypeOK
  <2>13. pc \in Appending /\ pc' \in Appending /\ pc' \notin Marking
    BY <1>1, <1>3 DEF Appending, Marking
  <2>14. body' \in BodyType /\ \A i \in 1..Len(parts) : body'.frames[i] = body.frames[i]
    BY <2>2, <2>6
  <2> QED BY <1>1, <2>6, <2>10, <2>11, <2>12, <2>13, <2>14, CallStep
<1>4. CASE Fail /\ UNCHANGED <<body, bodies>>
  BY <1>1, <1>2, <1>4, TailStep DEF Appending, TypeOK, Fail, IoError, FileOk, Bodies
<1> QED BY <1>3, <1>4 DEF AppendPart

\* Settling keeps the acknowledged content typed and its name durable.
LEMMA SettleType ==
  ASSUME TypeOK, Settle
  PROVE  /\ acked' \in ContentType /\ pending' \subseteq ContentType
         /\ EntryDurable /\ linked' = linked => EntryDurable'
<1>1. Shown \in ContentType
  BY ContentOfType DEF Shown, TypeOK
<1> QED BY <1>1 DEF Settle, TypeOK, EntryDurable

LEMMA AppendSyncSucceeds ==
  ASSUME IInv, AppendSync, Sync,
         end' = end + NewFrame.len /\ parts' = Append(parts, NewRef) /\ seg' = op.id,
         issued' = issued \cup {[ref |-> NewRef, part |-> op.part[1]]},
         Settle, Return("ok") /\ UNCHANGED faults
  PROVE  IInv'
<1> DEFINE fs == body.frames
           n == Len(parts)
<1>1. /\ pc = "append_sync" /\ pc' = "idle" /\ op' = NoOp /\ ret' = "ok"
      /\ UNCHANGED <<linked, hdr, body, max, gen, poisoned, adopted, nextGen, crashes, faults>>
  BY DEF AppendSync, Return
<1>2. TypeOK /\ FileOk /\ FileByPc /\ OpByPc /\ HandleOk /\ Serving /\ EntryDurable
  BY <1>1, InService DEF IInv, Appending
<1>3. linked = "durable" /\ ~poisoned /\ Known /\ HoldsNew /\ body.tail = NoTail /\ hdr = NewHeader
  BY <1>1, <1>2, InService DEF FileByPc, Appending
<1>4. PICK p \in Parts : op.part = <<p>>
  BY <1>1, <1>2 DEF OpByPc, Appending
<1>5. op.id \in SegIds /\ op.part[1] = p /\ end \in Nat /\ gen \in Nat /\ nextGen \in Nat
  BY <1>1, <1>2, <1>4 DEF OpByPc, Appending, TypeOK
<1>6. NewFrame = [at |-> end, len |-> FrameHeaderLen + PartLen[p], part |-> p] /\ PartLen[p] \in Nat \ {0}
  BY <1>5 DEF NewFrame, Frame
<1>7. NewFrame.at = end /\ NewFrame.len = FrameHeaderLen + PartLen[p] /\ NewFrame.part = p
      /\ NewFrame.len \in Nat
  BY <1>6
<1>8. NewRef \in RefType /\ NewRef.offset = NewFrame.at + FrameHeaderLen
      /\ NewRef.len = NewFrame.len - FrameHeaderLen /\ NewRef.gen = gen
  <2>1. NewRef = [offset |-> NewFrame.at + FrameHeaderLen, len |-> NewFrame.len - FrameHeaderLen, gen |-> gen]
    BY DEF NewRef, RefsOf
  <2>2. NewFrame.at + FrameHeaderLen \in Nat /\ NewFrame.len - FrameHeaderLen \in Nat
    BY <1>5, <1>6, <1>7
  <2> QED BY <1>5, <2>1, <2>2 DEF RefType
<1>9. /\ parts' \in Seq(RefType) /\ Len(parts') = n + 1 /\ n \in Nat
      /\ \A i \in 1..n : parts'[i] = parts[i]
      /\ parts'[n + 1] = NewRef
  BY <1>2, <1>8, AppendProperties, PartsType DEF TypeOK
<1>10. DOMAIN parts' = 1..(n + 1) /\ parts' # <<>> /\ DOMAIN parts = 1..n
  BY <1>2, <1>9, LenProperties, EmptySeq, PartsType
<1>11. Len(fs) = n + 1 /\ fs[n + 1] = NewFrame
  BY <1>3 DEF HoldsNew, OneMore
<1>12. TypeOK'
  <2>1. hdrs' \subseteq HdrType /\ bodies' \subseteq BodyType
    BY <1>2 DEF Sync, TypeOK
  <2>2. acked' \in ContentType /\ pending' \subseteq ContentType
    BY <1>2, SettleType
  <2>3. end' \in Nat /\ issued' \subseteq [ref : RefType, part : Parts]
    BY <1>2, <1>5, <1>7, <1>8 DEF TypeOK
  <2> QED BY <1>1, <1>2, <1>5, <1>9, <2>1, <2>2, <2>3, OpTypes DEF TypeOK, Pcs, Rets
<1>13. FileOk' /\ OpByPc'
  BY <1>1, <1>2 DEF FileOk, Headers, Bodies, Sync, OpByPc, NoOp, Appending, RollingBack, Marking, Finishing
<1>14. Known' /\ NoMore'
  <2>1. \A i \in 1..(n + 1) : /\ parts'[i].offset = fs[i].at + FrameHeaderLen
                             /\ parts'[i].len = fs[i].len - FrameHeaderLen
                             /\ parts'[i].gen = gen
    <3>1. \A i \in 1..(n + 1) : i \in 1..n \/ i = n + 1
      BY <1>9
    <3>2. \A i \in 1..n : /\ parts'[i].offset = fs[i].at + FrameHeaderLen
                         /\ parts'[i].len = fs[i].len - FrameHeaderLen
                         /\ parts'[i].gen = gen
      BY <1>3, <1>9, <1>10 DEF Known
    <3> QED BY <1>8, <1>9, <1>11, <3>1, <3>2
  <2>2. end' = parts'[n + 1].offset + parts'[n + 1].len
    BY <1>5, <1>7, <1>8, <1>9
  <2> QED BY <1>1, <1>9, <1>10, <1>11, <2>1, <2>2 DEF Known, NoMore
<1>15. hdr' = CurrentHeader'
  BY <1>1, <1>3, <1>5 DEF NewHeader, CurrentHeader, ActiveHdr
<1>16. FileByPc'
  BY <1>1, <1>3, <1>14, <1>15 DEF FileByPc, Unchanged
<1>17. \A x \in issued' : x.ref.gen <= gen'
  BY <1>1, <1>2, <1>5, <1>8 DEF HandleOk
<1>18. \A x \in issued' : x.ref.gen = gen' =>
         \E i \in DOMAIN parts' : parts'[i] = x.ref /\ body'.frames[i].part = x.part
  <2> SUFFICES ASSUME NEW x \in issued', x.ref.gen = gen'
               PROVE  \E i \in DOMAIN parts' : parts'[i] = x.ref /\ body'.frames[i].part = x.part
    OBVIOUS
  <2>1. CASE x \in issued
    <3>1. PICK i \in DOMAIN parts : parts[i] = x.ref /\ fs[i].part = x.part
      BY <1>1, <1>2, <1>3, <2>1 DEF HandleOk, Finishing
    <3> QED BY <1>1, <1>9, <1>10, <3>1
  <2>2. CASE x = [ref |-> NewRef, part |-> op.part[1]]
    <3>1. parts'[n + 1] = x.ref /\ body'.frames[n + 1].part = x.part /\ n + 1 \in DOMAIN parts'
      BY <1>1, <1>5, <1>7, <1>9, <1>10, <1>11, <2>2
    <3> QED BY <3>1
  <2> QED BY <2>1, <2>2
<1>19. HandleOk'
  <2>1. end' + MarkerLen <= max'
    BY <1>1, <1>2, <1>5, <1>7 DEF HandleOk, FrameFits, Appending, TypeOK
  <2>2. seg' # NoId /\ op'.kind # "reset"
    BY <1>1, <1>5 DEF NoOp
  <2>3. gen' < nextGen' /\ linked' = "durable" /\ ~poisoned'
    BY <1>1, <1>2, <1>3 DEF HandleOk
  <2> QED BY <1>1, <1>10, <1>17, <1>18, <2>1, <2>2, <2>3 DEF HandleOk, Appending, Finishing
<1>20. (~Serving' => ~poisoned') /\ EntryDurable' /\ \A x \in issued' : x.ref.gen < nextGen'
  <2>1. EntryDurable'
    BY <1>1, <1>2, SettleType
  <2>2. \A x \in issued' : x.ref.gen < nextGen'
    BY <1>1, <1>2, <1>8 DEF IInv, HandleOk
  <2> QED BY <1>1, <2>1, <2>2 DEF Serving
<1> QED BY <1>12, <1>13, <1>16, <1>19, <1>20 DEF IInv

LEMMA AppendSyncStep ==
  ASSUME IInv, AppendSync
  PROVE  IInv'
<1>1. CASE Fail /\ UNCHANGED <<hdrs, bodies, end, parts, seg, acked, pending, issued, op, ret>>
  <2>1. /\ pc = "append_sync" /\ pc' = "rollback_truncate"
        /\ UNCHANGED <<linked, hdr, body, hdrs, bodies, op, max, end, parts, gen, seg, poisoned, adopted,
                       nextGen, ret, ghost, crashes>>
    BY <1>1 DEF AppendSync, Fail, ghost
  <2>2. TypeOK /\ FileOk /\ Known /\ HoldsNew
    BY <2>1, InService DEF IInv, FileByPc, Appending
  <2>3. Known' /\ OneMore' /\ body'.frames[Len(body'.frames)].at = end'
    BY <2>1, <2>2 DEF Known, OneMore, HoldsNew, NewFrame, Frame
  <2>4. FileByPc'
    BY <2>1, <2>3 DEF FileByPc
  <2>5. FileOk' /\ faults' \in Nat
    BY <1>1, <2>1, <2>2 DEF FileOk, Headers, Bodies, Fail, IoError, TypeOK
  <2> QED BY <2>1, <2>2, <2>4, <2>5, CallStep DEF Appending, RollingBack, Marking, TypeOK
<1>2. CASE ~(Fail /\ UNCHANGED <<hdrs, bodies, end, parts, seg, acked, pending, issued, op, ret>>)
  BY <1>2, AppendSyncSucceeds DEF AppendSync
<1> QED BY <1>1, <1>2

-----------------------------------------------------------------------------
(* Rolling back. *)

LEMMA RollbackTruncateStep ==
  ASSUME IInv, RollbackTruncate
  PROVE  IInv'
<1>1. /\ pc = "rollback_truncate"
      /\ UNCHANGED <<linked, hdr, hdrs, max, end, parts, gen, seg, adopted, nextGen, ghost, crashes>>
  BY DEF RollbackTruncate
<1>2. TypeOK /\ FileOk /\ BodyOk(body) /\ Known /\ FileByPc /\ Serving /\ ~poisoned
  BY <1>1, InService DEF IInv, RollingBack
<1>3. CASE /\ WriteBody(Truncated(body, end), {}) /\ pc' = "rollback_header"
           /\ UNCHANGED <<op, ret, poisoned, faults>>
  <2> DEFINE b == Truncated(body, end)
  <2>1. /\ b \in BodyType /\ BodyOk(b)
        /\ b.tail = NoTail /\ Len(b.frames) = Len(parts)
        /\ \A i \in 1..Len(parts) : b.frames[i] = body.frames[i]
    BY <1>1, <1>2, TruncatedToKnown DEF FileByPc
  <2> HIDE DEF b
  <2>2. WriteBody(b, {})
    BY <1>3 DEF b
  <2>3. body' = b /\ bodies' \subseteq BodyType /\ \A c \in bodies' \cup {body'} : BodyOk(c)
    BY <1>2, <2>1, <2>2, BodyWritten DEF TypeOK
  <2>4. Known' /\ NoMore' /\ body'.tail = NoTail
    BY <1>1, <1>2, <2>1, <2>3, KnownKept, PartsType DEF NoMore
  <2>5. FileByPc' /\ FileOk'
    BY <1>1, <1>2, <1>3, <2>3, <2>4 DEF FileByPc, FileOk, Headers, Bodies
  <2>6. hdr' \in HdrType /\ hdrs' \subseteq HdrType /\ faults' \in Nat
    BY <1>1, <1>2, <1>3 DEF TypeOK
  <2> QED BY <1>1, <1>3, <2>1, <2>3, <2>5, <2>6, CallStep DEF Appending, RollingBack, Marking
<1>4. CASE Poison("rollback_failed") /\ UNCHANGED <<body, bodies>>
  <2>1. FileOk'
    BY <1>1, <1>2, <1>4 DEF FileOk, Headers, Bodies
  <2> QED BY <1>1, <1>2, <1>4, <2>1, PoisonStep DEF Poison, Rets, TypeOK
<1> QED BY <1>3, <1>4 DEF RollbackTruncate

LEMMA RollbackHeaderStep ==
  ASSUME IInv, RollbackHeader
  PROVE  IInv'
<1>1. /\ pc = "rollback_header"
      /\ UNCHANGED <<linked, body, bodies, max, end, parts, gen, seg, adopted, nextGen, ghost, crashes>>
  BY DEF RollbackHeader
<1>2. /\ TypeOK /\ FileOk /\ Known /\ FileByPc /\ Serving /\ ~poisoned
      /\ CurrentHeader \in HdrType /\ HdrOk(CurrentHeader)
  BY <1>1, InService DEF IInv, RollingBack
<1>3. hdr' \in HdrType /\ hdrs' \subseteq HdrType /\ \A g \in hdrs' \cup {hdr'} : HdrOk(g)
  BY <1>2, HeaderWritten DEF RollbackHeader, TypeOK
<1>4. FileOk' /\ body' \in BodyType /\ bodies' \subseteq BodyType
  BY <1>1, <1>2, <1>3 DEF FileOk, Headers, Bodies, TypeOK
<1>5. CASE WriteHeader(CurrentHeader) /\ pc' = "rollback_sync" /\ UNCHANGED <<op, ret, poisoned, faults>>
  <2>1. Known' /\ NoMore' /\ body'.tail = NoTail
    BY <1>1, <1>2 DEF FileByPc, Known, NoMore
  <2>2. hdr' = CurrentHeader'
    BY <1>1, <1>5 DEF WriteHeader, CurrentHeader
  <2>3. FileByPc'
    BY <1>5, <2>1, <2>2 DEF FileByPc
  <2> QED BY <1>1, <1>2, <1>3, <1>4, <1>5, <2>3, CallStep DEF Appending, RollingBack, Marking, TypeOK
<1>6. CASE Poison("rollback_failed")
  BY <1>1, <1>2, <1>3, <1>4, <1>6, PoisonStep DEF Poison, Rets
<1> QED BY <1>5, <1>6 DEF RollbackHeader

LEMMA RollbackSyncStep ==
  ASSUME IInv, RollbackSync
  PROVE  IInv'
<1>1. /\ pc = "rollback_sync"
      /\ UNCHANGED <<linked, hdr, body, max, end, parts, gen, seg, adopted, nextGen, issued, crashes>>
  BY DEF RollbackSync
<1>2. TypeOK /\ FileOk /\ Known /\ FileByPc /\ Serving /\ HandleOk /\ ~poisoned /\ EntryDurable
  BY <1>1, InService DEF IInv, RollingBack
<1>3. CASE Sync /\ Return("io") /\ Settle /\ UNCHANGED <<poisoned, faults>>
  <2>1. pc' = "idle" /\ op' = NoOp /\ ret' = "io" /\ UNCHANGED <<poisoned, faults>>
    BY <1>3 DEF Return
  <2>2. TypeOK'
    <3>1. hdrs' \subseteq HdrType /\ bodies' \subseteq BodyType
      BY <1>2, <1>3 DEF Sync, TypeOK
    <3>2. acked' \in ContentType /\ pending' \subseteq ContentType
      BY <1>2, <1>3, SettleType
    <3> QED BY <1>1, <1>2, <2>1, <3>1, <3>2, OpTypes DEF TypeOK, Pcs, Rets
  <2>3. FileOk' /\ OpByPc'
    BY <1>1, <1>2, <1>3, <2>1
       DEF FileOk, Headers, Bodies, Sync, OpByPc, NoOp, Appending, RollingBack, Marking, Finishing
  <2>4. Unchanged'
    BY <1>1, <1>2 DEF FileByPc, Unchanged, Known, NoMore, CurrentHeader
  <2>5. FileByPc'
    BY <2>1, <2>4 DEF FileByPc
  <2>6. HandleOk'
    BY <1>1, <1>2, <2>1 DEF HandleOk, NoOp, Appending, Finishing
  <2>7. EntryDurable'
    BY <1>1, <1>2, <1>3, SettleType
  <2>8. (~Serving' => ~poisoned') /\ \A x \in issued' : x.ref.gen < nextGen'
    BY <1>1, <2>1 DEF Serving, IInv
  <2> QED BY <2>2, <2>3, <2>5, <2>6, <2>7, <2>8 DEF IInv
<1>4. CASE Poison("rollback_failed") /\ UNCHANGED <<hdrs, bodies, acked, pending>>
  <2>1. FileOk' /\ UNCHANGED ghost
    BY <1>1, <1>2, <1>4 DEF FileOk, Headers, Bodies, ghost
  <2> QED BY <1>1, <1>2, <1>4, <2>1, PoisonStep DEF Poison, Rets, TypeOK
<1> QED BY <1>3, <1>4 DEF RollbackSync

-----------------------------------------------------------------------------
(* Resetting. *)

LEMMA ResetCallStep ==
  ASSUME IInv, ResetCall
  PROVE  IInv'
<1>1. pc = "idle" /\ UNCHANGED <<file, handle, acked, issued, faults, crashes>>
  BY DEF ResetCall
<1>2. CASE UNCHANGED <<pc, op, nextGen, pending>> /\ ret' \in Rets
  BY <1>1, <1>2, Refusal DEF ghost
<1>3. CASE ~poisoned /\ nextGen' = nextGen + 1 /\ parts # <<>>
  <2>1. /\ UNCHANGED <<linked, hdr, body, hdrs, bodies, max, end, parts, gen, seg, poisoned, adopted,
                       acked, issued, faults, crashes>>
        /\ \/ ret' = "full" /\ UNCHANGED <<pc, op, pending>>
           \/ /\ pc' = "write_marker" /\ op' = [NoOp EXCEPT !.kind = "reset"]
              /\ pending' = pending \cup {Nothing} /\ UNCHANGED ret
    BY <1>1, <1>3 DEF ResetCall, file, handle
  <2>2. /\ op' \in OpType /\ pc' \in {"idle", "write_marker"} /\ ret' \in Rets
        /\ pending' \subseteq ContentType
        /\ pc' = "idle" => op' = NoOp
        /\ pc' = "write_marker" => op'.kind = "reset"
    BY <1>1, <2>1, OpTypes, ConstantTypes DEF IInv, TypeOK, OpByPc, Rets, NoOp
  <2>3. TypeOK /\ FileOk /\ FileByPc /\ HandleOk /\ Serving /\ EntryDurable
    BY <1>1 DEF IInv, Serving
  <2>4. TypeOK'
    BY <1>3, <2>1, <2>2, <2>3 DEF TypeOK, Pcs
  <2>5. FileOk' /\ OpByPc'
    BY <2>1, <2>2, <2>3
       DEF FileOk, Headers, Bodies, OpByPc, NoOp, Appending, RollingBack, Marking, Finishing
  <2>6. Unchanged'
    BY <1>1, <1>3, <2>1, <2>3 DEF FileByPc, Unchanged, Known, NoMore, CurrentHeader
  <2>7. FileByPc'
    BY <2>2, <2>6 DEF FileByPc
  <2>8. nextGen \in Nat /\ gen \in Nat /\ gen < nextGen
    BY <2>3 DEF HandleOk, TypeOK
  <2>9. HandleOk'
    <3>1. gen' < nextGen' /\ gen' < nextGen' - 1 /\ pc' \notin Appending /\ pc \notin Finishing /\ ~poisoned'
      BY <1>1, <1>3, <2>1, <2>2, <2>8 DEF Appending, Finishing
    <3> QED BY <1>3, <2>1, <2>2, <2>3, <3>1 DEF HandleOk
  <2>10. EntryDurable' /\ Serving' /\ \A x \in issued' : x.ref.gen < nextGen'
    <3>1. EntryDurable'
      BY <2>1, <2>3 DEF HandleOk, EntryDurable
    <3>2. \A x \in issued : x.ref.gen \in Nat /\ x.ref.gen < nextGen
      BY <2>3 DEF IInv, TypeOK, RefType
    <3> QED BY <1>3, <2>1, <2>2, <2>8, <3>1, <3>2 DEF Serving, Marking
  <2> QED BY <2>4, <2>5, <2>7, <2>9, <2>10 DEF IInv
<1> QED BY <1>2, <1>3 DEF ResetCall, Rets, IInv, TypeOK

LEMMA WriteMarkerStep ==
  ASSUME IInv, WriteMarker
  PROVE  IInv'
<1> DEFINE whole == Body(body.frames, MarkerTail(CurrentHeader))
           cut == Body(body.frames, ShortTail(1))
           bad == Body(body.frames, BadTail(MarkerLen))
<1>1. /\ pc = "write_marker"
      /\ UNCHANGED <<linked, hdr, hdrs, op, max, end, parts, gen, seg, poisoned, adopted, nextGen,
                     ret, ghost, crashes>>
  BY DEF WriteMarker, handle
<1>2. TypeOK /\ FileOk /\ BodyOk(body) /\ NoMore /\ CurrentHeader \in HdrType
  BY <1>1, InService DEF IInv, FileByPc, Marking, Unchanged
<1>3. /\ MarkerTail(CurrentHeader) \in TailType /\ MarkerTail(CurrentHeader).len > 0
      /\ ShortTail(1) \in TailType /\ ShortTail(1).len > 0
      /\ BadTail(MarkerLen) \in TailType /\ BadTail(MarkerLen).len > 0
  BY <1>2, TailTypes
<1>4. /\ whole \in BodyType /\ BodyOk(whole) /\ cut \in BodyType /\ BodyOk(cut)
      /\ bad \in BodyType /\ BodyOk(bad)
  BY <1>2, <1>3, SameFrames DEF TypeOK
<1>5. whole.frames = body.frames /\ cut.frames = body.frames
  BY DEF Body
<1> HIDE DEF whole, cut, bad
<1>6. CASE WriteBody(whole, {cut, bad}) /\ pc' = "sync_marker" /\ UNCHANGED faults
  <2>1. body' = whole /\ bodies' \subseteq BodyType /\ \A c \in bodies' \cup {body'} : BodyOk(c)
    BY <1>2, <1>4, <1>6, BodyWritten DEF TypeOK
  <2> QED BY <1>1, <1>2, <1>4, <1>5, <1>6, <2>1, TailStep DEF Marking, TypeOK
<1>7. CASE (\E b \in {body, cut} : WriteBody(b, {})) /\ Fail
  <2>1. PICK b \in {body, cut} : WriteBody(b, {})
    BY <1>7
  <2>2. b \in BodyType /\ BodyOk(b) /\ b.frames = body.frames
    BY <1>2, <1>4, <1>5 DEF TypeOK
  <2>3. body' = b /\ bodies' \subseteq BodyType /\ \A c \in bodies' \cup {body'} : BodyOk(c)
    BY <1>2, <2>1, <2>2, BodyWritten DEF TypeOK
  <2> QED BY <1>1, <1>2, <1>7, <2>2, <2>3, TailStep DEF Marking, TypeOK, Fail, IoError
<1> QED BY <1>6, <1>7 DEF WriteMarker, whole, cut, bad

LEMMA SyncMarkerStep ==
  ASSUME IInv, SyncMarker
  PROVE  IInv'
<1>1. /\ pc = "sync_marker"
      /\ UNCHANGED <<linked, hdr, body, op, max, end, parts, gen, seg, poisoned, adopted, nextGen,
                     ret, ghost, crashes>>
  BY DEF SyncMarker, handle
<1>2. TypeOK /\ FileOk /\ BodyOk(body) /\ NoMore /\ ~poisoned /\ HandleOk /\ Serving
  BY <1>1, InService DEF IInv, FileByPc, Marking
<1>3. CASE Sync /\ pc' = "empty_header" /\ UNCHANGED faults
  <2>1. op.kind = "reset" /\ pc' \notin Appending \cup RollingBack \cup Marking /\ pc' \in Finishing
    BY <1>1, <1>3 DEF IInv, OpByPc, Appending, RollingBack, Marking, Finishing
  <2>2. TypeOK' /\ FileOk'
    BY <1>1, <1>2, <1>3 DEF TypeOK, FileOk, Headers, Bodies, Sync, ghost, Pcs
  <2>3. OpByPc' /\ FileByPc'
    BY <1>1, <1>3, <2>1 DEF OpByPc, FileByPc, Appending, RollingBack, Marking
  <2>4. HandleOk'
    BY <1>1, <1>2, <2>1 DEF HandleOk, ghost
  <2>5. EntryDurable' /\ Serving' /\ \A x \in issued' : x.ref.gen < nextGen'
    BY <1>1, <2>1 DEF IInv, EntryDurable, Serving, ghost
  <2> QED BY <2>2, <2>3, <2>4, <2>5 DEF IInv
<1>4. CASE Fail /\ UNCHANGED <<hdrs, bodies>>
  BY <1>1, <1>2, <1>4, TailStep DEF Marking, TypeOK, Fail, IoError, FileOk, Bodies
<1> QED BY <1>3, <1>4 DEF SyncMarker

\* A reset that breaks off past its marker poisons the handle; an open gives none.
LEMMA FinishFailsStep ==
  ASSUME IInv, pc \in Finishing, FinishFails,
         UNCHANGED <<linked, max, end, parts, gen, seg, adopted, nextGen, ghost, crashes>>,
         hdr' \in HdrType, hdrs' \subseteq HdrType, body' \in BodyType, bodies' \subseteq BodyType,
         FileOk'
  PROVE  IInv'
<1>1. CASE op.kind = "reset"
  <2>1. Serving /\ ~poisoned
    BY <1>1 DEF IInv, Serving, HandleOk, Finishing
  <2> QED BY <1>1, <2>1, PoisonStep DEF FinishFails, Rets
<1>2. CASE op.kind # "reset"
  <2>1. pc' = "closed" /\ op' = NoOp /\ ret' = "io" /\ UNCHANGED poisoned /\ IoError
    BY <1>2 DEF FinishFails, Refuse
  <2>2. ~poisoned
    BY <1>2 DEF IInv, Serving, Appending, RollingBack, Marking, Finishing
  <2>3. TypeOK'
    BY <2>1, OpTypes DEF IInv, TypeOK, ghost, Pcs, Rets, IoError
  <2>4. ~Serving' /\ OpByPc'
    BY <2>1 DEF Serving, OpByPc, NoOp, Appending, RollingBack, Marking, Finishing
  <2>5. EntryDurable' /\ \A x \in issued' : x.ref.gen < nextGen'
    BY DEF IInv, EntryDurable, ghost
  <2> QED BY <2>1, <2>2, <2>3, <2>4, <2>5, Unserved
<1> QED BY <1>1, <1>2

\* One more step of finish_committed_reset.
LEMMA FinishStep ==
  ASSUME IInv, pc \in Finishing, pc' \in Finishing,
         UNCHANGED <<linked, op, max, end, parts, gen, seg, poisoned, adopted, nextGen, ret, ghost,
                     faults, crashes>>,
         hdr' \in HdrType, hdrs' \subseteq HdrType, body' \in BodyType, bodies' \subseteq BodyType,
         FileOk',
         pc' \in {"sync_empty", "truncate", "final_sync"} => hdr' = EmptyHdr,
         pc' = "final_sync" => body' = EmptyBody
  PROVE  IInv'
<1>1. TypeOK'
  BY DEF IInv, TypeOK, ghost, Pcs, Finishing
<1>2. OpByPc' /\ FileByPc'
  BY DEF IInv, OpByPc, FileByPc, Appending, RollingBack, Marking, Finishing
<1>3. Serving' <=> Serving
  BY DEF Serving, Appending, RollingBack, Marking, Finishing
<1>4. HandleOk'
  BY <1>3 DEF IInv, HandleOk, Appending, Finishing, ghost
<1>5. (~Serving' => ~poisoned') /\ EntryDurable' /\ \A x \in issued' : x.ref.gen < nextGen'
  BY <1>3 DEF IInv, EntryDurable, ghost
<1> QED BY <1>1, <1>2, <1>4, <1>5 DEF IInv

LEMMA EmptyHeaderStep ==
  ASSUME IInv, EmptyHeader
  PROVE  IInv'
<1>1. /\ pc = "empty_header" /\ pc \in Finishing
      /\ UNCHANGED <<linked, body, bodies, max, end, parts, gen, seg, adopted, nextGen, ghost, crashes>>
  BY DEF EmptyHeader, Finishing
<1>2. hdr' \in HdrType /\ hdrs' \subseteq HdrType /\ \A g \in hdrs' \cup {hdr'} : HdrOk(g)
  BY HeaderWritten, ConstantTypes DEF IInv, TypeOK, EmptyHeader
<1>3. FileOk' /\ body' \in BodyType /\ bodies' \subseteq BodyType
  BY <1>1, <1>2 DEF IInv, FileOk, Headers, Bodies, TypeOK
<1>4. CASE WriteHeader(EmptyHdr) /\ pc' = "sync_empty" /\ UNCHANGED <<op, ret, poisoned, faults>>
  BY <1>1, <1>2, <1>3, <1>4, FinishStep DEF WriteHeader, Finishing
<1>5. CASE WriteHeaderFails(EmptyHdr) /\ FinishFails
  BY <1>1, <1>2, <1>3, <1>5, FinishFailsStep
<1> QED BY <1>4, <1>5 DEF EmptyHeader

LEMMA SyncEmptyStep ==
  ASSUME IInv, SyncEmpty
  PROVE  IInv'
<1>1. /\ pc = "sync_empty" /\ pc \in Finishing /\ hdr = EmptyHdr
      /\ UNCHANGED <<linked, hdr, body, max, end, parts, gen, seg, adopted, nextGen, ghost, crashes>>
  BY DEF SyncEmpty, Finishing, IInv, FileByPc
<1>2. /\ hdr' \in HdrType /\ hdrs' \subseteq HdrType /\ body' \in BodyType /\ bodies' \subseteq BodyType
      /\ FileOk'
  BY <1>1 DEF IInv, TypeOK, FileOk, Headers, Bodies, SyncEmpty, Sync
<1>3. CASE Sync /\ pc' = "truncate" /\ UNCHANGED <<op, ret, poisoned, faults>>
  BY <1>1, <1>2, <1>3, FinishStep DEF Finishing
<1>4. CASE FinishFails
  BY <1>1, <1>2, <1>4, FinishFailsStep
<1> QED BY <1>3, <1>4 DEF SyncEmpty

LEMMA TruncateBodyStep ==
  ASSUME IInv, TruncateBody
  PROVE  IInv'
<1>1. /\ pc = "truncate" /\ pc \in Finishing /\ hdr = EmptyHdr
      /\ UNCHANGED <<linked, hdr, hdrs, max, end, parts, gen, seg, adopted, nextGen, ghost, crashes>>
  BY DEF TruncateBody, Finishing, IInv, FileByPc
<1>2. TypeOK /\ FileOk
  BY DEF IInv
<1>3. /\ WriteBody(EmptyBody, {}) \/ UNCHANGED <<body, bodies>>
      /\ body' \in BodyType /\ bodies' \subseteq BodyType /\ \A c \in bodies' \cup {body'} : BodyOk(c)
  BY <1>2, BodyWritten, ConstantTypes DEF TruncateBody, TypeOK, FileOk, Bodies
<1>4. hdr' \in HdrType /\ hdrs' \subseteq HdrType /\ FileOk'
  BY <1>1, <1>2, <1>3 DEF TypeOK, FileOk, Headers, Bodies
<1>5. CASE WriteBody(EmptyBody, {}) /\ pc' = "final_sync" /\ UNCHANGED <<op, ret, poisoned, faults>>
  BY <1>1, <1>3, <1>4, <1>5, FinishStep DEF Finishing, WriteBody
<1>6. CASE FinishFails
  BY <1>1, <1>3, <1>4, <1>6, FinishFailsStep
<1> QED BY <1>5, <1>6 DEF TruncateBody

LEMMA FinalSyncStep ==
  ASSUME IInv, FinalSync
  PROVE  IInv'
<1>1. /\ pc = "final_sync" /\ pc \in Finishing /\ hdr = EmptyHdr /\ body = EmptyBody
      /\ UNCHANGED <<linked, hdr, body, max, nextGen, issued, crashes>>
  BY DEF FinalSync, Finishing, IInv, FileByPc
<1>2. TypeOK /\ FileOk /\ OpByPc /\ HandleOk /\ EntryDurable
  BY DEF IInv
<1>3. CASE FinishFails /\ UNCHANGED <<hdrs, bodies, acked, pending, end, parts, gen, seg, adopted>>
  <2>1. /\ hdr' \in HdrType /\ hdrs' \subseteq HdrType /\ body' \in BodyType /\ bodies' \subseteq BodyType
        /\ FileOk' /\ UNCHANGED ghost
    BY <1>1, <1>2, <1>3 DEF TypeOK, FileOk, Headers, Bodies, ghost
  <2> QED BY <1>1, <1>3, <2>1, FinishFailsStep
<1>4. CASE Sync /\ Settle /\ UNCHANGED <<poisoned, faults>>
  <2>1. hdrs' \subseteq HdrType /\ bodies' \subseteq BodyType /\ FileOk'
    BY <1>1, <1>2, <1>4 DEF Sync, TypeOK, FileOk, Headers, Bodies
  <2>2. acked' \in ContentType /\ pending' \subseteq ContentType /\ EntryDurable'
    BY <1>1, <1>2, <1>4, SettleType
  <2>3. \A x \in issued' : x.ref.gen < nextGen'
    BY <1>1 DEF IInv
  <2>4. CASE op.kind = "reset"
    <3>1. /\ end' = HeaderLen /\ parts' = <<>> /\ gen' = nextGen - 1 /\ seg' = NoId /\ adopted' = FALSE
          /\ pc' = "idle" /\ op' = NoOp /\ ret' = "ok" /\ UNCHANGED <<poisoned, faults>>
      BY <1>1, <1>2, <1>4, <2>4 DEF FinalSync, FinishFails, Return, IoError, GenerationTaken, TypeOK
    <3>2. Serving /\ linked = "durable" /\ gen \in Nat /\ nextGen \in Nat /\ gen < nextGen - 1
          /\ ~poisoned /\ \A x \in issued : x.ref.gen <= gen /\ x.ref.gen \in Nat
      BY <1>1, <1>2, <2>4 DEF Serving, HandleOk, TypeOK, RefType
    <3>3. parts' \in Seq(RefType) /\ Len(parts') = 0 /\ DOMAIN parts' = {} /\ gen' \in Nat
      BY <3>1, <3>2, EmptySeq
    <3>4. TypeOK'
      BY <1>1, <1>2, <2>1, <2>2, <3>1, <3>3, OpTypes DEF TypeOK, Pcs, Rets
    <3>5. OpByPc'
      BY <3>1 DEF OpByPc, NoOp, Appending, RollingBack, Marking, Finishing
    <3>6. Unchanged'
      <4>1. Len(body'.frames) = 0 /\ body'.tail = NoTail
        BY <1>1, EmptySeq DEF EmptyBody, Body
      <4>2. hdr' = CurrentHeader'
        BY <1>1, <3>1 DEF CurrentHeader, EmptyHdr
      <4> QED BY <3>1, <3>3, <4>1, <4>2 DEF Unchanged, Known, NoMore
    <3>7. FileByPc'
      BY <3>1, <3>6 DEF FileByPc
    <3>8. \A x \in issued' : x.ref.gen < gen'
      BY <1>1, <3>1, <3>2
    <3>9. HandleOk'
      <4>1. gen' < nextGen' /\ linked' = "durable" /\ ~poisoned' /\ op'.kind # "reset"
        BY <1>1, <3>1, <3>2 DEF NoOp
      <4>2. \A x \in issued' : x.ref.gen <= gen' /\ x.ref.gen # gen'
        BY <1>1, <3>1, <3>2
      <4> QED BY <3>1, <4>1, <4>2 DEF HandleOk, Appending
    <3> QED BY <2>1, <2>2, <2>3, <3>1, <3>2, <3>4, <3>5, <3>7, <3>9 DEF IInv
  <2>5. CASE op.kind # "reset"
    <3>1. pc' = "inspect" /\ UNCHANGED <<end, parts, gen, seg, adopted, op, ret, poisoned, faults>>
      BY <1>1, <1>2, <1>4, <2>5 DEF FinalSync, FinishFails, Return, IoError, TypeOK
    <3>2. op.kind = "open" /\ ~poisoned
      BY <1>1, <1>2, <2>5 DEF OpByPc, IInv, Serving, Appending, RollingBack, Marking, Finishing
    <3>3. TypeOK'
      BY <1>1, <1>2, <2>1, <2>2, <3>1 DEF TypeOK, Pcs
    <3>4. OpByPc' /\ ~Serving'
      BY <3>1, <3>2 DEF OpByPc, Serving, Appending, RollingBack, Marking, Finishing
    <3> QED BY <2>1, <2>2, <2>3, <3>1, <3>2, <3>3, <3>4, Unserved
  <2> QED BY <2>4, <2>5
<1> QED BY <1>3, <1>4 DEF FinalSync

-----------------------------------------------------------------------------
(* The surroundings. *)

LEMMA InitEstablishes == Init => IInv
<1> SUFFICES ASSUME Init PROVE IInv
  OBVIOUS
<1>1. <<>> \in Seq(RefType) /\ DOMAIN <<>> = {}
  BY EmptySeq
<1>2. TypeOK
  BY <1>1, ConstantTypes, OpTypes DEF Init, TypeOK, Pcs, Rets
<1>3. FileOk /\ OpByPc
  BY ConstantTypes
     DEF Init, FileOk, Headers, Bodies, OpByPc, NoOp, Appending, RollingBack, Marking, Finishing
<1>4. ~Serving
  BY DEF Init, Serving, Appending, RollingBack, Marking, Finishing
<1>5. FileByPc /\ HandleOk
  BY <1>4 DEF Init, FileByPc, HandleOk
<1> QED BY <1>2, <1>3, <1>4, <1>5 DEF Init, IInv, EntryDurable

\* A process without a handle, whatever file it is left with.
LEMMA HandleGone ==
  ASSUME IInv, NoHandle, pc' = "closed", op' = NoOp, ret' \in Rets,
         nextGen' \in Nat, faults' \in Nat, crashes' \in Nat,
         UNCHANGED <<acked, pending>> \/ (acked' = Nothing /\ pending' = {}),
         linked' \in {"absent", "entry", "durable"}, EntryDurable',
         issued' \subseteq issued, \A x \in issued' : x.ref.gen < nextGen',
         hdr' \in HdrType, hdrs' \subseteq HdrType, body' \in BodyType, bodies' \subseteq BodyType,
         FileOk'
  PROVE  IInv'
<1>1. <<>> \in Seq(RefType)
  BY EmptySeq
<1>2. TypeOK'
  BY <1>1, ConstantTypes, OpTypes DEF IInv, TypeOK, NoHandle, Pcs
<1>3. ~Serving' /\ OpByPc' /\ ~poisoned'
  BY DEF NoHandle, Serving, OpByPc, NoOp, Appending, RollingBack, Marking, Finishing
<1> QED BY <1>2, <1>3, Unserved

LEMMA DropStep ==
  ASSUME IInv, Drop
  PROVE  IInv'
<1>1. op = NoOp
  BY DEF IInv, OpByPc, Drop
<1> QED BY <1>1, HandleGone
        DEF IInv, Drop, TypeOK, FileOk, Headers, Bodies, EntryDurable, file, ghost, Rets

LEMMA ExitKillStep ==
  ASSUME IInv, Exit \/ Kill
  PROVE  IInv'
<1>1. ProcessGone /\ UNCHANGED file /\ crashes' \in Nat
  BY DEF Exit, Kill, Crash, IInv, TypeOK
<1> QED BY <1>1, HandleGone
        DEF IInv, ProcessGone, TypeOK, FileOk, Headers, Bodies, EntryDurable, file, Rets

LEMMA PowerLossStep ==
  ASSUME IInv, PowerLoss
  PROVE  IInv'
<1>1. /\ ProcessGone /\ crashes' \in Nat
      /\ hdrs' = {hdr'} /\ bodies' = {body'}
      /\ \/ linked = "entry" /\ linked' = "absent" /\ hdr' = NoHdr /\ body' = EmptyBody
         \/ UNCHANGED linked /\ hdr' \in hdrs /\ body' \in bodies
  BY DEF PowerLoss, Crash, IInv, TypeOK
<1>2. /\ hdr' \in HdrType /\ hdrs' \subseteq HdrType /\ body' \in BodyType /\ bodies' \subseteq BodyType
      /\ FileOk'
  BY <1>1, ConstantTypes DEF IInv, TypeOK, FileOk, Headers, Bodies
<1>3. linked' \in {"absent", "entry", "durable"} /\ EntryDurable'
  BY <1>1 DEF IInv, TypeOK, EntryDurable, ProcessGone
<1> QED BY <1>1, <1>2, <1>3, HandleGone DEF IInv, ProcessGone, TypeOK, Rets

LEMMA RotateStep ==
  ASSUME IInv, Rotate
  PROVE  IInv'
<1>1. TypeOK' /\ FileOk'
  BY ConstantTypes DEF IInv, Rotate, TypeOK, FileOk, Headers, Bodies, handle, Rets
<1>2. pc' = "closed" /\ ~Serving' /\ OpByPc' /\ ~poisoned'
  BY DEF IInv, Rotate, Serving, OpByPc, handle, Appending, RollingBack, Marking, Finishing
<1>3. EntryDurable' /\ \A x \in issued' : x.ref.gen < nextGen'
  BY DEF IInv, Rotate, EntryDurable
<1> QED BY <1>1, <1>2, <1>3, Unserved

LEMMA StutterStep ==
  ASSUME IInv, UNCHANGED vars
  PROVE  IInv'
<1>1. ret' \in Rets
  BY DEF vars, IInv, TypeOK
<1> QED BY <1>1, Refusal DEF vars

-----------------------------------------------------------------------------
(* Theorems. *)

LEMMA NextPreserves == IInv /\ [Next]_vars => IInv'
<1> SUFFICES ASSUME IInv, [Next]_vars PROVE IInv'
  OBVIOUS
<1>1. ASSUME NEW m \in MaxLens, Open(m) PROVE IInv'
  BY <1>1, OpenStep
<1>2. ASSUME NEW i \in SegIds, NEW p \in Parts, AppendCall(i, p) PROVE IInv'
  BY <1>2, AppendCallStep
<1>3. CASE ResetCall
  BY <1>3, ResetCallStep
<1>4. CASE Step
  BY <1>4, InitHeaderStep, InitSyncStep, InspectStep, SyncRootStep, AppendHeaderStep, AppendFrameStep,
     AppendPartStep, AppendSyncStep, RollbackTruncateStep, RollbackHeaderStep, RollbackSyncStep,
     WriteMarkerStep, SyncMarkerStep, EmptyHeaderStep, SyncEmptyStep, TruncateBodyStep, FinalSyncStep
     DEF Step
<1>5. CASE Drop \/ Exit \/ Kill \/ PowerLoss \/ Rotate
  BY <1>5, DropStep, ExitKillStep, PowerLossStep, RotateStep
<1>6. CASE UNCHANGED vars
  BY <1>6, StutterStep
<1> QED BY <1>1, <1>2, <1>3, <1>4, <1>5, <1>6 DEF Next

\* The strengthening holds in every behaviour of the journal.
THEOREM Inductive == Spec => []IInv
BY InitEstablishes, NextPreserves, PTL DEF Spec

\* Every variable of the journal model keeps its type: offsets, lengths and
\* generations never go below zero, whatever fails.
THEOREM TypeCorrect == Spec => []TypeOK
<1>1. IInv => TypeOK
  BY DEF IInv
<1> QED BY <1>1, Inductive, PTL

LEMMA ExactHandle == IInv => HandleMatchesFile
<1> SUFFICES ASSUME IInv, pc = "idle", ~poisoned
             PROVE  /\ hdr = CurrentHeader /\ body.tail = NoTail /\ end = FileLen(hdr, body)
                    /\ parts = RefsOf(body.frames, gen)
  BY DEF HandleMatchesFile, Healthy
<1> DEFINE fs == body.frames
           n == Len(parts)
<1>1. TypeOK /\ BodyOk(body) /\ Unchanged /\ HandleOk /\ Serving
  BY DEF IInv, FileByPc, FileOk, Bodies, Serving
<1>2. /\ n \in Nat /\ n = Len(fs) /\ DOMAIN parts = 1..n /\ DOMAIN fs = 1..n
      /\ fs = <<>> <=> parts = <<>>
  BY <1>1, PartsType DEF Unchanged, NoMore
<1>3. \A i \in 1..n : /\ parts[i] \in RefType /\ parts[i].offset = fs[i].at + FrameHeaderLen
                      /\ parts[i].len = fs[i].len - FrameHeaderLen /\ parts[i].gen = gen
  BY <1>1, <1>2, PartsType DEF Unchanged, Known
<1>4. parts = RefsOf(fs, gen)
  <2> DEFINE rs == RefsOf(fs, gen)
  <2>1. /\ rs \in Seq(RefType) /\ Len(rs) = n
        /\ \A i \in 1..n : /\ rs[i] \in RefType
                           /\ rs[i].offset = fs[i].at + FrameHeaderLen
                           /\ rs[i].len = fs[i].len - FrameHeaderLen
                           /\ rs[i].gen = gen
    BY <1>1, <1>2, RefsOfFrames DEF TypeOK
  <2> HIDE DEF rs
  <2>2. \A i \in 1..n : parts[i] = rs[i]
    <3> SUFFICES ASSUME NEW i \in 1..n PROVE parts[i] = rs[i]
      OBVIOUS
    <3>1. parts[i] \in RefType /\ rs[i] \in RefType
      BY <1>3, <2>1
    <3>2. parts[i].offset = rs[i].offset /\ parts[i].len = rs[i].len /\ parts[i].gen = rs[i].gen
      BY <1>3, <2>1
    <3> QED BY <3>1, <3>2 DEF RefType
  <2>3. parts \in Seq(RefType)
    BY <1>1 DEF TypeOK
  <2>4. parts = rs
    BY <1>2, <2>1, <2>2, <2>3, SeqEqual
  <2> QED BY <2>4 DEF rs
<1>5. end = FileLen(hdr, body)
  <2>1. hdr = CurrentHeader /\ body.tail = NoTail /\ NoTail.len = 0
    BY <1>1 DEF Unchanged, NoTail
  <2>2. hdr.kind \in {"empty", "active"}
    BY <2>1 DEF CurrentHeader, EmptyHdr, ActiveHdr
  <2>3. FileLen(hdr, body) = FramesEnd(fs) + 0
    BY <2>1, <2>2 DEF FileLen
  <2>4. CASE parts = <<>>
    BY <1>1, <1>2, <2>3, <2>4 DEF FramesEnd, Unchanged, Known
  <2>5. CASE parts # <<>>
    <3>1. n \in 1..n /\ fs[n] \in FrameType
      BY <1>1, <1>2, <2>5, PartsType
    <3>2. end = parts[n].offset + parts[n].len
      BY <1>1, <2>5 DEF Unchanged, Known
    <3>3. end = fs[n].at + fs[n].len /\ fs[n].at \in Nat /\ fs[n].len \in Nat
      BY <1>3, <3>1, <3>2 DEF FrameType
    <3> QED BY <1>2, <2>3, <2>5, <3>3 DEF FramesEnd
  <2> QED BY <2>4, <2>5
<1> QED BY <1>1, <1>4, <1>5 DEF Unchanged

\* Between calls a healthy handle's end, parts and segment are those of the
\* file, after any number of failed and rolled back calls.
THEOREM HandleExact == Spec => []HandleMatchesFile
BY Inductive, ExactHandle, PTL

LEMMA SoundRefs == IInv => RefsReadTheirPart
<1> SUFFICES ASSUME IInv, pc = "idle", NEW x \in issued, CheckPartRef(x.ref)
             PROVE  \E i \in DOMAIN body.frames :
                      /\ body.frames[i].at + FrameHeaderLen = x.ref.offset
                      /\ body.frames[i].len = FrameHeaderLen + x.ref.len
                      /\ body.frames[i].part = x.part
  BY DEF RefsReadTheirPart
<1>1. ~poisoned /\ x.ref.gen = gen
  BY DEF CheckPartRef
<1>2. TypeOK /\ Unchanged /\ HandleOk /\ Serving
  BY <1>1 DEF IInv, FileByPc, Serving
<1>3. PICK i \in DOMAIN parts : parts[i] = x.ref /\ body.frames[i].part = x.part
  BY <1>1, <1>2 DEF HandleOk, Finishing
<1>4. i \in DOMAIN body.frames /\ body.frames[i] \in FrameType
  BY <1>2, <1>3, PartsType DEF Unchanged, NoMore
<1>5. parts[i].offset = body.frames[i].at + FrameHeaderLen /\ parts[i].len = body.frames[i].len - FrameHeaderLen
  BY <1>2, <1>3 DEF Unchanged, Known
<1>6. body.frames[i].len = FrameHeaderLen + x.ref.len /\ body.frames[i].at + FrameHeaderLen = x.ref.offset
  BY <1>3, <1>4, <1>5 DEF FrameType
<1> QED BY <1>3, <1>4, <1>6

\* A part reference that check_part_ref accepts reads the part it was handed
\* out for, though resets, rollbacks and reopens put other parts at its place.
THEOREM RefsSound == Spec => []RefsReadTheirPart
BY Inductive, SoundRefs, PTL

\* A journal this process filled has room for the reset marker: append keeps it.
THEOREM ResetAlwaysFits == Spec => []ResetFits
<1>1. IInv => ResetFits
  BY DEF IInv, HandleOk, ResetFits, Healthy, Serving
<1> QED BY <1>1, Inductive, PTL

\* The directory entry is durable before any append or reset is asked for.
THEOREM NameDurable == Spec => []EntryDurable
<1>1. IInv => EntryDurable
  BY DEF IInv
<1> QED BY <1>1, Inductive, PTL

\* ensure_healthy: once a rollback or a committed reset failed, no call of the
\* handle writes to the file.
THEOREM PoisonFreezes == Spec => PoisonedFrozen
<1> DEFINE Frozen == poisoned /\ poisoned' => UNCHANGED <<hdr, body>>
<1>1. ASSUME IInv, [Next]_vars, poisoned, poisoned' PROVE UNCHANGED <<hdr, body>>
  <2>1. pc = "idle"
    BY <1>1 DEF IInv, HandleOk
  <2>2. ASSUME NEW i \in SegIds, NEW p \in Parts, AppendCall(i, p) PROVE UNCHANGED <<hdr, body>>
    BY <2>2 DEF AppendCall, file
  <2>3. ~Step
    BY <2>1 DEF Step, InitHeader, InitSync, Inspect, SyncRoot, AppendHeader, AppendFrame, AppendPart,
       AppendSync, RollbackTruncate, RollbackHeader, RollbackSync, WriteMarker, SyncMarker, EmptyHeader,
       SyncEmpty, TruncateBody, FinalSync
  <2>4. ~(Drop \/ Exit \/ Kill \/ PowerLoss)
    BY <1>1 DEF Drop, Exit, Kill, PowerLoss, ProcessGone, NoHandle
  <2>5. ~Rotate /\ \A m \in MaxLens : ~Open(m)
    BY <2>1 DEF Rotate, Open
  <2>6. CASE ResetCall
    BY <2>6 DEF ResetCall, file
  <2>7. CASE UNCHANGED vars
    BY <2>7 DEF vars, file
  <2> QED BY <1>1, <2>2, <2>3, <2>4, <2>5, <2>6, <2>7 DEF Next
<1>2. IInv /\ [Next]_vars => [Frozen]_vars
  BY <1>1
<1> QED BY <1>2, Inductive, PTL DEF Spec, PoisonedFrozen

\* No call returns, and none starts, over writes that are not synced.
LEMMA CleanKept ==
  ASSUME ~DirtyReopen, Clean, [Next]_vars
  PROVE  Clean'
<1>1. ASSUME NEW m \in MaxLens, Open(m) PROVE Clean'
  BY <1>1 DEF Open, Sync, Clean
<1>2. ASSUME NEW i \in SegIds, NEW p \in Parts, AppendCall(i, p) PROVE Clean'
  BY <1>2 DEF AppendCall, Clean, file, handle
<1>3. CASE ResetCall
  BY <1>3 DEF ResetCall, Clean, file, handle
<1>4. CASE InitHeader \/ InitSync \/ Inspect
  BY <1>4 DEF InitHeader, InitSync, Inspect, Clean, Sync, Refuse, file, handle
<1>5. CASE SyncRoot
  BY <1>5 DEF SyncRoot, Opened, Refuse, Return, Clean
<1>6. CASE AppendHeader \/ AppendFrame \/ AppendPart \/ AppendSync
  BY <1>6 DEF AppendHeader, AppendFrame, AppendPart, AppendSync, Fail, Sync, Clean
<1>7. CASE RollbackTruncate \/ RollbackHeader \/ RollbackSync
  BY <1>7 DEF RollbackTruncate, RollbackHeader, RollbackSync, Poison, Return, Sync, Clean
<1>8. CASE WriteMarker \/ SyncMarker
  BY <1>8 DEF WriteMarker, SyncMarker, Fail, Clean
<1>9. CASE EmptyHeader \/ SyncEmpty \/ TruncateBody
  BY <1>9 DEF EmptyHeader, SyncEmpty, TruncateBody, FinishFails, Return, Refuse, Clean
<1>10. CASE FinalSync
  BY <1>10 DEF FinalSync, FinishFails, Return, Refuse, Sync, Clean
<1>11. CASE Drop \/ Exit \/ Kill \/ PowerLoss \/ Rotate
  BY <1>11 DEF Drop, Exit, Kill, PowerLoss, ProcessGone, Rotate, Clean
<1>12. CASE UNCHANGED vars
  BY <1>12 DEF Clean, vars, file, handle
<1> QED BY <1>1, <1>2, <1>3, <1>4, <1>5, <1>6, <1>7, <1>8, <1>9, <1>10, <1>11, <1>12 DEF Next, Step

\* What a healthy handle shows survives a power loss, provided that what an
\* earlier process wrote reached the disk before the file was opened: open
\* itself syncs only a header it wrote.
THEOREM DurableWhenHealthy ==
  ASSUME ~DirtyReopen
  PROVE  Spec => []HealthyIsDurable
<1>1. Init => Clean
  BY DEF Init, Clean
<1>2. Clean /\ [Next]_vars => Clean'
  BY CleanKept
<1>3. Clean => HealthyIsDurable
  BY DEF Clean, HealthyIsDurable, Healthy
<1> QED BY <1>1, <1>2, <1>3, PTL DEF Spec

=============================================================================
