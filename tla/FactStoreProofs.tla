--------------------------- MODULE FactStoreProofs ---------------------------
(* Theorems about FactStore for every value of its constants. *)
EXTENDS FactStore, FiniteSetTheorems, TLAPS

USE StoreAssumption DEF StoreAssumption

Stages == {"idle", "built", "publish", "recover", "publish again", "finish", "settle", "recheck"}
Results == {"ok", "refused", "permanent"} \cup Backoffs
Entries == [seen : Nat, generation : Nat, old : BOOLEAN]

\* Every variable stays in its type.
TypeOK ==
  /\ last \in 1..MaxSegments /\ pgm \subseteq 1..last
  /\ ovf \in [Segments -> {"none"} \cup Keys]
  /\ view \subseteq 1..last /\ generation \in Nat /\ complete \in BOOLEAN
  /\ mark \in [generation : Nat, live : SUBSET (1..last)]
  /\ pending \in [Segments -> [Keys -> Entries]]
  /\ recent \subseteq Segments /\ (counted = NoQuota \/ counted \subseteq Segments)
  /\ failing \in {"none"} \cup Backoffs /\ due \in BOOLEAN /\ holder \in Threads \cup {Nobody}
  /\ fallback \subseteq 0..last /\ unread \subseteq 0..last
  /\ pc \in [Threads -> Stages] /\ job \in [Threads -> 0..last] /\ result \in [Threads -> Results]
  /\ faults \in Nat /\ late \in Nat

\* Nothing is known of a segment that is not sealed yet.
Ahead == \A s \in Segments : s > last => ovf[s] = "none" /\ pending[s]["new"].seen = 0

\* The quota state misses only sidecars whose publication failed behind the rename.
QuotaInv ==
  /\ QuotaHolds
  /\ counted # NoQuota => Cardinality(Files \ counted) <= late

\* A thread at this place has still to look whether its facts may leave the memory.
WillLook(b) ==
  \/ pc[b] = "finish" /\ result[b] \in {"ok"} \cup Backoffs
  \/ pc[b] = "settle" /\ result[b] \in {"ok", "refused"}
  \/ pc[b] = "recheck"
FallbackInv ==
  \A s \in fallback \ unread : Durable(s) => \E b \in Builders : job[b] = s /\ WillLook(b)

\* A segment that a complete view does not show was sealed behind it, and nobody
\* has built its facts.  The sidecar of a segment outside the mark was seen
\* absent by sweeps of this mark only, that of a segment in it by none.
Unbuilt(s) == ovf[s] = "none" /\ pending[s]["new"].seen = 0 /\ \A b \in Builders : job[b] # s
SeenOnce(e) == e.seen = 0 \/ (e.seen = 1 /\ e.generation = mark.generation)
MarkInv ==
  /\ complete => \A s \in pgm \ view : Unbuilt(s)
  /\ \A s \in pgm : IF s \in mark.live THEN pending[s]["new"].seen = 0 ELSE SeenOnce(pending[s]["new"])

StoreInv == TypeOK /\ Ahead /\ QuotaInv /\ FallbackInv /\ MarkInv

-----------------------------------------------------------------------------
(* What the operators return. *)

LEMMA ObservedEntry ==
  ASSUME NEW e \in Entries, NEW g \in Nat
  PROVE  /\ Observed(e, g) \in Entries
         /\ Observed(e, g).old = e.old
         /\ e.seen = 0 => Observed(e, g).seen = 1 /\ Observed(e, g).generation = g
         /\ e.seen # 0 /\ e.generation = g => Observed(e, g) = e
<1> DEFINE o == [e EXCEPT !.seen = @ + 1, !.generation = g]
<1>1. o \in Entries /\ o.old = e.old /\ o.seen = e.seen + 1 /\ o.generation = g
  <2>1. \A n \in Nat : [e EXCEPT !.seen = n, !.generation = g] \in Entries
    BY DEF Entries
  <2>2. e.seen + 1 \in Nat
    BY DEF Entries
  <2>3. o.old = e.old /\ o.seen = e.seen + 1 /\ o.generation = g
    BY DEF Entries
  <2> QED BY <2>1, <2>2, <2>3
<1>2. Observed(e, g) = IF e.seen = 0 \/ e.generation # g THEN o ELSE e
  BY DEF Observed
<1> HIDE DEF o
<1> QED BY <1>1, <1>2 DEF Entries

LEMMA UnseenEntry == Unseen \in Entries /\ Unseen.seen = 0
BY DEF Unseen, Entries

\* What a sweep leaves of an entry.
LEMMA SweptEntry ==
  ASSUME TypeOK, NEW m \in [generation : Nat, live : SUBSET (1..last)], Sweep(m), NEW s \in Segments, NEW k \in Keys
  PROVE  /\ pending'[s][k] \in Entries
         /\ ovf[s] # k \/ Protected(m, s) => pending'[s][k].seen = 0
         /\ pending'[s][k].seen = 0
              \/ (/\ pending'[s][k].seen <= Observed(pending[s][k], m.generation).seen
                  /\ pending'[s][k].generation = Observed(pending[s][k], m.generation).generation)
<1> DEFINE o == Observed(pending[s][k], m.generation)
           cut == [o EXCEPT !.seen = IF @ > GraceGenerations THEN GraceGenerations ELSE @]
<1>1. o \in Entries
  BY ObservedEntry DEF TypeOK
<1>2. pending'[s][k] = IF ovf[s] # k \/ Protected(m, s) \/ s \in Swept(m) THEN Unseen ELSE cut
  BY DEF Sweep
<1>3. cut \in Entries /\ cut.seen <= o.seen /\ cut.generation = o.generation
  <2> HIDE DEF o
  <2> QED BY <1>1 DEF Entries
<1> HIDE DEF cut, o
<1> QED BY <1>2, <1>3, UnseenEntry DEF o

LEMMA PendingForm ==
  ASSUME NEW m, Sweep(m), \A s \in Segments, k \in Keys : pending'[s][k] \in Entries
  PROVE  pending' \in [Segments -> [Keys -> Entries]]
<1>1. /\ DOMAIN pending' = Segments /\ pending' = [s \in Segments |-> pending'[s]]
      /\ \A s \in Segments : pending'[s] = [k \in Keys |-> pending'[s][k]]
  BY DEF Sweep
<1> QED BY <1>1

LEMMA SweepTypes ==
  ASSUME TypeOK, NEW m \in [generation : Nat, live : SUBSET (1..last)], Sweep(m)
  PROVE  /\ mark' \in [generation : Nat, live : SUBSET (1..last)]
         /\ ovf' \in [Segments -> {"none"} \cup Keys]
         /\ pending' \in [Segments -> [Keys -> Entries]]
         /\ recent' \subseteq Segments /\ counted' \subseteq Segments
         /\ counted' = Files' /\ Files' \subseteq Files
         /\ \A s \in Segments : ovf'[s] \in {"none", ovf[s]}
<1>1. \A s \in Segments, k \in Keys : pending'[s][k] \in Entries
  BY SweptEntry
<1>2. pending' \in [Segments -> [Keys -> Entries]]
  BY <1>1, PendingForm
<1>3. /\ ovf' \in [Segments -> {"none"} \cup Keys]
      /\ \A s \in Segments : ovf'[s] = IF s \in Swept(m) THEN "none" ELSE ovf[s]
  BY DEF Sweep, TypeOK
<1>4. counted' = Files'
  BY <1>3 DEF Sweep, Files
<1> QED BY <1>2, <1>3, <1>4 DEF Sweep, TypeOK, Files

LEMMA SegmentsFinite ==
  ASSUME NEW S \in SUBSET Segments
  PROVE  IsFiniteSet(S) /\ Cardinality(S) \in Nat
<1>1. IsFiniteSet(Segments)
  BY FS_Interval DEF Segments
<1> QED BY <1>1, FS_Subset, FS_CardinalityType

-----------------------------------------------------------------------------
(* Types. *)

\* The steps by what they change.
StoreStep == Seal \/ RemoveOldest \/ Grace \/ Due \/ Refresh
RefresherStep == ProbeReserve \/ Recover(R, "finish") \/ Probe
BuilderStep(b) == Load(b) \/ Build(b) \/ Panic(b)

LEMMA StepKinds ==
  ASSUME [Next]_vars
  PROVE  \/ StoreStep \/ Collect \/ RefresherStep
         \/ \E b \in Builders : BuilderStep(b)
         \/ UNCHANGED vars
BY DEF Next, StoreStep, RefresherStep, BuilderStep

LEMMA ThreadsAre == R \in Threads /\ R \notin Builders /\ Builders \subseteq Threads
BY DEF R, Threads

LEMMA GoesTypes ==
  ASSUME TypeOK, NEW t \in Threads, NEW to \in Stages, NEW r \in Results, Goes(t, to, r)
  PROVE  /\ pc' \in [Threads -> Stages] /\ result' \in [Threads -> Results] /\ job' \in [Threads -> 0..last]
         /\ pc'[t] = to /\ result'[t] = r /\ job'[t] = IF to = "idle" THEN 0 ELSE job[t]
         /\ \A u \in Threads : u # t => pc'[u] = pc[u] /\ result'[u] = result[u] /\ job'[u] = job[u]
         /\ \A u \in Threads : job'[u] \in {0, job[u]}
<1>1. 0 \in 0..last
  BY DEF TypeOK
<1> QED BY <1>1 DEF Goes, TypeOK

LEMMA SealedAre == ASSUME TypeOK PROVE pgm \subseteq Segments /\ 0 \notin Segments
BY DEF TypeOK, Segments

LEMMA TypesInit == Init => TypeOK /\ Ahead
<1> SUFFICES ASSUME Init PROVE TypeOK /\ Ahead
  OBVIOUS
<1>1. 1 \in 1..MaxSegments /\ last = 1 /\ MaxSegments \in Nat
  BY DEF Init
<1>2. pending \in [Segments -> [Keys -> Entries]] /\ \A s \in Segments : pending[s]["new"].seen = 0
  BY UnseenEntry DEF Init, Keys
<1>3. ovf \in [Segments -> {"none"} \cup Keys] /\ \A s \in Segments : s > last => ovf[s] = "none"
  BY <1>1 DEF Init, Keys, Segments
<1>4. mark \in [generation : Nat, live : SUBSET (1..last)]
  BY DEF Init, NoMark
<1>5. 0 \in 0..last
  BY <1>1
<1>6. pc \in [Threads -> Stages] /\ job \in [Threads -> 0..last] /\ result \in [Threads -> Results]
  BY <1>5 DEF Init, Stages, Results
<1>7. holder \in Threads \cup {Nobody} /\ failing = "none" /\ due \in BOOLEAN /\ fallback = {} /\ unread = {} /\ recent = {}
      /\ counted = NoQuota /\ faults = 0 /\ late = 0 /\ generation = 1 /\ complete \in BOOLEAN
      /\ pgm = {1} /\ view = {1}
  BY DEF Init
<1> QED BY <1>1, <1>2, <1>3, <1>4, <1>6, <1>7 DEF TypeOK, Ahead

\* What a publication may do: write the sidecar of its segment or not, and go on.
LEMMA PublishEffect ==
  ASSUME TypeOK, NEW b \in Builders, Publish(b)
  PROVE  /\ UNCHANGED <<last, pgm, view, generation, complete, mark, failing, due, holder, fallback, unread>>
         /\ pc[b] \in {"publish", "publish again"}
         /\ \E to \in {"recover", "finish"}, r \in Results : Goes(b, to, r)
         /\ \/ ovf' = ovf
            \/ /\ job[b] \in pgm /\ ovf' = [ovf EXCEPT ![job[b]] = "new"]
               /\ Goes(b, "finish", "ok") \/ Goes(b, "finish", "transient")
         /\ pending' = pending \/ (job[b] \in pgm /\ pending' = [pending EXCEPT ![job[b]]["new"] = Unseen])
         /\ recent' = recent \/ (job[b] \in pgm /\ recent' = recent \cup {job[b]})
<1>1. \A r \in Results : Ends(b, r) => \E to \in {"recover", "finish"} : Goes(b, to, r)
  BY DEF Ends
<1>2. \A r \in {"ok", "transient"} : Ends(b, r) => Goes(b, "finish", r)
  BY DEF Ends
<1>3. UNCHANGED <<last, pgm, view, generation, complete, mark, failing, due, holder, fallback, unread>>
  BY DEF Publish, tree, shown, persist, gc, copies
<1>4. \E r \in Results : Ends(b, r)
  BY DEF Publish, Results, Backoffs
<1>5. \/ ovf' = ovf
      \/ /\ job[b] \in pgm /\ ovf' = [ovf EXCEPT ![job[b]] = "new"]
         /\ Ends(b, "ok") \/ Ends(b, "transient")
  BY DEF Publish
<1>6. pending' = pending \/ (job[b] \in pgm /\ pending' = [pending EXCEPT ![job[b]]["new"] = Unseen])
  BY DEF Publish, gc
<1>7. recent' = recent \/ (job[b] \in pgm /\ recent' = recent \cup {job[b]})
  BY DEF Publish, gc
<1>8. pc[b] \in {"publish", "publish again"}
  BY DEF Publish
<1> QED BY <1>1, <1>2, <1>3, <1>4, <1>5, <1>6, <1>7, <1>8

\* What the other steps of a builder may do.
LEMMA BuilderEffect ==
  ASSUME TypeOK, NEW b \in Builders, BuilderStep(b), ~Publish(b), ~Recover(b, "publish again")
  PROVE  /\ UNCHANGED <<tree, ovf, shown, gc, late>>
         /\ \/ UNCHANGED threads
            \/ pc' = [pc EXCEPT ![b] = "built"] /\ UNCHANGED result
                 /\ \E s \in view : job' = [job EXCEPT ![b] = s]
            \/ \E to \in Stages, r \in Results : Goes(b, to, r)
         /\ fallback' \subseteq fallback \cup {job[b]} /\ unread' \subseteq unread \cup {job[b]}
         /\ failing' \in {"none"} \cup Backoffs /\ due' \in BOOLEAN /\ holder' \in {holder, b, Nobody}
         /\ faults' \in {faults, faults + 1}
<1>1. CASE Load(b)
  BY <1>1 DEF Load, Misses, Discards, Fault, copies, persist, tree, gc, shown, TypeOK, threads
<1>2. CASE Reserve(b)
  BY <1>2 DEF Reserve, TypeOK, copies, Stages, Results
<1>3. CASE Finishes(b)
  <2>1. \E to \in Stages, r \in Results : Goes(b, to, r)
    <3>1. result[b] \in Results
      BY ThreadsAre DEF TypeOK
    <3> QED BY <1>3, <3>1 DEF Finishes, Stages, Results
  <2>2. failing' \in {"none"} \cup Backoffs /\ due' \in BOOLEAN /\ holder' = Nobody
    BY <1>3 DEF Finishes, Finish, TypeOK
  <2> QED BY <1>3, <2>1, <2>2 DEF Finishes, copies
<1>4. CASE Settle(b) \/ Recheck(b)
  BY <1>4 DEF Settle, Recheck, Discards, Fault, copies, persist, TypeOK, Stages, Results
<1>5. CASE Panic(b)
  BY <1>5 DEF Panic, Cancel, Fault, copies, TypeOK, Stages, Results
<1> QED BY <1>1, <1>2, <1>3, <1>4, <1>5 DEF BuilderStep, Build

LEMMA CollectIsSweep ==
  ASSUME TypeOK, Collect
  PROVE  /\ [generation |-> generation, live |-> view] \in [generation : Nat, live : SUBSET (1..last)]
         /\ Sweep([generation |-> generation, live |-> view]) /\ complete
         /\ UNCHANGED <<last, pgm, view, generation, complete, failing, due, holder, fallback, unread, pc, job, result, faults, late>>
BY DEF Collect, TypeOK, tree, shown, persist, threads, copies

LEMMA FaultsCount == ASSUME faults \in Nat, faults' \in {faults, faults + 1} PROVE faults' \in Nat
OBVIOUS

LEMMA RecoverIs ==
  ASSUME TypeOK, NEW t \in Threads, NEW after \in {"finish", "publish again"}, Recover(t, after)
  PROVE  /\ UNCHANGED <<last, pgm, view, generation, complete, failing, due, holder, fallback, unread, late>>
         /\ Sweep(mark) \/ UNCHANGED <<ovf, mark, pending, recent, counted>>
         /\ pc[t] = "recover" /\ \E to \in {after, "finish"} : Goes(t, to, result[t])
         /\ faults' \in {faults, faults + 1}
BY DEF Recover, tree, shown, persist, gc, copies, Fault

LEMMA TypesStep ==
  ASSUME TypeOK, [Next]_vars
  PROVE  TypeOK'
<1>1. CASE StoreStep
  <2>1. /\ last' \in 1..MaxSegments /\ last <= last' /\ pgm' \subseteq 1..last' /\ view' \subseteq 1..last'
        /\ complete' \in BOOLEAN /\ generation' \in Nat /\ faults' \in Nat /\ late' = late
    <3>1. CASE Seal
      BY <3>1 DEF Seal, shown, TypeOK
    <3>2. CASE RemoveOldest \/ Grace \/ Due
      BY <3>2 DEF RemoveOldest, Grace, Due, tree, shown, TypeOK
    <3>3. CASE Refresh
      <4>1. view' \subseteq pgm /\ complete' \in BOOLEAN
        BY <3>3 DEF Refresh
      <4>2. faults' \in {faults, faults + 1} /\ generation' = generation + 1 /\ UNCHANGED <<last, pgm, late>>
        BY <3>3 DEF Refresh, tree
      <4> QED BY <4>1, <4>2 DEF TypeOK
    <3> QED BY <1>1, <3>1, <3>2, <3>3 DEF StoreStep
  <2>2. /\ UNCHANGED <<mark, counted, failing, holder, fallback, unread, pc, job, result>>
        /\ recent' \subseteq recent /\ due' \in BOOLEAN
    BY <1>1 DEF StoreStep, Seal, RemoveOldest, Grace, Due, Refresh, gc, persist, threads, copies, TypeOK
  <2>3. ovf' \in [Segments -> {"none"} \cup Keys]
    BY <1>1 DEF StoreStep, Seal, RemoveOldest, Grace, Due, Refresh, TypeOK
  <2>4. pending' \in [Segments -> [Keys -> Entries]]
    <3>1. CASE Grace
      <4>1. \A e \in Entries, v \in BOOLEAN : [e EXCEPT !.old = v] \in Entries
        BY DEF Entries
      <4>2. \A s \in Segments, k \in Keys : pending[s][k] \in Entries /\ (pending[s][k].seen > 0) \in BOOLEAN
        BY DEF TypeOK
      <4>3. \A s \in Segments, k \in Keys : [pending[s][k] EXCEPT !.old = pending[s][k].seen > 0] \in Entries
        BY <4>1, <4>2
      <4> QED BY <3>1, <4>3 DEF Grace
    <3>2. CASE ~Grace
      BY <1>1, <3>2 DEF StoreStep, Seal, RemoveOldest, Due, Refresh, gc, TypeOK
    <3> QED BY <3>1, <3>2
  <2>5. 1..last \subseteq 1..last' /\ 0..last \subseteq 0..last'
    BY <2>1 DEF TypeOK
  <2>6. mark' \in [generation : Nat, live : SUBSET (1..last')] /\ fallback' \subseteq 0..last'
        /\ unread' \subseteq 0..last' /\ job' \in [Threads -> 0..last']
    <3>1. \A f \in [Threads -> 0..last] : f \in [Threads -> 0..last']
      BY <2>5
    <3> QED BY <2>2, <2>5, <3>1 DEF TypeOK
  <2> QED BY <2>1, <2>2, <2>3, <2>4, <2>6 DEF TypeOK
<1>2. CASE Collect
  <2> DEFINE m == [generation |-> generation, live |-> view]
  <2>1. /\ m \in [generation : Nat, live : SUBSET (1..last)] /\ Sweep(m)
        /\ UNCHANGED <<last, pgm, view, generation, complete, failing, due, holder, fallback, unread, pc, job, result, faults, late>>
    BY <1>2, CollectIsSweep
  <2> HIDE DEF m
  <2> QED BY <2>1, SweepTypes DEF TypeOK
<1>3. ASSUME NEW t \in Threads, NEW after \in {"finish", "publish again"}, Recover(t, after) PROVE TypeOK'
  <2>1. /\ UNCHANGED <<last, pgm, view, generation, complete, failing, due, holder, fallback, unread, late>>
        /\ Sweep(mark) \/ UNCHANGED <<ovf, mark, pending, recent, counted>>
        /\ \E to \in {after, "finish"} : Goes(t, to, result[t])
        /\ faults' \in {faults, faults + 1}
    BY <1>3, RecoverIs
  <2>2. result[t] \in Results /\ after \in Stages /\ "finish" \in Stages
    BY DEF TypeOK, Stages
  <2>3. /\ pc' \in [Threads -> Stages] /\ result' \in [Threads -> Results] /\ job' \in [Threads -> 0..last]
    BY <2>1, <2>2, GoesTypes
  <2>4. mark \in [generation : Nat, live : SUBSET (1..last)]
    BY DEF TypeOK
  <2>5. /\ mark' \in [generation : Nat, live : SUBSET (1..last)]
        /\ ovf' \in [Segments -> {"none"} \cup Keys]
        /\ pending' \in [Segments -> [Keys -> Entries]]
        /\ recent' \subseteq Segments /\ (counted' = NoQuota \/ counted' \subseteq Segments)
    BY <2>1, <2>4, SweepTypes DEF TypeOK
  <2>6. /\ faults' \in Nat /\ late' \in Nat /\ last' \in 1..MaxSegments /\ pgm' \subseteq 1..last' /\ view' \subseteq 1..last'
        /\ generation' \in Nat /\ complete' \in BOOLEAN /\ failing' \in {"none"} \cup Backoffs /\ due' \in BOOLEAN
        /\ holder' \in Threads \cup {Nobody} /\ fallback' \subseteq 0..last' /\ unread' \subseteq 0..last' /\ last' = last
    <3>1. UNCHANGED <<last, pgm, view, generation, complete, failing, due, holder, fallback, unread, late>>
      BY <2>1
    <3>2. faults' \in Nat
      <4>1. faults' \in {faults, faults + 1}
        BY <2>1
      <4>2. faults \in Nat
        BY DEF TypeOK
      <4> QED BY <4>1, <4>2, FaultsCount
    <3> QED BY <3>1, <3>2 DEF TypeOK
  <2> QED BY <2>3, <2>5, <2>6 DEF TypeOK
<1>4. CASE ProbeReserve \/ Probe
  <2>1. UNCHANGED <<tree, ovf, shown, gc, copies, late>>
    BY <1>4 DEF ProbeReserve, Probe
  <2>2. \E to \in Stages : Goes(R, to, "ok")
    BY <1>4 DEF ProbeReserve, Probe, Stages
  <2>3. failing' \in {"none"} \cup Backoffs /\ due' \in BOOLEAN /\ holder' \in {R, Nobody} /\ faults' \in {faults, faults + 1}
    BY <1>4 DEF ProbeReserve, Probe, Finish, Fault, TypeOK
  <2>4. /\ pc' \in [Threads -> Stages] /\ result' \in [Threads -> Results] /\ job' \in [Threads -> 0..last]
    BY <2>2, GoesTypes, ThreadsAre DEF Results
  <2> QED BY <2>1, <2>3, <2>4, ThreadsAre DEF TypeOK, tree, shown, gc, copies
<1>5. ASSUME NEW b \in Builders, BuilderStep(b) PROVE TypeOK'
  <2>1. b \in Threads
    BY ThreadsAre
  <2>2. CASE Recover(b, "publish again")
    BY <1>3, <2>1, <2>2
  <2>3. CASE Publish(b)
    <3>0. /\ UNCHANGED <<last, pgm, view, generation, complete, mark, failing, due, holder, fallback, unread>>
          /\ \E to \in {"recover", "finish"}, r \in Results : Goes(b, to, r)
          /\ ovf' = ovf \/ ovf' = [ovf EXCEPT ![job[b]] = "new"]
          /\ pending' = pending \/ (job[b] \in pgm /\ pending' = [pending EXCEPT ![job[b]]["new"] = Unseen])
          /\ recent' = recent \/ (job[b] \in pgm /\ recent' = recent \cup {job[b]})
      BY <2>3, PublishEffect
    <3>1. /\ pc' \in [Threads -> Stages] /\ result' \in [Threads -> Results] /\ job' \in [Threads -> 0..last]
      <4>1. PICK to \in {"recover", "finish"}, r \in Results : Goes(b, to, r)
        BY <3>0
      <4>2. to \in Stages
        BY DEF Stages
      <4> QED BY <2>1, <4>1, <4>2, GoesTypes
    <3>2. ovf' \in [Segments -> {"none"} \cup Keys]
      BY <3>0 DEF TypeOK, Keys
    <3>3. pgm \subseteq Segments
      BY DEF TypeOK, Segments
    <3>4. pending' \in [Segments -> [Keys -> Entries]]
      <4>1. pending \in [Segments -> [Keys -> Entries]] /\ "new" \in Keys
        BY DEF TypeOK, Keys
      <4>2. job[b] \in pgm => [pending EXCEPT ![job[b]]["new"] = Unseen] \in [Segments -> [Keys -> Entries]]
        <5>1. Unseen \in Entries
          BY UnseenEntry
        <5> SUFFICES ASSUME job[b] \in pgm
                     PROVE  [pending EXCEPT ![job[b]]["new"] = Unseen] \in [Segments -> [Keys -> Entries]]
          OBVIOUS
        <5>2. job[b] \in Segments
          BY <3>3
        <5>3. [pending[job[b]] EXCEPT !["new"] = Unseen] \in [Keys -> Entries]
          BY <4>1, <5>1, <5>2
        <5> QED BY <4>1, <5>2, <5>3
      <4> QED BY <3>0, <4>1, <4>2
    <3>5. counted' = NoQuota \/ counted' \subseteq Segments
      <4>1. \/ counted' \in {counted, CountedNow}
            \/ job[b] \in pgm /\ counted' = CountedNow \cup {job[b]}
        BY <2>3 DEF Publish, gc
      <4>2. counted = NoQuota \/ counted \subseteq Segments
        BY DEF TypeOK
      <4>3. CountedNow = counted \/ CountedNow \subseteq Segments
        BY DEF CountedNow, Files
      <4>4. CountedNow # NoQuota => CountedNow \subseteq Segments
        BY <4>2, <4>3
      <4>5. CASE counted' \in {counted, CountedNow}
        BY <4>2, <4>4, <4>5
      <4>6. CASE job[b] \in pgm /\ counted' = CountedNow \cup {job[b]}
        <5>1. CountedNow \subseteq Segments
          BY <4>2 DEF CountedNow, Files
        <5> QED BY <3>3, <4>6, <5>1
      <4> QED BY <4>1, <4>5, <4>6
    <3>6. faults' \in {faults, faults + 1} /\ late' \in {late, late + 1}
      BY <2>3 DEF Publish, Misses, Fault
    <3>7. recent' \subseteq Segments
      <4>1. recent \subseteq Segments
        BY DEF TypeOK
      <4>2. recent' = recent \/ (job[b] \in pgm /\ recent' = recent \cup {job[b]})
        BY <3>0
      <4> QED BY ONLY <3>3, <4>1, <4>2
    <3> QED BY <3>0, <3>1, <3>2, <3>4, <3>5, <3>6, <3>7 DEF TypeOK
  <2>4. CASE ~Publish(b) /\ ~Recover(b, "publish again")
    <3>1. /\ UNCHANGED <<tree, ovf, shown, gc, late>>
          /\ \/ UNCHANGED threads
             \/ pc' = [pc EXCEPT ![b] = "built"] /\ UNCHANGED result
                  /\ \E s \in view : job' = [job EXCEPT ![b] = s]
             \/ \E to \in Stages, r \in Results : Goes(b, to, r)
          /\ fallback' \subseteq fallback \cup {job[b]} /\ unread' \subseteq unread \cup {job[b]}
          /\ failing' \in {"none"} \cup Backoffs /\ due' \in BOOLEAN /\ holder' \in {holder, b, Nobody}
          /\ faults' \in {faults, faults + 1}
      BY <1>5, <2>4, BuilderEffect
    <3>2. CASE UNCHANGED threads
      BY <2>1, <3>1, <3>2 DEF TypeOK, tree, shown, gc, threads
    <3>3. CASE pc' = [pc EXCEPT ![b] = "built"] /\ UNCHANGED result /\ \E s \in view : job' = [job EXCEPT ![b] = s]
      <4>0. view \subseteq 0..last /\ job \in [Threads -> 0..last] /\ "built" \in Stages
        <5>1. 1..last \subseteq 0..last
          BY DEF TypeOK
        <5> QED BY <5>1 DEF TypeOK, Stages
      <4>1. /\ pc' \in [Threads -> Stages] /\ result' \in [Threads -> Results] /\ job' \in [Threads -> 0..last]
        BY <3>3, <4>0 DEF TypeOK
      <4> QED BY <2>1, <3>1, <4>1 DEF TypeOK, tree, shown, gc
    <3>4. CASE \E to \in Stages, r \in Results : Goes(b, to, r)
      <4>1. /\ pc' \in [Threads -> Stages] /\ result' \in [Threads -> Results] /\ job' \in [Threads -> 0..last]
        BY <2>1, <3>4, GoesTypes
      <4> QED BY <2>1, <3>1, <4>1 DEF TypeOK, tree, shown, gc
    <3> QED BY <3>1, <3>2, <3>3, <3>4
  <2> QED BY <2>2, <2>3, <2>4
<1>6. CASE UNCHANGED vars
  BY <1>6 DEF vars, tree, shown, gc, persist, threads, copies, TypeOK
<1>7. CASE RefresherStep
  BY <1>3, <1>4, <1>7, ThreadsAre DEF RefresherStep
<1> QED BY <1>1, <1>2, <1>5, <1>6, <1>7, StepKinds

-----------------------------------------------------------------------------
(* The quota. *)

LEMMA QuotaInit == Init => QuotaInv
<1> SUFFICES ASSUME Init PROVE QuotaInv
  OBVIOUS
<1>1. Files \in SUBSET {1}
  BY DEF Init, Files
<1>2. IsFiniteSet({1}) /\ Cardinality({1}) = 1
  BY FS_Singleton
<1>3. IsFiniteSet(Files) /\ Cardinality(Files) <= Cardinality({1})
  BY <1>1, <1>2, FS_Subset
<1>4. Cardinality(Files) \in Nat
  BY <1>3, FS_CardinalityType
<1> QED BY <1>2, <1>3, <1>4 DEF Init, QuotaInv, QuotaHolds

\* Fewer sidecars, all of them counted or not as before.
LEMMA QuotaShrinks ==
  ASSUME TypeOK, QuotaInv, Files' \subseteq Files, late' = late,
         counted' = counted \/ Files' \subseteq counted'
  PROVE  QuotaInv'
<1>1. Files \in SUBSET Segments /\ Files' \in SUBSET Files /\ Files' \in SUBSET Segments
  BY DEF Files
<1>2. Cardinality(Files') <= Cardinality(Files) /\ Cardinality(Files') \in Nat /\ Cardinality(Files) \in Nat
  BY <1>1, SegmentsFinite, FS_Subset
<1>3. counted' = counted => Cardinality(Files' \ counted') <= Cardinality(Files \ counted)
  <2>1. (Files \ counted) \in SUBSET Segments /\ (Files' \ counted) \in SUBSET (Files \ counted)
    BY <1>1
  <2> QED BY <2>1, SegmentsFinite, FS_Subset
<1>4. Files' \subseteq counted' => Cardinality(Files' \ counted') = 0
  <2>1. Files' \subseteq counted' => Files' \ counted' = {}
    OBVIOUS
  <2> QED BY <2>1, FS_EmptySet
<1>5. Cardinality(Files' \ counted') \in Nat /\ Cardinality(Files \ counted) \in Nat /\ late \in Nat
  BY <1>1, SegmentsFinite DEF TypeOK
<1> QED BY <1>2, <1>3, <1>4, <1>5 DEF QuotaInv, QuotaHolds, TypeOK

\* One sidecar more, within what the quota state allows.
LEMMA QuotaGrows ==
  ASSUME TypeOK, QuotaInv, NEW s \in Segments, Files' = Files \cup {s},
         Admits(Cardinality(CountedNow)),
         \/ counted' = CountedNow \cup {s} /\ late' = late
         \/ counted' = CountedNow /\ late' = IF s \in Files THEN late ELSE late + 1
  PROVE  QuotaInv'
<1> DEFINE C == CountedNow
           U == Files \ C
<1>1. C \in SUBSET Segments /\ Files \in SUBSET Segments /\ U \in SUBSET Segments
  BY DEF CountedNow, Files, TypeOK
<1>2. /\ IsFiniteSet(C) /\ IsFiniteSet(Files) /\ IsFiniteSet(U)
      /\ Cardinality(C) \in Nat /\ Cardinality(Files) \in Nat /\ Cardinality(U) \in Nat
  BY <1>1, SegmentsFinite
<1>3. Cardinality(U) <= late /\ late \in Nat
  <2>1. counted = NoQuota => U = {}
    BY DEF CountedNow
  <2>2. counted # NoQuota => U = Files \ counted
    BY DEF CountedNow
  <2>3. late \in Nat
    BY DEF TypeOK
  <2>4. counted = NoQuota => Cardinality(U) = 0
    BY <2>1, FS_EmptySet
  <2>5. counted # NoQuota => Cardinality(U) <= late
    BY <2>2 DEF QuotaInv
  <2> HIDE DEF U
  <2> QED BY <2>3, <2>4, <2>5
<1>4. Cardinality(C) + 1 <= MaxFiles /\ MaxFiles \in Nat
  BY DEF Admits
<1>5. Cardinality(Files) <= Cardinality(C) + Cardinality(U)
  <2>1. Files \in SUBSET (C \cup U)
    OBVIOUS
  <2>2. Cardinality(C \cup U) = Cardinality(C) + Cardinality(U) - Cardinality(C \cap U) /\ IsFiniteSet(C \cup U)
    BY <1>2, FS_Union
  <2>3. Cardinality(C \cap U) \in Nat
    BY <1>1, SegmentsFinite
  <2>4. Cardinality(Files) <= Cardinality(C \cup U)
    BY <2>1, <2>2, FS_Subset
  <2> HIDE DEF C, U
  <2> QED BY <1>2, <2>2, <2>3, <2>4
<1>6. Cardinality(Files') <= Cardinality(Files) + 1 /\ Cardinality(Files') \in Nat
  <2>1. Cardinality(Files \cup {s}) = IF s \in Files THEN Cardinality(Files) ELSE Cardinality(Files) + 1
    BY <1>2, FS_AddElement
  <2> QED BY <1>2, <2>1
<1>7. Files' \ (C \cup {s}) \in SUBSET U /\ Files' \ C \in SUBSET (U \cup {s}) /\ (s \in Files => Files' \ C = U)
  OBVIOUS
<1>8. Cardinality(Files' \ (C \cup {s})) <= Cardinality(U) /\ Cardinality(Files' \ (C \cup {s})) \in Nat
  BY <1>2, <1>7, FS_Subset, FS_CardinalityType
<1>9. /\ Cardinality(Files' \ C) <= Cardinality(U) + 1 /\ Cardinality(Files' \ C) \in Nat
      /\ s \in Files => Cardinality(Files' \ C) = Cardinality(U)
  <2>1. IsFiniteSet(U \cup {s}) /\ Cardinality(U \cup {s}) <= Cardinality(U) + 1
    <3>1. /\ IsFiniteSet(U \cup {s})
          /\ Cardinality(U \cup {s}) = IF s \in U THEN Cardinality(U) ELSE Cardinality(U) + 1
      BY <1>2, FS_AddElement
    <3> HIDE DEF U
    <3> QED BY <1>2, <3>1
  <2>2. Cardinality(U \cup {s}) \in Nat
    BY <2>1, FS_CardinalityType
  <2>3. Cardinality(Files' \ C) <= Cardinality(U \cup {s}) /\ IsFiniteSet(Files' \ C)
    BY <1>7, <2>1, FS_Subset
  <2>4. Cardinality(Files' \ C) \in Nat
    BY <2>3, FS_CardinalityType
  <2> HIDE DEF U, C
  <2> QED BY <1>2, <1>7, <2>1, <2>2, <2>3, <2>4
<1>10. CASE counted' = CountedNow \cup {s} /\ late' = late
  <2>1. Cardinality(Files' \ counted') <= late'
    BY <1>3, <1>8, <1>10, <1>2
  <2>2. Cardinality(Files') <= MaxFiles + late'
    <3> HIDE DEF U, C
    <3> QED BY <1>2, <1>3, <1>4, <1>5, <1>6, <1>10
  <2> QED BY <2>1, <2>2 DEF QuotaInv, QuotaHolds
<1>11. CASE counted' = CountedNow /\ late' = IF s \in Files THEN late ELSE late + 1
  <2>1. Cardinality(Files' \ counted') <= late'
    BY <1>3, <1>9, <1>11, <1>2
  <2>2. Cardinality(Files') <= MaxFiles + late'
    <3>1. late' >= late /\ late' \in Nat
      BY <1>3, <1>11
    <3> HIDE DEF U, C
    <3> QED BY <1>2, <1>3, <1>4, <1>5, <1>6, <3>1
  <2> QED BY <2>1, <2>2 DEF QuotaInv, QuotaHolds
<1> QED BY <1>10, <1>11

\* The steps by what they do to the sidecars and to what the sweeps know of them.
SweepStep ==
  /\ \E m \in [generation : Nat, live : SUBSET (1..last)] : Sweep(m)
  /\ UNCHANGED <<last, pgm, view, generation, complete, fallback, unread, late>>
LEMMA StoreSteps ==
  ASSUME TypeOK, [Next]_vars
  PROVE  \/ StoreStep \/ SweepStep
         \/ \E b \in Builders : Publish(b)
         \/ UNCHANGED <<tree, ovf, shown, gc, late>>
<1>1. ASSUME NEW t \in Threads, NEW after \in {"finish", "publish again"}, Recover(t, after)
      PROVE  SweepStep \/ UNCHANGED <<tree, ovf, shown, gc, late>>
  <2>1. /\ UNCHANGED <<last, pgm, view, generation, complete, fallback, unread, late>>
        /\ Sweep(mark) \/ UNCHANGED <<ovf, mark, pending, recent, counted>>
    BY <1>1, RecoverIs
  <2>2. mark \in [generation : Nat, live : SUBSET (1..last)]
    BY DEF TypeOK
  <2> QED BY <2>1, <2>2 DEF SweepStep, tree, shown, gc
<1>2. Collect => SweepStep
  BY CollectIsSweep DEF SweepStep
<1>3. RefresherStep => SweepStep \/ UNCHANGED <<tree, ovf, shown, gc, late>>
  BY <1>1, ThreadsAre DEF RefresherStep, ProbeReserve, Probe
<1>4. ASSUME NEW b \in Builders, BuilderStep(b)
      PROVE  Publish(b) \/ SweepStep \/ UNCHANGED <<tree, ovf, shown, gc, late>>
  BY <1>1, <1>4, BuilderEffect, ThreadsAre
<1>5. UNCHANGED vars => UNCHANGED <<tree, ovf, shown, gc, late>>
  BY DEF vars
<1> QED BY <1>2, <1>3, <1>4, <1>5, StepKinds

LEMMA AheadStep == ASSUME TypeOK, Ahead, [Next]_vars PROVE Ahead'
<1>1. CASE StoreStep
  <2>1. last' >= last /\ \A s \in Segments : s > last' => s > last
    <3>1. last' = last \/ last' = last + 1
      BY <1>1 DEF StoreStep, Seal, RemoveOldest, Grace, Due, Refresh, tree
    <3> QED BY <3>1 DEF TypeOK, Segments
  <2>2. \A s \in Segments : ovf'[s] \in {"none", ovf[s]}
    BY <1>1 DEF StoreStep, Seal, RemoveOldest, Grace, Due, Refresh, TypeOK
  <2>3. \A s \in Segments : pending'[s]["new"].seen = pending[s]["new"].seen
    <3>1. CASE Grace
      <4>1. \A s \in Segments : pending[s]["new"] \in Entries /\ "new" \in Keys
        BY DEF TypeOK, Keys
      <4> QED BY <3>1, <4>1 DEF Grace, Entries
    <3>2. CASE ~Grace
      BY <1>1, <3>2 DEF StoreStep, Seal, RemoveOldest, Due, Refresh, gc
    <3> QED BY <3>1, <3>2
  <2> QED BY <2>1, <2>2, <2>3 DEF Ahead
<1>2. CASE SweepStep
  <2>1. PICK m \in [generation : Nat, live : SUBSET (1..last)] : Sweep(m)
    BY <1>2 DEF SweepStep
  <2>2. \A s \in Segments : ovf'[s] \in {"none", ovf[s]}
    BY <2>1, SweepTypes
  <2>3. \A s \in Segments : ovf[s] # "new" => pending'[s]["new"].seen = 0
    BY <2>1, SweptEntry DEF Keys
  <2> QED BY <1>2, <2>2, <2>3 DEF Ahead, SweepStep
<1>3. ASSUME NEW b \in Builders, Publish(b) PROVE Ahead'
  <2>1. /\ last' = last
        /\ ovf' = ovf \/ (job[b] \in pgm /\ ovf' = [ovf EXCEPT ![job[b]] = "new"])
        /\ pending' = pending \/ (job[b] \in pgm /\ pending' = [pending EXCEPT ![job[b]]["new"] = Unseen])
    BY <1>3, PublishEffect
  <2>2. \A s \in pgm : ~(s > last)
    BY DEF TypeOK
  <2>3. \A s \in Segments : s > last' => ovf'[s] = ovf[s] /\ pending'[s] = pending[s]
    BY <2>1, <2>2 DEF TypeOK
  <2> QED BY <2>1, <2>3 DEF Ahead
<1>4. CASE UNCHANGED <<tree, ovf, shown, gc, late>>
  BY <1>4 DEF Ahead, tree, gc
<1> QED BY <1>1, <1>2, <1>3, <1>4, StoreSteps

LEMMA QuotaStep == ASSUME TypeOK, QuotaInv, [Next]_vars PROVE QuotaInv'
<1>1. CASE StoreStep
  <2>1. Files' \subseteq Files
    BY <1>1 DEF StoreStep, Seal, RemoveOldest, Grace, Due, Refresh, TypeOK, Files
  <2>2. counted' = counted /\ late' = late
    BY <1>1 DEF StoreStep, Seal, RemoveOldest, Grace, Due, Refresh, gc
  <2> QED BY <2>1, <2>2, QuotaShrinks
<1>2. CASE SweepStep
  <2>1. counted' = Files' /\ Files' \subseteq Files /\ late' = late
    BY <1>2, SweepTypes DEF SweepStep
  <2> QED BY <2>1, QuotaShrinks
<1>3. ASSUME NEW b \in Builders, Publish(b) PROVE QuotaInv'
  <2> DEFINE s == job[b]
  <2>1. CASE ovf' = ovf /\ late' = late /\ counted' \in {counted, CountedNow}
    <3>1. Files' = Files
      BY <2>1 DEF Files
    <3>2. counted' = counted \/ Files \subseteq counted'
      BY <2>1 DEF CountedNow
    <3> QED BY <2>1, <3>1, <3>2, QuotaShrinks
  <2>2. CASE /\ s \in pgm /\ Admits(Cardinality(CountedNow))
             /\ ovf' = [ovf EXCEPT ![s] = "new"]
             /\ \/ counted' = CountedNow \cup {s} /\ late' = late
                \/ counted' = CountedNow /\ late' = IF ovf[s] = "none" THEN late + 1 ELSE late
    <3>0. pgm \subseteq Segments
      BY DEF TypeOK, Segments
    <3>1. s \in Segments
      BY <2>2, <3>0
    <3>2. Files' = Files \cup {s}
      BY <2>2, <3>1 DEF Files, TypeOK
    <3>3. s \in Files <=> ovf[s] # "none"
      BY <3>1 DEF Files
    <3>4. \/ counted' = CountedNow \cup {s} /\ late' = late
          \/ counted' = CountedNow /\ late' = IF s \in Files THEN late ELSE late + 1
      BY <2>2, <3>3
    <3> QED BY <2>2, <3>1, <3>2, <3>4, QuotaGrows
  <2> QED BY <1>3, <2>1, <2>2 DEF Publish, gc
<1>4. CASE UNCHANGED <<tree, ovf, shown, gc, late>>
  BY <1>4, QuotaShrinks DEF Files, gc
<1> QED BY <1>1, <1>2, <1>3, <1>4, StoreSteps


-----------------------------------------------------------------------------
(* The fallback. *)

\* Whoever had still to look has, when the step is another thread's.
LEMMA OthersLook ==
  ASSUME FallbackInv, NEW s \in fallback \ unread, Durable(s), NEW t, t \notin Builders \/ ~WillLook(t) \/ job[t] # s,
         \A u \in Threads : u # t => pc'[u] = pc[u] /\ result'[u] = result[u] /\ job'[u] = job[u]
  PROVE  \E b \in Builders : job'[b] = s /\ WillLook(b)'
<1>1. PICK b \in Builders : job[b] = s /\ WillLook(b)
  BY DEF FallbackInv
<1>2. b # t /\ b \in Threads
  BY <1>1, ThreadsAre
<1>3. job'[b] = s /\ WillLook(b)'
  BY <1>1, <1>2 DEF WillLook
<1> QED BY <1>1, <1>3

LEMMA FallbackStep == ASSUME TypeOK, FallbackInv, [Next]_vars PROVE FallbackInv'
<1> SUFFICES ASSUME NEW s \in fallback' \ unread', Durable(s)'
             PROVE  \E b \in Builders : job'[b] = s /\ WillLook(b)'
  BY DEF FallbackInv
<1>1. ASSUME UNCHANGED threads, UNCHANGED copies, Durable(s)
      PROVE  \E b \in Builders : job'[b] = s /\ WillLook(b)'
  <2>1. \A u \in Threads : pc'[u] = pc[u] /\ result'[u] = result[u] /\ job'[u] = job[u]
    BY <1>1 DEF threads
  <2> QED BY <1>1, <2>1, OthersLook, ThreadsAre DEF copies
<1>2. CASE StoreStep
  <2>1. UNCHANGED threads /\ UNCHANGED copies
    BY <1>2 DEF StoreStep, Seal, RemoveOldest, Grace, Due, Refresh
  <2>2. s \in fallback /\ s \in pgm' /\ ovf'[s] = "new" /\ s # last + 1
    BY <2>1 DEF TypeOK, Durable, copies
  <2>3. s \in pgm
    BY <1>2, <2>2 DEF StoreStep, Seal, RemoveOldest, Grace, Due, Refresh, tree
  <2>4. pgm \subseteq Segments
    BY DEF TypeOK, Segments
  <2>5. ovf[s] = "new"
    BY <1>2, <2>2, <2>3, <2>4 DEF StoreStep, Seal, RemoveOldest, Grace, Due, Refresh, TypeOK
  <2> QED BY <1>1, <2>1, <2>3, <2>5 DEF Durable
<1>3. CASE Collect
  <2>1. /\ UNCHANGED <<last, pgm, fallback, unread, pc, job, result>>
        /\ \E m \in [generation : Nat, live : SUBSET (1..last)] : Sweep(m)
    BY <1>3, CollectIsSweep
  <2>2. \A r \in Segments : ovf'[r] \in {"none", ovf[r]}
    BY <2>1, SweepTypes
  <2>3. Durable(s)
    BY <2>1, <2>2 DEF Durable, TypeOK, Segments
  <2> QED BY <1>1, <2>1, <2>3 DEF threads, copies
<1>4. ASSUME NEW t \in Threads, NEW after \in {"finish", "publish again"}, Recover(t, after)
      PROVE  \E b \in Builders : job'[b] = s /\ WillLook(b)'
  <2>1. /\ UNCHANGED <<last, pgm, fallback, unread>>
        /\ Sweep(mark) \/ UNCHANGED <<ovf, mark, pending, recent, counted>>
        /\ pc[t] = "recover" /\ \E to \in {after, "finish"} : Goes(t, to, result[t])
    BY <1>4, RecoverIs
  <2>2. \A r \in Segments : ovf'[r] = ovf[r] \/ ovf'[r] \in {"none", ovf[r]}
    BY <2>1, SweepTypes DEF TypeOK
  <2>3. Durable(s) /\ s \in fallback \ unread
    <3>1. s \in pgm /\ ovf'[s] = "new" /\ s \in fallback \ unread
      BY <2>1 DEF Durable
    <3>2. pgm \subseteq Segments
      BY SealedAre
    <3>3. ovf'[s] = ovf[s] \/ ovf'[s] \in {"none", ovf[s]}
      BY <2>2, <3>1, <3>2
    <3> QED BY <3>1, <3>3 DEF Durable
  <2>4. \A u \in Threads : u # t => pc'[u] = pc[u] /\ result'[u] = result[u] /\ job'[u] = job[u]
    <3>1. PICK to \in {after, "finish"} : Goes(t, to, result[t])
      BY <2>1
    <3>2. to \in Stages
      BY DEF Stages
    <3>3. result[t] \in Results
      BY DEF TypeOK
    <3> QED BY <3>1, <3>2, <3>3, GoesTypes
  <2>5. ~WillLook(t)
    BY <2>1 DEF WillLook
  <2>6. PICK b \in Builders : job[b] = s /\ WillLook(b)
    BY <2>3 DEF FallbackInv
  <2>7. pc'[b] = pc[b] /\ result'[b] = result[b] /\ job'[b] = job[b]
    BY <2>4, <2>5, <2>6, ThreadsAre
  <2> QED BY <2>6, <2>7 DEF WillLook
<1>5. CASE ProbeReserve \/ Probe
  <2>1. UNCHANGED <<tree, ovf, copies>> /\ \E to \in Stages : Goes(R, to, "ok")
    BY <1>5 DEF ProbeReserve, Probe, Stages
  <2>2. Durable(s) /\ s \in fallback \ unread
    BY <2>1 DEF Durable, tree, copies
  <2>3. \A u \in Threads : u # R => pc'[u] = pc[u] /\ result'[u] = result[u] /\ job'[u] = job[u]
    BY <2>1, GoesTypes, ThreadsAre DEF Results
  <2> QED BY <2>2, <2>3, OthersLook, ThreadsAre
<1>6. ASSUME NEW b \in Builders, BuilderStep(b)
      PROVE  \E c \in Builders : job'[c] = s /\ WillLook(c)'
  <2>1. b \in Threads
    BY ThreadsAre
  <2>2. CASE Publish(b)
    <3>1. /\ UNCHANGED <<pgm, fallback, unread>> /\ pc[b] \in {"publish", "publish again"}
          /\ \E to \in {"recover", "finish"}, r \in Results : Goes(b, to, r)
          /\ \/ ovf' = ovf
             \/ /\ job[b] \in pgm /\ ovf' = [ovf EXCEPT ![job[b]] = "new"]
                /\ Goes(b, "finish", "ok") \/ Goes(b, "finish", "transient")
      BY <2>2, PublishEffect
    <3>2. \A u \in Threads : u # b => pc'[u] = pc[u] /\ result'[u] = result[u] /\ job'[u] = job[u]
      <4>1. PICK to \in {"recover", "finish"}, r \in Results : Goes(b, to, r)
        BY <3>1
      <4>2. to \in Stages
        BY DEF Stages
      <4> QED BY <2>1, <4>1, <4>2, GoesTypes
    <3>3. CASE Durable(s)
      <4>1. ~WillLook(b) /\ s \in fallback \ unread
        BY <3>1 DEF WillLook
      <4> QED BY <3>2, <3>3, <4>1, OthersLook
    <3>4. CASE ~Durable(s)
      <4>0. ovf'[s] # ovf[s] /\ s \in pgm
        BY <3>1, <3>4 DEF Durable
      <4>1. /\ ovf' = [ovf EXCEPT ![job[b]] = "new"]
            /\ Goes(b, "finish", "ok") \/ Goes(b, "finish", "transient")
        BY <3>1, <4>0
      <4>4. s = job[b]
        <5>1. ovf \in [Segments -> {"none"} \cup Keys] /\ s \in Segments
          BY <4>0, SealedAre DEF TypeOK
        <5> QED BY <4>0, <4>1, <5>1
      <4>2. /\ "finish" \in Stages /\ "ok" \in Results /\ "transient" \in Results
            /\ "finish" # "idle" /\ "transient" \in Backoffs
        BY DEF Stages, Results, Backoffs
      <4>3. pc'[b] = "finish" /\ result'[b] \in {"ok", "transient"} /\ job'[b] = job[b]
        BY <2>1, <4>1, <4>2, GoesTypes
      <4> QED BY <4>2, <4>3, <4>4 DEF WillLook
    <3> QED BY <3>3, <3>4
  <2>3. CASE Load(b)
    <3>1. UNCHANGED <<tree, ovf>> /\ fallback' \ unread' \subseteq fallback \ unread /\ pc[b] = "idle"
      BY <2>3 DEF Load, Discards, copies
    <3>2. \A u \in Threads : u # b => pc'[u] = pc[u] /\ result'[u] = result[u] /\ job'[u] = job[u]
      BY <2>3 DEF Load, threads, TypeOK
    <3>3. Durable(s) /\ s \in fallback \ unread
      BY <3>1 DEF Durable, tree, copies
    <3> QED BY <3>1, <3>2, <3>3, OthersLook DEF WillLook
  <2>4. CASE Reserve(b) \/ Panic(b)
    <3>1. UNCHANGED <<tree, ovf, copies>> /\ pc[b] \in {"built", "publish", "recover"}
      BY <2>4 DEF Reserve, Panic
    <3>2. \E to \in Stages, r \in Results : Goes(b, to, r)
      BY <2>4 DEF Reserve, Panic, Stages, Results
    <3>3. \A u \in Threads : u # b => pc'[u] = pc[u] /\ result'[u] = result[u] /\ job'[u] = job[u]
      BY <2>1, <3>2, GoesTypes
    <3>4. Durable(s) /\ s \in fallback \ unread
      BY <3>1 DEF Durable, tree, copies
    <3> QED BY <3>1, <3>3, <3>4, OthersLook DEF WillLook
  <2>5. CASE Finishes(b)
    <3> DEFINE r == IF result[b] \in Backoffs THEN "refused" ELSE result[b]
    <3>1. UNCHANGED <<tree, ovf, copies>> /\ Goes(b, "settle", r) /\ pc[b] = "finish"
      BY <2>5 DEF Finishes
    <3>2. r \in Results /\ "settle" \in Stages /\ "settle" # "idle"
      BY <2>1 DEF TypeOK, Results, Stages
    <3>3. /\ pc'[b] = "settle" /\ result'[b] = r /\ job'[b] = job[b]
          /\ \A u \in Threads : u # b => pc'[u] = pc[u] /\ result'[u] = result[u] /\ job'[u] = job[u]
      BY <2>1, <3>1, <3>2, GoesTypes
    <3>4. Durable(s) /\ s \in fallback \ unread
      BY <3>1 DEF Durable, tree, copies
    <3>5. CASE job[b] = s /\ WillLook(b)
      <4>1. result[b] \in {"ok"} \cup Backoffs
        BY <3>1, <3>5 DEF WillLook
      <4>2. r \in {"ok", "refused"}
        BY <4>1
      <4> QED BY <3>3, <3>5, <4>2 DEF WillLook
    <3>6. CASE ~(job[b] = s /\ WillLook(b))
      BY <3>3, <3>4, <3>6, OthersLook
    <3> QED BY <3>5, <3>6
  <2>6. CASE Settle(b)
    <3>1. UNCHANGED <<tree, ovf>> /\ pc[b] = "settle" /\ Durable(s)
      BY <2>6 DEF Settle, Durable, tree
    <3>2. CASE /\ result[b] = "refused" /\ Goes(b, "recheck", "ok")
             /\ fallback' \ unread' \subseteq (fallback \ unread) \cup {job[b]}
      <4>1. "recheck" \in Stages /\ "recheck" # "idle" /\ "ok" \in Results
        BY DEF Stages, Results
      <4>2. /\ pc'[b] = "recheck" /\ job'[b] = job[b]
            /\ \A u \in Threads : u # b => pc'[u] = pc[u] /\ result'[u] = result[u] /\ job'[u] = job[u]
        BY <2>1, <3>2, <4>1, GoesTypes
      <4>3. CASE s = job[b]
        BY <4>2, <4>3 DEF WillLook
      <4>4. CASE s # job[b]
        BY <3>1, <3>2, <4>2, <4>4, OthersLook
      <4> QED BY <4>3, <4>4
    <3>3. CASE Goes(b, "idle", "ok") /\ \/ result[b] = "ok" /\ Discards(job[b])
                                        \/ result[b] = "permanent" /\ UNCHANGED copies
      <4>1. "idle" \in Stages /\ "ok" \in Results
        BY DEF Stages, Results
      <4>2. \A u \in Threads : u # b => pc'[u] = pc[u] /\ result'[u] = result[u] /\ job'[u] = job[u]
        BY <2>1, <3>3, <4>1, GoesTypes
      <4>3. s \in fallback \ unread /\ (~WillLook(b) \/ job[b] # s)
        BY <3>1, <3>3 DEF WillLook, Discards, copies
      <4> QED BY <3>1, <4>2, <4>3, OthersLook
    <3> QED BY <2>6, <3>2, <3>3 DEF Settle
  <2>7. CASE Recheck(b)
    <3>1. UNCHANGED <<tree, ovf>> /\ Durable(s) /\ Goes(b, "idle", "ok")
      BY <2>7 DEF Recheck, Durable, tree
    <3>2. "idle" \in Stages /\ "ok" \in Results
      BY DEF Stages, Results
    <3>3. \A u \in Threads : u # b => pc'[u] = pc[u] /\ result'[u] = result[u] /\ job'[u] = job[u]
      BY <2>1, <3>1, <3>2, GoesTypes
    <3>4. s \in fallback \ unread /\ job[b] # s
      BY <2>7, <3>1 DEF Recheck, Discards, copies
    <3> QED BY <3>1, <3>3, <3>4, OthersLook
  <2>8. CASE Recover(b, "publish again")
    BY <1>4, <2>1, <2>8
  <2> QED BY <1>6, <2>2, <2>3, <2>4, <2>5, <2>6, <2>7, <2>8 DEF BuilderStep, Build
<1>7. CASE UNCHANGED vars
  <2>1. UNCHANGED threads /\ UNCHANGED copies /\ Durable(s)
    BY <1>7 DEF vars, tree, Durable
  <2> QED BY <1>1, <2>1
<1>8. CASE RefresherStep
  BY <1>4, <1>5, <1>8, ThreadsAre DEF RefresherStep
<1> QED BY <1>2, <1>3, <1>6, <1>7, <1>8, StepKinds


-----------------------------------------------------------------------------
(* The marks. *)

LEMMA NewEntries ==
  ASSUME TypeOK
  PROVE  mark.generation \in Nat /\ \A s \in Segments : pending[s]["new"] \in Entries
BY DEF TypeOK, Keys

\* A sweep from the old mark does not see it absent twice.
LEMMA SeenStaysOnce ==
  ASSUME NEW e \in Entries, SeenOnce(e), mark.generation \in Nat
  PROVE  LET o == Observed(e, mark.generation) IN
           o \in Entries /\ o.seen = 1 /\ o.generation = mark.generation
<1>1. CASE e.seen = 0
  BY <1>1, ObservedEntry
<1>2. CASE e.seen = 1 /\ e.generation = mark.generation
  BY <1>2, ObservedEntry
<1> QED BY <1>1, <1>2 DEF SeenOnce

LEMMA AtMostOnce ==
  ASSUME NEW o \in Entries, NEW e \in Entries, o.seen = 1, o.generation = mark.generation,
         e.seen = 0 \/ (e.seen <= o.seen /\ e.generation = o.generation)
  PROVE  SeenOnce(e)
BY DEF SeenOnce, Entries

LEMMA NotExpired == ASSUME NEW o \in Entries, o.seen = 1 PROVE ~Expired(o)
BY DEF Expired, Entries

\* A step that neither marks nor shows another view.
LEMMA MarkKept ==
  ASSUME TypeOK, MarkInv, pgm' \subseteq pgm, UNCHANGED <<view, complete, mark>>,
         \A s \in pgm' : /\ Unbuilt(s) => ovf'[s] = "none"
                         /\ \/ pending'[s]["new"].seen = 0
                            \/ /\ pending'[s]["new"].seen = pending[s]["new"].seen
                               /\ pending'[s]["new"].generation = pending[s]["new"].generation,
         \A b \in Builders : job'[b] \in {0, job[b]} \cup view
  PROVE  MarkInv'
<1>1. ASSUME complete', NEW s \in pgm' \ view' PROVE Unbuilt(s)'
  <2>1. Unbuilt(s) /\ s \notin view /\ s # 0 /\ s \in pgm'
    BY <1>1 DEF MarkInv, TypeOK
  <2>2. ovf'[s] = "none" /\ pending'[s]["new"].seen = 0
    BY <2>1 DEF Unbuilt
  <2>3. \A b \in Builders : job'[b] # s
    BY <2>1 DEF Unbuilt
  <2> QED BY <2>2, <2>3 DEF Unbuilt
<1>2. ASSUME NEW s \in pgm'
      PROVE  IF s \in mark'.live THEN pending'[s]["new"].seen = 0 ELSE SeenOnce(pending[s]["new"])'
  <2>1. IF s \in mark.live THEN pending[s]["new"].seen = 0 ELSE SeenOnce(pending[s]["new"])
    BY <1>2 DEF MarkInv
  <2> QED BY <2>1, <1>2 DEF SeenOnce
<1> QED BY <1>1, <1>2 DEF MarkInv

LEMMA MarkStep == ASSUME TypeOK, Ahead, MarkInv, [Next]_vars PROVE MarkInv'
<1>1. CASE Seal
  <2>1. /\ last < MaxSegments /\ pgm' = pgm \cup {last + 1}
        /\ UNCHANGED <<ovf, view, complete, mark, pending, job>>
    BY <1>1 DEF Seal, shown, gc, threads
  <2>2. last + 1 \in Segments /\ last + 1 > last /\ last + 1 \notin 0..last
    BY <2>1 DEF TypeOK, Segments
  <2>3. Unbuilt(last + 1) /\ last + 1 \notin mark.live
    <3>1. \A b \in Builders : job[b] \in 0..last
      BY ThreadsAre DEF TypeOK
    <3>2. mark.live \subseteq 1..last
      BY DEF TypeOK
    <3>3. \A b \in Builders : job[b] # last + 1
      BY <2>2, <3>1
    <3>4. last + 1 \notin 1..last
      BY DEF TypeOK
    <3> QED BY <2>2, <3>2, <3>3, <3>4 DEF Ahead, Unbuilt
  <2>4. \A s : Unbuilt(s)' <=> Unbuilt(s)
    BY <2>1 DEF Unbuilt
  <2>5. \A e : SeenOnce(e)' <=> SeenOnce(e)
    BY <2>1 DEF SeenOnce
  <2>6. ASSUME complete', NEW s \in pgm' \ view' PROVE Unbuilt(s)'
    BY <2>1, <2>3, <2>4, <2>6 DEF MarkInv
  <2>7. ASSUME NEW s \in pgm'
        PROVE  IF s \in mark'.live THEN pending'[s]["new"].seen = 0 ELSE SeenOnce(pending[s]["new"])'
    <3>1. CASE s \in pgm
      BY <2>1, <3>1 DEF MarkInv, SeenOnce
    <3>2. CASE s = last + 1
      BY <2>1, <2>3, <3>2 DEF Unbuilt, SeenOnce
    <3> QED BY <2>1, <3>1, <3>2
  <2> QED BY <2>6, <2>7 DEF MarkInv
<1>2. CASE RemoveOldest \/ Grace \/ Due
  <2>1. pgm' \subseteq pgm /\ UNCHANGED <<view, complete, mark, job>>
    BY <1>2 DEF RemoveOldest, Grace, Due, tree, shown, gc, threads
  <2>2. \A s \in Segments : ovf'[s] \in {"none", ovf[s]}
    BY <1>2 DEF RemoveOldest, Grace, Due, TypeOK
  <2>3. \A s \in Segments : /\ pending'[s]["new"].seen = pending[s]["new"].seen
                            /\ pending'[s]["new"].generation = pending[s]["new"].generation
    <3>1. CASE Grace
      <4>1. \A s \in Segments : pending[s]["new"] \in Entries /\ "new" \in Keys
        BY DEF TypeOK, Keys
      <4> QED BY <3>1, <4>1 DEF Grace, Entries
    <3>2. CASE ~Grace
      BY <1>2, <3>2 DEF RemoveOldest, Due, gc
    <3> QED BY <3>1, <3>2
  <2> QED BY <2>1, <2>2, <2>3, SealedAre, MarkKept DEF Unbuilt
<1>3. CASE Refresh
  <2>1. UNCHANGED <<pgm, pending, mark>> /\ (complete' => pgm' \ view' = {})
    BY <1>3 DEF Refresh, tree, gc
  <2> QED BY <2>1 DEF MarkInv, SeenOnce
<1>4. CASE Collect
  <2> DEFINE m == [generation |-> generation, live |-> view]
  <2>1. /\ m \in [generation : Nat, live : SUBSET (1..last)] /\ Sweep(m) /\ complete
        /\ UNCHANGED <<pgm, view, complete, job>>
    BY <1>4, CollectIsSweep
  <2>2. \A s \in Segments : ovf'[s] \in {"none", ovf[s]}
    BY <2>1, SweepTypes
  <2>3. \A s \in Segments : ovf[s] # "new" \/ Protected(m, s) => pending'[s]["new"].seen = 0
    BY <2>1, SweptEntry DEF Keys
  <2>4. \A s \in pgm \ view : Unbuilt(s)
    BY <2>1 DEF MarkInv
  <2>5. \A s \in pgm : pending'[s]["new"].seen = 0
    <3> SUFFICES ASSUME NEW s \in pgm PROVE ovf[s] # "new" \/ Protected(m, s)
      BY <2>3, SealedAre
    <3> QED BY <2>4 DEF Unbuilt, Protected, Live
  <2>6. \A s \in pgm' \ view' : Unbuilt(s)'
    BY <2>1, <2>2, <2>4, <2>5, SealedAre DEF Unbuilt
  <2> HIDE DEF m
  <2> QED BY <2>1, <2>5, <2>6 DEF MarkInv, SeenOnce
<1>5. ASSUME NEW t \in Threads, NEW after \in {"finish", "publish again"}, Recover(t, after)
      PROVE  MarkInv'
  <2>1. /\ UNCHANGED <<pgm, view, complete>>
        /\ Sweep(mark) \/ UNCHANGED <<ovf, mark, pending, recent, counted>>
        /\ \E to \in {after, "finish"} : Goes(t, to, result[t])
    BY <1>5, RecoverIs
  <2>2. \A b \in Builders : job'[b] \in {0, job[b]}
    <3>1. PICK to \in {after, "finish"} : Goes(t, to, result[t])
      BY <2>1
    <3>2. to \in Stages /\ result[t] \in Results
      BY DEF TypeOK, Stages
    <3> QED BY <3>1, <3>2, GoesTypes, ThreadsAre
  <2>3. CASE UNCHANGED <<ovf, mark, pending, recent, counted>>
    BY <2>1, <2>2, <2>3, MarkKept DEF Unbuilt
  <2>4. CASE Sweep(mark)
    <3>0. mark \in [generation : Nat, live : SUBSET (1..last)] /\ mark' = mark
      BY <2>4 DEF TypeOK, Sweep
    <3>1. \A s \in Segments : ovf'[s] \in {"none", ovf[s]}
      BY <2>4, <3>0, SweepTypes
    <3>2. ASSUME NEW s \in pgm
          PROVE  IF s \in mark.live THEN pending'[s]["new"].seen = 0 ELSE SeenOnce(pending'[s]["new"])
      <4>1. /\ pending'[s]["new"] \in Entries
            /\ ovf[s] # "new" \/ Protected(mark, s) => pending'[s]["new"].seen = 0
            /\ pending'[s]["new"].seen = 0
                 \/ (/\ pending'[s]["new"].seen <= Observed(pending[s]["new"], mark.generation).seen
                     /\ pending'[s]["new"].generation = Observed(pending[s]["new"], mark.generation).generation)
        BY <2>4, <3>0, SealedAre, SweptEntry DEF Keys
      <4>2. CASE s \in mark.live
        BY <4>1, <4>2 DEF Protected, Live
      <4>3. CASE s \notin mark.live
        <5> DEFINE o == Observed(pending[s]["new"], mark.generation)
        <5>1. SeenOnce(pending[s]["new"])
          BY <3>2, <4>3 DEF MarkInv
        <5>2. s \in Segments
          BY <3>2, SealedAre
        <5>3. pending[s]["new"] \in Entries /\ mark.generation \in Nat
          BY <5>2, NewEntries
        <5>4. o.seen = 1 /\ o.generation = mark.generation /\ o \in Entries
          BY <5>1, <5>3, SeenStaysOnce
        <5>5. /\ pending'[s]["new"] \in Entries
              /\ \/ pending'[s]["new"].seen = 0
                 \/ pending'[s]["new"].seen <= o.seen /\ pending'[s]["new"].generation = o.generation
          BY <4>1
        <5> HIDE DEF o
        <5>6. SeenOnce(pending'[s]["new"])
          BY <5>4, <5>5, AtMostOnce
        <5> QED BY <4>3, <5>6
      <4> QED BY <4>2, <4>3
    <3>3. ASSUME complete, NEW s \in pgm \ view PROVE Unbuilt(s)'
      <4>0. s \in Segments
        BY <3>3, SealedAre
      <4>3. s # 0
        BY <4>0, SealedAre
      <4>1. Unbuilt(s) /\ s \in Segments /\ s # 0
        BY <3>3, <4>0, <4>3 DEF MarkInv
      <4>2. ovf[s] # "new" => pending'[s]["new"].seen = 0
        BY <2>4, <3>0, <4>1, SweptEntry DEF Keys
      <4> QED BY <2>2, <3>1, <4>1, <4>2 DEF Unbuilt
    <3> QED BY <2>1, <3>0, <3>2, <3>3 DEF MarkInv, SeenOnce
  <2> QED BY <2>1, <2>3, <2>4
<1>6. CASE ProbeReserve \/ Probe
  <2>1. UNCHANGED <<tree, ovf, shown, gc>> /\ \E to \in Stages : Goes(R, to, "ok")
    BY <1>6 DEF ProbeReserve, Probe, Stages
  <2>2. \A b \in Builders : job'[b] \in {0, job[b]}
    BY <2>1, GoesTypes, ThreadsAre DEF Results
  <2> QED BY <2>1, <2>2, MarkKept DEF Unbuilt, tree, shown, gc
<1>7. ASSUME NEW b \in Builders, BuilderStep(b) PROVE MarkInv'
  <2>0. b \in Threads /\ Builders \subseteq Threads
    BY ThreadsAre
  <2>1. CASE Publish(b)
    <3>1. /\ UNCHANGED <<pgm, view, complete, mark>>
          /\ \E to \in {"recover", "finish"}, r \in Results : Goes(b, to, r)
          /\ ovf' = ovf \/ (job[b] \in pgm /\ ovf' = [ovf EXCEPT ![job[b]] = "new"])
          /\ pending' = pending \/ (job[b] \in pgm /\ pending' = [pending EXCEPT ![job[b]]["new"] = Unseen])
      BY <2>1, PublishEffect
    <3>2. \A c \in Builders : job'[c] \in {0, job[c]}
      <4>1. PICK to \in {"recover", "finish"}, r \in Results : Goes(b, to, r)
        BY <3>1
      <4>2. to \in Stages
        BY DEF Stages
      <4> QED BY <2>0, <4>1, <4>2, GoesTypes
    <3>3. ASSUME NEW s \in pgm, Unbuilt(s) PROVE ovf'[s] = "none"
      <4>1. job[b] # s /\ ovf[s] = "none"
        BY <3>3 DEF Unbuilt
      <4>2. ovf'[s] = ovf[s]
        BY <3>1, <4>1, SealedAre DEF TypeOK
      <4> QED BY <4>1, <4>2
    <3>4. ASSUME NEW s \in pgm
          PROVE  pending'[s]["new"].seen = 0 \/ pending'[s]["new"] = pending[s]["new"]
      BY <3>1, SealedAre, UnseenEntry DEF TypeOK, Keys
    <3> QED BY <3>1, <3>2, <3>3, <3>4, MarkKept
  <2>2. CASE ~Publish(b) /\ ~Recover(b, "publish again")
    <3>1. /\ UNCHANGED <<tree, ovf, shown, gc>>
          /\ \/ UNCHANGED threads
             \/ \E s \in view : job' = [job EXCEPT ![b] = s]
             \/ \E to \in Stages, r \in Results : Goes(b, to, r)
      BY <1>7, <2>2, BuilderEffect
    <3>2. \A c \in Builders : job'[c] \in {0, job[c]} \cup view
      <4>1. CASE UNCHANGED threads
        BY <4>1 DEF threads
      <4>2. CASE \E s \in view : job' = [job EXCEPT ![b] = s]
        BY <2>0, <4>2 DEF TypeOK
      <4>3. CASE \E to \in Stages, r \in Results : Goes(b, to, r)
        BY <2>0, <4>3, GoesTypes
      <4> QED BY <3>1, <4>1, <4>2, <4>3
    <3> QED BY <3>1, <3>2, MarkKept DEF Unbuilt, tree, shown, gc
  <2> QED BY <1>5, <2>0, <2>1, <2>2
<1>8. CASE UNCHANGED vars
  BY <1>8, MarkKept DEF vars, tree, shown, gc, threads, Unbuilt
<1>9. CASE RefresherStep
  BY <1>5, <1>6, <1>9, ThreadsAre DEF RefresherStep
<1> QED BY <1>1, <1>2, <1>3, <1>4, <1>7, <1>8, <1>9, StepKinds DEF StoreStep

LEMMA MarkInit == Init => MarkInv
<1> SUFFICES ASSUME Init PROVE MarkInv
  OBVIOUS
<1>1. pgm \ view = {} /\ mark.live = {}
  BY DEF Init, NoMark
<1>2. \A s \in pgm : pending[s]["new"].seen = 0
  BY TypesInit, SealedAre, UnseenEntry DEF Init, Keys
<1> QED BY <1>1, <1>2 DEF MarkInv, SeenOnce

\* What a sweep from an old mark leaves: a sidecar outside the mark has been
\* seen absent once at most, and no grace is that short.
LEMMA SweepsSpareTheView ==
  ASSUME TypeOK, MarkInv, [Next]_vars, NEW s \in view \cap pgm', ovf[s] = "new"
  PROVE  ovf'[s] = "new"
<1>1. view \subseteq Segments
  BY DEF TypeOK, Segments
<1>2. CASE StoreStep
  BY <1>1, <1>2 DEF StoreStep, Seal, RemoveOldest, Grace, Due, Refresh, TypeOK
<1>3. CASE Collect
  <2>1. Protected([generation |-> generation, live |-> view], s)
    BY DEF Protected, Live
  <2> QED BY <1>1, <1>3, <2>1 DEF Collect, Sweep, Swept
<1>4. ASSUME NEW t \in Threads, NEW after \in {"finish", "publish again"}, Recover(t, after)
      PROVE  ovf'[s] = "new"
  <2>1. pgm' = pgm /\ (Sweep(mark) \/ ovf' = ovf)
    BY <1>4, RecoverIs
  <2>2. s \notin Swept(mark)
    <3> SUFFICES ASSUME s \notin mark.live PROVE ~Expired(Observed(pending[s]["new"], mark.generation))
      BY DEF Swept, Protected, Live
    <3>1. SeenOnce(pending[s]["new"])
      BY <2>1 DEF MarkInv
    <3>2. pending[s]["new"] \in Entries /\ mark.generation \in Nat
      BY <1>1, NewEntries
    <3>3. Observed(pending[s]["new"], mark.generation).seen = 1 /\ Observed(pending[s]["new"], mark.generation) \in Entries
      BY <3>1, <3>2, SeenStaysOnce
    <3> QED BY <3>3, NotExpired
  <2> QED BY <1>1, <2>1, <2>2 DEF Sweep
<1>5. ASSUME NEW b \in Builders, BuilderStep(b) PROVE ovf'[s] = "new"
  <2>1. CASE Publish(b)
    BY <1>1, <2>1, PublishEffect DEF TypeOK
  <2>2. CASE Recover(b, "publish again")
    BY <1>4, <2>2, ThreadsAre
  <2> QED BY <1>5, <2>1, <2>2, BuilderEffect
<1>6. CASE RefresherStep
  BY <1>4, <1>6, ThreadsAre DEF RefresherStep, ProbeReserve, Probe
<1>7. CASE UNCHANGED vars
  BY <1>7 DEF vars
<1> QED BY <1>2, <1>3, <1>5, <1>6, <1>7, StepKinds

-----------------------------------------------------------------------------
(* The theorems. *)

\* The inductive invariant: the types, nothing known of segments to come, what
\* the quota state misses, who has still to look into the memory, and how often
\* a sweep from the old mark has seen each sidecar absent.
THEOREM StoreInductive == Spec => []StoreInv
<1>1. Init => StoreInv
  BY TypesInit, QuotaInit, MarkInit DEF StoreInv, Init, FallbackInv
<1>2. StoreInv /\ [Next]_vars => StoreInv'
  BY TypesStep, AheadStep, QuotaStep, FallbackStep, MarkStep DEF StoreInv
<1> QED BY <1>1, <1>2, PTL DEF Spec

\* QuotaHolds: publications, however they fail, keep the sidecars within max_files.
THEOREM QuotaKept == Spec => []QuotaHolds
<1>1. StoreInv => QuotaHolds
  BY DEF StoreInv, QuotaInv
<1> QED BY <1>1, StoreInductive, PTL

\* FallbackNotStale: whichever thread publishes a segment and whichever falls
\* back, somebody takes the published facts out of the memory.
THEOREM FallbackFresh == Spec => []FallbackNotStale
<1>1. StoreInv => FallbackNotStale
  BY DEF StoreInv, FallbackInv, FallbackNotStale, WillLook, Durable
<1> QED BY <1>1, StoreInductive, PTL

\* LiveNeverSwept: no sweep takes the sidecar of a segment that the view shows.
THEOREM LiveKept == Spec => LiveNeverSwept
<1>1. StoreInv /\ [Next]_vars => [\A s \in view \cap pgm' : ovf[s] = "new" => ovf'[s] = "new"]_vars
  BY SweepsSpareTheView DEF StoreInv
<1> QED BY <1>1, StoreInductive, PTL DEF Spec, LiveNeverSwept
=============================================================================
