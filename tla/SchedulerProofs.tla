--------------------------- MODULE SchedulerProofs ---------------------------
(***************************************************************************)
(* Proofs that the pacing properties of Scheduler hold for every set of    *)
(* sources, every interval, tick, segment age and cycle length.            *)
(***************************************************************************)
EXTENDS Scheduler, TLAPS

Limit(s) == IF s = "UserIndexes" THEN 2 ELSE 1
Resting == pc \in {"sleep", "awake"}
Planning == pc \in {"valve", "cycle"}
Storing == pc \in {"store", "stored", "report"}

\* A source that was put off is due again on the next tick, and after its last
\* permitted time the budget owes it a read.
StarvationInv ==
  \A s \in SizedSources :
    /\ skipped[s] <= Limit(s)
    /\ Resting => (skipped[s] > 0 => age[s] = Never)
    /\ Resting \/ Planning => (skipped[s] = Limit(s) => s \in starved)
    /\ Planning \/ Storing =>
         (skipped[s] > 0 => s \in due \/ (skipped[s] < Limit(s) /\ age[s] = Never))
    /\ Storing => (win.db \/ skipped[s] = 0) /\ (skipped[s] = Limit(s) => s \notin deferred)

\* A service source the segment lacks is re-armed, planned, in the window in
\* hand, or owed by the seal the cycle has yet to report.
RearmInv ==
  ~lapsed => \A s \in OpenSources \ seg.carries :
    /\ Resting => age[s] = Never
    /\ Planning => s \in due \/ age[s] = Never
    /\ pc = "store" => s \in win.carries \/ sealed \/ age[s] = Never
    /\ pc \in {"stored", "report"} => sealed \/ age[s] = Never

\* How late a source may be at each point of the tick.
PaceInv ==
  \A s \in Sources :
    /\ Planning \/ Storing =>
         /\ Pace(s) > 0 => age[s] = Never \/ age[s] < Pace(s) + busy
         /\ s \in due => age[s] = Never \/ age[s] <= busy
    /\ pc = "sleep" => (Pace(s) > 0 => age[s] = Never \/ age[s] < Pace(s) + busy)
    /\ pc = "awake" => (Pace(s) > 0 => age[s] = Never \/ age[s] <= Pace(s) + MaxCycle)

\* How old a segment may be at each point of the tick while seals succeed.
AgeInv ==
  ~stuck =>
    /\ pc \in {"sleep", "cycle", "store", "stored", "report"} => seg.age < MaxAge + busy
    /\ pc \in {"awake", "valve"} => seg.age <= MaxAge + MaxCycle

CycleInv == pc \in {"valve", "cycle"} => busy = 0

Inv == TypeOK /\ CycleInv /\ StarvationInv /\ RearmInv /\ PaceInv /\ AgeInv

-----------------------------------------------------------------------------
Segments == [open : BOOLEAN, age : 0..Horizon, carries : SUBSET OpenSources]

\* Passing time keeps ages in range and re-armed sources re-armed.
LEMMA AgesPass ==
  ASSUME age \in [Sources -> 0..Never], NEW t \in Nat
  PROVE  AgesAfter(t) \in [Sources -> 0..Never]
BY TimesAssumption DEF AgesAfter, Later, Never

\* Passing time changes nothing of a segment but its age.
LEMMA SegmentPasses ==
  ASSUME seg \in Segments, ~seg.open => seg = Closed, NEW t \in Nat
  PROVE  /\ SegmentAfter(t) \in Segments
         /\ ~SegmentAfter(t).open => SegmentAfter(t) = Closed
         /\ SegmentAfter(t).carries = seg.carries
         /\ SegmentAfter(t).age <= seg.age + t
<1>1. CASE ~seg.open
  BY <1>1 DEF SegmentAfter, Segments
<1>2. CASE seg.open
  <2>1. SegmentAfter(t) = [seg EXCEPT !.age = Later(seg.age, t)]
    BY <1>2 DEF SegmentAfter
  <2>2. Later(seg.age, t) \in 0..Horizon /\ Later(seg.age, t) <= seg.age + t
    BY TimesAssumption DEF Later, Never, Segments
  <2>3. QED
    BY <1>2, <2>1, <2>2 DEF Segments
<1>3. QED
  BY <1>1, <1>2

LEMMA RearmedType ==
  ASSUME NEW a \in [Sources -> 0..Never], NEW S
  PROVE  Rearmed(a, S) \in [Sources -> 0..Never]
BY TimesAssumption DEF Rearmed, Never

LEMMA MarkedType ==
  ASSUME age \in [Sources -> 0..Never], NEW f \in BOOLEAN
  PROVE  Marked(f) \in [Sources -> 0..Never]
<1> DEFINE read == [s \in Sources |-> IF f \/ s \in Ripe THEN 0 ELSE age[s]]
<1>1. read \in [Sources -> 0..Never]
  BY TimesAssumption DEF Never
<1>2. QED
  BY <1>1, RearmedType DEF Marked

LEMMA ClosedType == Closed \in Segments /\ Closed.carries = {} /\ Closed.age = 0 /\ ~Closed.open
BY TimesAssumption DEF Closed, Segments

LEMMA TypeStep ==
  Inv /\ [Next]_vars => TypeOK'
<1> SUFFICES ASSUME Inv, [Next]_vars PROVE TypeOK'
  OBVIOUS
<1> USE DEF Inv, TypeOK
<1>0. seg \in Segments /\ (~seg.open => seg = Closed)
  BY DEF Segments
<1>1. CASE Sleep
  <2>1. PICK t \in 0..Tick : age' = AgesAfter(t) /\ seg' = SegmentAfter(t)
    BY <1>1 DEF Sleep
  <2>2. age' \in [Sources -> 0..Never] /\ seg' \in Segments /\ (~seg'.open => seg' = Closed)
    BY <1>0, <2>1, AgesPass, SegmentPasses, TimesAssumption
  <2>3. QED
    BY <1>1, <2>2 DEF Sleep, Segments, cycle
<1>2. ASSUME NEW f \in BOOLEAN, Plan(f) PROVE TypeOK'
  <2>1. age' \in [Sources -> 0..Never]
    BY <1>2, MarkedType DEF Plan
  <2>2. due' \subseteq Sources
    BY <1>2 DEF Plan, Planned, Ripe
  <2>3. skipped' \in [SizedSources -> 0..3]
    <3>1. skipped' = skipped \/ skipped' = [skipped EXCEPT !["UserIndexes"] = More(skipped["UserIndexes"])]
      BY <1>2 DEF Plan
    <3>2. "UserIndexes" \in SizedSources => More(skipped["UserIndexes"]) \in 0..3
      BY DEF More
    <3>3. QED
      BY <3>1, <3>2
  <2>4. win' \in [carries : SUBSET OpenSources, db : BOOLEAN]
    BY <1>2 DEF Plan, NoWindow
  <2>5. busy' \in 0..MaxCycle
    BY <1>2, TimesAssumption DEF Plan
  <2>6. QED
    BY <1>2, <2>1, <2>2, <2>3, <2>4, <2>5 DEF Plan
<1>3. CASE ValveOpen
  BY <1>3 DEF ValveOpen, EnterCycle, pacing, cycle
<1>4. CASE ValveSeals
  <2>1. age' \in [Sources -> 0..Never]
    BY <1>4, RearmedType DEF ValveSeals, SegmentReread
  <2>2. seg' \in Segments /\ (~seg'.open => seg' = Closed)
    BY <1>4, ClosedType DEF ValveSeals
  <2>3. QED
    BY <1>4, <2>1, <2>2 DEF ValveSeals, EnterCycle, Segments, cycle
<1>5. CASE ValveFails
  BY <1>5 DEF ValveFails, EnterCycle, pacing, cycle
<1>6. ASSUME NEW d \in 0..MaxCycle, Lasts(d)
      PROVE  /\ age' \in [Sources -> 0..Never]
             /\ seg' \in Segments /\ (~seg'.open => seg' = Closed)
             /\ busy' \in 0..MaxCycle
  <2>1. d \in Nat
    BY TimesAssumption
  <2>2. QED
    BY <1>0, <1>6, <2>1, AgesPass, SegmentPasses DEF Lasts
<1>7. [s \in SizedSources |-> 0] \in [SizedSources -> 0..3]
  OBVIOUS
<1>8. CASE DatabaseDown
  BY <1>6, <1>7, <1>8 DEF DatabaseDown, Segments, cycle
<1>9. CASE SnapshotFails
  BY <1>6, <1>7, <1>9 DEF SnapshotFails, Abandon, Segments, cycle
<1>10. CASE Snapshot
  <2>1. /\ age' \in [Sources -> 0..Never]
        /\ seg' \in Segments /\ (~seg'.open => seg' = Closed)
        /\ busy' \in 0..MaxCycle
    BY <1>6, <1>10 DEF Snapshot
  <2>2. starved' \subseteq SizedSources /\ deferred' \subseteq starved' \cap due'
    BY <1>10 DEF Snapshot, StarvedAfter, PutOff
  <2>3. win' \in [carries : SUBSET OpenSources, db : BOOLEAN]
    BY <1>10 DEF Snapshot
  <2>4. skipped' \in [SizedSources -> 0..3] /\ lapsed' \in BOOLEAN
    BY <1>7, <1>10 DEF Snapshot, Abandon
  <2>5. QED
    BY <1>10, <2>1, <2>2, <2>3, <2>4 DEF Snapshot, Abandon, Segments
<1>11. CASE EarlySeal
  <2>1. seg' \in Segments /\ (~seg'.open => seg' = Closed)
    BY <1>0, <1>11, ClosedType DEF EarlySeal
  <2>2. skipped' \in [SizedSources -> 0..3] /\ lapsed' \in BOOLEAN /\ sealed' \in BOOLEAN
    BY <1>7, <1>11 DEF EarlySeal, Abandon
  <2>3. QED
    BY <1>11, <2>1, <2>2 DEF EarlySeal, Abandon, Segments, pacing
<1>12. CASE AppendFails
  BY <1>7, <1>12 DEF AppendFails, Abandon, pacing, cycle
<1>13. CASE AppendWindow
  <2>1. seg' \in Segments /\ seg'.open
    BY <1>0, <1>13 DEF AppendWindow, Segments
  <2>2. QED
    BY <1>13, <2>1 DEF AppendWindow, Segments, pacing, cycle
<1>14. CASE SealAfterAppend
  <2>1. seg' \in Segments /\ (~seg'.open => seg' = Closed)
    BY <1>0, <1>14, ClosedType DEF SealAfterAppend
  <2>2. skipped' \in [SizedSources -> 0..3] /\ lapsed' \in BOOLEAN /\ sealed' \in BOOLEAN
    BY <1>7, <1>14 DEF SealAfterAppend, Abandon
  <2>3. QED
    BY <1>14, <2>1, <2>2 DEF SealAfterAppend, Abandon, Segments, pacing
<1>15. CASE KeepOpen
  BY <1>15 DEF KeepOpen, pacing, cycle
<1>16. CASE Report
  <2>1. age' \in [Sources -> 0..Never]
    <3>1. Rearmed(age, deferred) \in [Sources -> 0..Never]
      BY RearmedType
    <3>2. SegmentReread(Rearmed(age, deferred)) \in [Sources -> 0..Never]
      BY <3>1, RearmedType DEF SegmentReread
    <3>3. QED
      BY <1>16, <3>1, <3>2 DEF Report
  <2>2. fast' \subseteq {s \in DOMAIN Fast : Fast[s] < Interval[s]}
    BY <1>16 DEF Report, Paced
  <2>3. skipped' \in [SizedSources -> 0..3]
    BY <1>16 DEF Report, Counted, More
  <2>4. QED
    BY <1>16, <2>1, <2>2, <2>3 DEF Report, cycle
<1>17. CASE UNCHANGED vars
  BY <1>17 DEF vars, pacing, cycle
<1>18. QED
  BY <1>1, <1>2, <1>3, <1>4, <1>5, <1>8, <1>9, <1>10, <1>11, <1>12, <1>13, <1>14, <1>15,
     <1>16, <1>17 DEF Next

LEMMA StarvationStep ==
  Inv /\ [Next]_vars => StarvationInv'
<1> SUFFICES ASSUME Inv, [Next]_vars PROVE StarvationInv'
  OBVIOUS
<1> USE SourcesAssumption, TimesAssumption DEF Inv, TypeOK, StarvationInv, Limit, Resting, Planning, Storing, vars, pacing, cycle, Never, SizedSources, Rank
<1>1. CASE Sleep
  BY <1>1 DEF Sleep, AgesAfter, SegmentAfter, Later
<1>2. CASE Plan(FALSE)
  BY <1>2 DEF Plan, Marked, Planned, Ripe, Rearmed, IndexesYield, More
<1>3. CASE Plan(TRUE)
  BY <1>3 DEF Plan, Marked, Planned, Ripe, Rearmed, IndexesYield, More
<1>4. CASE ValveOpen
  BY <1>4 DEF ValveOpen, EnterCycle, Expired
<1>5. CASE ValveSeals
  BY <1>5 DEF ValveSeals, EnterCycle, Expired, SegmentReread, Rearmed, Closed
<1>6. CASE ValveFails
  BY <1>6 DEF ValveFails, EnterCycle, Expired
<1>7. CASE DatabaseDown
  BY <1>7 DEF DatabaseDown, Lasts, AgesAfter, SegmentAfter, Later
<1>8. CASE SnapshotFails
  BY <1>8 DEF SnapshotFails, Lasts, Abandon, AgesAfter, SegmentAfter, Later
<1>9. CASE Snapshot
  BY <1>9 DEF Snapshot, Lasts, Abandon, AgesAfter, SegmentAfter, Later, StarvedAfter, PutOff
<1>10. CASE EarlySeal
  BY <1>10 DEF EarlySeal, Abandon, Closed
<1>11. CASE AppendFails
  BY <1>11 DEF AppendFails, Abandon
<1>12. CASE AppendWindow
  BY <1>12 DEF AppendWindow
<1>13. CASE SealAfterAppend
  BY <1>13 DEF SealAfterAppend, Abandon, Closed
<1>14. CASE KeepOpen
  BY <1>14 DEF KeepOpen
<1>15. CASE Report
  BY <1>15 DEF Report, Rearmed, SegmentReread, Paced, Counted, More
<1>16. CASE UNCHANGED vars
  BY <1>16
<1>17. QED
  BY <1>1, <1>2, <1>3, <1>4, <1>5, <1>6, <1>7, <1>8, <1>9, <1>10, <1>11, <1>12, <1>13, <1>14, <1>15, <1>16 DEF Next

LEMMA RearmStep ==
  Inv /\ [Next]_vars => RearmInv'
<1> SUFFICES ASSUME Inv, [Next]_vars PROVE RearmInv'
  OBVIOUS
<1> USE SourcesAssumption, TimesAssumption DEF Inv, TypeOK, RearmInv, Resting, Planning, Closed, vars, pacing, cycle, Never, SizedSources, Rank
<1>1. CASE Sleep
  BY <1>1 DEF Sleep, AgesAfter, SegmentAfter, Later
<1>2. CASE Plan(FALSE)
  BY <1>2 DEF Plan, Marked, Planned, Ripe, Rearmed, IndexesYield, More
<1>3. CASE Plan(TRUE)
  BY <1>3 DEF Plan, Marked, Planned, Ripe, Rearmed, IndexesYield, More
<1>4. CASE ValveOpen
  BY <1>4 DEF ValveOpen, EnterCycle, Expired
<1>5. CASE ValveSeals
  BY <1>5 DEF ValveSeals, EnterCycle, Expired, SegmentReread, Rearmed, Closed
<1>6. CASE ValveFails
  BY <1>6 DEF ValveFails, EnterCycle, Expired
<1>7. CASE DatabaseDown
  BY <1>7 DEF DatabaseDown, Lasts, AgesAfter, SegmentAfter, Later
<1>8. CASE SnapshotFails
  BY <1>8 DEF SnapshotFails, Lasts, Abandon, AgesAfter, SegmentAfter, Later
<1>9. CASE Snapshot
  BY <1>9 DEF Snapshot, Lasts, Abandon, AgesAfter, SegmentAfter, Later, StarvedAfter, PutOff
<1>10. CASE EarlySeal
  BY <1>10 DEF EarlySeal, Abandon, Closed
<1>11. CASE AppendFails
  BY <1>11 DEF AppendFails, Abandon
<1>12. CASE AppendWindow
  BY <1>12 DEF AppendWindow
<1>13. CASE SealAfterAppend
  BY <1>13 DEF SealAfterAppend, Abandon, Closed
<1>14. CASE KeepOpen
  BY <1>14 DEF KeepOpen
<1>15. CASE Report
  BY <1>15 DEF Report, Rearmed, SegmentReread, Paced, Counted, More
<1>16. CASE UNCHANGED vars
  BY <1>16
<1>17. QED
  BY <1>1, <1>2, <1>3, <1>4, <1>5, <1>6, <1>7, <1>8, <1>9, <1>10, <1>11, <1>12, <1>13, <1>14, <1>15, <1>16 DEF Next

LEMMA PaceStep ==
  Inv /\ [Next]_vars => PaceInv'
<1> SUFFICES ASSUME Inv, [Next]_vars PROVE PaceInv'
  OBVIOUS
<1> USE SourcesAssumption, TimesAssumption DEF Inv, TypeOK, PaceInv, CycleInv, Pace, Resting, Planning, Storing, vars, pacing, cycle, Never, SizedSources, Rank
<1>1. CASE Sleep
  <2>1. PICK t \in 0..Tick : (\A x \in Delays : t <= x) /\ age' = AgesAfter(t)
    BY <1>1 DEF Sleep
  <2>2. pc = "sleep" /\ pc' = "awake" /\ fast' = fast
    BY <1>1 DEF Sleep
  <2>3. ASSUME NEW s \in Sources, Pace(s) > 0, age'[s] # Never
        PROVE  age'[s] <= Pace(s) + MaxCycle
    <3>1. age[s] # Never /\ age'[s] <= age[s] + t
      BY <2>1, <2>3 DEF AgesAfter, Later
    <3>0. t \in Nat /\ age'[s] \in Nat /\ busy \in Nat
      BY <2>1, AgesPass
    <3>2. age[s] \in Nat /\ Pace(s) \in Nat /\ age[s] < Pace(s) + busy /\ busy <= MaxCycle
      BY <2>2, <2>3, <3>1
    <3>3. CASE first
      <4>1. t = 0
        BY <2>1, <3>3 DEF Delays
      <4>2. QED
        BY <3>0, <3>1, <3>2, <4>1
    <3>4. CASE ~first
      <4>1. t <= Remaining(Pace(s), age[s])
        BY <2>1, <2>3, <3>1, <3>4 DEF Delays, SourceDelays
      <4>2. QED
        BY <3>0, <3>1, <3>2, <4>1 DEF Remaining
    <3>5. QED
      BY <3>3, <3>4
  <2>4. QED
    BY <2>2, <2>3
<1>2. CASE Plan(FALSE)
  BY <1>2 DEF Plan, Marked, Planned, Ripe, Rearmed, IndexesYield, More
<1>3. CASE Plan(TRUE)
  BY <1>3 DEF Plan, Marked, Planned, Ripe, Rearmed, IndexesYield, More
<1>4. CASE ValveOpen
  BY <1>4 DEF ValveOpen, EnterCycle, Expired
<1>5. CASE ValveSeals
  BY <1>5 DEF ValveSeals, EnterCycle, Expired, SegmentReread, Rearmed, Closed
<1>6. CASE ValveFails
  BY <1>6 DEF ValveFails, EnterCycle, Expired
<1>7. CASE DatabaseDown
  BY <1>7 DEF DatabaseDown, Lasts, AgesAfter, SegmentAfter, Later
<1>8. CASE SnapshotFails
  BY <1>8 DEF SnapshotFails, Lasts, Abandon, AgesAfter, SegmentAfter, Later
<1>9. CASE Snapshot
  BY <1>9 DEF Snapshot, Lasts, Abandon, AgesAfter, SegmentAfter, Later, StarvedAfter, PutOff
<1>10. CASE EarlySeal
  BY <1>10 DEF EarlySeal, Abandon, Closed
<1>11. CASE AppendFails
  BY <1>11 DEF AppendFails, Abandon
<1>12. CASE AppendWindow
  BY <1>12 DEF AppendWindow
<1>13. CASE SealAfterAppend
  BY <1>13 DEF SealAfterAppend, Abandon, Closed
<1>14. CASE KeepOpen
  BY <1>14 DEF KeepOpen
<1>15. CASE Report
  BY <1>15 DEF Report, Rearmed, SegmentReread, Paced, Counted, More
<1>16. CASE UNCHANGED vars
  BY <1>16
<1>17. QED
  BY <1>1, <1>2, <1>3, <1>4, <1>5, <1>6, <1>7, <1>8, <1>9, <1>10, <1>11, <1>12, <1>13, <1>14, <1>15, <1>16 DEF Next

LEMMA AgeStep ==
  Inv /\ [Next]_vars => (CycleInv /\ AgeInv)'
<1> SUFFICES ASSUME Inv, [Next]_vars PROVE (CycleInv /\ AgeInv)'
  OBVIOUS
<1> USE SourcesAssumption, TimesAssumption DEF Inv, TypeOK, AgeInv, CycleInv, Closed, vars, pacing, cycle, Never, SizedSources, Rank
<1>1. CASE Sleep
  <2>1. PICK t \in 0..Tick : (\A x \in Delays : t <= x) /\ seg' = SegmentAfter(t)
    BY <1>1 DEF Sleep
  <2>2. pc = "sleep" /\ pc' = "awake" /\ stuck' = stuck
    BY <1>1 DEF Sleep
  <2>3. seg'.age <= seg.age + t /\ (~seg.open => seg'.age = 0)
    BY <2>1, SegmentPasses DEF Segments, SegmentAfter
  <2>4. seg.age \in Nat /\ busy \in Nat /\ t \in Nat /\ seg'.age \in Nat
    BY <2>1, SegmentPasses DEF Segments
  <2>5. ASSUME ~stuck PROVE seg'.age <= MaxAge + MaxCycle
    <3>1. seg.age < MaxAge + busy
      BY <2>2, <2>5
    <3>2. CASE first \/ ~seg.open
      <4>1. t = 0 \/ seg'.age = 0
        BY <2>1, <2>3, <3>2 DEF Delays
      <4>2. QED
        BY <2>3, <2>4, <3>1, <4>1
    <3>3. CASE ~first /\ seg.open
      <4>1. t <= Remaining(MaxAge, seg.age)
        BY <2>1, <3>3 DEF Delays, SegmentDelays
      <4>2. QED
        BY <2>3, <2>4, <3>1, <4>1 DEF Remaining
    <3>4. QED
      BY <3>2, <3>3
  <2>6. QED
    BY <2>2, <2>5
<1>2. CASE Plan(FALSE)
  BY <1>2 DEF Plan, Marked, Planned, Ripe, Rearmed, IndexesYield, More
<1>3. CASE Plan(TRUE)
  BY <1>3 DEF Plan, Marked, Planned, Ripe, Rearmed, IndexesYield, More
<1>4. CASE ValveOpen
  BY <1>4 DEF ValveOpen, EnterCycle, Expired
<1>5. CASE ValveSeals
  BY <1>5 DEF ValveSeals, EnterCycle, Expired, SegmentReread, Rearmed, Closed
<1>6. CASE ValveFails
  BY <1>6 DEF ValveFails, EnterCycle, Expired
<1>7. CASE DatabaseDown
  <2>1. PICK d \in 0..MaxCycle : seg' = SegmentAfter(d) /\ busy' = d
    BY <1>7 DEF DatabaseDown, Lasts
  <2>2. seg'.age <= seg.age + d /\ seg'.age \in Nat /\ seg.age \in Nat
    BY <2>1, SegmentPasses DEF Segments
  <2>3. pc = "cycle" /\ pc' \in {"sleep", "store"} /\ stuck' = stuck
    BY <1>7 DEF DatabaseDown
  <2>4. QED
    BY <2>1, <2>2, <2>3
<1>8. CASE SnapshotFails
  BY <1>8 DEF SnapshotFails, Lasts, Abandon, AgesAfter, SegmentAfter, Later
<1>9. CASE Snapshot
  BY <1>9 DEF Snapshot, Lasts, Abandon, AgesAfter, SegmentAfter, Later, StarvedAfter, PutOff
<1>10. CASE EarlySeal
  BY <1>10 DEF EarlySeal, Abandon, Closed
<1>11. CASE AppendFails
  BY <1>11 DEF AppendFails, Abandon
<1>12. CASE AppendWindow
  BY <1>12 DEF AppendWindow
<1>13. CASE SealAfterAppend
  BY <1>13 DEF SealAfterAppend, Abandon, Closed
<1>14. CASE KeepOpen
  BY <1>14 DEF KeepOpen
<1>15. CASE Report
  BY <1>15 DEF Report, Rearmed, SegmentReread, Paced, Counted, More
<1>16. CASE UNCHANGED vars
  BY <1>16
<1>17. QED
  BY <1>1, <1>2, <1>3, <1>4, <1>5, <1>6, <1>7, <1>8, <1>9, <1>10, <1>11, <1>12, <1>13, <1>14, <1>15, <1>16 DEF Next

LEMMA InitInv == Init => Inv
<1> SUFFICES ASSUME Init PROVE Inv
  OBVIOUS
<1> USE SourcesAssumption, TimesAssumption DEF Init, Never
<1>1. TypeOK
  <2>1. seg \in Segments /\ seg = Closed /\ win \in [carries : SUBSET OpenSources, db : BOOLEAN]
    BY ClosedType DEF NoWindow
  <2>2. age \in [Sources -> 0..Never] /\ skipped \in [SizedSources -> 0..3]
    OBVIOUS
  <2>3. fast = {} /\ starved = {} /\ due = {} /\ deferred = {} /\ pc = "sleep" /\ busy \in 0..MaxCycle
    OBVIOUS
  <2>4. forced \in BOOLEAN /\ sealed \in BOOLEAN /\ first \in BOOLEAN /\ lapsed \in BOOLEAN /\ stuck \in BOOLEAN
    BY Zenon
  <2> HIDE DEF Init
  <2>5. QED
    BY <2>1, <2>2, <2>3, <2>4 DEF TypeOK, Segments
<1>2. CycleInv /\ StarvationInv
  BY DEF CycleInv, StarvationInv, Limit, Resting, Planning, Storing
<1>3. RearmInv
  BY DEF RearmInv, Resting, Planning
<1>4. PaceInv /\ AgeInv
  BY DEF PaceInv, AgeInv, Planning, Storing, Closed
<1>5. QED
  BY <1>1, <1>2, <1>3, <1>4 DEF Inv

\* The inductive invariant: where in the tick each source put off, each service
\* source missing from the segment and each deadline stands.
THEOREM SchedulerInductive == Spec => []Inv
<1>1. Inv /\ [Next]_vars => Inv'
  <2> SUFFICES ASSUME Inv, [Next]_vars PROVE Inv'
    OBVIOUS
  <2>1. TypeOK' /\ StarvationInv' /\ RearmInv'
    BY TypeStep, StarvationStep, RearmStep
  <2>2. PaceInv' /\ CycleInv' /\ AgeInv'
    BY PaceStep, AgeStep
  <2>3. QED
    BY <2>1, <2>2 DEF Inv
<1>2. QED
  BY InitInv, <1>1, PTL DEF Spec

\* Every variable of the main loop stays in its type.
THEOREM SchedulerTypes == Spec => []TypeOK
<1>1. Inv => TypeOK
  BY DEF Inv
<1>2. QED
  BY SchedulerInductive, <1>1, PTL

\* Budget deferrals and phase separation never put a sized source off for more
\* completed cycles than its limit (PoolBudget::admit, Scheduler::plan).
THEOREM NoStarvation == Spec => []NotStarved
<1>1. Inv => NotStarved
  BY DEF Inv, StarvationInv, NotStarved, Limit
<1>2. QED
  BY SchedulerInductive, <1>1, PTL

\* A service source the open segment lacks is due on the next tick unless a
\* cycle failed since the last seal (Scheduler::mark_segment_opened).
THEOREM ServicesRearmed == Spec => []MissingIsRearmed
<1>1. Inv => MissingIsRearmed
  BY DEF Inv, RearmInv, Resting, MissingIsRearmed
<1>2. QED
  BY SchedulerInductive, <1>1, PTL

\* The loop wakes in time for every interval in force and for the age of the
\* open segment (timer_sleep_delay).
THEOREM WakesInTime == Spec => []Punctual
<1>1. Inv => Punctual
  BY DEF Inv, PaceInv, AgeInv, Punctual
<1>2. QED
  BY SchedulerInductive, <1>1, PTL

\* A tick that took no time is followed by a sleep that does, while seals
\* succeed (Scheduler::next_elapsed_due_in, SegmentState::time_until_age).
THEOREM NeverSpins == Spec => []NoSpin
<1>1. ASSUME Inv, pc = "sleep", ~first, busy = 0, ~stuck, NEW x \in Delays PROVE x # 0
  <2>1. CASE x = Tick
    BY <2>1, TimesAssumption
  <2>2. CASE x \in SourceDelays
    <3>1. PICK s \in Sources : age[s] # Never /\ Pace(s) > 0 /\ x = Remaining(Pace(s), age[s])
      BY <2>2 DEF SourceDelays
    <3>2. age[s] < Pace(s) /\ age[s] \in Nat /\ Pace(s) \in Nat
      BY <1>1, <3>1, SourcesAssumption, TimesAssumption DEF Inv, TypeOK, PaceInv, Pace, Never
    <3>3. QED
      BY <3>1, <3>2 DEF Remaining
  <2>3. CASE x \in SegmentDelays
    <3>1. x = Remaining(MaxAge, seg.age)
      BY <2>3 DEF SegmentDelays
    <3>2. seg.age < MaxAge /\ seg.age \in Nat
      BY <1>1, TimesAssumption DEF Inv, TypeOK, AgeInv
    <3>3. QED
      BY <3>1, <3>2, TimesAssumption DEF Remaining
  <2>4. QED
    BY <1>1, <2>1, <2>2, <2>3 DEF Delays
<1>2. Inv => NoSpin
  BY <1>1 DEF NoSpin
<1>3. QED
  BY SchedulerInductive, <1>2, PTL

=============================================================================
