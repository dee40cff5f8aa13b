-------------------------- MODULE RetentionProofs --------------------------
(* Theorems about Retention for every value of its constants. *)
EXTENDS Retention, FiniteSetTheorems, TLAPS

USE TargetsAssumption, SizesAssumption DEF TargetsAssumption, SizesAssumption

Passes == {"idle", "check", "scan", "delete"}
Kinds == {"temporary", "orphan", "evidence", "segment"}
Candidates == [kind : Kinds, id : Nat]
Planned(k, n) == [kind |-> k, id |-> n] \in plan

\* Types, and the sets of the tree.
Types ==
  /\ target \in Targets /\ last \in 1..MaxSegments
  /\ pgm \subseteq 1..last /\ ovf \subseteq 1..last /\ held \subseteq 1..last
  /\ temps \in Nat /\ evidence \in Nat /\ journal \in Nat /\ foreign \in Nat
  /\ counter \in Nat /\ pending \in Nat /\ deficit \in Nat /\ faults \in Nat /\ sweeps \in Nat
  /\ checked \in 0..last /\ recount \in BOOLEAN /\ shrunk \in BOOLEAN
  /\ observed = <<>> \/ \E n \in Nat : observed = <<n>>
  /\ pass \in Passes /\ plan \subseteq Candidates

\* A file that is held open has no name any more.
Unlinked == held \cap pgm = {}

\* The plan of a pass that deletes stays true: its segments are all but the
\* newest, its orphans have no segment, its counted victims are there.
PlanInv ==
  pass = "delete" =>
    /\ \A s \in Nat : Planned("segment", s) <=> s \in pgm \ {last}
    /\ \A s \in pgm : ~Planned("orphan", s)
    /\ \E lo \in Nat : \A n \in Nat : Planned("temporary", n) <=> lo < n /\ n <= lo + temps
    /\ \E lo \in Nat : \A n \in Nat : Planned("evidence", n) <=> lo < n /\ n <= lo + evidence

\* How far the used bytes have come down since they were observed.
Drop == IF observed = <<>> THEN 0 ELSE Less(Head(observed), UsedBytes)

\* What is left of a deficit is over the limit, and the bytes still held open
\* are pending, on top of the drop that is still to be credited.
BytesInv ==
  ~shrunk =>
    /\ Fixed /\ pass = "delete" => deficit = 0 \/ TreeBytes(CountableBytes) >= target.limit + deficit
    /\ ~Fixed => HeldBytes + Drop <= pending
    /\ ~Fixed /\ pass = "delete" => deficit = 0 \/ UsedBytes - HeldBytes >= target.limit + deficit

RetentionInv == Types /\ HistoryIsRecent /\ Unlinked /\ PlanInv /\ BytesInv

-----------------------------------------------------------------------------
(* Sums of sizes. *)

Weight(c, S) == c * Cardinality(S)

LEMMA Products ==
  ASSUME NEW c \in Nat, NEW n \in Nat
  PROVE  c * n \in Nat /\ c * (n + 1) = c * n + c /\ (n # 0 => c * (n - 1) = c * n - c) /\ c * 0 = 0
OBVIOUS

LEMMA SegmentsFinite ==
  ASSUME Types
  PROVE  \A S \in SUBSET (1..last) : IsFiniteSet(S) /\ Cardinality(S) \in Nat
<1>1. IsFiniteSet(1..last)
  BY FS_Interval DEF Types
<1> QED BY <1>1, FS_Subset, FS_CardinalityType

LEMMA WeightIsNat ==
  ASSUME NEW c \in Nat, NEW S, IsFiniteSet(S)
  PROVE  Weight(c, S) \in Nat
BY FS_CardinalityType, Products DEF Weight

LEMMA WeightOfMore ==
  ASSUME NEW c \in Nat, NEW S, IsFiniteSet(S), NEW x
  PROVE  /\ IsFiniteSet(S \cup {x}) /\ Weight(c, S \cup {x}) \in Nat
         /\ Weight(c, S \cup {x}) = IF x \in S THEN Weight(c, S) ELSE Weight(c, S) + c
<1>1. IsFiniteSet(S \cup {x}) /\ Cardinality(S) \in Nat
      /\ Cardinality(S \cup {x}) = IF x \in S THEN Cardinality(S) ELSE Cardinality(S) + 1
  BY FS_AddElement, FS_CardinalityType
<1> QED BY <1>1, Products DEF Weight

LEMMA WeightOfLess ==
  ASSUME NEW c \in Nat, NEW S, IsFiniteSet(S), NEW x
  PROVE  /\ IsFiniteSet(S \ {x}) /\ Weight(c, S \ {x}) \in Nat
         /\ Weight(c, S \ {x}) = IF x \in S THEN Weight(c, S) - c ELSE Weight(c, S)
<1>1. CASE x \in S
  <2>1. IsFiniteSet(S \ {x}) /\ Cardinality(S \ {x}) = Cardinality(S) - 1
    BY <1>1, FS_RemoveElement
  <2>2. Cardinality(S) \in Nat /\ Cardinality(S \ {x}) \in Nat
    BY <2>1, FS_CardinalityType
  <2> QED BY <1>1, <2>1, <2>2, Products DEF Weight
<1>2. CASE x \notin S
  <2>1. S \ {x} = S
    BY <1>2
  <2> QED BY <1>2, <2>1, WeightIsNat
<1> QED BY <1>1, <1>2

LEMMA Sums ==
  /\ CountableBytes = Weight(PgmBytes, pgm) + Weight(OvfBytes, ovf \cap pgm) + temps
  /\ HeldBytes = Weight(PgmBytes, held)
  /\ UsedBytes = CountableBytes + journal + evidence + Weight(OvfBytes, ovf \ pgm) + HeldBytes + foreign
BY DEF CountableBytes, HeldBytes, UsedBytes, TreeBytes, Orphans, Weight

LEMMA BytesAreNat ==
  ASSUME Types
  PROVE  /\ Weight(PgmBytes, pgm) \in Nat /\ Weight(OvfBytes, ovf \cap pgm) \in Nat
         /\ Weight(OvfBytes, ovf \ pgm) \in Nat
         /\ CountableBytes \in Nat /\ HeldBytes \in Nat /\ UsedBytes \in Nat
<1>1. /\ IsFiniteSet(pgm) /\ IsFiniteSet(ovf \cap pgm) /\ IsFiniteSet(ovf \ pgm) /\ IsFiniteSet(held)
  <2>1. /\ pgm \in SUBSET (1..last) /\ (ovf \cap pgm) \in SUBSET (1..last)
        /\ (ovf \ pgm) \in SUBSET (1..last) /\ held \in SUBSET (1..last)
    BY DEF Types
  <2> QED BY <2>1, SegmentsFinite
<1>2. /\ Weight(PgmBytes, pgm) \in Nat /\ Weight(OvfBytes, ovf \cap pgm) \in Nat
      /\ Weight(OvfBytes, ovf \ pgm) \in Nat /\ Weight(PgmBytes, held) \in Nat
  BY <1>1, WeightIsNat
<1>3. temps \in Nat /\ journal \in Nat /\ evidence \in Nat /\ foreign \in Nat
  BY DEF Types
<1> QED BY <1>2, <1>3, Sums

-----------------------------------------------------------------------------
(* Types. *)

LEMMA Newest ==
  ASSUME Types, HistoryIsRecent
  PROVE  last \in pgm /\ {s \in pgm : \A r \in pgm : r <= s} = {last}
<1>1. last \in pgm /\ \A r \in pgm : r \in Nat /\ r <= last
  BY DEF HistoryIsRecent, Types
<1>2. \A s \in pgm : last <= s => s = last
  BY <1>1
<1> QED BY <1>1, <1>2

LEMMA VictimIs ==
  ASSUME NEW k, NEW S
  PROVE  /\ \A j, n : [kind |-> j, id |-> n] \in Victim(k, S) <=> j = k /\ n \in S
         /\ k \in Kinds /\ S \subseteq Nat => Victim(k, S) \subseteq Candidates
<1>1. \A j, n, s : [kind |-> j, id |-> n] = [kind |-> k, id |-> s] <=> j = k /\ n = s
  <2> TAKE j, n, s
  <2>1. [kind |-> j, id |-> n] = [kind |-> k, id |-> s] => j = k /\ n = s
    <3> SUFFICES ASSUME [kind |-> j, id |-> n] = [kind |-> k, id |-> s] PROVE j = k /\ n = s
      OBVIOUS
    <3>1. [kind |-> j, id |-> n].kind = [kind |-> k, id |-> s].kind /\ [kind |-> j, id |-> n].id = [kind |-> k, id |-> s].id
      OBVIOUS
    <3> QED BY <3>1
  <2> QED BY <2>1
<1>2. \A j, n : [kind |-> j, id |-> n] \in Victim(k, S) <=> \E s \in S : [kind |-> j, id |-> n] = [kind |-> k, id |-> s]
  BY DEF Victim
<1>3. k \in Kinds /\ S \subseteq Nat => Victim(k, S) \subseteq Candidates
  <2> SUFFICES ASSUME k \in Kinds, S \subseteq Nat, NEW s \in S PROVE [kind |-> k, id |-> s] \in Candidates
    BY DEF Victim
  <2>1. s \in Nat
    OBVIOUS
  <2> QED BY <2>1 DEF Candidates
<1>4. \A j, n : [kind |-> j, id |-> n] \in Victim(k, S) <=> j = k /\ n \in S
  <2> TAKE j, n
  <2>1. ASSUME [kind |-> j, id |-> n] \in Victim(k, S) PROVE j = k /\ n \in S
    <3>1. PICK s \in S : [kind |-> j, id |-> n] = [kind |-> k, id |-> s]
      BY <1>2, <2>1
    <3>2. j = k /\ n = s
      BY <1>1, <3>1
    <3> QED BY <3>2
  <2>2. j = k /\ n \in S => [kind |-> j, id |-> n] \in Victim(k, S)
    BY <1>2
  <2> QED BY <2>1, <2>2
<1> QED BY <1>3, <1>4

LEMMA VictimsAre ==
  ASSUME Types
  PROVE  /\ Victims \subseteq Candidates
         /\ \A n : [kind |-> "temporary", id |-> n] \in Victims <=> n \in 1..temps
         /\ \A n : [kind |-> "orphan", id |-> n] \in Victims <=> n \in Orphans
         /\ \A n : [kind |-> "evidence", id |-> n] \in Victims <=> n \in 1..evidence
         /\ \A n : [kind |-> "segment", id |-> n] \in Victims
                     <=> n \in pgm \ {s \in pgm : \A r \in pgm : r <= s}
<1>1. 1..temps \subseteq Nat /\ Orphans \subseteq Nat /\ 1..evidence \subseteq Nat /\ pgm \subseteq Nat
  BY DEF Types, Orphans
<1> DEFINE T == Victim("temporary", 1..temps)
           O == Victim("orphan", Orphans)
           E == Victim("evidence", 1..evidence)
           G == Victim("segment", pgm \ {s \in pgm : \A r \in pgm : r <= s})
<1>2. Victims = T \cup O \cup E \cup G
  BY DEF Victims
<1>3. T \subseteq Candidates /\ O \subseteq Candidates /\ E \subseteq Candidates /\ G \subseteq Candidates
  <2>1. \A k \in Kinds, S \in SUBSET Nat : Victim(k, S) \subseteq Candidates
    BY VictimIs
  <2> HIDE DEF T, O, E, G
  <2> QED BY <1>1, <2>1 DEF Kinds, T, O, E, G
<1>4. \A j, n : /\ [kind |-> j, id |-> n] \in T <=> j = "temporary" /\ n \in 1..temps
                /\ [kind |-> j, id |-> n] \in O <=> j = "orphan" /\ n \in Orphans
                /\ [kind |-> j, id |-> n] \in E <=> j = "evidence" /\ n \in 1..evidence
                /\ [kind |-> j, id |-> n] \in G
                     <=> j = "segment" /\ n \in pgm \ {s \in pgm : \A r \in pgm : r <= s}
  <2>1. \A k, S : \A j, n : [kind |-> j, id |-> n] \in Victim(k, S) <=> j = k /\ n \in S
    BY VictimIs
  <2>2. \A j, n : [kind |-> j, id |-> n] \in T <=> j = "temporary" /\ n \in 1..temps
    BY ONLY <2>1
  <2>3. \A j, n : [kind |-> j, id |-> n] \in O <=> j = "orphan" /\ n \in Orphans
    BY ONLY <2>1
  <2>4. \A j, n : [kind |-> j, id |-> n] \in E <=> j = "evidence" /\ n \in 1..evidence
    BY ONLY <2>1
  <2>5. \A j, n : [kind |-> j, id |-> n] \in G
                    <=> j = "segment" /\ n \in pgm \ {s \in pgm : \A r \in pgm : r <= s}
    BY ONLY <2>1
  <2> HIDE DEF T, O, E, G
  <2> QED BY ONLY <2>2, <2>3, <2>4, <2>5
<1> HIDE DEF T, O, E, G
<1> QED BY <1>2, <1>3, <1>4

LEMMA FreedIsNat == \A v : Freed(v) \in Nat
BY DEF Freed

LEMMA LessIsNat == \A m, n \in Nat : Less(m, n) \in Nat /\ (Less(m, n) # 0 => Less(m, n) = m - n)
BY DEF Less

LEMMA ObservedTypes ==
  ASSUME Types, Observe
  PROVE  pending' \in Nat /\ (observed' = <<>> \/ \E n \in Nat : observed' = <<n>>)
<1>1. CASE Fixed
  BY <1>1 DEF Observe, Types
<1>2. CASE ~Fixed
  <2>1. UsedBytes \in Nat
    BY BytesAreNat
  <2>2. (IF observed = <<>> THEN 0 ELSE Less(Head(observed), UsedBytes)) \in Nat
    <3>1. CASE observed = <<>>
      BY <3>1
    <3>2. CASE observed # <<>>
      <4>1. Head(observed) \in Nat
        BY <3>2 DEF Types
      <4> QED BY <2>1, <3>2, <4>1, LessIsNat
    <3> QED BY <3>1, <3>2
  <2>3. Reconciled \in Nat
    BY <2>2, LessIsNat DEF Reconciled, Types
  <2> QED BY <1>2, <2>1, <2>3 DEF Observe
<1> QED BY <1>1, <1>2

LEMMA CurrentIsNat == ASSUME Types, NEW n \in Nat, NEW q \in Nat PROVE Current(n, q) \in Nat
<1>1. UsedBytes \in Nat /\ TreeBytes(n) \in Nat
  BY BytesAreNat DEF Types, TreeBytes
<1> QED BY <1>1, LessIsNat DEF Current

LEMMA TypesInit == Init => Types
<1> SUFFICES ASSUME Init PROVE Types
  OBVIOUS
<1>1. last = 1 /\ 1 \in 1..MaxSegments /\ pgm \subseteq 1..last /\ ovf = {} /\ held = {} /\ checked \in 0..last
  BY DEF Init
<1>2. /\ temps = 0 /\ evidence = 0 /\ journal = 0 /\ foreign = 0 /\ counter \in Nat /\ pending = 0 /\ deficit = 0
      /\ faults = 0 /\ sweeps = 0 /\ recount \in BOOLEAN /\ shrunk \in BOOLEAN /\ observed = <<>>
      /\ plan = {} /\ pass = "idle" /\ target \in Targets
  BY DEF Init
<1> QED BY <1>1, <1>2 DEF Types, Passes

\* The steps by what they do.
QuietStep == Tick \/ Hour \/ PassFails \/ PassEnds
WebStep == WebChecks \/ WebRenames \/ WebSweeps \/ ReaderCloses \/ ForeignChanges

LEMMA StepKinds ==
  ASSUME [Next]_vars
  PROVE  \/ QuietStep \/ WebStep \/ Append1 \/ Seal \/ Restart \/ Check \/ Scan
         \/ RemoveOne \/ RemoveFails \/ UNCHANGED vars
BY DEF Next, Rotate, QuietStep, WebStep

\* What the quiet steps leave alone.
LEMMA QuietEffect ==
  ASSUME Types, QuietStep
  PROVE  /\ UNCHANGED <<target, last, pgm, ovf, temps, evidence, journal, foreign, held, checked>>
         /\ UNCHANGED <<counter, pending, observed, sweeps>>
         /\ recount' \in BOOLEAN /\ pass' \in {"idle", "check", pass} /\ plan' \in {{}, plan} /\ deficit' \in {0, deficit}
         /\ faults' \in {faults, faults + 1}
         /\ pass' = "delete" => UNCHANGED <<plan, deficit, shrunk>>
         /\ shrunk' \in {shrunk, FALSE} /\ (~shrunk' => ~shrunk \/ Fixed)
<1>1. CASE Tick
  BY <1>1 DEF Tick, Enter, Excused, tree, Types
<1>2. CASE Hour
  BY <1>2 DEF Hour, tree
<1>3. CASE PassFails
  BY <1>3 DEF PassFails, tree, Fault, Types
<1>4. CASE PassEnds
  BY <1>4 DEF PassEnds, tree, Types
<1> QED BY <1>1, <1>2, <1>3, <1>4 DEF QuietStep

LEMMA WebEffect ==
  ASSUME Types, WebStep
  PROVE  /\ UNCHANGED <<target, last, pgm, temps, evidence, journal, rotation, faults>>
         /\ ovf' \subseteq 1..last /\ held' \subseteq held /\ checked' \in 0..last
         /\ foreign' \in Nat /\ sweeps' \in {sweeps, sweeps + 1} /\ shrunk' \in BOOLEAN
<1>1. CASE WebChecks
  BY <1>1 DEF WebChecks, Types
<1>2. CASE WebRenames
  BY <1>2 DEF WebRenames, Types
<1>3. CASE WebSweeps
  BY <1>3 DEF WebSweeps, Types
<1>4. CASE ReaderCloses
  BY <1>4 DEF ReaderCloses, Types
<1>5. CASE ForeignChanges
  BY <1>5 DEF ForeignChanges, Types
<1> QED BY <1>1, <1>2, <1>3, <1>4, <1>5 DEF WebStep

LEMMA Counts == ASSUME NEW n \in Nat, NEW m \in {n, n + 1} PROVE m \in Nat
OBVIOUS

\* A plan names only segments and sidecars of the tree.
LEMMA UnlinkTypes ==
  ASSUME Types, PlanInv, pass = "delete", NEW v, First(v), Unlink(v)
  PROVE  /\ v \in Candidates /\ v.kind \in Kinds
         /\ pgm' \subseteq pgm /\ ovf' \subseteq ovf /\ held' \subseteq 1..last
         /\ temps' \in Nat /\ evidence' \in Nat
<1>1. v \in Candidates /\ v.kind \in Kinds /\ v.id \in Nat /\ Planned(v.kind, v.id)
  BY DEF First, Types, Candidates, Planned
<1>2. v.kind = "temporary" => temps # 0
  <2>1. PICK lo \in Nat : \A n \in Nat : Planned("temporary", n) <=> lo < n /\ n <= lo + temps
    BY DEF PlanInv
  <2> QED BY <1>1, <2>1 DEF Types
<1>3. v.kind = "evidence" => evidence # 0
  <2>1. PICK lo \in Nat : \A n \in Nat : Planned("evidence", n) <=> lo < n /\ n <= lo + evidence
    BY DEF PlanInv
  <2> QED BY <1>1, <2>1 DEF Types
<1>4. v.kind = "segment" => v.id \in pgm
  BY <1>1 DEF PlanInv
<1>5. temps' \in Nat /\ evidence' \in Nat
  BY <1>2, <1>3 DEF Unlink, Types
<1>6. held' \subseteq 1..last
  BY <1>4 DEF Unlink, Holding, Types
<1> QED BY <1>1, <1>5, <1>6 DEF Unlink

LEMMA TypesStep == ASSUME Types, PlanInv, [Next]_vars PROVE Types'
<1>1. CASE QuietStep
  <2>1. faults' \in Nat
    BY <1>1, QuietEffect, Counts DEF Types
  <2>2. UNCHANGED <<target, last, pgm, ovf, temps, evidence, journal, foreign, held, checked, counter, pending, observed, sweeps>>
    BY <1>1, QuietEffect
  <2>3. /\ recount' \in BOOLEAN /\ pass' \in {"idle", "check", pass} /\ plan' \in {{}, plan} /\ deficit' \in {0, deficit}
        /\ shrunk' \in {shrunk, FALSE}
    BY <1>1, QuietEffect
  <2>4. pass' \in Passes /\ plan' \subseteq Candidates /\ deficit' \in Nat /\ shrunk' \in BOOLEAN
    <3>1. pass \in Passes /\ plan \subseteq Candidates /\ deficit \in Nat /\ shrunk \in BOOLEAN
      BY DEF Types
    <3>2. pass' \in Passes
      BY <2>3, <3>1 DEF Passes
    <3>3. plan' \subseteq Candidates /\ shrunk' \in BOOLEAN
      BY <2>3, <3>1
    <3>4. deficit' = 0 \/ deficit' = deficit
      BY <2>3
    <3>5. deficit' \in Nat
      BY <3>1, <3>4
    <3> QED BY <3>2, <3>3, <3>5
  <2> QED BY <2>1, <2>2, <2>3, <2>4 DEF Types
<1>2. CASE WebStep
  <2>1. sweeps' \in Nat
    BY <1>2, WebEffect, Counts DEF Types
  <2> QED BY <1>2, <2>1, WebEffect DEF Types, rotation
<1>3. CASE Append1
  BY <1>3 DEF Append1, Types, rotation
<1>4. CASE Seal
  <2>1. /\ last' \in 1..MaxSegments /\ pgm' \subseteq 1..last' /\ ovf' \subseteq 1..last'
        /\ held' \subseteq 1..last' /\ checked' \in 0..last'
    BY <1>4 DEF Seal, Types
  <2>2. counter' \in Nat /\ faults' \in Nat
    BY <1>4 DEF Seal, Types, Fault
  <2>3. /\ UNCHANGED <<target, temps, evidence, foreign, pending, observed, recount, sweeps, plan, deficit>>
        /\ journal' = 0 /\ pass' = "check" /\ shrunk' \in BOOLEAN
    BY <1>4 DEF Seal, Enter, Excused, Types
  <2> QED BY <2>1, <2>2, <2>3 DEF Types, Passes
<1>5. CASE Restart
  <2>1. PICK t \in 0..1, e \in 0..1 : temps' = temps + t /\ evidence' = evidence + e
    BY <1>5 DEF Restart
  <2>2. temps' \in Nat /\ evidence' \in Nat /\ counter' \in Nat
    <3>1. CountableBytes \in Nat /\ temps \in Nat /\ evidence \in Nat /\ counter' = CountableBytes + temps' - temps
      BY <1>5, BytesAreNat DEF Restart, Types
    <3> QED BY <2>1, <3>1
  <2>3. faults' \in Nat
    BY <1>5 DEF Restart, Fault, Types
  <2>4. /\ pending' = 0 /\ observed' = <<>> /\ recount' = FALSE /\ pass' = "idle" /\ plan' = {} /\ deficit' = 0 /\ shrunk' = TRUE
        /\ UNCHANGED <<target, last, pgm, ovf, journal, foreign, held, checked, sweeps>>
    BY <1>5 DEF Restart
  <2> QED BY <2>2, <2>3, <2>4 DEF Types, Passes
<1>6. CASE Check
  <2>1. pending' \in Nat /\ (observed' = <<>> \/ \E n \in Nat : observed' = <<n>>)
    BY <1>6, ObservedTypes DEF Check
  <2>2. /\ UNCHANGED <<target, tree, counter, recount, plan, deficit, shrunk, faults, sweeps>> /\ pass' \in Passes
    BY <1>6 DEF Check, Passes
  <2> QED BY <2>1, <2>2 DEF Types, tree
<1>7. CASE Scan
  <2>1. pending' \in Nat /\ (observed' = <<>> \/ \E n \in Nat : observed' = <<n>>)
    BY <1>7, ObservedTypes DEF Scan
  <2>2. counter' \in Nat /\ deficit' \in Nat
    <3>1. counter' \in Nat
      BY <1>7, BytesAreNat DEF Scan
    <3>2. Current(counter', pending') \in Nat
      BY <2>1, <3>1, CurrentIsNat
    <3>3. target.limit \in Nat
      BY DEF Types
    <3> QED BY <1>7, <3>1, <3>2, <3>3, LessIsNat DEF Scan
  <2>3. plan' \subseteq Candidates /\ pass' \in Passes
    BY <1>7, VictimsAre DEF Scan, Passes
  <2>4. UNCHANGED <<target, tree, shrunk, faults, sweeps>> /\ recount' = FALSE
    BY <1>7 DEF Scan
  <2> QED BY <2>1, <2>2, <2>3, <2>4 DEF Types, tree
<1>8. CASE RemoveOne
  <2>1. PICK v \in plan :
             /\ First(v) /\ Unlink(v) /\ plan' = plan \ {v}
             /\ counter' = IF CountedInTree(v) THEN Less(counter, Freed(v)) ELSE counter
             /\ pending' = AddPending(Freed(v))
             /\ deficit' = Less(deficit, Freed(v))
    BY <1>8 DEF RemoveOne
  <2>2. /\ pgm' \subseteq pgm /\ ovf' \subseteq ovf /\ held' \subseteq 1..last
        /\ temps' \in Nat /\ evidence' \in Nat
    BY <1>8, <2>1, UnlinkTypes DEF RemoveOne
  <2>3. counter' \in Nat /\ deficit' \in Nat /\ pending' \in Nat
    <3>1. Freed(v) \in Nat /\ counter \in Nat /\ deficit \in Nat /\ pending \in Nat
      BY FreedIsNat DEF Types
    <3>2. Less(counter, Freed(v)) \in Nat /\ Less(deficit, Freed(v)) \in Nat
      BY <3>1, LessIsNat
    <3>3. AddPending(Freed(v)) \in Nat
      BY <3>1 DEF AddPending
    <3> QED BY <2>1, <3>1, <3>2, <3>3
  <2>4. UNCHANGED <<target, last, journal, foreign, checked, observed, recount, pass, shrunk, faults, sweeps>>
    BY <1>8 DEF RemoveOne
  <2> QED BY <2>1, <2>2, <2>3, <2>4 DEF Types
<1>9. CASE RemoveFails
  <2>1. PICK v \in plan : First(v) /\ FailsAt(v)
    BY <1>9 DEF RemoveFails
  <2>2. v.kind = "segment" => v.id \in pgm
    <3>1. v.id \in Nat /\ Planned(v.kind, v.id) /\ pass = "delete"
      BY <1>9, <2>1 DEF RemoveFails, Types, Candidates, Planned
    <3> QED BY <3>1 DEF PlanInv
  <2>3. /\ pgm' \subseteq 1..last /\ ovf' \subseteq 1..last /\ held' \subseteq 1..last
        /\ temps' \in Nat /\ evidence' \in Nat /\ shrunk' \in BOOLEAN
    <3>1. CASE UNCHANGED <<pgm, ovf, temps, evidence, held, shrunk>>
      BY <3>1 DEF Types
    <3>2. CASE /\ v.kind = "segment" /\ pgm' = pgm \ {v.id} /\ held' \in Holding(v.id)
               /\ shrunk' = TRUE /\ UNCHANGED <<ovf, temps, evidence>>
      <4>1. pgm \subseteq 1..last /\ ovf \subseteq 1..last /\ held \subseteq 1..last /\ temps \in Nat /\ evidence \in Nat
        BY DEF Types
      <4>2. v.id \in pgm
        BY <2>2, <3>2
      <4>3. held' \subseteq held \cup {v.id}
        BY <3>2 DEF Holding
      <4>4. shrunk' \in BOOLEAN
        BY <3>2
      <4> QED BY <3>2, <4>1, <4>2, <4>3, <4>4
    <3>3. CASE Unlink(v) /\ shrunk' = TRUE
      <4>1. /\ pgm' \subseteq pgm /\ ovf' \subseteq ovf /\ held' \subseteq 1..last
            /\ temps' \in Nat /\ evidence' \in Nat
        BY <1>9, <2>1, <3>3, UnlinkTypes DEF RemoveFails
      <4> QED BY <3>3, <4>1 DEF Types
    <3> QED BY <2>1, <3>1, <3>2, <3>3 DEF FailsAt
  <2>4. /\ UNCHANGED <<target, last, journal, foreign, checked, counter, pending, observed, recount, sweeps>>
        /\ pass' = "idle" /\ plan' = {} /\ deficit' = 0 /\ faults' = faults + 1
    BY <1>9 DEF RemoveFails, Aborts, Fault
  <2> QED BY <2>3, <2>4 DEF Types, Passes
<1>10. CASE UNCHANGED vars
  BY <1>10 DEF vars, tree, rotation, Types
<1> QED BY <1>1, <1>2, <1>3, <1>4, <1>5, <1>6, <1>7, <1>8, <1>9, <1>10, StepKinds

-----------------------------------------------------------------------------
(* History and the plan. *)

LEMMA FirstOfKind ==
  ASSUME NEW v, First(v), NEW k \in Kinds, v.kind = k, NEW n, Planned(k, n)
  PROVE  v.id <= n
<1> DEFINE w == [kind |-> k, id |-> n]
<1>1. w \in plan /\ w.kind = k /\ w.id = n
  BY DEF Planned
<1> HIDE DEF w
<1>2. Rank[k] < Rank[k] \/ v.id <= n
  BY <1>1 DEF First
<1>3. ~(Rank[k] < Rank[k])
  BY DEF Rank, Kinds
<1> QED BY <1>2, <1>3

\* The segment at the head of the plan is the oldest of the tree, and not the newest.
LEMMA OldestFirst ==
  ASSUME Types, HistoryIsRecent, PlanInv, pass = "delete", NEW v, First(v), v.kind = "segment"
  PROVE  v.id \in pgm \ {last} /\ \A s \in pgm : v.id <= s
<1>1. v \in Candidates /\ v.id \in Nat /\ Planned("segment", v.id)
  BY DEF First, Types, Candidates, Planned
<1>2. v.id \in pgm \ {last}
  BY <1>1 DEF PlanInv
<1>3. ASSUME NEW s \in pgm \ {last} PROVE v.id <= s
  <2>1. s \in Nat
    BY DEF Types
  <2>2. Planned("segment", s)
    BY <2>1 DEF PlanInv
  <2> QED BY <2>2, FirstOfKind DEF Kinds
<1>4. v.id <= last
  <2>1. v.id \in 1..last
    BY <1>2 DEF Types
  <2>2. last \in Nat
    BY DEF Types
  <2> QED BY <2>1, <2>2
<1> QED BY <1>2, <1>3, <1>4

\* What a step does to the segments.
LEMMA SegmentSteps ==
  ASSUME Types, HistoryIsRecent, PlanInv, [Next]_vars
  PROVE  \/ UNCHANGED <<last, pgm>> /\ held' \subseteq held
         \/ Seal
         \/ /\ RemoveOne \/ RemoveFails
            /\ last' = last
            /\ \E s \in pgm \ {last} : /\ \A r \in pgm : s <= r
                                       /\ pgm' = pgm \ {s} /\ held' \subseteq held \cup {s}
<1>1. CASE RemoveOne
  <2>1. PICK v \in plan : First(v) /\ Unlink(v)
    BY <1>1 DEF RemoveOne
  <2>2. CASE v.kind = "segment"
    <3>1. v.id \in pgm \ {last} /\ \A s \in pgm : v.id <= s
      BY <1>1, <2>1, <2>2, OldestFirst DEF RemoveOne
    <3>2. pgm' = pgm \ {v.id} /\ held' \subseteq held \cup {v.id} /\ last' = last
      BY <1>1, <2>1, <2>2 DEF RemoveOne, Unlink, Holding
    <3> QED BY <1>1, <3>1, <3>2
  <2>3. CASE v.kind # "segment"
    BY <1>1, <2>1, <2>3 DEF RemoveOne, Unlink
  <2> QED BY <2>2, <2>3
<1>2. CASE RemoveFails
  <2>1. PICK v \in plan : First(v) /\ FailsAt(v)
    BY <1>2 DEF RemoveFails
  <2>2. last' = last
    BY <1>2 DEF RemoveFails
  <2>3. CASE v.kind = "segment" /\ pgm' = pgm \ {v.id} /\ held' \in Holding(v.id)
    <3>1. v.id \in pgm \ {last} /\ \A s \in pgm : v.id <= s
      BY <1>2, <2>1, <2>3, OldestFirst DEF RemoveFails
    <3>2. held' \subseteq held \cup {v.id}
      BY <2>3 DEF Holding
    <3> QED BY <1>2, <2>2, <2>3, <3>1, <3>2
  <2>4. CASE UNCHANGED <<pgm, held>>
    BY <2>2, <2>4
  <2>5. \/ UNCHANGED <<pgm, held>>
        \/ v.kind = "segment" /\ pgm' = pgm \ {v.id} /\ held' \in Holding(v.id)
    BY <2>1 DEF FailsAt, Unlink
  <2> QED BY <2>3, <2>4, <2>5
<1>3. CASE QuietStep
  BY <1>3, QuietEffect
<1>4. CASE WebStep
  BY <1>4, WebEffect
<1>5. CASE Append1 \/ Restart \/ Check \/ Scan \/ UNCHANGED vars
  BY <1>5 DEF Append1, Restart, Check, Scan, vars, tree
<1> QED BY <1>1, <1>2, <1>3, <1>4, <1>5, StepKinds

LEMMA HistoryStep ==
  ASSUME Types, HistoryIsRecent, Unlinked, PlanInv, [Next]_vars
  PROVE  HistoryIsRecent' /\ Unlinked'
<1>1. CASE UNCHANGED <<last, pgm>> /\ held' \subseteq held
  BY <1>1 DEF HistoryIsRecent, Unlinked
<1>2. CASE Seal
  <2>1. last' = last + 1 /\ pgm' = pgm \cup {last + 1} /\ held' = held
    BY <1>2 DEF Seal
  <2>2. last \in Nat /\ last + 1 \notin held /\ pgm \subseteq 1..last
    BY DEF Types
  <2>3. ASSUME NEW s \in 1..last', NEW r \in pgm', r < s PROVE s \in pgm'
    <3>1. CASE s = last + 1
      BY <2>1, <3>1
    <3>2. CASE s \in 1..last
      <4>1. r \in pgm
        BY <2>1, <2>2, <2>3, <3>2
      <4> QED BY <2>1, <2>3, <3>2, <4>1 DEF HistoryIsRecent
    <3> QED BY <2>1, <2>2, <3>1, <3>2
  <2> QED BY <2>1, <2>2, <2>3 DEF HistoryIsRecent, Unlinked
<1>3. CASE last' = last /\ \E s \in pgm \ {last} : /\ \A r \in pgm : s <= r
                                                   /\ pgm' = pgm \ {s} /\ held' \subseteq held \cup {s}
  <2>1. PICK s \in pgm \ {last} : /\ \A r \in pgm : s <= r
                                  /\ pgm' = pgm \ {s} /\ held' \subseteq held \cup {s}
    BY <1>3
  <2>2. ASSUME NEW n \in 1..last, NEW r \in pgm', r < n PROVE n \in pgm'
    <3>1. n \in pgm /\ r \in pgm /\ s <= r
      BY <2>1, <2>2 DEF HistoryIsRecent
    <3>2. n # s
      BY <2>1, <2>2, <3>1 DEF Types
    <3> QED BY <2>1, <3>1, <3>2
  <2> QED BY <1>3, <2>1, <2>2 DEF HistoryIsRecent, Unlinked
<1> QED BY <1>1, <1>2, <1>3, SegmentSteps

\* A removal takes one victim off the plan, and its file from the tree.
LEMMA PlanShrinks ==
  ASSUME Types, HistoryIsRecent, PlanInv, RemoveOne
  PROVE  PlanInv'
<1>1. PICK v \in plan : First(v) /\ Unlink(v) /\ plan' = plan \ {v}
  BY DEF RemoveOne
<1>2. /\ v \in Candidates /\ v.kind \in Kinds /\ v.id \in Nat /\ v = [kind |-> v.kind, id |-> v.id]
      /\ pass = "delete" /\ last' = last
  BY <1>1 DEF RemoveOne, Types, Candidates
<1>3. \A k, n : Planned(k, n)' <=> Planned(k, n) /\ ~(k = v.kind /\ n = v.id)
  <2> TAKE k, n
  <2>1. k = v.kind /\ n = v.id => [kind |-> k, id |-> n] = v
    BY <1>2
  <2>2. [kind |-> k, id |-> n] = v => k = v.kind /\ n = v.id
    OBVIOUS
  <2> QED BY <1>1, <2>1, <2>2 DEF Planned
<1>4. Planned(v.kind, v.id)
  BY <1>2, <1>1 DEF Planned
<1>5. \A n \in Nat : Planned(v.kind, n) => v.id <= n
  BY <1>1, <1>2, FirstOfKind
<1>6. \A s \in Nat : Planned("segment", s)' <=> s \in pgm' \ {last'}
  <2>1. CASE v.kind = "segment"
    <3>1. pgm' = pgm \ {v.id}
      BY <1>1, <2>1 DEF Unlink
    <3> QED BY <1>2, <1>3, <2>1, <3>1 DEF PlanInv
  <2>2. CASE v.kind # "segment"
    <3>1. pgm' = pgm
      BY <1>1, <2>2 DEF Unlink
    <3> QED BY <1>2, <1>3, <2>2, <3>1 DEF PlanInv
  <2> QED BY <2>1, <2>2
<1>7. \A s \in pgm' : ~Planned("orphan", s)'
  <2>1. pgm' \subseteq pgm
    BY <1>1 DEF Unlink
  <2> QED BY <1>2, <1>3, <2>1 DEF PlanInv
<1>8. ASSUME NEW k, NEW have \in Nat, NEW left, left = IF v.kind = k THEN have - 1 ELSE have,
             \E lo \in Nat : \A n \in Nat : Planned(k, n) <=> lo < n /\ n <= lo + have
      PROVE  \E lo \in Nat : \A n \in Nat : Planned(k, n)' <=> lo < n /\ n <= lo + left
  <2>1. PICK lo \in Nat : \A n \in Nat : Planned(k, n) <=> lo < n /\ n <= lo + have
    BY <1>8
  <2>2. CASE v.kind = k
    <3>1. lo < v.id /\ v.id <= lo + have
      BY <1>2, <1>4, <2>1, <2>2
    <3>2. Planned(k, lo + 1)
      BY <1>2, <2>1, <3>1
    <3>3. v.id = lo + 1
      <4>1. v.id <= lo + 1
        BY <1>5, <2>2, <3>2
      <4> QED BY <1>2, <3>1, <4>1
    <3>4. \A n \in Nat : Planned(k, n)' <=> lo + 1 < n /\ n <= (lo + 1) + left
      <4>1. left = have - 1
        BY <1>8, <2>2
      <4> QED BY <1>3, <2>1, <2>2, <3>3, <4>1
    <3> QED BY <3>4
  <2>3. CASE v.kind # k
    <3>1. left = have
      BY <1>8, <2>3
    <3> QED BY <1>3, <2>1, <2>3, <3>1
  <2> QED BY <2>2, <2>3
<1>9. \E lo \in Nat : \A n \in Nat : Planned("temporary", n)' <=> lo < n /\ n <= lo + temps'
  <2>1. temps \in Nat /\ temps' = IF v.kind = "temporary" THEN temps - 1 ELSE temps
    BY <1>1 DEF Unlink, Types
  <2> QED BY <1>2, <1>8, <2>1 DEF PlanInv
<1>10. \E lo \in Nat : \A n \in Nat : Planned("evidence", n)' <=> lo < n /\ n <= lo + evidence'
  <2>1. evidence \in Nat /\ evidence' = IF v.kind = "evidence" THEN evidence - 1 ELSE evidence
    BY <1>1 DEF Unlink, Types
  <2> QED BY <1>2, <1>8, <2>1 DEF PlanInv
<1> QED BY <1>6, <1>7, <1>9, <1>10 DEF PlanInv

LEMMA PlanStep == ASSUME Types, HistoryIsRecent, PlanInv, [Next]_vars PROVE PlanInv'
<1>1. CASE pass' # "delete"
  BY <1>1 DEF PlanInv
<1>2. ASSUME pass = "delete", UNCHANGED <<last, pgm, plan, temps, evidence>> PROVE PlanInv'
  BY <1>2 DEF PlanInv, Planned
<1>3. CASE Scan
  <2>1. pass' = "delete" => plan' = Victims /\ UNCHANGED <<last, pgm, temps, evidence>>
    BY <1>3 DEF Scan, tree
  <2>2. \A s \in Nat : [kind |-> "segment", id |-> s] \in Victims <=> s \in pgm \ {last}
    BY VictimsAre, Newest
  <2>3. \A s \in pgm : [kind |-> "orphan", id |-> s] \notin Victims
    BY VictimsAre DEF Orphans
  <2>4. /\ \A n \in Nat : [kind |-> "temporary", id |-> n] \in Victims <=> 0 < n /\ n <= 0 + temps
        /\ \A n \in Nat : [kind |-> "evidence", id |-> n] \in Victims <=> 0 < n /\ n <= 0 + evidence
    <3>1. temps \in Nat /\ evidence \in Nat
      BY DEF Types
    <3>2. \A n \in Nat : /\ n \in 1..temps <=> 0 < n /\ n <= 0 + temps
                         /\ n \in 1..evidence <=> 0 < n /\ n <= 0 + evidence
      BY ONLY <3>1
    <3>3. /\ \A n : [kind |-> "temporary", id |-> n] \in Victims <=> n \in 1..temps
          /\ \A n : [kind |-> "evidence", id |-> n] \in Victims <=> n \in 1..evidence
      BY VictimsAre
    <3> QED BY ONLY <3>2, <3>3
  <2>5. 0 \in Nat
    OBVIOUS
  <2> SUFFICES ASSUME pass' = "delete"
               PROVE  /\ \A s \in Nat : Planned("segment", s)' <=> s \in pgm' \ {last'}
                      /\ \A s \in pgm' : ~Planned("orphan", s)'
                      /\ \E lo \in Nat : \A n \in Nat : Planned("temporary", n)' <=> lo < n /\ n <= lo + temps'
                      /\ \E lo \in Nat : \A n \in Nat : Planned("evidence", n)' <=> lo < n /\ n <= lo + evidence'
    BY DEF PlanInv
  <2>6. /\ \A s \in Nat : Planned("segment", s)' <=> s \in pgm' \ {last'}
        /\ \A s \in pgm' : ~Planned("orphan", s)'
    BY <2>1, <2>2, <2>3 DEF Planned
  <2>7. \E lo \in Nat : \A n \in Nat : Planned("temporary", n)' <=> lo < n /\ n <= lo + temps'
    BY <2>1, <2>4, <2>5 DEF Planned
  <2>8. \E lo \in Nat : \A n \in Nat : Planned("evidence", n)' <=> lo < n /\ n <= lo + evidence'
    BY <2>1, <2>4, <2>5 DEF Planned
  <2> QED BY <2>6, <2>7, <2>8
<1>4. CASE RemoveOne
  BY <1>4, PlanShrinks
<1>5. CASE QuietStep
  BY <1>1, <1>2, <1>5, QuietEffect
<1>6. CASE WebStep
  BY <1>1, <1>2, <1>6, WebEffect DEF rotation
<1>7. CASE Append1 \/ Seal \/ Restart \/ Check \/ RemoveFails
  BY <1>1, <1>7 DEF Append1, Idle, Seal, Enter, Restart, Check, RemoveFails, Aborts, rotation
<1>8. CASE UNCHANGED vars
  BY <1>1, <1>2, <1>8 DEF vars, tree, rotation
<1> QED BY <1>3, <1>4, <1>5, <1>6, <1>7, <1>8, StepKinds

-----------------------------------------------------------------------------
(* Bytes. *)

OrphanBytes == Weight(OvfBytes, Orphans)

LEMMA BytesSum ==
  ASSUME Types
  PROVE  /\ CountableBytes \in Nat /\ OrphanBytes \in Nat /\ HeldBytes \in Nat /\ UsedBytes \in Nat
         /\ journal \in Nat /\ evidence \in Nat /\ foreign \in Nat /\ temps \in Nat
         /\ UsedBytes = CountableBytes + journal + evidence + OrphanBytes + HeldBytes + foreign
         /\ TreeBytes(CountableBytes) = CountableBytes + journal + evidence
BY BytesAreNat, Sums DEF Types, OrphanBytes, Orphans, TreeBytes

AllNat ==
  /\ target.limit \in Nat /\ UsedBytes \in Nat /\ HeldBytes \in Nat
  /\ TreeBytes(CountableBytes) \in Nat /\ pending \in Nat
LEMMA BytesFacts == Types => AllNat
<1> SUFFICES ASSUME Types PROVE AllNat
  OBVIOUS
<1>1. target.limit \in Nat /\ pending \in Nat
  BY DEF Types
<1> QED BY <1>1, BytesSum DEF AllNat
LEMMA BytesFactsNext == Types' => AllNat'
BY BytesFacts, PTL

\* What takes sizes out of the tree and out of the plan.
LEMMA UnlinkBytes ==
  ASSUME Types, Unlinked, PlanInv, RemoveOne,
         NEW v \in plan, First(v), Unlink(v)
  PROVE  /\ Freed(v) \in Nat
         /\ TreeBytes(CountableBytes)' >= TreeBytes(CountableBytes) - Freed(v)
         /\ (UsedBytes - HeldBytes)' = UsedBytes - HeldBytes - Freed(v)
         /\ (UsedBytes' = UsedBytes - Freed(v) /\ HeldBytes' = HeldBytes)
            \/ (UsedBytes' = UsedBytes - Freed(v) + PgmBytes /\ HeldBytes' = HeldBytes + PgmBytes /\ PgmBytes <= Freed(v))
<1>0. /\ UsedBytes' = CountableBytes' + journal' + evidence' + OrphanBytes' + HeldBytes' + foreign'
      /\ TreeBytes(CountableBytes)' = CountableBytes' + journal' + evidence'
  BY DEF UsedBytes, TreeBytes, OrphanBytes, Weight
<1>1. /\ IsFiniteSet(pgm) /\ IsFiniteSet(ovf \cap pgm) /\ IsFiniteSet(Orphans) /\ IsFiniteSet(held)
  <2>1. /\ pgm \in SUBSET (1..last) /\ (ovf \cap pgm) \in SUBSET (1..last)
        /\ Orphans \in SUBSET (1..last) /\ held \in SUBSET (1..last)
    BY DEF Types, Orphans
  <2> QED BY <2>1, SegmentsFinite
<1>2. /\ v.kind \in Kinds /\ v.id \in Nat /\ Planned(v.kind, v.id) /\ pass = "delete"
      /\ journal' = journal /\ foreign' = foreign
  BY DEF Types, Candidates, Planned, RemoveOne
<1>3. Freed(v) \in Nat
  BY FreedIsNat
<1>4. CASE v.kind = "segment"
  <2>1. v.id \in pgm /\ v.id \notin held /\ v.id \notin Orphans
    BY <1>2, <1>4 DEF PlanInv, Unlinked, Orphans
  <2>2. /\ pgm' = pgm \ {v.id} /\ ovf' = ovf \ {v.id} /\ temps' = temps /\ evidence' = evidence
        /\ held' = held \/ held' = held \cup {v.id}
    BY <1>4 DEF Unlink, Holding
  <2>3. /\ (ovf \cap pgm)' = (ovf \cap pgm) \ {v.id} /\ Orphans' = Orphans
        /\ (v.id \in ovf \cap pgm <=> v.id \in ovf)
    BY <2>1, <2>2 DEF Orphans
  <2>4. Weight(PgmBytes, pgm)' = Weight(PgmBytes, pgm) - PgmBytes
    BY <1>1, <2>1, <2>2, WeightOfLess DEF Weight
  <2>5. Weight(OvfBytes, ovf \cap pgm)' =
          IF v.id \in ovf THEN Weight(OvfBytes, ovf \cap pgm) - OvfBytes ELSE Weight(OvfBytes, ovf \cap pgm)
    <3>1. Weight(OvfBytes, (ovf \cap pgm) \ {v.id}) =
            IF v.id \in ovf THEN Weight(OvfBytes, ovf \cap pgm) - OvfBytes ELSE Weight(OvfBytes, ovf \cap pgm)
      <4> DEFINE C == ovf \cap pgm
      <4>1. Weight(OvfBytes, C \ {v.id}) = IF v.id \in C THEN Weight(OvfBytes, C) - OvfBytes ELSE Weight(OvfBytes, C)
        <5>1. IsFiniteSet(C) /\ OvfBytes \in Nat
          BY <1>1
        <5> HIDE DEF C
        <5> QED BY ONLY <5>1, WeightOfLess
      <4>2. v.id \in C <=> v.id \in ovf
        BY <2>3
      <4> QED BY <4>1, <4>2
    <3> QED BY <2>3, <3>1 DEF Weight
  <2>6. OrphanBytes' = OrphanBytes
    BY <2>3 DEF OrphanBytes, Weight
  <2>7. HeldBytes' = HeldBytes \/ HeldBytes' = HeldBytes + PgmBytes
    <3>1. Weight(PgmBytes, held)' = Weight(PgmBytes, held) \/ Weight(PgmBytes, held)' = Weight(PgmBytes, held) + PgmBytes
      <4>1. Weight(PgmBytes, held \cup {v.id}) = Weight(PgmBytes, held) + PgmBytes
        BY <1>1, <2>1, WeightOfMore
      <4> QED BY <2>2, <4>1 DEF Weight
    <3> QED BY <3>1 DEF HeldBytes, Weight
  <2>8. Freed(v) = PgmBytes + (IF v.id \in ovf THEN OvfBytes ELSE 0)
    BY <1>4 DEF Freed
  <2>9. /\ CountableBytes = Weight(PgmBytes, pgm) + Weight(OvfBytes, ovf \cap pgm) + temps
        /\ CountableBytes' = Weight(PgmBytes, pgm)' + Weight(OvfBytes, ovf \cap pgm)' + temps'
    BY DEF CountableBytes, Weight
  <2>10. CountableBytes' = CountableBytes - Freed(v)
    <3>1. Weight(PgmBytes, pgm) \in Nat /\ Weight(OvfBytes, ovf \cap pgm) \in Nat /\ temps \in Nat
      BY BytesAreNat DEF Types
    <3> QED BY <2>2, <2>4, <2>5, <2>8, <2>9, <3>1
  <2>11. PgmBytes <= Freed(v)
    BY <2>8
  <2>12. evidence' = evidence /\ journal' = journal /\ foreign' = foreign
    BY <1>2, <2>2
  <2> QED BY <1>0, <1>3, <2>6, <2>7, <2>10, <2>11, <2>12, BytesSum
<1>5. CASE v.kind # "segment"
  <2>1. pgm' = pgm /\ held' = held
    BY <1>5 DEF Unlink
  <2>2. HeldBytes' = HeldBytes /\ Weight(PgmBytes, pgm)' = Weight(PgmBytes, pgm)
    BY <2>1 DEF HeldBytes, Weight
  <2>3. CASE v.kind = "orphan"
    <3>1. ovf' = ovf \ {v.id} /\ temps' = temps /\ evidence' = evidence /\ v.id \notin pgm
      BY <1>2, <2>3 DEF Unlink, PlanInv
    <3>2. (ovf \cap pgm)' = ovf \cap pgm /\ Orphans' = Orphans \ {v.id} /\ (v.id \in Orphans <=> v.id \in ovf)
      BY <2>1, <3>1 DEF Orphans
    <3>3. OrphanBytes' = IF v.id \in ovf THEN OrphanBytes - OvfBytes ELSE OrphanBytes
      <4>1. IsFiniteSet(Orphans) /\ OvfBytes \in Nat
        BY <1>1
      <4>2. Weight(OvfBytes, Orphans \ {v.id}) =
              IF v.id \in Orphans THEN Weight(OvfBytes, Orphans) - OvfBytes ELSE Weight(OvfBytes, Orphans)
        BY ONLY <4>1, WeightOfLess
      <4>3. OrphanBytes = Weight(OvfBytes, Orphans) /\ OrphanBytes' = Weight(OvfBytes, Orphans \ {v.id})
        BY <3>2 DEF OrphanBytes, Weight
      <4> QED BY <3>2, <4>2, <4>3
    <3>4. CountableBytes' = CountableBytes
      BY <2>1, <3>1, <3>2 DEF CountableBytes
    <3>5. Freed(v) = IF v.id \in ovf THEN OvfBytes ELSE 0
      BY <2>3 DEF Freed
    <3> QED BY <1>0, <1>2, <1>3, <2>2, <3>1, <3>3, <3>4, <3>5, BytesSum
  <2>4. CASE v.kind = "temporary"
    <3>1. ovf' = ovf /\ temps' = temps - 1 /\ evidence' = evidence
      BY <2>4 DEF Unlink
    <3>2. OrphanBytes' = OrphanBytes
      BY <2>1, <3>1 DEF OrphanBytes, Orphans, Weight
    <3>3. CountableBytes' = CountableBytes - 1
      <4>1. /\ CountableBytes = Weight(PgmBytes, pgm) + Weight(OvfBytes, ovf \cap pgm) + temps
            /\ CountableBytes' = Weight(PgmBytes, pgm) + Weight(OvfBytes, ovf \cap pgm) + temps'
        BY <2>1, <3>1 DEF CountableBytes, Weight
      <4>2. Weight(PgmBytes, pgm) \in Nat /\ Weight(OvfBytes, ovf \cap pgm) \in Nat /\ temps \in Nat
        BY BytesAreNat DEF Types
      <4> QED BY <3>1, <4>1, <4>2
    <3>4. Freed(v) = 1
      BY <2>4 DEF Freed
    <3> QED BY <1>0, <1>2, <1>3, <2>2, <3>1, <3>2, <3>3, <3>4, BytesSum
  <2>5. CASE v.kind = "evidence"
    <3>1. ovf' = ovf /\ temps' = temps /\ evidence' = evidence - 1
      BY <2>5 DEF Unlink
    <3>2. OrphanBytes' = OrphanBytes
      BY <2>1, <3>1 DEF OrphanBytes, Orphans, Weight
    <3>3. CountableBytes' = CountableBytes
      BY <2>1, <3>1 DEF CountableBytes
    <3>4. Freed(v) = 1
      BY <2>5 DEF Freed
    <3> QED BY <1>0, <1>2, <1>3, <2>2, <3>1, <3>2, <3>3, <3>4, BytesSum
  <2> QED BY <1>2, <1>5, <2>3, <2>4, <2>5 DEF Kinds
<1> QED BY <1>4, <1>5

\* What the web process, readers and others do to the bytes in use.
LEMMA WebBytes ==
  ASSUME Types, WebStep, ~shrunk'
  PROVE  /\ TreeBytes(CountableBytes)' >= TreeBytes(CountableBytes)
         /\ (UsedBytes - HeldBytes)' >= UsedBytes - HeldBytes
         /\ HeldBytes' <= HeldBytes /\ HeldBytes' \in Nat /\ UsedBytes' \in Nat /\ ~shrunk
<1>0. /\ UsedBytes' = CountableBytes' + journal' + evidence' + OrphanBytes' + HeldBytes' + foreign'
      /\ TreeBytes(CountableBytes)' = CountableBytes' + journal' + evidence'
  BY DEF UsedBytes, TreeBytes, OrphanBytes, Weight
<1>1. /\ IsFiniteSet(ovf \cap pgm) /\ IsFiniteSet(Orphans) /\ IsFiniteSet(held)
  <2>1. /\ (ovf \cap pgm) \in SUBSET (1..last)
        /\ Orphans \in SUBSET (1..last) /\ held \in SUBSET (1..last)
    BY DEF Types, Orphans
  <2> QED BY <2>1, SegmentsFinite
<1>2. pgm' = pgm /\ temps' = temps /\ evidence' = evidence /\ journal' = journal
  BY WebEffect
<1>3. CASE WebChecks
  <2>1. UNCHANGED <<ovf, foreign, held, shrunk>>
    BY <1>3 DEF WebChecks
  <2> QED BY <1>0, <1>2, <2>1, BytesSum DEF CountableBytes, OrphanBytes, Orphans, HeldBytes, Weight
<1>4. CASE WebRenames
  <2>1. ovf' = ovf \cup {checked} /\ UNCHANGED <<foreign, held, shrunk>>
    BY <1>4 DEF WebRenames
  <2>2. HeldBytes' = HeldBytes
    BY <2>1 DEF HeldBytes
  <2>3. CASE checked \in pgm
    <3>1. (ovf \cap pgm)' = (ovf \cap pgm) \cup {checked} /\ Orphans' = Orphans
      BY <1>2, <2>1, <2>3 DEF Orphans
    <3>2. /\ Weight(OvfBytes, (ovf \cap pgm) \cup {checked}) >= Weight(OvfBytes, ovf \cap pgm)
          /\ Weight(OvfBytes, (ovf \cap pgm) \cup {checked}) \in Nat
      <4> DEFINE C == ovf \cap pgm
      <4>1. /\ Weight(OvfBytes, C \cup {checked}) = IF checked \in C THEN Weight(OvfBytes, C) ELSE Weight(OvfBytes, C) + OvfBytes
            /\ Weight(OvfBytes, C \cup {checked}) \in Nat
        <5>1. IsFiniteSet(C) /\ OvfBytes \in Nat
          BY <1>1
        <5> HIDE DEF C
        <5> QED BY ONLY <5>1, WeightOfMore
      <4>2. Weight(OvfBytes, C) \in Nat
        BY <1>1, WeightIsNat
      <4> HIDE DEF C
      <4>3. Weight(OvfBytes, C \cup {checked}) >= Weight(OvfBytes, C)
        BY <4>1, <4>2
      <4> QED BY <4>1, <4>3 DEF C
    <3>3. /\ CountableBytes = Weight(PgmBytes, pgm) + Weight(OvfBytes, ovf \cap pgm) + temps
          /\ CountableBytes' = Weight(PgmBytes, pgm) + Weight(OvfBytes, (ovf \cap pgm) \cup {checked}) + temps
      BY <1>2, <3>1 DEF CountableBytes, Weight
    <3>4. Weight(PgmBytes, pgm) \in Nat /\ Weight(OvfBytes, ovf \cap pgm) \in Nat /\ temps \in Nat
      BY BytesAreNat DEF Types
    <3>5. CountableBytes' >= CountableBytes /\ CountableBytes' \in Nat
      BY <3>2, <3>3, <3>4
    <3>6. OrphanBytes' = OrphanBytes
      BY <3>1 DEF OrphanBytes, Weight
    <3> QED BY <1>0, <1>2, <2>1, <2>2, <3>5, <3>6, BytesSum
  <2>4. CASE checked \notin pgm
    <3>1. (ovf \cap pgm)' = ovf \cap pgm /\ Orphans' = Orphans \cup {checked}
      BY <1>2, <2>1, <2>4 DEF Orphans
    <3>2. /\ OrphanBytes' = IF checked \in Orphans THEN OrphanBytes ELSE OrphanBytes + OvfBytes
      BY <1>1, <3>1, WeightOfMore DEF OrphanBytes, Weight
    <3>3. CountableBytes' = CountableBytes
      BY <1>2, <3>1 DEF CountableBytes
    <3>4. OrphanBytes' >= OrphanBytes /\ OrphanBytes' \in Nat
      BY <3>2, BytesSum
    <3> QED BY <1>0, <1>2, <2>1, <2>2, <3>3, <3>4, BytesSum
  <2> QED BY <2>3, <2>4
<1>5. CASE ReaderCloses
  <2>1. PICK s \in held : held' = held \ {s}
    BY <1>5 DEF ReaderCloses
  <2>2. UNCHANGED <<ovf, foreign, shrunk>>
    BY <1>5 DEF ReaderCloses
  <2>3. Weight(PgmBytes, held \ {s}) = Weight(PgmBytes, held) - PgmBytes /\ Weight(PgmBytes, held \ {s}) \in Nat
    BY <1>1, WeightOfLess
  <2>4. HeldBytes' = HeldBytes - PgmBytes /\ HeldBytes' \in Nat
    BY <2>1, <2>3 DEF HeldBytes, Weight
  <2>5. CountableBytes' = CountableBytes /\ OrphanBytes' = OrphanBytes
    BY <1>2, <2>2 DEF CountableBytes, OrphanBytes, Orphans, Weight
  <2> QED BY <1>0, <1>2, <2>2, <2>4, <2>5, BytesSum
<1>6. CASE ForeignChanges
  <2>1. UNCHANGED <<ovf, held>> /\ foreign' >= foreign /\ foreign' \in Nat /\ ~shrunk
    <3>1. ~(shrunk \/ foreign' < foreign)
      BY <1>6 DEF ForeignChanges
    <3>2. UNCHANGED <<ovf, held>> /\ foreign' \in Nat /\ foreign \in Nat
      BY <1>6 DEF ForeignChanges, Types
    <3>3. ~(foreign' < foreign) /\ ~shrunk
      BY <3>1
    <3> QED BY <3>2, <3>3
  <2>2. CountableBytes' = CountableBytes /\ OrphanBytes' = OrphanBytes /\ HeldBytes' = HeldBytes
    BY <1>2, <2>1 DEF CountableBytes, OrphanBytes, Orphans, Weight, HeldBytes
  <2> QED BY <1>0, <1>2, <2>1, <2>2, BytesSum
<1>7. CASE WebSweeps
  BY <1>7 DEF WebSweeps
<1> QED BY <1>3, <1>4, <1>5, <1>6, <1>7 DEF WebStep

-----------------------------------------------------------------------------
(* What is pending and what is owed. *)

LEMMA DropMoves ==
  ASSUME NEW u \in Nat, NEW h \in Nat, NEW u2 \in Nat, NEW h2 \in Nat, NEW o \in Nat, NEW f \in Nat,
         u2 - h2 >= u - h - f, h2 <= h + f
  PROVE  h2 + Less(o, u2) <= h + Less(o, u) + f
BY DEF Less

LEMMA Sum ==
  ASSUME NEW h \in Nat, NEW d \in Nat, NEW n \in Nat, NEW f \in Nat, NEW h2 \in Nat, NEW d2 \in Nat, NEW n2,
         h + d <= n, h2 + d2 <= h + d + f, n2 = n + f
  PROVE  h2 + d2 <= n2
OBVIOUS

\* f bytes go and are noted as pending, or none goes that is not held open.
LEMMA PendingKept ==
  ASSUME Types, HeldBytes + Drop <= pending, observed' = observed,
         HeldBytes' \in Nat, UsedBytes' \in Nat, NEW f \in Nat, pending' = pending + f,
         UsedBytes' - HeldBytes' >= UsedBytes - HeldBytes - f, HeldBytes' <= HeldBytes + f
  PROVE  (HeldBytes + Drop <= pending)'
<1>1. HeldBytes \in Nat /\ UsedBytes \in Nat /\ pending \in Nat
  BY BytesSum DEF Types
<1>2. CASE observed = <<>>
  <2>1. Drop = 0 /\ Drop' = 0
    BY <1>2 DEF Drop
  <2>2. HeldBytes' + Drop' <= HeldBytes + Drop + f
    <3>1. \A h, h2 \in Nat : h2 <= h + f => h2 + 0 <= h + 0 + f
      OBVIOUS
    <3> QED BY <1>1, <2>1, <3>1
  <2>3. Drop \in Nat /\ Drop' \in Nat
    BY <2>1
  <2> QED BY <1>1, <2>2, <2>3, Sum
<1>3. CASE observed # <<>>
  <2>1. /\ Head(observed) \in Nat
        /\ Drop = Less(Head(observed), UsedBytes) /\ Drop' = Less(Head(observed), UsedBytes')
    BY <1>3 DEF Types, Drop, Less
  <2>2. HeldBytes' + Drop' <= HeldBytes + Drop + f
    BY <1>1, <2>1, DropMoves
  <2>3. Drop \in Nat /\ Drop' \in Nat
    BY <1>1, <2>1, LessIsNat
  <2> QED BY <1>1, <2>2, <2>3, Sum
<1> QED BY <1>2, <1>3

\* An observation credits the drop, and not the bytes that are held open.
LEMMA ObservedPending ==
  ASSUME Types, ~Fixed, Observe, tree' = tree, target' = target, HeldBytes + Drop <= pending
  PROVE  HeldBytes <= pending' /\ (HeldBytes + Drop <= pending)' /\ pending' \in Nat
<1>1. HeldBytes \in Nat /\ UsedBytes \in Nat /\ pending \in Nat
  BY BytesSum DEF Types
<1>2. Drop \in Nat
  <2>1. observed # <<>> => Head(observed) \in Nat
    BY DEF Types
  <2> QED BY <1>1, <2>1, LessIsNat DEF Drop
<1>3. pending' = Less(pending, Drop) /\ observed' = <<UsedBytes>>
  BY DEF Observe, Reconciled, Drop
<1>4. pending' = pending - Drop
  BY <1>1, <1>2, <1>3 DEF Less
<1>5. HeldBytes' = HeldBytes /\ UsedBytes' = UsedBytes
  BY DEF tree, HeldBytes, UsedBytes, TreeBytes, CountableBytes, Orphans
<1>6. Drop' = 0
  <2>1. Drop' = Less(UsedBytes, UsedBytes')
    BY <1>3 DEF Drop, Less
  <2> QED BY <1>1, <1>5, <2>1 DEF Less
<1> QED BY <1>1, <1>2, <1>4, <1>5, <1>6

\* The three parts, for the steps that keep shrunk clear.
Owed == pass = "delete" => deficit = 0 \/ TreeBytes(CountableBytes) >= target.limit + deficit
OwedHeld == pass = "delete" => deficit = 0 \/ UsedBytes - HeldBytes >= target.limit + deficit

LEMMA BytesParts ==
  /\ BytesInv <=> (~shrunk => (Fixed => Owed) /\ (~Fixed => HeldBytes + Drop <= pending /\ OwedHeld))
  /\ BytesInv' <=> (~shrunk' => (Fixed' => Owed') /\ (~Fixed' => (HeldBytes + Drop <= pending)' /\ OwedHeld'))
BY DEF BytesInv, Owed, OwedHeld

LEMMA ScanBytes == ASSUME Types, BytesInv, Scan PROVE BytesInv'
<1>1. /\ target' = target /\ tree' = tree /\ shrunk' = shrunk /\ counter' = CountableBytes
      /\ deficit' = Less(Current(counter', pending'), target.limit) /\ Observe
      /\ Fixed' = Fixed
  BY DEF Scan, Fixed
<1>2. /\ TreeBytes(CountableBytes)' = TreeBytes(CountableBytes)
      /\ UsedBytes' = UsedBytes /\ HeldBytes' = HeldBytes
  BY <1>1 DEF tree, HeldBytes, UsedBytes, TreeBytes, CountableBytes, Orphans
<1>3. target.limit \in Nat /\ UsedBytes \in Nat /\ HeldBytes \in Nat /\ TreeBytes(CountableBytes) \in Nat
  BY BytesFacts DEF AllNat
<1>4. CASE Fixed
  <2>1. deficit' = Less(TreeBytes(CountableBytes), target.limit)
    BY <1>1, <1>4 DEF Current
  <2>2. deficit' = 0 \/ TreeBytes(CountableBytes) >= target.limit + deficit'
    BY <1>3, <2>1 DEF Less
  <2>3. Owed'
    BY <1>1, <1>2, <2>2 DEF Owed
  <2> QED BY <1>1, <1>4, <2>3, BytesParts
<1>5. CASE ~Fixed
  <2> SUFFICES ASSUME ~shrunk PROVE (HeldBytes + Drop <= pending)' /\ OwedHeld'
    BY <1>1, <1>5, BytesParts
  <2>1. HeldBytes <= pending' /\ (HeldBytes + Drop <= pending)' /\ pending' \in Nat
    BY <1>1, <1>5, ObservedPending, BytesParts
  <2>2. deficit' = Less(Less(UsedBytes, pending'), target.limit)
    BY <1>1, <1>5 DEF Current
  <2>3. deficit' = 0 \/ UsedBytes - HeldBytes >= target.limit + deficit'
    BY <1>3, <2>1, <2>2 DEF Less
  <2> QED BY <1>1, <1>2, <2>1, <2>3 DEF OwedHeld
<1> QED BY <1>4, <1>5

LEMMA RemoveBytes ==
  ASSUME Types, Unlinked, PlanInv, BytesInv, RemoveOne
  PROVE  BytesInv'
<1>1. PICK v \in plan : First(v) /\ Unlink(v) /\ pending' = AddPending(Freed(v)) /\ deficit' = Less(deficit, Freed(v))
  BY DEF RemoveOne
<1>2. /\ UNCHANGED <<target, observed, pass, shrunk>> /\ Fixed' = Fixed /\ pass = "delete" /\ deficit \in Nat /\ deficit > 0
  BY DEF RemoveOne, Fixed, Types
<1>3. /\ Freed(v) \in Nat
      /\ TreeBytes(CountableBytes)' >= TreeBytes(CountableBytes) - Freed(v)
      /\ (UsedBytes - HeldBytes)' = UsedBytes - HeldBytes - Freed(v)
      /\ (UsedBytes' = UsedBytes - Freed(v) /\ HeldBytes' = HeldBytes)
         \/ (UsedBytes' = UsedBytes - Freed(v) + PgmBytes /\ HeldBytes' = HeldBytes + PgmBytes /\ PgmBytes <= Freed(v))
  BY <1>1, UnlinkBytes
<1>4. /\ target.limit \in Nat /\ UsedBytes \in Nat /\ HeldBytes \in Nat /\ TreeBytes(CountableBytes) \in Nat
      /\ pending \in Nat
  BY BytesFacts DEF AllNat
<1>5. TreeBytes(CountableBytes)' \in Nat /\ UsedBytes' \in Nat /\ HeldBytes' \in Nat
  <2>1. Types'
    BY TypesStep DEF Next, Rotate
  <2> QED BY <2>1, BytesFactsNext DEF AllNat
<1>6. ASSUME Fixed, ~shrunk PROVE Owed'
  <2>1. TreeBytes(CountableBytes) >= target.limit + deficit
    BY <1>2, <1>6, BytesParts DEF Owed
  <2>2. deficit' = 0 \/ TreeBytes(CountableBytes)' >= target.limit + deficit'
    BY <1>1, <1>2, <1>3, <1>4, <1>5, <2>1 DEF Less
  <2> QED BY <1>2, <2>2 DEF Owed
<1>7. ASSUME ~Fixed, ~shrunk PROVE (HeldBytes + Drop <= pending)' /\ OwedHeld'
  <2>1. UsedBytes - HeldBytes >= target.limit + deficit /\ HeldBytes + Drop <= pending
    BY <1>2, <1>7, BytesParts DEF OwedHeld
  <2>2. deficit' = 0 \/ UsedBytes' - HeldBytes' >= target.limit + deficit'
    BY <1>1, <1>2, <1>3, <1>4, <1>5, <2>1 DEF Less
  <2>3. pending' = pending + Freed(v)
    BY <1>1, <1>7 DEF AddPending
  <2>4. HeldBytes' <= HeldBytes + Freed(v) /\ UsedBytes' - HeldBytes' >= UsedBytes - HeldBytes - Freed(v)
    BY <1>3, <1>4, <1>5
  <2>5. (HeldBytes + Drop <= pending)'
    BY <1>2, <1>3, <1>5, <2>1, <2>3, <2>4, PendingKept
  <2> QED BY <1>2, <2>2, <2>5 DEF OwedHeld
<1> QED BY <1>2, <1>6, <1>7, BytesParts

LEMMA BytesStep ==
  ASSUME Types, HistoryIsRecent, Unlinked, PlanInv, BytesInv, [Next]_vars
  PROVE  BytesInv'
<1>0. AllNat /\ AllNat'
  BY BytesFacts, BytesFactsNext, TypesStep
<1>1. CASE QuietStep
  <2>1. /\ UNCHANGED <<target, last, pgm, ovf, temps, evidence, journal, foreign, held, pending, observed>>
        /\ pass' = "delete" => UNCHANGED <<plan, deficit, shrunk>>
        /\ (~shrunk' => ~shrunk \/ Fixed) /\ pass' \in {"idle", "check", pass}
    BY <1>1, QuietEffect
  <2>2. /\ TreeBytes(CountableBytes)' = TreeBytes(CountableBytes)
        /\ UsedBytes' = UsedBytes /\ HeldBytes' = HeldBytes /\ Drop' = Drop /\ Fixed' = Fixed
    BY <2>1 DEF HeldBytes, UsedBytes, TreeBytes, CountableBytes, Orphans, Drop, Fixed, Less
  <2>3. ASSUME Fixed, ~shrunk' PROVE Owed'
    <3> SUFFICES ASSUME pass' = "delete" PROVE Owed'
      BY DEF Owed
    <3>1. pass = "delete" /\ deficit' = deficit /\ ~shrunk
      BY <2>1, <2>3
    <3>2. Owed
      BY <2>3, <3>1, BytesParts
    <3> QED BY <2>1, <2>2, <3>1, <3>2 DEF Owed
  <2>4. ASSUME ~Fixed, ~shrunk' PROVE (HeldBytes + Drop <= pending)' /\ OwedHeld'
    <3>1. HeldBytes + Drop <= pending /\ OwedHeld
      BY <2>1, <2>4, BytesParts
    <3> QED BY <2>1, <2>2, <3>1 DEF OwedHeld
  <2> QED BY <2>2, <2>3, <2>4, BytesParts
<1>2. CASE WebStep
  <2> SUFFICES ASSUME ~shrunk' PROVE BytesInv'
    BY BytesParts
  <2>1. /\ TreeBytes(CountableBytes)' >= TreeBytes(CountableBytes)
        /\ (UsedBytes - HeldBytes)' >= UsedBytes - HeldBytes
        /\ HeldBytes' <= HeldBytes /\ HeldBytes' \in Nat /\ UsedBytes' \in Nat /\ ~shrunk
    BY <1>2, WebBytes
  <2>2. UNCHANGED <<target, pass, deficit, pending, observed>> /\ Fixed' = Fixed /\ deficit \in Nat
    BY <1>2, WebEffect DEF rotation, Fixed, Types
  <2>5. UsedBytes' - HeldBytes' >= UsedBytes - HeldBytes
    BY <2>1
  <2>6. UsedBytes \in Nat /\ HeldBytes \in Nat /\ target.limit \in Nat /\ pending \in Nat
    BY <1>0 DEF AllNat
  <2>3. ASSUME Fixed PROVE Owed'
    <3>1. Owed
      BY <2>1, <2>3, BytesParts
    <3> QED BY <1>0, <2>1, <2>2, <3>1 DEF Owed, AllNat
  <2>4. ASSUME ~Fixed PROVE (HeldBytes + Drop <= pending)' /\ OwedHeld'
    <3>1. HeldBytes + Drop <= pending /\ OwedHeld
      BY <2>1, <2>4, BytesParts
    <3>2. OwedHeld'
      <4> SUFFICES ASSUME pass' = "delete" PROVE deficit' = 0 \/ UsedBytes' - HeldBytes' >= target'.limit + deficit'
        BY DEF OwedHeld
      <4>1. deficit = 0 \/ UsedBytes - HeldBytes >= target.limit + deficit
        BY <2>2, <3>1 DEF OwedHeld
      <4>2. HeldBytes' \in Nat /\ UsedBytes' \in Nat
        BY <2>1
      <4>3. deficit' = deficit /\ target'.limit = target.limit /\ deficit \in Nat
        BY <2>2
      <4>4. \A u, h, u2, h2, n \in Nat : u2 - h2 >= u - h /\ u - h >= n => u2 - h2 >= n
        OBVIOUS
      <4>5. target.limit + deficit \in Nat
        BY <2>6, <4>3
      <4>6. deficit = 0 \/ UsedBytes' - HeldBytes' >= target.limit + deficit
        BY <2>5, <2>6, <4>1, <4>2, <4>4, <4>5
      <4> QED BY <4>3, <4>6
    <3>3. /\ 0 \in Nat /\ pending' = pending + 0 /\ HeldBytes' <= HeldBytes + 0
          /\ UsedBytes' - HeldBytes' >= UsedBytes - HeldBytes - 0
      <4>1. pending' = pending + 0
        BY <2>2, <2>6
      <4>2. HeldBytes' <= HeldBytes + 0
        BY <2>1, <2>6
      <4>3. UsedBytes' - HeldBytes' >= UsedBytes - HeldBytes - 0
        BY <2>5, <2>6
      <4> QED BY <4>1, <4>2, <4>3
    <3>4. (HeldBytes + Drop <= pending)'
      BY <2>1, <2>2, <3>1, <3>3, PendingKept
    <3> QED BY <3>2, <3>4
  <2> QED BY <2>2, <2>3, <2>4, BytesParts
<1>3. CASE Append1 \/ Seal
  <2>1. pass' # "delete" /\ UNCHANGED <<target, pending, observed>> /\ Fixed' = Fixed
    BY <1>3 DEF Append1, Seal, Idle, Enter, rotation, Fixed
  <2>2. Owed' /\ OwedHeld'
    BY <2>1 DEF Owed, OwedHeld
  <2>3. ASSUME ~Fixed, ~shrunk' PROVE ~shrunk /\ HeldBytes' = HeldBytes /\ UsedBytes' >= UsedBytes
    <3>0. UsedBytes' = CountableBytes' + journal' + evidence' + OrphanBytes' + HeldBytes' + foreign'
      BY DEF UsedBytes, TreeBytes, OrphanBytes, Weight
    <3>1. CASE Append1
      <4>1. UNCHANGED <<pgm, ovf, temps, evidence, foreign, held, shrunk>> /\ journal' = journal + 1
        BY <3>1 DEF Append1
      <4>2. CountableBytes' = CountableBytes /\ OrphanBytes' = OrphanBytes /\ HeldBytes' = HeldBytes
        BY <4>1 DEF CountableBytes, OrphanBytes, Orphans, Weight, HeldBytes
      <4> QED BY <2>3, <3>0, <4>1, <4>2, BytesSum
    <3>2. CASE Seal
      <4>1. /\ pgm' = pgm \cup {last + 1} /\ journal' = 0 /\ UNCHANGED <<ovf, temps, evidence, foreign, held>>
            /\ shrunk' = (journal > PgmBytes \/ (shrunk /\ ~Fixed))
        BY <3>2 DEF Seal, Excused
      <4>2. ~(journal > PgmBytes) /\ ~shrunk
        BY <2>3, <4>1
      <4>3. last + 1 \notin pgm /\ last + 1 \notin ovf
        BY DEF Types
      <4>4. (ovf \cap pgm)' = ovf \cap pgm /\ Orphans' = Orphans
        BY <4>1, <4>3 DEF Orphans
      <4>5. OrphanBytes' = OrphanBytes /\ HeldBytes' = HeldBytes
        BY <4>1, <4>4 DEF OrphanBytes, Weight, HeldBytes
      <4>6. CountableBytes' = CountableBytes + PgmBytes
        <5>1. IsFiniteSet(pgm)
          BY SegmentsFinite DEF Types
        <5>2. Weight(PgmBytes, pgm \cup {last + 1}) = Weight(PgmBytes, pgm) + PgmBytes
          BY <4>3, <5>1, WeightOfMore
        <5>3. /\ CountableBytes = Weight(PgmBytes, pgm) + Weight(OvfBytes, ovf \cap pgm) + temps
              /\ CountableBytes' = Weight(PgmBytes, pgm \cup {last + 1}) + Weight(OvfBytes, ovf \cap pgm) + temps
          BY <4>1, <4>4 DEF CountableBytes, Weight
        <5>4. Weight(PgmBytes, pgm) \in Nat /\ Weight(OvfBytes, ovf \cap pgm) \in Nat /\ temps \in Nat
          BY BytesAreNat DEF Types
        <5> QED BY <5>2, <5>3, <5>4
      <4> QED BY <3>0, <4>1, <4>2, <4>5, <4>6, BytesSum
    <3> QED BY <1>3, <3>1, <3>2
  <2>4. ASSUME ~Fixed, ~shrunk' PROVE (HeldBytes + Drop <= pending)'
    <3>1. ~shrunk /\ HeldBytes' = HeldBytes /\ UsedBytes' >= UsedBytes
      BY <2>3, <2>4
    <3>2. HeldBytes + Drop <= pending
      BY <2>4, <3>1, BytesParts
    <3>3. /\ 0 \in Nat /\ pending' = pending + 0 /\ HeldBytes' <= HeldBytes + 0
          /\ UsedBytes' - HeldBytes' >= UsedBytes - HeldBytes - 0
      BY <1>0, <2>1, <3>1 DEF AllNat
    <3>4. HeldBytes' \in Nat /\ UsedBytes' \in Nat
      BY <1>0 DEF AllNat
    <3> QED BY <2>1, <3>2, <3>3, <3>4, PendingKept
  <2> QED BY <2>1, <2>2, <2>4, BytesParts
<1>4. CASE Restart
  <2>1. shrunk' = TRUE
    BY <1>4 DEF Restart
  <2> QED BY <2>1, BytesParts
<1>5. CASE Check
  <2>1. /\ UNCHANGED <<target, tree, shrunk>> /\ Observe /\ pass' # "delete" /\ Fixed' = Fixed
    BY <1>5 DEF Check, Fixed
  <2>2. Owed' /\ OwedHeld'
    BY <2>1 DEF Owed, OwedHeld
  <2>3. ASSUME ~Fixed, ~shrunk' PROVE (HeldBytes + Drop <= pending)'
    BY <2>1, <2>3, ObservedPending, BytesParts
  <2> QED BY <2>1, <2>2, <2>3, BytesParts
<1>6. CASE Scan
  BY <1>6, ScanBytes
<1>7. CASE RemoveOne
  BY <1>7, RemoveBytes
<1>8. CASE RemoveFails
  <2>1. /\ UNCHANGED <<target, journal, foreign, pending, observed>>
        /\ pass' = "idle" /\ Fixed' = Fixed
        /\ shrunk' = TRUE \/ UNCHANGED <<pgm, ovf, temps, evidence, held, shrunk>>
    <3>1. /\ UNCHANGED <<target, journal, foreign, pending, observed>>
          /\ pass' = "idle" /\ Fixed' = Fixed
      BY <1>8 DEF RemoveFails, Aborts, Fixed
    <3>2. PICK v \in plan : FailsAt(v)
      BY <1>8 DEF RemoveFails
    <3>3. shrunk' = TRUE \/ UNCHANGED <<pgm, ovf, temps, evidence, held, shrunk>>
      BY <3>2 DEF FailsAt
    <3> QED BY <3>1, <3>3
  <2>2. Owed' /\ OwedHeld'
    BY <2>1 DEF Owed, OwedHeld
  <2>3. ASSUME ~Fixed, ~shrunk' PROVE (HeldBytes + Drop <= pending)'
    <3>1. UNCHANGED <<pgm, ovf, temps, evidence, held, shrunk>>
      BY <2>1, <2>3
    <3>2. HeldBytes' = HeldBytes /\ UsedBytes' = UsedBytes /\ Drop' = Drop /\ ~shrunk
      BY <2>1, <2>3, <3>1 DEF HeldBytes, UsedBytes, TreeBytes, CountableBytes, Orphans, Drop, Less
    <3>3. HeldBytes + Drop <= pending
      BY <2>3, <3>2, BytesParts
    <3> QED BY <2>1, <3>2, <3>3
  <2> QED BY <2>1, <2>2, <2>3, BytesParts
<1>9. CASE UNCHANGED vars
  <2>1. /\ UNCHANGED <<target, last, pgm, ovf, temps, evidence, journal, foreign, held>>
        /\ UNCHANGED <<pending, observed, pass, deficit, shrunk>>
    BY <1>9 DEF vars, tree, rotation
  <2> QED BY <2>1 DEF BytesInv, HeldBytes, UsedBytes, TreeBytes, CountableBytes, Orphans, Drop, Less, Fixed
<1> QED BY <1>1, <1>2, <1>3, <1>4, <1>5, <1>6, <1>7, <1>8, <1>9, StepKinds

-----------------------------------------------------------------------------
(* The theorems. *)

LEMMA RetentionInit == Init => RetentionInv
<1> SUFFICES ASSUME Init PROVE RetentionInv
  OBVIOUS
<1>1. last = 1 /\ pgm = {1} /\ held = {} /\ pass = "idle" /\ observed = <<>> /\ pending = 0
  BY DEF Init
<1>2. HistoryIsRecent /\ Unlinked /\ PlanInv
  BY <1>1 DEF HistoryIsRecent, Unlinked, PlanInv
<1>3. BytesInv
  <2>1. HeldBytes = 0 /\ Drop = 0
    <3>1. Cardinality(held) = 0
      BY <1>1, FS_EmptySet
    <3> QED BY <1>1, <3>1, Products DEF HeldBytes, Drop
  <2> QED BY <1>1, <2>1 DEF BytesInv
<1> QED BY <1>2, <1>3, TypesInit DEF RetentionInv

\* The inductive invariant: types, history, the plan of the pass against the
\* tree, and the bytes pending and owed.
THEOREM RetentionInductive == Spec => []RetentionInv
<1>1. RetentionInv /\ [Next]_vars => RetentionInv'
  BY TypesStep, HistoryStep, PlanStep, BytesStep DEF RetentionInv
<1> QED BY <1>1, RetentionInit, PTL DEF Spec

\* The collector's figures and the tree stay in their types.
THEOREM TypesHold == Spec => []TypeOK
<1>1. RetentionInv => TypeOK
  BY DEF RetentionInv, Types, Passes, TypeOK
<1> QED BY <1>1, RetentionInductive, PTL

\* HistoryIsRecent: whatever scans, removals and processes fail, history is cut
\* from its old end only and the newest segment stays.
THEOREM HistoryKept == Spec => []HistoryIsRecent
<1>1. RetentionInv => HistoryIsRecent
  BY DEF RetentionInv
<1> QED BY <1>1, RetentionInductive, PTL

\* A segment goes only in a pass that has a deficit left.
LEMMA DeletesInDeficit ==
  ASSUME RetentionInv, [Next]_vars, ~shrunk, pgm' \ pgm = {}, pgm' # pgm
  PROVE  (IF Fixed THEN TreeBytes(CountableBytes) ELSE UsedBytes - HeldBytes) > target.limit
<1>1. Types /\ HistoryIsRecent /\ PlanInv /\ BytesInv
  BY DEF RetentionInv
<1>2. ~Seal
  BY <1>1 DEF Seal, Types
<1>3. RemoveOne \/ RemoveFails
  BY <1>1, <1>2, SegmentSteps
<1>4. pass = "delete" /\ deficit > 0
  BY <1>3 DEF RemoveOne, RemoveFails
<1>5. AllNat /\ deficit \in Nat
  BY <1>1, BytesFacts DEF Types
<1> QED BY <1>1, <1>4, <1>5 DEF BytesInv, AllNat

\* NoExtraHistory: files held open, orphans on the way and sidecars the counter
\* has missed never make a pass delete a segment it need not.
THEOREM NoExtraDeletion == Spec => NoExtraHistory
<1>1. RetentionInv /\ [Next]_vars =>
        [~shrunk /\ pgm' \ pgm = {} /\ pgm' # pgm =>
           (IF Fixed THEN TreeBytes(CountableBytes) ELSE UsedBytes - HeldBytes) > target.limit]_vars
  BY DeletesInDeficit
<1> QED BY <1>1, RetentionInductive, PTL DEF Spec, NoExtraHistory
=============================================================================
