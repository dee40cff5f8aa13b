------------------------------ MODULE Retention ------------------------------
(***************************************************************************)
(* Storage rotation of the collector: an incremental size counter, an      *)
(* enforcement pass that scans and deletes the oldest replaceable data     *)
(* (bins/pg_kronika-collector/src/rotation.rs, run_rotation of main.rs and *)
(* the removals of kronika-layout/src/root.rs), beside the web process,    *)
(* which adds and removes sidecars in the same tree, and readers that keep *)
(* unlinked files open.                                                    *)
(*                                                                         *)
(* Segments are numbered in the order of their SegmentIds.  The journal,   *)
(* a temporary, an evidence object and foreign files count units of one    *)
(* byte.  The collector is one thread: nothing of it runs inside a pass.   *)
(***************************************************************************)
EXTENDS Naturals, FiniteSets, Sequences

CONSTANTS
  Targets,    \* RetentionConfig: mode and limit (for auto, the bytes of the percentage)
  PgmBytes,   \* the size of a segment
  OvfBytes,   \* the size of a sidecar
  MaxSegments, MaxJournal, MaxForeign, \* bounds on growth
  MaxFaults,  \* bound: failed scans and removals, uncounted publications, restarts
  MaxSweeps   \* bound: sidecars the web process collects

ASSUME TargetsAssumption == Targets \subseteq [mode : {"fixed", "auto"}, limit : Nat]
ASSUME SizesAssumption ==
  /\ PgmBytes \in Nat \ {0} /\ OvfBytes \in Nat /\ MaxSegments # 0
  /\ {MaxSegments, MaxJournal, MaxForeign, MaxFaults, MaxSweeps} \subseteq Nat

VARIABLES
  target,    \* Rotation::config
  \* the tree and its partition
  last,      \* the newest segment ever published
  pgm, ovf,  \* the segments and sidecars in the tree
  temps,     \* stale writer temporaries
  evidence,  \* quarantined objects
  journal,   \* bytes of active.parts
  foreign,   \* bytes of others on the partition
  held,      \* unlinked segments a reader still has open
  checked,   \* the segment whose sidecar the web process is about to rename, or 0
  \* Rotation
  counter,   \* non_journal_bytes
  pending,   \* pending_reclaim
  observed,  \* last_observed_used, or <<>>
  recount,   \* RECOUNT_PERIOD has passed since last_recount
  pass,      \* where enforce is
  plan,      \* the victims left
  deficit,   \* what the pass has still to free
  \* bookkeeping of the properties and bounds
  shrunk,    \* used bytes have dropped by something else than a counted removal
  faults, sweeps

tree == <<last, pgm, ovf, temps, evidence, journal, foreign, held, checked>>
rotation == <<counter, pending, observed, recount, pass, plan, deficit>>
vars == <<target, tree, rotation, shrunk, faults, sweeps>>

Fixed == target.mode = "fixed"
Idle == pass = "idle"
Less(n, m) == IF m > n THEN 0 ELSE n - m  \* saturating_sub
Fault == faults < MaxFaults /\ faults' = faults + 1

-----------------------------------------------------------------------------
(* Sizes. *)

Orphans == ovf \ pgm
\* countable_bytes: what a scan gives a size for.
CountableBytes ==
  PgmBytes * Cardinality(pgm) + OvfBytes * Cardinality(ovf \cap pgm) + temps
TreeBytes(n) == n + journal + evidence
HeldBytes == PgmBytes * Cardinality(held)
\* What statvfs shows.
UsedBytes ==
  TreeBytes(CountableBytes) + OvfBytes * Cardinality(Orphans) + HeldBytes + foreign

\* reconcile_pending_reclaim: an observed drop is credited to the removals.
Reconciled ==
  Less(pending, IF observed = <<>> THEN 0 ELSE Less(Head(observed), UsedBytes))

\* Rotation::target, with counter n and pending reclaim p.
Current(n, p) == IF Fixed THEN TreeBytes(n) ELSE Less(UsedBytes, p)
Observe ==
  IF Fixed THEN UNCHANGED <<pending, observed>>
           ELSE pending' = Reconciled /\ observed' = <<UsedBytes>>

-----------------------------------------------------------------------------
(* The tree before and beside a pass. *)

Init ==
  /\ target \in Targets
  /\ last = 1 /\ pgm = {1} /\ ovf = {} /\ temps = 0 /\ evidence = 0
  /\ journal = 0 /\ foreign = 0 /\ held = {} /\ checked = 0
  /\ counter = PgmBytes /\ pending = 0 /\ observed = <<>> /\ recount = FALSE
  /\ pass = "idle" /\ plan = {} /\ deficit = 0
  /\ shrunk = FALSE /\ faults = 0 /\ sweeps = 0

\* A new pass looks at the tree afresh; what auto remembers it remembers for good.
Enter == pass' = "check" /\ UNCHANGED <<plan, deficit>>
Excused(now) == shrunk' = (now \/ (shrunk /\ ~Fixed))

Append1 ==
  /\ Idle /\ journal < MaxJournal
  /\ journal' = journal + 1
  /\ UNCHANGED <<target, last, pgm, ovf, temps, evidence, foreign, held, checked,
                 rotation, shrunk, faults, sweeps>>

\* A seal and run_rotation: the publication is counted unless its size cannot
\* be read or the seal failed behind its link.
Seal ==
  /\ Idle /\ journal > 0 /\ last < MaxSegments
  /\ last' = last + 1 /\ pgm' = pgm \cup {last + 1} /\ journal' = 0
  /\ \/ counter' = counter + PgmBytes /\ UNCHANGED faults
     \/ counter' = counter /\ Fault
  /\ Enter /\ Excused(journal > PgmBytes)
  /\ UNCHANGED <<target, ovf, temps, evidence, foreign, held, checked,
                 pending, observed, recount, sweeps>>

\* The tick of run_rotation comes due.
Tick ==
  /\ Idle /\ Enter /\ Excused(FALSE)
  /\ UNCHANGED <<target, tree, counter, pending, observed, recount, faults, sweeps>>

Hour ==
  /\ Fixed /\ ~recount /\ recount' = TRUE
  /\ UNCHANGED <<target, tree, counter, pending, observed, pass, plan, deficit,
                 shrunk, faults, sweeps>>

\* The process ends and Rotation::new seeds the counter again.  A crash may
\* leave a temporary, and recovery may put a journal into quarantine.
Restart ==
  /\ Fault
  /\ \E t, e \in 0..1 : temps' = temps + t /\ evidence' = evidence + e
  /\ counter' = CountableBytes + temps' - temps
  /\ pending' = 0 /\ observed' = <<>> /\ recount' = FALSE
  /\ pass' = "idle" /\ plan' = {} /\ deficit' = 0
  /\ shrunk' = TRUE
  /\ UNCHANGED <<target, last, pgm, ovf, journal, foreign, held, checked, sweeps>>

\* The web process: OvfTemp::publish opens the PGM once more, then renames.
WebChecks ==
  /\ checked = 0 /\ \E s \in pgm \ ovf : checked' = s
  /\ UNCHANGED <<target, last, pgm, ovf, temps, evidence, journal, foreign, held,
                 rotation, shrunk, faults, sweeps>>
WebRenames ==
  /\ checked # 0 /\ checked' = 0 /\ ovf' = ovf \cup {checked}
  /\ UNCHANGED <<target, last, pgm, temps, evidence, journal, foreign, held,
                 rotation, shrunk, faults, sweeps>>
\* Its sweep of sidecars, orphans included.
WebSweeps ==
  /\ sweeps < MaxSweeps /\ sweeps' = sweeps + 1
  /\ \E s \in ovf : ovf' = ovf \ {s}
  /\ shrunk' = TRUE
  /\ UNCHANGED <<target, last, pgm, temps, evidence, journal, foreign, held, checked,
                 rotation, faults>>

\* Only statvfs sees who holds a file and what others write.
Holding(s) == IF Fixed THEN {held} ELSE {held, held \cup {s}}
ReaderCloses ==
  /\ \E s \in held : held' = held \ {s}
  /\ UNCHANGED <<target, last, pgm, ovf, temps, evidence, journal, foreign, checked,
                 rotation, shrunk, faults, sweeps>>
ForeignChanges ==
  /\ ~Fixed /\ foreign' \in 0..MaxForeign /\ foreign' # foreign
  /\ shrunk' = (shrunk \/ foreign' < foreign)
  /\ UNCHANGED <<target, last, pgm, ovf, temps, evidence, journal, held, checked,
                 rotation, faults, sweeps>>

-----------------------------------------------------------------------------
(* enforce. *)

\* (broken) The counter alone decides when to scan.
NeverRecounts == FALSE
RecountDue == Fixed /\ recount

\* The check that needs no scan.
Check ==
  /\ pass = "check" /\ Observe
  /\ pass' = IF Current(counter, pending') > target.limit \/ RecountDue
             THEN "scan" ELSE "idle"
  /\ UNCHANGED <<target, tree, counter, recount, plan, deficit, shrunk, faults, sweeps>>

Rank == [temporary |-> 1, orphan |-> 2, evidence |-> 3, segment |-> 4]
Victim(k, S) == {[kind |-> k, id |-> s] : s \in S}
\* (broken) Every segment of the scan is a candidate.
NewestToo ==
  Victim("temporary", 1..temps) \cup Victim("orphan", Orphans)
    \cup Victim("evidence", 1..evidence) \cup Victim("segment", pgm)
\* plan_victims; the newest segment of the scan is no candidate.
Victims ==
  Victim("temporary", 1..temps) \cup Victim("orphan", Orphans)
    \cup Victim("evidence", 1..evidence)
    \cup Victim("segment", pgm \ {s \in pgm : \A r \in pgm : r <= s})
\* The order of the plan: by kind, and oldest first.
First(v) ==
  /\ v \in plan
  /\ \A w \in plan : \/ Rank[v.kind] < Rank[w.kind]
                     \/ v.kind = w.kind /\ v.id <= w.id

\* The scan is fresh truth for the counter; the deficit is taken once.
Scan ==
  /\ pass = "scan" /\ Observe
  /\ counter' = CountableBytes /\ recount' = FALSE
  /\ deficit' = Less(Current(counter', pending'), target.limit)
  /\ IF deficit' = 0 THEN pass' = "idle" /\ plan' = {}
                     ELSE pass' = "delete" /\ plan' = Victims
  /\ UNCHANGED <<target, tree, shrunk, faults, sweeps>>

\* scan_quarantine, statvfs or the scan fails and ends the pass.
PassFails ==
  /\ pass \in {"check", "scan"} /\ Fault /\ pass' = "idle"
  /\ UNCHANGED <<target, tree, counter, pending, observed, recount, plan, deficit,
                 shrunk, sweeps>>

Freed(v) ==
  IF v.kind = "segment" THEN PgmBytes + (IF v.id \in ovf THEN OvfBytes ELSE 0)
  ELSE IF v.kind = "orphan" THEN (IF v.id \in ovf THEN OvfBytes ELSE 0) ELSE 1

\* remove_victim: what its unlinks do to the tree.  A reader may have the
\* segment open.
Unlink(v) ==
  /\ temps' = IF v.kind = "temporary" THEN temps - 1 ELSE temps
  /\ evidence' = IF v.kind = "evidence" THEN evidence - 1 ELSE evidence
  /\ ovf' = IF v.kind \in {"segment", "orphan"} THEN ovf \ {v.id} ELSE ovf
  /\ \/ v.kind = "segment" /\ pgm' = pgm \ {v.id} /\ held' \in Holding(v.id)
     \/ v.kind # "segment" /\ UNCHANGED <<pgm, held>>

\* Orphans and evidence are not in the counter.
CountedInTree(v) == v.kind \in {"temporary", "segment"}
\* (broken) Removals are left to statvfs.
NothingPending(n) == pending
AddPending(n) == IF Fixed THEN pending ELSE pending + n

\* One turn of the loop over the victims.
RemoveOne ==
  /\ pass = "delete" /\ deficit > 0
  /\ \E v \in plan :
       /\ First(v) /\ Unlink(v) /\ plan' = plan \ {v}
       /\ counter' = IF CountedInTree(v) THEN Less(counter, Freed(v)) ELSE counter
       /\ pending' = AddPending(Freed(v))
       /\ deficit' = Less(deficit, Freed(v))
  /\ UNCHANGED <<target, last, journal, foreign, checked, observed, recount, pass,
                 shrunk, faults, sweeps>>

\* The first removal error ends the pass.
Aborts == pass' = "idle" /\ plan' = {} /\ deficit' = 0

\* A removal fails at its first unlink, between the two of a segment, or behind
\* them all, where the directory is synced and pruned.  What is gone is then gone
\* without being counted or pending.
FailsAt(v) ==
  \/ UNCHANGED <<pgm, ovf, temps, evidence, held, shrunk>>
  \/ /\ v.kind = "segment" /\ pgm' = pgm \ {v.id} /\ held' \in Holding(v.id)
     /\ shrunk' = TRUE /\ UNCHANGED <<ovf, temps, evidence>>
  \/ Unlink(v) /\ shrunk' = TRUE

RemoveFails ==
  /\ pass = "delete" /\ deficit > 0 /\ Fault
  /\ \E v \in plan : First(v) /\ FailsAt(v)
  /\ Aborts
  /\ UNCHANGED <<target, last, journal, foreign, checked, counter, pending, observed, recount, sweeps>>

PassEnds ==
  /\ pass = "delete" /\ (deficit = 0 \/ plan = {})
  /\ pass' = "idle" /\ plan' = {} /\ deficit' = 0
  /\ UNCHANGED <<target, tree, counter, pending, observed, recount, shrunk, faults, sweeps>>

-----------------------------------------------------------------------------
Rotate == Tick \/ Check \/ Scan \/ RemoveOne \/ PassEnds

Next ==
  \/ Rotate \/ Append1 \/ Seal \/ Hour \/ Restart \/ PassFails \/ RemoveFails
  \/ WebChecks \/ WebRenames \/ WebSweeps \/ ReaderCloses \/ ForeignChanges

\* The main loop comes back to run_rotation, and an hour passes.
Spec == Init /\ [][Next]_vars /\ WF_vars(Rotate) /\ WF_vars(Hour)

-----------------------------------------------------------------------------
(* Properties. *)

TypeOK ==
  /\ target \in Targets /\ last \in 1..MaxSegments
  /\ pgm \subseteq 1..last /\ ovf \subseteq 1..last /\ held \subseteq 1..last
  /\ {temps, evidence, journal, foreign, counter, pending, deficit, faults, sweeps} \subseteq Nat
  /\ checked \in 0..last /\ recount \in BOOLEAN /\ shrunk \in BOOLEAN
  /\ pass \in {"idle", "check", "scan", "delete"}

\* History is cut from its old end only and never loses the newest segment,
\* whatever scans, removals and processes fail.
HistoryIsRecent ==
  /\ last \in pgm
  /\ \A s \in 1..last : \A r \in pgm : r < s => s \in pgm

\* A segment is deleted only while the bytes that remain once every reader
\* has closed are over the limit: neither files held open, nor sidecars the
\* counter has missed, nor orphans removed on the way make a pass delete
\* history it need not.  Drops the code cannot tell from its own are excused:
\* those others cause, and those of its own removals that failed behind an unlink.
NoExtraHistory ==
  [][~shrunk /\ pgm' \ pgm = {} /\ pgm' # pgm =>
       (IF Fixed THEN TreeBytes(CountableBytes) ELSE UsedBytes - HeldBytes) > target.limit]_vars

\* What the comment of reconcile_pending_reclaim says, with nothing excused: a
\* scan finds bytes to free only when more than the limit stays in use once
\* every reader has closed.
ForeignDropNeverDeletesMore ==
  [][pass = "scan" /\ pass' = "delete" => UsedBytes - HeldBytes > target.limit]_vars

\* Once nothing grows any more a byte budget is met, or only the minimum is
\* left, although sidecars, orphans, failed publications and failed removals
\* leave the counter wrong.
BudgetIsMet ==
  <>[](Fixed => \/ TreeBytes(CountableBytes) <= target.limit
                \/ Cardinality(pgm) = 1 /\ temps = 0 /\ evidence = 0)
=============================================================================
