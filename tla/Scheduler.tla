------------------------------ MODULE Scheduler ------------------------------
(***************************************************************************)
(* The pacing of the collector's main loop: which sources a tick reads,    *)
(* how long it sleeps, what the database-time budget puts off, and when a  *)
(* segment is closed and its service sources are read again                *)
(* (bins/pg_kronika-collector/src/{scheduler,budget,main,segments}.rs).    *)
(*                                                                         *)
(* Time is counted in seconds.  It passes while the loop sleeps and while  *)
(* a cycle runs; every instant the code keeps is the time since then.      *)
(* What a seal does to the files is module Collector's subject: here it    *)
(* succeeds or fails.  A zero tick (signal-driven collection) is left out. *)
(***************************************************************************)
EXTENDS Naturals

CONSTANTS
  Sources,     \* the SourceKinds of the instance
  Interval,    \* source -> Intervals::of, in seconds
  Fast,        \* accelerated interval of the sources that have a trigger
  OpenSources, \* SEGMENT_OPEN_SOURCES
  Tick,        \* KRONIKA_INTERVAL_S
  MaxAge,      \* KRONIKA_SEGMENT_MAX_AGE_S
  MaxCycle,    \* bound: seconds one collection cycle lasts
  Horizon      \* bound: ages are not told apart from here on

ASSUME SourcesAssumption ==
  /\ Interval \in [Sources -> Nat]
  /\ DOMAIN Fast \subseteq Sources /\ Fast \in [DOMAIN Fast -> Nat]
  /\ OpenSources \subseteq Sources
ASSUME TimesAssumption ==
  /\ Tick \in Nat \ {0} /\ MaxAge \in Nat \ {0} /\ MaxCycle \in Nat
  /\ Horizon \in Nat
  /\ \A s \in Sources : Interval[s] + MaxCycle < Horizon
  /\ MaxAge + MaxCycle < Horizon

VARIABLES
  age,      \* source -> seconds since last_read, Never for None
  fast,     \* sources whose override is set
  starved,  \* PoolBudget::starved
  seg,      \* the open segment
  due,      \* DueSet::kinds of this tick
  forced,   \* DueSet::forced of this tick
  deferred, \* CycleOutcome::deferred
  sealed,   \* CycleOutcome::sealed is not empty
  win,      \* the window in hand
  first,    \* first_timer_tick
  pc,
  \* observation
  busy,     \* seconds the last cycle took
  skipped,  \* sized source -> completed cycles in a row that put it off
  lapsed,   \* a cycle has failed since the last seal
  stuck     \* the last seal failed

pacing == <<age, fast>>
cycle == <<due, forced, deferred, sealed, win>>
vars == <<pacing, starved, seg, cycle, first, pc, busy, skipped, lapsed, stuck>>

Never == Horizon + 1
\* The PoolSources, in the order a cycle reads them.
Rank == [Statements |-> 1, UserTables |-> 2, UserIndexes |-> 3]
SizedSources == Sources \cap DOMAIN Rank
\* What the open segment holds: service sources, and rows of a database cycle.
Closed == [open |-> FALSE, age |-> 0, carries |-> {}]
NoWindow == [carries |-> {}, db |-> FALSE]

-----------------------------------------------------------------------------
(* Time. *)

Later(a, t) == IF a = Never THEN Never ELSE IF a + t > Horizon THEN Horizon ELSE a + t
AgesAfter(t) == [s \in Sources |-> Later(age[s], t)]
SegmentAfter(t) == IF seg.open THEN [seg EXCEPT !.age = Later(@, t)] ELSE seg

Pace(s) == IF s \in fast THEN Fast[s] ELSE Interval[s]
Remaining(limit, a) == IF a >= limit THEN 0 ELSE limit - a

\* (broken) Ignores an accelerated pace.
SourceDelaysAtBase ==
  {Remaining(Interval[s], age[s]) : s \in {x \in Sources : age[x] # Never /\ Pace(x) > 0}}
\* (broken) Counts sources with interval zero.
SourceDelaysOfAll ==
  {Remaining(Pace(s), age[s]) : s \in {x \in Sources : age[x] # Never}}
\* Scheduler::next_elapsed_due_in
SourceDelays ==
  {Remaining(Pace(s), age[s]) : s \in {x \in Sources : age[x] # Never /\ Pace(x) > 0}}

\* SegmentState::time_until_age
SegmentDelays == IF seg.open THEN {Remaining(MaxAge, seg.age)} ELSE {}

\* timer_sleep_delay is the least of these.
Delays == IF first THEN {0} ELSE {Tick} \cup SourceDelays \cup SegmentDelays

-----------------------------------------------------------------------------
(* Planning. *)

Ripe == {s \in Sources : age[s] = Never \/ age[s] >= Pace(s)}

\* Tables and indexes do not share an unforced tick.
IndexesYield ==
  /\ {"UserTables", "UserIndexes"} \subseteq Ripe
  /\ age["UserIndexes"] # Never
  /\ Interval["UserIndexes"] > 0

Planned(f) ==
  IF f THEN Sources ELSE IF IndexesYield THEN Ripe \ {"UserIndexes"} ELSE Ripe

\* Scheduler::defer and mark_segment_opened: the sources come due on the next tick.
Rearmed(a, S) == [s \in Sources |-> IF s \in S THEN Never ELSE a[s]]

\* Every due source is marked read before it is read.
Marked(f) ==
  LET read == [s \in Sources |-> IF f \/ s \in Ripe THEN 0 ELSE age[s]]
  IN IF ~f /\ IndexesYield THEN Rearmed(read, {"UserIndexes"}) ELSE read

\* (broken) A seal leaves the service sources as they are.
NotReread(a) == a
\* The marks mark_segment_opened leaves after a seal.
SegmentReread(a) == Rearmed(a, OpenSources)

-----------------------------------------------------------------------------
(* The budget: n sized sources are asked before the limit is spent, the    *)
(* rest after it.  A zero limit is n = 3.                                  *)

\* (broken) Puts off a source that was put off on the tick before.
PutOffAgain(n) == {s \in SizedSources \cap due : Rank[s] > n /\ ~forced}
\* PoolBudget::admit refuses
PutOff(n) == {s \in SizedSources \cap due : Rank[s] > n /\ ~forced /\ s \notin starved}
StarvedAfter(n) == (starved \ due) \cup PutOff(n)

More(k) == IF k < 3 THEN k + 1 ELSE 3
\* skipped after a completed cycle: read sources start again from zero.
Counted ==
  [s \in SizedSources |-> IF s \in deferred THEN More(skipped[s])
                          ELSE IF s \in due THEN 0 ELSE skipped[s]]

-----------------------------------------------------------------------------
Init ==
  /\ age = [s \in Sources |-> Never]
  /\ fast = {} /\ starved = {}
  /\ seg = Closed
  /\ due = {} /\ forced = FALSE /\ deferred = {} /\ sealed = FALSE /\ win = NoWindow
  /\ first = TRUE
  /\ pc = "sleep"
  /\ busy = 0
  /\ skipped = [s \in SizedSources |-> 0]
  /\ lapsed = FALSE /\ stuck = FALSE

(* The select! of the main loop. *)

\* The timer ends the sleep no later than any delay asks: a signal, rotation's own
\* deadline or the plan cache's may end it earlier.
Sleep ==
  /\ pc = "sleep"
  /\ \E t \in 0..Tick :
       /\ \A x \in Delays : t <= x
       /\ age' = AgesAfter(t) /\ seg' = SegmentAfter(t)
  /\ first' = FALSE
  /\ pc' = "awake"
  /\ UNCHANGED <<fast, starved, cycle, busy, skipped, lapsed, stuck>>

\* sched.plan for a timer wake or, forced, for SIGUSR2
Plan(f) ==
  /\ pc = "awake"
  /\ age' = Marked(f)
  /\ due' = Planned(f)
  /\ forced' = f
  /\ deferred' = {} /\ sealed' = FALSE /\ win' = NoWindow
  /\ skipped' = IF ~f /\ IndexesYield
                THEN [skipped EXCEPT !["UserIndexes"] = More(@)] ELSE skipped
  /\ busy' = 0
  /\ pc' = "valve"
  /\ UNCHANGED <<fast, starved, seg, first, lapsed, stuck>>

-----------------------------------------------------------------------------
(* The age valve, ahead of the cycle. *)

Expired == seg.open /\ seg.age >= MaxAge

\* With nothing due the cycle runs only for the plan cache's own deadline.
EnterCycle == \/ due # {} /\ pc' = "cycle"
              \/ due = {} /\ pc' \in {"cycle", "sleep"}

ValveOpen ==
  /\ pc = "valve" /\ ~Expired
  /\ EnterCycle
  /\ UNCHANGED <<pacing, starved, seg, cycle, first, busy, skipped, lapsed, stuck>>

ValveSeals ==
  /\ pc = "valve" /\ Expired
  /\ seg' = Closed
  /\ age' = SegmentReread(age)
  /\ lapsed' = FALSE /\ stuck' = FALSE
  /\ EnterCycle
  /\ UNCHANGED <<fast, starved, cycle, first, busy, skipped>>

\* A failed seal is logged; the tick goes on.
ValveFails ==
  /\ pc = "valve" /\ Expired
  /\ stuck' = TRUE
  /\ EnterCycle
  /\ UNCHANGED <<pacing, starved, seg, cycle, first, busy, skipped, lapsed>>

-----------------------------------------------------------------------------
(* run_collection_cycle *)

Lasts(d) == age' = AgesAfter(d) /\ seg' = SegmentAfter(d) /\ busy' = d

\* An error leaves the cycle: whatever its outcome held is dropped.
Abandon ==
  /\ lapsed' = TRUE
  /\ skipped' = [s \in SizedSources |-> 0]
  /\ pc' = "sleep"

\* ensure_main fails.  Only a due log source yields a window.
DatabaseDown ==
  /\ pc = "cycle"
  /\ \E d \in 0..MaxCycle : Lasts(d)
  /\ lapsed' = TRUE
  /\ skipped' = [s \in SizedSources |-> 0]
  /\ \/ pc' = "sleep"
     \/ "PgLog" \in due /\ pc' = "store"
  /\ UNCHANGED <<fast, starved, cycle, first, stuck>>

\* An error ahead of the sized sources.
SnapshotFails ==
  /\ pc = "cycle"
  /\ \E d \in 0..MaxCycle : Lasts(d)
  /\ Abandon
  /\ UNCHANGED <<fast, starved, cycle, first, stuck>>

\* The reads, with an error or none in what follows the sized sources.
Snapshot ==
  /\ pc = "cycle"
  /\ \E d \in 0..MaxCycle : Lasts(d)
  /\ \E n \in 0..3 : starved' = StarvedAfter(n) /\ deferred' = PutOff(n)
  /\ win' = [carries |-> due \cap OpenSources, db |-> TRUE]
  /\ \/ pc' = "store" /\ UNCHANGED <<skipped, lapsed>>
     \/ due \cap OpenSources = {} /\ pc' = "report" /\ UNCHANGED <<skipped, lapsed>>
     \/ Abandon
  /\ UNCHANGED <<fast, due, forced, sealed, first, stuck>>

-----------------------------------------------------------------------------
(* append_window_and_maybe_seal *)

\* The admission limit or a full journal closes the open segment first.
EarlySeal ==
  /\ pc = "store" /\ seg.open /\ ~sealed
  /\ \/ /\ seg' = Closed /\ sealed' = TRUE
        /\ lapsed' = ~win.db /\ stuck' = FALSE
        /\ UNCHANGED <<skipped, pc>>
     \/ /\ stuck' = TRUE /\ Abandon
        /\ UNCHANGED <<seg, sealed>>
  /\ UNCHANGED <<pacing, starved, due, forced, deferred, win, first, busy>>

AppendFails ==
  /\ pc = "store"
  /\ Abandon
  /\ UNCHANGED <<pacing, starved, seg, cycle, first, busy, stuck>>

\* on_window_appended: the first window opens the segment.
AppendWindow ==
  /\ pc = "store"
  /\ seg' = [open |-> TRUE, age |-> seg.age,
             carries |-> seg.carries \cup win.carries]
  /\ pc' = "stored"
  /\ UNCHANGED <<pacing, starved, cycle, first, busy, skipped, lapsed, stuck>>

MustSeal == forced \/ Expired

\* seal_reason: forced and age always, a size the model does not count at times.
SealAfterAppend ==
  /\ pc = "stored"
  /\ \/ /\ seg' = Closed /\ sealed' = TRUE
        /\ stuck' = FALSE /\ lapsed' = FALSE
        /\ pc' = "report"
        /\ UNCHANGED skipped
     \/ /\ stuck' = TRUE /\ Abandon
        /\ UNCHANGED <<seg, sealed>>
  /\ UNCHANGED <<pacing, starved, due, forced, deferred, win, first, busy>>

KeepOpen ==
  /\ pc = "stored" /\ ~MustSeal
  /\ pc' = "report"
  /\ UNCHANGED <<pacing, starved, seg, cycle, first, busy, skipped, lapsed, stuck>>

\* apply_trigger_pace for the sources that were read
Paced(hot) == (fast \ due) \cup {s \in hot : Fast[s] < Interval[s]}

\* The outcome reaches the scheduler: pace, deferrals, and the service sources
\* of a segment that opens next.
Report ==
  /\ pc = "report"
  /\ age' = LET put == Rearmed(age, deferred)
            IN IF sealed THEN SegmentReread(put) ELSE put
  /\ IF win.db
     THEN /\ \E hot \in SUBSET (DOMAIN Fast \cap due) : fast' = Paced(hot)
          /\ skipped' = Counted
     ELSE UNCHANGED <<fast, skipped>>
  /\ pc' = "sleep"
  /\ UNCHANGED <<starved, seg, cycle, first, busy, lapsed, stuck>>

Next ==
  \/ Sleep \/ Plan(FALSE) \/ Plan(TRUE)
  \/ ValveOpen \/ ValveSeals \/ ValveFails
  \/ DatabaseDown \/ SnapshotFails \/ Snapshot
  \/ EarlySeal \/ AppendFails \/ AppendWindow \/ SealAfterAppend \/ KeepOpen
  \/ Report

Spec == Init /\ [][Next]_vars

-----------------------------------------------------------------------------
(* Properties. *)

\* Every variable stays in its type.
TypeOK ==
  /\ age \in [Sources -> 0..Never]
  /\ fast \subseteq {s \in DOMAIN Fast : Fast[s] < Interval[s]}
  /\ starved \subseteq SizedSources /\ deferred \subseteq starved \cap due
  /\ seg \in [open : BOOLEAN, age : 0..Horizon, carries : SUBSET OpenSources]
  /\ ~seg.open => seg = Closed
  /\ due \subseteq Sources
  /\ win \in [carries : SUBSET OpenSources, db : BOOLEAN]
  /\ forced \in BOOLEAN /\ sealed \in BOOLEAN /\ first \in BOOLEAN
  /\ lapsed \in BOOLEAN /\ stuck \in BOOLEAN
  /\ pc \in {"sleep", "awake", "valve", "cycle", "store", "stored", "report"}
  /\ busy \in 0..MaxCycle
  /\ skipped \in [SizedSources -> 0..3]

\* The budget and the phase separation of tables and indexes, stacked, put a
\* source off for at most two completed cycles in a row, indexes, and one, the
\* others: "deferral must not become starvation" (budget.rs:54).
NotStarved ==
  \A s \in SizedSources : skipped[s] <= IF s = "UserIndexes" THEN 2 ELSE 1

\* When the loop wakes nothing is overdue by more than the cycle that ran
\* before the sleep, whatever pace is in force: no source that has been read,
\* and no open segment, unless its seals keep failing (main.rs:81,255).
Punctual ==
  pc = "awake" =>
    /\ \A s \in Sources : age[s] # Never /\ Pace(s) > 0 => age[s] <= Pace(s) + MaxCycle
    /\ seg.open /\ ~stuck => seg.age <= MaxAge + MaxCycle

\* The loop never sleeps zero seconds after a tick that took no time: zero
\* intervals, deferred sources and service sources waiting for a fresh segment
\* do not make it spin (scheduler.rs:255).  A failing seal does.
NoSpin ==
  pc = "sleep" /\ ~first /\ busy = 0 /\ ~stuck => 0 \notin Delays

\* Between ticks, a service source the open segment does not carry is due on
\* the next one, unless a cycle failed after the last seal (scheduler.rs:195,
\* main.rs:491): whichever of the five kinds of seal closed the last segment.
MissingIsRearmed ==
  pc = "sleep" /\ seg.open /\ ~lapsed =>
    \A s \in OpenSources \ seg.carries : age[s] = Never

=============================================================================
