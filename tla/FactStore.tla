------------------------------ MODULE FactStore ------------------------------
(***************************************************************************)
(* The store of overview sidecars in the web process                       *)
(* (kronika-reader/src/overview: publish.rs, gc.rs, persist_mode.rs and    *)
(* fallback.rs; the refresher of web overview/live.rs and lib.rs): builders *)
(* that publish sidecars or keep their facts in memory, one reservation    *)
(* for all writes, back-off and probes, a quota, and a mark-and-sweep that *)
(* also runs from an old mark when space is short.                         *)
(*                                                                         *)
(* A sidecar has the key of its segment under this build ("new") or under  *)
(* another ("old").  Steps are the stretches under the publication gate or *)
(* another lock.  Orphans and temporaries are in module Retention.         *)
(***************************************************************************)
EXTENDS Naturals, FiniteSets

CONSTANTS
  Builders,        \* threads in load_or_build
  MaxFiles,        \* GcConfig::max_files
  GraceGenerations, \* GcConfig::grace_generations
  MaxSegments, MaxGeneration, MaxFaults \* bounds

ASSUME StoreAssumption ==
  /\ MaxFiles \in Nat \ {0} /\ GraceGenerations \in Nat \ {0, 1} /\ MaxSegments # 0
  /\ {MaxSegments, MaxGeneration, MaxFaults} \subseteq Nat
  /\ "refresher" \notin Builders

VARIABLES
  \* the tree, and what the web process shows of it
  last, pgm,   \* the newest segment, and those there
  ovf,         \* [segment -> its sidecar: "none", "old" or "new"]
  view, generation, complete, \* the published view; no sealed source is unreadable
  \* GcState
  mark,        \* last_authoritative_mark, or NoMark
  pending,     \* [segment, key -> PendingEntry]
  recent,      \* the segments of recently_published, until wall_grace
  counted,     \* the sidecars of the quota state, or NoQuota
  \* PersistState and the fallback
  failing,     \* "none" or the class of the standing failure
  due,         \* its deadline has passed
  holder,      \* who has the reservation
  fallback,    \* segments whose facts are kept in memory
  \* threads
  pc, job, result,
  faults, late, \* failures so far, and those behind a rename
  unread       \* segments whose copy was kept because its sidecar could not be read

tree == <<last, pgm>>
shown == <<view, generation, complete>>
gc == <<mark, pending, recent, counted>>
persist == <<failing, due, holder>>
threads == <<pc, job, result>>
copies == <<fallback, unread>>
vars == <<tree, ovf, shown, gc, persist, copies, threads, faults, late>>

Segments == 1..MaxSegments
Keys == {"old", "new"}
Threads == Builders \cup {"refresher"}
Files == {s \in Segments : ovf[s] # "none"}
NoMark == [generation |-> 0, live |-> {}]
NoQuota == {0}
Unseen == [seen |-> 0, generation |-> 0, old |-> FALSE]
Nobody == "nobody"
\* Read-only and permission failures are handled as transient ones.
Backoffs == {"capacity", "transient"}
Fault == faults < MaxFaults /\ faults' = faults + 1

Init ==
  /\ last = 1 /\ pgm = {1}
  /\ ovf \in [Segments -> {"none", "old", "new"}] /\ \A s \in Segments \ pgm : ovf[s] = "none"
  /\ view = pgm /\ generation = 1 /\ complete = TRUE
  /\ mark = NoMark /\ pending = [s \in Segments |-> [k \in Keys |-> Unseen]]
  /\ recent = {} /\ counted = NoQuota
  /\ failing = "none" /\ due = TRUE /\ holder = Nobody /\ fallback = {}
  /\ pc = [t \in Threads |-> "idle"] /\ job = [t \in Threads |-> 0]
  /\ result = [t \in Threads |-> "ok"]
  /\ faults = 0 /\ late = 0 /\ unread = {}

-----------------------------------------------------------------------------
(* The collector, and time. *)

Seal ==
  /\ last < MaxSegments /\ last' = last + 1 /\ pgm' = pgm \cup {last + 1}
  /\ UNCHANGED <<ovf, shown, gc, persist, copies, threads, faults, late>>
\* Rotation removes the oldest segment with its sidecar.
RemoveOldest ==
  /\ \E s \in pgm \ {last} : /\ \A r \in pgm : s <= r
                             /\ pgm' = pgm \ {s} /\ ovf' = [ovf EXCEPT ![s] = "none"]
  /\ UNCHANGED <<last, shown, gc, persist, copies, threads, faults, late>>
\* wall_grace passes.
Grace ==
  /\ recent' = {}
  /\ pending' = [s \in Segments |-> [k \in Keys |->
                   [pending[s][k] EXCEPT !.old = pending[s][k].seen > 0]]]
  /\ UNCHANGED <<tree, ovf, shown, mark, counted, persist, copies, threads, faults, late>>
\* next_retry_at passes.
Due ==
  /\ ~due /\ due' = TRUE
  /\ UNCHANGED <<tree, ovf, shown, gc, failing, holder, copies, threads, faults, late>>

-----------------------------------------------------------------------------
(* collect: mark and sweep, with mark m. *)

Live(m, s) == ovf[s] = "new" /\ s \in m.live
StillRecent(s) == s \in Files /\ s \in recent
Protected(m, s) == Live(m, s) \/ (ovf[s] = "new" /\ StillRecent(s))

\* (broken) Every sweep that finds a sidecar absent counts.
CountsSweeps(e, g) == [e EXCEPT !.seen = @ + 1, !.generation = g]
\* A sidecar is seen absent once per generation of the mark.
Observed(e, g) ==
  IF e.seen = 0 \/ e.generation # g
  THEN [e EXCEPT !.seen = @ + 1, !.generation = g] ELSE e

Expired(e) == e.seen >= GraceGenerations /\ e.old
Swept(m) ==
  {s \in Files : ~Protected(m, s) /\ Expired(Observed(pending[s][ovf[s]], m.generation))}

Sweep(m) ==
  /\ mark' = m
  /\ ovf' = [s \in Segments |-> IF s \in Swept(m) THEN "none" ELSE ovf[s]]
  /\ pending' = [s \in Segments |-> [k \in Keys |->
       IF ovf[s] # k \/ Protected(m, s) \/ s \in Swept(m) THEN Unseen
       ELSE [Observed(pending[s][k], m.generation) EXCEPT !.seen =
               IF @ > GraceGenerations THEN GraceGenerations ELSE @]]]
  /\ recent' = {s \in recent : StillRecent(s)}
  /\ counted' = Files \ Swept(m)

-----------------------------------------------------------------------------
(* PersistState. *)

Permitted == holder = Nobody /\ (failing = "none" \/ due)

\* finish: r is "ok" or the class of the error.
Finish(r) ==
  /\ holder' = Nobody
  /\ IF r \in Backoffs THEN failing' = r /\ due' = FALSE
     ELSE IF r # "ok" /\ failing # "none" THEN due' = FALSE /\ UNCHANGED failing
     ELSE failing' = "none" /\ due' = TRUE
\* (broken) A panicked owner keeps the reservation.
KeepsReservation == UNCHANGED <<failing, due, holder>>
\* cancel, when a PersistAttempt is dropped unfinished.
Cancel ==
  /\ holder' = Nobody /\ UNCHANGED failing
  /\ due' = (failing = "none")

-----------------------------------------------------------------------------
(* load_or_build. *)

Goes(t, to, r) ==
  /\ pc' = [pc EXCEPT ![t] = to] /\ result' = [result EXCEPT ![t] = r]
  /\ job' = [job EXCEPT ![t] = IF to = "idle" THEN 0 ELSE @]

\* A sidecar of this build is found unless it cannot be opened or validated.
Misses(s) == IF ovf[s] = "new" THEN Fault ELSE UNCHANGED faults
Discards(s) == fallback' = fallback \ {s} /\ unread' = unread \ {s}

\* A segment of the view is served from its sidecar, from memory, or built.
Load(b) ==
  /\ pc[b] = "idle"
  /\ \E s \in view :
       \/ ovf[s] = "new" /\ Discards(s) /\ UNCHANGED <<threads, faults>>
       \/ Misses(s) /\ s \in fallback /\ UNCHANGED <<copies, threads>>
       \/ /\ Misses(s) /\ s \notin fallback
          /\ pc' = [pc EXCEPT ![b] = "built"] /\ job' = [job EXCEPT ![b] = s]
          /\ UNCHANGED <<copies, result>>
  /\ UNCHANGED <<tree, ovf, shown, gc, persist, late>>

\* persist_encoded; busy and back-off are both refusals.
Reserve(b) ==
  /\ pc[b] = "built"
  /\ \/ Permitted /\ holder' = b /\ Goes(b, "publish", "ok")
     \/ ~Permitted /\ UNCHANGED holder /\ Goes(b, "settle", "refused")
  /\ UNCHANGED <<tree, ovf, shown, gc, failing, due, copies, faults, late>>

\* (broken) The file to come is not counted.
AdmitsLast(n) == n <= MaxFiles
\* exceeds_quota, with one file more
Admits(n) == n + 1 <= MaxFiles
CountedNow == IF counted = NoQuota THEN Files ELSE counted

\* What one publish_encoded ends with: a capacity error is answered once with a sweep.
Ends(b, r) ==
  IF r = "capacity" /\ pc[b] = "publish" THEN Goes(b, "recover", r) ELSE Goes(b, "finish", r)

Publish(b) ==
  LET s == job[b] IN
  /\ pc[b] \in {"publish", "publish again"}
  /\ \/ \* the source is gone
        /\ s \notin pgm /\ Ends(b, "permanent") /\ UNCHANGED <<ovf, gc, faults, late>>
     \/ \* the owner or the source cannot be opened
        /\ Fault /\ (\E r \in Backoffs \cup {"permanent"} : Ends(b, r))
        /\ UNCHANGED <<ovf, gc, late>>
     \/ \* an equal sidecar is there: record_cache_hit
        /\ s \in pgm /\ ovf[s] = "new" /\ Ends(b, "ok")
        /\ pending' = [pending EXCEPT ![s]["new"] = Unseen]
        /\ recent' = recent \cup {s}
        /\ UNCHANGED <<ovf, mark, counted, faults, late>>
     \/ \* admit_publication
        /\ s \in pgm /\ Misses(s) /\ ~Admits(Cardinality(CountedNow))
        /\ counted' = CountedNow /\ Ends(b, "capacity")
        /\ UNCHANGED <<ovf, mark, pending, recent, late>>
     \/ \* the write fails, the look at the sidecar perhaps with it
        /\ s \in pgm /\ Admits(Cardinality(CountedNow)) /\ Fault
        /\ counted' = CountedNow
        /\ \E r \in Backoffs \cup {"permanent"} : Ends(b, r)
        /\ UNCHANGED <<ovf, mark, pending, recent, late>>
     \/ \* it fails behind the rename
        /\ s \in pgm /\ Admits(Cardinality(CountedNow)) /\ Fault
        /\ counted' = CountedNow
        /\ ovf' = [ovf EXCEPT ![s] = "new"]
        /\ late' = IF ovf[s] = "none" THEN late + 1 ELSE late
        /\ Ends(b, "transient") /\ UNCHANGED <<mark, pending, recent>>
     \/ \* record_publication
        /\ s \in pgm /\ Misses(s) /\ Admits(Cardinality(CountedNow)) /\ Ends(b, "ok")
        /\ ovf' = [ovf EXCEPT ![s] = "new"]
        /\ pending' = [pending EXCEPT ![s]["new"] = Unseen]
        /\ recent' = recent \cup {s}
        /\ counted' = CountedNow \cup {s}
        /\ UNCHANGED <<mark, late>>
  /\ UNCHANGED <<tree, shown, persist, copies>>

\* recover_capacity_once: sweep from the last authoritative mark.
Recover(t, after) ==
  /\ pc[t] = "recover"
  /\ \/ mark = NoMark /\ UNCHANGED <<ovf, gc, faults>> /\ Goes(t, "finish", result[t])
     \/ mark # NoMark /\ Sweep(mark) /\ UNCHANGED faults /\ Goes(t, after, result[t])
     \/ mark # NoMark /\ Fault /\ UNCHANGED <<ovf, gc>> /\ Goes(t, "finish", result[t])
  /\ UNCHANGED <<tree, shown, persist, copies, late>>

Finishes(b) ==
  /\ pc[b] = "finish" /\ Finish(result[b])
  /\ Goes(b, "settle", IF result[b] \in Backoffs THEN "refused" ELSE result[b])
  /\ UNCHANGED <<tree, ovf, shown, gc, copies, faults, late>>

Panic(b) ==
  /\ pc[b] \in {"publish", "recover"} /\ Fault
  /\ Cancel /\ Goes(b, "idle", "ok")
  /\ UNCHANGED <<tree, ovf, shown, gc, copies, late>>

\* The rest of admit_publish_or_fallback: facts that were published leave the
\* memory, others enter it unless oversized, and may make it evict.
Settle(b) ==
  /\ pc[b] = "settle"
  /\ \/ result[b] = "ok" /\ Discards(job[b]) /\ Goes(b, "idle", "ok")
     \/ /\ result[b] = "refused"
        /\ fallback' \in {fallback \cup {job[b]}, {job[b]}, fallback}
        /\ unread' = (unread \cap fallback') \ {job[b]} /\ Goes(b, "recheck", "ok")
     \/ result[b] = "permanent" /\ UNCHANGED copies /\ Goes(b, "idle", "ok")
  /\ UNCHANGED <<tree, ovf, shown, gc, persist, faults, late>>
\* (broken) What was put into memory stays there.
NeverDurable(s) == FALSE
\* read_expected_with_stats
Durable(s) == s \in pgm /\ ovf[s] = "new"
\* The second look: a sidecar that cannot be read leaves the copy where it is.
Recheck(b) ==
  /\ pc[b] = "recheck" /\ Goes(b, "idle", "ok")
  /\ \/ Durable(job[b]) /\ Discards(job[b]) /\ UNCHANGED faults
     \/ /\ Durable(job[b]) /\ Fault
        /\ unread' = unread \cup {job[b]} /\ UNCHANGED fallback
     \/ ~Durable(job[b]) /\ UNCHANGED <<copies, faults>>
  /\ UNCHANGED <<tree, ovf, shown, gc, persist, late>>

-----------------------------------------------------------------------------
(* The refresher: republish_store_view. *)

R == "refresher"
\* probe_persistence
ProbeReserve ==
  /\ pc[R] = "idle" /\ failing # "none" /\ Permitted /\ holder' = R
  /\ IF failing = "capacity" THEN Goes(R, "recover", "ok") ELSE Goes(R, "finish", "ok")
  /\ UNCHANGED <<tree, ovf, shown, gc, failing, due, copies, faults, late>>
\* probe_once and finish
Probe ==
  /\ pc[R] = "finish"
  /\ \/ Finish("ok") /\ UNCHANGED faults
     \/ \E r \in Backoffs \cup {"permanent"} : Finish(r) /\ Fault
  /\ Goes(R, "idle", "ok")
  /\ UNCHANGED <<tree, ovf, shown, gc, copies, late>>

\* assemble_with_live; a sealed source may be unreadable this time.
Refresh ==
  /\ pc[R] = "idle" /\ generation < MaxGeneration /\ generation' = generation + 1
  /\ \E lost \in {{}} \cup {{s} : s \in pgm} :
       /\ lost # {} => faults < MaxFaults
       /\ faults' = IF lost = {} THEN faults ELSE faults + 1
       /\ view' = pgm \ lost /\ complete' = (lost = {})
  /\ UNCHANGED <<tree, ovf, gc, persist, copies, threads, late>>
\* collect_fact_garbage: only a complete view is a mark that may sweep.
Collect ==
  /\ pc[R] = "idle" /\ complete
  /\ Sweep([generation |-> generation, live |-> view])
  /\ UNCHANGED <<tree, shown, persist, copies, threads, faults, late>>

-----------------------------------------------------------------------------
Build(b) == Reserve(b) \/ Publish(b) \/ Recover(b, "publish again") \/ Finishes(b)
              \/ Settle(b) \/ Recheck(b)
Next ==
  \/ Seal \/ RemoveOldest \/ Grace \/ Due
  \/ \E b \in Builders : Load(b) \/ Build(b) \/ Panic(b)
  \/ ProbeReserve \/ Recover(R, "finish") \/ Probe \/ Refresh \/ Collect

\* Threads that run go on, deadlines pass, and every refresh probes.
Spec ==
  /\ Init /\ [][Next]_vars
  /\ \A b \in Builders : WF_vars(Build(b))
  /\ WF_vars(Due) /\ SF_vars(ProbeReserve) /\ WF_vars(Recover(R, "finish")) /\ WF_vars(Probe)

-----------------------------------------------------------------------------
(* Properties. *)

\* No sweep removes the sidecar of a segment that the published view shows,
\* although sweeps run from marks older than the view, sidecars are published
\* between mark and sweep, and both graces have long passed.
LiveNeverSwept ==
  [][\A s \in view \cap pgm' : ovf[s] = "new" => ovf'[s] = "new"]_vars

\* The number of sidecars stays within max_files, beyond it only those whose
\* publication failed behind the rename.
QuotaHolds == Cardinality(Files) <= MaxFiles + late

\* Once no thread works on a segment its facts are not both in a sidecar and
\* in memory, whichever thread published and whichever fell back, unless the
\* second look could not read the sidecar: nobody looks a third time.
FallbackNotStale ==
  \A s \in fallback \ unread :
    (\A b \in Builders : pc[b] = "idle" \/ job[b] # s) => ~(s \in pgm /\ ovf[s] = "new")

\* Nobody keeps the reservation and no back-off is for ever: writes become
\* permitted again and again, and so does full operation.
WritesResume == []<>(holder = Nobody) /\ []<>(failing = "none")
=============================================================================
