------------------------------ MODULE FactLoader ------------------------------
(***************************************************************************)
(* How an overview request gets the facts of the segments it selected:     *)
(* the decoded cache, the stored facts, a shared flight per fact key, and  *)
(* inside the flight admission and the build                               *)
(* (bins/pg_kronika-web/src/overview/{loader,memory_cache}.rs, composing   *)
(* Admission and Singleflight).                                            *)
(*                                                                         *)
(* A caller is one load_one: one entry of one request.  Facts are          *)
(* determined by their key, so only where they are kept is state.          *)
(* The fact store may or may not hold them (a sidecar of an earlier        *)
(* process, a collected one, a fallback entry): load_cached is a choice.   *)
(***************************************************************************)
EXTENDS Admission, Singleflight, SequencesExt

CONSTANTS
  Requests,    \* calls of load_selected
  RequestOf,   \* caller -> its request
  Plans,       \* config -> selections (caller -> key, distinct within a request)
  ColdWeight,  \* key -> DescriptorEntry::cold_weight
  Parallelism, \* config -> per_request_parallelism
  FactBytes,   \* key -> resident bytes of its decoded facts
  MaxBytes,    \* bytes the decoded cache holds
  MaxEntries,  \* entries the decoded cache holds
  MaxFaults    \* bound: failed reads and builds, panics, standbys

Facts == "facts"
Source == "source"  \* FactLoadFailure::Source
Worker == "worker"  \* WorkerFailed, IdentityMismatch
Busy == "busy"      \* ColdBuildOverloaded
Answers == {Facts, Source, Worker, Busy}

\* The flight a caller leads asks for admission in its name.
ASSUME CallersAssumption ==
  /\ Clients = Callers /\ RequestOf \in [Callers -> Requests]
  /\ Plans \in [Configs -> SUBSET [Callers -> Keys]]
  /\ \A x \in Configs : \A p \in Plans[x] : \A c, d \in Callers :
       p[c] = p[d] /\ RequestOf[c] = RequestOf[d] => c = d
ASSUME LimitsAssumption ==
  /\ "workers" \in Resources
  /\ ColdWeight \in [Keys -> Weights] /\ FactBytes \in [Keys -> Nat]
  /\ MaxBytes \in Nat /\ MaxEntries \in Nat /\ Parallelism \in [Configs -> Nat \ {0}]
  /\ MaxFaults \in Nat /\ None \notin Answers

VARIABLES
  decoded, \* DecodedFactCache: keys, the least recently used first
  step,    \* caller -> where its load_one is, or what became of it
  task,    \* flight -> where its worker is, or what it returned
  req,     \* request -> where its load_selected is
  faults   \* how many there have been

loader == <<decoded, step, task, req, faults>>
vars == <<admission, flights, loader>>

EntriesOf(q) == {c \in Callers : RequestOf[c] = q}
\* The JoinSet of a request holds what it has spawned and not yet taken.
Running == {"spawned", "join", "await"}
RunningOf(q) == {c \in EntriesOf(q) : step[c] \in Running}

-----------------------------------------------------------------------------
(* The decoded cache. *)

BytesOf(s) == FoldLeft(LAMBDA b, k : b + FactBytes[k], 0, s)
Within(s) == Len(s) <= MaxEntries /\ BytesOf(s) <= MaxBytes
\* The longest end of s within the limits: both loops evict from the front.
Retained(s) ==
  LET n == CHOOSE i \in 0..Len(s) :
             /\ Within(SubSeq(s, i + 1, Len(s)))
             /\ \A j \in 0..(i - 1) : ~Within(SubSeq(s, j + 1, Len(s)))
  IN SubSeq(s, n + 1, Len(s))
Recent(k) == Append(Remove(decoded, k), k)
\* DecodedFactCache::insert and get
Insert(k) == decoded' = Retained(Recent(k))
Touch(k) == decoded' = Recent(k)
Holds(k) == \E i \in 1..Len(decoded) : decoded[i] = k

-----------------------------------------------------------------------------
(* The state the loader starts with: every load_selected has spawned the     *)
(* entries it begins with, and the set of a selection of nothing is empty.   *)

\* The first loop ends behind the last entry or at the limit.
Opens(q, up) ==
  LET first == up \cap EntriesOf(q) IN
  /\ Cardinality(first) <= Parallelism[config]
  /\ first = EntriesOf(q) \/ Cardinality(first) = Parallelism[config]

Init ==
  /\ AdmissionInit
  /\ \E p \in Plans[config] : FlightsInit(config.capacity["workers"] + config.queue, p)
  /\ decoded = <<>>
  /\ \E up \in SUBSET Callers :
       /\ \A q \in Requests : Opens(q, up)
       /\ step = [c \in Callers |-> IF c \in up THEN "spawned" ELSE "new"]
  /\ task = [f \in Callers |-> "none"]
  /\ req = [q \in Requests |-> IF RunningOf(q) = {} THEN "ok" ELSE "loading"]
  /\ faults = 0

Fault == faults < MaxFaults /\ faults' = faults + 1
Smooth == UNCHANGED faults

-----------------------------------------------------------------------------
(* load_selected takes what a load_one returns. *)

\* (broken) A failed entry leaves the others of its request running.
OnlyFailed(c) == {}
\* A returned error drops the JoinSet, which aborts what still runs.
Aborted(c) == RunningOf(RequestOf[c]) \ {c}

\* (broken) Spawns while next + 1 < entries.len().
AllButLast(c) ==
  LET left == {d \in EntriesOf(RequestOf[c]) : step[d] = "new"}
  IN IF Cardinality(left) > 1 THEN left ELSE {}
\* The entries from next on, in the request of c.
Unspawned(c) == {d \in EntriesOf(RequestOf[c]) : step[d] = "new"}

\* load_one returns a and join_next takes it: facts are kept, a source error
\* becomes a gap, and the next entry is spawned; the loop ends when the JoinSet is
\* empty, whatever the slots of the entries hold.  Anything else fails the request.
Return(c, a) ==
  \/ /\ a \in {Facts, Source}
     /\ \E up \in IF Unspawned(c) = {} THEN {{}} ELSE {{d} : d \in Unspawned(c)} :
          step' = [d \in Callers |-> IF d = c THEN IF a = Facts THEN "loaded" ELSE "gap"
                                     ELSE IF d \in up THEN "spawned" ELSE step[d]]
     /\ req' = IF RunningOf(RequestOf[c])' = {} THEN [req EXCEPT ![RequestOf[c]] = "ok"] ELSE req
     /\ LeaveSeats({c})
  \/ /\ a \in {Worker, Busy}
     /\ step' = [d \in Callers |-> IF d = c THEN "failed"
                                  ELSE IF d \in Aborted(c) THEN "aborted" ELSE step[d]]
     /\ req' = [req EXCEPT ![RequestOf[c]] = "failed"]
     /\ LeaveSeats(Aborted(c) \cup {c})

Go(c, where) ==
  step' = [step EXCEPT ![c] = where] /\ UNCHANGED req

-----------------------------------------------------------------------------
(* load_one, up to its flight. *)

\* The lookups of load_one: the decoded cache, then load_cached,
\* which may hit, miss, find a source it cannot read or panic.  The state of
\* the store being a choice, the two lookups are one step.
Lookup(c) ==
  /\ step[c] = "spawned"
  /\ \/ Holds(key[c]) /\ Touch(key[c]) /\ Return(c, Facts) /\ Smooth
     \/ ~Holds(key[c]) /\ Insert(key[c]) /\ Return(c, Facts) /\ Smooth
     \/ ~Holds(key[c]) /\ Go(c, "join") /\ UNCHANGED <<flights, decoded>> /\ Smooth
     \/ /\ ~Holds(key[c]) /\ UNCHANGED decoded /\ Fault
        /\ \E a \in {Source, Worker} : Return(c, a)
  /\ UNCHANGED <<admission, task>>

\* FactSingleflight::run
JoinFlight(c) ==
  /\ step[c] = "join"
  /\ \/ Follow(c) /\ Go(c, "await") /\ UNCHANGED task
     \/ Lead(c) /\ Go(c, "await") /\ task' = [task EXCEPT ![c] = "lookup"]
     \/ NoRoom(c) /\ Return(c, Busy) /\ UNCHANGED task
  /\ UNCHANGED <<admission, decoded, faults>>

Await(c) ==
  /\ step[c] = "await"
  /\ \/ (Arm(c) \/ Look(c)) /\ UNCHANGED <<step, req>>
     \/ Answered(c) /\ Return(c, outcome[on[c]])
  /\ UNCHANGED <<admission, decoded, task, faults>>

-----------------------------------------------------------------------------
(* The worker of a flight. *)

Reach(f, where) ==
  /\ task' = [task EXCEPT ![f] = where]
  /\ UNCHANGED <<flights, step, req>>

\* Both lookups again: a flight of this key may have ended in between.
Recheck(f) ==
  /\ task[f] = "lookup"
  /\ \/ Holds(key[f]) /\ Touch(key[f]) /\ Reach(f, Facts) /\ Smooth
     \/ ~Holds(key[f]) /\ Insert(key[f]) /\ Reach(f, Facts) /\ Smooth
     \/ ~Holds(key[f]) /\ Reach(f, "acquire") /\ UNCHANGED decoded /\ Smooth
     \/ /\ ~Holds(key[f]) /\ UNCHANGED decoded /\ Fault
        /\ \E a \in {Source, Worker} : Reach(f, a)
  /\ UNCHANGED admission

\* acquire, to the first wait.
Ask(f) ==
  /\ task[f] = "acquire"
  /\ \/ Admit(f, ColdWeight[key[f]]) /\ Reach(f, "build")
     \/ Enqueue(f, ColdWeight[key[f]]) /\ Reach(f, "queued")
     \/ Refused(f, ColdWeight[key[f]]) /\ Reach(f, Busy)
  /\ UNCHANGED <<decoded, faults>>

Granted(f) ==
  /\ task[f] = "queued" /\ Claim(f) /\ Reach(f, "build")
  /\ UNCHANGED <<decoded, faults>>
TimesOut(f) ==
  /\ task[f] = "queued" /\ GiveUp(f) /\ Reach(f, Busy)
  /\ UNCHANGED <<decoded, faults>>

\* reconcile_seal or load_or_build on a blocking thread; the decoded cache
\* takes the facts and the permit is dropped.
Build(f) ==
  /\ task[f] = "build" /\ Release(f)
  /\ \/ Insert(key[f]) /\ Reach(f, Facts) /\ Smooth
     \/ \E a \in {Source, Worker} : Reach(f, a) /\ UNCHANGED decoded /\ Fault

\* (broken) A panic of the worker ends its coordinator too.
PanicUnseen(f) ==
  /\ task[f] \in {"lookup", "acquire"}
  /\ Reach(f, "lost") /\ Fault /\ UNCHANGED <<admission, decoded>>
\* A panic of the worker task reaches the coordinator as join_failure.
Panic(f) ==
  /\ task[f] \in {"lookup", "acquire"}
  /\ Reach(f, Worker) /\ Fault /\ UNCHANGED <<admission, decoded>>

\* The coordinator of the flight.
Coordinate(f) ==
  /\ \/ task[f] \in Answers /\ Settle(f, task[f]) /\ task' = [task EXCEPT ![f] = "none"]
     \/ (Notify(f) \/ Unregister(f)) /\ UNCHANGED task
  /\ UNCHANGED <<admission, decoded, step, req, faults>>

\* enter_standby clears the decoded cache.
Standby ==
  /\ decoded # <<>> /\ decoded' = <<>> /\ Fault
  /\ UNCHANGED <<admission, flights, step, task, req>>

Turn == Schedule /\ UNCHANGED <<flights, loader>>

CallerStep(c) == Lookup(c) \/ JoinFlight(c) \/ Await(c)
WorkerStep(f) == Recheck(f) \/ Ask(f) \/ Granted(f) \/ Build(f)

\* What tasks and blocking threads do when they run.
Progress ==
  \/ \E c \in Callers : CallerStep(c) \/ WorkerStep(c) \/ Coordinate(c)
  \/ Turn

Next ==
  \/ Progress
  \/ \E f \in Callers : TimesOut(f) \/ Panic(f)
  \/ Standby

\* Some task that can run does; a timeout, a panic and standby need not happen.
Fairness == WF_vars(Progress)

Spec == Init /\ [][Next]_vars /\ Fairness

-----------------------------------------------------------------------------
(* Properties. *)

TypeOK ==
  /\ AdmissionTypeOK
  /\ active \in [Keys -> Callers \cup {None}]
  /\ outcome \in [Callers -> Answers \cup {None}]
  /\ on \in [Callers -> Callers \cup {None}]
  /\ \A i, j \in 1..Len(decoded) : decoded[i] = decoded[j] => i = j

\* A permit is held by a flight that builds, a place by one that waits.
HoldersBuild ==
  \A c \in Callers :
    /\ phase[c] = "holding" <=> task[c] = "build"
    /\ phase[c] = "waiting" <=> task[c] = "queued"

\* What is charged is what the building flights and the granted waiters asked
\* for, to the unit: a timeout that races a grant, a panic, an abort of the
\* leading caller and a release neither lose nor return a charge twice (the
\* expects of admission.rs on checked_sub).
ChargesAreResident == ChargesAreExact /\ HoldersBuild

Complete(q, st) == \A c \in EntriesOf(q) : st[c] \in {"loaded", "gap"}

\* A request that returns a view has the facts of every entry or a gap for it,
\* although it only waits until its JoinSet is empty and leaves out every slot
\* without facts: the window of spawned entries moves over all of them.  Nothing
\* of a request that has ended still runs, except for the flights it led, and one
\* that loads waits for something.
NoSilentHole ==
  \A q \in Requests :
    /\ req[q] = "ok" => Complete(q, step)
    /\ req[q] = "loading" <=> RunningOf(q) # {}

\* Every request is answered, whatever panics, times out or is aborted around
\* it, and the flights it led end too: registry, queue and charge are empty
\* again.
RequestsEnd ==
  <>[]/\ \A q \in Requests : req[q] # "loading"
      /\ Registered = {} /\ queue = <<>> /\ Charged = {}
=============================================================================
