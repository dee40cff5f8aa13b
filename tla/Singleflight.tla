---------------------------- MODULE Singleflight ----------------------------
(***************************************************************************)
(* One shared flight per exact fact key: callers join the registered       *)
(* flight or lead a new one, whose detached coordinator outlives them      *)
(* (bins/pg_kronika-web/src/overview/singleflight.rs).                     *)
(*                                                                         *)
(* A flight is named after the caller that led it.  The coordinator stores *)
(* the result, wakes the listeners and unregisters in three steps; tokio's *)
(* notify_waiters wakes every Notified that exists, polled or not.         *)
(***************************************************************************)
EXTENDS Naturals, FiniteSets

CONSTANTS Callers, Keys, None

ASSUME FlightsAssumption == None \notin Callers /\ IsFiniteSet(Keys)

VARIABLES
  maxEntries, \* RegistryInner::max_entries
  key,     \* caller -> the fact key it asks for
  active,  \* RegistryInner::active: key -> flight
  coord,   \* flight -> how far its coordinator is
  outcome, \* flight -> Flight::result
  seat,    \* caller -> where it is in the loop of run
  on,      \* caller -> the flight it waits for
  woken    \* caller -> its Notified has been notified

flights == <<maxEntries, key, active, coord, outcome, seat, on, woken>>

Registered == {k \in Keys : active[k] # None}

FlightsInit(n, keys) ==
  /\ maxEntries = n /\ key = keys
  /\ active = [k \in Keys |-> None]
  /\ coord = [f \in Callers |-> "none"]
  /\ outcome = [f \in Callers |-> None]
  /\ seat = [c \in Callers |-> "none"]
  /\ on = [c \in Callers |-> None]
  /\ woken = [c \in Callers |-> FALSE]

TakeSeat(c, f) ==
  /\ seat' = [seat EXCEPT ![c] = "joined"]
  /\ on' = [on EXCEPT ![c] = f]
  /\ UNCHANGED <<maxEntries, key, outcome, woken>>

\* run: the key has a flight.
Follow(c) ==
  /\ active[key[c]] # None
  /\ TakeSeat(c, active[key[c]])
  /\ UNCHANGED <<active, coord>>

\* (broken) Counts the flight about to be registered as free.
RoomByOne == Cardinality(Registered) <= maxEntries
Room == Cardinality(Registered) < maxEntries

\* run: a new flight and its coordinator.
Lead(c) ==
  /\ active[key[c]] = None /\ Room
  /\ active' = [active EXCEPT ![key[c]] = c]
  /\ coord' = [coord EXCEPT ![c] = "running"]
  /\ TakeSeat(c, c)

\* run: CapacityUnavailable.
NoRoom(c) == active[key[c]] = None /\ ~Room

\* The loop of run, entered or woken, creates its Notified before it looks at
\* the result.
Arm(c) ==
  /\ seat[c] = "joined" \/ (seat[c] = "asleep" /\ woken[c])
  /\ seat' = [seat EXCEPT ![c] = "armed"]
  /\ woken' = [woken EXCEPT ![c] = FALSE]
  /\ UNCHANGED <<maxEntries, key, active, coord, outcome, on>>

Look(c) ==
  /\ seat[c] = "armed" /\ outcome[on[c]] = None
  /\ seat' = [seat EXCEPT ![c] = "asleep"]
  /\ UNCHANGED <<maxEntries, key, active, coord, outcome, on, woken>>

\* A flight and its result are freed with the last reference to it.
Freed(cd, seats) ==
  [f \in Callers |-> IF cd[f] = "none" /\ ~\E c \in Callers : seats[c] = f THEN None ELSE outcome[f]]

\* Callers that have their result, or are aborted, leave the flight to its
\* coordinator.
LeaveSeats(C) ==
  /\ seat' = [c \in Callers |-> IF c \in C THEN "none" ELSE seat[c]]
  /\ on' = [c \in Callers |-> IF c \in C THEN None ELSE on[c]]
  /\ woken' = [c \in Callers |-> woken[c] /\ c \notin C]
  /\ outcome' = Freed(coord, on')
  /\ UNCHANGED <<maxEntries, key, active, coord>>

Answered(c) == seat[c] = "armed" /\ outcome[on[c]] # None

\* (broken) The result is stored and nobody is told.
SettleQuietly(f, r) ==
  /\ coord[f] = "running"
  /\ outcome' = [outcome EXCEPT ![f] = r]
  /\ coord' = [coord EXCEPT ![f] = "notified"]
  /\ UNCHANGED <<maxEntries, key, active, seat, on, woken>>
\* The worker has ended, with r or with join_failure.
Settle(f, r) ==
  /\ coord[f] = "running"
  /\ outcome' = [outcome EXCEPT ![f] = r]
  /\ coord' = [coord EXCEPT ![f] = "settled"]
  /\ UNCHANGED <<maxEntries, key, active, seat, on, woken>>

Listeners(f) == {c \in Callers : on[c] = f /\ seat[c] \in {"armed", "asleep"}}

Notify(f) ==
  /\ coord[f] = "settled"
  /\ woken' = [c \in Callers |-> woken[c] \/ c \in Listeners(f)]
  /\ coord' = [coord EXCEPT ![f] = "notified"]
  /\ UNCHANGED <<maxEntries, key, active, outcome, seat, on>>

Unregister(f) ==
  /\ coord[f] = "notified"
  /\ active' = IF active[key[f]] = f THEN [active EXCEPT ![key[f]] = None] ELSE active
  /\ coord' = [coord EXCEPT ![f] = "none"]
  /\ outcome' = Freed(coord', on)
  /\ UNCHANGED <<maxEntries, key, seat, on, woken>>

-----------------------------------------------------------------------------
(* Properties. *)

\* A key has one flight at a time, and the registry is within its bound: a
\* flight is out of the registry only once its worker has ended and its
\* result is there for whoever joined it.
OneFlightPerKey ==
  /\ Cardinality(Registered) <= maxEntries
  /\ \A f \in Callers :
       coord[f] \in {"running", "settled", "notified"} => active[key[f]] = f
  /\ \A c \in Callers : seat[c] # "none" => on[c] # None /\ key[on[c]] = key[c]

\* A caller that sleeps has a wake-up before it: its flight still runs or has
\* not notified yet, or it is woken.  No order of joining, storing, notifying
\* and unregistering leaves a caller asleep for good.
NoLostWakeup ==
  \A c \in Callers :
    seat[c] = "asleep" => woken[c] \/ coord[on[c]] \in {"running", "settled"}
=============================================================================
