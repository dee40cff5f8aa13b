------------------------------ MODULE Admission ------------------------------
(***************************************************************************)
(* Cold-work admission of the web process: a vector of capacities shared   *)
(* by the builders of sealed facts, a bounded FIFO queue, and a timeout    *)
(* for those who wait (bins/pg_kronika-web/src/overview/admission.rs).     *)
(*                                                                         *)
(* The state mutex is held for one step of each action, except in the loop *)
(* of schedule, which grants one waiter per step: the wake-up of a waiter  *)
(* reads its granted flag without the mutex and may run between two turns. *)
(***************************************************************************)
EXTENDS Integers, Sequences, FiniteSets

CONSTANTS
  Clients,   \* those who ask for admission
  Resources, \* the components of a ColdWorkWeight
  Weights,   \* the weights they ask for
  Configs    \* the ColdAdmissionConfigs: capacity and max_queue

Vectors == [Resources -> Nat]

ASSUME WeightsAssumption == Weights \subseteq Vectors
ASSUME ConfigsAssumption == Configs \subseteq [capacity : Vectors, queue : Nat]

VARIABLES
  config,     \* AdmissionInner::config
  used,       \* AdmissionState::used
  queue,      \* AdmissionState::queue
  phase,      \* client -> "out", "waiting" (QueuedAdmission) or "holding" (ColdPermit)
  weight,     \* client -> what it waits for or holds
  granted,    \* the waiters whose granted flag is set
  scheduling  \* the mutex is held by a turn of schedule

admission == <<config, used, queue, phase, weight, granted, scheduling>>

-----------------------------------------------------------------------------
(* Weights. *)

NoWeight == [r \in Resources |-> 0]
Fits(w) == \A r \in Resources : w[r] <= config.capacity[r]
Plus(u, w) == [r \in Resources |-> u[r] + w[r]]
Minus(u, w) == [r \in Resources |-> u[r] - w[r]]
CanAdmit(u, w) == Fits(Plus(u, w))

\* (broken) A waiter whose charge was granted is counted as queued.
LeavesChargeOf(c) == used
\* What QueuedAdmission::drop leaves charged.
ChargeWithout(c) == IF c \in granted THEN Minus(used, weight[c]) ELSE used

InQueue == {queue[i] : i \in 1..Len(queue)}
Position(q, c) == CHOOSE i \in 1..Len(q) : q[i] = c
Dropped(q, c) ==
  IF \E i \in 1..Len(q) : q[i] = c
  THEN [j \in 1..(Len(q) - 1) |-> IF j < Position(q, c) THEN q[j] ELSE q[j + 1]]
  ELSE q

-----------------------------------------------------------------------------
(* The operations. *)

AdmissionInit ==
  /\ config \in Configs
  /\ used = NoWeight
  /\ queue = <<>>
  /\ phase = [c \in Clients |-> "out"]
  /\ weight = [c \in Clients |-> NoWeight]
  /\ granted = {}
  /\ scheduling = FALSE

\* (broken) Admits whoever fits, waiters or not.
AdmitsPastQueue(w) == CanAdmit(used, w)
\* The queue is never overtaken.
Admissible(w) == queue = <<>> /\ CanAdmit(used, w)

\* ColdAdmission::acquire, served at once.
Admit(c, w) ==
  /\ ~scheduling /\ phase[c] = "out"
  /\ Fits(w) /\ Admissible(w)
  /\ used' = Plus(used, w)
  /\ phase' = [phase EXCEPT ![c] = "holding"]
  /\ weight' = [weight EXCEPT ![c] = w]
  /\ UNCHANGED <<config, queue, granted, scheduling>>

\* ColdAdmission::acquire, put in the queue.
Enqueue(c, w) ==
  /\ ~scheduling /\ phase[c] = "out"
  /\ Fits(w) /\ ~Admissible(w)
  /\ Len(queue) < config.queue
  /\ queue' = Append(queue, c)
  /\ phase' = [phase EXCEPT ![c] = "waiting"]
  /\ weight' = [weight EXCEPT ![c] = w]
  /\ UNCHANGED <<config, used, granted, scheduling>>

\* ColdAdmission::acquire: WeightExceedsCapacity and QueueFull.
Refused(c, w) ==
  /\ ~scheduling /\ phase[c] = "out"
  /\ ~Fits(w) \/ (~Admissible(w) /\ Len(queue) >= config.queue)
  /\ UNCHANGED admission

\* The waiter sees its flag and turns its place into a permit.
Claim(c) ==
  /\ phase[c] = "waiting" /\ c \in granted
  /\ granted' = granted \ {c}
  /\ phase' = [phase EXCEPT ![c] = "holding"]
  /\ UNCHANGED <<config, used, queue, weight, scheduling>>

\* (broken) Leaves the queue without a look at who can go next.
GivesUpQuietly == scheduling' = FALSE
\* Every way out of the queue or of a permit runs schedule.
RunsSchedule == scheduling' = TRUE

\* The timeout of acquire, or a caller that went away: QueuedAdmission::drop.
\* The flag may have been set after the last look at it.
GiveUp(c) ==
  /\ ~scheduling /\ phase[c] = "waiting"
  /\ used' = ChargeWithout(c)
  /\ queue' = Dropped(queue, c)
  /\ granted' = granted \ {c}
  /\ phase' = [phase EXCEPT ![c] = "out"]
  /\ weight' = [weight EXCEPT ![c] = NoWeight]
  /\ RunsSchedule
  /\ UNCHANGED config

\* ColdPermit::drop
Release(c) ==
  /\ ~scheduling /\ phase[c] = "holding"
  /\ used' = Minus(used, weight[c])
  /\ phase' = [phase EXCEPT ![c] = "out"]
  /\ weight' = [weight EXCEPT ![c] = NoWeight]
  /\ RunsSchedule
  /\ UNCHANGED <<config, queue, granted>>

\* One turn of schedule.
Schedule ==
  /\ scheduling
  /\ IF queue # <<>> /\ CanAdmit(used, weight[Head(queue)])
     THEN /\ used' = Plus(used, weight[Head(queue)])
          /\ granted' = granted \cup {Head(queue)}
          /\ queue' = Tail(queue)
          /\ UNCHANGED scheduling
     ELSE scheduling' = FALSE /\ UNCHANGED <<used, granted, queue>>
  /\ UNCHANGED <<config, phase, weight>>

AdmissionNext ==
  \/ \E c \in Clients :
       \/ \E w \in Weights : Admit(c, w) \/ Enqueue(c, w) \/ Refused(c, w)
       \/ Claim(c) \/ GiveUp(c) \/ Release(c)
  \/ Schedule

AdmissionSpec == AdmissionInit /\ [][AdmissionNext]_admission

-----------------------------------------------------------------------------
(* Properties. *)

Charged == {c \in Clients : phase[c] = "holding"} \cup granted

\* The units of r that are charged, each with the client it is charged to.
ChargedUnits(r) == UNION {{c} \X (1..weight[c][r]) : c \in Charged}

AdmissionTypeOK ==
  /\ config \in Configs
  /\ used \in [Resources -> Int]
  /\ queue \in Seq(Clients) /\ Len(queue) <= config.queue
  /\ phase \in [Clients -> {"out", "waiting", "holding"}]
  /\ weight \in [Clients -> Vectors]
  /\ granted \in SUBSET Clients
  /\ scheduling \in BOOLEAN

\* A waiter has one place: in the queue or among the granted, never both and
\* never twice, and nobody else has one.
OnePlaceEach ==
  /\ \A c \in Clients : phase[c] = "waiting" <=> c \in InQueue \cup granted
  /\ granted \cap InQueue = {}
  /\ \A i, j \in 1..Len(queue) : queue[i] = queue[j] => i = j

\* Capacity is never exceeded, however grants, timeouts and releases meet.
WithinCapacity == Fits(used)

\* What is charged is the sum of what the charged clients asked for.
ChargesAreExact == \A r \in Resources : used[r] = Cardinality(ChargedUnits(r))

\* No capacity lies idle in front of a waiter: outside the mutex the head of
\* the queue is one that does not fit.  A way out of the queue or of a permit
\* that forgets to schedule leaves a waiter to its timeout.
HeadDoesNotFit ==
  ~scheduling /\ queue # <<>> => ~CanAdmit(used, weight[Head(queue)])

\* A charge is taken by the head of the queue or by one who finds it empty.
NoOvertaking ==
  [][\A c \in Clients :
       c \in Charged' \ Charged => queue = <<>> \/ c = Head(queue)]_admission
=============================================================================
