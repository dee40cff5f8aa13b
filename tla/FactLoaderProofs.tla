--------------------------- MODULE FactLoaderProofs ---------------------------
(***************************************************************************)
(* Proofs that admission keeps its promises for every set of clients,      *)
(* weights and configurations and charges to the unit what it admitted,    *)
(* that the loader uses it as specified, and that no caller of a shared    *)
(* flight is left asleep.                                                  *)
(***************************************************************************)
EXTENDS FactLoader, FiniteSetTheorems, TLAPS

-----------------------------------------------------------------------------
(* Admission. *)

AdmissionInv ==
  AdmissionTypeOK /\ OnePlaceEach /\ WithinCapacity /\ HeadDoesNotFit

\* Sums and differences of weights are integer vectors.
LEMMA VectorTypes ==
  ASSUME NEW u \in [Resources -> Int], NEW w \in Vectors
  PROVE  Plus(u, w) \in [Resources -> Int] /\ Minus(u, w) \in [Resources -> Int]
BY DEF Plus, Minus, Vectors

\* Giving a weight back keeps within the capacity.
LEMMA MinusFits ==
  ASSUME NEW u \in [Resources -> Int], NEW w \in Vectors, Fits(u), config \in Configs
  PROVE  Fits(Minus(u, w))
BY ConfigsAssumption DEF Fits, Minus, Vectors

Occurs(x, q) == \E i \in 1..Len(q) : q[i] = x
Distinct(q) == \A i, j \in 1..Len(q) : q[i] = q[j] => i = j

\* Taking a client out of a queue without repetition leaves the others.
LEMMA DroppedIsQueue ==
  ASSUME NEW q \in Seq(Clients), NEW c \in Clients, Distinct(q),
         NEW d, d = Dropped(q, c)
  PROVE  /\ d \in Seq(Clients) /\ Len(d) <= Len(q) /\ Distinct(d)
         /\ \A x : Occurs(x, d) <=> Occurs(x, q) /\ x # c
<1>1. CASE ~\E i \in 1..Len(q) : q[i] = c
  BY <1>1 DEF Dropped, Occurs
<1>2. CASE \E i \in 1..Len(q) : q[i] = c
  <2>1. PICK p \in 1..Len(q) : p = Position(q, c) /\ q[p] = c
    BY <1>2 DEF Position
  <2>2. d = [j \in 1..(Len(q) - 1) |-> IF j < p THEN q[j] ELSE q[j + 1]]
    BY <1>2, <2>1 DEF Dropped
  <2>4. d \in Seq(Clients) /\ Len(d) = Len(q) - 1 /\ Len(q) \in Nat
    BY <2>1, <2>2
  <2>5. \A i \in 1..Len(d) : d[i] = IF i < p THEN q[i] ELSE q[i + 1]
    BY <2>2, <2>4
  <2>6. ASSUME NEW i \in 1..Len(d)
        PROVE  d[i] # c /\ \E k \in 1..Len(q) : d[i] = q[k]
    <3>1. i \in 1..Len(q) /\ i + 1 \in 1..Len(q)
      BY <2>4
    <3> QED BY <3>1, <2>1, <2>5 DEF Distinct
  <2>7. ASSUME NEW k \in 1..Len(q), q[k] # c
        PROVE  \E i \in 1..Len(d) : q[k] = d[i]
    <3>1. CASE k < p
      <4>1. k \in 1..Len(d) /\ d[k] = q[k]
        BY <3>1, <2>4, <2>5
      <4> QED BY <4>1
    <3>2. CASE k > p
      <4>1. k - 1 \in 1..Len(d) /\ d[k - 1] = q[k]
        BY <3>2, <2>4, <2>5
      <4> QED BY <4>1
    <3> QED BY <3>1, <3>2, <2>1, <2>7
  <2>8. Distinct(d)
    BY <2>1, <2>4, <2>5 DEF Distinct
  <2>9. \A x : Occurs(x, d) <=> Occurs(x, q) /\ x # c
    BY <2>6, <2>7 DEF Occurs
  <2> QED BY <2>4, <2>8, <2>9
<1> QED BY <1>1, <1>2

\* OnePlaceEach in the words of the lemma above.
Places(q, ph, g) ==
  /\ Distinct(q)
  /\ \A c \in Clients : ph[c] = "waiting" <=> Occurs(c, q) \/ c \in g
  /\ \A c \in g : ~Occurs(c, q)

LEMMA PlacesMeaning ==
  AdmissionTypeOK => (OnePlaceEach <=> Places(queue, phase, granted))
<1>1. \A x : x \in InQueue <=> Occurs(x, queue)
  BY DEF InQueue, Occurs
<1> QED BY <1>1 DEF OnePlaceEach, Places, Distinct, AdmissionTypeOK

LEMMA PlacesMeaningNext ==
  AdmissionTypeOK' => (OnePlaceEach' <=> Places(queue', phase', granted'))
<1>1. \A x : x \in InQueue' <=> Occurs(x, queue')
  BY DEF InQueue, Occurs
<1> QED BY <1>1 DEF OnePlaceEach, Places, Distinct, AdmissionTypeOK

LEMMA AdmissionStarts == AdmissionInit => AdmissionInv
<1> SUFFICES ASSUME AdmissionInit PROVE AdmissionInv
  OBVIOUS
<1>1. AdmissionTypeOK
  <2>1. config.queue \in Nat /\ queue = <<>> /\ config \in Configs
    BY ConfigsAssumption DEF AdmissionInit
  <2>2. queue \in Seq(Clients) /\ Len(queue) <= config.queue
    BY <2>1
  <2>3. NoWeight \in Vectors /\ used \in [Resources -> Int]
    BY DEF NoWeight, Vectors, AdmissionInit
  <2> QED BY <2>1, <2>2, <2>3 DEF AdmissionInit, AdmissionTypeOK
<1>2. OnePlaceEach
  BY DEF AdmissionInit, OnePlaceEach, InQueue
<1>3. WithinCapacity
  BY ConfigsAssumption DEF AdmissionInit, WithinCapacity, Fits, NoWeight, Vectors
<1> QED BY <1>1, <1>2, <1>3 DEF AdmissionInv, HeadDoesNotFit, AdmissionInit

LEMMA AdmitKeeps ==
  ASSUME AdmissionInv, NEW c \in Clients, NEW w \in Weights, Admit(c, w)
  PROVE  AdmissionInv'
<1> USE DEF AdmissionInv
<1>1. AdmissionTypeOK'
  BY WeightsAssumption, VectorTypes DEF AdmissionTypeOK, Admit
<1>2. Places(queue', phase', granted')
  BY PlacesMeaning DEF Places, Admit, AdmissionTypeOK
<1>3. WithinCapacity'
  BY DEF Admit, WithinCapacity, Admissible, CanAdmit, Fits
<1>4. HeadDoesNotFit'
  BY DEF Admit, Admissible, HeadDoesNotFit
<1> QED BY <1>1, <1>2, <1>3, <1>4, PlacesMeaningNext

LEMMA EnqueueKeeps ==
  ASSUME AdmissionInv, NEW c \in Clients, NEW w \in Weights, Enqueue(c, w)
  PROVE  AdmissionInv'
<1> USE DEF AdmissionInv
<1>1. AdmissionTypeOK'
  BY WeightsAssumption, ConfigsAssumption DEF AdmissionTypeOK, Enqueue
<1>2. Places(queue', phase', granted')
  <2>1. Places(queue, phase, granted) /\ phase[c] = "out" /\ queue' = Append(queue, c)
    BY PlacesMeaning DEF Enqueue
  <2>2. ~Occurs(c, queue) /\ c \notin granted
    BY <2>1 DEF Places, AdmissionTypeOK
  <2>3. queue \in Seq(Clients) /\ Len(queue') = Len(queue) + 1 /\ Len(queue) \in Nat
    BY <2>1 DEF AdmissionTypeOK
  <2>4. \A i \in 1..Len(queue') : queue'[i] = IF i <= Len(queue) THEN queue[i] ELSE c
    BY <2>1, <2>3
  <2>5. \A x : Occurs(x, queue') <=> Occurs(x, queue) \/ x = c
    <3> TAKE x
    <3>1. Occurs(x, queue') => Occurs(x, queue) \/ x = c
      BY <2>3, <2>4 DEF Occurs
    <3>2. Occurs(x, queue) => Occurs(x, queue')
      BY <2>3, <2>4 DEF Occurs
    <3>3. queue'[Len(queue')] = c /\ Len(queue') \in 1..Len(queue')
      BY <2>3, <2>4
    <3> QED BY <3>1, <3>2, <3>3 DEF Occurs
  <2>6. Distinct(queue')
    BY <2>1, <2>2, <2>3, <2>4 DEF Distinct, Occurs, Places
  <2> QED BY <2>1, <2>2, <2>5, <2>6 DEF Places, Enqueue, AdmissionTypeOK
<1>3. WithinCapacity'
  BY DEF Enqueue, WithinCapacity, Fits
<1>4. HeadDoesNotFit'
  <2>1. CASE queue = <<>>
    BY <2>1 DEF Enqueue, Admissible, CanAdmit, Fits, Plus, HeadDoesNotFit, AdmissionTypeOK
  <2>2. CASE queue # <<>>
    <3>1. Head(queue') = Head(queue) /\ Head(queue) \in Clients
      BY <2>2 DEF Enqueue, AdmissionTypeOK
    <3>2. phase[Head(queue)] = "waiting"
      <4>1. Occurs(Head(queue), queue)
        BY <2>2 DEF Occurs, AdmissionTypeOK
      <4> QED BY <4>1, <3>1, PlacesMeaning DEF Places
    <3>3. weight'[Head(queue)] = weight[Head(queue)]
      BY <3>1, <3>2 DEF Enqueue, AdmissionTypeOK
    <3> QED BY <3>1, <3>3, <2>2 DEF Enqueue, HeadDoesNotFit, CanAdmit, Fits, Plus
  <2> QED BY <2>1, <2>2
<1> QED BY <1>1, <1>2, <1>3, <1>4, PlacesMeaningNext

LEMMA ClaimKeeps ==
  ASSUME AdmissionInv, NEW c \in Clients, Claim(c)
  PROVE  AdmissionInv'
<1> USE DEF AdmissionInv
<1>1. AdmissionTypeOK'
  BY DEF AdmissionTypeOK, Claim
<1>2. Places(queue', phase', granted')
  BY PlacesMeaning DEF Places, Claim, AdmissionTypeOK
<1>3. WithinCapacity' /\ HeadDoesNotFit'
  BY DEF Claim, WithinCapacity, Fits, HeadDoesNotFit, CanAdmit, Plus
<1> QED BY <1>1, <1>2, <1>3, PlacesMeaningNext

LEMMA GiveUpKeeps ==
  ASSUME AdmissionInv, NEW c \in Clients, GiveUp(c)
  PROVE  AdmissionInv'
<1> USE DEF AdmissionInv
<1>1. weight[c] \in Vectors /\ NoWeight \in Vectors /\ config.queue \in Nat
  BY ConfigsAssumption DEF AdmissionTypeOK, NoWeight, Vectors
<1>2. Distinct(queue) /\ queue \in Seq(Clients) /\ queue' = Dropped(queue, c)
  BY PlacesMeaning DEF Places, AdmissionTypeOK, GiveUp
<1>3. /\ queue' \in Seq(Clients) /\ Len(queue') <= Len(queue) /\ Distinct(queue')
      /\ \A x : Occurs(x, queue') <=> Occurs(x, queue) /\ x # c
  BY <1>2, DroppedIsQueue
<1>4. used' \in [Resources -> Int] /\ WithinCapacity'
  <2>1. CASE c \in granted
    <3>1. used' = Minus(used, weight[c]) /\ config' = config
      BY <2>1 DEF GiveUp, ChargeWithout
    <3>2. Fits(Minus(used, weight[c]))
      BY <1>1, MinusFits DEF AdmissionTypeOK, WithinCapacity
    <3> QED BY <3>1, <3>2, <1>1, VectorTypes DEF AdmissionTypeOK, WithinCapacity, Fits
  <2>2. CASE c \notin granted
    BY <2>2 DEF GiveUp, ChargeWithout, AdmissionTypeOK, WithinCapacity, Fits
  <2> QED BY <2>1, <2>2
<1>5. AdmissionTypeOK'
  BY <1>1, <1>3, <1>4 DEF AdmissionTypeOK, GiveUp, RunsSchedule
<1>6. Places(queue', phase', granted')
  BY <1>3, PlacesMeaning DEF Places, GiveUp, AdmissionTypeOK
<1>7. HeadDoesNotFit'
  BY DEF GiveUp, RunsSchedule, HeadDoesNotFit
<1> QED BY <1>4, <1>5, <1>6, <1>7, PlacesMeaningNext

LEMMA ReleaseKeeps ==
  ASSUME AdmissionInv, NEW c \in Clients, Release(c)
  PROVE  AdmissionInv'
<1> USE DEF AdmissionInv
<1>1. weight[c] \in Vectors /\ NoWeight \in Vectors /\ config.queue \in Nat
  BY ConfigsAssumption DEF AdmissionTypeOK, NoWeight, Vectors
<1>2. used' = Minus(used, weight[c]) /\ config' = config
  BY DEF Release
<1>3. Fits(Minus(used, weight[c]))
  BY <1>1, MinusFits DEF AdmissionTypeOK, WithinCapacity
<1>4. WithinCapacity'
  BY <1>2, <1>3 DEF WithinCapacity, Fits
<1>5. AdmissionTypeOK'
  BY <1>1, <1>2, VectorTypes DEF AdmissionTypeOK, Release, RunsSchedule
<1>6. Places(queue', phase', granted')
  BY PlacesMeaning DEF Places, Release, AdmissionTypeOK
<1>7. HeadDoesNotFit'
  BY DEF Release, RunsSchedule, HeadDoesNotFit
<1> QED BY <1>4, <1>5, <1>6, <1>7, PlacesMeaningNext

LEMMA ScheduleKeeps ==
  ASSUME AdmissionInv, Schedule
  PROVE  AdmissionInv'
<1> USE DEF AdmissionInv
<1>1. CASE queue # <<>> /\ CanAdmit(used, weight[Head(queue)])
  <2> DEFINE h == Head(queue)
  <2>1. /\ queue \in Seq(Clients) /\ queue # <<>> /\ h \in Clients /\ weight[h] \in Vectors
        /\ queue' = Tail(queue) /\ used' = Plus(used, weight[h]) /\ granted' = granted \cup {h}
        /\ config' = config /\ phase' = phase /\ weight' = weight /\ scheduling' = scheduling
    BY <1>1 DEF Schedule, AdmissionTypeOK
  <2>2. /\ Len(queue) \in Nat \ {0} /\ Len(queue') = Len(queue) - 1
        /\ queue' \in Seq(Clients)
        /\ \A i \in 1..Len(queue') : queue'[i] = queue[i + 1]
        /\ h = queue[1]
    BY <2>1
  <2>3. AdmissionTypeOK'
    <3>1. config.queue \in Nat
      BY ConfigsAssumption DEF AdmissionTypeOK
    <3>2. used' \in [Resources -> Int]
      BY <2>1, VectorTypes DEF AdmissionTypeOK
    <3> QED BY <2>1, <2>2, <3>1, <3>2 DEF AdmissionTypeOK
  <2>4. Places(queue', phase', granted')
    <3>1. Places(queue, phase, granted)
      BY PlacesMeaning
    <3>2. Distinct(queue')
      BY <2>2, <3>1 DEF Distinct, Places
    <3>3. ~Occurs(h, queue')
      <4>1. \A i \in 1..Len(queue') : i + 1 \in 1..Len(queue) /\ i + 1 # 1 /\ 1 \in 1..Len(queue)
        BY <2>2
      <4> QED BY <4>1, <2>2, <3>1 DEF Distinct, Places, Occurs
    <3>4. \A x : Occurs(x, queue') => Occurs(x, queue)
      <4>1. \A i \in 1..Len(queue') : i + 1 \in 1..Len(queue)
        BY <2>2
      <4> QED BY <4>1, <2>2 DEF Occurs
    <3>5. \A x : Occurs(x, queue) => Occurs(x, queue') \/ x = h
      <4>1. ASSUME NEW i \in 1..Len(queue), i # 1
            PROVE  \E j \in 1..Len(queue') : queue[i] = queue'[j]
        <5>1. i - 1 \in 1..Len(queue') /\ queue'[i - 1] = queue[i]
          BY <4>1, <2>2
        <5> QED BY <5>1
      <4> QED BY <4>1, <2>2 DEF Occurs
    <3>6. Occurs(h, queue)
      BY <2>2 DEF Occurs
    <3> QED BY <2>1, <3>1, <3>2, <3>3, <3>4, <3>5, <3>6 DEF Places
  <2>5. WithinCapacity'
    BY <1>1, <2>1 DEF WithinCapacity, CanAdmit, Fits
  <2>6. HeadDoesNotFit'
    BY <2>1 DEF HeadDoesNotFit, Schedule
  <2> QED BY <2>3, <2>4, <2>5, <2>6, PlacesMeaningNext
<1>2. CASE ~(queue # <<>> /\ CanAdmit(used, weight[Head(queue)]))
  <2>1. UNCHANGED <<config, used, granted, queue, phase, weight>> /\ scheduling' = FALSE
    BY <1>2 DEF Schedule
  <2>2. AdmissionTypeOK'
    BY <2>1 DEF AdmissionTypeOK
  <2>3. OnePlaceEach' /\ WithinCapacity'
    BY <2>1 DEF OnePlaceEach, InQueue, WithinCapacity, Fits
  <2>4. HeadDoesNotFit'
    BY <1>2, <2>1 DEF HeadDoesNotFit, CanAdmit, Fits, Plus
  <2> QED BY <2>2, <2>3, <2>4
<1> QED BY <1>1, <1>2

LEMMA AdmissionStep ==
  ASSUME AdmissionInv, [AdmissionNext]_admission
  PROVE  AdmissionInv'
<1>1. CASE UNCHANGED admission
  BY <1>1 DEF admission, AdmissionInv, AdmissionTypeOK, OnePlaceEach, InQueue, WithinCapacity,
              Fits, HeadDoesNotFit, CanAdmit, Plus
<1>2. CASE \E c \in Clients, w \in Weights : Admit(c, w) \/ Enqueue(c, w)
  BY <1>2, AdmitKeeps, EnqueueKeeps
<1>3. CASE \E c \in Clients, w \in Weights : Refused(c, w)
  BY <1>1, <1>3 DEF Refused
<1>4. CASE \E c \in Clients : Claim(c) \/ GiveUp(c) \/ Release(c)
  BY <1>4, ClaimKeeps, GiveUpKeeps, ReleaseKeeps
<1>5. CASE Schedule
  BY <1>5, ScheduleKeeps
<1> QED BY <1>1, <1>2, <1>3, <1>4, <1>5 DEF AdmissionNext

\* Who takes a charge is at the head of the queue or finds it empty.
LEMMA NobodyOvertakes ==
  ASSUME AdmissionInv, AdmissionNext, NEW c \in Clients, c \in Charged' \ Charged
  PROVE  queue = <<>> \/ c = Head(queue)
<1> USE DEF AdmissionInv, AdmissionTypeOK, Charged
<1>1. ASSUME NEW d \in Clients, NEW w \in Weights, Admit(d, w)
      PROVE  queue = <<>>
  BY <1>1 DEF Admit, Admissible
<1>2. ASSUME NEW d \in Clients, NEW w \in Weights, Enqueue(d, w) \/ Refused(d, w)
      PROVE  FALSE
  BY <1>2 DEF Enqueue, Refused, admission
<1>3. ASSUME NEW d \in Clients, Claim(d) \/ GiveUp(d) \/ Release(d)
      PROVE  FALSE
  BY <1>3 DEF Claim, GiveUp, Release
<1>4. CASE Schedule
  BY <1>4 DEF Schedule
<1> QED BY <1>1, <1>2, <1>3, <1>4 DEF AdmissionNext

\* Admission by itself: capacity is kept, a waiter has one place, and no
\* capacity lies idle in front of the queue, for every set of clients, every
\* vector of weights and every configuration (admission.rs).
THEOREM AdmissionIsSafe ==
  AdmissionSpec => [](OnePlaceEach /\ WithinCapacity /\ HeadDoesNotFit) /\ NoOvertaking
<1>1. AdmissionInit => AdmissionInv
  BY AdmissionStarts
<1>2. AdmissionInv /\ [AdmissionNext]_admission => AdmissionInv'
  BY AdmissionStep
<1>3. AdmissionInv => OnePlaceEach /\ WithinCapacity /\ HeadDoesNotFit
  BY DEF AdmissionInv
<1>4. AdmissionInv /\ [AdmissionNext]_admission =>
        [\A c \in Clients : c \in Charged' \ Charged => queue = <<>> \/ c = Head(queue)]_admission
  BY NobodyOvertakes
<1> QED BY <1>1, <1>2, <1>3, <1>4, PTL DEF AdmissionSpec, NoOvertaking

-----------------------------------------------------------------------------
(* What is charged, to the unit. *)

UnitsOf(C, w, r) == UNION {{c} \X (1..w[c][r]) : c \in C}

LEMMA ChargeOfOne ==
  ASSUME NEW c, NEW n \in Nat
  PROVE  IsFiniteSet({c} \X (1..n)) /\ Cardinality({c} \X (1..n)) = n
<1>1. IsFiniteSet({c}) /\ Cardinality({c}) = 1
  BY FS_Singleton
<1>2. IsFiniteSet(1..n) /\ Cardinality(1..n) = n
  <2>1. /\ IsFiniteSet(1..n)
        /\ Cardinality(1..n) = IF 1 > n THEN 0 ELSE n - 1 + 1
    BY FS_Interval
  <2> QED BY <2>1
<1>3. /\ IsFiniteSet({c} \X (1..n))
      /\ Cardinality({c} \X (1..n)) = Cardinality({c}) * Cardinality(1..n)
  BY <1>1, <1>2, FS_Product
<1> QED BY <1>1, <1>2, <1>3

\* D is C and one more, c, and the members of C weigh under w what they do under v.
OneMore(C, D, c, v, w, r) ==
  /\ c \notin C /\ D = C \cup {c}
  /\ w[c][r] \in Nat
  /\ \A d \in C : v[d] = w[d]
  /\ IsFiniteSet(UnitsOf(C, v, r))

\* One more client is charged its weight and nobody else's charge moves.
LEMMA OneMoreCharge ==
  ASSUME NEW C, NEW D, NEW c, NEW v, NEW w, NEW r, OneMore(C, D, c, v, w, r)
  PROVE  /\ IsFiniteSet(UnitsOf(D, w, r))
         /\ Cardinality(UnitsOf(D, w, r)) = Cardinality(UnitsOf(C, v, r)) + w[c][r]
<1>. /\ c \notin C /\ D = C \cup {c} /\ w[c][r] \in Nat
    /\ \A d \in C : v[d] = w[d]
  BY DEF OneMore
<1>0. IsFiniteSet(UnitsOf(C, v, r))
  BY DEF OneMore
<1> DEFINE one == {c} \X (1..w[c][r])
           others == UnitsOf(C, v, r)
<1>1. UnitsOf(D, w, r) = others \cup one
  <2>1. \A x : x \in UnitsOf(D, w, r) <=> \E d \in D : x \in {d} \X (1..w[d][r])
    BY DEF UnitsOf
  <2>2. \A x : x \in others <=> \E d \in C : x \in {d} \X (1..v[d][r])
    BY DEF UnitsOf
  <2>3. \A x : x \in others <=> \E d \in C : x \in {d} \X (1..w[d][r])
    BY <2>2
  <2> HIDE DEF others
  <2>4. \A x : x \in UnitsOf(D, w, r) <=> x \in others \/ x \in one
    BY <2>1, <2>3
  <2> QED BY <2>4
<1>2. others \cap one = {}
  <2>1. \A x \in others : x[1] \in C
    BY DEF UnitsOf
  <2>2. \A x \in one : x[1] = c
    OBVIOUS
  <2> QED BY <2>1, <2>2
<1>3. IsFiniteSet(one) /\ Cardinality(one) = w[c][r]
  BY ChargeOfOne
<1>4. Cardinality(others \cap one) = 0
  BY <1>2, FS_EmptySet
<1>5. /\ IsFiniteSet(others \cup one)
      /\ Cardinality(others \cup one)
           = Cardinality(others) + Cardinality(one) - Cardinality(others \cap one)
  <2>1. IsFiniteSet(others)
    BY ONLY <1>0
  <2> HIDE DEF others, one
  <2> QED BY <2>1, <1>3, FS_Union
<1>6. Cardinality(others) \in Nat
  BY ONLY <1>0, FS_CardinalityType
<1> HIDE DEF others, one
<1>7. Cardinality(others \cup one) = Cardinality(others) + w[c][r]
  BY <1>3, <1>4, <1>5, <1>6
<1> QED BY <1>1, <1>5, <1>7 DEF others

Exact(C, w, u) ==
  \A r \in Resources : IsFiniteSet(UnitsOf(C, w, r)) /\ u[r] = Cardinality(UnitsOf(C, w, r))

LEMMA ExactAfterOneMore ==
  ASSUME NEW C, NEW D, NEW c, NEW v, NEW w, NEW u,
         c \notin C, D = C \cup {c}, w[c] \in Vectors, \A d \in C : v[d] = w[d], Exact(C, v, u)
  PROVE  Exact(D, w, Plus(u, w[c]))
<1> SUFFICES ASSUME NEW r \in Resources
             PROVE  /\ IsFiniteSet(UnitsOf(D, w, r))
                    /\ Plus(u, w[c])[r] = Cardinality(UnitsOf(D, w, r))
  BY DEF Exact
<1>1. w[c][r] \in Nat
  BY DEF Vectors
<1>2. IsFiniteSet(UnitsOf(C, v, r)) /\ u[r] = Cardinality(UnitsOf(C, v, r))
  BY DEF Exact
<1>3. /\ IsFiniteSet(UnitsOf(D, w, r))
      /\ Cardinality(UnitsOf(D, w, r)) = Cardinality(UnitsOf(C, v, r)) + w[c][r]
  <2>1. OneMore(C, D, c, v, w, r)
    BY <1>1, <1>2 DEF OneMore
  <2>2. /\ IsFiniteSet(UnitsOf(D, w, r))
        /\ Cardinality(UnitsOf(D, w, r)) = Cardinality(UnitsOf(C, v, r)) + w[c][r]
    BY ONLY <2>1, OneMoreCharge
  <2> QED BY <2>2
<1>4. Plus(u, w[c])[r] = u[r] + w[c][r]
  BY DEF Plus
<1> QED BY <1>2, <1>3, <1>4

LEMMA ExactAfterOneLess ==
  ASSUME NEW C, NEW D, NEW c, NEW v, NEW w, NEW u,
         c \in C, D = C \ {c}, v[c] \in Vectors, \A d \in D : v[d] = w[d], Exact(C, v, u)
  PROVE  Exact(D, w, Minus(u, v[c]))
<1> SUFFICES ASSUME NEW r \in Resources
             PROVE  /\ IsFiniteSet(UnitsOf(D, w, r))
                    /\ Minus(u, v[c])[r] = Cardinality(UnitsOf(D, w, r))
  BY DEF Exact
<1>1. v[c][r] \in Nat
  BY DEF Vectors
<1>2. IsFiniteSet(UnitsOf(C, v, r)) /\ u[r] = Cardinality(UnitsOf(C, v, r))
  BY DEF Exact
<1>3. IsFiniteSet(UnitsOf(D, w, r))
  <2>1. UnitsOf(D, w, r) \subseteq UnitsOf(C, v, r)
    <3>1. \A d \in D : d \in C /\ v[d] = w[d]
      OBVIOUS
    <3>2. \A x \in UnitsOf(D, w, r) : \E d \in D : x \in {d} \X (1..w[d][r])
      BY DEF UnitsOf
    <3>3. \A x, d : d \in C /\ x \in {d} \X (1..v[d][r]) => x \in UnitsOf(C, v, r)
      BY DEF UnitsOf
    <3>4. ASSUME NEW x \in UnitsOf(D, w, r) PROVE x \in UnitsOf(C, v, r)
      <4>1. PICK d \in D : x \in {d} \X (1..w[d][r])
        BY ONLY <3>2, <3>4
      <4>2. d \in C /\ v[d] = w[d]
        BY ONLY <3>1, <4>1
      <4>3. x \in {d} \X (1..v[d][r])
        BY ONLY <4>1, <4>2
      <4> QED BY ONLY <3>3, <4>2, <4>3
    <3> QED BY ONLY <3>4
  <2> QED BY <1>2, <2>1, FS_Subset
<1>4. Cardinality(UnitsOf(C, v, r)) = Cardinality(UnitsOf(D, w, r)) + v[c][r]
  <2>1. c \notin D /\ C = D \cup {c} /\ \A d \in D : w[d] = v[d]
    OBVIOUS
  <2>2. OneMore(D, C, c, w, v, r)
    BY ONLY <1>1, <1>3, <2>1 DEF OneMore
  <2> QED BY ONLY <2>2, OneMoreCharge
<1>5. Minus(u, v[c])[r] = u[r] - v[c][r]
  BY DEF Minus
<1>6. Cardinality(UnitsOf(D, w, r)) \in Nat
  BY <1>3, FS_CardinalityType
<1> QED BY <1>1, <1>2, <1>3, <1>4, <1>5, <1>6

LEMMA ExactAsBefore ==
  ASSUME NEW C, NEW v, NEW w, NEW u, \A d \in C : v[d] = w[d], Exact(C, v, u)
  PROVE  Exact(C, w, u)
<1>1. \A r : UnitsOf(C, w, r) = UnitsOf(C, v, r)
  BY DEF UnitsOf
<1> QED BY <1>1 DEF Exact

ChargeInv == Exact(Charged, weight, used)

LEMMA ChargeStarts == AdmissionInit => ChargeInv
<1> SUFFICES ASSUME AdmissionInit PROVE ChargeInv
  OBVIOUS
<1>1. Charged = {} /\ used = NoWeight
  BY DEF AdmissionInit, Charged
<1>2. \A r : UnitsOf({}, weight, r) = {}
  BY DEF UnitsOf
<1>3. \A r \in Resources : used[r] = 0
  BY <1>1 DEF NoWeight
<1>4. IsFiniteSet({}) /\ Cardinality({}) = 0
  BY FS_EmptySet
<1> QED BY <1>1, <1>2, <1>3, <1>4 DEF ChargeInv, Exact

\* Whoever holds a charge is no newcomer and no ungranted waiter.
LEMMA ChargedAreKnown ==
  ASSUME AdmissionInv, NEW c \in Clients
  PROVE  /\ phase[c] = "out" => c \notin Charged
         /\ phase[c] = "waiting" /\ c \notin granted => c \notin Charged
         /\ phase[c] = "holding" => c \in Charged /\ c \notin granted
         /\ c \in InQueue => c \notin Charged
<1>1. phase[c] = "waiting" <=> c \in InQueue \cup granted
  BY DEF AdmissionInv, OnePlaceEach
<1>2. granted \cap InQueue = {}
  BY DEF AdmissionInv, OnePlaceEach
<1>3. phase[c] \in {"out", "waiting", "holding"}
  BY DEF AdmissionInv, AdmissionTypeOK
<1> QED BY <1>1, <1>2, <1>3 DEF Charged

LEMMA ChargeStep ==
  ASSUME AdmissionInv, ChargeInv, [AdmissionNext]_admission
  PROVE  ChargeInv'
<1> USE DEF ChargeInv
<1>1. /\ phase \in [Clients -> {"out", "waiting", "holding"}]
      /\ weight \in [Clients -> Vectors] /\ granted \in SUBSET Clients /\ queue \in Seq(Clients)
  BY DEF AdmissionInv, AdmissionTypeOK
<1>2. CASE UNCHANGED admission
  BY <1>2 DEF admission, Charged
<1>3. ASSUME NEW c \in Clients, NEW w \in Weights, Admit(c, w)
      PROVE  ChargeInv'
  <2>1. /\ phase[c] = "out" /\ phase' = [phase EXCEPT ![c] = "holding"]
        /\ weight' = [weight EXCEPT ![c] = w] /\ granted' = granted /\ used' = Plus(used, w)
    BY <1>3 DEF Admit
  <2>2. c \notin Charged
    BY <2>1, ChargedAreKnown
  <2>3. Charged' = Charged \cup {c}
    BY <1>1, <2>1 DEF Charged
  <2>4. weight'[c] = w /\ w \in Vectors /\ \A d \in Charged : weight[d] = weight'[d]
    BY <1>1, <2>1, <2>2, WeightsAssumption DEF Charged
  <2>5. Exact(Charged', weight', Plus(used, weight'[c]))
    BY <2>2, <2>3, <2>4, ExactAfterOneMore
  <2> QED BY <2>1, <2>4, <2>5
<1>4. ASSUME NEW c \in Clients, NEW w \in Weights, Enqueue(c, w)
      PROVE  ChargeInv'
  <2>1. /\ phase[c] = "out" /\ phase' = [phase EXCEPT ![c] = "waiting"]
        /\ weight' = [weight EXCEPT ![c] = w] /\ granted' = granted /\ used' = used
    BY <1>4 DEF Enqueue
  <2>2. c \notin Charged
    BY <2>1, ChargedAreKnown
  <2>3. Charged' = Charged
    BY <1>1, <2>1 DEF Charged
  <2>4. \A d \in Charged : weight[d] = weight'[d]
    BY <1>1, <2>1, <2>2 DEF Charged
  <2>5. Exact(Charged, weight', used)
    BY <2>4, ExactAsBefore
  <2> QED BY <2>1, <2>3, <2>5
<1>5. ASSUME NEW c \in Clients, NEW w \in Weights, Refused(c, w)
      PROVE  ChargeInv'
  BY <1>2, <1>5 DEF Refused
<1>6. ASSUME NEW c \in Clients, Claim(c)
      PROVE  ChargeInv'
  <2>1. /\ phase[c] = "waiting" /\ c \in granted /\ phase' = [phase EXCEPT ![c] = "holding"]
        /\ weight' = weight /\ granted' = granted \ {c} /\ used' = used
    BY <1>6 DEF Claim
  <2>2. Charged' = Charged
    BY <1>1, <2>1 DEF Charged
  <2> QED BY <2>1, <2>2
<1>7. ASSUME NEW c \in Clients, GiveUp(c)
      PROVE  ChargeInv'
  <2>1. /\ phase[c] = "waiting" /\ phase' = [phase EXCEPT ![c] = "out"]
        /\ weight' = [weight EXCEPT ![c] = NoWeight] /\ granted' = granted \ {c}
        /\ used' = ChargeWithout(c)
    BY <1>7 DEF GiveUp
  <2>2. Charged' = Charged \ {c}
    BY <1>1, <2>1 DEF Charged
  <2>3. \A d \in Charged' : weight[d] = weight'[d]
    BY <1>1, <2>1, <2>2 DEF Charged
  <2>4. CASE c \in granted
    <3>1. c \in Charged /\ weight[c] \in Vectors /\ used' = Minus(used, weight[c])
      BY <1>1, <2>1, <2>4 DEF Charged, ChargeWithout
    <3>2. Exact(Charged', weight', Minus(used, weight[c]))
      BY <2>2, <2>3, <3>1, ExactAfterOneLess
    <3> QED BY <3>1, <3>2
  <2>5. CASE c \notin granted
    <3>1. used' = used /\ Charged' = Charged
      BY <2>1, <2>2, <2>5, ChargedAreKnown DEF ChargeWithout
    <3>2. Exact(Charged, weight', used)
      BY <2>3, <3>1, ExactAsBefore
    <3> QED BY <3>1, <3>2
  <2> QED BY <2>4, <2>5
<1>8. ASSUME NEW c \in Clients, Release(c)
      PROVE  ChargeInv'
  <2>1. /\ phase[c] = "holding" /\ phase' = [phase EXCEPT ![c] = "out"]
        /\ weight' = [weight EXCEPT ![c] = NoWeight] /\ granted' = granted
        /\ used' = Minus(used, weight[c])
    BY <1>8 DEF Release
  <2>2. c \in Charged /\ c \notin granted /\ weight[c] \in Vectors
    BY <1>1, <2>1, ChargedAreKnown
  <2>3. Charged' = Charged \ {c}
    BY <1>1, <2>1, <2>2 DEF Charged
  <2>4. \A d \in Charged' : weight[d] = weight'[d]
    BY <1>1, <2>1, <2>3 DEF Charged
  <2>5. Exact(Charged', weight', Minus(used, weight[c]))
    BY <2>2, <2>3, <2>4, ExactAfterOneLess
  <2> QED BY <2>1, <2>5
<1>9. CASE Schedule
  <2> DEFINE h == Head(queue)
  <2>1. CASE queue # <<>> /\ CanAdmit(used, weight[h])
    <3>1. /\ weight' = weight /\ phase' = phase /\ granted' = granted \cup {h}
          /\ used' = Plus(used, weight[h])
      BY <1>9, <2>1 DEF Schedule
    <3>2. h \in Clients /\ h \in InQueue
      BY <1>1, <2>1 DEF InQueue
    <3>3. h \notin Charged /\ weight[h] \in Vectors
      BY <1>1, <3>2, ChargedAreKnown
    <3> HIDE DEF h
    <3>4. Charged' = Charged \cup {h}
      BY <3>1 DEF Charged
    <3>5. Exact(Charged', weight, Plus(used, weight[h]))
      BY <3>3, <3>4, ExactAfterOneMore
    <3> QED BY <3>1, <3>5
  <2>2. CASE ~(queue # <<>> /\ CanAdmit(used, weight[h]))
    <3>1. UNCHANGED <<weight, phase, granted, used>>
      BY <1>9, <2>2 DEF Schedule
    <3> QED BY <3>1 DEF Charged
  <2> QED BY <2>1, <2>2
<1> QED BY <1>2, <1>3, <1>4, <1>5, <1>6, <1>7, <1>8, <1>9 DEF AdmissionNext

\* The charge is the sum of the charged weights, to the unit: a timeout that
\* races a grant neither loses nor returns a charge twice (the expects on
\* checked_sub in QueuedAdmission::drop and ColdPermit::drop).
THEOREM NoChargeIsLost == AdmissionSpec => []ChargesAreExact
<1>1. AdmissionInit => AdmissionInv /\ ChargeInv
  BY AdmissionStarts, ChargeStarts
<1>2. AdmissionInv /\ ChargeInv /\ [AdmissionNext]_admission => AdmissionInv' /\ ChargeInv'
  BY AdmissionStep, ChargeStep
<1>3. ChargeInv => ChargesAreExact
  BY DEF ChargeInv, Exact, ChargesAreExact, ChargedUnits, UnitsOf
<1> QED BY <1>1, <1>2, <1>3, PTL DEF AdmissionSpec

-----------------------------------------------------------------------------
(* The loader uses admission as specified. *)

KeysTyped == key \in [Callers -> Keys]

LEMMA KeysStay ==
  ASSUME KeysTyped, [Next]_vars
  PROVE  KeysTyped'
<1>1. ASSUME NEW c \in Callers, CallerStep(c)
      PROVE  key' = key
  BY <1>1 DEF CallerStep, Lookup, JoinFlight, Await, Return, Go, LeaveSeats, Follow, Lead, TakeSeat,
              Arm, Look, flights
<1>2. ASSUME NEW f \in Callers, WorkerStep(f) \/ TimesOut(f) \/ Panic(f)
      PROVE  key' = key
  BY <1>2 DEF WorkerStep, Recheck, Ask, Granted, TimesOut, Build, Panic, Reach, flights
<1>3. ASSUME NEW f \in Callers, Coordinate(f)
      PROVE  key' = key
  BY <1>3 DEF Coordinate, Settle, Notify, Unregister
<1>4. Standby \/ Turn \/ UNCHANGED vars => key' = key
  BY DEF Standby, Turn, vars, flights
<1>5. key' = key
  <2>1. \/ \E c \in Callers : \/ CallerStep(c) \/ WorkerStep(c) \/ Coordinate(c)
                              \/ TimesOut(c) \/ Panic(c)
        \/ Standby \/ Turn \/ UNCHANGED vars
    BY DEF Next, Progress
  <2> QED BY <1>1, <1>2, <1>3, <1>4, <2>1
<1> QED BY <1>5 DEF KeysTyped

LEMMA KeysStart == Init => KeysTyped
BY CallersAssumption DEF Init, FlightsInit, KeysTyped, AdmissionInit

LEMMA LoaderStepsAdmission ==
  ASSUME KeysTyped, [Next]_vars
  PROVE  [AdmissionNext]_admission
<1>1. ASSUME NEW c \in Callers, CallerStep(c) \/ Coordinate(c) \/ Panic(c)
      PROVE  UNCHANGED admission
  BY <1>1 DEF CallerStep, Lookup, JoinFlight, Await, Coordinate, Panic
<1>2. ASSUME NEW f \in Callers, Recheck(f)
      PROVE  UNCHANGED admission
  BY <1>2 DEF Recheck
<1>3. ASSUME NEW f \in Callers, Ask(f)
      PROVE  AdmissionNext
  <2>1. f \in Clients /\ ColdWeight[key[f]] \in Weights
    BY CallersAssumption, LimitsAssumption DEF KeysTyped
  <2>2. \E w \in Weights : Admit(f, w) \/ Enqueue(f, w) \/ Refused(f, w)
    BY <1>3, <2>1 DEF Ask
  <2> QED BY <2>1, <2>2 DEF AdmissionNext
<1>4. ASSUME NEW f \in Callers, Granted(f) \/ TimesOut(f) \/ Build(f)
      PROVE  AdmissionNext
  BY <1>4, CallersAssumption DEF Granted, TimesOut, Build, AdmissionNext
<1>5. CASE Turn
  BY <1>5 DEF Turn, AdmissionNext
<1>6. CASE Standby
  BY <1>6 DEF Standby
<1>7. CASE UNCHANGED vars
  BY <1>7 DEF vars
<1> QED BY <1>1, <1>2, <1>3, <1>4, <1>5, <1>6, <1>7 DEF Next, Progress, WorkerStep

\* The loader, with its flights, caches, panics and aborted requests, is an
\* implementation of Admission (loader.rs against admission.rs).
THEOREM LoaderImplementsAdmission == Spec => AdmissionSpec
<1>1. Init => AdmissionInit /\ KeysTyped
  BY KeysStart DEF Init
<1>2. KeysTyped /\ [Next]_vars => KeysTyped'
  BY KeysStay
<1>3. KeysTyped /\ [Next]_vars => [AdmissionNext]_admission
  BY LoaderStepsAdmission
<1> QED BY <1>1, <1>2, <1>3, PTL DEF Spec, AdmissionSpec

\* What admission promises holds in the loader: a timeout that meets a grant,
\* a release, a panic or an abort neither exceeds the capacity nor leaves a
\* waiter in front of idle capacity, and nobody is overtaken.
THEOREM LoaderKeepsAdmission ==
  Spec => [](OnePlaceEach /\ WithinCapacity /\ HeadDoesNotFit) /\ NoOvertaking
BY LoaderImplementsAdmission, AdmissionIsSafe, PTL

-----------------------------------------------------------------------------
(* Flights. *)

FlightTypes ==
  /\ key \in [Callers -> Keys] /\ maxEntries \in Nat
  /\ active \in [Keys -> Callers \cup {None}]
  /\ coord \in [Callers -> {"none", "running", "settled", "notified"}]
  /\ outcome \in [Callers -> Answers \cup {None}]
  /\ seat \in [Callers -> {"none", "joined", "armed", "asleep"}]
  /\ on \in [Callers -> Callers \cup {None}]
  /\ woken \in [Callers -> BOOLEAN]

\* The registry holds exactly the flights whose coordinator has not ended.
RegistryExact ==
  /\ \A f \in Callers : coord[f] # "none" => active[key[f]] = f
  /\ \A k \in Keys : active[k] # None => key[active[k]] = k /\ coord[active[k]] # "none"

\* A caller with a seat waits for a flight of its key.
SeatsOnFlights ==
  \A c \in Callers :
    /\ seat[c] = "none" <=> on[c] = None
    /\ on[c] # None => key[on[c]] = key[c]

\* A flight that no longer runs has its result as long as anyone may ask.
ResultKept ==
  /\ \A f \in Callers : coord[f] \in {"settled", "notified"} => outcome[f] # None
  /\ \A c \in Callers : on[c] # None /\ coord[on[c]] # "running" => outcome[on[c]] # None

\* A caller that has not joined leads nothing and nobody waits for it.
NotYetLeading ==
  \A c \in Callers : step[c] \in {"new", "spawned", "join"} =>
    coord[c] = "none" /\ seat[c] = "none" /\ \A d \in Callers : on[d] # c

FlightInv ==
  /\ FlightTypes /\ RegistryExact /\ SeatsOnFlights /\ ResultKept /\ NoLostWakeup
  /\ Cardinality(Registered) <= maxEntries
StepTypes == step \in [Callers -> {"new", "spawned", "join", "await", "loaded", "gap", "failed", "aborted"}]
LoaderInv == FlightInv /\ StepTypes /\ NotYetLeading

LEMMA RegisteredFinite == IsFiniteSet(Registered)
BY FlightsAssumption, FS_Subset DEF Registered

LEMMA RegisteredFiniteNext == IsFiniteSet(Registered')
<1>1. Registered' \subseteq Keys
  BY DEF Registered
<1> QED BY <1>1, FlightsAssumption, FS_Subset

LEMMA SameRegistry ==
  ASSUME active' = active, maxEntries' = maxEntries, Cardinality(Registered) <= maxEntries
  PROVE  Cardinality(Registered') <= maxEntries'
BY DEF Registered

LEMMA LeaveKeeps ==
  ASSUME FlightInv, NEW C \in SUBSET Callers, LeaveSeats(C)
  PROVE  /\ FlightInv' /\ coord' = coord
         /\ \A c \in Callers : (on'[c] # None => on'[c] = on[c]) /\ (seat[c] = "none" => seat'[c] = "none")
<1> USE DEF FlightInv
<1>1. /\ UNCHANGED <<maxEntries, key, active, coord>>
      /\ seat' = [c \in Callers |-> IF c \in C THEN "none" ELSE seat[c]]
      /\ on' = [c \in Callers |-> IF c \in C THEN None ELSE on[c]]
      /\ woken' = [c \in Callers |-> woken[c] /\ c \notin C]
      /\ outcome' = [f \in Callers |-> IF coord[f] = "none" /\ ~\E c \in Callers : on'[c] = f
                                       THEN None ELSE outcome[f]]
  BY DEF LeaveSeats, Freed
<1>2. FlightTypes'
  BY <1>1 DEF FlightTypes
<1>3. RegistryExact' /\ SeatsOnFlights'
  BY <1>1 DEF RegistryExact, SeatsOnFlights, FlightTypes
<1>4. ResultKept'
  BY <1>1 DEF ResultKept, FlightTypes
<1>5. NoLostWakeup'
  BY <1>1 DEF NoLostWakeup, FlightTypes
<1>6. Cardinality(Registered') <= maxEntries'
  BY <1>1, SameRegistry
<1> QED BY <1>1, <1>2, <1>3, <1>4, <1>5, <1>6, FlightsAssumption DEF FlightTypes

LEMMA FollowKeeps ==
  ASSUME FlightInv, NEW c \in Callers, seat[c] = "none", Follow(c)
  PROVE  FlightInv'
<1> USE DEF FlightInv
<1> DEFINE f == active[key[c]]
<1>1. /\ UNCHANGED <<maxEntries, key, active, coord, outcome, woken>>
      /\ seat' = [seat EXCEPT ![c] = "joined"] /\ on' = [on EXCEPT ![c] = f]
      /\ f \in Callers /\ key[f] = key[c] /\ coord[f] # "none" /\ f # None
  BY FlightsAssumption DEF Follow, TakeSeat, FlightTypes, RegistryExact
<1>2. FlightTypes'
  BY <1>1 DEF FlightTypes
<1>3. RegistryExact' /\ SeatsOnFlights'
  BY <1>1 DEF RegistryExact, SeatsOnFlights, FlightTypes
<1>4. ResultKept'
  BY <1>1 DEF ResultKept, FlightTypes
<1>5. NoLostWakeup'
  BY <1>1 DEF NoLostWakeup, FlightTypes
<1> QED BY <1>1, <1>2, <1>3, <1>4, <1>5, SameRegistry

LEMMA LeadKeeps ==
  ASSUME FlightInv, NEW c \in Callers, Lead(c),
         coord[c] = "none", seat[c] = "none", \A d \in Callers : on[d] # c
  PROVE  FlightInv'
<1> USE DEF FlightInv
<1>1. /\ UNCHANGED <<maxEntries, key, outcome, woken>>
      /\ active[key[c]] = None /\ Cardinality(Registered) < maxEntries
      /\ active' = [active EXCEPT ![key[c]] = c]
      /\ coord' = [coord EXCEPT ![c] = "running"]
      /\ seat' = [seat EXCEPT ![c] = "joined"] /\ on' = [on EXCEPT ![c] = c]
      /\ key[c] \in Keys /\ c # None
  BY FlightsAssumption DEF Lead, TakeSeat, Room, FlightTypes
<1>2. FlightTypes'
  BY <1>1 DEF FlightTypes
<1>3. RegistryExact'
  <2>1. ASSUME NEW g \in Callers, coord'[g] # "none"
        PROVE  active'[key'[g]] = g
    <3>1. CASE g = c
      BY <3>1, <1>1 DEF FlightTypes
    <3>2. CASE g # c
      <4>1. active[key[g]] = g /\ g # None
        BY <3>2, <2>1, <1>1, FlightsAssumption DEF RegistryExact, FlightTypes
      <4>2. key[g] # key[c]
        BY <4>1, <1>1
      <4> QED BY <4>1, <4>2, <1>1 DEF FlightTypes
    <3> QED BY <3>1, <3>2
  <2>2. ASSUME NEW k \in Keys, active'[k] # None
        PROVE  key'[active'[k]] = k /\ coord'[active'[k]] # "none"
    BY <2>2, <1>1 DEF RegistryExact, FlightTypes
  <2> QED BY <2>1, <2>2 DEF RegistryExact
<1>4. SeatsOnFlights'
  BY <1>1 DEF SeatsOnFlights, FlightTypes
<1>5. ResultKept'
  BY <1>1 DEF ResultKept, FlightTypes
<1>6. NoLostWakeup'
  BY <1>1 DEF NoLostWakeup, FlightTypes, SeatsOnFlights
<1>7. Cardinality(Registered') <= maxEntries'
  <2>1. Registered' = Registered \cup {key[c]} /\ key[c] \notin Registered
    BY <1>1 DEF Registered, FlightTypes
  <2>2. Cardinality(Registered') = Cardinality(Registered) + 1
    BY <2>1, RegisteredFinite, FS_AddElement
  <2>3. Cardinality(Registered) \in Nat
    BY RegisteredFinite, FS_CardinalityType
  <2> QED BY <1>1, <2>2, <2>3 DEF FlightTypes
<1> QED BY <1>2, <1>3, <1>4, <1>5, <1>6, <1>7

LEMMA LoopKeeps ==
  ASSUME FlightInv, NEW c \in Callers, Arm(c) \/ Look(c)
  PROVE  FlightInv' /\ coord' = coord /\ on' = on /\ seat'[c] # "none"
                    /\ seat[c] # "none" /\ \A d \in Callers \ {c} : seat'[d] = seat[d]
<1> USE DEF FlightInv
<1>1. CASE Arm(c)
  <2>1. /\ UNCHANGED <<maxEntries, key, active, coord, outcome, on>>
        /\ seat' = [seat EXCEPT ![c] = "armed"] /\ woken' = [woken EXCEPT ![c] = FALSE]
        /\ seat[c] # "none"
    BY <1>1 DEF Arm
  <2>2. FlightTypes' /\ RegistryExact' /\ SeatsOnFlights' /\ ResultKept'
    BY <2>1 DEF FlightTypes, RegistryExact, SeatsOnFlights, ResultKept
  <2>3. NoLostWakeup'
    BY <2>1 DEF NoLostWakeup, FlightTypes
  <2> QED BY <2>1, <2>2, <2>3, SameRegistry DEF FlightTypes
<1>2. CASE Look(c)
  <2>1. /\ UNCHANGED <<maxEntries, key, active, coord, outcome, on, woken>>
        /\ seat' = [seat EXCEPT ![c] = "asleep"] /\ seat[c] = "armed" /\ outcome[on[c]] = None
    BY <1>2 DEF Look
  <2>2. FlightTypes' /\ RegistryExact' /\ SeatsOnFlights' /\ ResultKept'
    BY <2>1 DEF FlightTypes, RegistryExact, SeatsOnFlights, ResultKept
  <2>3. coord[on[c]] = "running"
    BY <2>1 DEF ResultKept, SeatsOnFlights
  <2>4. NoLostWakeup'
    BY <2>1, <2>3 DEF NoLostWakeup, FlightTypes
  <2> QED BY <2>1, <2>2, <2>4, SameRegistry DEF FlightTypes
<1> QED BY <1>1, <1>2

LEMMA SettleKeeps ==
  ASSUME FlightInv, NEW f \in Callers, NEW r \in Answers, Settle(f, r)
  PROVE  FlightInv' /\ seat' = seat /\ on' = on /\ \A d \in Callers : coord[d] = "none" => coord'[d] = "none"
<1> USE DEF FlightInv
<1>1. /\ UNCHANGED <<maxEntries, key, active, seat, on, woken>> /\ coord[f] = "running"
      /\ outcome' = [outcome EXCEPT ![f] = r] /\ coord' = [coord EXCEPT ![f] = "settled"]
      /\ r # None
  BY LimitsAssumption DEF Settle
<1>2. FlightTypes'
  BY <1>1 DEF FlightTypes
<1>3. RegistryExact' /\ SeatsOnFlights'
  BY <1>1 DEF RegistryExact, SeatsOnFlights, FlightTypes
<1>4. ResultKept'
  BY <1>1 DEF ResultKept, FlightTypes
<1>5. NoLostWakeup'
  BY <1>1 DEF NoLostWakeup, FlightTypes
<1> QED BY <1>1, <1>2, <1>3, <1>4, <1>5, SameRegistry DEF FlightTypes

LEMMA NotifyKeeps ==
  ASSUME FlightInv, NEW f \in Callers, Notify(f)
  PROVE  FlightInv' /\ seat' = seat /\ on' = on /\ \A d \in Callers : coord[d] = "none" => coord'[d] = "none"
<1> USE DEF FlightInv
<1>1. /\ UNCHANGED <<maxEntries, key, active, outcome, seat, on>> /\ coord[f] = "settled"
      /\ woken' = [c \in Callers |-> woken[c] \/ c \in Listeners(f)]
      /\ coord' = [coord EXCEPT ![f] = "notified"]
  BY DEF Notify
<1>2. FlightTypes'
  BY <1>1 DEF FlightTypes
<1>3. RegistryExact' /\ SeatsOnFlights'
  BY <1>1 DEF RegistryExact, SeatsOnFlights, FlightTypes
<1>4. ResultKept'
  BY <1>1 DEF ResultKept, FlightTypes
<1>5. NoLostWakeup'
  <2> SUFFICES ASSUME NEW c \in Callers, seat'[c] = "asleep"
               PROVE  woken'[c] \/ coord'[on'[c]] \in {"running", "settled"}
    BY DEF NoLostWakeup
  <2>1. CASE on[c] = f
    <3>1. c \in Listeners(f)
      BY <2>1, <1>1 DEF Listeners
    <3> QED BY <3>1, <1>1
  <2>2. CASE on[c] # f
    <3>1. woken[c] \/ coord[on[c]] \in {"running", "settled"}
      BY <1>1 DEF NoLostWakeup
    <3>2. woken[c] => woken'[c]
      BY <1>1
    <3>3. on[c] \in Callers
      BY <1>1 DEF SeatsOnFlights, FlightTypes
    <3>4. coord'[on'[c]] = coord[on[c]]
      BY <2>2, <3>3, <1>1 DEF FlightTypes
    <3> QED BY <3>1, <3>2, <3>4
  <2> QED BY <2>1, <2>2
<1> QED BY <1>1, <1>2, <1>3, <1>4, <1>5, SameRegistry DEF FlightTypes

LEMMA UnregisterKeeps ==
  ASSUME FlightInv, NEW f \in Callers, Unregister(f)
  PROVE  FlightInv' /\ seat' = seat /\ on' = on /\ \A d \in Callers : coord[d] = "none" => coord'[d] = "none"
<1> USE DEF FlightInv
<1>1. /\ UNCHANGED <<maxEntries, key, seat, on, woken>> /\ coord[f] = "notified"
      /\ active[key[f]] = f /\ active' = [active EXCEPT ![key[f]] = None]
      /\ coord' = [coord EXCEPT ![f] = "none"]
      /\ outcome' = [g \in Callers |-> IF coord'[g] = "none" /\ ~\E c \in Callers : on[c] = g
                                       THEN None ELSE outcome[g]]
      /\ key[f] \in Keys /\ f # None
  BY FlightsAssumption DEF Unregister, Freed, RegistryExact, FlightTypes
<1>2. FlightTypes'
  BY <1>1 DEF FlightTypes
<1>3. RegistryExact'
  <2>1. ASSUME NEW g \in Callers, coord'[g] # "none"
        PROVE  active'[key'[g]] = g
    BY <2>1, <1>1 DEF RegistryExact, FlightTypes
  <2>2. ASSUME NEW k \in Keys, active'[k] # None
        PROVE  key'[active'[k]] = k /\ coord'[active'[k]] # "none"
    BY <2>2, <1>1 DEF RegistryExact, FlightTypes
  <2> QED BY <2>1, <2>2 DEF RegistryExact
<1>4. SeatsOnFlights'
  BY <1>1 DEF SeatsOnFlights, FlightTypes
<1>5. ResultKept'
  BY <1>1 DEF ResultKept, FlightTypes
<1>6. NoLostWakeup'
  BY <1>1 DEF NoLostWakeup, FlightTypes
<1>7. Cardinality(Registered') <= maxEntries'
  <2>1. Registered' \subseteq Registered
    BY <1>1 DEF Registered, FlightTypes
  <2>2. /\ Cardinality(Registered') <= Cardinality(Registered)
        /\ Cardinality(Registered') \in Nat /\ Cardinality(Registered) \in Nat
    BY <2>1, RegisteredFinite, RegisteredFiniteNext, FS_Subset, FS_CardinalityType
  <2> QED BY <1>1, <2>2 DEF FlightTypes
<1> QED BY <1>1, <1>2, <1>3, <1>4, <1>5, <1>6, <1>7 DEF FlightTypes

-----------------------------------------------------------------------------
(* The loader. *)

LEMMA LoaderStarts == Init => LoaderInv
<1> SUFFICES ASSUME Init PROVE LoaderInv
  OBVIOUS
<1>1. PICK p \in Plans[config] : FlightsInit(config.capacity["workers"] + config.queue, p)
  BY DEF Init
<1>2. p \in [Callers -> Keys] /\ config \in Configs
  BY CallersAssumption DEF Init, AdmissionInit
<1>3. config.capacity["workers"] \in Nat /\ config.queue \in Nat
  BY <1>2, ConfigsAssumption, LimitsAssumption DEF Vectors
<1>4. maxEntries \in Nat
  BY <1>1, <1>3 DEF FlightsInit
<1>5. FlightTypes
  BY <1>1, <1>2, <1>4 DEF FlightsInit, FlightTypes
<1>6. RegistryExact /\ SeatsOnFlights /\ ResultKept /\ NoLostWakeup /\ NotYetLeading
  BY <1>1, FlightsAssumption
     DEF FlightsInit, RegistryExact, SeatsOnFlights, ResultKept, NoLostWakeup, NotYetLeading
<1>7. Cardinality(Registered) <= maxEntries
  <2>1. Registered = {}
    BY <1>1 DEF FlightsInit, Registered
  <2> QED BY <2>1, <1>4, FS_EmptySet
<1> QED BY <1>5, <1>6, <1>7 DEF LoaderInv, FlightInv, StepTypes, Init

\* load_one returns: seats are left and nobody goes back to joining.
LEMMA ReturnKeeps ==
  ASSUME LoaderInv, NEW c \in Callers, NEW a, Return(c, a)
  PROVE  LoaderInv'
<1>1. PICK C \in SUBSET Callers : LeaveSeats(C)
  <2>1. Aborted(c) \cup {c} \in SUBSET Callers /\ {c} \in SUBSET Callers
    BY DEF Aborted, RunningOf, EntriesOf
  <2> QED BY <2>1 DEF Return
<1>2. /\ FlightInv' /\ coord' = coord
      /\ \A d \in Callers : (on'[d] # None => on'[d] = on[d]) /\ (seat[d] = "none" => seat'[d] = "none")
  BY <1>1, LeaveKeeps DEF LoaderInv
<1>3. StepTypes' /\ \A d \in Callers : step'[d] \in {"new", "spawned", "join"} => step[d] \in {"new", "spawned", "join"}
  BY DEF Return, Unspawned, EntriesOf, LoaderInv, StepTypes
<1>4. NotYetLeading'
  BY <1>2, <1>3, FlightsAssumption DEF NotYetLeading, LoaderInv
<1> QED BY <1>2, <1>3, <1>4 DEF LoaderInv

LEMMA LookupKeeps ==
  ASSUME LoaderInv, NEW c \in Callers, Lookup(c)
  PROVE  LoaderInv'
<1>1. CASE \E a : Return(c, a)
  BY <1>1, ReturnKeeps
<1>2. CASE Go(c, "join") /\ UNCHANGED flights
  <2>1. FlightInv'
    BY <1>2 DEF LoaderInv, FlightInv, FlightTypes, RegistryExact, SeatsOnFlights, ResultKept,
                NoLostWakeup, Registered, flights
  <2>2. StepTypes' /\ step[c] = "spawned" /\ \A d \in Callers \ {c} : step'[d] = step[d]
    BY <1>2 DEF Go, Lookup, LoaderInv, StepTypes
  <2>3. NotYetLeading'
    BY <1>2, <2>2 DEF LoaderInv, NotYetLeading, flights
  <2> QED BY <2>1, <2>2, <2>3 DEF LoaderInv
<1> QED BY <1>1, <1>2 DEF Lookup

LEMMA JoinKeeps ==
  ASSUME LoaderInv, NEW c \in Callers, JoinFlight(c)
  PROVE  LoaderInv'
<1>1. step[c] = "join" /\ coord[c] = "none" /\ seat[c] = "none" /\ \A d \in Callers : on[d] # c
  BY DEF JoinFlight, LoaderInv, NotYetLeading
<1>2. CASE NoRoom(c) /\ Return(c, Busy)
  BY <1>2, ReturnKeeps
<1>3. CASE (Follow(c) \/ Lead(c)) /\ Go(c, "await")
  <2>1. FlightInv'
    BY <1>1, <1>3, FollowKeeps, LeadKeeps DEF LoaderInv
  <2>2. StepTypes' /\ step'[c] = "await" /\ \A d \in Callers \ {c} : step'[d] = step[d]
    BY <1>3 DEF Go, LoaderInv, StepTypes
  <2>3. \A d \in Callers \ {c} : step[d] \in {"new", "spawned", "join"} =>
          coord'[d] = coord[d] /\ seat'[d] = seat[d] /\ \A x \in Callers : on'[x] # d
    <3>1. CASE Follow(c)
      <4>1. coord' = coord /\ seat' = [seat EXCEPT ![c] = "joined"]
            /\ on' = [on EXCEPT ![c] = active[key[c]]] /\ coord[active[key[c]]] # "none"
        BY <3>1 DEF Follow, TakeSeat, LoaderInv, FlightInv, RegistryExact, FlightTypes
      <4> QED BY <4>1 DEF LoaderInv, FlightInv, FlightTypes, NotYetLeading
    <3>2. CASE Lead(c)
      BY <3>2 DEF Lead, TakeSeat, LoaderInv, FlightInv, FlightTypes, NotYetLeading
    <3> QED BY <1>3, <3>1, <3>2
  <2>4. NotYetLeading'
    BY <2>2, <2>3 DEF LoaderInv, NotYetLeading
  <2> QED BY <2>1, <2>2, <2>4 DEF LoaderInv
<1> QED BY <1>2, <1>3 DEF JoinFlight

LEMMA AwaitKeeps ==
  ASSUME LoaderInv, NEW c \in Callers, Await(c)
  PROVE  LoaderInv'
<1>1. CASE Answered(c) /\ Return(c, outcome[on[c]])
  BY <1>1, ReturnKeeps
<1>2. CASE (Arm(c) \/ Look(c)) /\ UNCHANGED <<step, req>>
  <2>1. /\ FlightInv' /\ coord' = coord /\ on' = on /\ seat[c] # "none"
        /\ \A d \in Callers \ {c} : seat'[d] = seat[d]
    BY <1>2, LoopKeeps DEF LoaderInv
  <2>2. StepTypes' /\ NotYetLeading'
    BY <1>2, <2>1 DEF LoaderInv, StepTypes, NotYetLeading
  <2> QED BY <2>1, <2>2 DEF LoaderInv
<1> QED BY <1>1, <1>2 DEF Await

LEMMA CoordinateKeeps ==
  ASSUME LoaderInv, NEW f \in Callers, Coordinate(f)
  PROVE  LoaderInv'
<1>1. (task[f] \in Answers /\ Settle(f, task[f])) \/ Notify(f) \/ Unregister(f)
  BY DEF Coordinate
<1>2. FlightInv' /\ seat' = seat /\ on' = on /\ \A d \in Callers : coord[d] = "none" => coord'[d] = "none"
  BY <1>1, SettleKeeps, NotifyKeeps, UnregisterKeeps DEF LoaderInv
<1>3. step' = step
  BY DEF Coordinate
<1> QED BY <1>2, <1>3 DEF LoaderInv, StepTypes, NotYetLeading

\* Everything else leaves callers and flights as they are.
LEMMA ElsewhereKeeps ==
  ASSUME LoaderInv, UNCHANGED <<flights, step>>
  PROVE  LoaderInv'
BY DEF LoaderInv, FlightInv, FlightTypes, RegistryExact, SeatsOnFlights, ResultKept, NoLostWakeup,
       Registered, StepTypes, NotYetLeading, flights

LEMMA LoaderStep ==
  ASSUME LoaderInv, [Next]_vars
  PROVE  LoaderInv'
<1>1. ASSUME NEW c \in Callers, CallerStep(c) \/ Coordinate(c)
      PROVE  LoaderInv'
  BY <1>1, LookupKeeps, JoinKeeps, AwaitKeeps, CoordinateKeeps DEF CallerStep
<1>2. ASSUME NEW f \in Callers, WorkerStep(f) \/ TimesOut(f) \/ Panic(f)
      PROVE  UNCHANGED <<flights, step>>
  BY <1>2 DEF WorkerStep, Recheck, Ask, Granted, TimesOut, Build, Panic, Reach
<1>3. CASE Turn \/ Standby \/ UNCHANGED vars
  BY <1>3, ElsewhereKeeps DEF Turn, Standby, loader, vars
<1> QED BY <1>1, <1>2, <1>3, ElsewhereKeeps DEF Next, Progress

-----------------------------------------------------------------------------
(* Permits and requests. *)

TaskTypes ==
  task \in [Callers -> {"none", "lookup", "acquire", "queued", "build"} \cup Answers]
\* Only a flight that runs has a worker.
WorkersRun == \A f \in Callers : task[f] # "none" => coord[f] = "running"
PermitInv == TaskTypes /\ WorkersRun /\ HoldersBuild

LEMMA PermitsStart == Init => PermitInv
BY CallersAssumption
   DEF Init, AdmissionInit, FlightsInit, PermitInv, TaskTypes, WorkersRun, HoldersBuild

\* A worker takes a permit when it starts to build and gives it back when it
\* has built; a timeout and a grant agree on whether it has one.
LEMMA WorkerPermits ==
  ASSUME AdmissionTypeOK, PermitInv, NEW f \in Callers,
         Ask(f) \/ Granted(f) \/ TimesOut(f) \/ Build(f)
  PROVE  PermitInv'
<1>1. /\ coord' = coord /\ f \in Clients
      /\ \/ task[f] = "acquire" /\ phase' = [phase EXCEPT ![f] = "holding"] /\ task' = [task EXCEPT ![f] = "build"]
         \/ task[f] = "acquire" /\ phase' = [phase EXCEPT ![f] = "waiting"] /\ task' = [task EXCEPT ![f] = "queued"]
         \/ task[f] = "acquire" /\ phase' = phase /\ task' = [task EXCEPT ![f] = Busy]
         \/ task[f] = "queued" /\ phase' = [phase EXCEPT ![f] = "holding"] /\ task' = [task EXCEPT ![f] = "build"]
         \/ task[f] = "queued" /\ phase' = [phase EXCEPT ![f] = "out"] /\ task' = [task EXCEPT ![f] = Busy]
         \/ task[f] = "build" /\ phase' = [phase EXCEPT ![f] = "out"]
            /\ \E a \in Answers : task' = [task EXCEPT ![f] = a]
  BY CallersAssumption DEF Ask, Admit, Enqueue, Refused, Granted, Claim, TimesOut, GiveUp, Build, Release,
     Reach, flights, admission, Answers
<1>2. phase \in [Callers -> {"out", "waiting", "holding"}]
  BY CallersAssumption DEF AdmissionTypeOK
<1> QED BY <1>1, <1>2 DEF PermitInv, TaskTypes, WorkersRun, HoldersBuild, Answers, Facts, Source, Worker, Busy

LEMMA PermitStep ==
  ASSUME AdmissionTypeOK, LoaderInv, PermitInv, [Next]_vars
  PROVE  PermitInv'
<1> USE DEF PermitInv, TaskTypes, WorkersRun, HoldersBuild
<1>a. coord \in [Callers -> {"none", "running", "settled", "notified"}]
  BY DEF LoaderInv, FlightInv, FlightTypes
<1>1. ASSUME NEW c \in Callers, Lookup(c) \/ Await(c)
      PROVE  PermitInv'
  <2>1. UNCHANGED <<phase, task, coord>>
    BY <1>1 DEF Lookup, Await, Return, LeaveSeats, Arm, Look, flights, admission
  <2> QED BY <2>1
<1>2. ASSUME NEW c \in Callers, JoinFlight(c)
      PROVE  PermitInv'
  <2>1. coord[c] = "none" /\ phase' = phase
    BY <1>2 DEF JoinFlight, LoaderInv, NotYetLeading, admission
  <2>2. \/ UNCHANGED <<task, coord>>
        \/ task' = [task EXCEPT ![c] = "lookup"] /\ coord' = [coord EXCEPT ![c] = "running"]
    BY <1>2 DEF JoinFlight, Follow, Lead, Return, LeaveSeats
  <2> QED BY <1>a, <2>1, <2>2
<1>3. ASSUME NEW f \in Callers, Coordinate(f)
      PROVE  PermitInv'
  <2>1. /\ phase' = phase
        /\ \/ /\ task[f] \in Answers /\ task' = [task EXCEPT ![f] = "none"]
              /\ coord' = [coord EXCEPT ![f] = "settled"]
           \/ /\ coord[f] # "running" /\ task' = task
              /\ \E x \in {"none", "notified"} : coord' = [coord EXCEPT ![f] = x]
    BY <1>3 DEF Coordinate, Settle, Notify, Unregister, admission
  <2> QED BY <1>a, <2>1 DEF Answers, Facts, Source, Worker, Busy
<1>4. ASSUME NEW f \in Callers, Recheck(f) \/ Panic(f)
      PROVE  PermitInv'
  <2>1. /\ task[f] \in {"lookup", "acquire"} /\ UNCHANGED <<phase, coord>>
        /\ \E a \in Answers \cup {"acquire"} : task' = [task EXCEPT ![f] = a]
    BY <1>4 DEF Recheck, Panic, Reach, Answers, flights, admission
  <2> QED BY <2>1 DEF Answers, Facts, Source, Worker, Busy
<1>5. ASSUME NEW f \in Callers, Ask(f) \/ Granted(f) \/ TimesOut(f) \/ Build(f)
      PROVE  PermitInv'
  BY <1>5, WorkerPermits
<1>6. CASE Turn \/ Standby \/ UNCHANGED vars
  <2>1. UNCHANGED <<phase, task, coord>>
    BY <1>6 DEF Turn, Schedule, Standby, vars, loader, flights, admission
  <2> QED BY <2>1
<1> QED BY <1>1, <1>2, <1>3, <1>4, <1>5, <1>6 DEF Next, Progress, CallerStep, WorkerStep

\* An entry has failed, or was aborted, only where its request has.
RequestInv ==
  /\ req \in [Requests -> {"loading", "ok", "failed"}]
  /\ NoSilentHole
  /\ \A q \in Requests : \A c \in EntriesOf(q) : step[c] \in {"failed", "aborted"} => req[q] = "failed"

LEMMA RequestsStart == Init => RequestInv
<1> SUFFICES ASSUME Init PROVE RequestInv
  OBVIOUS
<1>1. PICK up \in SUBSET Callers :
        /\ \A q \in Requests : Opens(q, up)
        /\ step = [c \in Callers |-> IF c \in up THEN "spawned" ELSE "new"]
  BY DEF Init
<1>2. \A q \in Requests : req[q] = IF RunningOf(q) = {} THEN "ok" ELSE "loading"
  BY DEF Init
<1>3. ASSUME NEW q \in Requests, RunningOf(q) = {} PROVE EntriesOf(q) = {}
  <2>1. up \cap EntriesOf(q) = {}
    BY <1>1, <1>3 DEF RunningOf, Running, EntriesOf
  <2>2. Parallelism[config] # 0
    BY LimitsAssumption DEF Init, AdmissionInit
  <2>3. Cardinality({}) = 0
    BY FS_EmptySet
  <2> QED BY <1>1, <2>1, <2>2, <2>3 DEF Opens
<1>4. NoSilentHole
  BY <1>2, <1>3 DEF NoSilentHole, Complete
<1>5. \A q \in Requests : \A c \in EntriesOf(q) : step[c] \notin {"failed", "aborted"}
  BY <1>1 DEF EntriesOf
<1> QED BY <1>4, <1>5 DEF Init, RequestInv

\* What one load_one returns decides about its own request only, and a request
\* that fails has no entry left that runs.  When the JoinSet is empty the last
\* return has found nothing to spawn, so nothing has been left out.
LEMMA ReturnsDecide ==
  ASSUME StepTypes, RequestInv, NEW c \in Callers, NEW a, Return(c, a),
         step[c] \in Running
  PROVE  RequestInv'
<1> DEFINE r == RequestOf[c]
           Answer == IF a = Facts THEN "loaded" ELSE "gap"
<1>1. r \in Requests /\ c \in EntriesOf(r)
  BY CallersAssumption DEF EntriesOf
<1>2. req[r] = "loading"
  BY <1>1 DEF RequestInv, NoSilentHole, RunningOf
<1>3. ASSUME NEW q \in Requests \ {r}
      PROVE  req'[q] = req[q] /\ \A d \in EntriesOf(q) : step'[d] = step[d]
  <2>1. req'[q] = req[q]
    BY <1>1, <1>3 DEF Return, RequestInv
  <2>2. \A d \in EntriesOf(q) : d # c /\ d \notin Aborted(c) /\ d \notin Unspawned(c) /\ d \in Callers
    BY <1>1, <1>3 DEF EntriesOf, Aborted, RunningOf, Unspawned
  <2> QED BY <2>1, <2>2 DEF Return
<1>4. ASSUME NEW q \in Requests \ {r}
      PROVE  /\ req'[q] = "ok" => Complete(q, step')
             /\ req'[q] = "loading" <=> RunningOf(q)' # {}
             /\ \A d \in EntriesOf(q) : step'[d] \in {"failed", "aborted"} => req'[q] = "failed"
  BY <1>3, <1>4 DEF RequestInv, NoSilentHole, Complete, RunningOf, EntriesOf
<1>5. CASE a \in {Facts, Source}
  <2>1. PICK up \in IF Unspawned(c) = {} THEN {{}} ELSE {{d} : d \in Unspawned(c)} :
          step' = [d \in Callers |-> IF d = c THEN Answer ELSE IF d \in up THEN "spawned" ELSE step[d]]
    BY <1>5 DEF Return, Facts, Source, Worker, Busy
  <2>2. req' = IF RunningOf(r)' = {} THEN [req EXCEPT ![r] = "ok"] ELSE req
    BY <1>5 DEF Return, Facts, Source, Worker, Busy
  <2>3. \A d \in EntriesOf(r) : step[d] \notin {"failed", "aborted"} /\ d \in Callers
    BY <1>1, <1>2 DEF RequestInv, EntriesOf
  <2>4. \A d \in EntriesOf(r) : step'[d] \notin {"failed", "aborted"}
    BY <2>1, <2>3
  <2>5. ASSUME RunningOf(r)' = {} PROVE Complete(r, step')
    <3>1. Unspawned(c) = {}
      <4> SUFFICES ASSUME NEW d \in Unspawned(c), up = {d} PROVE FALSE
        BY <2>1
      <4>1. d \in EntriesOf(r) /\ d \in Callers /\ d # c
        BY DEF Unspawned, EntriesOf, Running
      <4>2. step'[d] = "spawned"
        BY <2>1, <4>1
      <4> QED BY <2>5, <4>1, <4>2 DEF RunningOf, Running, EntriesOf
    <3>2. \A d \in EntriesOf(r) : step[d] # "new"
      BY <3>1 DEF Unspawned
    <3>3. \A d \in EntriesOf(r) : step'[d] \notin Running
      BY <2>5 DEF RunningOf, EntriesOf
    <3>4. \A d \in EntriesOf(r) \ {c} : step'[d] = step[d]
      BY <2>1, <2>3, <3>1
    <3>5. step'[c] \in {"loaded", "gap"}
      BY <2>1
    <3>6. \A d \in EntriesOf(r) \ {c} : step[d] \in {"loaded", "gap"}
      BY <2>3, <3>2, <3>3, <3>4 DEF StepTypes, Running
    <3> QED BY <3>4, <3>5, <3>6 DEF Complete
  <2>6. /\ req'[r] = "ok" => Complete(r, step')
        /\ req'[r] = "loading" <=> RunningOf(r)' # {}
    BY <1>1, <1>2, <2>2, <2>5 DEF RequestInv
  <2>7. req' \in [Requests -> {"loading", "ok", "failed"}]
    BY <2>2 DEF RequestInv
  <2> QED BY <1>4, <2>4, <2>6, <2>7 DEF RequestInv, NoSilentHole
<1>6. CASE a \in {Worker, Busy}
  <2>1. /\ req' = [req EXCEPT ![r] = "failed"]
        /\ step' = [d \in Callers |-> IF d = c THEN "failed"
                                      ELSE IF d \in Aborted(c) THEN "aborted" ELSE step[d]]
    BY <1>6 DEF Return, Facts, Source, Worker, Busy
  <2>2. RunningOf(r)' = {}
    BY <2>1 DEF RunningOf, Running, EntriesOf, Aborted
  <2>3. req'[r] = "failed" /\ req' \in [Requests -> {"loading", "ok", "failed"}]
    BY <1>1, <2>1 DEF RequestInv
  <2> QED BY <1>4, <2>2, <2>3 DEF RequestInv, NoSilentHole
<1> QED BY <1>5, <1>6 DEF Return

\* An entry that goes on to run changes nothing for its request.
LEMMA EntryGoesOn ==
  ASSUME StepTypes, RequestInv, NEW c \in Callers, NEW where \in Running, Go(c, where),
         step[c] \in Running
  PROVE  RequestInv'
<1>1. req' = req /\ step' = [step EXCEPT ![c] = where]
  BY DEF Go
<1>2. \A q \in Requests : RunningOf(q)' = RunningOf(q)
  BY <1>1 DEF StepTypes, RunningOf, EntriesOf
<1>3. \A q \in Requests : Complete(q, step) => Complete(q, step')
  BY <1>1 DEF StepTypes, Complete, EntriesOf, Running
<1>4. \A q \in Requests : \A d \in EntriesOf(q) :
        step'[d] \in {"failed", "aborted"} => step[d] \in {"failed", "aborted"}
  BY <1>1 DEF StepTypes, EntriesOf, Running
<1> QED BY <1>1, <1>2, <1>3, <1>4 DEF RequestInv, NoSilentHole

LEMMA RequestStep ==
  ASSUME LoaderInv, RequestInv, [Next]_vars
  PROVE  RequestInv'
<1>a. StepTypes
  BY DEF LoaderInv
<1>1. ASSUME NEW c \in Callers, CallerStep(c)
      PROVE  RequestInv'
  <2>1. step[c] \in Running
    BY <1>1 DEF CallerStep, Lookup, JoinFlight, Await, Running
  <2>2. \/ \E a : Return(c, a)
        \/ \E where \in Running : Go(c, where)
        \/ UNCHANGED <<step, req>>
    BY <1>1 DEF CallerStep, Lookup, JoinFlight, Await, Running
  <2>3. CASE UNCHANGED <<step, req>>
    BY <2>3 DEF RequestInv, NoSilentHole, Complete, RunningOf
  <2> QED BY <1>a, <2>1, <2>2, <2>3, ReturnsDecide, EntryGoesOn
<1>2. CASE \/ \E f \in Callers : WorkerStep(f) \/ Coordinate(f) \/ TimesOut(f) \/ Panic(f)
           \/ Turn \/ Standby \/ UNCHANGED vars
  <2>1. UNCHANGED <<step, req>>
    BY <1>2 DEF WorkerStep, Recheck, Ask, Granted, Build, Reach, Coordinate, TimesOut, Panic, Turn,
       Standby, loader, vars
  <2> QED BY <2>1 DEF RequestInv, NoSilentHole, Complete, RunningOf
<1> QED BY <1>1, <1>2 DEF Next, Progress

-----------------------------------------------------------------------------
(* The theorems about the loader. *)

LEMMA LoaderInductive == Spec => [](LoaderInv /\ AdmissionTypeOK /\ PermitInv /\ RequestInv)
<1>1. Init => LoaderInv /\ KeysTyped /\ PermitInv /\ RequestInv
  BY LoaderStarts, KeysStart, PermitsStart, RequestsStart
<1>2. Init => AdmissionInv
  BY AdmissionStarts DEF Init
<1>3. KeysTyped /\ AdmissionInv /\ [Next]_vars => KeysTyped' /\ AdmissionInv'
  BY KeysStay, LoaderStepsAdmission, AdmissionStep
<1>4. AdmissionInv => AdmissionTypeOK
  BY DEF AdmissionInv
<1>5. LoaderInv /\ AdmissionTypeOK /\ PermitInv /\ RequestInv /\ [Next]_vars
      => LoaderInv' /\ PermitInv' /\ RequestInv'
  BY LoaderStep, PermitStep, RequestStep
<1> QED BY <1>1, <1>2, <1>3, <1>4, <1>5, PTL DEF Spec

\* A permit is held by a flight that builds and a queue place by one that
\* waits: no timeout that meets a grant, no panic and no abort of the leading
\* caller leaves a charge without its build (loader.rs, ColdPermit::drop).
THEOREM PermitsMatchBuilds == Spec => []HoldersBuild
<1>1. PermitInv => HoldersBuild
  BY DEF PermitInv
<1> QED BY <1>1, LoaderInductive, PTL

\* What is charged is what the building flights and the granted waiters asked
\* for, to the unit, whatever times out, panics or is aborted around them
\* (loader.rs composed with admission.rs).
THEOREM ChargesMatchBuilds == Spec => []ChargesAreResident
<1>1. ChargesAreExact /\ HoldersBuild => ChargesAreResident
  BY DEF ChargesAreResident
<1> QED BY <1>1, LoaderImplementsAdmission, NoChargeIsLost, PermitsMatchBuilds, PTL

\* A request that returns a view has the facts of every entry or a gap for it,
\* for every parallelism and every number of entries, although it only waits
\* until its JoinSet is empty; and nothing of a request that has ended still runs
\* (the two loops of load_selected and the JoinSet it drops).
THEOREM ViewsAreComplete == Spec => []NoSilentHole
<1>1. RequestInv => NoSilentHole
  BY DEF RequestInv
<1> QED BY <1>1, LoaderInductive, PTL

\* A key has one flight at a time and the registry keeps its bound, whatever the
\* number of callers, keys and requests (FactSingleflight::run).
THEOREM OneFlight == Spec => []OneFlightPerKey
<1>1. LoaderInv => OneFlightPerKey
  BY DEF LoaderInv, FlightInv, OneFlightPerKey, RegistryExact, SeatsOnFlights
<1> QED BY <1>1, LoaderInductive, PTL

\* No order of joining, storing, notifying and unregistering leaves a caller
\* asleep for good (Flight::wait, notify_waiters).
THEOREM FlightsAreShared == Spec => []NoLostWakeup
<1>1. LoaderInv => NoLostWakeup
  BY DEF LoaderInv, FlightInv
<1> QED BY <1>1, LoaderInductive, PTL
=============================================================================
