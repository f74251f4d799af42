----------------------------- MODULE RailProofs -----------------------------
(***************************************************************************)
(* Safety of the railway simulator for every line, timing and queue size.  *)
(* Three parts, each with an inductive invariant of its own:               *)
(*   IInv    the queue: timers are never lost (TimersNeverLost), and every *)
(*           crossing of the line behaves as CrossingSystem (P1Refines);   *)
(*   TInv    time: a gate is down when a train enters (GateAlwaysInTime),  *)
(*           given Margin;                                                 *)
(*   LInv    the line: no occupied crossing is unprotected                 *)
(*           (TrainsProtected), given Spacing.                             *)
(***************************************************************************)
EXTENDS RailSim, CrossingLemmas, FiniteSetTheorems, FunctionTheorems,
        WellFoundedInduction

(***************************************************************************)
(* Least elements, the route, and the queue.                               *)
(***************************************************************************)

\* A non-empty set of naturals has a least element.
LEMMA NatMin ==
  ASSUME NEW S \in SUBSET Nat, S # {}
  PROVE  \E x \in S : \A y \in S : x <= y
<1> DEFINE T == {0 .. x : x \in S}
           R == StrictSubsetOrdering(Nat)
<1>1. T \subseteq FiniteSubsetsOf(Nat)
  <2>1. ASSUME NEW x \in S PROVE 0 .. x \in FiniteSubsetsOf(Nat)
    <3>1. x \in Int /\ 0 .. x \in SUBSET Nat
      OBVIOUS
    <3>2. IsFiniteSet(0 .. x)
      BY <3>1, FS_Interval
    <3> QED
      BY <3>1, <3>2 DEF FiniteSubsetsOf
  <2> QED
    BY <2>1
<1>2. IsWellFoundedOn(R, FiniteSubsetsOf(Nat))
  BY FS_StrictSubsetOrderingWellFounded
<1>3. T # {}
  OBVIOUS
<1> HIDE DEF T, R
<1>4. PICK I \in T : \A J \in T : <<J, I>> \notin R
  BY <1>1, <1>2, <1>3, WFMin
<1>5. PICK x \in S : I = 0 .. x
  BY <1>4 DEF T
<1>6. ASSUME NEW y \in S, y < x PROVE FALSE
  <2>1. 0 .. y \in T /\ 0 .. y \subseteq I /\ 0 .. y # I
    BY <1>5, <1>6 DEF T
  <2>2. 0 .. y \in SUBSET Nat /\ I \in SUBSET Nat
    BY <1>5
  <2>3. <<0 .. y, I>> \in R
    BY <2>1, <2>2 DEF R, StrictSubsetOrdering
  <2> QED
    BY <1>4, <2>1, <2>3
<1> QED
  BY <1>6

\* Min picks it.
LEMMA MinIsLeast ==
  ASSUME NEW S \in SUBSET Nat, S # {}
  PROVE  Min(S) \in S /\ \A y \in S : Min(S) <= y
BY NatMin DEF Min

\* Sums of a sequence of naturals exist.
LEMMA SumsExist ==
  ASSUME NEW N \in Nat, NEW leg \in [2 .. N -> Nat]
  PROVE  \E f \in [1 .. N -> Nat] :
           \A k \in 1 .. N : f[k] = IF k = 1 THEN 0 ELSE f[k - 1] + leg[k]
<1> DEFINE Sums(f, n) ==
             \A k \in 1 .. n : f[k] = IF k = 1 THEN 0 ELSE f[k - 1] + leg[k]
           Ok(n) == \E f \in [1 .. n -> Nat] : Sums(f, n)
           Bad == {n \in 0 .. N : ~Ok(n)}
<1>1. Ok(0)
  <2>1. [k \in 1 .. 0 |-> 0] \in [1 .. 0 -> Nat]
    OBVIOUS
  <2>2. Sums([k \in 1 .. 0 |-> 0], 0)
    OBVIOUS
  <2> QED
    BY <2>1, <2>2
<1>2. ASSUME NEW n \in 1 .. N, Ok(n - 1) PROVE Ok(n)
  <2>1. PICK f \in [1 .. n - 1 -> Nat] : Sums(f, n - 1)
    BY <1>2
  <2> DEFINE g == [k \in 1 .. n |->
                     IF k < n THEN f[k] ELSE IF k = 1 THEN 0 ELSE f[k - 1] + leg[k]]
  <2>2. ASSUME NEW k \in 1 .. n PROVE g[k] \in Nat
    <3>1. CASE k < n
      BY <3>1
    <3>2. CASE k = n /\ k # 1
      <4>1. f[k - 1] \in Nat /\ leg[k] \in Nat
        BY <3>2
      <4> QED
        BY <3>2, <4>1
    <3>3. CASE k = n /\ k = 1
      BY <3>3
    <3> QED
      BY <3>1, <3>2, <3>3
  <2>3. g \in [1 .. n -> Nat]
    BY <2>2
  <2>4. Sums(g, n)
    BY <2>1
  <2> QED
    BY <2>3, <2>4
<1> HIDE DEF Ok
<1>3. ASSUME Bad # {} PROVE FALSE
  <2>0. Bad \in SUBSET Nat
    OBVIOUS
  <2>1. PICK n \in Bad : \A y \in Bad : n <= y
    BY <1>3, <2>0, NatMin
  <2>2. n \in 1 .. N
    BY <1>1, <2>1
  <2>3. n - 1 \notin Bad
    BY <2>1, <2>2
  <2>4. Ok(n - 1)
    BY <2>2, <2>3
  <2> QED
    BY <1>2, <2>1, <2>2, <2>4
<1>4. Ok(N)
  BY <1>3
<1> QED
  BY <1>4 DEF Ok

\* The seconds to the k-th crossing of a route exist and are naturals.
LEMMA TravelType ==
  ASSUME NEW dir \in Dir
  PROVE  Travel(dir) \in [P -> Nat] /\ Travel(dir)[1] = 0
<1> DEFINE at(k) == IF dir = "UP" THEN NUM_CROSSINGS + 1 - k ELSE k - 1
           leg == [k \in 2 .. NUM_CROSSINGS |-> DISTANCE_SEC[at(k)]]
           t == Travel(dir)
           Is(h) == h = [k \in P |-> IF k = 1 THEN 0
                                      ELSE h[k - 1] + DISTANCE_SEC[at(k)]]
<1>0. NUM_CROSSINGS \in Nat \ {0} /\ P = 1 .. NUM_CROSSINGS
  BY RailSimAssumption DEF P
<1>1. ASSUME NEW k \in 2 .. NUM_CROSSINGS PROVE DISTANCE_SEC[at(k)] \in Nat
  <2>1. at(k) \in 1 .. NUM_CROSSINGS - 1
    BY <1>0
  <2> QED
    BY <2>1, RailSimAssumption
<1>2. leg \in [2 .. NUM_CROSSINGS -> Nat]
  BY <1>1
<1>3. PICK f \in [P -> Nat] :
        \A k \in P : f[k] = IF k = 1 THEN 0 ELSE f[k - 1] + leg[k]
  <2> HIDE DEF leg
  <2> QED
    BY <1>0, <1>2, SumsExist
<1>4. ASSUME NEW k \in P, k # 1 PROVE k \in 2 .. NUM_CROSSINGS
  BY <1>0, <1>4
<1>5. Is(f)
  BY <1>3, <1>4
<1>6. Is(t)
  BY <1>5 DEF Travel
<1> HIDE DEF t
<1>7. \A k \in P : t[k] = IF k = 1 THEN 0 ELSE t[k - 1] + DISTANCE_SEC[at(k)]
  BY <1>6
<1> DEFINE Wrong == {k \in P : t[k] \notin Nat}
<1>8. ASSUME Wrong # {} PROVE FALSE
  <2>0. Wrong \in SUBSET Nat
    BY <1>0
  <2>1. PICK n \in Wrong : \A y \in Wrong : n <= y
    BY <1>8, <2>0, NatMin
  <2>2. n \in P /\ n # 1
    BY <2>1, <1>7
  <2>3. n - 1 \in P /\ n - 1 \notin Wrong
    BY <1>0, <2>1, <2>2
  <2>4. t[n - 1] \in Nat /\ DISTANCE_SEC[at(n)] \in Nat
    BY <1>1, <1>4, <2>2, <2>3
  <2>5. t[n] = t[n - 1] + DISTANCE_SEC[at(n)]
    BY <1>7, <2>2
  <2> HIDE DEF at
  <2>6. t[n] \in Nat
    BY <2>4, <2>5
  <2> QED
    BY <2>1, <2>6
<1>9. t = [k \in P |-> t[k]]
  BY <1>6
<1>10. 1 \in P
  BY <1>0
<1> QED
  BY <1>7, <1>8, <1>9, <1>10 DEF t

\* The slots of the queue.
LEMMA SlotsFinite ==
  Slots \subseteq Nat /\ IsFiniteSet(Slots) /\ Cardinality(Slots) = MAX_PENDING_EVENTS
<1>1. MAX_PENDING_EVENTS \in Nat /\ MAX_PENDING_EVENTS \in Int /\ 1 \in Int
  BY RailSimAssumption
<1>2. IsFiniteSet(1 .. MAX_PENDING_EVENTS)
      /\ Cardinality(1 .. MAX_PENDING_EVENTS) = MAX_PENDING_EVENTS
  BY <1>1, FS_Interval
<1> QED
  BY <1>1, <1>2 DEF Slots

\* Queue q is queue evs with each event of seq in a slot of its own.
Appended(evs, q, seq) ==
  LET new == DOMAIN q \ DOMAIN evs
  IN  /\ DOMAIN evs \subseteq DOMAIN q /\ DOMAIN q \subseteq Slots
      /\ \A i \in DOMAIN evs : q[i] = evs[i]
      /\ \E rank \in Bijection(new, 1 .. Len(seq)) : \A i \in new : q[i] = seq[rank[i]]

\* The n-th event takes the n-th inactive slot.
LEMMA QueueEvents ==
  ASSUME NEW evs, DOMAIN evs \subseteq Slots, NEW seq, Len(seq) \in Nat,
         Len(seq) <= Cardinality(Slots \ DOMAIN evs)
  PROVE  Appended(evs, queue_events(evs, seq), seq)
<1> DEFINE free == Slots \ DOMAIN evs
           below(i) == {j \in free : j <= i}
           taken == {i \in free : Cardinality(below(i)) <= Len(seq)}
           q == queue_events(evs, seq)
           rk == [i \in free |-> Cardinality(below(i))]
           n == Cardinality(free)
<1>1. free \in SUBSET Slots /\ Slots \subseteq Nat /\ IsFiniteSet(Slots)
  BY SlotsFinite
<1> HIDE DEF free
<1>2. IsFiniteSet(free) /\ n \in Nat
  BY <1>1, FS_Subset, FS_CardinalityType
<1>3. ASSUME NEW i \in free
      PROVE  IsFiniteSet(below(i)) /\ Cardinality(below(i)) \in 1 .. n
  <2>1. below(i) \in SUBSET free /\ i \in below(i)
    BY <1>1
  <2> HIDE DEF below
  <2>2. IsFiniteSet(below(i)) /\ Cardinality(below(i)) <= n
    BY <1>2, <2>1, FS_Subset
  <2>3. Cardinality(below(i)) \in Nat /\ Cardinality(below(i)) # 0
    BY <2>1, <2>2, FS_CardinalityType, FS_EmptySet
  <2> QED
    BY <1>2, <2>2, <2>3
<1>4. ASSUME NEW i \in free, NEW j \in free, i < j
      PROVE  rk[i] # rk[j]
  <2>1. below(i) \in SUBSET below(j) /\ below(i) # below(j)
    <3>1. i \in Nat /\ j \in Nat /\ \A k \in free : k \in Nat
      BY <1>1
    <3>2. j \in below(j) /\ j \notin below(i)
      BY <1>4, <3>1
    <3>3. \A k \in free : k <= i => k <= j
      BY <1>4, <3>1
    <3> QED
      BY <3>2, <3>3
  <2> HIDE DEF below
  <2> QED
    BY <1>3, <2>1, FS_Subset
<1>5. rk \in Injection(free, 1 .. n)
  <2>1. rk \in [free -> 1 .. n]
    BY <1>3
  <2> HIDE DEF rk
  <2>2. ASSUME NEW i \in free, NEW j \in free, rk[i] = rk[j]
        PROVE  i = j
    <3>1. i \in Nat /\ j \in Nat
      BY <1>1
    <3> QED
      BY <1>4, <2>2, <3>1
  <2> QED
    BY <2>1, <2>2 DEF Injection, IsInjective
<1>6. rk \in Surjection(free, 1 .. n)
  <2>1. IsFiniteSet(1 .. n) /\ Cardinality(1 .. n) = n
    BY <1>2, FS_Interval
  <2> HIDE DEF rk
  <2> QED
    BY <1>5, <2>1, FS_Injection
<1>7. /\ DOMAIN q = DOMAIN evs \cup taken
      /\ \A i \in DOMAIN q : q[i] = IF i \in taken THEN seq[rk[i]] ELSE evs[i]
  BY DEF queue_events, free
<1> HIDE DEF q, rk
<1>8. taken = {i \in free : rk[i] <= Len(seq)}
  BY DEF rk
<1> HIDE DEF taken
<1>9. taken \cap DOMAIN evs = {} /\ DOMAIN q \ DOMAIN evs = taken
  BY <1>7, <1>8 DEF free
<1> DEFINE rank == [i \in taken |-> rk[i]]
<1>10. rank \in Bijection(taken, 1 .. Len(seq))
  <2>1. \A i \in taken : rk[i] \in 1 .. Len(seq)
    BY <1>5, <1>8 DEF Injection
  <2>2. \A i, j \in taken : rk[i] = rk[j] => i = j
    BY <1>5, <1>8 DEF Injection, IsInjective
  <2>3. ASSUME NEW m \in 1 .. Len(seq)
        PROVE  \E i \in taken : rk[i] = m
    <3>1. m \in 1 .. n
      BY <1>2 DEF free
    <3>2. PICK i \in free : rk[i] = m
      BY <1>6, <3>1 DEF Surjection
    <3> QED
      BY <1>8, <3>2
  <2>4. rank \in Injection(taken, 1 .. Len(seq))
    BY <2>1, <2>2 DEF Injection, IsInjective
  <2>5. rank \in Surjection(taken, 1 .. Len(seq))
    BY <2>1, <2>3 DEF Surjection
  <2> QED
    BY <2>4, <2>5 DEF Bijection
<1>11. taken \subseteq Slots
  BY <1>1, <1>8
<1>12. \A i \in taken : q[i] = seq[rank[i]]
  BY <1>7
<1>13. \A i \in DOMAIN evs : q[i] = evs[i]
  BY <1>7, <1>9
<1> HIDE DEF rank
<1> QED
  BY <1>7, <1>9, <1>10, <1>11, <1>12, <1>13 DEF q, Appended

-----------------------------------------------------------------------------
(***************************************************************************)
(* The inductive invariant.  A timer is queued at most once, and with the  *)
(* generation its crossing expects; the trains leave room for all timers;  *)
(* and each crossing is sound on its part of the queue.                    *)
(***************************************************************************)
TrainSlots == {i \in DOMAIN events : events[i].event # "TIMER"}

\* The slots of timers.
TimerSlots == {i \in DOMAIN events : events[i].event = "TIMER"}

\* A timer has one slot.
TimersUnique ==
  \A i, j \in TimerSlots :
    events[i].p = events[j].p /\ events[i].arg = events[j].arg => i = j

\* A queued timer is of the present generation.
TimersLive ==
  \A i \in TimerSlots : events[i].gen = timer_gen[events[i].p][events[i].arg]

\* Trains never take the reserve of the timers.
Room == Cardinality(TrainSlots) + TIMER_EVENT_RESERVE <= MAX_PENDING_EVENTS

\* Each crossing is in order, with its queued timers and its Locals.
AllSound ==
  \A p \in P : Sound(crossings[p], timer_gen[p], QueuedTimers(p), p \in preempted)

\* The inductive invariant of the queue.
IInv == TypeOK /\ TimersUnique /\ TimersLive /\ Room /\ AllSound

\* Timer t of crossing p is queued.
Runs(p, t) == \E i \in TimerSlots : events[i].p = p /\ events[i].arg = t

\* A queued event is a train event or a timer.
LEMMA EventCases ==
  ASSUME TypeOK, NEW i \in DOMAIN events
  PROVE  /\ i \in Slots /\ events[i].p \in P /\ events[i].left \in Int
         /\ events[i].event # "TIMER" =>
              events[i].event \in TrainEvent /\ events[i].arg \in Dir
         /\ events[i].event = "TIMER" =>
              events[i].arg \in Timer /\ events[i].gen \in 0 .. GEN_MOD - 1
BY DEF TypeOK, Event, TrainEvent

\* The queued timers of a crossing carry its present generations.
LEMMA QueuedLive ==
  ASSUME TypeOK, TimersLive, NEW p \in P
  PROVE  QueuedTimers(p) =
           {<<t, timer_gen[p][t]>> : t \in {u \in Timer : Runs(p, u)}}
<1>1. ASSUME NEW e \in QueuedTimers(p)
      PROVE  e \in {<<t, timer_gen[p][t]>> : t \in {u \in Timer : Runs(p, u)}}
  <2>1. PICK i \in TimerSlots :
          events[i].p = p /\ e = <<events[i].arg, events[i].gen>>
    BY <1>1 DEF QueuedTimers, TimerSlots
  <2>2. events[i].arg \in Timer /\ Runs(p, events[i].arg)
    BY <2>1, EventCases DEF Runs, TimerSlots
  <2>3. e = <<events[i].arg, timer_gen[p][events[i].arg]>>
    BY <2>1 DEF TimersLive
  <2> QED
    BY <2>2, <2>3
<1>2. ASSUME NEW t \in Timer, Runs(p, t)
      PROVE  <<t, timer_gen[p][t]>> \in QueuedTimers(p)
  <2>1. PICK i \in TimerSlots : events[i].p = p /\ events[i].arg = t
    BY <1>2 DEF Runs
  <2>2. events[i].gen = timer_gen[p][t]
    BY <2>1 DEF TimersLive
  <2> QED
    BY <2>1, <2>2 DEF QueuedTimers, TimerSlots
<1> QED
  BY <1>1, <1>2

\* What is awaited is queued, and nothing else.
LEMMA RunsAwaited ==
  ASSUME TypeOK, TimersLive, AllSound, NEW p \in P, NEW t \in Timer
  PROVE  Runs(p, t) <=> Awaited(crossings[p], t)
<1>1. Awaited(crossings[p], t) <=> <<t, timer_gen[p][t]>> \in QueuedTimers(p)
  BY DEF AllSound, Sound
<1>2. <<t, timer_gen[p][t]>> \in QueuedTimers(p) <=> Runs(p, t)
  BY QueuedLive
<1> QED
  BY <1>1, <1>2

\* The timers and the trains share the slots.
LEMMA SlotCount ==
  ASSUME TypeOK
  PROVE  /\ IsFiniteSet(DOMAIN events) /\ Cardinality(DOMAIN events) \in Nat
         /\ IsFiniteSet(TrainSlots) /\ Cardinality(TrainSlots) \in Nat
         /\ IsFiniteSet(TimerSlots) /\ Cardinality(TimerSlots) \in Nat
         /\ Cardinality(DOMAIN events) =
              Cardinality(TrainSlots) + Cardinality(TimerSlots)
         /\ Cardinality(Slots \ DOMAIN events) =
              MAX_PENDING_EVENTS - Cardinality(DOMAIN events)
<1>1. DOMAIN events \in SUBSET Slots
  BY DEF TypeOK
<1>2. IsFiniteSet(DOMAIN events)
  BY <1>1, SlotsFinite, FS_Subset
<1>3. TrainSlots \in SUBSET DOMAIN events /\ TimerSlots \in SUBSET DOMAIN events
  BY DEF TrainSlots, TimerSlots
<1>4. IsFiniteSet(TrainSlots) /\ IsFiniteSet(TimerSlots)
  BY <1>2, <1>3, FS_Subset
<1>5. DOMAIN events = TrainSlots \cup TimerSlots /\ TrainSlots \cap TimerSlots = {}
  BY DEF TrainSlots, TimerSlots
<1>6. /\ Cardinality(DOMAIN events) \in Nat /\ Cardinality(TrainSlots) \in Nat
      /\ Cardinality(TimerSlots) \in Nat
  BY <1>2, <1>4, FS_CardinalityType
<1>7. Cardinality(TrainSlots \cup TimerSlots) =
        Cardinality(TrainSlots) + Cardinality(TimerSlots) - 0
  <2>1. Cardinality(TrainSlots \cap TimerSlots) = 0
    BY <1>5, FS_EmptySet
  <2> QED
    BY <1>4, <2>1, FS_Union
<1>8. Cardinality(Slots \ DOMAIN events) =
        Cardinality(Slots) - Cardinality(Slots \cap DOMAIN events)
  BY SlotsFinite, FS_Difference
<1>9. Slots \cap DOMAIN events = DOMAIN events
  BY <1>1
<1>10. Cardinality(DOMAIN events) = Cardinality(TrainSlots) + Cardinality(TimerSlots)
  BY <1>5, <1>6, <1>7
<1>11. Cardinality(Slots \ DOMAIN events) =
        MAX_PENDING_EVENTS - Cardinality(DOMAIN events)
  BY <1>8, <1>9, SlotsFinite
<1> QED
  BY <1>2, <1>4, <1>6, <1>10, <1>11

\* The reserve is the number of timers on the line.
LEMMA Reserve ==
  /\ TIMER_EVENT_RESERVE \in Nat
  /\ IsFiniteSet(P \X Timer) /\ Cardinality(P \X Timer) = TIMER_EVENT_RESERVE
<1>1. NUM_CROSSINGS \in Nat /\ NUM_CROSSINGS \in Int /\ 1 \in Int
  BY RailSimAssumption
<1>2. IsFiniteSet(P) /\ Cardinality(P) = NUM_CROSSINGS
  BY <1>1, FS_Interval DEF P
<1>3. IsFiniteSet(Timer)
  <2>1. IsFiniteSet({"CLOSE_DELAY"} \cup {"CLOSE_TIMEOUT"})
    BY FS_Singleton, FS_Union
  <2>2. IsFiniteSet({"TRAIN_TIMEOUT_UP"} \cup {"TRAIN_TIMEOUT_DOWN"})
    BY FS_Singleton, FS_Union
  <2>3. IsFiniteSet({"OPEN_TIMEOUT"})
    BY FS_Singleton
  <2>4. IsFiniteSet(({"CLOSE_DELAY"} \cup {"CLOSE_TIMEOUT"}) \cup {"OPEN_TIMEOUT"})
    BY <2>1, <2>3, FS_Union
  <2>5. IsFiniteSet((({"CLOSE_DELAY"} \cup {"CLOSE_TIMEOUT"}) \cup {"OPEN_TIMEOUT"})
                    \cup ({"TRAIN_TIMEOUT_UP"} \cup {"TRAIN_TIMEOUT_DOWN"}))
    BY <2>2, <2>4, FS_Union
  <2>6. (({"CLOSE_DELAY"} \cup {"CLOSE_TIMEOUT"}) \cup {"OPEN_TIMEOUT"})
          \cup ({"TRAIN_TIMEOUT_UP"} \cup {"TRAIN_TIMEOUT_DOWN"}) = Timer
    BY DEF Timer
  <2> QED
    BY <2>5, <2>6
<1> QED
  BY <1>2, <1>3, FS_Product, FS_CardinalityType DEF TIMER_EVENT_RESERVE

\* While a timer does not run, a slot is free for it.
LEMMA FreeSlot ==
  ASSUME IInv, NEW p \in P, NEW t \in Timer, ~Awaited(crossings[p], t)
  PROVE  Slots \ DOMAIN events # {}
<1> DEFINE All == P \X Timer
           Rest == All \ {<<p, t>>}
           f == [i \in TimerSlots |-> <<events[i].p, events[i].arg>>]
<1>1. ~Runs(p, t)
  BY RunsAwaited DEF IInv
<1>2. \A i \in TimerSlots : events[i].p \in P /\ events[i].arg \in Timer
  BY EventCases DEF IInv, TimerSlots
<1>3. f \in Injection(TimerSlots, Rest)
  <2>1. \A i \in TimerSlots : f[i] \in Rest
    BY <1>1, <1>2 DEF Runs
  <2>2. \A i, j \in TimerSlots : f[i] = f[j] => i = j
    BY DEF IInv, TimersUnique
  <2> QED
    BY <2>1, <2>2 DEF Injection, IsInjective
<1>4. IsFiniteSet(Rest) /\ Cardinality(Rest) = TIMER_EVENT_RESERVE - 1
  <2>1. <<p, t>> \in All
    OBVIOUS
  <2> HIDE DEF All
  <2> QED
    BY <2>1, Reserve, FS_RemoveElement DEF All
<1> HIDE DEF f, Rest
<1>5. Cardinality(TimerSlots) <= TIMER_EVENT_RESERVE - 1
  BY <1>3, <1>4, FS_Injection
<1>6. Cardinality(Slots \ DOMAIN events) # 0
  <2>1. Cardinality(TrainSlots) + TIMER_EVENT_RESERVE <= MAX_PENDING_EVENTS /\ TypeOK
    BY DEF IInv, Room
  <2>2. MAX_PENDING_EVENTS \in Nat /\ TIMER_EVENT_RESERVE \in Nat
    BY RailSimAssumption, Reserve
  <2> QED
    BY <1>5, <2>1, <2>2, SlotCount
<1> QED
  BY <1>6, FS_EmptySet

-----------------------------------------------------------------------------
(***************************************************************************)
(* The queue after a handler's callbacks.                                  *)
(***************************************************************************)

\* The callbacks act on behalf of p for no queued event, or for that of a slot.
Delivering(p, slot, fired) ==
  \/ slot = {} /\ fired = {}
  \/ \E i \in DOMAIN events :
       /\ slot = {i}
       /\ events[i].p = p
       /\ fired = IF events[i].event = "TIMER" THEN {events[i].arg} ELSE {}

\* The slots neither released nor cancelled.
Kept(p, r, slot) ==
  {j \in DOMAIN events \ slot :
     ~(events[j].p = p /\ events[j].event = "TIMER" /\ events[j].arg \in r.cancel)}

\* The event that a started timer queues.
TimerFor(p, t, gen) ==
  [left |-> Seconds(t) * SEC, p |-> p, event |-> "TIMER", arg |-> t, gen |-> gen]

\* All other slots stay as they are, and a started timer has one of its own.
QueueKept(p, r, slot) ==
  LET kept == Kept(p, r, slot)
      gen == Bump(timer_gen[p], r.cancel \cup r.start)
  IN  /\ \A j \in kept : j \in DOMAIN events' /\ events'[j] = events[j]
      /\ \/ r.start = {} /\ DOMAIN events' = kept
         \/ \E t \in Timer, n \in Slots \ kept :
              /\ r.start = {t} /\ ~Awaited(crossings[p], t)
              /\ DOMAIN events' = kept \cup {n}
              /\ events'[n] = TimerFor(p, t, gen[t])

\* The callbacks keep the queue: no started timer is lost.
LEMMA CallbacksQueue ==
  ASSUME IInv, NEW p \in P, NEW r, NEW slot, NEW fired,
         StartsOne(crossings[p], r, fired), Delivering(p, slot, fired),
         Callbacks(p, r, slot)
  PROVE  QueueKept(p, r, slot)
<1> DEFINE kept == Kept(p, r, slot)
           gen == Bump(timer_gen[p], r.cancel \cup r.start)
           cut == rail_sim_cancel_timer(events, p, r.cancel)
<1>1. /\ DOMAIN cut \ slot = kept
      /\ \A j \in kept : cut[j] = events[j]
      /\ DOMAIN cut \subseteq DOMAIN events
  BY DEF rail_sim_cancel_timer, Without, Kept
<1>2. ASSUME r.start = {}
      PROVE  DOMAIN events' = kept /\ \A j \in kept : events'[j] = events[j]
  <2>1. events' = Without(cut, slot)
    BY <1>2 DEF Callbacks
  <2> HIDE DEF cut, kept
  <2> QED
    BY <1>1, <1>2, <2>1 DEF Without
<1>3. ASSUME NEW t \in Timer, r.start = {t}, ~Awaited(crossings[p], t),
             r.cancel \cap fired = {}
      PROVE  \E n \in Slots \ kept :
               /\ DOMAIN events' = kept \cup {n}
               /\ \A j \in kept : events'[j] = events[j]
               /\ events'[n] = TimerFor(p, t, gen[t])
  <2> DEFINE free == Slots \ DOMAIN cut
             n == Min(free)
             ev == TimerFor(p, t, gen[t])
  <2>1. slot \subseteq DOMAIN cut
    BY <1>3 DEF Delivering, rail_sim_cancel_timer, Without
  <2>2. free # {} /\ free \in SUBSET Nat
    BY <1>1, <1>3, FreeSlot, SlotsFinite
  <2>3. n \in free
    <3> HIDE DEF free
    <3> QED
      BY <2>2, MinIsLeast
  <2>4. events' = Without(With(cut, n, ev), slot)
    <3>1. (CHOOSE u \in r.start : TRUE) = t
      BY <1>3
    <3>2. events' = Without(rail_sim_start_timer(cut, p, t, gen[t]), slot)
      BY <1>3, <3>1 DEF Callbacks
    <3>3. rail_sim_start_timer(cut, p, t, gen[t]) = With(cut, n, ev)
      BY <2>2 DEF rail_sim_start_timer, queue_event, TimerFor
    <3> QED
      BY <3>2, <3>3
  <2> HIDE DEF free, n, ev, cut, kept
  <2>5. n \notin DOMAIN cut /\ n \in Slots
    BY <2>3 DEF free
  <2>6. /\ DOMAIN events' = (DOMAIN cut \cup {n}) \ slot
        /\ \A j \in DOMAIN events' : events'[j] = IF j = n THEN ev ELSE cut[j]
    BY <2>4 DEF Without, With
  <2>7. n \notin slot /\ n \notin kept
    BY <1>1, <2>1, <2>5
  <2> QED
    BY <1>1, <2>1, <2>5, <2>6, <2>7 DEF ev
<1>4. \/ r.start = {}
      \/ \E t \in Timer : /\ r.start = {t} /\ ~Awaited(crossings[p], t)
                          /\ r.cancel \cap fired = {}
  BY DEF StartsOne
<1> HIDE DEF kept, gen
<1>5. /\ \A j \in kept : j \in DOMAIN events' /\ events'[j] = events[j]
      /\ \/ r.start = {} /\ DOMAIN events' = kept
         \/ \E t \in Timer, n \in Slots \ kept :
              /\ r.start = {t} /\ ~Awaited(crossings[p], t)
              /\ DOMAIN events' = kept \cup {n}
              /\ events'[n] = TimerFor(p, t, gen[t])
  BY <1>2, <1>3, <1>4
<1> QED
  BY <1>5 DEF QueueKept, kept, gen

\* A started timer is a well-formed event.
LEMMA TimerForType ==
  ASSUME NEW p \in P, NEW t \in Timer, NEW g \in 0 .. GEN_MOD - 1
  PROVE  /\ Seconds(t) \in Nat \ {0}
         /\ TimerFor(p, t, g) \in Event
<1>1. Seconds(t) \in Nat \ {0} /\ SEC \in Nat
  BY RailSimAssumption DEF Seconds
<1>2. Seconds(t) * SEC \in Int
  BY <1>1
<1> QED
  BY <1>1, <1>2 DEF TimerFor, Event

\* The queue stays well-formed, its timers unique and live.
LEMMA CallbacksTimers ==
  ASSUME IInv, NEW p \in P, NEW r, NEW slot, NEW fired,
         Contract(crossings[p], r, fired), StartsOne(crossings[p], r, fired),
         Delivering(p, slot, fired), Callbacks(p, r, slot)
  PROVE  /\ timer_gen' \in [P -> Generations]
         /\ timer_gen'[p] = Bump(timer_gen[p], r.cancel \cup r.start)
         /\ \A o \in P \ {p} : timer_gen'[o] = timer_gen[o]
         /\ DOMAIN events' \subseteq Slots
         /\ \A j \in DOMAIN events' : events'[j] \in Event
         /\ TimersUnique' /\ TimersLive' /\ Room'
<1> DEFINE gen == Bump(timer_gen[p], r.cancel \cup r.start)
           kept == Kept(p, r, slot)
<1>0. TypeOK /\ timer_gen[p] \in Generations
  BY DEF IInv, TypeOK
<1>1. gen \in Generations
  BY <1>0, BumpType
<1>2. timer_gen' = [timer_gen EXCEPT ![p] = gen]
  BY DEF Callbacks
<1>3. /\ timer_gen' \in [P -> Generations]
      /\ timer_gen'[p] = gen
      /\ \A o \in P \ {p} : timer_gen'[o] = timer_gen[o]
  BY <1>0, <1>1, <1>2 DEF TypeOK
<1>4. \A j \in kept : j \in DOMAIN events /\ j \in DOMAIN events' /\ events'[j] = events[j]
  <2>1. \A j \in Kept(p, r, slot) : j \in DOMAIN events' /\ events'[j] = events[j]
    BY CallbacksQueue, Zenon DEF QueueKept
  <2> QED
    BY <2>1 DEF Kept
<1>5. \/ r.start = {} /\ DOMAIN events' = kept
      \/ \E t \in Timer, n \in Slots \ kept :
           /\ r.start = {t} /\ ~Runs(p, t)
           /\ DOMAIN events' = kept \cup {n}
           /\ events'[n] = TimerFor(p, t, gen[t])
  <2>1. \/ r.start = {} /\ DOMAIN events' = kept
        \/ \E t \in Timer, n \in Slots \ kept :
             /\ r.start = {t} /\ ~Awaited(crossings[p], t)
             /\ DOMAIN events' = kept \cup {n}
             /\ events'[n] = TimerFor(p, t, gen[t])
    <3>1. QueueKept(p, r, slot)
      BY CallbacksQueue
    <3> QED
      BY <3>1, Zenon DEF QueueKept
  <2>2. \A t \in Timer : Runs(p, t) <=> Awaited(crossings[p], t)
    BY RunsAwaited DEF IInv
  <2> HIDE DEF gen, kept
  <2> QED
    BY <2>1, <2>2
<1>6. \A t \in r.start : t \in Timer /\ ~Runs(p, t) /\ gen[t] \in 0 .. GEN_MOD - 1
  BY <1>1, <1>5 DEF Generations
<1>7. \A j \in kept : events[j].event = "TIMER" /\ events[j].p = p =>
        /\ events[j].arg \in Timer
        /\ events[j].arg \notin r.cancel \cup r.start
        /\ gen[events[j].arg] = timer_gen[p][events[j].arg]
  <2>1. ASSUME NEW j \in kept, events[j].event = "TIMER", events[j].p = p
        PROVE  /\ events[j].arg \in Timer
               /\ events[j].arg \notin r.cancel \cup r.start
    <3>1. events[j].arg \in Timer /\ Runs(p, events[j].arg)
      BY <1>0, <1>4, <2>1, EventCases DEF Runs, TimerSlots
    <3> QED
      BY <1>6, <2>1, <3>1 DEF Kept
  <2> QED
    BY <2>1 DEF Bump
<1> HIDE DEF gen, kept
<1>8. \A j \in DOMAIN events' : j \in Slots /\ events'[j] \in Event
  <2>1. \A j \in kept : j \in Slots /\ events'[j] \in Event
    BY <1>0, <1>4 DEF TypeOK
  <2>2. CASE r.start = {} /\ DOMAIN events' = kept
    BY <2>1, <2>2
  <2>3. ASSUME NEW t \in Timer, NEW n \in Slots \ kept, r.start = {t},
               DOMAIN events' = kept \cup {n},
               events'[n] = TimerFor(p, t, gen[t])
        PROVE  \A j \in DOMAIN events' : j \in Slots /\ events'[j] \in Event
    <3>1. TimerFor(p, t, gen[t]) \in Event
      BY <1>6, <2>3, TimerForType
    <3> QED
      BY <2>1, <2>3, <3>1
  <2> QED
    BY <1>5, <2>2, <2>3
<1>9. \A j \in DOMAIN events' : j \notin kept =>
        \E t \in r.start : events'[j] = TimerFor(p, t, gen[t])
  BY <1>5
<1>10. \A i, j \in DOMAIN events' : i \notin kept /\ j \notin kept => i = j
  BY <1>5
<1>11. TimersUnique'
  <2> SUFFICES ASSUME NEW i \in DOMAIN events', NEW j \in DOMAIN events',
                      events'[i].event = "TIMER", events'[j].event = "TIMER",
                      events'[i].p = events'[j].p, events'[i].arg = events'[j].arg
               PROVE  i = j
    BY DEF TimersUnique, TimerSlots
  <2>1. CASE i \in kept /\ j \in kept
    BY <1>4, <2>1 DEF IInv, TimersUnique, TimerSlots
  <2>2. CASE i \notin kept /\ j \in kept
    BY <1>4, <1>7, <1>9, <2>2 DEF TimerFor
  <2>3. CASE i \in kept /\ j \notin kept
    BY <1>4, <1>7, <1>9, <2>3 DEF TimerFor
  <2>4. CASE i \notin kept /\ j \notin kept
    BY <1>10, <2>4
  <2> QED
    BY <2>1, <2>2, <2>3, <2>4
<1>12. TimersLive'
  <2> SUFFICES ASSUME NEW j \in DOMAIN events', events'[j].event = "TIMER"
               PROVE  events'[j].gen = timer_gen'[events'[j].p][events'[j].arg]
    BY DEF TimersLive, TimerSlots
  <2>1. CASE j \in kept /\ events[j].p = p
    <3>1. events[j].gen = timer_gen[p][events[j].arg]
      BY <1>4, <2>1 DEF IInv, TimersLive, TimerSlots
    <3> QED
      BY <1>3, <1>4, <1>7, <2>1, <3>1
  <2>2. CASE j \in kept /\ events[j].p # p
    <3>1. events[j].gen = timer_gen[events[j].p][events[j].arg]
      BY <1>4, <2>2 DEF IInv, TimersLive, TimerSlots
    <3>2. events[j].p \in P
      BY <1>0, <1>4, <2>2, EventCases
    <3> QED
      BY <1>3, <1>4, <2>2, <3>1, <3>2
  <2>3. CASE j \notin kept
    BY <1>3, <1>9, <2>3 DEF TimerFor
  <2> QED
    BY <2>1, <2>2, <2>3
<1>13. Room'
  <2>1. TrainSlots' \in SUBSET TrainSlots
    BY <1>4, <1>9 DEF TrainSlots, TimerFor
  <2>2. /\ Cardinality(TrainSlots') <= Cardinality(TrainSlots)
        /\ Cardinality(TrainSlots') \in Nat /\ Cardinality(TrainSlots) \in Nat
    BY <1>0, <2>1, SlotCount, FS_Subset, FS_CardinalityType
  <2>3. TIMER_EVENT_RESERVE' = TIMER_EVENT_RESERVE
    BY DEF TIMER_EVENT_RESERVE
  <2> QED
    BY <2>2, <2>3, Reserve, RailSimAssumption DEF IInv, Room
<1> QED
  BY <1>3, <1>8, <1>11, <1>12, <1>13 DEF gen

\* The entries of p that were not delivered.
Undelivered(p, fired) == {e \in QueuedTimers(p) : e[1] \notin fired}

\* The queued timers of p are what its platform would hold, the others' stay.
LEMMA CallbacksQueued ==
  ASSUME IInv, NEW p \in P, NEW r, NEW slot, NEW fired,
         Contract(crossings[p], r, fired), StartsOne(crossings[p], r, fired),
         Delivering(p, slot, fired), Callbacks(p, r, slot)
  PROVE  /\ \A o \in P \ {p} : QueuedTimers(o)' = QueuedTimers(o)
         /\ QueuedTimers(p)' =
              QueueAfter(Undelivered(p, fired), r,
                         Bump(timer_gen[p], r.cancel \cup r.start),
                         {e \in Undelivered(p, fired) : e[1] \in r.cancel})
<1> DEFINE gen == Bump(timer_gen[p], r.cancel \cup r.start)
           kept == Kept(p, r, slot)
           rest == Undelivered(p, fired)
           gone == {e \in rest : e[1] \in r.cancel}
           Entry(o, j) == events[j].event = "TIMER" /\ events[j].p = o
<1>0. TypeOK
  BY DEF IInv
<1>1. QueueKept(p, r, slot)
  BY CallbacksQueue
<1>2. \A j \in kept : j \in DOMAIN events /\ j \in DOMAIN events' /\ events'[j] = events[j]
  <2>1. \A j \in kept : j \in DOMAIN events' /\ events'[j] = events[j]
    BY <1>1, Zenon DEF QueueKept
  <2> QED
    BY <2>1 DEF Kept
<1>3. \/ r.start = {} /\ DOMAIN events' = kept
      \/ \E t \in Timer, n \in Slots \ kept :
           /\ r.start = {t} /\ ~Awaited(crossings[p], t)
           /\ DOMAIN events' = kept \cup {n}
           /\ events'[n] = TimerFor(p, t, gen[t])
  BY <1>1, Zenon DEF QueueKept
<1>4. \A j \in DOMAIN events : \A o \in P : Entry(o, j) =>
        (j \in kept <=> o # p \/ events[j].arg \notin r.cancel \cup fired)
  <2> SUFFICES ASSUME NEW j \in DOMAIN events, NEW o \in P, Entry(o, j)
               PROVE  j \in kept <=> o # p \/ events[j].arg \notin r.cancel \cup fired
    OBVIOUS
  <2>1. j \in slot <=> o = p /\ events[j].arg \in fired
    <3>1. CASE slot = {} /\ fired = {}
      BY <3>1
    <3>2. ASSUME NEW i \in DOMAIN events, slot = {i}, events[i].p = p,
                 fired = IF events[i].event = "TIMER" THEN {events[i].arg} ELSE {}
          PROVE  j \in slot <=> o = p /\ events[j].arg \in fired
      BY <3>2 DEF IInv, TimersUnique, TimerSlots
    <3> QED
      BY <3>1, <3>2 DEF Delivering
  <2> QED
    BY <2>1 DEF Kept
<1>5. \A j \in DOMAIN events : Entry(p, j) =>
        events[j].arg \in Timer /\ events[j].arg \notin r.start
  <2>1. ASSUME NEW j \in DOMAIN events, Entry(p, j)
        PROVE  events[j].arg \in Timer /\ Runs(p, events[j].arg)
    BY <1>0, <2>1, EventCases DEF Runs, TimerSlots
  <2>2. \A t \in Timer : Runs(p, t) <=> Awaited(crossings[p], t)
    BY RunsAwaited DEF IInv
  <2> HIDE DEF Entry, kept, gen
  <2> QED
    BY <1>3, <2>1, <2>2
<1>6. /\ \A o, e : e \in QueuedTimers(o) <=>
           \E j \in DOMAIN events : Entry(o, j) /\ e = <<events[j].arg, events[j].gen>>
      /\ \A o, e : e \in QueuedTimers(o)' <=>
           \E j \in DOMAIN events' : /\ events'[j].event = "TIMER" /\ events'[j].p = o
                                     /\ e = <<events'[j].arg, events'[j].gen>>
  BY DEF QueuedTimers
<1> HIDE DEF kept, gen
<1>7. \A o, e : e \in QueuedTimers(o)' <=>
        \/ \E j \in kept : Entry(o, j) /\ e = <<events[j].arg, events[j].gen>>
        \/ o = p /\ \E t \in r.start : e = <<t, gen[t]>>
  <2>1. CASE r.start = {} /\ DOMAIN events' = kept
    BY <1>2, <1>6, <2>1
  <2>2. ASSUME NEW t \in Timer, NEW n \in Slots \ kept, r.start = {t},
               DOMAIN events' = kept \cup {n}, events'[n] = TimerFor(p, t, gen[t])
        PROVE  \A o, e : e \in QueuedTimers(o)' <=>
                 \/ \E j \in kept : Entry(o, j) /\ e = <<events[j].arg, events[j].gen>>
                 \/ o = p /\ \E u \in r.start : e = <<u, gen[u]>>
    <3>1. /\ events'[n].event = "TIMER" /\ events'[n].p = p
          /\ events'[n].arg = t /\ events'[n].gen = gen[t]
      BY <2>2 DEF TimerFor
    <3> QED
      BY <1>2, <1>6, <2>2, <3>1
  <2> QED
    BY <1>3, <2>1, <2>2
<1>8. ASSUME NEW o \in P \ {p} PROVE QueuedTimers(o)' = QueuedTimers(o)
  <2>1. \A e : e \in QueuedTimers(o)' <=> e \in QueuedTimers(o)
    BY <1>2, <1>4, <1>6, <1>7
  <2> QED
    BY <2>1
<1>9. QueuedTimers(p)' = QueueAfter(rest, r, gen, gone)
  <2>1. \A e : e \in rest <=> \E j \in DOMAIN events :
          /\ Entry(p, j) /\ e = <<events[j].arg, events[j].gen>>
          /\ events[j].arg \notin fired
    BY <1>6 DEF Undelivered
  <2>2. \A e \in rest : e[1] \notin r.start
    BY <1>5, <2>1
  <2>3. \A e : e \in QueueAfter(rest, r, gen, gone) <=>
          (e \in rest /\ e[1] \notin r.cancel) \/ \E t \in r.start : e = <<t, gen[t]>>
    <3> HIDE DEF rest
    <3> QED
      BY <2>2 DEF QueueAfter
  <2> HIDE DEF rest, gone
  <2>4. \A e : (e \in rest /\ e[1] \notin r.cancel) <=>
          \E j \in kept : Entry(p, j) /\ e = <<events[j].arg, events[j].gen>>
    <3>1. \A j \in DOMAIN events : Entry(p, j) =>
            (j \in kept <=> events[j].arg \notin r.cancel /\ events[j].arg \notin fired)
      BY <1>4
    <3> HIDE DEF Entry
    <3> QED
      BY <1>2, <2>1, <3>1
  <2>5. \A e : e \in QueuedTimers(p)' <=> e \in QueueAfter(rest, r, gen, gone)
    BY <1>7, <2>3, <2>4
  <2> QED
    BY <2>5
<1> QED
  BY <1>8, <1>9 DEF gen

\* A sound result leaves every crossing of the line sound.
LEMMA CallbacksSound ==
  ASSUME IInv, NEW p \in P, NEW r, NEW slot, NEW fired \in SUBSET Timer,
         Contract(crossings[p], r, fired), StartsOne(crossings[p], r, fired),
         Delivering(p, slot, fired), Callbacks(p, r, slot)
  PROVE  crossings' \in [P -> CrossingState] /\ preempted' \subseteq P /\ AllSound'
<1> DEFINE gen == Bump(timer_gen[p], r.cancel \cup r.start)
           rest == Undelivered(p, fired)
           gone == {e \in rest : e[1] \in r.cancel}
           told == "PREEMPT" \in r.send \/ (p \in preempted /\ "CLEAR" \notin r.send)
<1>1. /\ crossings \in [P -> CrossingState] /\ preempted \subseteq P
      /\ Sound(crossings[p], timer_gen[p], QueuedTimers(p), p \in preempted)
  BY DEF IInv, TypeOK, AllSound
<1>2. r.cx \in CrossingState
  BY DEF Contract
<1>3. /\ crossings' \in [P -> CrossingState]
      /\ crossings'[p] = r.cx
      /\ \A o \in P \ {p} : crossings'[o] = crossings[o]
  BY <1>1, <1>2 DEF Callbacks
<1>4. /\ preempted' \subseteq P
      /\ p \in preempted' <=> told
      /\ \A o \in P \ {p} : o \in preempted' <=> o \in preempted
  BY <1>1 DEF Callbacks
<1>5. /\ timer_gen'[p] = gen
      /\ \A o \in P \ {p} : timer_gen'[o] = timer_gen[o]
  BY CallbacksTimers
<1>6. /\ \A o \in P \ {p} : QueuedTimers(o)' = QueuedTimers(o)
      /\ QueuedTimers(p)' = QueueAfter(rest, r, gen, gone)
  BY CallbacksQueued
<1>7. Sound(r.cx, gen, QueueAfter(rest, r, gen, gone), told)
  <2>1. rest \in SUBSET QueuedTimers(p) /\ gone \in SUBSET {e \in rest : e[1] \in r.cancel}
    BY DEF Undelivered
  <2>2. \A t \in Timer : <<t, timer_gen[p][t]>> \in rest <=>
          t \notin fired /\ <<t, timer_gen[p][t]>> \in QueuedTimers(p)
    BY DEF Undelivered
  <2> HIDE DEF rest, gone
  <2> QED
    BY <1>1, <2>1, <2>2, ResultSound
<1> HIDE DEF gen, rest, gone, told
<1>8. ASSUME NEW o \in P
      PROVE  Sound(crossings'[o], timer_gen'[o], QueuedTimers(o)', o \in preempted')
  <2>1. CASE o = p
    BY <1>3, <1>4, <1>5, <1>6, <1>7, <2>1 DEF Sound
  <2>2. CASE o # p
    <3>1. Sound(crossings[o], timer_gen[o], QueuedTimers(o), o \in preempted)
      BY DEF IInv, AllSound
    <3> QED
      BY <1>3, <1>4, <1>5, <1>6, <2>2, <3>1 DEF Sound
  <2> QED
    BY <2>1, <2>2
<1>9. AllSound'
  BY <1>8 DEF AllSound
<1> QED
  BY <1>3, <1>4, <1>9

\* Steps that leave the crossings and the timers alone.
LEMMA TimersSame ==
  ASSUME IInv, UNCHANGED <<crossings, timer_gen, preempted>>,
         TimerSlots' = TimerSlots,
         \A i \in TimerSlots : /\ events'[i].p = events[i].p
                               /\ events'[i].arg = events[i].arg
                               /\ events'[i].gen = events[i].gen
  PROVE  /\ TimersUnique' /\ TimersLive' /\ AllSound'
         /\ \A p \in P : QueuedTimers(p)' = QueuedTimers(p)
<1>1. TimersUnique' /\ TimersLive'
  BY DEF IInv, TimersUnique, TimersLive
<1>2. ASSUME NEW p \in P PROVE QueuedTimers(p)' = QueuedTimers(p)
  <2>1. \A e : e \in QueuedTimers(p) <=> \E j \in TimerSlots :
          events[j].p = p /\ e = <<events[j].arg, events[j].gen>>
    BY DEF QueuedTimers, TimerSlots
  <2>2. \A e : e \in QueuedTimers(p)' <=> \E j \in TimerSlots' :
          events'[j].p = p /\ e = <<events'[j].arg, events'[j].gen>>
    BY DEF QueuedTimers, TimerSlots
  <2>3. \A e : e \in QueuedTimers(p)' <=> e \in QueuedTimers(p)
    BY <2>1, <2>2
  <2> QED
    BY <2>3
<1>3. ASSUME NEW p \in P
      PROVE  Sound(crossings'[p], timer_gen'[p], QueuedTimers(p)', p \in preempted')
  BY <1>2 DEF IInv, AllSound
<1>4. AllSound'
  BY <1>3 DEF AllSound
<1> QED
  BY <1>1, <1>2, <1>4

\* A started train fits into the queue and leaves the timers their room.
LEMMA QueueInv ==
  ASSUME IInv, NEW seq, NEW n \in Nat, Len(seq) = n,
         \A k \in 1 .. n : seq[k] \in Event /\ seq[k].event # "TIMER",
         Cardinality(Slots \ DOMAIN events) >= n + TIMER_EVENT_RESERVE,
         Queue(seq)
  PROVE  /\ IInv'
         /\ \A p \in P : QueuedTimers(p)' = QueuedTimers(p)
<1> DEFINE new == DOMAIN events' \ DOMAIN events
<1>0. TypeOK /\ DOMAIN events \subseteq Slots
  BY DEF IInv, TypeOK
<1>1. /\ TIMER_EVENT_RESERVE \in Nat /\ MAX_PENDING_EVENTS \in Nat
      /\ Cardinality(Slots \ DOMAIN events) \in Int
      /\ Cardinality(Slots \ DOMAIN events) =
           MAX_PENDING_EVENTS - Cardinality(DOMAIN events)
      /\ Cardinality(DOMAIN events) \in Nat /\ IsFiniteSet(DOMAIN events)
  <2>1. MAX_PENDING_EVENTS \in Nat
    BY RailSimAssumption
  <2>2. TIMER_EVENT_RESERVE \in Nat
    BY Reserve
  <2> QED
    BY <1>0, <2>1, <2>2, SlotCount
<1>2. n <= Cardinality(Slots \ DOMAIN events)
  BY <1>1
<1>3. events' = queue_events(events, seq)
  BY DEF Queue
<1>4. /\ DOMAIN events \subseteq DOMAIN events' /\ DOMAIN events' \subseteq Slots
      /\ \A i \in DOMAIN events : events'[i] = events[i]
      /\ \E rank \in Bijection(new, 1 .. n) : \A i \in new : events'[i] = seq[rank[i]]
  <2>1. Appended(events, queue_events(events, seq), seq)
    BY <1>0, <1>2, QueueEvents
  <2> QED
    BY <1>3, <2>1, Zenon DEF Appended
<1> HIDE DEF new
<1>5. PICK rank \in Bijection(new, 1 .. n) : \A i \in new : events'[i] = seq[rank[i]]
  BY <1>4
<1>6. \A i \in new : events'[i] \in Event /\ events'[i].event # "TIMER"
  BY <1>5 DEF Bijection, Injection
<1>7. DOMAIN events' = DOMAIN events \cup new
  BY <1>4 DEF new
<1>8. TypeOK'
  BY <1>0, <1>4, <1>6, <1>7 DEF TypeOK, Queue
<1>9. /\ TimersUnique' /\ TimersLive' /\ AllSound'
      /\ \A p \in P : QueuedTimers(p)' = QueuedTimers(p)
  <2>1. TimerSlots' = TimerSlots
    BY <1>4, <1>6, <1>7 DEF TimerSlots
  <2>2. \A i \in TimerSlots : events'[i] = events[i]
    BY <1>4 DEF TimerSlots
  <2>3. UNCHANGED <<crossings, timer_gen, preempted>>
    BY DEF Queue
  <2> QED
    BY <2>1, <2>2, <2>3, TimersSame
<1>10. Room'
  <2>1. rank \in Injection(new, 1 .. n) /\ IsFiniteSet(1 .. n) /\ Cardinality(1 .. n) = n
    BY <1>5, FS_Interval DEF Bijection
  <2>2. IsFiniteSet(new) /\ Cardinality(new) <= n /\ Cardinality(new) \in Nat
    BY <2>1, FS_Injection, FS_CardinalityType
  <2>3. DOMAIN events \cap new = {}
    BY DEF new
  <2>4. /\ IsFiniteSet(DOMAIN events')
        /\ Cardinality(DOMAIN events') = Cardinality(DOMAIN events) + Cardinality(new) - 0
    <3>1. DOMAIN events' = DOMAIN events \cup new
      BY <1>7
    <3>2. Cardinality(DOMAIN events \cap new) = 0
      BY <2>3, FS_EmptySet
    <3>3. IsFiniteSet(DOMAIN events)
      BY <1>1
    <3> HIDE DEF new
    <3> QED
      BY <2>2, <3>1, <3>2, <3>3, FS_Union
  <2>5. TrainSlots' \in SUBSET DOMAIN events'
    BY DEF TrainSlots
  <2>6. Cardinality(TrainSlots') <= Cardinality(DOMAIN events')
        /\ Cardinality(TrainSlots') \in Nat
    BY <2>4, <2>5, FS_Subset, FS_CardinalityType
  <2>7. Cardinality(TrainSlots') + TIMER_EVENT_RESERVE <= MAX_PENDING_EVENTS
    BY <1>1, <2>2, <2>4, <2>6
  <2> QED
    BY <2>7 DEF Room, TIMER_EVENT_RESERVE
<1> QED
  BY <1>8, <1>9, <1>10 DEF IInv

-----------------------------------------------------------------------------
(***************************************************************************)
(* The events of a started train.                                          *)
(***************************************************************************)

\* The events of one crossing's passage are well-formed train events.
LEMMA PassageType ==
  ASSUME NEW p \in P, NEW dir \in Dir, NEW warning \in Nat
  PROVE  /\ Len(Passage(p, dir, warning)) = 3
         /\ \A k \in 1 .. 3 : /\ Passage(p, dir, warning)[k] \in Event
                              /\ Passage(p, dir, warning)[k].event # "TIMER"
<1>1. /\ SEC \in Nat /\ warning * SEC \in Int
      /\ (warning + TRAIN_WARNING_SEC) * SEC \in Int
      /\ (warning + TRAIN_WARNING_SEC + TRAIN_LENGTH_SEC) * SEC \in Int
  BY RailSimAssumption
<1>2. ASSUME NEW event \in TrainEvent, NEW s, s * SEC \in Int
      PROVE  TrainAt(p, event, dir, s) \in Event /\ TrainAt(p, event, dir, s).event # "TIMER"
  BY <1>2 DEF TrainAt, Event, TrainEvent
<1>3. {"TRAIN_APPROACH", "TRAIN_ENTER", "TRAIN_EXIT"} \subseteq TrainEvent
  BY DEF TrainEvent
<1>4. \A k \in 1 .. 3 : k = 1 \/ k = 2 \/ k = 3
  OBVIOUS
<1> QED
  BY <1>1, <1>2, <1>3, <1>4 DEF Passage

\* The crossings of a route.
LEMMA RouteType ==
  ASSUME NEW dir \in Dir, NEW k \in P
  PROVE  Route(dir)[k] \in P
BY RailSimAssumption DEF Route, P

\* The n-th event of a train on the line.
LEMMA LineEvents ==
  ASSUME NEW dir \in Dir
  PROVE  LET seq == simulate_train_on_line(dir)
         IN  /\ Len(seq) = 3 * NUM_CROSSINGS
             /\ \A n \in 1 .. 3 * NUM_CROSSINGS :
                  LET k == (n + 2) \div 3
                  IN  /\ k \in P /\ n - 3 * (k - 1) \in 1 .. 3
                      /\ seq[n] = Passage(Route(dir)[k], dir, Travel(dir)[k])[n - 3 * (k - 1)]
<1> DEFINE seq == simulate_train_on_line(dir)
<1>1. NUM_CROSSINGS \in Nat \ {0} /\ 3 * NUM_CROSSINGS \in Nat
  BY RailSimAssumption
<1>2. DOMAIN seq = 1 .. 3 * NUM_CROSSINGS /\ Len(seq) = 3 * NUM_CROSSINGS
  BY <1>1 DEF simulate_train_on_line
<1>3. ASSUME NEW n \in 1 .. 3 * NUM_CROSSINGS
      PROVE  /\ (n + 2) \div 3 \in P /\ n - 3 * ((n + 2) \div 3 - 1) \in 1 .. 3
  BY <1>1 DEF P
<1> QED
  BY <1>2, <1>3 DEF simulate_train_on_line

\* A train on the line queues well-formed train events.
LEMMA LineType ==
  ASSUME NEW dir \in Dir, NEW n \in 1 .. 3 * NUM_CROSSINGS
  PROVE  /\ simulate_train_on_line(dir)[n] \in Event
         /\ simulate_train_on_line(dir)[n].event # "TIMER"
<1> DEFINE k == (n + 2) \div 3
<1>1. /\ k \in P /\ n - 3 * (k - 1) \in 1 .. 3
      /\ simulate_train_on_line(dir)[n] =
           Passage(Route(dir)[k], dir, Travel(dir)[k])[n - 3 * (k - 1)]
  BY LineEvents
<1> HIDE DEF k
<1>2. Route(dir)[k] \in P /\ Travel(dir)[k] \in Nat
  BY <1>1, RouteType, TravelType
<1> QED
  BY <1>1, <1>2, PassageType

\* So does a train at one crossing.
LEMMA AtCrossingType ==
  ASSUME NEW p \in P, NEW dir \in Dir, NEW no_exit \in BOOLEAN
  PROVE  LET seq == simulate_train_at_crossing(p, dir, no_exit)
             n == IF no_exit THEN 2 ELSE 3
         IN  /\ Len(seq) = n
             /\ \A k \in 1 .. n : /\ seq[k] = Passage(p, dir, 0)[k]
                                  /\ seq[k] \in Event /\ seq[k].event # "TIMER"
<1> DEFINE all == Passage(p, dir, 0)
           n == IF no_exit THEN 2 ELSE 3
           seq == simulate_train_at_crossing(p, dir, no_exit)
<1>1. Len(all) = 3 /\ \A k \in 1 .. 3 : all[k] \in Event /\ all[k].event # "TIMER"
  BY PassageType
<1>2. seq = SubSeq(all, 1, n)
  BY DEF simulate_train_at_crossing
<1> HIDE DEF all, seq
<1>3. seq = [k \in 1 .. n |-> all[k]]
  BY <1>2
<1>4. Len(seq) = n /\ \A k \in 1 .. n : k \in 1 .. 3 /\ seq[k] = all[k]
  BY <1>3
<1> QED
  BY <1>1, <1>4 DEF seq, all

-----------------------------------------------------------------------------
(***************************************************************************)
(* The steps of the simulator.                                             *)
(***************************************************************************)

\* The callbacks of a sound result.
Handled(p, r, slot, fired) ==
  /\ p \in P /\ fired \in SUBSET Timer
  /\ Contract(crossings[p], r, fired) /\ StartsOne(crossings[p], r, fired)
  /\ Delivering(p, slot, fired)
  /\ Callbacks(p, r, slot)

\* The result of the event in slot i, whose timer, if it is one, is current.
ResultAt(i) ==
  crossing_handle_event(crossings[events[i].p], events[i].event, events[i].arg, TRUE)

\* The timer that an event is of.
FiredAt(i) == IF events[i].event = "TIMER" THEN {events[i].arg} ELSE {}

\* A crossing is in a state its handlers accept.
LEMMA CrossingOK ==
  ASSUME IInv, NEW p \in P
  PROVE  crossings[p] \in CrossingState /\ CxInv(crossings[p])
BY DEF IInv, AllSound, Sound

\* The due gate gets the sensor event of its direction of movement.
LEMMA GateResult ==
  ASSUME IInv, GateMoved
  PROVE  LET p == Min(DueGates)
             event == IF crossings[p].gate = "OPENING" THEN "GATE_OPENED" ELSE "GATE_CLOSED"
             r == crossing_handle_event(crossings[p], event, "UP", TRUE)
         IN  /\ p \in P /\ p \in DueGates /\ Handled(p, r, {}, {})
             /\ gates' = rail_sim_gate_command(Without(gates, {p}), p, r)
<1> DEFINE p == Min(DueGates)
           c == crossings[p]
           event == IF c.gate = "OPENING" THEN "GATE_OPENED" ELSE "GATE_CLOSED"
           r == crossing_handle_event(c, event, "UP", TRUE)
<1>1. DueGates \in SUBSET P /\ DueGates # {} /\ P \subseteq Nat
  BY DEF IInv, TypeOK, DueGates, GateMoved, P
<1>2. p \in DueGates /\ p \in P
  BY <1>1, MinIsLeast
<1> HIDE DEF p
<1>3. c \in CrossingState /\ CxInv(c) /\ "UP" \in Dir
  BY <1>2, CrossingOK DEF Dir
<1>4. Contract(c, r, {}) /\ StartsOne(c, r, {})
  BY <1>3, EventOK, EventStartsOne
<1>5. Delivering(p, {}, {})
  BY DEF Delivering
<1>6. c.gate \notin {"CLOSING", "OPENING"} => r = Nothing(c)
  BY DEF crossing_handle_event, on_gate_closed
<1>7. r = IF c.gate \in {"CLOSING", "OPENING"}
          THEN crossing_handle_event(c,
                 IF c.gate = "CLOSING" THEN "GATE_CLOSED" ELSE "GATE_OPENED", "UP", TRUE)
          ELSE Nothing(c)
  BY <1>6
<1>8. /\ Callbacks(p, r, {})
      /\ gates' = rail_sim_gate_command(Without(gates, {p}), p, r)
  BY <1>7, Zenon DEF GateMoved, p
<1> HIDE DEF r, c
<1>9. Handled(p, r, {}, {})
  BY <1>2, <1>4, <1>5, <1>8 DEF Handled, c
<1> QED
  BY <1>2, <1>8, <1>9 DEF p, r, c

\* The due event's handler; a queued timer is always current.
LEMMA DeliverResult ==
  ASSUME IInv, Deliver
  PROVE  LET i == Min(DueEvents)
             p == events[i].p
         IN  /\ i \in DueEvents /\ i \in DOMAIN events
             /\ Handled(p, ResultAt(i), {i}, FiredAt(i))
             /\ gates' = rail_sim_gate_command(gates, p, ResultAt(i))
             /\ \A t \in FiredAt(i) : Awaited(crossings[p], t)
<1> DEFINE i == Min(DueEvents)
           p == events[i].p
           c == crossings[p]
<1>0. TypeOK
  BY DEF IInv
<1>1. DueEvents \in SUBSET Nat /\ DueEvents # {}
  BY <1>0, SlotsFinite DEF TypeOK, DueEvents, Deliver
<1>2. i \in DueEvents /\ i \in DOMAIN events
  BY <1>1, MinIsLeast DEF DueEvents
<1>3. Callbacks(p, crossing_handle_event(c, events[i].event, events[i].arg,
        events[i].event = "TIMER" => events[i].gen = timer_gen[p][events[i].arg]), {i})
      /\ gates' = rail_sim_gate_command(gates, p,
           crossing_handle_event(c, events[i].event, events[i].arg,
             events[i].event = "TIMER" => events[i].gen = timer_gen[p][events[i].arg]))
  BY Zenon DEF Deliver
<1> HIDE DEF i
<1>4. events[i].event = "TIMER" => events[i].gen = timer_gen[p][events[i].arg]
  BY <1>2 DEF IInv, TimersLive, TimerSlots
<1>5. Callbacks(p, ResultAt(i), {i}) /\ gates' = rail_sim_gate_command(gates, p, ResultAt(i))
  <2>1. (events[i].event = "TIMER" => events[i].gen = timer_gen[p][events[i].arg]) = TRUE
    BY <1>4
  <2> QED
    BY <1>3, <2>1, Zenon DEF ResultAt
<1>6. p \in P /\ c \in CrossingState /\ CxInv(c)
  BY <1>0, <1>2, EventCases, CrossingOK
<1>7. Delivering(p, {i}, FiredAt(i))
  BY <1>2 DEF Delivering, FiredAt
<1>8. /\ Contract(c, ResultAt(i), FiredAt(i)) /\ StartsOne(c, ResultAt(i), FiredAt(i))
      /\ FiredAt(i) \in SUBSET Timer
      /\ \A t \in FiredAt(i) : Awaited(c, t)
  <2>1. CASE events[i].event = "TIMER"
    <3>1. events[i].arg \in Timer /\ Runs(p, events[i].arg)
      BY <1>0, <1>2, <2>1, EventCases DEF Runs, TimerSlots
    <3>2. Awaited(c, events[i].arg)
      BY <1>6, <3>1, RunsAwaited DEF IInv
    <3>3. c.fault = "NONE"
      BY <1>6, <3>1, <3>2 DEF Awaited, CxInv, Timer
    <3>4. FiredAt(i) = {events[i].arg}
          /\ ResultAt(i) = crossing_handle_event(c, "TIMER", events[i].arg, TRUE)
      BY <2>1 DEF FiredAt, ResultAt
    <3> HIDE DEF p, c
    <3> QED
      BY <1>6, <3>1, <3>2, <3>3, <3>4, ExpiryOK, ExpiryStartsOne
  <2>2. CASE events[i].event # "TIMER"
    <3>1. events[i].event \in TrainEvent /\ events[i].arg \in Dir
      BY <1>0, <1>2, <2>2, EventCases
    <3>2. FiredAt(i) = {}
          /\ ResultAt(i) = crossing_handle_event(c, events[i].event, events[i].arg, TRUE)
      BY <2>2 DEF FiredAt, ResultAt
    <3> HIDE DEF p, c
    <3> QED
      BY <1>6, <3>1, <3>2, EventOK, EventStartsOne DEF TrainEvent
  <2> QED
    BY <2>1, <2>2
<1>9. Handled(p, ResultAt(i), {i}, FiredAt(i))
  BY <1>5, <1>6, <1>7, <1>8 DEF Handled
<1> QED
  BY <1>2, <1>5, <1>8, <1>9 DEF i

\* An operator's command at p.
LEMMA OperateResult ==
  ASSUME IInv, NEW p \in P, NEW event \in {"INJECT_FAULT", "RESET_FAULT"},
         Operate(p, event)
  PROVE  Handled(p, crossing_handle_event(crossings[p], event, "UP", TRUE), {}, {})
<1>1. crossings[p] \in CrossingState /\ CxInv(crossings[p]) /\ "UP" \in Dir
  BY CrossingOK DEF Dir
<1> QED
  BY <1>1, EventOK, EventStartsOne DEF Handled, Delivering, Operate

\* A gate command keeps the gates' times well-formed.
LEMMA GatesType ==
  ASSUME NEW f, DOMAIN f \subseteq P, \A p \in DOMAIN f : f[p] \in Int,
         NEW q \in P, NEW r
  PROVE  LET g == rail_sim_gate_command(f, q, r)
         IN  DOMAIN g \subseteq P /\ \A p \in DOMAIN g : g[p] \in Int
<1>1. GATE_MOVE_SEC * SEC \in Int
  BY RailSimAssumption
<1> QED
  BY <1>1 DEF rail_sim_gate_command, With

\* A handler's step preserves the invariant.
LEMMA HandledInv ==
  ASSUME IInv, NEW p, NEW r, NEW slot, NEW fired, Handled(p, r, slot, fired),
         DOMAIN gates' \subseteq P, \A q \in DOMAIN gates' : gates'[q] \in Int,
         UNCHANGED <<time_scale, ticking>>, occupied' \subseteq P \X Dir
  PROVE  IInv'
<1>1. /\ p \in P /\ fired \in SUBSET Timer
      /\ Contract(crossings[p], r, fired) /\ StartsOne(crossings[p], r, fired)
      /\ Delivering(p, slot, fired) /\ Callbacks(p, r, slot)
  BY DEF Handled
<1>2. /\ timer_gen' \in [P -> Generations]
      /\ DOMAIN events' \subseteq Slots /\ \A j \in DOMAIN events' : events'[j] \in Event
      /\ TimersUnique' /\ TimersLive' /\ Room'
  BY <1>1, CallbacksTimers
<1>3. crossings' \in [P -> CrossingState] /\ preempted' \subseteq P /\ AllSound'
  BY <1>1, CallbacksSound
<1>4. time_scale' \in Scales /\ ticking' \in BOOLEAN
  BY DEF IInv, TypeOK
<1> QED
  BY <1>2, <1>3, <1>4 DEF IInv, TypeOK

\* The line starts empty.
LEMMA InitInv == Init => IInv
<1> SUFFICES ASSUME Init PROVE IInv
  OBVIOUS
<1>1. DOMAIN events = {} /\ DOMAIN gates = {}
  BY DEF Init
<1>2. crossing_init \in CrossingState /\ timer_gen_init \in Generations
  BY InitSound DEF Sound
<1>3. TypeOK
  BY <1>1, <1>2 DEF TypeOK, Init
<1>4. TrainSlots = {} /\ TimerSlots = {} /\ \A p \in P : QueuedTimers(p) = {}
  BY <1>1 DEF TrainSlots, TimerSlots, QueuedTimers
<1>5. TimersUnique /\ TimersLive
  BY <1>4 DEF TimersUnique, TimersLive
<1>6. Room
  BY <1>4, FS_EmptySet, Reserve, RailSimAssumption DEF Room, TIMER_EVENT_RESERVE
<1>7. AllSound
  <2>1. \A p \in P : crossings[p] = crossing_init /\ timer_gen[p] = timer_gen_init
    BY DEF Init
  <2>2. \A p \in P : (p \in preempted) = FALSE
    BY DEF Init
  <2> QED
    BY <1>4, <2>1, <2>2, InitSound DEF AllSound
<1> QED
  BY <1>3, <1>5, <1>6, <1>7 DEF IInv

\* The clock only takes time off.
LEMMA TickInv ==
  ASSUME IInv, Tick
  PROVE  IInv' /\ \A p \in P : QueuedTimers(p)' = QueuedTimers(p)
<1>0. TypeOK /\ time_scale \in Int
  BY RailSimAssumption DEF IInv, TypeOK
<1>1. /\ DOMAIN events' = DOMAIN events
      /\ \A i \in DOMAIN events :
           events'[i] = [events[i] EXCEPT !.left = @ - time_scale]
  BY DEF Tick
<1>2. ASSUME NEW i \in DOMAIN events
      PROVE  /\ events'[i] \in Event
             /\ events'[i].left = events[i].left - time_scale
             /\ events'[i].p = events[i].p /\ events'[i].event = events[i].event
             /\ events'[i].arg = events[i].arg /\ events'[i].gen = events[i].gen
  <2>1. events[i] \in Event /\ events[i].left - time_scale \in Int
    BY <1>0, EventCases DEF TypeOK
  <2> QED
    BY <1>1, <2>1 DEF Event
<1>3. TypeOK'
  <2>1. DOMAIN gates' = DOMAIN gates /\ \A p \in DOMAIN gates : gates'[p] = gates[p] - time_scale
    BY DEF Tick
  <2>2. \A p \in DOMAIN gates' : gates'[p] \in Int
    BY <1>0, <2>1 DEF TypeOK
  <2>3. UNCHANGED <<crossings, timer_gen, time_scale, preempted, occupied>> /\ ticking' = TRUE
    BY DEF Tick
  <2>4. \A i \in DOMAIN events' : events'[i] \in Event
    BY <1>1, <1>2
  <2> QED
    BY <1>0, <1>1, <2>1, <2>2, <2>3, <2>4 DEF TypeOK
<1>4. TimerSlots' = TimerSlots /\ TrainSlots' = TrainSlots
  BY <1>1, <1>2 DEF TimerSlots, TrainSlots
<1>5. Room'
  BY <1>4 DEF IInv, Room, TIMER_EVENT_RESERVE
<1>6. /\ TimersUnique' /\ TimersLive' /\ AllSound'
      /\ \A p \in P : QueuedTimers(p)' = QueuedTimers(p)
  <2>1. UNCHANGED <<crossings, timer_gen, preempted>>
    BY DEF Tick
  <2>2. \A i \in TimerSlots : /\ events'[i].p = events[i].p
                              /\ events'[i].arg = events[i].arg
                              /\ events'[i].gen = events[i].gen
    BY <1>2 DEF TimerSlots
  <2> QED
    BY <1>4, <2>1, <2>2, TimersSame
<1> QED
  BY <1>3, <1>5, <1>6 DEF IInv

\* A train command, whichever one it is, queues a batch that fits.
Batch(seq, n) ==
  /\ n \in Nat /\ Len(seq) = n
  /\ \A k \in 1 .. n : seq[k] \in Event /\ seq[k].event # "TIMER"
  /\ Cardinality(Slots \ DOMAIN events) >= n + TIMER_EVENT_RESERVE
  /\ Queue(seq)

\* The train commands queue their trains as batches.
LEMMA TrainBatch ==
  /\ TrainBoth => Batch(simulate_train_on_line("UP") \o simulate_train_on_line("DOWN"),
                        6 * NUM_CROSSINGS)
  /\ \A dir \in Dir : TrainOnLine(dir) =>
       Batch(simulate_train_on_line(dir), 3 * NUM_CROSSINGS)
  /\ \A p \in P, dir \in Dir :
       /\ TrainAtCrossing(p, dir) => Batch(simulate_train_at_crossing(p, dir, FALSE), 3)
       /\ NoExit(p, dir) => Batch(simulate_train_at_crossing(p, dir, TRUE), 2)
<1> USE DEF Batch
<1>0. NUM_CROSSINGS \in Nat
  BY RailSimAssumption
<1>1. ASSUME TrainBoth
      PROVE  Batch(simulate_train_on_line("UP") \o simulate_train_on_line("DOWN"),
                   6 * NUM_CROSSINGS)
  <2> DEFINE up == simulate_train_on_line("UP")
             down == simulate_train_on_line("DOWN")
             m == 3 * NUM_CROSSINGS
  <2>1. "UP" \in Dir /\ "DOWN" \in Dir /\ m \in Nat /\ 6 * NUM_CROSSINGS = m + m
    BY <1>0 DEF Dir
  <2>2. Len(up) = m /\ Len(down) = m
    BY <2>1, LineEvents
  <2>3. \A k \in 1 .. m : /\ up[k] \in Event /\ up[k].event # "TIMER"
                          /\ down[k] \in Event /\ down[k].event # "TIMER"
    BY <2>1, LineType
  <2>4. /\ Cardinality(Slots \ DOMAIN events) >= 6 * NUM_CROSSINGS + TIMER_EVENT_RESERVE
        /\ Queue(up \o down)
    BY <1>1, <2>1 DEF TrainBoth, can_start_train
  <2> HIDE DEF up, down, m
  <2> DEFINE both == up \o down
  <2>5. Len(both) = m + m
    BY <2>1, <2>2
  <2>6. \A k \in 1 .. m + m : both[k] = IF k <= m THEN up[k] ELSE down[k - m]
    BY <2>1, <2>2
  <2> HIDE DEF both
  <2>7. ASSUME NEW k \in 1 .. m + m
        PROVE  both[k] \in Event /\ both[k].event # "TIMER"
    <3>1. CASE k \in 1 .. m
      <4>1. both[k] = up[k]
        BY <2>1, <2>6, <3>1
      <4> QED
        BY <2>3, <3>1, <4>1
    <3>2. CASE k - m \in 1 .. m
      <4>1. both[k] = down[k - m]
        BY <2>1, <2>6, <3>2
      <4> QED
        BY <2>3, <3>2, <4>1
    <3>3. k \in 1 .. m \/ k - m \in 1 .. m
      BY <2>1
    <3> QED
      BY <3>1, <3>2, <3>3
  <2>8. Batch(both, m + m)
    BY <2>1, <2>4, <2>5, <2>7 DEF both
  <2> QED
    BY <2>1, <2>8 DEF up, down, both
<1>2. ASSUME NEW dir \in Dir, TrainOnLine(dir)
      PROVE  Batch(simulate_train_on_line(dir), 3 * NUM_CROSSINGS)
  <2>1. 3 * NUM_CROSSINGS \in Nat /\ Len(simulate_train_on_line(dir)) = 3 * NUM_CROSSINGS
    BY <1>0, LineEvents
  <2>2. \A k \in 1 .. 3 * NUM_CROSSINGS :
          /\ simulate_train_on_line(dir)[k] \in Event
          /\ simulate_train_on_line(dir)[k].event # "TIMER"
    BY LineType
  <2> QED
    BY <1>2, <2>1, <2>2 DEF TrainOnLine, can_start_train
<1>3. ASSUME NEW p \in P, NEW dir \in Dir
      PROVE  /\ TrainAtCrossing(p, dir) => Batch(simulate_train_at_crossing(p, dir, FALSE), 3)
             /\ NoExit(p, dir) => Batch(simulate_train_at_crossing(p, dir, TRUE), 2)
  <2>1. /\ Len(simulate_train_at_crossing(p, dir, FALSE)) = 3
        /\ \A k \in 1 .. 3 : /\ simulate_train_at_crossing(p, dir, FALSE)[k] \in Event
                             /\ simulate_train_at_crossing(p, dir, FALSE)[k].event # "TIMER"
    BY AtCrossingType
  <2>2. /\ Len(simulate_train_at_crossing(p, dir, TRUE)) = 2
        /\ \A k \in 1 .. 2 : /\ simulate_train_at_crossing(p, dir, TRUE)[k] \in Event
                             /\ simulate_train_at_crossing(p, dir, TRUE)[k].event # "TIMER"
    BY AtCrossingType
  <2> QED
    BY <2>1, <2>2 DEF TrainAtCrossing, NoExit, can_start_train
<1> QED
  BY <1>1, <1>2, <1>3

\* Every step preserves the invariant.
LEMMA NextInv == IInv /\ [Next]_vars => IInv'
<1> SUFFICES ASSUME IInv, [Next]_vars PROVE IInv'
  OBVIOUS
<1>0. /\ DOMAIN gates \subseteq P /\ \A q \in DOMAIN gates : gates[q] \in Int
      /\ occupied \subseteq P \X Dir /\ TypeOK
  BY DEF IInv, TypeOK
<1>1. CASE Tick
  BY <1>1, TickInv
<1>2. CASE GateMoved
  <2> DEFINE p == Min(DueGates)
             r == crossing_handle_event(crossings[p],
                    IF crossings[p].gate = "OPENING" THEN "GATE_OPENED" ELSE "GATE_CLOSED",
                    "UP", TRUE)
             rest == Without(gates, {p})
  <2>1. /\ p \in P /\ Handled(p, r, {}, {})
        /\ gates' = rail_sim_gate_command(rest, p, r)
    BY <1>2, GateResult
  <2>2. DOMAIN rest \subseteq P /\ \A q \in DOMAIN rest : rest[q] \in Int
    BY <1>0 DEF Without
  <2>3. UNCHANGED <<time_scale, ticking, occupied>>
    BY <1>2 DEF GateMoved
  <2> HIDE DEF p, r, rest
  <2>4. DOMAIN gates' \subseteq P /\ \A q \in DOMAIN gates' : gates'[q] \in Int
    BY <2>1, <2>2, GatesType
  <2> QED
    BY <1>0, <2>1, <2>3, <2>4, HandledInv
<1>3. CASE Deliver
  <2> DEFINE i == Min(DueEvents)
             p == events[i].p
  <2>1. /\ i \in DOMAIN events /\ Handled(p, ResultAt(i), {i}, FiredAt(i))
        /\ gates' = rail_sim_gate_command(gates, p, ResultAt(i))
    BY <1>3, DeliverResult
  <2>2. UNCHANGED <<time_scale, ticking>>
    BY <1>3 DEF Deliver
  <2>3. occupied' = CASE events[i].event = "TRAIN_ENTER" -> occupied \cup {<<p, events[i].arg>>}
                      [] events[i].event = "TRAIN_EXIT" -> occupied \ {<<p, events[i].arg>>}
                      [] OTHER -> occupied
    BY <1>3, Zenon DEF Deliver
  <2> HIDE DEF i
  <2>4. occupied' \subseteq P \X Dir
    <3>1. p \in P /\ (events[i].event = "TRAIN_ENTER" => events[i].arg \in Dir)
      BY <1>0, <2>1, EventCases
    <3> HIDE DEF p
    <3> QED
      BY <1>0, <2>3, <3>1
  <2>5. p \in P
    BY <2>1 DEF Handled
  <2>6. DOMAIN gates' \subseteq P /\ \A q \in DOMAIN gates' : gates'[q] \in Int
    <3> HIDE DEF p
    <3> QED
      BY <1>0, <2>1, <2>5, GatesType
  <2> HIDE DEF p
  <2> QED
    BY <2>1, <2>2, <2>4, <2>6, HandledInv
<1>4. CASE TickDone \/ (\E n \in Scales : SetTimeScale(n)) \/ UNCHANGED vars
  <2>1. /\ UNCHANGED <<crossings, timer_gen, preempted, events, gates, occupied>>
        /\ time_scale' \in Scales /\ ticking' \in BOOLEAN
    BY <1>4, <1>0 DEF TickDone, SetTimeScale, vars, TypeOK
  <2>2. TypeOK'
    BY <1>0, <2>1 DEF TypeOK
  <2>3. TimerSlots' = TimerSlots /\ TrainSlots' = TrainSlots
    BY <2>1 DEF TimerSlots, TrainSlots
  <2>4. TimersUnique' /\ TimersLive' /\ AllSound'
    BY <2>1, <2>3, TimersSame
  <2>5. Room'
    BY <2>3 DEF IInv, Room, TIMER_EVENT_RESERVE
  <2> QED
    BY <2>2, <2>4, <2>5 DEF IInv
<1>5. CASE TrainBoth \/ (\E dir \in Dir : TrainOnLine(dir))
           \/ (\E p \in P, dir \in Dir : TrainAtCrossing(p, dir) \/ NoExit(p, dir))
  <2>1. ASSUME NEW seq, NEW n, Batch(seq, n) PROVE IInv'
    BY <2>1, QueueInv DEF Batch
  <2> QED
    BY <1>5, <2>1, TrainBatch
<1>6. ASSUME NEW p \in P, InjectFault(p) \/ ResetFault(p)
      PROVE  IInv'
  <2>1. PICK event \in {"INJECT_FAULT", "RESET_FAULT"} : Operate(p, event)
    BY <1>6 DEF InjectFault, ResetFault
  <2> DEFINE r == crossing_handle_event(crossings[p], event, "UP", TRUE)
  <2>2. Handled(p, r, {}, {})
    BY <2>1, OperateResult
  <2>3. gates' = rail_sim_gate_command(gates, p, r) /\ UNCHANGED <<time_scale, ticking, occupied>>
    BY <2>1 DEF Operate
  <2> HIDE DEF r
  <2>4. DOMAIN gates' \subseteq P /\ \A q \in DOMAIN gates' : gates'[q] \in Int
    BY <1>0, <2>3, GatesType
  <2> QED
    BY <1>0, <2>2, <2>3, <2>4, HandledInv
<1> QED
  BY <1>1, <1>2, <1>3, <1>4, <1>5, <1>6 DEF Next, Command

\* In every run the queue is well-formed and the crossings sound.
THEOREM Invariance == Spec => []IInv
BY InitInv, NextInv, PTL DEF Spec

-----------------------------------------------------------------------------
(***************************************************************************)
(* What the queue owes the crossings.                                      *)
(***************************************************************************)

\* No timer is lost to a full queue or with the slot of a delivery: in every
\* run each gate movement, close delay and occupation has its timer queued.
THEOREM TimersNeverLost == Spec => []TimersQueued
<1>1. IInv => TimersQueued
  BY DEF IInv, AllSound, Sound, TimersQueued, Cx!Supervised, Cx!Live, Cx!Timer, Timer,
         Cx!Awaited, Awaited
<1> QED
  BY Invariance, <1>1, PTL

-----------------------------------------------------------------------------
(***************************************************************************)
(* Refinement: each crossing of the line is a CrossingSystem.  What a step *)
(* of the line is to crossing o is said first in the line's own terms, and *)
(* then in those of the instances.                                         *)
(***************************************************************************)

\* Result r reaches the platform of crossing o, whose timers were "rest".
Reacts(o, rest, r) ==
  LET gen == Bump(timer_gen[o], r.cancel \cup r.start)
  IN  /\ crossings'[o] = r.cx
      /\ timer_gen'[o] = gen
      /\ QueuedTimers(o)' =
           QueueAfter(rest, r, gen, {e \in rest : e[1] \in r.cancel})
      /\ (o \in preempted') =
           ("PREEMPT" \in r.send \/ (o \in preempted /\ "CLEAR" \notin r.send))

\* It has an event, or the expiry of a timer it awaits, or nothing at all.
HasEvent(o, event, arg) ==
  Reacts(o, QueuedTimers(o), crossing_handle_event(crossings[o], event, arg, TRUE))

\* A timer of crossing o expires.
HasExpiry(o, t) ==
  /\ <<t, timer_gen[o][t]>> \in QueuedTimers(o)
  /\ Reacts(o, QueuedTimers(o) \ {<<t, timer_gen[o][t]>>},
            crossing_handle_event(crossings[o], "TIMER", t, TRUE))

\* Nothing happens to crossing o.
Untouched(o) ==
  /\ crossings'[o] = crossings[o] /\ timer_gen'[o] = timer_gen[o]
  /\ QueuedTimers(o)' = QueuedTimers(o)
  /\ (o \in preempted') = (o \in preempted)

\* A step of the line, seen by crossing o.
Stepped(o) ==
  \/ \E event \in TrainEvent, d \in Dir : HasEvent(o, event, d)
  \/ \E event \in {"GATE_CLOSED", "GATE_OPENED", "INJECT_FAULT", "RESET_FAULT"} :
       HasEvent(o, event, "UP")
  \/ \E t \in Timer : HasExpiry(o, t)
  \/ Untouched(o)

\* A handler's callbacks reach its crossing and no other.
LEMMA HandledReacts ==
  ASSUME IInv, NEW p, NEW r, NEW slot, NEW fired, Handled(p, r, slot, fired)
  PROVE  /\ p \in P
         /\ Reacts(p, Undelivered(p, fired), r)
         /\ \A o \in P \ {p} : Untouched(o)
<1>1. /\ p \in P /\ fired \in SUBSET Timer
      /\ Contract(crossings[p], r, fired) /\ StartsOne(crossings[p], r, fired)
      /\ Delivering(p, slot, fired) /\ Callbacks(p, r, slot)
  BY DEF Handled
<1> DEFINE gen == Bump(timer_gen[p], r.cancel \cup r.start)
           rest == Undelivered(p, fired)
<1>2. /\ timer_gen'[p] = gen
      /\ \A o \in P \ {p} : timer_gen'[o] = timer_gen[o]
  BY <1>1, CallbacksTimers
<1>3. /\ QueuedTimers(p)' = QueueAfter(rest, r, gen, {e \in rest : e[1] \in r.cancel})
      /\ \A o \in P \ {p} : QueuedTimers(o)' = QueuedTimers(o)
  BY <1>1, CallbacksQueued
<1>4. /\ crossings'[p] = r.cx
      /\ \A o \in P \ {p} : crossings'[o] = crossings[o]
  BY <1>1 DEF Callbacks, IInv, TypeOK
<1>5. /\ (p \in preempted') = ("PREEMPT" \in r.send \/ (p \in preempted /\ "CLEAR" \notin r.send))
      /\ \A o \in P \ {p} : (o \in preempted') = (o \in preempted)
  BY <1>1 DEF Callbacks
<1> HIDE DEF gen, rest
<1>6. Reacts(p, rest, r)
  BY <1>2, <1>3, <1>4, <1>5 DEF Reacts, gen
<1> QED
  BY <1>1, <1>2, <1>3, <1>4, <1>5, <1>6 DEF Untouched, rest

\* An event that fired no timer.
LEMMA HandledEvent ==
  ASSUME IInv, NEW p, NEW slot, NEW event, NEW arg,
         Handled(p, crossing_handle_event(crossings[p], event, arg, TRUE), slot, {}),
         NEW o \in P
  PROVE  HasEvent(o, event, arg) \/ Untouched(o)
<1>1. /\ Reacts(p, Undelivered(p, {}),
                crossing_handle_event(crossings[p], event, arg, TRUE))
      /\ \A q \in P \ {p} : Untouched(q)
  BY HandledReacts
<1>2. Undelivered(p, {}) = QueuedTimers(p)
  BY DEF Undelivered
<1> QED
  BY <1>1, <1>2 DEF HasEvent

\* A delivered timer.
LEMMA HandledExpiry ==
  ASSUME IInv, NEW p, NEW slot, NEW t,
         Handled(p, crossing_handle_event(crossings[p], "TIMER", t, TRUE), slot, {t}),
         Awaited(crossings[p], t), NEW o \in P
  PROVE  t \in Timer /\ (HasExpiry(o, t) \/ Untouched(o))
<1> DEFINE e == <<t, timer_gen[p][t]>>
<1>1. /\ p \in P
      /\ Reacts(p, Undelivered(p, {t}), crossing_handle_event(crossings[p], "TIMER", t, TRUE))
      /\ \A q \in P \ {p} : Untouched(q)
  BY HandledReacts
<1>2. t \in Timer
  BY DEF Handled
<1>3. QueuedTimers(p) = {<<u, timer_gen[p][u]>> : u \in {v \in Timer : Runs(p, v)}}
  BY <1>1, QueuedLive DEF IInv
<1>4. Runs(p, t)
  BY <1>1, <1>2, RunsAwaited DEF IInv
<1>5. e \in QueuedTimers(p) /\ Undelivered(p, {t}) = QueuedTimers(p) \ {e}
  BY <1>2, <1>3, <1>4 DEF Undelivered
<1> QED
  BY <1>1, <1>2, <1>5 DEF HasExpiry

\* Every step of the line is a step of a crossing or leaves it alone.
LEMMA NextStepped ==
  ASSUME IInv, [Next]_vars, NEW o \in P
  PROVE  Stepped(o)
<1>0. ASSUME UNCHANGED <<crossings, timer_gen, preempted>>,
             \A p \in P : QueuedTimers(p)' = QueuedTimers(p)
      PROVE  Stepped(o)
  BY <1>0 DEF Stepped, Untouched
<1>1. CASE Tick
  BY <1>0, <1>1, TickInv DEF Tick
<1>2. CASE GateMoved
  <2> DEFINE p == Min(DueGates)
             event == IF crossings[p].gate = "OPENING" THEN "GATE_OPENED" ELSE "GATE_CLOSED"
  <2>1. Handled(p, crossing_handle_event(crossings[p], event, "UP", TRUE), {}, {})
    BY <1>2, GateResult
  <2> HIDE DEF p
  <2>2. HasEvent(o, event, "UP") \/ Untouched(o)
    BY <2>1, HandledEvent
  <2> QED
    BY <2>2 DEF Stepped
<1>3. CASE Deliver
  <2> DEFINE i == Min(DueEvents)
             p == events[i].p
  <2>1. /\ i \in DOMAIN events /\ Handled(p, ResultAt(i), {i}, FiredAt(i))
        /\ \A t \in FiredAt(i) : Awaited(crossings[p], t)
    BY <1>3, DeliverResult
  <2> HIDE DEF i
  <2>2. CASE events[i].event = "TIMER"
    <3>1. /\ FiredAt(i) = {events[i].arg}
          /\ ResultAt(i) = crossing_handle_event(crossings[p], "TIMER", events[i].arg, TRUE)
      BY <2>2 DEF FiredAt, ResultAt
    <3> HIDE DEF p
    <3>2. events[i].arg \in Timer /\ (HasExpiry(o, events[i].arg) \/ Untouched(o))
      BY <2>1, <3>1, HandledExpiry
    <3> QED
      BY <3>2 DEF Stepped
  <2>3. CASE events[i].event # "TIMER"
    <3>1. /\ FiredAt(i) = {}
          /\ ResultAt(i) = crossing_handle_event(crossings[p], events[i].event, events[i].arg, TRUE)
      BY <2>3 DEF FiredAt, ResultAt
    <3>2. events[i].event \in TrainEvent /\ events[i].arg \in Dir
      BY <2>1, <2>3, EventCases DEF IInv
    <3> HIDE DEF p
    <3>3. HasEvent(o, events[i].event, events[i].arg) \/ Untouched(o)
      BY <2>1, <3>1, HandledEvent
    <3> QED
      BY <3>2, <3>3 DEF Stepped
  <2> QED
    BY <2>2, <2>3
<1>4. CASE TickDone \/ (\E n \in Scales : SetTimeScale(n)) \/ UNCHANGED vars
  <2>1. UNCHANGED <<crossings, timer_gen, preempted, events>>
    BY <1>4 DEF TickDone, SetTimeScale, vars
  <2>2. \A p \in P : QueuedTimers(p)' = QueuedTimers(p)
    BY <2>1 DEF QueuedTimers
  <2> QED
    BY <1>0, <2>1, <2>2
<1>5. CASE TrainBoth \/ (\E dir \in Dir : TrainOnLine(dir))
           \/ (\E p \in P, dir \in Dir : TrainAtCrossing(p, dir) \/ NoExit(p, dir))
  <2>1. ASSUME NEW seq, NEW n, Batch(seq, n) PROVE Stepped(o)
    <3>1. UNCHANGED <<crossings, timer_gen, preempted>>
      BY <2>1 DEF Batch, Queue
    <3>2. \A p \in P : QueuedTimers(p)' = QueuedTimers(p)
      BY <2>1, QueueInv DEF Batch
    <3> QED
      BY <1>0, <3>1, <3>2
  <2> QED
    BY <1>5, <2>1, TrainBatch
<1>6. ASSUME NEW p \in P, InjectFault(p) \/ ResetFault(p)
      PROVE  Stepped(o)
  <2>1. PICK event \in {"INJECT_FAULT", "RESET_FAULT"} : Operate(p, event)
    BY <1>6 DEF InjectFault, ResetFault
  <2>2. Handled(p, crossing_handle_event(crossings[p], event, "UP", TRUE), {}, {})
    BY <2>1, OperateResult
  <2>3. HasEvent(o, event, "UP") \/ Untouched(o)
    BY <2>2, HandledEvent
  <2> QED
    BY <2>3 DEF Stepped
<1> QED
  BY <1>1, <1>2, <1>3, <1>4, <1>5, <1>6 DEF Next, Command

\* The instances have the handlers of the line.
LEMMA CxHandlers ==
  ASSUME NEW o \in P, NEW c, NEW e, NEW a
  PROVE  Cx(o)!crossing_handle_event(c, e, a, TRUE) = crossing_handle_event(c, e, a, TRUE)
BY DEF Cx!crossing_handle_event, crossing_handle_event, Cx!on_approach,
       on_approach, Cx!on_enter, on_enter, Cx!on_exit, on_exit,
       Cx!on_gate_closed, on_gate_closed, Cx!on_gate_opened,
       on_gate_opened, Cx!on_timer, on_timer, Cx!on_reset, on_reset,
       Cx!enter_fault, enter_fault, Cx!start_gate_close, start_gate_close,
       Cx!start_gate_open, start_gate_open, Cx!crossing_both_tracks_clear,
       crossing_both_tracks_clear, Cx!Effect, Effect, Cx!Nothing, Nothing,
       Cx!Dir, Dir, Cx!Timer, Timer, Cx!TRAIN_TIMEOUT_TIMER,
       TRAIN_TIMEOUT_TIMER

\* What is a step to crossing o is a step of its instance.
LEMMA CxSteps ==
  ASSUME NEW o \in P, IInv, Stepped(o)
  PROVE  Cx(o)!Next \/ UNCHANGED Cx(o)!vars
<1>1. ASSUME NEW rest, NEW r, Reacts(o, rest, r)
      PROVE  Cx(o)!Platform(rest, r)
  <2> DEFINE gen == Bump(timer_gen[o], r.cancel \cup r.start)
             gone == {e \in rest : e[1] \in r.cancel}
  <2>1. /\ crossings'[o] = r.cx /\ timer_gen'[o] = gen
        /\ QueuedTimers(o)' = QueueAfter(rest, r, gen, gone)
        /\ (o \in preempted') =
             ("PREEMPT" \in r.send \/ (o \in preempted /\ "CLEAR" \notin r.send))
    BY <1>1 DEF Reacts
  <2>2. gen = Cx(o)!Bump(timer_gen[o], r.cancel \cup r.start)
    BY DEF Bump, Cx!Bump, Timer, Cx!Timer
  <2>3. gone \in SUBSET {e \in rest : e[1] \in r.cancel}
    OBVIOUS
  <2> HIDE DEF gen
  <2>4. QueuedTimers(o)' = {e \in rest \ gone : \/ e[1] \notin r.cancel \cup r.start
                                                \/ e[2] # timer_gen'[o][e[1]]}
                             \cup {<<t, timer_gen'[o][t]>> : t \in r.start}
    BY <2>1, Zenon DEF QueueAfter
  <2> HIDE DEF gone
  <2> QED
    BY <2>1, <2>2, <2>3, <2>4 DEF Cx!Platform
<1>2. ASSUME NEW event, NEW arg, HasEvent(o, event, arg)
      PROVE  Cx(o)!Input(event, arg)
  <2>1. Cx(o)!crossing_handle_event(crossings[o], event, arg, TRUE)
          = crossing_handle_event(crossings[o], event, arg, TRUE)
    BY CxHandlers
  <2> QED
    BY <1>1, <1>2, <2>1 DEF HasEvent, Cx!Input
<1>3. ASSUME NEW t \in Timer, HasExpiry(o, t)
      PROVE  \E e \in Cx(o)!TimerEvent : Cx(o)!Expire(e)
  <2> DEFINE e == <<t, timer_gen[o][t]>>
             r == crossing_handle_event(crossings[o], "TIMER", t, TRUE)
  <2>1. e \in QueuedTimers(o) /\ Reacts(o, QueuedTimers(o) \ {e}, r)
    BY <1>3 DEF HasExpiry
  <2>2. Cx(o)!Platform(QueuedTimers(o) \ {e}, r)
    <3> HIDE DEF e, r
    <3> QED
      BY <1>1, <2>1
  <2>3. Cx(o)!crossing_handle_event(crossings[o], "TIMER", t, TRUE) = r
    BY CxHandlers
  <2>4. e[1] = t /\ (e = Cx(o)!Live(e[1])) = TRUE
    BY DEF Cx!Live
  <2>5. e \in Cx(o)!TimerEvent
    BY <1>3 DEF Cx!TimerEvent, Cx!Timer, Timer, Generations, IInv, TypeOK
  <2> HIDE DEF e, r
  <2>6. Cx(o)!Expire(e)
    BY <2>1, <2>2, <2>3, <2>4, Zenon DEF Cx!Expire
  <2> QED
    BY <2>5, <2>6
<1>4. CASE \E event \in TrainEvent, d \in Dir : HasEvent(o, event, d)
  <2>1. PICK event \in TrainEvent, d \in Dir : Cx(o)!Input(event, d)
    BY <1>2, <1>4
  <2>2. Dir = Cx(o)!Dir
    BY DEF Dir, Cx!Dir
  <2> QED
    BY <2>1, <2>2 DEF Cx!Next, Cx!Approach, Cx!Enter, Cx!Exit, TrainEvent
<1>5. CASE \E event \in {"GATE_CLOSED", "GATE_OPENED", "INJECT_FAULT", "RESET_FAULT"} :
             HasEvent(o, event, "UP")
  <2>1. PICK event \in {"GATE_CLOSED", "GATE_OPENED", "INJECT_FAULT", "RESET_FAULT"} :
          Cx(o)!Input(event, "UP")
    BY <1>2, <1>5
  <2> QED
    BY <2>1 DEF Cx!Next, Cx!GateClosed, Cx!GateOpened, Cx!InjectFault,
                Cx!ResetFault
<1>6. CASE \E t \in Timer : HasExpiry(o, t)
  BY <1>3, <1>6 DEF Cx!Next
<1>7. CASE Untouched(o)
  BY <1>7 DEF Untouched, Cx!vars
<1> QED
  BY <1>4, <1>5, <1>6, <1>7 DEF Stepped

\* The line starts with the crossing initialised.
LEMMA CxInit ==
  ASSUME NEW o \in P, Init
  PROVE  Cx(o)!Init
<1>1. crossings[o] = Cx(o)!crossing_init
  BY DEF Init, crossing_init, Cx!crossing_init, Dir, Cx!Dir
<1>2. timer_gen[o] = Cx(o)!timer_gen_init
  BY DEF Init, timer_gen_init, Cx!timer_gen_init, Timer, Cx!Timer
<1>3. QueuedTimers(o) = {} /\ (o \in preempted) = FALSE
  BY DEF Init, QueuedTimers
<1> QED
  BY <1>1, <1>2, <1>3 DEF Cx!Init

\* The simulator implements the platform of each of its crossings: a step of
\* the line is a legal step of the crossing or leaves it alone.
THEOREM EachImplements ==
  ASSUME NEW CONSTANT o \in P
  PROVE  Spec => Cx(o)!Spec
<1>1. Init => Cx(o)!Init
  BY CxInit
<1>2. IInv /\ [Next]_vars => [Cx(o)!Next]_(Cx(o)!vars)
  BY NextStepped, CxSteps
<1> QED
  BY <1>1, <1>2, Invariance, PTL DEF Spec, Cx!Spec

\* So has the instance for P1.
LEMMA P1Handlers ==
  ASSUME NEW c, NEW e, NEW a
  PROVE  P1System!crossing_handle_event(c, e, a, TRUE) = crossing_handle_event(c, e, a, TRUE)
BY DEF P1System!crossing_handle_event, crossing_handle_event,
       P1System!on_approach, on_approach, P1System!on_enter, on_enter,
       P1System!on_exit, on_exit, P1System!on_gate_closed, on_gate_closed,
       P1System!on_gate_opened, on_gate_opened, P1System!on_timer,
       on_timer, P1System!on_reset, on_reset, P1System!enter_fault,
       enter_fault, P1System!start_gate_close, start_gate_close,
       P1System!start_gate_open, start_gate_open,
       P1System!crossing_both_tracks_clear, crossing_both_tracks_clear,
       P1System!Effect, Effect, P1System!Nothing, Nothing, P1System!Dir,
       Dir, P1System!Timer, Timer, P1System!TRAIN_TIMEOUT_TIMER,
       TRAIN_TIMEOUT_TIMER

\* What is a step to crossing 1 is a step of P1.
LEMMA P1Steps ==
  ASSUME IInv, 1 \in P, Stepped(1)
  PROVE  P1System!Next \/ UNCHANGED P1System!vars
<1>1. ASSUME NEW rest, NEW r, Reacts(1, rest, r)
      PROVE  P1System!Platform(rest, r)
  <2> DEFINE gen == Bump(timer_gen[1], r.cancel \cup r.start)
             gone == {e \in rest : e[1] \in r.cancel}
  <2>1. /\ crossings'[1] = r.cx /\ timer_gen'[1] = gen
        /\ QueuedTimers(1)' = QueueAfter(rest, r, gen, gone)
        /\ (1 \in preempted') =
             ("PREEMPT" \in r.send \/ (1 \in preempted /\ "CLEAR" \notin r.send))
    BY <1>1 DEF Reacts
  <2>2. gen = P1System!Bump(timer_gen[1], r.cancel \cup r.start)
    BY DEF Bump, P1System!Bump, Timer, P1System!Timer
  <2>3. gone \in SUBSET {e \in rest : e[1] \in r.cancel}
    OBVIOUS
  <2> HIDE DEF gen
  <2>4. QueuedTimers(1)' = {e \in rest \ gone : \/ e[1] \notin r.cancel \cup r.start
                                                \/ e[2] # timer_gen'[1][e[1]]}
                             \cup {<<t, timer_gen'[1][t]>> : t \in r.start}
    BY <2>1, Zenon DEF QueueAfter
  <2> HIDE DEF gone
  <2> QED
    BY <2>1, <2>2, <2>3, <2>4 DEF P1System!Platform
<1>2. ASSUME NEW event, NEW arg, HasEvent(1, event, arg)
      PROVE  P1System!Input(event, arg)
  <2>1. P1System!crossing_handle_event(crossings[1], event, arg, TRUE)
          = crossing_handle_event(crossings[1], event, arg, TRUE)
    BY P1Handlers
  <2> QED
    BY <1>1, <1>2, <2>1 DEF HasEvent, P1System!Input
<1>3. ASSUME NEW t \in Timer, HasExpiry(1, t)
      PROVE  \E e \in P1System!TimerEvent : P1System!Expire(e)
  <2> DEFINE e == <<t, timer_gen[1][t]>>
             r == crossing_handle_event(crossings[1], "TIMER", t, TRUE)
  <2>1. e \in QueuedTimers(1) /\ Reacts(1, QueuedTimers(1) \ {e}, r)
    BY <1>3 DEF HasExpiry
  <2>2. P1System!Platform(QueuedTimers(1) \ {e}, r)
    <3> HIDE DEF e, r
    <3> QED
      BY <1>1, <2>1
  <2>3. P1System!crossing_handle_event(crossings[1], "TIMER", t, TRUE) = r
    BY P1Handlers
  <2>4. e[1] = t /\ (e = P1System!Live(e[1])) = TRUE
    BY DEF P1System!Live
  <2>5. e \in P1System!TimerEvent
    BY <1>3 DEF P1System!TimerEvent, P1System!Timer, Timer, Generations, IInv, TypeOK
  <2> HIDE DEF e, r
  <2>6. P1System!Expire(e)
    BY <2>1, <2>2, <2>3, <2>4, Zenon DEF P1System!Expire
  <2> QED
    BY <2>5, <2>6
<1>4. CASE \E event \in TrainEvent, d \in Dir : HasEvent(1, event, d)
  <2>1. PICK event \in TrainEvent, d \in Dir : P1System!Input(event, d)
    BY <1>2, <1>4
  <2>2. Dir = P1System!Dir
    BY DEF Dir, P1System!Dir
  <2> QED
    BY <2>1, <2>2 DEF P1System!Next, P1System!Approach, P1System!Enter, P1System!Exit, TrainEvent
<1>5. CASE \E event \in {"GATE_CLOSED", "GATE_OPENED", "INJECT_FAULT", "RESET_FAULT"} :
             HasEvent(1, event, "UP")
  <2>1. PICK event \in {"GATE_CLOSED", "GATE_OPENED", "INJECT_FAULT", "RESET_FAULT"} :
          P1System!Input(event, "UP")
    BY <1>2, <1>5
  <2> QED
    BY <2>1 DEF P1System!Next, P1System!GateClosed, P1System!GateOpened, P1System!InjectFault,
                P1System!ResetFault
<1>6. CASE \E t \in Timer : HasExpiry(1, t)
  BY <1>3, <1>6 DEF P1System!Next
<1>7. CASE Untouched(1)
  BY <1>7 DEF Untouched, P1System!vars
<1> QED
  BY <1>4, <1>5, <1>6, <1>7 DEF Stepped

\* The line starts with P1 initialised.
LEMMA P1Init ==
  ASSUME 1 \in P, Init
  PROVE  P1System!Init
<1>1. crossings[1] = P1System!crossing_init
  BY DEF Init, crossing_init, P1System!crossing_init, Dir, P1System!Dir
<1>2. timer_gen[1] = P1System!timer_gen_init
  BY DEF Init, timer_gen_init, P1System!timer_gen_init, Timer, P1System!Timer
<1>3. QueuedTimers(1) = {} /\ (1 \in preempted) = FALSE
  BY DEF Init, QueuedTimers
<1> QED
  BY <1>1, <1>2, <1>3 DEF P1System!Init

\* The refinement the runs check, for every line: P1 is a CrossingSystem.
THEOREM P1Refines == Spec => P1Implements
<1>0. 1 \in P
  BY RailSimAssumption DEF P
<1>1. Init => P1System!Init
  BY <1>0, P1Init
<1>2. IInv /\ [Next]_vars => [P1System!Next]_(P1System!vars)
  BY <1>0, NextStepped, P1Steps
<1> QED
  BY <1>1, <1>2, Invariance, PTL DEF Spec, P1Implements, P1System!Spec

-----------------------------------------------------------------------------
(***************************************************************************)
(* Time.  A tick takes at most M units, so whatever is due is handled less *)
(* than M units late (an approach queued between two ticks up to M).       *)
(***************************************************************************)
MoveTime == GATE_MOVE_SEC * SEC

\* No tick takes more than M.
Bounded(M) == M \in Nat /\ \A s \in Scales : s <= M

\* The warning covers the close delay, the gate's movement and the lateness
\* of two ticks; the check after a reset moves the gate three times.
Margin(M) ==
  /\ Bounded(M)
  /\ TRAIN_WARNING_SEC * SEC >= GATE_CLOSE_DELAY_SEC * SEC + MoveTime + 2 * M - 1
  /\ GATE_MOVE_SEC <= GATE_CLOSE_TIMEOUT_SEC /\ GATE_MOVE_SEC <= GATE_OPEN_TIMEOUT_SEC
  /\ "reset" \in Commands => TRAIN_WARNING_SEC * SEC >= 3 * MoveTime + 2 * M - 2

\* The time the present tick has taken off.
Elapsed == IF ticking THEN time_scale ELSE 0

\* A gate that moves has its time, never overdue by a whole tick.
GatesTimed ==
  /\ \A p \in P : crossings[p].gate \in {"CLOSING", "OPENING"} => p \in DOMAIN gates
  /\ \A p \in DOMAIN gates :
       /\ 1 - Elapsed <= gates[p] /\ gates[p] <= MoveTime
       /\ crossings[p].reset_pending => gates[p] <= MoveTime - Elapsed

\* So has an event.
EventsTimed ==
  \A i \in DOMAIN events :
    /\ -Elapsed <= events[i].left
    /\ events[i].event # "TRAIN_APPROACH" => 1 - Elapsed <= events[i].left

\* The timeout of a gate movement comes after its end.
TimersTimed ==
  \A i \in TimerSlots :
    /\ events[i].arg = "CLOSE_DELAY" => events[i].left <= GATE_CLOSE_DELAY_SEC * SEC
    /\ events[i].arg \in {"CLOSE_TIMEOUT", "OPEN_TIMEOUT"} =>
         gates[events[i].p] <= events[i].left

\* Slot i holds that event of a train of direction d.
TrainSlot(i, p, event, d) ==
  i \in DOMAIN events /\ events[i].p = p /\ events[i].event = event /\ events[i].arg = d

\* A train that is still to be warned of enters a whole warning later.
EnterWarned ==
  \A p \in P, d \in Dir : \A i, j \in DOMAIN events :
    TrainSlot(i, p, "TRAIN_ENTER", d) /\ TrainSlot(j, p, "TRAIN_APPROACH", d) =>
      events[j].left + TRAIN_WARNING_SEC * SEC <= events[i].left

\* A train that is or will be warned of has its ENTER queued.
EnterQueued ==
  \A p \in P, d \in Dir :
    \/ crossings[p].fault = "NONE" /\ crossings[p].track[d] = "APPROACHING"
    \/ \E j \in DOMAIN events : TrainSlot(j, p, "TRAIN_APPROACH", d)
    => \E i \in DOMAIN events : TrainSlot(i, p, "TRAIN_ENTER", d)

\* The gate of p will be down in time, however late the ticks come.
InTime(p, time, M) ==
  LET c == crossings[p]
  IN  /\ c.gate = "OPEN" =>
           /\ c.close_delay_pending
           /\ \A j \in TimerSlots : events[j].p = p /\ events[j].arg = "CLOSE_DELAY" =>
                events[j].left + MoveTime + M - 1 <= time
      /\ c.gate = "CLOSING" => gates[p] <= time
      /\ c.gate = "CLOSING" /\ c.reset_pending => gates[p] + 2 * MoveTime + 2 * M - 2 <= time
      /\ c.gate = "OPENING" => gates[p] + MoveTime + M - 1 <= time

\* It is for every train that has been warned of.
GateAhead(M) ==
  \A p \in P, d \in Dir : \A i \in DOMAIN events :
    /\ TrainSlot(i, p, "TRAIN_ENTER", d)
    /\ crossings[p].fault = "NONE" /\ crossings[p].track[d] = "APPROACHING"
    => InTime(p, events[i].left, M)

\* A check after a reset was ordered.
ResetsOrdered == \A p \in P : crossings[p].reset_pending => "reset" \in Commands

\* The inductive invariant of time.
TInv(M) ==
  /\ GatesTimed /\ EventsTimed /\ TimersTimed /\ EnterWarned /\ EnterQueued
  /\ GateAhead(M) /\ ResetsOrdered /\ GateInTime

\* What result r of an event at c does to the gate.
GateStep(c, r, event) ==
  /\ r.move \in BOOLEAN
  /\ r.move <=> ("CLOSE_TIMEOUT" \in r.start \/ "OPEN_TIMEOUT" \in r.start)
  /\ r.move => r.cx.gate \in {"CLOSING", "OPENING"}
  /\ ~r.move => r.cx.gate = c.gate \/ r.cx.gate \notin {"CLOSING", "OPENING"}
  /\ r.cx.reset_pending => event = "RESET_FAULT" \/ (c.reset_pending /\ ~r.move)
  /\ event = "RESET_FAULT" => (r.cx.reset_pending => r.move \/ c.reset_pending)

\* The events of a train move the gate so.
LEMMA TrainGateStep ==
  ASSUME NEW c \in CrossingState, CxInv(c), NEW d \in Dir, NEW event \in TrainEvent
  PROVE  GateStep(c, crossing_handle_event(c, event, d, TRUE), event)
<1> USE DEF CrossingState, GateState, Dir, TrainEvent
<1>0. CASE c.fault # "NONE"
  BY <1>0 DEF crossing_handle_event, Nothing, Effect, GateStep, CxInv
<1>1. CASE c.fault = "NONE" /\ event = "TRAIN_APPROACH"
  BY <1>1 DEF crossing_handle_event, on_approach, start_gate_close, Nothing, Effect,
              GateStep, CxInv
<1>2. CASE c.fault = "NONE" /\ event = "TRAIN_ENTER"
  BY <1>2 DEF crossing_handle_event, on_enter, enter_fault, Nothing, Effect, GateStep,
              CxInv, TRAIN_TIMEOUT_TIMER
<1>3. CASE c.fault = "NONE" /\ event = "TRAIN_EXIT"
  BY <1>3 DEF crossing_handle_event, on_exit, start_gate_open, Nothing, Effect, GateStep,
              CxInv
<1> QED
  BY <1>0, <1>1, <1>2, <1>3

\* So do all others.
LEMMA OtherGateStep ==
  ASSUME NEW c \in CrossingState, CxInv(c), NEW a,
         NEW event \in {"GATE_CLOSED", "GATE_OPENED", "INJECT_FAULT", "RESET_FAULT", "TIMER"}
  PROVE  GateStep(c, crossing_handle_event(c, event, a, TRUE), event)
<1> USE DEF CrossingState, GateState
<1>0. CASE c.fault # "NONE" /\ event # "RESET_FAULT"
  BY <1>0 DEF crossing_handle_event, Nothing, Effect, GateStep, CxInv
<1>1. CASE c.fault = "NONE" /\ event = "GATE_CLOSED"
  BY <1>1 DEF crossing_handle_event, on_gate_closed, start_gate_open, Nothing, Effect,
              GateStep, CxInv
<1>2. CASE c.fault = "NONE" /\ event = "GATE_OPENED"
  BY <1>2 DEF crossing_handle_event, on_gate_opened, start_gate_close, Nothing, Effect,
              GateStep, CxInv
<1>3. CASE c.fault = "NONE" /\ event = "INJECT_FAULT"
  BY <1>3 DEF crossing_handle_event, enter_fault, Effect, GateStep, CxInv
<1>4. CASE event = "RESET_FAULT"
  BY <1>4 DEF crossing_handle_event, on_reset, Nothing, Effect, GateStep, CxInv
<1>5. CASE c.fault = "NONE" /\ event = "TIMER"
  BY <1>5 DEF crossing_handle_event, on_timer, start_gate_close, enter_fault, Effect,
              GateStep, CxInv
<1> QED
  BY <1>0, <1>1, <1>2, <1>3, <1>4, <1>5

\* The queue after a handler: slots kept as they are, and the started timer.
Stays(j, p, r, slot) ==
  /\ j \in DOMAIN events /\ j \notin slot /\ events'[j] = events[j]
  /\ events[j].p = p /\ events[j].event = "TIMER" => events[j].arg \notin r.cancel

\* Slot j holds the timer just started.
Started(j, p, t) ==
  /\ events'[j].left = Seconds(t) * SEC
  /\ events'[j].p = p /\ events'[j].event = "TIMER" /\ events'[j].arg = t

\* After a handler the queue holds nothing else.
LEMMA HandledSlots ==
  ASSUME IInv, NEW p, NEW r, NEW slot, NEW fired, Handled(p, r, slot, fired),
         NEW j \in DOMAIN events'
  PROVE  Stays(j, p, r, slot) \/ \E t \in Timer : r.start = {t} /\ Started(j, p, t)
<1> DEFINE kept == Kept(p, r, slot)
           gen == Bump(timer_gen[p], r.cancel \cup r.start)
<1>1. QueueKept(p, r, slot)
  BY CallbacksQueue DEF Handled
<1>2. /\ \A k \in kept : k \in DOMAIN events' /\ events'[k] = events[k]
      /\ \/ r.start = {} /\ DOMAIN events' = kept
         \/ \E t \in Timer, n \in Slots \ kept :
              /\ r.start = {t} /\ ~Awaited(crossings[p], t)
              /\ DOMAIN events' = kept \cup {n}
              /\ events'[n] = TimerFor(p, t, gen[t])
  BY <1>1, Zenon DEF QueueKept
<1> HIDE DEF gen
<1>3. CASE j \in kept
  BY <1>2, <1>3 DEF Stays, Kept
<1>4. CASE j \notin kept
  <2> HIDE DEF kept
  <2>1. PICK t \in Timer : r.start = {t} /\ events'[j] = TimerFor(p, t, gen[t])
    BY <1>2, <1>4
  <2> QED
    BY <2>1 DEF Started, TimerFor
<1> QED
  BY <1>3, <1>4

\* The crossings after a handler.
LEMMA HandledCrossings ==
  ASSUME IInv, NEW p, NEW r, NEW slot, NEW fired, Handled(p, r, slot, fired)
  PROVE  /\ p \in P /\ crossings'[p] = r.cx
         /\ \A o \in P \ {p} : crossings'[o] = crossings[o]
BY DEF IInv, TypeOK, Handled, Callbacks

\* The timing constants.
LEMMA Times ==
  /\ MoveTime \in Nat \ {0} /\ GATE_CLOSE_DELAY_SEC * SEC \in Nat
  /\ TRAIN_WARNING_SEC * SEC \in Nat
  /\ \A t \in Timer : Seconds(t) * SEC \in Nat \ {0}
  /\ Seconds("CLOSE_DELAY") * SEC = GATE_CLOSE_DELAY_SEC * SEC
<1>1. SEC \in Nat \ {0}
  BY RailSimAssumption
<1>2. \A t \in Timer : Seconds(t) \in Nat \ {0}
  BY RailSimAssumption DEF Seconds, Timer
<1>3. Seconds("CLOSE_DELAY") = GATE_CLOSE_DELAY_SEC
  BY DEF Seconds
<1>4. {GATE_CLOSE_DELAY_SEC, GATE_MOVE_SEC, TRAIN_WARNING_SEC} \subseteq Nat \ {0}
  BY RailSimAssumption
<1>5. \A x \in Nat \ {0} : x * SEC \in Nat \ {0}
  BY <1>1
<1> QED
  BY <1>2, <1>3, <1>4, <1>5 DEF MoveTime

\* The timeouts are no shorter than the movement.
LEMMA TimeoutTimes ==
  ASSUME NEW M, Margin(M)
  PROVE  \A t \in {"CLOSE_TIMEOUT", "OPEN_TIMEOUT"} : MoveTime <= Seconds(t) * SEC
<1>1. Seconds("CLOSE_TIMEOUT") = GATE_CLOSE_TIMEOUT_SEC
      /\ Seconds("OPEN_TIMEOUT") = GATE_OPEN_TIMEOUT_SEC
  BY DEF Seconds
<1>2. \A x, y, z \in Nat : x <= y => x * z <= y * z
  OBVIOUS
<1> QED
  BY <1>1, <1>2, RailSimAssumption DEF Margin, MoveTime

\* A tick takes at most M.
LEMMA TickBound ==
  ASSUME TypeOK, NEW M, Bounded(M)
  PROVE  /\ Elapsed \in Nat /\ Elapsed <= M /\ M \in Nat \ {0}
         /\ time_scale \in Nat \ {0} /\ time_scale <= M
BY RailSimAssumption DEF TypeOK, Bounded, Elapsed

\* The bounds of a tick, from the margin.
LEMMA ElapsedBound ==
  ASSUME TypeOK, NEW M, Margin(M)
  PROVE  /\ Elapsed \in Nat /\ Elapsed <= M /\ M \in Nat \ {0}
         /\ time_scale \in Nat \ {0} /\ time_scale <= M
BY TickBound DEF Margin

\* The gates after a handler: commanded, or left alone, or at rest.
GatesAfter(p, r) ==
  /\ \A o \in P \ {p} : /\ o \in DOMAIN gates' <=> o \in DOMAIN gates
                        /\ o \in DOMAIN gates => gates'[o] = gates[o]
  /\ r.move => p \in DOMAIN gates' /\ gates'[p] = MoveTime
  /\ ~r.move => \/ /\ p \in DOMAIN gates' <=> p \in DOMAIN gates
                   /\ p \in DOMAIN gates => gates'[p] = gates[p]
                \/ p \notin DOMAIN gates' /\ r.cx.gate \notin {"CLOSING", "OPENING"}

\* How an action passes the commands for a gate on, after a movement or not.
Commanded(p, r) ==
  \/ gates' = rail_sim_gate_command(gates, p, r)
  \/ /\ gates' = rail_sim_gate_command(Without(gates, {p}), p, r)
     /\ ~r.move => r.cx.gate \notin {"CLOSING", "OPENING"}

\* Then the gates are as said.
LEMMA CommandedGates ==
  ASSUME NEW p \in P, NEW r, r.move \in BOOLEAN, Commanded(p, r), TypeOK
  PROVE  GatesAfter(p, r) /\ DOMAIN gates' \subseteq P
<1>1. DOMAIN gates \subseteq P
  BY DEF TypeOK
<1>2. CASE r.move
  <2>1. PICK base : /\ DOMAIN base \subseteq P
                    /\ gates' = With(base, p, MoveTime)
                    /\ \A o \in P \ {p} : /\ o \in DOMAIN base <=> o \in DOMAIN gates
                                          /\ o \in DOMAIN gates => base[o] = gates[o]
    <3>1. CASE gates' = rail_sim_gate_command(gates, p, r)
      BY <1>1, <1>2, <3>1 DEF rail_sim_gate_command, MoveTime
    <3>2. CASE gates' = rail_sim_gate_command(Without(gates, {p}), p, r)
      <4> DEFINE base == Without(gates, {p})
      <4>1. /\ DOMAIN base \subseteq P /\ DOMAIN base = DOMAIN gates \ {p}
            /\ \A o \in DOMAIN gates \ {p} : base[o] = gates[o]
        BY <1>1 DEF Without
      <4>2. gates' = With(base, p, MoveTime)
        BY <1>2, <3>2 DEF rail_sim_gate_command, MoveTime
      <4> HIDE DEF base
      <4> QED
        BY <4>1, <4>2
    <3> QED
      BY <3>1, <3>2 DEF Commanded
  <2> QED
    BY <1>2, <2>1 DEF GatesAfter, With
<1>3. CASE ~r.move
  BY <1>1, <1>3 DEF Commanded, GatesAfter, rail_sim_gate_command, Without
<1> QED
  BY <1>2, <1>3

\* A handler's step, as far as time is concerned.
Timed(p, r, slot, fired, event) ==
  /\ Handled(p, r, slot, fired)
  /\ GateStep(crossings[p], r, event)
  /\ GatesAfter(p, r) /\ DOMAIN gates' \subseteq P
  /\ UNCHANGED <<time_scale, ticking>>
  /\ event = "RESET_FAULT" => ~ticking /\ "reset" \in Commands

\* A handler leaves the gates timed.
LEMMA HandledGates ==
  ASSUME IInv, IInv', NEW M, Margin(M), TInv(M),
         NEW p, NEW r, NEW slot, NEW fired, NEW event, Timed(p, r, slot, fired, event)
  PROVE  GatesTimed' /\ ResetsOrdered'
<1> USE DEF Timed
<1>1. /\ p \in P /\ crossings'[p] = r.cx
      /\ \A o \in P \ {p} : crossings'[o] = crossings[o]
  BY HandledCrossings
<1>2. Elapsed' = Elapsed /\ Elapsed \in Nat /\ MoveTime \in Nat \ {0}
  BY ElapsedBound, Times DEF Elapsed, IInv
<1>3. GatesTimed /\ ResetsOrdered
  BY DEF TInv
<1>4. event = "RESET_FAULT" => Elapsed = 0
  BY DEF Elapsed
<1>5. \A o \in DOMAIN gates : gates[o] \in Int
  BY DEF IInv, TypeOK
<1>6. ASSUME NEW o \in P, crossings'[o].gate \in {"CLOSING", "OPENING"}
      PROVE  o \in DOMAIN gates'
  BY <1>1, <1>3, <1>6 DEF GatesTimed, GatesAfter, GateStep
<1>7. ASSUME NEW o \in DOMAIN gates'
      PROVE  /\ 1 - Elapsed <= gates'[o] /\ gates'[o] <= MoveTime
             /\ crossings'[o].reset_pending => gates'[o] <= MoveTime - Elapsed
  <2>1. CASE o # p
    BY <1>1, <1>3, <1>7, <2>1 DEF GatesTimed, GatesAfter
  <2>2. CASE o = p /\ r.move
    BY <1>1, <1>2, <1>4, <2>2 DEF GatesAfter, GateStep
  <2>3. CASE o = p /\ ~r.move
    <3>1. p \in DOMAIN gates /\ gates'[p] = gates[p]
      BY <1>7, <2>3 DEF GatesAfter
    <3>2. r.cx.reset_pending => crossings[p].reset_pending
      BY <2>3 DEF GateStep
    <3> QED
      BY <1>1, <1>3, <2>3, <3>1, <3>2 DEF GatesTimed
  <2> QED
    BY <2>1, <2>2, <2>3
<1>8. ASSUME NEW o \in P, crossings'[o].reset_pending
      PROVE  "reset" \in Commands
  BY <1>1, <1>3, <1>8 DEF ResetsOrdered, GateStep
<1> QED
  BY <1>2, <1>6, <1>7, <1>8 DEF GatesTimed, ResetsOrdered, MoveTime

\* No event is overdue by a whole tick after a handler's step.
LEMMA HandledOnTime ==
  ASSUME IInv, EventsTimed, UNCHANGED <<time_scale, ticking>>,
         NEW p, NEW r, NEW slot, NEW fired, Handled(p, r, slot, fired)
  PROVE  EventsTimed'
<1>1. Elapsed' = Elapsed /\ Elapsed \in Nat
  BY RailSimAssumption DEF Elapsed, IInv, TypeOK
<1>2. ASSUME NEW j \in DOMAIN events'
      PROVE  /\ -Elapsed <= events'[j].left
             /\ events'[j].event # "TRAIN_APPROACH" => 1 - Elapsed <= events'[j].left
  <2>1. CASE Stays(j, p, r, slot)
    BY <2>1 DEF EventsTimed, Stays
  <2>2. ASSUME NEW t \in Timer, Started(j, p, t)
        PROVE  <1>2!2
    BY <1>1, <2>2, Times DEF Started
  <2> QED
    BY <2>1, <2>2, HandledSlots
<1> QED
  BY <1>1, <1>2 DEF EventsTimed

\* The events after a handler's step.
LEMMA HandledEvents ==
  ASSUME IInv, IInv', NEW M, Margin(M), TInv(M),
         NEW p, NEW r, NEW slot, NEW fired, NEW event, Timed(p, r, slot, fired, event)
  PROVE  EventsTimed' /\ EnterWarned'
<1>0. Handled(p, r, slot, fired) /\ UNCHANGED <<time_scale, ticking>>
  BY DEF Timed
<1>2. EventsTimed /\ EnterWarned
  BY DEF TInv
<1>4. \A j \in DOMAIN events' : events'[j].event # "TIMER" =>
        j \in DOMAIN events /\ events'[j] = events[j]
  BY <1>0, HandledSlots DEF Stays, Started
<1>5. EnterWarned'
  BY <1>2, <1>4 DEF EnterWarned, TrainSlot
<1> QED
  BY <1>0, <1>2, <1>5, HandledOnTime

\* A handler leaves the timers timed: a timer is started with its whole time,
\* and one that goes with a movement when the movement starts.
LEMMA HandledTimers ==
  ASSUME IInv, IInv', NEW M, Margin(M), TInv(M),
         NEW p, NEW r, NEW slot, NEW fired, NEW event, Timed(p, r, slot, fired, event)
  PROVE  TimersTimed'
<1> USE DEF Timed
<1>1. /\ p \in P /\ crossings'[p] = r.cx
      /\ \A o \in P \ {p} : crossings'[o] = crossings[o]
  BY HandledCrossings
<1>2. TimersTimed /\ TypeOK /\ TypeOK'
  BY DEF TInv, IInv
<1> SUFFICES ASSUME NEW j \in TimerSlots'
             PROVE  /\ events'[j].arg = "CLOSE_DELAY" =>
                         events'[j].left <= GATE_CLOSE_DELAY_SEC * SEC
                    /\ events'[j].arg \in {"CLOSE_TIMEOUT", "OPEN_TIMEOUT"} =>
                         gates'[events'[j].p] <= events'[j].left
  BY DEF TimersTimed
<1>3. j \in DOMAIN events' /\ events'[j].event = "TIMER"
  BY DEF TimerSlots
<1>4. ASSUME NEW t \in Timer, r.start = {t}, Started(j, p, t)
      PROVE  /\ events'[j].arg = "CLOSE_DELAY" =>
                  events'[j].left <= GATE_CLOSE_DELAY_SEC * SEC
             /\ events'[j].arg \in {"CLOSE_TIMEOUT", "OPEN_TIMEOUT"} =>
                  gates'[events'[j].p] <= events'[j].left
  <2>1. t = "CLOSE_DELAY" => Seconds(t) * SEC <= GATE_CLOSE_DELAY_SEC * SEC
    BY Times
  <2>2. t \in {"CLOSE_TIMEOUT", "OPEN_TIMEOUT"} =>
          r.move /\ gates'[p] = MoveTime /\ MoveTime <= Seconds(t) * SEC
    BY <1>4, TimeoutTimes DEF GateStep, GatesAfter
  <2> QED
    BY <1>4, <2>1, <2>2 DEF Started
<1>5. ASSUME Stays(j, p, r, slot)
      PROVE  /\ events'[j].arg = "CLOSE_DELAY" =>
                  events'[j].left <= GATE_CLOSE_DELAY_SEC * SEC
             /\ events'[j].arg \in {"CLOSE_TIMEOUT", "OPEN_TIMEOUT"} =>
                  gates'[events'[j].p] <= events'[j].left
  <2>1. j \in TimerSlots /\ events'[j] = events[j]
    BY <1>3, <1>5 DEF Stays, TimerSlots
  <2>2. events[j].arg = "CLOSE_DELAY" => events[j].left <= GATE_CLOSE_DELAY_SEC * SEC
    BY <1>2, <2>1 DEF TimersTimed
  <2>3. CASE events[j].arg \in {"CLOSE_TIMEOUT", "OPEN_TIMEOUT"}
    <3> DEFINE o == events[j].p
               t == events[j].arg
    <3>1. o \in P /\ t \in Timer /\ gates[o] <= events[j].left
      BY <1>2, <2>1, <2>3, EventCases DEF TimersTimed, TimerSlots
    <3>2. Awaited(crossings[o], t)
      BY <2>1, <3>1, RunsAwaited DEF IInv, Runs
    <3>3. o \in DOMAIN gates
      BY <2>3, <3>1, <3>2 DEF Awaited, TInv, GatesTimed
    <3>4. CASE o # p
      <4>1. gates'[o] = gates[o]
        <5> HIDE DEF o
        <5> QED
          BY <3>1, <3>3, <3>4 DEF GatesAfter
      <4> QED
        BY <2>1, <2>2, <3>1, <4>1
    <3>5. CASE o = p
      <4>1. t \notin r.cancel
        BY <1>3, <1>5, <2>1, <3>5 DEF Stays
      <4>2. t \notin fired
        BY <1>5, <2>1, <3>5 DEF Stays, Handled, Delivering, IInv, TimersUnique, TimerSlots
      <4>3. Awaited(r.cx, t)
        BY <3>1, <3>2, <3>5, <4>1, <4>2 DEF Handled, Contract
      <4>4. r.cx.gate \in {"CLOSING", "OPENING"}
        BY <2>3, <4>3 DEF Awaited
      <4>5. CASE ~r.move
        <5>1. gates'[p] = gates[p]
          <6> HIDE DEF o
          <6> QED
            BY <3>3, <3>5, <4>4, <4>5 DEF GatesAfter
        <5> QED
          BY <2>1, <2>2, <3>1, <3>5, <5>1
      <4>6. CASE r.move
        <5>1. PICK u \in {"CLOSE_TIMEOUT", "OPEN_TIMEOUT"} : u \in r.start
          BY <4>6 DEF GateStep
        <5>2. u \in Timer /\ Awaited(r.cx, u) /\ ~Awaited(crossings[p], u)
          BY <5>1 DEF Handled, Contract, StartsOne, Timer
        <5> QED
          BY <2>3, <3>2, <3>5, <4>3, <5>1, <5>2 DEF Awaited
      <4> QED
        BY <4>5, <4>6
    <3> QED
      BY <3>4, <3>5
  <2> QED
    BY <2>1, <2>2, <2>3
<1> QED
  BY <1>3, <1>4, <1>5, HandledSlots

\* The course of the gate under result r, as seen by a train that approaches:
\* as before, down, on its way down, or on its way up in the check.
Course(c, r) ==
  \/ /\ ~r.move /\ r.cx.gate = c.gate /\ r.cx.reset_pending = c.reset_pending
     /\ c.close_delay_pending => r.cx.close_delay_pending
  \/ r.cx.gate = "CLOSED"
  \/ /\ r.move /\ r.cx.gate = "CLOSING" /\ ~r.cx.reset_pending
     /\ c.gate \in {"OPEN", "OPENING"}
  \/ /\ r.move /\ r.cx.gate = "OPENING" /\ ~r.cx.reset_pending
     /\ c.gate = "CLOSING" /\ c.reset_pending

\* A train on track d approaches after r: it did before, or r is its warning.
Nears(c, r, event, arg, d) ==
  r.cx.fault = "NONE" /\ r.cx.track[d] = "APPROACHING" =>
    /\ c.fault = "NONE" /\ Course(c, r)
    /\ \/ c.track[d] = "APPROACHING"
       \/ /\ event = "TRAIN_APPROACH" /\ arg = d
          /\ r.cx.gate # "OPENING"
          /\ r.cx.gate = "OPEN" => r.cx.close_delay_pending

\* The events of a train advance its gate so.
LEMMA TrainNears ==
  ASSUME NEW c \in CrossingState, CxInv(c), NEW a \in Dir, NEW event \in TrainEvent,
         NEW d \in Dir
  PROVE  Nears(c, crossing_handle_event(c, event, a, TRUE), event, a, d)
<1> USE DEF CrossingState, GateState, Dir, TrainEvent, TrackState
<1>0. CASE c.fault # "NONE"
  BY <1>0 DEF crossing_handle_event, Nothing, Effect, Nears
<1>1. CASE c.fault = "NONE" /\ event = "TRAIN_APPROACH"
  BY <1>1 DEF crossing_handle_event, on_approach, start_gate_close, Nothing, Effect,
              Nears, Course, CxInv
<1>2. CASE c.fault = "NONE" /\ event = "TRAIN_ENTER"
  BY <1>2 DEF crossing_handle_event, on_enter, enter_fault, Nothing, Effect, Nears,
              Course, CxInv
<1>3. CASE c.fault = "NONE" /\ event = "TRAIN_EXIT"
  <2>1. ASSUME c.track[a] # "ON_CROSSING"
        PROVE  Nears(c, Nothing(c), event, a, d)
    BY <1>3 DEF Nothing, Effect, Nears, Course
  <2> DEFINE left == [c EXCEPT !.track = [c.track EXCEPT ![a] = "CLEARED"]]
             timeout == {TRAIN_TIMEOUT_TIMER(a)}
             none == [c EXCEPT !.track = [e \in Dir |-> "NONE"]]
  <2>2. Nears(c, start_gate_open(none, timeout), event, a, d)
    BY <1>3 DEF start_gate_open, Effect, Nears
  <2>3. Nears(c, Effect(left, timeout, {}, FALSE, {}), event, a, d)
    BY <1>3 DEF Effect, Nears, Course
  <2>4. crossing_handle_event(c, event, a, TRUE) = on_exit(c, a)
    BY <1>3 DEF crossing_handle_event
  <2> QED
    BY <2>1, <2>2, <2>3, <2>4 DEF on_exit
<1> QED
  BY <1>0, <1>1, <1>2, <1>3

\* So do all others.
LEMMA OtherNears ==
  ASSUME NEW c \in CrossingState, CxInv(c), NEW a, NEW d \in Dir,
         NEW event \in {"GATE_CLOSED", "GATE_OPENED", "INJECT_FAULT", "RESET_FAULT", "TIMER"},
         event = "TIMER" /\ a = "CLOSE_DELAY" => c.gate = "OPEN"
  PROVE  Nears(c, crossing_handle_event(c, event, a, TRUE), event, a, d)
<1> USE DEF CrossingState, GateState, Dir
<1>0. CASE c.fault # "NONE" /\ event # "RESET_FAULT"
  BY <1>0 DEF crossing_handle_event, Nothing, Effect, Nears
<1>1. CASE c.fault = "NONE" /\ event = "GATE_CLOSED"
  BY <1>1 DEF crossing_handle_event, on_gate_closed, start_gate_open, Nothing, Effect,
              Nears, Course, CxInv
<1>2. CASE c.fault = "NONE" /\ event = "GATE_OPENED"
  BY <1>2 DEF crossing_handle_event, on_gate_opened, start_gate_close, Nothing, Effect,
              Nears, Course, CxInv, crossing_both_tracks_clear
<1>3. CASE c.fault = "NONE" /\ event = "INJECT_FAULT"
  BY <1>3 DEF crossing_handle_event, enter_fault, Effect, Nears
<1>4. CASE event = "RESET_FAULT"
  BY <1>4 DEF crossing_handle_event, on_reset, Nothing, Effect, Nears, Course
<1>5. CASE c.fault = "NONE" /\ event = "TIMER"
  BY <1>5 DEF crossing_handle_event, on_timer, start_gate_close, enter_fault, Effect,
              Nears, Course, CxInv
<1> QED
  BY <1>0, <1>1, <1>2, <1>3, <1>4, <1>5

\* A train just warned of finds the gate in time, whatever it is doing.
LEMMA AheadAtWarning ==
  ASSUME IInv, IInv', UNCHANGED Elapsed, NEW M, Margin(M),
         GatesTimed', TimersTimed', ResetsOrdered',
         NEW p \in P, crossings'[p].gate # "OPENING",
         crossings'[p].gate = "OPEN" => crossings'[p].close_delay_pending,
         NEW time \in Int, TRAIN_WARNING_SEC * SEC - Elapsed <= time
  PROVE  InTime(p, time, M)'
<1> DEFINE c == crossings'[p]
           w == TRAIN_WARNING_SEC * SEC
           dl == GATE_CLOSE_DELAY_SEC * SEC
<1>1. /\ w >= dl + MoveTime + 2 * M - 1
      /\ "reset" \in Commands => w >= 3 * MoveTime + 2 * M - 2
  BY DEF Margin
<1>2. /\ w \in Nat /\ dl \in Nat /\ MoveTime \in Nat \ {0} /\ M \in Nat \ {0}
      /\ Elapsed \in Nat /\ Elapsed <= M
  BY Times, ElapsedBound DEF IInv
<1>3. \A j \in TimerSlots' : events'[j].p = p /\ events'[j].arg = "CLOSE_DELAY" =>
        events'[j].left \in Int /\ events'[j].left <= dl
  BY DEF IInv, TypeOK, Event, TimersTimed, TimerSlots
<1>4. c.gate = "CLOSING" =>
        /\ gates'[p] \in Int /\ gates'[p] <= MoveTime
        /\ c.reset_pending => gates'[p] <= MoveTime - Elapsed /\ "reset" \in Commands
  BY DEF GatesTimed, ResetsOrdered, IInv, TypeOK, MoveTime
<1>5. w - Elapsed <= time
  OBVIOUS
<1> HIDE DEF w, dl
<1>6. \A j \in TimerSlots' : events'[j].p = p /\ events'[j].arg = "CLOSE_DELAY" =>
        events'[j].left + MoveTime + M - 1 <= time
  BY <1>1, <1>2, <1>3, <1>5
<1>7. c.gate = "CLOSING" => gates'[p] <= time
  BY <1>1, <1>2, <1>4, <1>5
<1>8. c.gate = "CLOSING" /\ c.reset_pending => gates'[p] + 2 * MoveTime + 2 * M - 2 <= time
  BY <1>1, <1>2, <1>4, <1>5
<1> QED
  BY <1>6, <1>7, <1>8 DEF InTime, MoveTime

\* A gate that was in time stays so along its course.
LEMMA AheadOnCourse ==
  ASSUME IInv, IInv', NEW M, Margin(M), TInv(M),
         NEW p, NEW r, NEW slot, NEW fired, NEW event, Timed(p, r, slot, fired, event),
         Course(crossings[p], r), NEW time \in Int, InTime(p, time, M)
  PROVE  InTime(p, time, M)'
<1> DEFINE c == crossings[p]
<1>0. Handled(p, r, slot, fired) /\ GatesAfter(p, r) /\ GatesTimed /\ EventsTimed
  BY DEF Timed, TInv
<1>1. p \in P /\ crossings'[p] = r.cx
  BY <1>0, HandledCrossings
<1>2. /\ MoveTime \in Nat \ {0} /\ M \in Nat \ {0} /\ Elapsed \in Nat /\ Elapsed <= M
  BY Times, ElapsedBound DEF IInv
<1>3. c.gate \in {"CLOSING", "OPENING"} =>
        p \in DOMAIN gates /\ gates[p] \in Int /\ 1 - Elapsed <= gates[p]
  BY <1>0, <1>1 DEF GatesTimed, IInv, TypeOK
<1>4. CASE /\ ~r.move /\ r.cx.gate = c.gate /\ r.cx.reset_pending = c.reset_pending
           /\ c.close_delay_pending => r.cx.close_delay_pending
  <2>1. c.gate \in {"CLOSING", "OPENING"} => gates'[p] = gates[p]
    BY <1>0, <1>3, <1>4 DEF GatesAfter
  <2>2. c.gate = "OPEN" => c.close_delay_pending
    BY DEF InTime
  <2>3. ASSUME c.gate = "OPEN", NEW j \in TimerSlots', events'[j].p = p,
               events'[j].arg = "CLOSE_DELAY"
        PROVE  events'[j].left + MoveTime + M - 1 <= time
    <3>1. Awaited(c, "CLOSE_DELAY")
      BY <2>2, <2>3 DEF Awaited
    <3>2. j \in DOMAIN events' /\ events'[j].event = "TIMER"
      BY DEF TimerSlots
    <3>3. ~\E t \in Timer : r.start = {t} /\ Started(j, p, t)
      BY <1>0, <2>3, <3>1 DEF Started, Handled, StartsOne
    <3>4. Stays(j, p, r, slot)
      BY <1>0, <3>2, <3>3, HandledSlots
    <3>5. j \in TimerSlots /\ events'[j] = events[j]
      BY <3>2, <3>4 DEF Stays, TimerSlots
    <3> QED
      BY <2>3, <3>5 DEF InTime
  <2> HIDE DEF c
  <2> QED
    BY <1>1, <1>4, <2>1, <2>2, <2>3 DEF InTime, c, MoveTime
<1>5. CASE r.cx.gate = "CLOSED"
  BY <1>1, <1>5 DEF InTime
<1>6. CASE /\ r.move /\ r.cx.gate = "CLOSING" /\ ~r.cx.reset_pending
           /\ c.gate \in {"OPEN", "OPENING"}
  <2>1. gates'[p] = MoveTime
    BY <1>0, <1>6 DEF GatesAfter
  <2>2. MoveTime <= time
    <3>1. CASE c.gate = "OPENING"
      <4>1. gates[p] + MoveTime + M - 1 <= time
        BY <3>1 DEF InTime
      <4> QED
        BY <1>2, <1>3, <3>1, <4>1
    <3>2. CASE c.gate = "OPEN"
      <4>1. Awaited(c, "CLOSE_DELAY") /\ "CLOSE_DELAY" \in Timer
        BY <3>2 DEF InTime, Awaited, Timer
      <4>2. PICK j \in TimerSlots : events[j].p = p /\ events[j].arg = "CLOSE_DELAY"
        BY <1>1, <4>1, RunsAwaited DEF IInv, Runs
      <4>3. /\ events[j].left \in Int /\ 1 - Elapsed <= events[j].left
            /\ events[j].left + MoveTime + M - 1 <= time
        BY <1>0, <3>2, <4>2, EventCases DEF EventsTimed, TimerSlots, InTime, IInv
      <4> QED
        BY <1>2, <4>3
    <3> QED
      BY <1>6, <3>1, <3>2
  <2> QED
    BY <1>1, <1>6, <2>1, <2>2 DEF InTime
<1>7. CASE /\ r.move /\ r.cx.gate = "OPENING" /\ ~r.cx.reset_pending
           /\ c.gate = "CLOSING" /\ c.reset_pending
  <2>1. gates'[p] = MoveTime
    BY <1>0, <1>7 DEF GatesAfter
  <2>2. gates[p] + 2 * MoveTime + 2 * M - 2 <= time
    BY <1>7 DEF InTime
  <2>3. MoveTime + MoveTime + M - 1 <= time
    BY <1>2, <1>3, <1>7, <2>2
  <2> QED
    BY <1>1, <1>7, <2>1, <2>3 DEF InTime, MoveTime
<1> QED
  BY <1>4, <1>5, <1>6, <1>7 DEF Course

\* Nothing changes for the other crossings.
LEMMA AheadElsewhere ==
  ASSUME IInv, IInv', NEW M, Margin(M), TInv(M),
         NEW p, NEW r, NEW slot, NEW fired, NEW event, Timed(p, r, slot, fired, event),
         NEW o \in P \ {p}, NEW time \in Int, InTime(o, time, M)
  PROVE  InTime(o, time, M)'
<1>0. Handled(p, r, slot, fired) /\ GatesAfter(p, r) /\ GatesTimed
  BY DEF Timed, TInv
<1>1. crossings'[o] = crossings[o]
  BY <1>0, HandledCrossings
<1>2. crossings[o].gate \in {"CLOSING", "OPENING"} => gates'[o] = gates[o]
  BY <1>0 DEF GatesAfter, GatesTimed
<1>3. ASSUME NEW j \in TimerSlots', events'[j].p = o
      PROVE  j \in TimerSlots /\ events'[j] = events[j]
  <2>1. j \in DOMAIN events' /\ events'[j].event = "TIMER"
    BY DEF TimerSlots
  <2>2. Stays(j, p, r, slot)
    BY <1>0, <1>3, <2>1, HandledSlots DEF Started
  <2> QED
    BY <2>1, <2>2 DEF Stays, TimerSlots
<1> QED
  BY <1>1, <1>2, <1>3 DEF InTime, MoveTime

\* After a handler the gate is in time for every train it was in time for, and
\* for the one it has just been warned of.
LEMMA HandledAhead ==
  ASSUME IInv, IInv', NEW M, Margin(M), TInv(M),
         NEW p, NEW r, NEW slot, NEW fired, NEW event, Timed(p, r, slot, fired, event),
         NEW arg, \A d \in Dir : Nears(crossings[p], r, event, arg, d),
         event = "TRAIN_APPROACH" =>
           \E j \in DOMAIN events : TrainSlot(j, p, "TRAIN_APPROACH", arg)
  PROVE  GateAhead(M)'
<1>0. Handled(p, r, slot, fired) /\ GateAhead(M) /\ EnterWarned /\ EventsTimed
  BY DEF Timed, TInv
<1>1. /\ p \in P /\ crossings'[p] = r.cx
      /\ \A o \in P \ {p} : crossings'[o] = crossings[o]
  BY <1>0, HandledCrossings
<1>2. GatesTimed' /\ ResetsOrdered' /\ TimersTimed'
  BY HandledGates, HandledTimers
<1>3. UNCHANGED Elapsed
  BY DEF Timed, Elapsed
<1> SUFFICES ASSUME NEW o \in P, NEW d \in Dir, NEW i \in DOMAIN events',
                    TrainSlot(i, o, "TRAIN_ENTER", d)',
                    crossings'[o].fault = "NONE", crossings'[o].track[d] = "APPROACHING"
             PROVE  InTime(o, events[i].left, M)'
  BY DEF GateAhead
<1>4. i \in DOMAIN events /\ events'[i] = events[i] /\ TrainSlot(i, o, "TRAIN_ENTER", d)
  BY <1>0, HandledSlots DEF TrainSlot, Stays, Started
<1>5. PICK time \in Int : time = events[i].left
  BY <1>4, EventCases DEF IInv
<1> SUFFICES InTime(o, time, M)'
  BY <1>4, <1>5 DEF InTime
<1>6. CASE o # p
  <2>1. InTime(o, time, M)
    BY <1>0, <1>1, <1>4, <1>5, <1>6 DEF GateAhead
  <2> QED
    BY <1>6, <2>1, AheadElsewhere
<1>7. CASE o = p /\ crossings[p].track[d] = "APPROACHING"
  <2>1. crossings[p].fault = "NONE" /\ Course(crossings[p], r)
    BY <1>1, <1>7 DEF Nears
  <2>2. InTime(p, time, M)
    BY <1>0, <1>1, <1>4, <1>5, <1>7, <2>1 DEF GateAhead
  <2> QED
    BY <1>7, <2>1, <2>2, AheadOnCourse
<1>8. CASE o = p /\ crossings[p].track[d] # "APPROACHING"
  <2>1. /\ event = "TRAIN_APPROACH" /\ arg = d
        /\ r.cx.gate # "OPENING" /\ (r.cx.gate = "OPEN" => r.cx.close_delay_pending)
    BY <1>1, <1>8 DEF Nears
  <2>2. PICK j \in DOMAIN events : TrainSlot(j, p, "TRAIN_APPROACH", d)
    BY <2>1
  <2>3. events[j].left + TRAIN_WARNING_SEC * SEC <= time
    BY <1>0, <1>1, <1>4, <1>5, <1>8, <2>2 DEF EnterWarned
  <2>4. events[j].left \in Int /\ -Elapsed <= events[j].left
    BY <1>0, EventCases DEF EventsTimed, IInv
  <2>5. Elapsed \in Nat /\ TRAIN_WARNING_SEC * SEC \in Nat
    BY ElapsedBound, Times DEF IInv
  <2>6. TRAIN_WARNING_SEC * SEC - Elapsed <= time
    BY <1>5, <2>3, <2>4, <2>5
  <2> QED
    BY <1>1, <1>2, <1>3, <1>8, <2>1, <2>6, AheadAtWarning
<1> QED
  BY <1>6, <1>7, <1>8

\* Train events stay queued until they are delivered.
LEMMA HandledStays ==
  ASSUME IInv, NEW p, NEW r, NEW slot, NEW fired, Handled(p, r, slot, fired),
         NEW j \in DOMAIN events \ slot, events[j].event # "TIMER"
  PROVE  j \in DOMAIN events' /\ events'[j] = events[j]
<1>1. QueueKept(p, r, slot)
  BY CallbacksQueue DEF Handled
<1>2. \A k \in Kept(p, r, slot) : k \in DOMAIN events' /\ events'[k] = events[k]
  BY <1>1, Zenon DEF QueueKept
<1> QED
  BY <1>2 DEF Kept

\* A delivered ENTER ends the approach.
LEMMA EnterEnds ==
  ASSUME NEW c \in CrossingState, NEW d \in Dir
  PROVE  LET r == crossing_handle_event(c, "TRAIN_ENTER", d, TRUE)
         IN  r.cx.fault # "NONE" \/ r.cx.track[d] # "APPROACHING"
BY DEF crossing_handle_event, on_enter, enter_fault, Nothing, Effect, CrossingState, Dir

\* What a handler is called for: the event of a slot, or none of the queue.
CalledFor(p, r, slot, event, arg) ==
  \/ slot = {} /\ event \notin TrainEvent
  \/ \E i \in DOMAIN events :
       /\ slot = {i} /\ events[i].left <= 0
       /\ events[i].p = p /\ events[i].event = event /\ events[i].arg = arg
       /\ r = crossing_handle_event(crossings[p], event, arg, TRUE)

\* A handler leaves the ENTER of every announced train in the queue.
LEMMA HandledQueued ==
  ASSUME IInv, IInv', NEW M, Margin(M), TInv(M),
         NEW p, NEW r, NEW slot, NEW fired, NEW event, Timed(p, r, slot, fired, event),
         NEW arg, \A d \in Dir : Nears(crossings[p], r, event, arg, d),
         CalledFor(p, r, slot, event, arg)
  PROVE  EnterQueued'
<1>0. Handled(p, r, slot, fired) /\ EnterQueued /\ EnterWarned /\ EventsTimed
  BY DEF Timed, TInv
<1>1. /\ p \in P /\ crossings'[p] = r.cx
      /\ \A o \in P \ {p} : crossings'[o] = crossings[o]
  BY <1>0, HandledCrossings
<1> SUFFICES ASSUME NEW o \in P, NEW d \in Dir,
                    \/ /\ crossings'[o].fault = "NONE"
                       /\ crossings'[o].track[d] = "APPROACHING"
                    \/ \E j \in DOMAIN events' : TrainSlot(j, o, "TRAIN_APPROACH", d)'
             PROVE  \E i \in DOMAIN events' : TrainSlot(i, o, "TRAIN_ENTER", d)'
  BY DEF EnterQueued
<1>2. ASSUME NEW j \in DOMAIN events', TrainSlot(j, o, "TRAIN_APPROACH", d)'
      PROVE  TrainSlot(j, o, "TRAIN_APPROACH", d) /\ j \notin slot /\ j \in DOMAIN events
  BY <1>0, <1>2, HandledSlots DEF TrainSlot, Stays, Started
<1>3. \E i \in DOMAIN events : TrainSlot(i, o, "TRAIN_ENTER", d)
  <2>1. CASE \E j \in DOMAIN events' : TrainSlot(j, o, "TRAIN_APPROACH", d)'
    BY <1>0, <1>2, <2>1 DEF EnterQueued
  <2>2. CASE /\ crossings'[o].fault = "NONE"
             /\ crossings'[o].track[d] = "APPROACHING"
    <3>1. CASE crossings[o].fault = "NONE" /\ crossings[o].track[d] = "APPROACHING"
      BY <1>0, <3>1 DEF EnterQueued
    <3>2. CASE o = p /\ event = "TRAIN_APPROACH" /\ arg = d
      <4>1. \E j \in DOMAIN events : TrainSlot(j, o, "TRAIN_APPROACH", d)
        BY <3>2 DEF CalledFor, TrainSlot, TrainEvent
      <4> QED
        BY <1>0, <4>1 DEF EnterQueued
    <3> QED
      BY <1>1, <2>2, <3>1, <3>2 DEF Nears
  <2> QED
    BY <2>1, <2>2
<1>4. PICK i \in DOMAIN events : TrainSlot(i, o, "TRAIN_ENTER", d)
  BY <1>3
<1>5. CASE i \notin slot
  <2>1. i \in DOMAIN events' /\ events'[i] = events[i]
    BY <1>0, <1>4, <1>5, HandledStays DEF TrainSlot
  <2> QED
    BY <1>4, <2>1 DEF TrainSlot
<1>6. CASE i \in slot
  <2>1. /\ o = p /\ event = "TRAIN_ENTER" /\ arg = d /\ events[i].left <= 0
        /\ r = crossing_handle_event(crossings[p], event, arg, TRUE)
    BY <1>4, <1>6 DEF CalledFor, TrainSlot
  <2>2. r.cx.fault # "NONE" \/ r.cx.track[d] # "APPROACHING"
    BY <1>1, <2>1, EnterEnds, CrossingOK
  <2>3. PICK j \in DOMAIN events : TrainSlot(j, o, "TRAIN_APPROACH", d)
    BY <1>1, <1>2, <2>1, <2>2
  <2>4. events[j].left + TRAIN_WARNING_SEC * SEC <= events[i].left
    BY <1>0, <1>4, <2>3 DEF EnterWarned
  <2>5. /\ events[j].left \in Int /\ events[i].left \in Int /\ -Elapsed <= events[j].left
    BY <1>0, EventCases DEF EventsTimed, IInv
  <2>6. /\ Elapsed \in Nat /\ Elapsed <= M /\ M \in Nat \ {0} /\ MoveTime \in Nat \ {0}
        /\ GATE_CLOSE_DELAY_SEC * SEC \in Nat /\ TRAIN_WARNING_SEC * SEC \in Nat
    BY ElapsedBound, Times DEF IInv
  <2>7. TRAIN_WARNING_SEC * SEC >= GATE_CLOSE_DELAY_SEC * SEC + MoveTime + 2 * M - 1
    BY DEF Margin
  <2> DEFINE w == TRAIN_WARNING_SEC * SEC
             dl == GATE_CLOSE_DELAY_SEC * SEC
  <2>8. /\ events[j].left + w <= events[i].left /\ w \in Nat /\ dl \in Nat
        /\ w >= dl + MoveTime + 2 * M - 1
    BY <2>4, <2>6, <2>7
  <2> HIDE DEF w, dl
  <2> QED
    BY <2>1, <2>5, <2>6, <2>8
<1> QED
  BY <1>5, <1>6

\* What makes a crossing fault for its gate.
GateFault == {"TRAIN_EARLY", "GATE_CLOSE_TIMEOUT", "GATE_OPEN_TIMEOUT"}

\* A gate is blamed for a train that enters early, or by a timeout.
FaultCause(c, r, event, arg) ==
  r.cx.fault \in GateFault =>
    \/ c.fault = r.cx.fault
    \/ /\ event = "TRAIN_ENTER" /\ c.fault = "NONE"
       /\ c.track[arg] = "APPROACHING" /\ c.gate # "CLOSED"
    \/ event = "TIMER" /\ arg \in {"CLOSE_TIMEOUT", "OPEN_TIMEOUT"}

\* For nothing else.
LEMMA FaultCauses ==
  ASSUME NEW c \in CrossingState, NEW arg,
         NEW event \in TrainEvent \cup {"GATE_CLOSED", "GATE_OPENED", "INJECT_FAULT",
                                        "RESET_FAULT", "TIMER"},
         event \in TrainEvent => arg \in Dir, event = "TIMER" => arg \in Timer
  PROVE  FaultCause(c, crossing_handle_event(c, event, arg, TRUE), event, arg)
<1> USE DEF CrossingState, TrainEvent, FaultCause, GateFault, crossing_handle_event
<1>0. CASE c.fault # "NONE" /\ event # "RESET_FAULT"
  BY <1>0 DEF Nothing, Effect
<1>1. CASE c.fault = "NONE" /\ event = "TRAIN_APPROACH"
  BY <1>1 DEF on_approach, start_gate_close, Nothing, Effect
<1>2. CASE c.fault = "NONE" /\ event = "TRAIN_ENTER"
  BY <1>2 DEF on_enter, enter_fault, Nothing, Effect
<1>3. CASE c.fault = "NONE" /\ event = "TRAIN_EXIT"
  BY <1>3 DEF on_exit, start_gate_open, Nothing, Effect
<1>4. CASE c.fault = "NONE" /\ event \in {"GATE_CLOSED", "GATE_OPENED"}
  BY <1>4 DEF on_gate_closed, on_gate_opened, start_gate_open, start_gate_close, Nothing, Effect
<1>5. CASE c.fault = "NONE" /\ event = "INJECT_FAULT"
  BY <1>5 DEF enter_fault, Effect
<1>6. CASE event = "RESET_FAULT"
  BY <1>6 DEF on_reset, Nothing, Effect
<1>7. CASE c.fault = "NONE" /\ event = "TIMER"
  BY <1>7 DEF on_timer, start_gate_close, enter_fault, Effect, Timer
<1> QED
  BY <1>0, <1>1, <1>2, <1>3, <1>4, <1>5, <1>6, <1>7

\* While no gate is due, no train that enters finds its gate still moving, and
\* no movement times out.
LEMMA DueInTime ==
  ASSUME IInv, NEW M, Margin(M), TInv(M), DueGates = {},
         NEW i \in DOMAIN events, events[i].left <= 0
  PROVE  LET c == crossings[events[i].p]
         IN  /\ events[i].event = "TRAIN_ENTER" /\ c.fault = "NONE"
                  /\ c.track[events[i].arg] = "APPROACHING" => c.gate = "CLOSED"
             /\ events[i].event = "TIMER" =>
                  events[i].arg \notin {"CLOSE_TIMEOUT", "OPEN_TIMEOUT"}
<1> DEFINE p == events[i].p
           c == crossings[p]
<1>1. /\ p \in P /\ events[i].left \in Int /\ c \in CrossingState /\ CxInv(c)
      /\ events[i].event # "TIMER" => events[i].arg \in Dir
      /\ events[i].event = "TIMER" => events[i].arg \in Timer
  BY EventCases, CrossingOK DEF IInv
<1>2. c.gate \in {"CLOSING", "OPENING"} => gates[p] \in Int /\ gates[p] >= 1
  BY <1>1 DEF TInv, GatesTimed, DueGates, IInv, TypeOK
<1>3. /\ MoveTime \in Nat \ {0} /\ M \in Nat \ {0} /\ Elapsed \in Nat /\ Elapsed <= M
  BY Times, ElapsedBound DEF IInv
<1>4. ASSUME events[i].event = "TRAIN_ENTER", c.fault = "NONE",
             c.track[events[i].arg] = "APPROACHING", c.gate # "CLOSED"
      PROVE  FALSE
  <2>1. InTime(p, events[i].left, M)
    BY <1>1, <1>4 DEF TInv, GateAhead, TrainSlot
  <2>2. CASE c.gate = "CLOSING"
    <3>1. gates[p] <= events[i].left
      BY <2>1, <2>2 DEF InTime
    <3> QED
      BY <1>1, <1>2, <2>2, <3>1
  <2>3. CASE c.gate = "OPENING"
    <3>1. gates[p] + MoveTime + M - 1 <= events[i].left
      BY <2>1, <2>3 DEF InTime
    <3> QED
      BY <1>1, <1>2, <1>3, <2>3, <3>1
  <2>4. CASE c.gate = "OPEN"
    <3>1. Awaited(c, "CLOSE_DELAY") /\ "CLOSE_DELAY" \in Timer
      BY <2>1, <2>4 DEF InTime, Awaited, Timer
    <3>2. PICK j \in TimerSlots : events[j].p = p /\ events[j].arg = "CLOSE_DELAY"
      BY <1>1, <3>1, RunsAwaited DEF IInv, Runs
    <3>3. /\ events[j].left \in Int /\ 1 - Elapsed <= events[j].left
          /\ events[j].left + MoveTime + M - 1 <= events[i].left
      BY <2>1, <2>4, <3>2, EventCases DEF TInv, EventsTimed, TimerSlots, InTime, IInv
    <3> QED
      BY <1>1, <1>3, <3>3
  <2> QED
    BY <1>1, <1>4, <2>2, <2>3, <2>4 DEF CrossingState, GateState, CxInv
<1>5. ASSUME events[i].event = "TIMER", events[i].arg \in {"CLOSE_TIMEOUT", "OPEN_TIMEOUT"}
      PROVE  FALSE
  <2>1. Awaited(c, events[i].arg)
    BY <1>1, <1>5, RunsAwaited DEF IInv, Runs, TimerSlots
  <2>2. c.gate \in {"CLOSING", "OPENING"}
    BY <1>5, <2>1 DEF Awaited
  <2>3. gates[p] <= events[i].left
    BY <1>5 DEF TInv, TimersTimed, TimerSlots
  <2> QED
    BY <1>1, <1>2, <2>2, <2>3
<1> QED
  BY <1>4, <1>5

\* A handler's step keeps everything in time.
LEMMA HandledInTime ==
  ASSUME IInv, IInv', NEW M, Margin(M), TInv(M),
         NEW p, NEW r, NEW slot, NEW fired, NEW event, Timed(p, r, slot, fired, event),
         NEW arg, \A d \in Dir : Nears(crossings[p], r, event, arg, d),
         CalledFor(p, r, slot, event, arg),
         r.cx.fault \in GateFault => crossings[p].fault = r.cx.fault
  PROVE  TInv(M)'
<1>1. Handled(p, r, slot, fired)
  BY DEF Timed
<1>2. GatesTimed' /\ ResetsOrdered' /\ EventsTimed' /\ EnterWarned' /\ TimersTimed'
  BY HandledGates, HandledEvents, HandledTimers
<1>3. EnterQueued'
  BY HandledQueued
<1>4. event = "TRAIN_APPROACH" =>
        \E j \in DOMAIN events : TrainSlot(j, p, "TRAIN_APPROACH", arg)
  BY DEF CalledFor, TrainSlot, TrainEvent
<1>5. GateAhead(M)'
  BY <1>4, HandledAhead
<1>6. GateInTime'
  <2>1. /\ p \in P /\ crossings'[p] = r.cx
        /\ \A o \in P \ {p} : crossings'[o] = crossings[o]
    BY <1>1, HandledCrossings
  <2> QED
    BY <2>1 DEF GateInTime, GateFault, TInv
<1> QED
  BY <1>2, <1>3, <1>5, <1>6 DEF TInv

\* A gate that reached its end is at rest or commanded again.
LEMMA SensorSettles ==
  ASSUME NEW c \in CrossingState, CxInv(c)
  PROVE  LET event == IF c.gate = "OPENING" THEN "GATE_OPENED" ELSE "GATE_CLOSED"
             r == crossing_handle_event(c, event, "UP", TRUE)
         IN  ~r.move => r.cx.gate \notin {"CLOSING", "OPENING"}
<1> USE DEF CrossingState, GateState
<1>1. CASE c.gate = "OPENING"
  BY <1>1 DEF crossing_handle_event, on_gate_opened, start_gate_close, Nothing, Effect, CxInv
<1>2. CASE c.gate # "OPENING"
  BY <1>2 DEF crossing_handle_event, on_gate_closed, start_gate_open, Nothing, Effect, CxInv
<1> QED
  BY <1>1, <1>2

\* The end of a movement.
LEMMA GateMovedInTime ==
  ASSUME IInv, IInv', NEW M, Margin(M), TInv(M), GateMoved
  PROVE  TInv(M)'
<1> DEFINE p == Min(DueGates)
           c == crossings[p]
           event == IF c.gate = "OPENING" THEN "GATE_OPENED" ELSE "GATE_CLOSED"
           r == crossing_handle_event(c, event, "UP", TRUE)
<1>1. /\ p \in P /\ Handled(p, r, {}, {})
      /\ gates' = rail_sim_gate_command(Without(gates, {p}), p, r)
  BY GateResult
<1>2. UNCHANGED <<time_scale, ticking>>
  BY DEF GateMoved
<1>3. c \in CrossingState /\ CxInv(c)
  BY <1>1, CrossingOK
<1>4. ~r.move => r.cx.gate \notin {"CLOSING", "OPENING"}
  BY <1>3, SensorSettles
<1>5. event \in {"GATE_CLOSED", "GATE_OPENED"}
  OBVIOUS
<1> HIDE DEF p, event
<1>6. GateStep(c, r, event)
  BY <1>3, <1>5, OtherGateStep
<1>7. \A d \in Dir : Nears(c, r, event, "UP", d)
  BY <1>3, <1>5, OtherNears
<1>8. FaultCause(c, r, event, "UP")
  BY <1>3, <1>5, FaultCauses DEF TrainEvent
<1> HIDE DEF r, c
<1>9. GatesAfter(p, r) /\ DOMAIN gates' \subseteq P
  <2>1. r.move \in BOOLEAN /\ TypeOK
    BY <1>6 DEF GateStep, IInv
  <2>2. Commanded(p, r)
    BY <1>1, <1>4 DEF Commanded
  <2> QED
    BY <1>1, <1>4, <2>1, <2>2, CommandedGates
<1>10. Timed(p, r, {}, {}, event)
  BY <1>1, <1>2, <1>5, <1>6, <1>9 DEF Timed, c
<1>11. CalledFor(p, r, {}, event, "UP")
  BY <1>5 DEF CalledFor, TrainEvent
<1>12. r.cx.fault \in GateFault => crossings[p].fault = r.cx.fault
  BY <1>5, <1>8 DEF FaultCause, c
<1> QED
  BY <1>7, <1>10, <1>11, <1>12, HandledInTime DEF c

\* An event that is due.
LEMMA DeliverInTime ==
  ASSUME IInv, IInv', NEW M, Margin(M), TInv(M), Deliver
  PROVE  TInv(M)'
<1> DEFINE i == Min(DueEvents)
           p == events[i].p
           c == crossings[p]
           event == events[i].event
           arg == events[i].arg
           r == ResultAt(i)
<1>1. /\ i \in DueEvents /\ i \in DOMAIN events /\ Handled(p, r, {i}, FiredAt(i))
      /\ gates' = rail_sim_gate_command(gates, p, r)
      /\ \A t \in FiredAt(i) : Awaited(c, t)
  BY DeliverResult
<1>2. UNCHANGED <<time_scale, ticking>> /\ DueGates = {}
  BY DEF Deliver
<1> HIDE DEF i
<1>3. events[i].left <= 0
  BY <1>1 DEF DueEvents
<1>4. /\ p \in P /\ c \in CrossingState /\ CxInv(c)
      /\ event # "TIMER" => event \in TrainEvent /\ arg \in Dir
      /\ event = "TIMER" => arg \in Timer
  BY <1>1, EventCases, CrossingOK DEF IInv
<1>5. r = crossing_handle_event(c, event, arg, TRUE)
  BY DEF ResultAt
<1>6. event = "TIMER" => Awaited(c, arg)
  BY <1>1 DEF FiredAt
<1>7. /\ event = "TRAIN_ENTER" /\ c.fault = "NONE" /\ c.track[arg] = "APPROACHING" =>
           c.gate = "CLOSED"
      /\ event = "TIMER" => arg \notin {"CLOSE_TIMEOUT", "OPEN_TIMEOUT"}
  BY <1>1, <1>2, <1>3, DueInTime
<1>8. CalledFor(p, r, {i}, event, arg)
  BY <1>1, <1>3, <1>5 DEF CalledFor
<1> HIDE DEF p, c, event, arg, r
<1>9. GateStep(c, r, event)
  BY <1>4, <1>5, TrainGateStep, OtherGateStep
<1>10. \A d \in Dir : Nears(c, r, event, arg, d)
  <2>1. event = "TIMER" /\ arg = "CLOSE_DELAY" => c.gate = "OPEN"
    BY <1>6 DEF Awaited
  <2> QED
    BY <1>4, <1>5, <2>1, TrainNears, OtherNears
<1>11. FaultCause(c, r, event, arg)
  BY <1>4, <1>5, FaultCauses DEF TrainEvent
<1>12. GatesAfter(p, r) /\ DOMAIN gates' \subseteq P
  <2>1. r.move \in BOOLEAN /\ TypeOK
    BY <1>9 DEF GateStep, IInv
  <2>2. Commanded(p, r)
    BY <1>1, <1>4 DEF Commanded
  <2> QED
    BY <1>1, <1>4, <2>1, <2>2, CommandedGates
<1>13. Timed(p, r, {i}, FiredAt(i), event)
  BY <1>1, <1>2, <1>4, <1>9, <1>12 DEF Timed, c, TrainEvent
<1>14. r.cx.fault \in GateFault => crossings[p].fault = r.cx.fault
  BY <1>7, <1>11 DEF FaultCause, c
<1> QED
  BY <1>8, <1>10, <1>13, <1>14, HandledInTime DEF c

\* The operator's faults and resets.
LEMMA OperateInTime ==
  ASSUME IInv, IInv', NEW M, Margin(M), TInv(M), NEW p \in P,
         InjectFault(p) \/ ResetFault(p)
  PROVE  TInv(M)'
<1>1. PICK event \in {"INJECT_FAULT", "RESET_FAULT"} :
        /\ Operate(p, event) /\ ~ticking
        /\ event = "RESET_FAULT" => "reset" \in Commands
  BY DEF InjectFault, ResetFault, Idle
<1> DEFINE c == crossings[p]
           r == crossing_handle_event(c, event, "UP", TRUE)
<1>2. Handled(p, r, {}, {})
  BY <1>1, OperateResult
<1>3. gates' = rail_sim_gate_command(gates, p, r) /\ UNCHANGED <<time_scale, ticking>>
  BY <1>1 DEF Operate
<1>4. c \in CrossingState /\ CxInv(c)
  BY CrossingOK
<1>5. GateStep(c, r, event)
  BY <1>4, OtherGateStep
<1>6. \A d \in Dir : Nears(c, r, event, "UP", d)
  BY <1>4, OtherNears
<1>7. FaultCause(c, r, event, "UP")
  BY <1>4, FaultCauses DEF TrainEvent
<1> HIDE DEF r, c
<1>8. GatesAfter(p, r) /\ DOMAIN gates' \subseteq P
  <2>1. r.move \in BOOLEAN /\ TypeOK
    BY <1>5 DEF GateStep, IInv
  <2>2. Commanded(p, r)
    BY <1>3 DEF Commanded
  <2> QED
    BY <1>3, <2>1, <2>2, CommandedGates
<1>9. Timed(p, r, {}, {}, event)
  BY <1>1, <1>2, <1>3, <1>5, <1>8 DEF Timed, c
<1>10. CalledFor(p, r, {}, event, "UP")
  BY DEF CalledFor, TrainEvent
<1>11. r.cx.fault \in GateFault => crossings[p].fault = r.cx.fault
  BY <1>7 DEF FaultCause, c
<1> QED
  BY <1>6, <1>9, <1>10, <1>11, HandledInTime DEF c

\* A tick takes its time off everything alike.
LEMMA TickInTime ==
  ASSUME IInv, NEW M, Margin(M), TInv(M), Tick
  PROVE  TInv(M)'
<1>0. TypeOK
  BY DEF IInv
<1>1. /\ time_scale \in Nat \ {0} /\ MoveTime \in Nat
      /\ Elapsed = 0 /\ Elapsed' = time_scale
  BY <1>0, ElapsedBound, Times DEF Tick, Elapsed
<1>2. UNCHANGED crossings
  BY DEF Tick
<1>3. DOMAIN gates' = DOMAIN gates
      /\ \A p \in DOMAIN gates : gates[p] \in Int /\ gates'[p] = gates[p] - time_scale
  BY <1>0 DEF Tick, TypeOK
<1>4. DOMAIN events' = DOMAIN events
  BY DEF Tick
<1>5. ASSUME NEW i \in DOMAIN events
      PROVE  /\ events[i].left \in Int /\ events'[i].left = events[i].left - time_scale
             /\ events'[i].p = events[i].p /\ events'[i].event = events[i].event
             /\ events'[i].arg = events[i].arg
  <2>1. events[i] \in Event /\ events'[i] = [events[i] EXCEPT !.left = @ - time_scale]
    BY <1>0 DEF TypeOK, Tick
  <2> QED
    BY <2>1 DEF Event
<1>6. TimerSlots' = TimerSlots
  BY <1>4, <1>5 DEF TimerSlots
<1>7. \A i, p, e, d : TrainSlot(i, p, e, d)' <=> TrainSlot(i, p, e, d)
  BY <1>4, <1>5 DEF TrainSlot
<1>8. GatesTimed' /\ ResetsOrdered' /\ GateInTime'
  BY <1>1, <1>2, <1>3 DEF TInv, GatesTimed, ResetsOrdered, GateInTime, MoveTime
<1>9. EventsTimed'
  BY <1>1, <1>4, <1>5 DEF TInv, EventsTimed
<1>10. TimersTimed'
  <2> SUFFICES ASSUME NEW i \in TimerSlots
               PROVE  /\ events'[i].arg = "CLOSE_DELAY" =>
                           events'[i].left <= GATE_CLOSE_DELAY_SEC * SEC
                      /\ events'[i].arg \in {"CLOSE_TIMEOUT", "OPEN_TIMEOUT"} =>
                           gates'[events'[i].p] <= events'[i].left
    BY <1>6 DEF TimersTimed
  <2>1. i \in DOMAIN events /\ events[i].event = "TIMER"
    BY DEF TimerSlots
  <2>2. events[i].arg = "CLOSE_DELAY" => events'[i].left <= GATE_CLOSE_DELAY_SEC * SEC
    BY <1>1, <1>5, <2>1, Times DEF TInv, TimersTimed
  <2>3. ASSUME events[i].arg \in {"CLOSE_TIMEOUT", "OPEN_TIMEOUT"}
        PROVE  gates'[events[i].p] <= events'[i].left
    <3> DEFINE p == events[i].p
    <3>1. p \in P /\ events[i].arg \in Timer
      BY <1>0, <2>1, EventCases
    <3>2. Awaited(crossings[p], events[i].arg)
      BY <3>1, RunsAwaited DEF IInv, Runs
    <3>3. p \in DOMAIN gates
      BY <2>3, <3>1, <3>2 DEF Awaited, TInv, GatesTimed
    <3>4. gates[p] <= events[i].left
      BY <2>3 DEF TInv, TimersTimed
    <3> HIDE DEF p
    <3>5. gates'[p] <= events'[i].left
      BY <1>1, <1>3, <1>5, <2>1, <3>3, <3>4
    <3> QED
      BY <3>5 DEF p
  <2> QED
    BY <1>5, <2>1, <2>2, <2>3
<1>11. EnterWarned'
  <2> SUFFICES ASSUME NEW p \in P, NEW d \in Dir, NEW i \in DOMAIN events,
                      NEW j \in DOMAIN events,
                      TrainSlot(i, p, "TRAIN_ENTER", d), TrainSlot(j, p, "TRAIN_APPROACH", d)
               PROVE  events'[j].left + TRAIN_WARNING_SEC * SEC <= events'[i].left
    BY <1>4, <1>7 DEF EnterWarned
  <2>1. events[j].left + TRAIN_WARNING_SEC * SEC <= events[i].left
    BY DEF TInv, EnterWarned
  <2>2. TRAIN_WARNING_SEC * SEC \in Nat
    BY Times
  <2> DEFINE w == TRAIN_WARNING_SEC * SEC
  <2>3. events[j].left + w <= events[i].left /\ w \in Nat
    BY <2>1, <2>2
  <2> HIDE DEF w
  <2>4. events'[j].left + w <= events'[i].left
    BY <1>1, <1>5, <2>3
  <2> QED
    BY <2>4 DEF w
<1>12. EnterQueued'
  BY <1>2, <1>4, <1>7 DEF TInv, EnterQueued
<1>13. GateAhead(M)'
  <2> SUFFICES ASSUME NEW p \in P, NEW d \in Dir, NEW i \in DOMAIN events,
                      TrainSlot(i, p, "TRAIN_ENTER", d),
                      crossings[p].fault = "NONE", crossings[p].track[d] = "APPROACHING"
               PROVE  InTime(p, events[i].left, M)'
    BY <1>2, <1>4, <1>7 DEF GateAhead
  <2>1. InTime(p, events[i].left, M) /\ M \in Nat
    BY DEF TInv, GateAhead, Margin, Bounded
  <2>2. crossings[p].gate \in {"CLOSING", "OPENING"} =>
          gates[p] \in Int /\ gates'[p] = gates[p] - time_scale
    BY <1>3 DEF TInv, GatesTimed
  <2>3. \A j \in TimerSlots : /\ events[j].left \in Int
                              /\ events'[j].left = events[j].left - time_scale
                              /\ events'[j].p = events[j].p /\ events'[j].arg = events[j].arg
    BY <1>5 DEF TimerSlots
  <2>4. events[i].left \in Int /\ events'[i].left = events[i].left - time_scale
    BY <1>5
  <2>5. MoveTime' = MoveTime
    BY DEF MoveTime
  <2>6. ASSUME crossings[p].gate = "OPEN", NEW j \in TimerSlots,
               events'[j].p = p, events'[j].arg = "CLOSE_DELAY"
        PROVE  events'[j].left + MoveTime + M - 1 <= events'[i].left
    <3>1. events[j].left + MoveTime + M - 1 <= events[i].left
      BY <2>1, <2>3, <2>6 DEF InTime
    <3> QED
      BY <1>1, <2>1, <2>3, <2>4, <3>1
  <2>7. ASSUME crossings[p].gate \in {"CLOSING", "OPENING"}
        PROVE  /\ crossings[p].gate = "CLOSING" => gates'[p] <= events'[i].left
               /\ crossings[p].gate = "CLOSING" /\ crossings[p].reset_pending =>
                    gates'[p] + 2 * MoveTime + 2 * M - 2 <= events'[i].left
               /\ crossings[p].gate = "OPENING" =>
                    gates'[p] + MoveTime + M - 1 <= events'[i].left
    <3>1. /\ crossings[p].gate = "CLOSING" => gates[p] <= events[i].left
          /\ crossings[p].gate = "CLOSING" /\ crossings[p].reset_pending =>
               gates[p] + 2 * MoveTime + 2 * M - 2 <= events[i].left
          /\ crossings[p].gate = "OPENING" =>
               gates[p] + MoveTime + M - 1 <= events[i].left
      BY <2>1 DEF InTime
    <3> QED
      BY <1>1, <2>1, <2>2, <2>4, <2>7, <3>1
  <2>8. crossings[p].gate = "OPEN" => crossings[p].close_delay_pending
    BY <2>1 DEF InTime
  <2> QED
    BY <1>2, <1>6, <2>5, <2>6, <2>7, <2>8 DEF InTime
<1> QED
  BY <1>8, <1>9, <1>10, <1>11, <1>12, <1>13 DEF TInv

-----------------------------------------------------------------------------
(***************************************************************************)
(* The trips a train command queues: at each of the places T, a crossing   *)
(* and a track, the first "last" events of a passage.                      *)
(***************************************************************************)
Trip(q, start, m) == Passage(q[1], q[2], start[q])[m]

\* The n events of seq are the first ones of the passages T, each of which
\* begins at its start, and no such train is pending.
Trips(seq, n, T, start, last) ==
  /\ T \subseteq P \X Dir /\ start \in [T -> Nat] /\ last \in {2, 3}
  /\ \A q \in T : ~train_pending(q[1], q[2])
  /\ \A k \in 1 .. n : \E q \in T, m \in 1 .. last : seq[k] = Trip(q, start, m)
  /\ \A q \in T, m \in 1 .. last : \E k \in 1 .. n : seq[k] = Trip(q, start, m)
  /\ \A k, l \in 1 .. n : seq[k] = seq[l] => k = l

\* The place of crossing p on the route of dir.
Place(p, dir) == IF dir = "UP" THEN NUM_CROSSINGS + 1 - p ELSE p

\* Places and crossings of a route correspond.
LEMMA PlaceOnRoute ==
  ASSUME NEW p \in P, NEW dir \in Dir
  PROVE  Place(p, dir) \in P /\ Route(dir)[Place(p, dir)] = p
BY RailSimAssumption DEF Place, Route, P

\* In both directions.
LEMMA RoutePlace ==
  ASSUME NEW k \in P, NEW dir \in Dir
  PROVE  Route(dir)[k] \in P /\ Place(Route(dir)[k], dir) = k
BY RailSimAssumption DEF Place, Route, P

\* The warnings of a train on the line, by its crossings.
LineStart(T) == [q \in T |-> Travel(q[2])[Place(q[1], q[2])]]

\* A train on the line passes every crossing.
LEMMA LineTrips ==
  ASSUME NEW dir \in Dir, \A p \in P : ~train_pending(p, dir)
  PROVE  Trips(simulate_train_on_line(dir), 3 * NUM_CROSSINGS, P \X {dir},
               LineStart(P \X {dir}), 3)
<1> DEFINE T == P \X {dir}
           start == LineStart(T)
           seq == simulate_train_on_line(dir)
<1>1. NUM_CROSSINGS \in Nat \ {0} /\ P = 1 .. NUM_CROSSINGS
  BY RailSimAssumption DEF P
<1>2. \A k \in P : Travel(dir)[k] \in Nat
  BY TravelType
<1>3. \A p \in P : <<p, dir>> \in T /\ start[<<p, dir>>] = Travel(dir)[Place(p, dir)]
  BY DEF LineStart
<1>4. start \in [T -> Nat]
  BY <1>2, PlaceOnRoute DEF LineStart
<1>5. \A n \in 1 .. 3 * NUM_CROSSINGS :
        LET k == (n + 2) \div 3
        IN  /\ k \in P /\ n - 3 * (k - 1) \in 1 .. 3
            /\ seq[n] = Passage(Route(dir)[k], dir, Travel(dir)[k])[n - 3 * (k - 1)]
  BY LineEvents
<1> HIDE DEF seq, start
<1>6. ASSUME NEW k \in P, NEW m \in 1 .. 3
      PROVE  /\ <<Route(dir)[k], dir>> \in T
             /\ Trip(<<Route(dir)[k], dir>>, start, m) =
                  Passage(Route(dir)[k], dir, Travel(dir)[k])[m]
  BY <1>3, RoutePlace DEF Trip
<1>7. ASSUME NEW n \in 1 .. 3 * NUM_CROSSINGS
      PROVE  \E q \in T, m \in 1 .. 3 : seq[n] = Trip(q, start, m)
  <2> DEFINE k == (n + 2) \div 3
             m == n - 3 * (k - 1)
  <2>1. /\ k \in P /\ m \in 1 .. 3
        /\ seq[n] = Passage(Route(dir)[k], dir, Travel(dir)[k])[m]
    BY <1>5
  <2> HIDE DEF k, m
  <2> QED
    BY <1>6, <2>1
<1>8. ASSUME NEW q \in T, NEW m \in 1 .. 3
      PROVE  \E n \in 1 .. 3 * NUM_CROSSINGS : seq[n] = Trip(q, start, m)
  <2>1. PICK p \in P : q = <<p, dir>>
    OBVIOUS
  <2>2. PICK k \in P : k = Place(p, dir) /\ Route(dir)[k] = p
    BY PlaceOnRoute
  <2> DEFINE n == 3 * (k - 1) + m
  <2>3. n \in 1 .. 3 * NUM_CROSSINGS /\ (n + 2) \div 3 = k /\ n - 3 * (k - 1) = m
    BY <1>1
  <2>4. seq[n] = Passage(Route(dir)[k], dir, Travel(dir)[k])[m]
    BY <1>5, <2>3
  <2> HIDE DEF n
  <2> QED
    BY <1>6, <2>1, <2>2, <2>3, <2>4
<1>9. \A q \in T : ~train_pending(q[1], q[2])
  OBVIOUS
<1>10. T \subseteq P \X Dir
  OBVIOUS
<1>11. ASSUME NEW a \in 1 .. 3 * NUM_CROSSINGS, NEW b \in 1 .. 3 * NUM_CROSSINGS,
              seq[a] = seq[b]
       PROVE  a = b
  <2>0. ASSUME NEW x \in 1 .. 3 * NUM_CROSSINGS
        PROVE  \E k \in P, m \in 1 .. 3 :
                 /\ x = 3 * (k - 1) + m
                 /\ seq[x] = Passage(Route(dir)[k], dir, Travel(dir)[k])[m]
    <3> DEFINE k == (x + 2) \div 3
               m == x - 3 * (k - 1)
    <3>1. /\ k \in P /\ m \in 1 .. 3
          /\ seq[x] = Passage(Route(dir)[k], dir, Travel(dir)[k])[m]
      BY <1>5
    <3>2. x \in Int /\ k \in Int
      BY <1>1, <3>1
    <3>3. x = 3 * (k - 1) + m
      <4> HIDE DEF k
      <4> QED
        BY <3>2
    <3> HIDE DEF k, m
    <3> QED
      BY <3>1, <3>3
  <2>1. PICK k \in P, m \in 1 .. 3 :
          a = 3 * (k - 1) + m /\ seq[a] = Passage(Route(dir)[k], dir, Travel(dir)[k])[m]
    BY <2>0
  <2>2. PICK l \in P, n \in 1 .. 3 :
          b = 3 * (l - 1) + n /\ seq[b] = Passage(Route(dir)[l], dir, Travel(dir)[l])[n]
    BY <2>0
  <2>3. Route(dir)[k] = Route(dir)[l] /\ m = n
    BY <1>11, <2>1, <2>2 DEF Passage, TrainAt
  <2>4. k = l
    BY <2>3, RoutePlace
  <2> QED
    BY <2>1, <2>2, <2>3, <2>4
<1>12. Trips(seq, 3 * NUM_CROSSINGS, T, start, 3)
  BY <1>4, <1>7, <1>8, <1>9, <1>10, <1>11 DEF Trips
<1> QED
  BY <1>12 DEF seq, start

\* So do two trains, one for each direction.
LEMMA BothTrips ==
  ASSUME \A p \in P, d \in Dir : ~train_pending(p, d)
  PROVE  Trips(simulate_train_on_line("UP") \o simulate_train_on_line("DOWN"),
               6 * NUM_CROSSINGS, P \X Dir, LineStart(P \X Dir), 3)
<1> DEFINE up == simulate_train_on_line("UP")
           down == simulate_train_on_line("DOWN")
           m == 3 * NUM_CROSSINGS
           start == LineStart(P \X Dir)
<1>1. "UP" \in Dir /\ "DOWN" \in Dir /\ m \in Nat /\ 6 * NUM_CROSSINGS = m + m
      /\ \A d \in Dir : d = "UP" \/ d = "DOWN"
  BY RailSimAssumption DEF Dir
<1>2. Len(up) = m /\ Len(down) = m
  BY <1>1, LineEvents
<1>3. Trips(up, m, P \X {"UP"}, LineStart(P \X {"UP"}), 3)
  BY <1>1, LineTrips
<1>4. Trips(down, m, P \X {"DOWN"}, LineStart(P \X {"DOWN"}), 3)
  BY <1>1, LineTrips
<1>5. ASSUME NEW d \in Dir, NEW q \in P \X {d}, NEW k
      PROVE  q \in P \X Dir /\ Trip(q, LineStart(P \X {d}), k) = Trip(q, start, k)
  BY DEF Trip, LineStart
<1>6. start \in [P \X Dir -> Nat]
  <2>1. ASSUME NEW q \in P \X Dir PROVE Travel(q[2])[Place(q[1], q[2])] \in Nat
    BY PlaceOnRoute, TravelType
  <2> QED
    BY <2>1 DEF LineStart
<1> HIDE DEF up, down, m, start
<1> DEFINE both == up \o down
<1>7. /\ \A k \in 1 .. m : both[k] = up[k]
      /\ \A k \in 1 .. m : both[k + m] = down[k]
  BY <1>1, <1>2
<1> HIDE DEF both
<1>8. ASSUME NEW k \in 1 .. m + m
      PROVE  \E q \in P \X Dir, j \in 1 .. 3 : both[k] = Trip(q, start, j)
  <2>1. CASE k \in 1 .. m
    <3>1. PICK q \in P \X {"UP"}, j \in 1 .. 3 : up[k] = Trip(q, LineStart(P \X {"UP"}), j)
      BY <1>3, <2>1 DEF Trips
    <3> QED
      BY <1>1, <1>5, <1>7, <2>1, <3>1
  <2>2. CASE k - m \in 1 .. m
    <3>1. PICK q \in P \X {"DOWN"}, j \in 1 .. 3 :
            down[k - m] = Trip(q, LineStart(P \X {"DOWN"}), j)
      BY <1>4, <2>2 DEF Trips
    <3>2. both[k] = down[k - m]
      BY <1>1, <1>7, <2>2
    <3> QED
      BY <1>1, <1>5, <3>1, <3>2
  <2>3. k \in 1 .. m \/ k - m \in 1 .. m
    BY <1>1
  <2> QED
    BY <2>1, <2>2, <2>3
<1>9. ASSUME NEW q \in P \X Dir, NEW j \in 1 .. 3
      PROVE  \E k \in 1 .. m + m : both[k] = Trip(q, start, j)
  <2>1. CASE q \in P \X {"UP"}
    <3>1. PICK k \in 1 .. m : up[k] = Trip(q, LineStart(P \X {"UP"}), j)
      BY <1>3, <2>1 DEF Trips
    <3>2. k \in 1 .. m + m /\ both[k] = up[k]
      BY <1>1, <1>7
    <3> QED
      BY <1>1, <1>5, <2>1, <3>1, <3>2
  <2>2. CASE q \in P \X {"DOWN"}
    <3>1. PICK k \in 1 .. m : down[k] = Trip(q, LineStart(P \X {"DOWN"}), j)
      BY <1>4, <2>2 DEF Trips
    <3>2. k + m \in 1 .. m + m /\ both[k + m] = down[k]
      BY <1>1, <1>7
    <3> QED
      BY <1>1, <1>5, <2>2, <3>1, <3>2
  <2>3. q \in P \X {"UP"} \/ q \in P \X {"DOWN"}
    BY <1>1
  <2> QED
    BY <2>1, <2>2, <2>3
<1>10. \A q \in P \X Dir : ~train_pending(q[1], q[2])
  OBVIOUS
<1>11. /\ \A k \in 1 .. m : up[k].arg = "UP" /\ down[k].arg = "DOWN"
       /\ \A k, l \in 1 .. m : up[k] = up[l] \/ down[k] = down[l] => k = l
  <2>1. ASSUME NEW d \in Dir, NEW q \in P \X {d}, NEW k \in 1 .. 3
        PROVE  Trip(q, LineStart(P \X {d}), k).arg = d
    BY DEF Trip, Passage, TrainAt
  <2>2. ASSUME NEW k \in 1 .. m PROVE up[k].arg = "UP"
    <3>1. PICK q \in P \X {"UP"}, j \in 1 .. 3 : up[k] = Trip(q, LineStart(P \X {"UP"}), j)
      BY <1>3 DEF Trips
    <3> QED
      BY <1>1, <2>1, <3>1
  <2>3. ASSUME NEW k \in 1 .. m PROVE down[k].arg = "DOWN"
    <3>1. PICK q \in P \X {"DOWN"}, j \in 1 .. 3 :
            down[k] = Trip(q, LineStart(P \X {"DOWN"}), j)
      BY <1>4 DEF Trips
    <3> QED
      BY <1>1, <2>1, <3>1
  <2>4. \A k, l \in 1 .. m : up[k] = up[l] \/ down[k] = down[l] => k = l
    BY <1>3, <1>4 DEF Trips
  <2> QED
    BY <2>2, <2>3, <2>4
<1>12. ASSUME NEW k \in 1 .. m + m, NEW l \in 1 .. m + m, both[k] = both[l]
       PROVE  k = l
  <2>1. ASSUME NEW n \in 1 .. m + m
        PROVE  \/ n \in 1 .. m /\ both[n] = up[n]
               \/ n - m \in 1 .. m /\ both[n] = down[n - m]
    BY <1>1, <1>7
  <2>2. CASE k \in 1 .. m /\ l \in 1 .. m
    BY <1>7, <1>11, <1>12, <2>2
  <2>3. CASE k - m \in 1 .. m /\ l - m \in 1 .. m
    <3>1. both[k] = down[k - m] /\ both[l] = down[l - m]
      BY <1>1, <2>1, <2>3
    <3>2. k - m = l - m
      BY <1>11, <1>12, <2>3, <3>1
    <3> QED
      BY <1>1, <3>2
  <2> QED
    BY <1>11, <1>12, <2>1, <2>2, <2>3
<1>13. Trips(both, m + m, P \X Dir, start, 3)
  BY <1>6, <1>8, <1>9, <1>10, <1>12 DEF Trips
<1> QED
  BY <1>1, <1>13 DEF both, up, down, start

\* A train at a crossing passes it, or stops in it.
LEMMA AtCrossingTrips ==
  ASSUME NEW p \in P, NEW dir \in Dir, NEW no_exit \in BOOLEAN, ~train_pending(p, dir)
  PROVE  LET n == IF no_exit THEN 2 ELSE 3
         IN  Trips(simulate_train_at_crossing(p, dir, no_exit), n, {<<p, dir>>},
                   [q \in {<<p, dir>>} |-> 0], n)
<1> DEFINE n == IF no_exit THEN 2 ELSE 3
           seq == simulate_train_at_crossing(p, dir, no_exit)
           q == <<p, dir>>
           start == [x \in {q} |-> 0]
<1>1. \A k \in 1 .. n : seq[k] = Passage(p, dir, 0)[k]
  BY AtCrossingType
<1>2. n \in {2, 3}
  OBVIOUS
<1>3. \A k : Trip(q, start, k) = Passage(p, dir, 0)[k]
  BY DEF Trip
<1>4. {q} \subseteq P \X Dir /\ start \in [{q} -> Nat]
  OBVIOUS
<1> HIDE DEF seq, start, n
<1>5. /\ \A k \in 1 .. n : seq[k] = Trip(q, start, k)
      /\ \A x \in {q} : ~train_pending(x[1], x[2])
  BY <1>1, <1>3
<1>6. ASSUME NEW k \in 1 .. n, NEW l \in 1 .. n, seq[k] = seq[l]
      PROVE  k = l
  <2>1. k \in 1 .. 3 /\ l \in 1 .. 3
    BY <1>2
  <2> QED
    BY <1>1, <1>6, <2>1 DEF Passage, TrainAt
<1>7. Trips(seq, n, {q}, start, n)
  BY <1>2, <1>4, <1>5, <1>6 DEF Trips
<1> QED
  BY <1>7 DEF seq, start, n

\* A command that queues trains.
TrainCommand ==
  \/ TrainBoth
  \/ \E dir \in Dir : TrainOnLine(dir)
  \/ \E p \in P, dir \in Dir : TrainAtCrossing(p, dir) \/ NoExit(p, dir)

\* It adds its trips to the queue and does nothing else.
Added(T, start, last) ==
  /\ T \subseteq P \X Dir /\ start \in [T -> Nat] /\ last \in {2, 3}
  /\ \A q \in T : ~train_pending(q[1], q[2])
  /\ \A i \in DOMAIN events : i \in DOMAIN events' /\ events'[i] = events[i]
  /\ \A i \in DOMAIN events' \ DOMAIN events :
       \E q \in T, m \in 1 .. last : events'[i] = Trip(q, start, m)
  /\ \A q \in T, m \in 1 .. last :
       \E i \in DOMAIN events' \ DOMAIN events : events'[i] = Trip(q, start, m)
  /\ \A i, j \in DOMAIN events' \ DOMAIN events : events'[i] = events'[j] => i = j

\* A batch puts the events of its passages into free slots.
LEMMA QueueAdded ==
  ASSUME IInv, NEW seq, NEW n, NEW T, NEW start, NEW last, Batch(seq, n),
         Trips(seq, n, T, start, last)
  PROVE  Added(T, start, last)
<1> DEFINE new == DOMAIN events' \ DOMAIN events
<1>1. DOMAIN events \subseteq Slots /\ n \in Nat /\ Len(seq) = n
  BY DEF IInv, TypeOK, Batch
<1>2. n <= Cardinality(Slots \ DOMAIN events)
  <2>1. /\ Cardinality(Slots \ DOMAIN events) \in Int
        /\ Cardinality(Slots \ DOMAIN events) >= n + TIMER_EVENT_RESERVE
    BY SlotCount, RailSimAssumption DEF IInv, Batch
  <2> QED
    BY <1>1, <2>1, Reserve
<1>3. Appended(events, events', seq)
  BY <1>1, <1>2, QueueEvents DEF Batch, Queue
<1>4. /\ \A i \in DOMAIN events : i \in DOMAIN events' /\ events'[i] = events[i]
      /\ \E rank \in Bijection(new, 1 .. n) : \A i \in new : events'[i] = seq[rank[i]]
  <2>1. /\ DOMAIN events \subseteq DOMAIN events'
        /\ \A i \in DOMAIN events : events'[i] = events[i]
        /\ \E rank \in Bijection(new, 1 .. Len(seq)) : \A i \in new : events'[i] = seq[rank[i]]
    BY <1>3, Zenon DEF Appended
  <2> QED
    BY <1>1, <2>1
<1> HIDE DEF new
<1>5. PICK rank \in Bijection(new, 1 .. n) : \A i \in new : events'[i] = seq[rank[i]]
  BY <1>4
<1>6. ASSUME NEW i \in new
      PROVE  \E q \in T, m \in 1 .. last : events'[i] = Trip(q, start, m)
  <2>1. rank[i] \in 1 .. n /\ events'[i] = seq[rank[i]]
    BY <1>5 DEF Bijection, Injection
  <2>2. \A k \in 1 .. n : \E q \in T, m \in 1 .. last : seq[k] = Trip(q, start, m)
    BY Zenon DEF Trips
  <2>3. PICK q \in T, m \in 1 .. last : seq[rank[i]] = Trip(q, start, m)
    BY <2>1, <2>2, Zenon
  <2> QED
    BY <2>1, <2>3
<1>7. \A q \in T, m \in 1 .. last : \E i \in new : events'[i] = Trip(q, start, m)
  <2> SUFFICES ASSUME NEW q \in T, NEW m \in 1 .. last
               PROVE  \E i \in new : events'[i] = Trip(q, start, m)
    OBVIOUS
  <2>1. PICK k \in 1 .. n : seq[k] = Trip(q, start, m)
    BY DEF Trips
  <2>2. PICK i \in new : rank[i] = k
    BY <1>5 DEF Bijection, Surjection
  <2> QED
    BY <1>5, <2>1, <2>2
<1>8. ASSUME NEW i \in new, NEW j \in new, events'[i] = events'[j]
      PROVE  i = j
  <2>1. rank[i] \in 1 .. n /\ rank[j] \in 1 .. n /\ (rank[i] = rank[j] => i = j)
    BY <1>5 DEF Bijection, Injection, IsInjective
  <2>2. seq[rank[i]] = seq[rank[j]]
    BY <1>5, <1>8
  <2> QED
    BY <2>1, <2>2 DEF Trips
<1> QED
  BY <1>4, <1>6, <1>7, <1>8 DEF Added, Trips, new

\* What a train command does.
LEMMA TrainAdded ==
  ASSUME IInv, TrainCommand
  PROVE  /\ ~ticking
         /\ UNCHANGED <<crossings, timer_gen, gates, time_scale, ticking, preempted, occupied>>
         /\ \/ /\ {"train-both", "train-up", "train-down"} \cap Commands # {}
               /\ \E D \in SUBSET Dir : Added(P \X D, LineStart(P \X D), 3)
            \/ /\ {"train", "noexit"} \cap Commands # {}
               /\ \E T, start, last : Added(T, start, last)
<1> DEFINE Line == /\ {"train-both", "train-up", "train-down"} \cap Commands # {}
                   /\ \E D \in SUBSET Dir : Added(P \X D, LineStart(P \X D), 3)
           One == /\ {"train", "noexit"} \cap Commands # {}
                  /\ \E T, start, last : Added(T, start, last)
           Rest == /\ ~ticking
                   /\ UNCHANGED <<crossings, timer_gen, gates, time_scale, ticking,
                                  preempted, occupied>>
<1>1. ASSUME TrainBoth PROVE Line /\ Rest
  <2>1. Batch(simulate_train_on_line("UP") \o simulate_train_on_line("DOWN"),
              6 * NUM_CROSSINGS)
    BY <1>1, TrainBatch
  <2>2. \A p \in P, d \in Dir : ~train_pending(p, d)
    BY <1>1 DEF TrainBoth, can_start_train
  <2>3. Added(P \X Dir, LineStart(P \X Dir), 3)
    BY <2>1, <2>2, BothTrips, QueueAdded
  <2>4. "train-both" \in Commands /\ Rest
    BY <1>1, <2>1 DEF TrainBoth, Idle, Batch, Queue
  <2>5. Dir \in SUBSET Dir
    OBVIOUS
  <2> QED
    BY <2>3, <2>4, <2>5
<1>2. ASSUME NEW dir \in Dir, TrainOnLine(dir) PROVE Line /\ Rest
  <2>1. Batch(simulate_train_on_line(dir), 3 * NUM_CROSSINGS)
    BY <1>2, TrainBatch
  <2>2. \A p \in P : ~train_pending(p, dir)
    BY <1>2 DEF TrainOnLine, can_start_train
  <2>3. Added(P \X {dir}, LineStart(P \X {dir}), 3)
    BY <2>1, <2>2, LineTrips, QueueAdded
  <2>4. ({"train-up", "train-down"} \cap Commands # {}) /\ Rest
    BY <1>2, <2>1 DEF TrainOnLine, Idle, Batch, Queue
  <2> QED
    BY <2>3, <2>4
<1>3. ASSUME NEW p \in P, NEW dir \in Dir, TrainAtCrossing(p, dir) PROVE One /\ Rest
  <2>1. Batch(simulate_train_at_crossing(p, dir, FALSE), 3)
    BY <1>3, TrainBatch
  <2>2. ~train_pending(p, dir)
    BY <1>3 DEF TrainAtCrossing, can_start_train
  <2>3. Trips(simulate_train_at_crossing(p, dir, FALSE), 3, {<<p, dir>>},
              [q \in {<<p, dir>>} |-> 0], 3)
    BY <2>2, AtCrossingTrips
  <2>4. Added({<<p, dir>>}, [q \in {<<p, dir>>} |-> 0], 3)
    BY <2>1, <2>3, QueueAdded
  <2>5. "train" \in Commands /\ Rest
    BY <1>3, <2>1 DEF TrainAtCrossing, Idle, Batch, Queue
  <2> QED
    BY <2>4, <2>5
<1>4. ASSUME NEW p \in P, NEW dir \in Dir, NoExit(p, dir) PROVE One /\ Rest
  <2>1. Batch(simulate_train_at_crossing(p, dir, TRUE), 2)
    BY <1>4, TrainBatch
  <2>2. ~train_pending(p, dir)
    BY <1>4 DEF NoExit, can_start_train
  <2>3. Trips(simulate_train_at_crossing(p, dir, TRUE), 2, {<<p, dir>>},
              [q \in {<<p, dir>>} |-> 0], 2)
    BY <2>2, AtCrossingTrips
  <2>4. Added({<<p, dir>>}, [q \in {<<p, dir>>} |-> 0], 2)
    BY <2>1, <2>3, QueueAdded
  <2>5. "noexit" \in Commands /\ Rest
    BY <1>4, <2>1 DEF NoExit, Idle, Batch, Queue
  <2> QED
    BY <2>4, <2>5
<1>5. (Line \/ One) /\ Rest
  <2> HIDE DEF Line, One, Rest
  <2> QED
    BY <1>1, <1>2, <1>3, <1>4 DEF TrainCommand
<1> QED
  BY <1>5

\* The events of a trip.
LEMMA TripEvents ==
  ASSUME NEW q \in P \X Dir, NEW start, start[q] \in Nat
  PROVE  /\ Trip(q, start, 1) = [left |-> start[q] * SEC, p |-> q[1],
                                 event |-> "TRAIN_APPROACH", arg |-> q[2], gen |-> 0]
         /\ Trip(q, start, 2) = [left |-> start[q] * SEC + TRAIN_WARNING_SEC * SEC,
                                 p |-> q[1], event |-> "TRAIN_ENTER", arg |-> q[2], gen |-> 0]
         /\ Trip(q, start, 3) = [left |-> start[q] * SEC + TRAIN_WARNING_SEC * SEC
                                            + TRAIN_LENGTH_SEC * SEC,
                                 p |-> q[1], event |-> "TRAIN_EXIT", arg |-> q[2], gen |-> 0]
<1>1. \A a, b, c \in Nat : /\ (a + b) * SEC = a * SEC + b * SEC
                           /\ (a + b + c) * SEC = a * SEC + b * SEC + c * SEC
  BY RailSimAssumption
<1>2. TRAIN_WARNING_SEC \in Nat /\ TRAIN_LENGTH_SEC \in Nat
  BY RailSimAssumption
<1>3. (start[q] + TRAIN_WARNING_SEC) * SEC = start[q] * SEC + TRAIN_WARNING_SEC * SEC
  BY <1>1, <1>2
<1>4. (start[q] + TRAIN_WARNING_SEC + TRAIN_LENGTH_SEC) * SEC
        = start[q] * SEC + TRAIN_WARNING_SEC * SEC + TRAIN_LENGTH_SEC * SEC
  BY <1>1, <1>2
<1> QED
  BY <1>3, <1>4 DEF Trip, Passage, TrainAt

\* A new event is the APPROACH, the ENTER or the EXIT of a place that had no
\* train pending.
LEMMA AddedEvents ==
  ASSUME NEW T, NEW start, NEW last, Added(T, start, last),
         NEW i \in DOMAIN events' \ DOMAIN events
  PROVE  \E q \in T :
           /\ q \in P \X Dir /\ start[q] \in Nat /\ ~train_pending(q[1], q[2])
           /\ events'[i].p = q[1] /\ events'[i].arg = q[2]
           /\ events'[i].event \in TrainEvent
           /\ events'[i].event = "TRAIN_APPROACH" => events'[i].left = start[q] * SEC
           /\ events'[i].event = "TRAIN_ENTER" =>
                events'[i].left = start[q] * SEC + TRAIN_WARNING_SEC * SEC
           /\ events'[i].event = "TRAIN_EXIT" => /\ last = 3
                /\ events'[i].left = start[q] * SEC + TRAIN_WARNING_SEC * SEC
                                       + TRAIN_LENGTH_SEC * SEC
<1>1. PICK q \in T, m \in 1 .. last : events'[i] = Trip(q, start, m)
  BY DEF Added
<1>2. q \in P \X Dir /\ start[q] \in Nat /\ ~train_pending(q[1], q[2])
  BY DEF Added
<1>3. m = 1 \/ m = 2 \/ (m = 3 /\ last = 3)
  <2>1. last = 2 \/ last = 3
    BY DEF Added
  <2> QED
    BY <2>1
<1>4. CASE m = 1
  BY <1>1, <1>2, <1>4, TripEvents DEF TrainEvent
<1>5. CASE m = 2
  BY <1>1, <1>2, <1>5, TripEvents DEF TrainEvent
<1>6. CASE m = 3 /\ last = 3
  BY <1>1, <1>2, <1>6, TripEvents DEF TrainEvent
<1> QED
  BY <1>3, <1>4, <1>5, <1>6

\* New events are due later.
LEMMA AddedOnTime ==
  ASSUME IInv, EventsTimed, ~ticking, UNCHANGED <<time_scale, ticking>>,
         NEW T, NEW start, NEW last, Added(T, start, last)
  PROVE  EventsTimed'
<1>0. Elapsed = 0 /\ Elapsed' = 0
  BY DEF Elapsed
<1>1. \A i \in DOMAIN events : i \in DOMAIN events' /\ events'[i] = events[i]
  BY DEF Added
<1>2. /\ TRAIN_WARNING_SEC * SEC \in Nat \ {0} /\ TRAIN_LENGTH_SEC * SEC \in Nat
      /\ \A s \in Nat : s * SEC \in Nat
  <2>1. SEC \in Nat \ {0} /\ TRAIN_WARNING_SEC \in Nat \ {0} /\ TRAIN_LENGTH_SEC \in Nat
    BY RailSimAssumption
  <2> QED
    BY ONLY <2>1
<1> SUFFICES ASSUME NEW i \in DOMAIN events'
             PROVE  /\ 0 <= events'[i].left
                    /\ events'[i].event # "TRAIN_APPROACH" => 1 <= events'[i].left
  BY <1>0 DEF EventsTimed
<1>3. CASE i \in DOMAIN events
  BY <1>0, <1>1, <1>3 DEF EventsTimed
<1>4. CASE i \notin DOMAIN events
  <2>1. PICK s \in Nat :
          /\ events'[i].event \in TrainEvent
          /\ events'[i].event = "TRAIN_APPROACH" => events'[i].left = s * SEC
          /\ events'[i].event = "TRAIN_ENTER" =>
               events'[i].left = s * SEC + TRAIN_WARNING_SEC * SEC
          /\ events'[i].event = "TRAIN_EXIT" =>
               events'[i].left = s * SEC + TRAIN_WARNING_SEC * SEC
                                   + TRAIN_LENGTH_SEC * SEC
    BY <1>4, AddedEvents
  <2>2. s * SEC \in Nat
    BY <1>2
  <2> DEFINE x == s * SEC
             w == TRAIN_WARNING_SEC * SEC
             l == TRAIN_LENGTH_SEC * SEC
  <2>3. x \in Nat /\ w \in Nat \ {0} /\ l \in Nat
    BY <1>2, <2>2
  <2> HIDE DEF x, w, l
  <2>4. /\ events'[i].event = "TRAIN_APPROACH" => events'[i].left = x
        /\ events'[i].event = "TRAIN_ENTER" => events'[i].left = x + w
        /\ events'[i].event = "TRAIN_EXIT" => events'[i].left = x + w + l
    BY <2>1 DEF x, w, l
  <2> QED
    BY <2>1, <2>3, <2>4 DEF TrainEvent
<1> QED
  BY <1>3, <1>4

\* New trains come with their warning ahead of them.
LEMMA AddedInTime ==
  ASSUME IInv, IInv', NEW M, Margin(M), TInv(M), ~ticking,
         UNCHANGED <<crossings, timer_gen, gates, time_scale, ticking, preempted, occupied>>,
         NEW T, NEW start, NEW last, Added(T, start, last)
  PROVE  TInv(M)'
<1>0. TypeOK /\ Elapsed = 0 /\ Elapsed' = 0 /\ SEC \in Nat
  BY RailSimAssumption DEF IInv, Elapsed
<1>1. \A i \in DOMAIN events : i \in DOMAIN events' /\ events'[i] = events[i]
  BY DEF Added
<1>2. /\ TRAIN_WARNING_SEC * SEC \in Nat \ {0} /\ TRAIN_LENGTH_SEC * SEC \in Nat
      /\ \A s \in Nat : s * SEC \in Nat
  <2>1. SEC \in Nat \ {0} /\ TRAIN_WARNING_SEC \in Nat \ {0} /\ TRAIN_LENGTH_SEC \in Nat
    BY RailSimAssumption
  <2> QED
    BY ONLY <2>1
<1>3. \A i \in TimerSlots' : i \in TimerSlots /\ events'[i] = events[i]
  <2>1. \A i \in DOMAIN events' \ DOMAIN events : events'[i].event # "TIMER"
    BY AddedEvents DEF TrainEvent
  <2> QED
    BY <1>1, <2>1 DEF TimerSlots
<1>4. GatesTimed' /\ ResetsOrdered' /\ GateInTime'
  BY <1>0 DEF TInv, GatesTimed, ResetsOrdered, GateInTime, MoveTime
<1>5. EventsTimed'
  BY AddedOnTime DEF TInv
<1>6. TimersTimed'
  BY <1>3 DEF TInv, TimersTimed
<1>7. ASSUME NEW p \in P, NEW d \in Dir, NEW e \in TrainEvent, NEW i,
             TrainSlot(i, p, e, d)', ~TrainSlot(i, p, e, d)
      PROVE  <<p, d>> \in T /\ ~train_pending(p, d) /\ i \in DOMAIN events' \ DOMAIN events
  <2>1. i \in DOMAIN events' \ DOMAIN events
    BY <1>1, <1>7 DEF TrainSlot
  <2>2. PICK q \in T : /\ q \in P \X Dir /\ ~train_pending(q[1], q[2])
                       /\ events'[i].p = q[1] /\ events'[i].arg = q[2]
    BY <2>1, AddedEvents
  <2> QED
    BY <1>7, <2>1, <2>2 DEF TrainSlot
<1>8. \A p \in P, d \in Dir, e \in TrainEvent : \A i : TrainSlot(i, p, e, d) =>
        train_pending(p, d) /\ TrainSlot(i, p, e, d)'
  BY <1>1 DEF TrainSlot, train_pending
<1>9. EnterWarned'
  <2> SUFFICES ASSUME NEW p \in P, NEW d \in Dir, NEW i \in DOMAIN events',
                      NEW j \in DOMAIN events',
                      TrainSlot(i, p, "TRAIN_ENTER", d)', TrainSlot(j, p, "TRAIN_APPROACH", d)'
               PROVE  events'[j].left + TRAIN_WARNING_SEC * SEC <= events'[i].left
    BY DEF EnterWarned
  <2>0. "TRAIN_ENTER" \in TrainEvent /\ "TRAIN_APPROACH" \in TrainEvent
    BY DEF TrainEvent
  <2>1. CASE TrainSlot(i, p, "TRAIN_ENTER", d) /\ TrainSlot(j, p, "TRAIN_APPROACH", d)
    BY <1>1, <2>1 DEF TInv, EnterWarned, TrainSlot
  <2>2. CASE ~(TrainSlot(i, p, "TRAIN_ENTER", d) /\ TrainSlot(j, p, "TRAIN_APPROACH", d))
    <3>1. ~train_pending(p, d)
      BY <1>7, <2>0, <2>2
    <3>2. i \in DOMAIN events' \ DOMAIN events /\ j \in DOMAIN events' \ DOMAIN events
      BY <1>7, <1>8, <2>0, <3>1
    <3>3. /\ events'[i].p = p /\ events'[i].arg = d /\ events'[i].event = "TRAIN_ENTER"
          /\ events'[j].p = p /\ events'[j].arg = d /\ events'[j].event = "TRAIN_APPROACH"
      BY DEF TrainSlot
    <3>4. \A q \in P \X Dir : q[1] = p /\ q[2] = d => q = <<p, d>>
      OBVIOUS
    <3>5. events'[i].left = start[<<p, d>>] * SEC + TRAIN_WARNING_SEC * SEC
      BY <3>2, <3>3, <3>4, AddedEvents
    <3>6. events'[j].left = start[<<p, d>>] * SEC /\ start[<<p, d>>] \in Nat
      BY <3>2, <3>3, <3>4, AddedEvents
    <3> DEFINE x == start[<<p, d>>] * SEC
               w == TRAIN_WARNING_SEC * SEC
    <3>7. x \in Nat /\ w \in Nat
      BY <1>2, <3>6
    <3> HIDE DEF x, w
    <3>8. events'[j].left + w <= events'[i].left
      BY <3>5, <3>6, <3>7 DEF x, w
    <3> QED
      BY <3>8 DEF w
  <2> QED
    BY <2>1, <2>2
<1>10. EnterQueued'
  <2> SUFFICES ASSUME NEW p \in P, NEW d \in Dir,
                      \/ /\ crossings[p].fault = "NONE"
                         /\ crossings[p].track[d] = "APPROACHING"
                      \/ \E j \in DOMAIN events' : TrainSlot(j, p, "TRAIN_APPROACH", d)'
               PROVE  \E i \in DOMAIN events' : TrainSlot(i, p, "TRAIN_ENTER", d)'
    BY DEF EnterQueued
  <2>0. "TRAIN_ENTER" \in TrainEvent /\ "TRAIN_APPROACH" \in TrainEvent
    BY DEF TrainEvent
  <2>1. CASE \E i \in DOMAIN events : TrainSlot(i, p, "TRAIN_ENTER", d)
    BY <1>1, <1>8, <2>0, <2>1
  <2>2. CASE ~\E i \in DOMAIN events : TrainSlot(i, p, "TRAIN_ENTER", d)
    <3>1. PICK j \in DOMAIN events' :
            TrainSlot(j, p, "TRAIN_APPROACH", d)' /\ ~TrainSlot(j, p, "TRAIN_APPROACH", d)
      BY <2>2 DEF TInv, EnterQueued, TrainSlot
    <3>2. <<p, d>> \in T
      BY <1>7, <2>0, <3>1
    <3>3. PICK i \in DOMAIN events' : events'[i] = Trip(<<p, d>>, start, 2)
      BY <3>2 DEF Added
    <3>4. start[<<p, d>>] \in Nat
      BY <3>2 DEF Added
    <3> QED
      BY <3>3, <3>4, TripEvents DEF TrainSlot
  <2> QED
    BY <2>1, <2>2
<1>11. GateAhead(M)'
  <2> SUFFICES ASSUME NEW p \in P, NEW d \in Dir, NEW i \in DOMAIN events',
                      TrainSlot(i, p, "TRAIN_ENTER", d)',
                      crossings[p].fault = "NONE", crossings[p].track[d] = "APPROACHING"
               PROVE  InTime(p, events[i].left, M)'
    BY DEF GateAhead
  <2>1. train_pending(p, d)
    BY <1>8 DEF TInv, EnterQueued, TrainEvent
  <2>2. TrainSlot(i, p, "TRAIN_ENTER", d)
    BY <1>7, <2>1 DEF TrainEvent
  <2>3. InTime(p, events[i].left, M) /\ events'[i] = events[i]
    BY <1>1, <2>2 DEF TInv, GateAhead, TrainSlot
  <2> QED
    BY <1>3, <2>3 DEF InTime, MoveTime
<1> QED
  BY <1>4, <1>5, <1>6, <1>9, <1>10, <1>11 DEF TInv

\* Initially nothing is timed.
LEMMA InitInTime ==
  ASSUME Init, NEW M, Margin(M)
  PROVE  TInv(M)
<1>1. events = << >> /\ gates = << >> /\ crossings = [p \in P |-> crossing_init]
  BY DEF Init
<1>2. DOMAIN events = {} /\ DOMAIN gates = {}
  BY <1>1
<1>3. \A p \in P : /\ crossings[p].gate = "OPEN" /\ ~crossings[p].reset_pending
                   /\ crossings[p].fault = "NONE"
                   /\ \A d \in Dir : crossings[p].track[d] = "NONE"
  BY <1>1 DEF crossing_init
<1> QED
  BY <1>2, <1>3 DEF TInv, GatesTimed, EventsTimed, TimersTimed, TimerSlots, EnterWarned,
     EnterQueued, GateAhead, ResetsOrdered, GateInTime

\* Every step.
LEMMA NextInTime ==
  ASSUME IInv, IInv', NEW M, Margin(M), TInv(M), [Next]_vars
  PROVE  TInv(M)'
<1>1. CASE Tick
  BY <1>1, TickInTime
<1>2. CASE GateMoved
  BY <1>2, GateMovedInTime
<1>3. CASE Deliver
  BY <1>3, DeliverInTime
<1>4. CASE TickDone \/ (\E n \in Scales : SetTimeScale(n)) \/ UNCHANGED vars
  <2>1. UNCHANGED <<crossings, timer_gen, preempted, events, gates, occupied>>
    BY <1>4 DEF TickDone, SetTimeScale, vars
  <2>2. UNCHANGED Elapsed \/ /\ Elapsed' = 0 /\ Elapsed \in Nat
                             /\ DueGates = {} /\ DueEvents = {}
    BY <1>4, ElapsedBound DEF TickDone, SetTimeScale, vars, Elapsed, Idle, IInv
  <2>3. /\ \A p \in DOMAIN gates : gates[p] \in Int
        /\ \A i \in DOMAIN events : events[i].left \in Int
    BY EventCases DEF IInv, TypeOK
  <2>4. GatesTimed' /\ EventsTimed'
    BY <2>1, <2>2, <2>3, Times
    DEF TInv, GatesTimed, EventsTimed, DueGates, DueEvents, MoveTime
  <2>5. TimersTimed' /\ EnterWarned' /\ EnterQueued' /\ GateAhead(M)' /\ ResetsOrdered'
        /\ GateInTime'
    BY <2>1 DEF TInv, TimersTimed, TimerSlots, EnterWarned, EnterQueued, TrainSlot,
                GateAhead, InTime, MoveTime, ResetsOrdered, GateInTime
  <2> QED
    BY <2>4, <2>5 DEF TInv
<1>5. CASE TrainCommand
  BY <1>5, TrainAdded, AddedInTime
<1>6. CASE \E p \in P : InjectFault(p) \/ ResetFault(p)
  BY <1>6, OperateInTime
<1> QED
  BY <1>1, <1>2, <1>3, <1>4, <1>5, <1>6 DEF Next, Command, TrainCommand

\* With such a margin no train is early and no gate movement times out, for
\* every line, timing and use of the console: the close delay, the movement
\* and the lateness of the ticks fit into the warning.
THEOREM GateAlwaysInTime ==
  ASSUME NEW CONSTANT M, Margin(M)
  PROVE  Spec => []GateInTime
<1>1. Init => TInv(M)
  BY InitInTime
<1>2. IInv /\ IInv' /\ TInv(M) /\ [Next]_vars => TInv(M)'
  BY NextInTime
<1>3. TInv(M) => GateInTime
  BY DEF TInv
<1> QED
  BY <1>1, <1>2, <1>3, Invariance, PTL DEF Spec

-----------------------------------------------------------------------------
(***************************************************************************)
(* Trains on the line.  While only trains of the whole line run and nobody *)
(* resets a crossing, one train at a time runs in each direction, and all  *)
(* its queued events agree on the time since it was started.               *)
(***************************************************************************)
\* The time from the start of a train to its event at a crossing.
Offset(event) ==
  CASE event = "TRAIN_APPROACH" -> 0
    [] event = "TRAIN_ENTER" -> TRAIN_WARNING_SEC * SEC
    [] event = "TRAIN_EXIT" -> TRAIN_WARNING_SEC * SEC + TRAIN_LENGTH_SEC * SEC

\* The same from the start of a train of the line.
Due(p, d, event) == Travel(d)[Place(p, d)] * SEC + Offset(event)

\* The end of the line.
LineTime(d) == Travel(d)[NUM_CROSSINGS] * SEC + Offset("TRAIN_EXIT")

\* The last crossing of a train.
LastOf(d) == Route(d)[NUM_CROSSINGS]

\* A tick is shorter than a warning and a passage; a train needs longer for
\* the line than another one, of the other direction, for a crossing.
Spacing(M) ==
  /\ Bounded(M)
  /\ M < TRAIN_WARNING_SEC * SEC /\ M <= TRAIN_LENGTH_SEC * SEC
  /\ \A d \in Dir :
       Travel(d)[NUM_CROSSINGS] * SEC >= Offset("TRAIN_EXIT") + 2 * M - 1
  /\ Commands \cap {"train", "noexit", "reset"} = {}

\* The event is queued.
Pending(p, d, event) == \E i \in DOMAIN events : TrainSlot(i, p, event, d)

\* Each event of the train that started at -start[d] is queued at most once, at
\* its time; the last of them is the one that lets another train start.
Scheduled(start) ==
  /\ \A p \in P, d \in Dir, e \in TrainEvent : \A i \in DOMAIN events :
       TrainSlot(i, p, e, d) =>
         /\ events[i].left = start[d] + Due(p, d, e)
         /\ \A j \in DOMAIN events : TrainSlot(j, p, e, d) => j = i
  /\ \A d \in Dir : start[d] + LineTime(d) > 0 => Pending(LastOf(d), d, "TRAIN_EXIT")

\* The track shows which events of its train are still to come.
Follows(p, d, start) ==
  /\ Pending(p, d, "TRAIN_APPROACH") => Pending(p, d, "TRAIN_ENTER")
  /\ Pending(p, d, "TRAIN_ENTER") => Pending(p, d, "TRAIN_EXIT")
  /\ Pending(p, d, "TRAIN_EXIT") /\ ~Pending(p, d, "TRAIN_APPROACH") =>
       start[d] + Due(p, d, "TRAIN_APPROACH") <= 0
  /\ <<p, d>> \in occupied => Pending(p, d, "TRAIN_EXIT") /\ ~Pending(p, d, "TRAIN_ENTER")
  /\ crossings[p].fault = "NONE" =>
       /\ crossings[p].track[d] = "APPROACHING" <=>
            Pending(p, d, "TRAIN_ENTER") /\ ~Pending(p, d, "TRAIN_APPROACH")
       /\ crossings[p].track[d] = "ON_CROSSING" <=>
            Pending(p, d, "TRAIN_EXIT") /\ ~Pending(p, d, "TRAIN_ENTER")

\* The next warning on a cleared track d comes after the train on the other
\* track o has left: from the train that runs, or from the one after it.
Apart(p, d, o, start, M) ==
  LET exit == start[o] + Due(p, o, "TRAIN_EXIT") + M
      warning == Due(p, d, "TRAIN_APPROACH")
  IN  /\ Pending(p, d, "TRAIN_APPROACH") => exit <= start[d] + warning
      /\ exit <= warning \/ exit <= start[d] + LineTime(d) + warning

\* Two trains are apart at every crossing.
Spaced(start, M) ==
  \A p \in P, d, o \in Dir :
    o # d /\ crossings[p].fault = "NONE" /\ crossings[p].track[d] = "CLEARED" =>
      Apart(p, d, o, start, M)

\* All that is known of the trains started at the times start.
OnLine(start, M) ==
  /\ start \in [Dir -> Int]
  /\ Scheduled(start)
  /\ \A p \in P, d \in Dir : Follows(p, d, start)
  /\ Spaced(start, M)

\* The inductive invariant of the line.
LInv(M) == \E start : OnLine(start, M)

-----------------------------------------------------------------------------
\* No event is ever overdue by a whole tick.
LEMMA NextOnTime ==
  ASSUME IInv, EventsTimed, [Next]_vars
  PROVE  EventsTimed'
<1>0. /\ Elapsed \in Nat /\ time_scale \in Nat
      /\ \A i \in DOMAIN events : events[i].left \in Int
  BY EventCases, RailSimAssumption DEF IInv, TypeOK, Elapsed
<1>1. CASE Tick
  <2>1. Elapsed = 0 /\ Elapsed' = time_scale /\ DOMAIN events' = DOMAIN events
    BY <1>1 DEF Tick, Elapsed
  <2>2. ASSUME NEW i \in DOMAIN events
        PROVE  /\ events'[i].left = events[i].left - time_scale
               /\ events'[i].event = events[i].event
    <3>1. events[i] \in Event /\ events'[i] = [events[i] EXCEPT !.left = @ - time_scale]
      BY <1>1 DEF IInv, TypeOK, Tick
    <3> QED
      BY <3>1 DEF Event
  <2> QED
    BY <1>0, <2>1, <2>2 DEF EventsTimed
<1>2. CASE GateMoved
  BY <1>2, GateResult, HandledOnTime DEF GateMoved
<1>3. CASE Deliver
  BY <1>3, DeliverResult, HandledOnTime DEF Deliver
<1>4. CASE TickDone \/ (\E n \in Scales : SetTimeScale(n)) \/ UNCHANGED vars
  <2>1. UNCHANGED events
    BY <1>4 DEF TickDone, SetTimeScale, vars
  <2>2. UNCHANGED Elapsed \/ (Elapsed' = 0 /\ DueEvents = {})
    BY <1>4 DEF TickDone, SetTimeScale, vars, Elapsed, Idle
  <2> QED
    BY <1>0, <2>1, <2>2 DEF EventsTimed, DueEvents
<1>5. CASE TrainCommand
  <2>1. /\ ~ticking /\ UNCHANGED <<time_scale, ticking>>
        /\ \E T, start, last : Added(T, start, last)
    BY <1>5, TrainAdded
  <2> QED
    BY <2>1, AddedOnTime
<1>6. CASE \E p \in P : InjectFault(p) \/ ResetFault(p)
  <2>1. PICK p \in P, event \in {"INJECT_FAULT", "RESET_FAULT"} : Operate(p, event)
    BY <1>6 DEF InjectFault, ResetFault
  <2> QED
    BY <2>1, OperateResult, HandledOnTime DEF Operate
<1> QED
  BY <1>1, <1>2, <1>3, <1>4, <1>5, <1>6 DEF Next, Command, TrainCommand

\* The times of the line.
LEMMA LineTimes ==
  ASSUME NEW p \in P, NEW d \in Dir
  PROVE  /\ Due(p, d, "TRAIN_APPROACH") \in Nat
         /\ Due(p, d, "TRAIN_ENTER") = Due(p, d, "TRAIN_APPROACH") + TRAIN_WARNING_SEC * SEC
         /\ Due(p, d, "TRAIN_EXIT") = Due(p, d, "TRAIN_APPROACH") + TRAIN_WARNING_SEC * SEC
                                        + TRAIN_LENGTH_SEC * SEC
         /\ \A e \in TrainEvent : Due(p, d, e) \in Nat
         /\ Travel(d)[NUM_CROSSINGS] * SEC \in Nat
         /\ LineTime(d) = Travel(d)[NUM_CROSSINGS] * SEC + TRAIN_WARNING_SEC * SEC
                            + TRAIN_LENGTH_SEC * SEC
         /\ LineTime(d) = Due(LastOf(d), d, "TRAIN_EXIT") /\ LastOf(d) \in P
         /\ TRAIN_WARNING_SEC * SEC \in Nat /\ TRAIN_LENGTH_SEC * SEC \in Nat
<1>1. NUM_CROSSINGS \in P
  BY RailSimAssumption DEF P
<1>2. LastOf(d) \in P /\ Place(LastOf(d), d) = NUM_CROSSINGS
  BY <1>1, RoutePlace DEF LastOf
<1>3. /\ \A k \in P : Travel(d)[k] * SEC \in Nat
      /\ TRAIN_WARNING_SEC * SEC \in Nat /\ TRAIN_LENGTH_SEC * SEC \in Nat
  <2>1. \A x, y \in Nat : x * y \in Nat
    OBVIOUS
  <2>2. \A k \in P : Travel(d)[k] \in Nat
    BY TravelType
  <2>3. SEC \in Nat /\ TRAIN_WARNING_SEC \in Nat /\ TRAIN_LENGTH_SEC \in Nat
    BY RailSimAssumption
  <2> QED
    BY <2>1, <2>2, <2>3
<1> DEFINE x(k) == Travel(d)[k] * SEC
           w == TRAIN_WARNING_SEC * SEC
           l == TRAIN_LENGTH_SEC * SEC
<1>4. Place(p, d) \in P
  BY PlaceOnRoute
<1>5. /\ \A k \in P : x(k) \in Nat
      /\ w \in Nat /\ l \in Nat
  BY <1>3
<1>6. /\ Offset("TRAIN_APPROACH") = 0 /\ Offset("TRAIN_ENTER") = w
      /\ Offset("TRAIN_EXIT") = w + l
  BY DEF Offset
<1>7. \A e : Due(p, d, e) = x(Place(p, d)) + Offset(e)
  BY DEF Due
<1>8. LineTime(d) = x(NUM_CROSSINGS) + Offset("TRAIN_EXIT")
      /\ Due(LastOf(d), d, "TRAIN_EXIT") = x(NUM_CROSSINGS) + Offset("TRAIN_EXIT")
  BY <1>2 DEF LineTime, Due
<1> HIDE DEF x, w, l
<1>9. /\ Due(p, d, "TRAIN_APPROACH") \in Nat
      /\ Due(p, d, "TRAIN_ENTER") = Due(p, d, "TRAIN_APPROACH") + w
      /\ Due(p, d, "TRAIN_EXIT") = Due(p, d, "TRAIN_APPROACH") + w + l
      /\ \A e \in TrainEvent : Due(p, d, e) \in Nat
      /\ x(NUM_CROSSINGS) \in Nat
      /\ LineTime(d) = x(NUM_CROSSINGS) + w + l
      /\ LineTime(d) = Due(LastOf(d), d, "TRAIN_EXIT")
  BY <1>1, <1>4, <1>5, <1>6, <1>7, <1>8 DEF TrainEvent
<1> QED
  BY <1>2, <1>3, <1>9 DEF x, w, l

-----------------------------------------------------------------------------
\* What result r of an event at c does to the tracks, unless there is a fault.
TrackStep(c, r, event, arg) ==
  r.cx.fault = "NONE" =>
    /\ c.fault = "NONE"
    /\ event \notin TrainEvent => r.cx.track = c.track
    /\ event = "TRAIN_APPROACH" =>
         r.cx.track = IF c.track[arg] = "NONE"
                      THEN [c.track EXCEPT ![arg] = "APPROACHING"] ELSE c.track
    /\ event = "TRAIN_ENTER" =>
         r.cx.track = IF c.track[arg] = "APPROACHING"
                      THEN [c.track EXCEPT ![arg] = "ON_CROSSING"] ELSE c.track
    /\ event = "TRAIN_EXIT" =>
         IF c.track[arg] # "ON_CROSSING" THEN r.cx.track = c.track
         ELSE \/ /\ r.cx.track = [c.track EXCEPT ![arg] = "CLEARED"]
                 /\ \E d \in Dir \ {arg} : c.track[d] \notin {"NONE", "CLEARED"}
              \/ /\ r.cx.track = [d \in Dir |-> "NONE"]
                 /\ \A d \in Dir \ {arg} : c.track[d] \in {"NONE", "CLEARED"}

\* Each case of crossing_handle_event but the reset moves the tracks so.
LEMMA TrackSteps ==
  ASSUME NEW c \in CrossingState, NEW arg,
         NEW event \in TrainEvent \cup {"GATE_CLOSED", "GATE_OPENED", "INJECT_FAULT", "TIMER"},
         event \in TrainEvent => arg \in Dir, event = "TIMER" => arg \in Timer
  PROVE  TrackStep(c, crossing_handle_event(c, event, arg, TRUE), event, arg)
<1> USE DEF CrossingState, TrainEvent, TrackStep, crossing_handle_event
<1>0. CASE c.fault # "NONE"
  BY <1>0 DEF Nothing, Effect
<1>1. CASE c.fault = "NONE" /\ event = "TRAIN_APPROACH"
  BY <1>1 DEF on_approach, start_gate_close, Nothing, Effect
<1>2. CASE c.fault = "NONE" /\ event = "TRAIN_ENTER"
  BY <1>2 DEF on_enter, enter_fault, Nothing, Effect
<1>3. CASE c.fault = "NONE" /\ event = "TRAIN_EXIT"
  <2> DEFINE left == [c EXCEPT !.track = [c.track EXCEPT ![arg] = "CLEARED"]]
             timeout == {TRAIN_TIMEOUT_TIMER(arg)}
             none == [c EXCEPT !.track = [d \in Dir |-> "NONE"]]
  <2>0. arg \in Dir
    BY <1>3
  <2>1. crossing_both_tracks_clear(left) <=>
          \A d \in Dir \ {arg} : c.track[d] \in {"NONE", "CLEARED"}
    BY <2>0 DEF crossing_both_tracks_clear, Dir, TrackState
  <2>2. start_gate_open(none, timeout).cx.track = [d \in Dir |-> "NONE"]
    BY DEF start_gate_open, Effect
  <2>3. Effect(left, timeout, {}, FALSE, {}).cx.track = [c.track EXCEPT ![arg] = "CLEARED"]
    BY DEF Effect
  <2>4. crossing_handle_event(c, event, arg, TRUE) = on_exit(c, arg)
    BY <1>3
  <2>5. CASE c.track[arg] # "ON_CROSSING"
    BY <1>3, <2>5 DEF on_exit, Nothing, Effect
  <2>6. CASE c.track[arg] = "ON_CROSSING" /\ crossing_both_tracks_clear(left)
    <3>1. on_exit(c, arg) = start_gate_open(none, timeout)
      BY <2>6 DEF on_exit
    <3> HIDE DEF none, left, timeout
    <3> QED
      BY <1>3, <2>1, <2>2, <2>4, <2>6, <3>1
  <2>7. CASE c.track[arg] = "ON_CROSSING" /\ ~crossing_both_tracks_clear(left)
    <3>1. on_exit(c, arg) = Effect(left, timeout, {}, FALSE, {})
      BY <2>7 DEF on_exit
    <3> HIDE DEF left, timeout
    <3> QED
      BY <1>3, <2>1, <2>3, <2>4, <2>7, <3>1
  <2> QED
    BY <2>5, <2>6, <2>7
<1>4. CASE c.fault = "NONE" /\ event \in {"GATE_CLOSED", "GATE_OPENED"}
  BY <1>4 DEF on_gate_closed, on_gate_opened, start_gate_open, start_gate_close, Nothing, Effect
<1>5. CASE c.fault = "NONE" /\ event = "INJECT_FAULT"
  BY <1>5 DEF enter_fault, Effect
<1>7. CASE c.fault = "NONE" /\ event = "TIMER"
  BY <1>7 DEF on_timer, start_gate_close, enter_fault, Effect, Timer
<1> QED
  BY <1>0, <1>1, <1>2, <1>3, <1>4, <1>5, <1>7

\* A handler takes the delivered train event from the queue and no other.
LEMMA HandledTrains ==
  ASSUME IInv, NEW p, NEW r, NEW slot, NEW fired, Handled(p, r, slot, fired),
         NEW o, NEW d, NEW e \in TrainEvent
  PROVE  \A i : /\ TrainSlot(i, o, e, d)' <=> TrainSlot(i, o, e, d) /\ i \notin slot
                /\ TrainSlot(i, o, e, d)' => events'[i] = events[i]
<1> SUFFICES ASSUME NEW i
             PROVE  /\ TrainSlot(i, o, e, d)' <=> TrainSlot(i, o, e, d) /\ i \notin slot
                    /\ TrainSlot(i, o, e, d)' => events'[i] = events[i]
  OBVIOUS
<1>0. e # "TIMER"
  BY DEF TrainEvent
<1>1. ASSUME TrainSlot(i, o, e, d)'
      PROVE  TrainSlot(i, o, e, d) /\ i \notin slot /\ events'[i] = events[i]
  BY <1>0, <1>1, HandledSlots DEF TrainSlot, Stays, Started
<1>2. ASSUME TrainSlot(i, o, e, d), i \notin slot
      PROVE  TrainSlot(i, o, e, d)'
  BY <1>0, <1>2, HandledStays DEF TrainSlot
<1> QED
  BY <1>1, <1>2

\* A pending event has its time.
LEMMA PendingTime ==
  ASSUME IInv, EventsTimed, NEW start, NEW M, Bounded(M), OnLine(start, M),
         NEW p \in P, NEW d \in Dir, NEW e \in TrainEvent, Pending(p, d, e)
  PROVE  /\ -M <= start[d] + Due(p, d, e)
         /\ e # "TRAIN_APPROACH" => 1 - M <= start[d] + Due(p, d, e)
<1>1. PICK i \in DOMAIN events : TrainSlot(i, p, e, d)
  BY DEF Pending
<1>2. events[i].left = start[d] + Due(p, d, e)
  BY <1>1 DEF OnLine, Scheduled
<1>3. /\ -Elapsed <= events[i].left /\ events[i].left \in Int
      /\ e # "TRAIN_APPROACH" => 1 - Elapsed <= events[i].left
  BY <1>1, EventCases DEF EventsTimed, TrainSlot, IInv
<1>4. Elapsed \in Nat /\ Elapsed <= M /\ M \in Nat
  BY TickBound DEF IInv
<1> QED
  BY <1>2, <1>3, <1>4

\* What has happened to a train when one of its events is due: the warning
\* finds the track free, the entry a train warned of, the exit one that entered.
LEMMA DueInOrder ==
  ASSUME IInv, EventsTimed, NEW start, NEW M, Spacing(M), OnLine(start, M),
         NEW p \in P, NEW a \in Dir, NEW event \in TrainEvent, Pending(p, a, event),
         start[a] + Due(p, a, event) <= 0
  PROVE  /\ event # "TRAIN_APPROACH" => ~Pending(p, a, "TRAIN_APPROACH")
         /\ event = "TRAIN_EXIT" => ~Pending(p, a, "TRAIN_ENTER")
         /\ event = "TRAIN_APPROACH" /\ crossings[p].fault = "NONE" =>
              crossings[p].track[a] = "NONE"
<1> DEFINE w == TRAIN_WARNING_SEC * SEC
           l == TRAIN_LENGTH_SEC * SEC
<1>1. Bounded(M) /\ M \in Nat /\ M < w /\ M <= l /\ w \in Nat /\ l \in Nat
  BY LineTimes DEF Spacing, Bounded
<1>2. start \in [Dir -> Int] /\ start[a] \in Int /\ \A d \in Dir : Follows(p, d, start)
  BY DEF OnLine
<1>3. /\ Due(p, a, "TRAIN_APPROACH") \in Nat
      /\ Due(p, a, "TRAIN_ENTER") = Due(p, a, "TRAIN_APPROACH") + w
      /\ Due(p, a, "TRAIN_EXIT") = Due(p, a, "TRAIN_APPROACH") + w + l
  BY LineTimes
<1>4. \A d \in Dir, e \in TrainEvent : Pending(p, d, e) =>
        /\ -M <= start[d] + Due(p, d, e)
        /\ e # "TRAIN_APPROACH" => 1 - M <= start[d] + Due(p, d, e)
  BY <1>1, PendingTime
<1> HIDE DEF w, l
<1>5. event # "TRAIN_APPROACH" => ~Pending(p, a, "TRAIN_APPROACH")
  <2>1. Pending(p, a, "TRAIN_APPROACH") => -M <= start[a] + Due(p, a, "TRAIN_APPROACH")
    BY <1>4 DEF TrainEvent
  <2> QED
    BY <1>1, <1>2, <1>3, <2>1 DEF TrainEvent
<1>6. event = "TRAIN_EXIT" => ~Pending(p, a, "TRAIN_ENTER")
  <2>1. Pending(p, a, "TRAIN_ENTER") => 1 - M <= start[a] + Due(p, a, "TRAIN_ENTER")
    BY <1>4 DEF TrainEvent
  <2> QED
    BY <1>1, <1>2, <1>3, <2>1
<1>7. ASSUME event = "TRAIN_APPROACH", crossings[p].fault = "NONE"
      PROVE  crossings[p].track[a] = "NONE"
  <2>1. crossings[p].track[a] \notin {"APPROACHING", "ON_CROSSING"}
    BY <1>2, <1>7 DEF Follows
  <2>2. crossings[p] \in CrossingState /\ CxInv(crossings[p])
    BY CrossingOK
  <2>3. CASE crossings[p].track[a] = "CLEARED"
    <3>1. PICK o \in Dir : crossings[p].track[o] \in {"APPROACHING", "ON_CROSSING"}
      BY <2>2, <2>3 DEF CxInv
    <3>2. Pending(p, o, "TRAIN_EXIT") /\ o # a
      BY <1>2, <1>7, <2>3, <3>1 DEF Follows
    <3>3. Apart(p, a, o, start, M)
      BY <1>7, <2>3, <3>2 DEF OnLine, Spaced
    <3>4. start[o] + Due(p, o, "TRAIN_EXIT") + M <= start[a] + Due(p, a, "TRAIN_APPROACH")
      BY <1>7, <3>3 DEF Apart
    <3>5. 1 - M <= start[o] + Due(p, o, "TRAIN_EXIT")
      BY <1>4, <3>2 DEF TrainEvent
    <3>6. start[o] \in Int /\ Due(p, o, "TRAIN_EXIT") \in Nat
      BY <1>2, LineTimes DEF TrainEvent
    <3> QED
      BY <1>1, <1>2, <1>3, <1>7, <3>4, <3>5, <3>6
  <2> QED
    BY <2>1, <2>2, <2>3 DEF CrossingState, TrackState
<1> QED
  BY <1>5, <1>6, <1>7

\* The times and the route do not change.
LEMMA LineConstant ==
  ASSUME NEW p, NEW d, NEW e
  PROVE  UNCHANGED <<Due(p, d, e), LineTime(d), LastOf(d), P, TrainEvent>>
BY DEF Due, LineTime, LastOf, Travel, Route, Place, Offset, P, TrainEvent

\* The queue may change for timers alone, and the tracks not at all.
LEMMA LineKept ==
  ASSUME NEW start, NEW M, OnLine(start, M), UNCHANGED occupied,
         \A p \in P, d \in Dir, e \in TrainEvent : \A i :
           /\ TrainSlot(i, p, e, d)' <=> TrainSlot(i, p, e, d)
           /\ TrainSlot(i, p, e, d)' => events'[i] = events[i],
         \A p \in P : crossings'[p].fault = "NONE" =>
           crossings[p].fault = "NONE" /\ crossings'[p].track = crossings[p].track
  PROVE  OnLine(start, M)'
<1>1. \A p \in P, d \in Dir, e \in TrainEvent : Pending(p, d, e)' <=> Pending(p, d, e)
  BY DEF Pending, TrainSlot
<1>2. \A d \in Dir : LastOf(d) \in P
  BY LineTimes, RailSimAssumption DEF P
<1>3. Scheduled(start)'
  <2>1. ASSUME NEW p \in P, NEW d \in Dir, NEW e \in TrainEvent, NEW i \in DOMAIN events',
               TrainSlot(i, p, e, d)'
        PROVE  /\ events'[i].left = start[d] + Due(p, d, e)
               /\ \A j \in DOMAIN events' : TrainSlot(j, p, e, d)' => j = i
    BY <2>1 DEF OnLine, Scheduled, TrainSlot
  <2>2. \A d \in Dir : start[d] + LineTime(d) > 0 => Pending(LastOf(d), d, "TRAIN_EXIT")'
    BY <1>1, <1>2 DEF OnLine, Scheduled, TrainEvent
  <2> QED
    BY <2>1, <2>2, LineConstant DEF Scheduled
<1>4. ASSUME NEW p \in P, NEW d \in Dir
      PROVE  Follows(p, d, start)'
  BY <1>1, LineConstant DEF OnLine, Follows, TrainEvent
<1>5. Spaced(start, M)'
  BY <1>1, LineConstant DEF OnLine, Spaced, Apart, TrainEvent
<1> QED
  BY <1>3, <1>4, <1>5, LineConstant DEF OnLine

\* A train's event takes it one phase further.
LEMMA TrainHandled ==
  ASSUME IInv, EventsTimed, NEW start, NEW M, Spacing(M), OnLine(start, M),
         NEW p \in P, NEW a \in Dir, NEW event \in TrainEvent, NEW i,
         TrainSlot(i, p, event, a), events[i].left <= 0,
         NEW r, NEW fired, Handled(p, r, {i}, fired), TrackStep(crossings[p], r, event, a),
         event = "TRAIN_APPROACH" => occupied' = occupied,
         event = "TRAIN_ENTER" => occupied' = occupied \cup {<<p, a>>},
         event = "TRAIN_EXIT" => occupied' = occupied \ {<<p, a>>}
  PROVE  OnLine(start, M)'
<1> DEFINE c == crossings[p]
<1>1. /\ crossings'[p] = r.cx
      /\ \A o \in P \ {p} : crossings'[o] = crossings[o]
  BY HandledCrossings
<1>2. \A o \in P, d \in Dir, e \in TrainEvent : \A j :
        /\ TrainSlot(j, o, e, d)' <=> TrainSlot(j, o, e, d) /\ j # i
        /\ TrainSlot(j, o, e, d)' => events'[j] = events[j]
  BY HandledTrains
<1>3. i \in DOMAIN events /\ Pending(p, a, event)
  BY DEF TrainSlot, Pending
<1>4. start[a] + Due(p, a, event) <= 0 /\ \A j : TrainSlot(j, p, event, a) => j = i
  BY <1>3 DEF OnLine, Scheduled, TrainSlot
<1>5. \A o \in P, d \in Dir, e \in TrainEvent :
        Pending(o, d, e)' <=> Pending(o, d, e) /\ ~(o = p /\ d = a /\ e = event)
  <2> SUFFICES ASSUME NEW o \in P, NEW d \in Dir, NEW e \in TrainEvent
               PROVE  Pending(o, d, e)' <=> Pending(o, d, e) /\ ~(o = p /\ d = a /\ e = event)
    OBVIOUS
  <2>1. Pending(o, d, e)' <=> \E j : TrainSlot(j, o, e, d)'
    BY DEF Pending, TrainSlot
  <2>2. Pending(o, d, e) <=> \E j : TrainSlot(j, o, e, d)
    BY DEF Pending, TrainSlot
  <2>3. TrainSlot(i, o, e, d) <=> (o = p /\ d = a /\ e = event)
    BY DEF TrainSlot
  <2> QED
    BY <1>2, <1>4, <2>1, <2>2, <2>3
<1>6. /\ event # "TRAIN_APPROACH" => ~Pending(p, a, "TRAIN_APPROACH")
      /\ event = "TRAIN_EXIT" => ~Pending(p, a, "TRAIN_ENTER")
      /\ event = "TRAIN_APPROACH" /\ c.fault = "NONE" => c.track[a] = "NONE"
  BY <1>3, <1>4, DueInOrder
<1>7. /\ start \in [Dir -> Int] /\ \A o \in P, d \in Dir : Follows(o, d, start)
      /\ c.track \in [Dir -> TrackState]
  BY CrossingOK DEF OnLine, CrossingState
<1>8. Scheduled(start)'
  <2>1. ASSUME NEW o \in P, NEW d \in Dir, NEW e \in TrainEvent, NEW k \in DOMAIN events',
               TrainSlot(k, o, e, d)'
        PROVE  /\ events'[k].left = start[d] + Due(o, d, e)
               /\ \A j \in DOMAIN events' : TrainSlot(j, o, e, d)' => j = k
    BY <1>2, <2>1 DEF OnLine, Scheduled, TrainSlot
  <2>2. ASSUME NEW d \in Dir, start[d] + LineTime(d) > 0
        PROVE  Pending(LastOf(d), d, "TRAIN_EXIT")'
    <3>1. LastOf(d) \in P /\ LineTime(d) = Due(LastOf(d), d, "TRAIN_EXIT")
      BY LineTimes
    <3>2. Pending(LastOf(d), d, "TRAIN_EXIT")
      BY <2>2 DEF OnLine, Scheduled
    <3>3. start[d] + LineTime(d) \in Int
      BY <1>7, <3>1, LineTimes DEF TrainEvent
    <3>4. ~(LastOf(d) = p /\ d = a /\ event = "TRAIN_EXIT")
      BY <1>4, <2>2, <3>1, <3>3
    <3> QED
      BY <1>5, <3>1, <3>2, <3>4 DEF TrainEvent
  <2> QED
    BY <2>1, <2>2, LineConstant DEF Scheduled
<1>9. ASSUME NEW o \in P, NEW d \in Dir
      PROVE  Follows(o, d, start)'
  <2>0. /\ Due(o, d, "TRAIN_APPROACH")' = Due(o, d, "TRAIN_APPROACH")
        /\ {"TRAIN_APPROACH", "TRAIN_ENTER", "TRAIN_EXIT"} = TrainEvent
    BY LineConstant DEF TrainEvent
  <2>1. CASE o # p
    BY <1>1, <1>5, <1>7, <2>0, <2>1 DEF Follows
  <2>2. CASE o = p /\ d # a
    <3>1. <<p, d>> \in occupied' => <<p, d>> \in occupied
      BY <2>2 DEF TrainEvent
    <3>2. \A e \in TrainEvent : Pending(p, d, e)' <=> Pending(p, d, e)
      BY <1>5, <2>2
    <3>3. r.cx.fault = "NONE" =>
            /\ c.fault = "NONE"
            /\ r.cx.track[d] = "APPROACHING" <=> c.track[d] = "APPROACHING"
            /\ r.cx.track[d] = "ON_CROSSING" <=> c.track[d] = "ON_CROSSING"
      BY <1>7, <2>2 DEF TrackStep, TrainEvent
    <3> QED
      BY <1>1, <1>7, <2>0, <2>2, <3>1, <3>2, <3>3 DEF Follows
  <2>3. CASE o = p /\ d = a /\ event = "TRAIN_APPROACH"
    <3>1. r.cx.fault = "NONE" => c.fault = "NONE" /\ r.cx.track[a] = "APPROACHING"
      BY <1>6, <1>7, <2>3 DEF TrackStep
    <3> QED
      BY <1>1, <1>3, <1>4, <1>5, <1>7, <2>0, <2>3, <3>1 DEF Follows
  <2>4. CASE o = p /\ d = a /\ event = "TRAIN_ENTER"
    <3>1. c.fault = "NONE" => c.track[a] = "APPROACHING"
      BY <1>3, <1>6, <1>7, <2>4 DEF Follows
    <3>2. r.cx.fault = "NONE" => c.fault = "NONE" /\ r.cx.track[a] = "ON_CROSSING"
      BY <1>7, <2>4, <3>1 DEF TrackStep
    <3> QED
      BY <1>1, <1>3, <1>5, <1>6, <1>7, <2>0, <2>4, <3>2 DEF Follows
  <2>5. CASE o = p /\ d = a /\ event = "TRAIN_EXIT"
    <3>1. c.fault = "NONE" => c.track[a] = "ON_CROSSING"
      BY <1>3, <1>6, <1>7, <2>5 DEF Follows
    <3>2. r.cx.fault = "NONE" =>
            c.fault = "NONE" /\ r.cx.track[a] \in {"NONE", "CLEARED"}
      BY <1>7, <2>5, <3>1 DEF TrackStep
    <3> QED
      BY <1>1, <1>3, <1>5, <1>6, <1>7, <2>0, <2>5, <3>2 DEF Follows
  <2> QED
    BY <2>1, <2>2, <2>3, <2>4, <2>5 DEF TrainEvent
<1>10. Spaced(start, M)'
  <2> SUFFICES ASSUME NEW o \in P, NEW d \in Dir, NEW f \in Dir, f # d,
                      crossings'[o].fault = "NONE", crossings'[o].track[d] = "CLEARED"
               PROVE  Apart(o, d, f, start, M)'
    BY DEF Spaced
  <2>0. UNCHANGED <<Due(o, f, "TRAIN_EXIT"), Due(o, d, "TRAIN_APPROACH"), LineTime(d)>>
    BY LineConstant
  <2>1. CASE crossings[o].fault = "NONE" /\ crossings[o].track[d] = "CLEARED"
    <3>1. Apart(o, d, f, start, M)
      BY <2>1 DEF OnLine, Spaced
    <3>2. Pending(o, d, "TRAIN_APPROACH")' => Pending(o, d, "TRAIN_APPROACH")
      BY <1>5 DEF TrainEvent
    <3> QED
      BY <2>0, <3>1, <3>2 DEF Apart
  <2>2. CASE ~(crossings[o].fault = "NONE" /\ crossings[o].track[d] = "CLEARED")
    <3>1. o = p /\ c.fault = "NONE"
      BY <1>1, <2>2 DEF TrackStep
    <3>2. /\ event = "TRAIN_EXIT" /\ d = a
          /\ \E x \in Dir \ {a} : c.track[x] \notin {"NONE", "CLEARED"}
      BY <1>1, <1>7, <2>2, <3>1 DEF TrackStep, TrainEvent
    <3>3. c.track[f] \in {"APPROACHING", "ON_CROSSING"}
      BY <1>7, <3>2 DEF Dir, TrackState
    <3>4. start[f] + Due(p, f, "TRAIN_APPROACH") <= 0
      BY <1>7, <3>1, <3>3 DEF Follows
    <3> DEFINE w == TRAIN_WARNING_SEC * SEC
               l == TRAIN_LENGTH_SEC * SEC
               n == Travel(a)[NUM_CROSSINGS] * SEC
    <3>5. 1 - M <= start[a] + Due(p, a, "TRAIN_EXIT")
      BY <1>3, <3>2, PendingTime DEF Spacing, TrainEvent
    <3>6. /\ n \in Nat /\ w \in Nat /\ l \in Nat /\ LineTime(a) = n + w + l
          /\ \A x \in Dir : /\ Due(p, x, "TRAIN_APPROACH") \in Nat
                            /\ Due(p, x, "TRAIN_EXIT") = Due(p, x, "TRAIN_APPROACH") + w + l
      BY LineTimes
    <3>7. n >= w + l + 2 * M - 1 /\ M \in Nat
      <4>1. Offset("TRAIN_EXIT") = w + l
        BY DEF Offset
      <4> QED
        BY <4>1 DEF Spacing, Bounded
    <3>8. start[a] \in Int /\ start[f] \in Int
      BY <1>7
    <3> HIDE DEF w, l, n
    <3>9. start[f] + Due(p, f, "TRAIN_EXIT") + M
            <= start[a] + LineTime(a) + Due(p, a, "TRAIN_APPROACH")
      BY <3>4, <3>5, <3>6, <3>7, <3>8
    <3>10. ~Pending(p, a, "TRAIN_APPROACH")'
      BY <1>5, <1>6, <3>2 DEF TrainEvent
    <3> QED
      BY <2>0, <3>1, <3>2, <3>9, <3>10 DEF Apart
  <2> QED
    BY <2>1, <2>2
<1> QED
  BY <1>7, <1>8, <1>9, <1>10, LineConstant DEF OnLine

\* A tick brings every event of a train closer by the same time.
LEMMA TickOnLine ==
  ASSUME IInv, NEW start, NEW M, Bounded(M), OnLine(start, M), Tick,
         NEW later, later = [d \in Dir |-> start[d] - time_scale]
  PROVE  OnLine(later, M)'
<1>1. /\ time_scale \in Nat /\ M \in Nat
  BY TickBound DEF IInv
<1>2. UNCHANGED <<crossings, occupied>> /\ DOMAIN events' = DOMAIN events
  BY DEF Tick
<1>3. ASSUME NEW i \in DOMAIN events
      PROVE  /\ events[i].left \in Int /\ events'[i].left = events[i].left - time_scale
             /\ events'[i].p = events[i].p /\ events'[i].event = events[i].event
             /\ events'[i].arg = events[i].arg
  <2>1. events[i] \in Event /\ events'[i] = [events[i] EXCEPT !.left = @ - time_scale]
    BY DEF IInv, TypeOK, Tick
  <2> QED
    BY <2>1 DEF Event
<1>4. \A i, p, e, d : TrainSlot(i, p, e, d)' <=> TrainSlot(i, p, e, d)
  BY <1>2, <1>3 DEF TrainSlot
<1>5. \A p, d, e : Pending(p, d, e)' <=> Pending(p, d, e)
  BY <1>2, <1>4 DEF Pending
<1>6. /\ start \in [Dir -> Int] /\ later \in [Dir -> Int]
      /\ \A d \in Dir : later[d] = start[d] - time_scale /\ start[d] \in Int
  BY <1>1 DEF OnLine
<1>7. Scheduled(later)'
  <2>1. ASSUME NEW p \in P, NEW d \in Dir, NEW e \in TrainEvent, NEW i \in DOMAIN events,
               TrainSlot(i, p, e, d)
        PROVE  /\ events'[i].left = later[d] + Due(p, d, e)
               /\ \A j \in DOMAIN events : TrainSlot(j, p, e, d) => j = i
    <3>1. /\ events[i].left = start[d] + Due(p, d, e)
          /\ \A j \in DOMAIN events : TrainSlot(j, p, e, d) => j = i
      BY <2>1 DEF OnLine, Scheduled
    <3>2. Due(p, d, e) \in Nat
      BY LineTimes
    <3> QED
      BY <1>1, <1>3, <1>6, <3>1, <3>2
  <2>2. ASSUME NEW d \in Dir, later[d] + LineTime(d) > 0
        PROVE  Pending(LastOf(d), d, "TRAIN_EXIT")
    <3>0. NUM_CROSSINGS \in P
      BY RailSimAssumption DEF P
    <3>1. LineTime(d) = Due(LastOf(d), d, "TRAIN_EXIT") /\ LastOf(d) \in P
      BY <3>0, LineTimes
    <3>2. LineTime(d) \in Nat
      BY <3>1, LineTimes DEF TrainEvent
    <3>3. start[d] + LineTime(d) > 0
      BY <1>1, <1>6, <2>2, <3>2
    <3> QED
      BY <3>3 DEF OnLine, Scheduled
  <2> QED
    BY <1>2, <1>4, <1>5, <2>1, <2>2, LineConstant DEF Scheduled
<1>8. ASSUME NEW p \in P, NEW d \in Dir
      PROVE  Follows(p, d, later)'
  <2>1. Due(p, d, "TRAIN_APPROACH") \in Nat /\ UNCHANGED Due(p, d, "TRAIN_APPROACH")
    BY LineTimes, LineConstant
  <2>2. start[d] + Due(p, d, "TRAIN_APPROACH") <= 0 =>
          later[d] + Due(p, d, "TRAIN_APPROACH") <= 0
    BY <1>1, <1>6, <2>1
  <2> QED
    BY <1>2, <1>5, <2>1, <2>2 DEF OnLine, Follows
<1>9. ASSUME NEW p \in P, NEW d \in Dir, NEW o \in Dir, Apart(p, d, o, start, M)
      PROVE  Apart(p, d, o, later, M)'
  <2> DEFINE x == Due(p, o, "TRAIN_EXIT")
             w == Due(p, d, "TRAIN_APPROACH")
             l == LineTime(d)
  <2>1. /\ x \in Nat /\ w \in Nat /\ l \in Nat
        /\ UNCHANGED <<Due(p, o, "TRAIN_EXIT"), Due(p, d, "TRAIN_APPROACH"), LineTime(d)>>
    <3>1. UNCHANGED <<Due(p, o, "TRAIN_EXIT"), Due(p, d, "TRAIN_APPROACH"), LineTime(d)>>
      BY LineConstant
    <3>2. LineTime(d) = Due(LastOf(d), d, "TRAIN_EXIT") /\ LastOf(d) \in P
      BY LineTimes
    <3> QED
      BY <3>1, <3>2, LineTimes DEF TrainEvent
  <2>2. /\ Pending(p, d, "TRAIN_APPROACH") => start[o] + x + M <= start[d] + w
        /\ start[o] + x + M <= w \/ start[o] + x + M <= start[d] + l + w
    BY <1>9 DEF Apart
  <2> HIDE DEF x, w, l
  <2>3. /\ Pending(p, d, "TRAIN_APPROACH") => later[o] + x + M <= later[d] + w
        /\ later[o] + x + M <= w \/ later[o] + x + M <= later[d] + l + w
    BY <1>1, <1>6, <2>1, <2>2
  <2> QED
    BY <1>5, <2>1, <2>3 DEF Apart, x, w, l
<1>10. Spaced(later, M)'
  BY <1>2, <1>9 DEF OnLine, Spaced
<1> QED
  BY <1>6, <1>7, <1>8, <1>10, LineConstant DEF OnLine

\* The slots of a line command: as before in the directions it leaves alone,
\* and one for each event of its trains, at its time.
LEMMA LineAdded ==
  ASSUME IInv, NEW D \in SUBSET Dir, Added(P \X D, LineStart(P \X D), 3),
         NEW p \in P, NEW d \in Dir, NEW e \in TrainEvent
  PROVE  /\ d \notin D =>
              \A i : /\ TrainSlot(i, p, e, d)' <=> TrainSlot(i, p, e, d)
                     /\ TrainSlot(i, p, e, d) => events'[i] = events[i]
         /\ d \in D =>
              /\ ~Pending(p, d, e) /\ Pending(p, d, e)'
              /\ \A i : TrainSlot(i, p, e, d)' => events'[i].left = Due(p, d, e)
              /\ \A i, j : TrainSlot(i, p, e, d)' /\ TrainSlot(j, p, e, d)' => i = j
<1> DEFINE T == P \X D
           first == LineStart(T)
           new == DOMAIN events' \ DOMAIN events
           ev == [left |-> Due(p, d, e), p |-> p, event |-> e, arg |-> d, gen |-> 0]
<1>1. /\ \A i \in DOMAIN events : i \in DOMAIN events' /\ events'[i] = events[i]
      /\ \A i \in new : \E q \in T, m \in 1 .. 3 : events'[i] = Trip(q, first, m)
      /\ \A q \in T, m \in 1 .. 3 : \E i \in new : events'[i] = Trip(q, first, m)
      /\ \A i, j \in new : events'[i] = events'[j] => i = j
      /\ \A q \in T : ~train_pending(q[1], q[2])
      /\ first \in [T -> Nat]
  BY DEF Added
<1>2. ASSUME NEW q \in T
      PROVE  /\ q \in P \X Dir /\ first[q] \in Nat
             /\ first[q] = Travel(q[2])[Place(q[1], q[2])]
  BY <1>1 DEF LineStart
<1>3. ASSUME NEW q \in T, NEW m \in 1 .. 3
      PROVE  /\ Trip(q, first, m).p = q[1] /\ Trip(q, first, m).arg = q[2]
             /\ Trip(q, first, m) =
                  [left |-> Due(q[1], q[2], Trip(q, first, m).event), p |-> q[1],
                   event |-> Trip(q, first, m).event, arg |-> q[2], gen |-> 0]
             /\ m = 1 => Trip(q, first, m).event = "TRAIN_APPROACH"
             /\ m = 2 => Trip(q, first, m).event = "TRAIN_ENTER"
             /\ m = 3 => Trip(q, first, m).event = "TRAIN_EXIT"
  <2> DEFINE x == Travel(q[2])[Place(q[1], q[2])] * SEC
  <2>1. first[q] * SEC = x /\ x \in Nat
    <3>1. first[q] \in Nat /\ SEC \in Nat /\ x = first[q] * SEC
      BY <1>2, RailSimAssumption
    <3>2. \A k, l \in Nat : k * l \in Nat
      OBVIOUS
    <3> HIDE DEF x, first
    <3> QED
      BY <3>1, <3>2
  <2>2. /\ Due(q[1], q[2], "TRAIN_APPROACH") = x + 0
        /\ Due(q[1], q[2], "TRAIN_ENTER") = x + TRAIN_WARNING_SEC * SEC
        /\ Due(q[1], q[2], "TRAIN_EXIT") =
             x + (TRAIN_WARNING_SEC * SEC + TRAIN_LENGTH_SEC * SEC)
    BY DEF Due, Offset
  <2>3. TRAIN_WARNING_SEC * SEC \in Nat /\ TRAIN_LENGTH_SEC * SEC \in Nat
    <3>1. SEC \in Nat /\ TRAIN_WARNING_SEC \in Nat /\ TRAIN_LENGTH_SEC \in Nat
      BY RailSimAssumption
    <3> QED
      BY ONLY <3>1
  <2> HIDE DEF x
  <2>4. /\ Due(q[1], q[2], "TRAIN_APPROACH") = x
        /\ Due(q[1], q[2], "TRAIN_EXIT") =
             x + TRAIN_WARNING_SEC * SEC + TRAIN_LENGTH_SEC * SEC
    BY <2>1, <2>2, <2>3
  <2>5. m = 1 \/ m = 2 \/ m = 3
    OBVIOUS
  <2> HIDE DEF first, T
  <2>6. q \in P \X Dir /\ first[q] \in Nat
    BY <1>2
  <2>7. /\ Trip(q, first, 1) = [left |-> first[q] * SEC, p |-> q[1],
                                event |-> "TRAIN_APPROACH", arg |-> q[2], gen |-> 0]
        /\ Trip(q, first, 2) = [left |-> first[q] * SEC + TRAIN_WARNING_SEC * SEC,
                                p |-> q[1], event |-> "TRAIN_ENTER", arg |-> q[2], gen |-> 0]
        /\ Trip(q, first, 3) = [left |-> first[q] * SEC + TRAIN_WARNING_SEC * SEC
                                           + TRAIN_LENGTH_SEC * SEC,
                                p |-> q[1], event |-> "TRAIN_EXIT", arg |-> q[2], gen |-> 0]
    BY <2>6, TripEvents
  <2>8. CASE m = 1
    BY <2>1, <2>4, <2>7, <2>8
  <2>9. CASE m = 2
    BY <2>1, <2>2, <2>7, <2>9
  <2>10. CASE m = 3
    BY <2>1, <2>4, <2>7, <2>10
  <2> QED
    BY <2>5, <2>8, <2>9, <2>10
<1>4. ASSUME NEW i \in new
      PROVE  events'[i].arg \in D /\ (TrainSlot(i, p, e, d)' => events'[i] = ev)
  <2>1. PICK q \in T, m \in 1 .. 3 : events'[i] = Trip(q, first, m)
    BY <1>1
  <2>2. q[2] \in D
    OBVIOUS
  <2> HIDE DEF T, first
  <2> QED
    BY <1>3, <2>1, <2>2 DEF TrainSlot
<1>5. ASSUME NEW i
      PROVE  /\ TrainSlot(i, p, e, d) => TrainSlot(i, p, e, d)' /\ events'[i] = events[i]
             /\ TrainSlot(i, p, e, d)' => i \in new \/ TrainSlot(i, p, e, d)
             /\ TrainSlot(i, p, e, d)' => i \in DOMAIN events' /\ events'[i].arg = d
  BY <1>1 DEF TrainSlot
<1>6. CASE d \notin D
  BY <1>4, <1>5, <1>6
<1>7. CASE d \in D
  <2>1. \A i : ~TrainSlot(i, p, e, d)
    <3>1. <<p, d>> \in T
      BY <1>7
    <3>2. ~train_pending(p, d)
      BY <1>1, <3>1
    <3> QED
      BY <3>2 DEF train_pending, TrainSlot
  <2>2. PICK m \in 1 .. 3 : Trip(<<p, d>>, first, m).event = e
    <3>1. <<p, d>> \in T /\ 1 \in 1 .. 3 /\ 2 \in 1 .. 3 /\ 3 \in 1 .. 3
      BY <1>7
    <3> HIDE DEF T, first
    <3> QED
      BY <1>3, <3>1 DEF TrainEvent
  <2>3. PICK i \in new : events'[i] = Trip(<<p, d>>, first, m)
    BY <1>1, <1>7
  <2>4. TrainSlot(i, p, e, d)'
    <3>1. <<p, d>> \in T
      BY <1>7
    <3>2. events'[i].p = p /\ events'[i].arg = d /\ events'[i].event = e
      <4> HIDE DEF T, first
      <4> QED
        BY <1>3, <2>2, <2>3, <3>1
    <3> QED
      BY <2>3, <3>2 DEF TrainSlot
  <2>5. ~Pending(p, d, e) /\ Pending(p, d, e)'
    BY <2>1, <2>4 DEF Pending, TrainSlot
  <2>6. \A j : TrainSlot(j, p, e, d)' => j \in new /\ events'[j] = ev
    BY <1>4, <1>5, <2>1
  <2>7. ev.left = Due(p, d, e)
    OBVIOUS
  <2> HIDE DEF ev
  <2> QED
    BY <1>1, <1>7, <2>5, <2>6, <2>7
<1> QED
  BY <1>6, <1>7

\* A line command starts trains where none is pending.
LEMMA AddedOnLine ==
  ASSUME IInv, NEW start, NEW M, Bounded(M), OnLine(start, M),
         NEW D \in SUBSET Dir, Added(P \X D, LineStart(P \X D), 3),
         UNCHANGED <<crossings, occupied>>,
         NEW later, later = [d \in Dir |-> IF d \in D THEN 0 ELSE start[d]]
  PROVE  OnLine(later, M)'
<1>1. /\ start \in [Dir -> Int] /\ \A p \in P, d \in Dir : Follows(p, d, start)
      /\ later \in [Dir -> Int]
      /\ \A d \in Dir : later[d] = IF d \in D THEN 0 ELSE start[d]
  BY DEF OnLine
<1>2. \A p \in P, d \in Dir, e \in TrainEvent :
        /\ d \notin D => (Pending(p, d, e)' <=> Pending(p, d, e))
        /\ d \in D => ~Pending(p, d, e) /\ Pending(p, d, e)'
  <2> SUFFICES ASSUME NEW p \in P, NEW d \in Dir, NEW e \in TrainEvent
               PROVE  /\ d \notin D => (Pending(p, d, e)' <=> Pending(p, d, e))
                      /\ d \in D => ~Pending(p, d, e) /\ Pending(p, d, e)'
    OBVIOUS
  <2>1. /\ Pending(p, d, e)' <=> \E j : TrainSlot(j, p, e, d)'
        /\ Pending(p, d, e) <=> \E j : TrainSlot(j, p, e, d)
    BY DEF Pending, TrainSlot
  <2> QED
    BY <2>1, LineAdded
<1>3. \A d \in Dir : LastOf(d) \in P
  <2>1. NUM_CROSSINGS \in P
    BY RailSimAssumption DEF P
  <2> QED
    BY <2>1, LineTimes
<1>4. Scheduled(later)'
  <2>1. ASSUME NEW p \in P, NEW d \in Dir, NEW e \in TrainEvent, NEW i \in DOMAIN events',
               TrainSlot(i, p, e, d)'
        PROVE  /\ events'[i].left = later[d] + Due(p, d, e)
               /\ \A j \in DOMAIN events' : TrainSlot(j, p, e, d)' => j = i
    <3>1. Due(p, d, e) \in Nat
      BY LineTimes
    <3>2. CASE d \in D
      BY <1>1, <2>1, <3>1, <3>2, LineAdded
    <3>3. CASE d \notin D
      <4>1. \A j : /\ TrainSlot(j, p, e, d)' <=> TrainSlot(j, p, e, d)
                   /\ TrainSlot(j, p, e, d) => events'[j] = events[j]
        BY <3>3, LineAdded
      <4> QED
        BY <1>1, <2>1, <3>3, <4>1 DEF OnLine, Scheduled, TrainSlot
    <3> QED
      BY <3>2, <3>3
  <2>2. ASSUME NEW d \in Dir, later[d] + LineTime(d) > 0
        PROVE  Pending(LastOf(d), d, "TRAIN_EXIT")'
    <3>1. CASE d \in D
      BY <1>2, <1>3, <3>1 DEF TrainEvent
    <3>2. CASE d \notin D
      BY <1>1, <1>2, <1>3, <2>2, <3>2 DEF OnLine, Scheduled, TrainEvent
    <3> QED
      BY <3>1, <3>2
  <2> QED
    BY <2>1, <2>2, LineConstant DEF Scheduled
<1>5. ASSUME NEW p \in P, NEW d \in Dir
      PROVE  Follows(p, d, later)'
  <2>1. UNCHANGED Due(p, d, "TRAIN_APPROACH") /\ Follows(p, d, start)
    BY <1>1, LineConstant
  <2>2. CASE d \in D
    <3>1. \A e \in TrainEvent : ~Pending(p, d, e) /\ Pending(p, d, e)'
      BY <1>2, <2>2
    <3> QED
      BY <2>1, <3>1 DEF Follows, TrainEvent
  <2>3. CASE d \notin D
    <3>1. \A e \in TrainEvent : Pending(p, d, e)' <=> Pending(p, d, e)
      BY <1>2, <2>3
    <3> QED
      BY <1>1, <2>1, <2>3, <3>1 DEF Follows, TrainEvent
  <2> QED
    BY <2>2, <2>3
<1>6. Spaced(later, M)'
  <2> SUFFICES ASSUME NEW p \in P, NEW d \in Dir, NEW o \in Dir, o # d,
                      crossings[p].fault = "NONE", crossings[p].track[d] = "CLEARED"
               PROVE  Apart(p, d, o, later, M)'
    BY DEF Spaced
  <2>1. Apart(p, d, o, start, M)
    BY DEF OnLine, Spaced
  <2>2. crossings[p].track[o] \in {"APPROACHING", "ON_CROSSING"}
    <3>1. \E x \in Dir : crossings[p].track[x] \in {"APPROACHING", "ON_CROSSING"}
      BY CrossingOK DEF CxInv
    <3> QED
      BY <3>1 DEF Dir
  <2>3. Pending(p, o, "TRAIN_EXIT")
    BY <1>1, <2>2 DEF Follows
  <2>4. o \notin D /\ later[o] = start[o]
    BY <1>1, <1>2, <2>3 DEF TrainEvent
  <2>5. UNCHANGED <<Due(p, o, "TRAIN_EXIT"), Due(p, d, "TRAIN_APPROACH"), LineTime(d)>>
    BY LineConstant
  <2>6. CASE d \notin D
    <3>1. later[d] = start[d] /\ (Pending(p, d, "TRAIN_APPROACH")' <=>
                                    Pending(p, d, "TRAIN_APPROACH"))
      BY <1>1, <1>2, <2>6 DEF TrainEvent
    <3> QED
      BY <2>1, <2>4, <2>5, <3>1 DEF Apart
  <2>7. CASE d \in D
    <3> DEFINE exit == start[o] + Due(p, o, "TRAIN_EXIT") + M
               w == Due(p, d, "TRAIN_APPROACH")
    <3>1. exit \in Int /\ w \in Int /\ LineTime(d) \in Int /\ later[d] = 0
      <4>1. Due(p, o, "TRAIN_EXIT") \in Nat /\ w \in Nat
        BY LineTimes DEF TrainEvent
      <4>2. LineTime(d) = Due(LastOf(d), d, "TRAIN_EXIT") /\ LastOf(d) \in P
        BY LineTimes
      <4>3. LineTime(d) \in Nat
        BY <4>2, LineTimes DEF TrainEvent
      <4> QED
        BY <1>1, <2>7, <4>1, <4>3 DEF Bounded
    <3>2. start[d] + LineTime(d) <= 0 /\ start[d] \in Int
      <4>1. ~Pending(LastOf(d), d, "TRAIN_EXIT")
        BY <1>2, <1>3, <2>7 DEF TrainEvent
      <4> QED
        BY <1>1, <3>1, <4>1 DEF OnLine, Scheduled
    <3>3. exit <= w \/ exit <= start[d] + LineTime(d) + w
      BY <2>1 DEF Apart
    <3>4. exit <= w /\ exit <= later[d] + w
      <4> HIDE DEF exit, w
      <4> QED
        BY <3>1, <3>2, <3>3
    <3> QED
      BY <2>4, <2>5, <3>4 DEF Apart
  <2> QED
    BY <2>6, <2>7
<1> QED
  BY <1>1, <1>4, <1>5, <1>6, LineConstant DEF OnLine

\* The line starts without trains.
LEMMA InitOnLine ==
  ASSUME Init, NEW M
  PROVE  LInv(M) /\ EventsTimed
<1>1. PICK start : start = [d \in Dir |-> -LineTime(d)]
  OBVIOUS
<1>2. DOMAIN events = {} /\ occupied = {}
  BY DEF Init
<1>3. \A p \in P, d \in Dir : crossings[p].track[d] = "NONE"
  BY DEF Init, crossing_init
<1>4. \A d \in Dir : LineTime(d) \in Nat
  <2>1. NUM_CROSSINGS \in P
    BY RailSimAssumption DEF P
  <2>2. \A d \in Dir : LineTime(d) = Due(LastOf(d), d, "TRAIN_EXIT") /\ LastOf(d) \in P
    BY <2>1, LineTimes
  <2> QED
    BY <2>2, LineTimes DEF TrainEvent
<1>5. /\ start \in [Dir -> Int]
      /\ \A d \in Dir : ~(start[d] + LineTime(d) > 0)
  BY <1>1, <1>4
<1>6. \A p, d, e : ~Pending(p, d, e)
  BY <1>2 DEF Pending
<1>7. Scheduled(start)
  BY <1>2, <1>5 DEF Scheduled
<1>8. \A p \in P, d \in Dir : Follows(p, d, start)
  BY <1>2, <1>3, <1>6 DEF Follows
<1>9. Spaced(start, M)
  BY <1>3 DEF Spaced
<1> QED
  BY <1>2, <1>5, <1>7, <1>8, <1>9 DEF LInv, OnLine, EventsTimed

\* Every step keeps the trains on the line.
LEMMA NextOnLine ==
  ASSUME IInv, EventsTimed, NEW M, Spacing(M), LInv(M), [Next]_vars
  PROVE  LInv(M)'
<1>0. PICK start : OnLine(start, M)
  BY DEF LInv
<1>1. Bounded(M) /\ "train" \notin Commands /\ "noexit" \notin Commands
      /\ "reset" \notin Commands
  BY DEF Spacing
<1> SUFFICES \E later : OnLine(later, M)'
  BY DEF LInv
<1>2. CASE Tick
  <2>1. PICK later : later = [d \in Dir |-> start[d] - time_scale]
    OBVIOUS
  <2> QED
    BY <1>0, <1>1, <1>2, <2>1, TickOnLine
<1>3. ASSUME NEW p, NEW r, NEW slot, NEW fired, Handled(p, r, slot, fired),
             \A i \in slot : events[i].event = "TIMER", UNCHANGED occupied,
             r.cx.fault = "NONE" =>
               crossings[p].fault = "NONE" /\ r.cx.track = crossings[p].track
      PROVE  OnLine(start, M)'
  <2>1. /\ p \in P /\ crossings'[p] = r.cx
        /\ \A o \in P \ {p} : crossings'[o] = crossings[o]
    BY <1>3, HandledCrossings
  <2>2. ASSUME NEW o \in P, NEW d \in Dir, NEW e \in TrainEvent, NEW i
        PROVE  /\ TrainSlot(i, o, e, d)' <=> TrainSlot(i, o, e, d)
               /\ TrainSlot(i, o, e, d)' => events'[i] = events[i]
    <3>1. TrainSlot(i, o, e, d) => i \notin slot
      BY <1>3 DEF TrainSlot, TrainEvent
    <3> QED
      BY <1>3, <3>1, HandledTrains
  <2> QED
    BY <1>0, <1>3, <2>1, <2>2, LineKept
<1>4. CASE GateMoved
  <2> DEFINE p == Min(DueGates)
             event == IF crossings[p].gate = "OPENING" THEN "GATE_OPENED" ELSE "GATE_CLOSED"
             r == crossing_handle_event(crossings[p], event, "UP", TRUE)
  <2>1. p \in P /\ Handled(p, r, {}, {}) /\ UNCHANGED occupied
    BY <1>4, GateResult DEF GateMoved
  <2>2. event \in {"GATE_CLOSED", "GATE_OPENED"} /\ crossings[p] \in CrossingState
    BY <2>1, CrossingOK
  <2> HIDE DEF p, event
  <2>3. TrackStep(crossings[p], r, event, "UP")
    BY <2>2, TrackSteps DEF TrainEvent
  <2> HIDE DEF r
  <2> QED
    BY <1>3, <2>1, <2>2, <2>3 DEF TrackStep, TrainEvent
<1>5. CASE Deliver
  <2> DEFINE i == Min(DueEvents)
             p == events[i].p
             event == events[i].event
             arg == events[i].arg
             r == ResultAt(i)
  <2>1. /\ i \in DueEvents /\ i \in DOMAIN events /\ Handled(p, r, {i}, FiredAt(i))
    BY <1>5, DeliverResult
  <2>2. occupied' = CASE event = "TRAIN_ENTER" -> occupied \cup {<<p, arg>>}
                      [] event = "TRAIN_EXIT" -> occupied \ {<<p, arg>>}
                      [] OTHER -> occupied
    BY <1>5, Zenon DEF Deliver
  <2> HIDE DEF i
  <2>3. events[i].left <= 0
    BY <2>1 DEF DueEvents
  <2>4. /\ p \in P /\ crossings[p] \in CrossingState
        /\ event # "TIMER" => event \in TrainEvent /\ arg \in Dir
        /\ event = "TIMER" => arg \in Timer
    BY <2>1, EventCases, CrossingOK DEF IInv
  <2>5. r = crossing_handle_event(crossings[p], event, arg, TRUE)
    BY DEF ResultAt
  <2>6. TrainSlot(i, p, event, arg)
    BY <2>1 DEF TrainSlot
  <2>7. \A k \in {i} : events[k].event = event
    OBVIOUS
  <2> HIDE DEF p, event, arg, r
  <2>8. TrackStep(crossings[p], r, event, arg)
    BY <2>4, <2>5, TrackSteps DEF TrainEvent
  <2>9. CASE event = "TIMER"
    BY <1>3, <2>1, <2>2, <2>7, <2>8, <2>9 DEF TrackStep, TrainEvent
  <2>10. CASE event # "TIMER"
    <3>1. /\ event = "TRAIN_APPROACH" => occupied' = occupied
          /\ event = "TRAIN_ENTER" => occupied' = occupied \cup {<<p, arg>>}
          /\ event = "TRAIN_EXIT" => occupied' = occupied \ {<<p, arg>>}
      BY <2>2
    <3> QED
      BY <1>0, <2>1, <2>3, <2>4, <2>6, <2>8, <2>10, <3>1, TrainHandled
  <2> QED
    BY <2>9, <2>10
<1>6. CASE TickDone \/ (\E n \in Scales : SetTimeScale(n)) \/ UNCHANGED vars
  <2>1. UNCHANGED <<crossings, events, occupied>>
    BY <1>6 DEF TickDone, SetTimeScale, vars
  <2>2. \A p, d, e, i : TrainSlot(i, p, e, d)' <=> TrainSlot(i, p, e, d)
    BY <2>1 DEF TrainSlot
  <2> QED
    BY <1>0, <2>1, <2>2, LineKept
<1>7. CASE TrainCommand
  <2>1. /\ UNCHANGED <<crossings, occupied>>
        /\ \E D \in SUBSET Dir : Added(P \X D, LineStart(P \X D), 3)
    BY <1>1, <1>7, TrainAdded
  <2>2. PICK D \in SUBSET Dir : Added(P \X D, LineStart(P \X D), 3)
    BY <2>1
  <2>3. PICK later : later = [d \in Dir |-> IF d \in D THEN 0 ELSE start[d]]
    OBVIOUS
  <2> QED
    BY <1>0, <1>1, <2>1, <2>2, <2>3, AddedOnLine
<1>8. CASE \E p \in P : InjectFault(p) \/ ResetFault(p)
  <2>1. PICK p \in P : Operate(p, "INJECT_FAULT")
    BY <1>1, <1>8 DEF InjectFault, ResetFault, Idle
  <2> DEFINE r == crossing_handle_event(crossings[p], "INJECT_FAULT", "UP", TRUE)
  <2>2. Handled(p, r, {}, {}) /\ UNCHANGED occupied
    BY <2>1, OperateResult DEF Operate
  <2>3. TrackStep(crossings[p], r, "INJECT_FAULT", "UP")
    BY CrossingOK, TrackSteps DEF TrainEvent
  <2> HIDE DEF r
  <2> QED
    BY <1>3, <2>2, <2>3 DEF TrackStep, TrainEvent
<1> QED
  BY <1>2, <1>4, <1>5, <1>6, <1>7, <1>8 DEF Next, Command, TrainCommand

\* A train on the line is on its crossing only with the gate down or the
\* crossing in fault, for every line and timing with such a spacing, faults
\* included: no warning is lost, so each train that enters is on its track.
THEOREM TrainsProtected ==
  ASSUME NEW CONSTANT M, Spacing(M)
  PROVE  Spec => []TrainProtected
<1>1. Init => LInv(M) /\ EventsTimed
  BY InitOnLine
<1>2. IInv /\ EventsTimed /\ LInv(M) /\ [Next]_vars => LInv(M)' /\ EventsTimed'
  BY NextOnLine, NextOnTime
<1>3. IInv /\ LInv(M) => TrainProtected
  <2> SUFFICES ASSUME IInv, LInv(M), NEW p \in P, NEW d \in Dir, <<p, d>> \in occupied
               PROVE  crossings[p].gate \in {"CLOSED", "FAULT"}
    BY DEF TrainProtected
  <2>1. PICK start : OnLine(start, M)
    BY DEF LInv
  <2>2. crossings[p].fault = "NONE" => crossings[p].track[d] = "ON_CROSSING"
    BY <2>1 DEF OnLine, Follows
  <2> QED
    BY <2>2, CrossingOK DEF CxInv
<1> QED
  BY <1>1, <1>2, <1>3, Invariance, PTL DEF Spec
=============================================================================
