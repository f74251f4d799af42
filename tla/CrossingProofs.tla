--------------------------- MODULE CrossingProofs ---------------------------
(***************************************************************************)
(* Safety of one crossing, for every generation modulus and every order of *)
(* events and stale timer expiries: the contracts of CrossingLemmas, taken *)
(* to the steps of CrossingSystem.                                         *)
(***************************************************************************)
EXTENDS CrossingSystem, CrossingLemmas

\* The inductive invariant.
IInv == Sound(cx, timer_gen, timers, preempted) /\ preempted \in BOOLEAN

\* A result that meets its contract takes IInv to IInv.
LEMMA PlatformStep ==
  ASSUME IInv, NEW queue, NEW r, NEW fired \in SUBSET Timer,
         queue \subseteq timers,
         \A t \in Timer : Live(t) \in queue <=> t \notin fired /\ Live(t) \in timers,
         Contract(cx, r, fired),
         Platform(queue, r)
  PROVE  IInv'
<1> DEFINE new == Bump(timer_gen, r.cancel \cup r.start)
<1>1. cx' = r.cx /\ timer_gen' = new
  BY DEF Platform
<1> HIDE DEF new
<1>2. PICK gone \in SUBSET {e \in queue : e[1] \in r.cancel} :
        timers' = QueueAfter(queue, r, new, gone)
  <2>1. PICK gone \in SUBSET {e \in queue : e[1] \in r.cancel} :
          timers' = {e \in queue \ gone : \/ e[1] \notin r.cancel \cup r.start
                                          \/ e[2] # timer_gen'[e[1]]}
                      \cup {<<t, timer_gen'[t]>> : t \in r.start}
    BY DEF Platform
  <2>2. timers' = QueueAfter(queue, r, new, gone)
    BY <1>1, <2>1, Zenon DEF QueueAfter
  <2> QED
    BY <2>2
<1>3. preempted' = ("PREEMPT" \in r.send \/ (preempted /\ "CLEAR" \notin r.send))
  BY DEF Platform
<1>4. \A t \in Timer :
        <<t, timer_gen[t]>> \in queue <=> t \notin fired /\ <<t, timer_gen[t]>> \in timers
  BY DEF Live
<1>5. Sound(cx, timer_gen, timers, preempted) /\ queue \in SUBSET timers
  BY DEF IInv
<1>6. Sound(r.cx, new, QueueAfter(queue, r, new, gone),
            "PREEMPT" \in r.send \/ (preempted /\ "CLEAR" \notin r.send))
  BY <1>2, <1>4, <1>5, ResultSound DEF new
<1> QED
  BY <1>1, <1>2, <1>3, <1>6 DEF IInv

\* The invariant holds of a freshly initialised crossing.
LEMMA InitInv == Init => IInv
BY InitSound DEF Init, IInv

\* Every event of every source preserves the invariant.
LEMMA NextInv == IInv /\ [Next]_vars => IInv'
<1> SUFFICES ASSUME IInv, [Next]_vars PROVE IInv'
  OBVIOUS
<1>0. cx \in CrossingState /\ CxInv(cx) /\ "UP" \in Dir
  BY DEF IInv, Sound, Dir
<1>1. ASSUME NEW event, NEW d, Input(event, d),
             Contract(cx, crossing_handle_event(cx, event, d, TRUE), {})
      PROVE  IInv'
  <2>1. \A t \in Timer : Live(t) \in timers <=> t \notin {} /\ Live(t) \in timers
    OBVIOUS
  <2>2. Platform(timers, crossing_handle_event(cx, event, d, TRUE))
    BY <1>1 DEF Input
  <2>3. {} \in SUBSET Timer /\ timers \subseteq timers
    OBVIOUS
  <2> QED
    BY <1>1, <2>1, <2>2, <2>3, PlatformStep
<1>2. ASSUME NEW d \in Dir, Approach(d) \/ Enter(d) \/ Exit(d)
      PROVE  IInv'
  BY <1>0, <1>1, <1>2, EventOK DEF Approach, Enter, Exit
<1>3. CASE GateClosed \/ GateOpened
  BY <1>0, <1>1, <1>3, EventOK DEF GateClosed, GateOpened
<1>4. CASE InjectFault \/ ResetFault
  BY <1>0, <1>1, <1>4, EventOK DEF InjectFault, ResetFault
<1>5. ASSUME NEW e \in TimerEvent, Expire(e)
      PROVE  IInv'
  <2> DEFINE q == timers \ {e}
  <2>0. e[1] \in Timer /\ e \in timers
    BY <1>5 DEF TimerEvent, Expire
  <2>1. CASE e = Live(e[1])
    <3>1. Awaited(cx, e[1])
      BY <2>0, <2>1 DEF IInv, Sound, Live
    <3>2. cx.fault = "NONE"
      BY <3>1, <2>0, <1>0 DEF Awaited, CxInv, Timer
    <3>3. Contract(cx, crossing_handle_event(cx, "TIMER", e[1], TRUE), {e[1]})
      BY <3>1, <3>2, <2>0, <1>0, ExpiryOK
    <3>4. \A t \in Timer : Live(t) \in q <=> t \notin {e[1]} /\ Live(t) \in timers
      BY <2>1 DEF Live
    <3>5. Platform(q, crossing_handle_event(cx, "TIMER", e[1], TRUE))
      BY <1>5, <2>1 DEF Expire
    <3> QED
      BY <3>3, <3>4, <3>5, <2>0, PlatformStep
  <2>2. CASE e # Live(e[1])
    <3>1. Contract(cx, crossing_handle_event(cx, "TIMER", e[1], FALSE), {})
      BY <2>0, <1>0, ExpiryOK
    <3>2. \A t \in Timer : Live(t) \in q <=> t \notin {} /\ Live(t) \in timers
      BY <2>2 DEF Live
    <3>3. Platform(q, crossing_handle_event(cx, "TIMER", e[1], FALSE))
      BY <1>5, <2>2 DEF Expire
    <3>4. {} \in SUBSET Timer /\ q \subseteq timers
      OBVIOUS
    <3> QED
      BY <3>1, <3>2, <3>3, <3>4, PlatformStep
  <2> QED
    BY <2>1, <2>2
<1>6. CASE UNCHANGED vars
  BY <1>6 DEF vars, IInv
<1> QED
  BY <1>2, <1>3, <1>4, <1>5, <1>6 DEF Next

-----------------------------------------------------------------------------
\* The invariant holds in every reachable state.
LEMMA Invariance == Spec => []IInv
BY InitInv, NextInv, PTL DEF Spec

\* Every state of a crossing is a crossing_t with its timers.
THEOREM TypeCorrect == Spec => []TypeOK
<1>1. IInv => TypeOK
  BY DEF IInv, Sound, TypeOK, TimerEvent
<1> QED
  BY <1>1, Invariance, PTL

\* The interlock: a train that the crossing lets onto it has the gate down
\* (or the crossing in fault) for as long as it is there.
THEOREM Interlock == Spec => []GateDownForTrain
<1>1. IInv => GateDownForTrain
  BY DEF IInv, Sound, CxInv, GateDownForTrain
<1> QED
  BY <1>1, Invariance, PTL

\* The road lights flash whenever a train is announced or the gate is not
\* fully open.
THEOREM Warned == Spec => []RoadWarned
<1>1. IInv => RoadWarned
  BY DEF IInv, Sound, CxInv, RoadWarned
<1> QED
  BY <1>1, Invariance, PTL

\* The Locals are never the last to hear CLEAR while a train is announced.
THEOREM Held == Spec => []LocalsHeld
<1>1. IInv => LocalsHeld
  BY DEF IInv, Sound, LocalsHeld
<1> QED
  BY <1>1, Invariance, PTL

\* The timers that can still act are exactly the ones being waited for.
THEOREM Supervision == Spec => []Supervised
<1>1. IInv => Supervised
  BY DEF IInv, Sound, Supervised, Live
<1> QED
  BY <1>1, Invariance, PTL

\* CLEARED is held only while the other track's train is announced.
THEOREM ClearedIsWaiting == Spec => []ClearedWaits
<1>1. IInv => ClearedWaits
  BY DEF IInv, Sound, CxInv, ClearedWaits
<1> QED
  BY <1>1, Invariance, PTL

-----------------------------------------------------------------------------
(***************************************************************************)
(* Faults.                                                                 *)
(***************************************************************************)

\* Fault f is about something that is the case at crossing c.
Genuine(c, f) ==
  CASE f = "GATE_CLOSE_TIMEOUT" -> c.gate = "CLOSING"
    [] f = "GATE_OPEN_TIMEOUT" -> c.gate = "OPENING"
    [] f = "TRAIN_TIMEOUT" -> \E d \in Dir : c.track[d] = "ON_CROSSING"
    [] f = "TRAIN_EARLY" -> c.gate # "CLOSED" /\ \E d \in Dir : c.track[d] = "APPROACHING"
    [] OTHER -> TRUE

\* An event at c raises no fault without cause.
Excused(c, r) == r.cx.fault # c.fault => Genuine(c, r.cx.fault)

\* Of the events but the expiries only a train entering early raises a fault
\* of its own accord; an injected one, and a reset, owe nothing.
LEMMA EventFault ==
  ASSUME NEW c \in CrossingState, NEW d \in Dir
  PROVE  /\ Excused(c, crossing_handle_event(c, "TRAIN_APPROACH", d, TRUE))
         /\ Excused(c, crossing_handle_event(c, "TRAIN_ENTER", d, TRUE))
         /\ Excused(c, crossing_handle_event(c, "TRAIN_EXIT", d, TRUE))
         /\ Excused(c, crossing_handle_event(c, "GATE_CLOSED", d, TRUE))
         /\ Excused(c, crossing_handle_event(c, "GATE_OPENED", d, TRUE))
         /\ Excused(c, crossing_handle_event(c, "INJECT_FAULT", d, TRUE))
         /\ Excused(c, crossing_handle_event(c, "RESET_FAULT", d, TRUE))
<1> USE DEF CrossingState, Excused, Effect
<1>0. Excused(c, Nothing(c))
  BY DEF Nothing
<1>1. Excused(c, on_approach(c, d))
  BY DEF on_approach, start_gate_close, Nothing
<1>2. Excused(c, on_enter(c, d))
  BY DEF on_enter, enter_fault, Nothing, Genuine
<1>3. Excused(c, on_exit(c, d))
  BY DEF on_exit, start_gate_open, Nothing
<1>4. Excused(c, on_gate_closed(c))
  BY DEF on_gate_closed, start_gate_open, Nothing
<1>5. Excused(c, on_gate_opened(c))
  BY DEF on_gate_opened, start_gate_close, Nothing
<1>6. Excused(c, enter_fault(c, "INJECTED"))
  BY DEF enter_fault, Genuine
<1>7. Excused(c, on_reset(c))
  BY DEF on_reset, Nothing, Genuine
<1> QED
  BY <1>0, <1>1, <1>2, <1>3, <1>4, <1>5, <1>6, <1>7 DEF crossing_handle_event

\* An accepted expiry faults for what its timer still supervises.
LEMMA ExpiryFault ==
  ASSUME NEW c \in CrossingState, NEW t \in Timer
  PROVE  /\ Excused(c, crossing_handle_event(c, "TIMER", t, FALSE))
         /\ Awaited(c, t) => Excused(c, crossing_handle_event(c, "TIMER", t, TRUE))
<1> USE DEF CrossingState, Excused, Effect
<1>0. Excused(c, Nothing(c))
  BY DEF Nothing
<1>1. Excused(c, on_timer(c, t, FALSE))
  BY <1>0 DEF on_timer
<1>2. ASSUME Awaited(c, t) PROVE Excused(c, on_timer(c, t, TRUE))
  <2>1. CASE t = "CLOSE_DELAY"
    BY <2>1 DEF on_timer, start_gate_close
  <2>2. CASE t = "CLOSE_TIMEOUT"
    BY <1>2, <2>2 DEF on_timer, enter_fault, Awaited, Genuine
  <2>3. CASE t = "OPEN_TIMEOUT"
    BY <1>2, <2>3 DEF on_timer, enter_fault, Awaited, Genuine
  <2>4. CASE t \in {"TRAIN_TIMEOUT_UP", "TRAIN_TIMEOUT_DOWN"}
    BY <1>2, <2>4 DEF on_timer, enter_fault, Awaited, Genuine, Dir
  <2> QED
    BY <2>1, <2>2, <2>3, <2>4 DEF Timer
<1> QED
  BY <1>0, <1>1, <1>2 DEF crossing_handle_event

\* A fault is raised only for what really happened; a stale timer never does.
THEOREM FaultsAreGenuine == Spec => FaultGenuine
<1> DEFINE Kept == cx'.fault # cx.fault => Genuine(cx, cx'.fault)
<1>1. ASSUME IInv, Next PROVE Kept
  <2>0. cx \in CrossingState /\ Supervised /\ "UP" \in Dir
    BY <1>1 DEF IInv, Sound, Supervised, Live, Dir
  <2>1. ASSUME NEW d \in Dir, Approach(d) \/ Enter(d) \/ Exit(d)
        PROVE  Kept
    BY <2>0, <2>1, EventFault DEF Approach, Enter, Exit, Input, Platform, Excused
  <2>2. CASE GateClosed \/ GateOpened
    BY <2>0, <2>2, EventFault DEF GateClosed, GateOpened, Input, Platform, Excused
  <2>3. CASE InjectFault \/ ResetFault
    BY <2>0, <2>3, EventFault DEF InjectFault, ResetFault, Input, Platform, Excused
  <2>4. ASSUME NEW e \in TimerEvent, Expire(e) PROVE Kept
    <3>1. e[1] \in Timer /\ e \in timers
      BY <2>4 DEF TimerEvent, Expire
    <3>2. CASE e = Live(e[1])
      <4>1. Awaited(cx, e[1])
        BY <2>0, <3>1, <3>2 DEF Supervised
      <4>2. cx' = crossing_handle_event(cx, "TIMER", e[1], TRUE).cx
        BY <2>4, <3>2 DEF Expire, Platform
      <4> QED
        BY <2>0, <3>1, <4>1, <4>2, ExpiryFault DEF Excused
    <3>3. CASE e # Live(e[1])
      <4>1. cx' = crossing_handle_event(cx, "TIMER", e[1], FALSE).cx
        BY <2>4, <3>3 DEF Expire, Platform
      <4> QED
        BY <2>0, <3>1, <4>1, ExpiryFault DEF Excused
    <3> QED
      BY <3>2, <3>3
  <2> QED
    BY <1>1, <2>1, <2>2, <2>3, <2>4 DEF Next
<1>2. IInv /\ [Next]_vars => [Kept]_vars
  BY <1>1
<1> QED
  BY <1>2, Invariance, PTL DEF Spec, FaultGenuine, Genuine
=============================================================================
