--------------------------- MODULE CrossingSystem ---------------------------
(***************************************************************************)
(* One crossing on an arbitrary platform: train sensors, gate sensors,     *)
(* operator commands and timers may call crossing_handle_event in any      *)
(* order.  The platform keeps started timers in a queue.  A cancelled      *)
(* timer may or may not be withdrawn from it (ops->cancel_timer is an      *)
(* optional callback), so a stale expiry can still be delivered; it is     *)
(* only assumed not to outlive a full turn of its generation counter.      *)
(***************************************************************************)
EXTENDS Crossing

VARIABLES
  cx,         \* crossing_t, but for
  timer_gen,  \* its timer generations
  timers,     \* started timers not yet delivered, as <<timer, generation>>
  preempted   \* the last of PREEMPT and CLEAR sent to the Locals was PREEMPT

vars == <<cx, timer_gen, timers, preempted>>

TimerEvent == Timer \X (0 .. GEN_MOD - 1)

\* The expiry that crossing_handle_event would accept for timer t.
Live(t) == <<t, timer_gen[t]>>

Init ==
  /\ cx = crossing_init
  /\ timer_gen = timer_gen_init
  /\ timers = {}
  /\ preempted = FALSE

(***************************************************************************)
(* The platform after an event: entries of the cancelled timers may go     *)
(* ("gone"), an entry that carries a timer's new generation by wrap-around *)
(* is gone by assumption, and the started timer is queued.                 *)
(***************************************************************************)
Platform(queue, r) ==
  /\ cx' = r.cx
  /\ timer_gen' = Bump(timer_gen, r.cancel \cup r.start)
  /\ preempted' = ("PREEMPT" \in r.send \/ (preempted /\ "CLEAR" \notin r.send))
  /\ \E gone \in SUBSET {e \in queue : e[1] \in r.cancel} :
       timers' = {e \in queue \ gone : \/ e[1] \notin r.cancel \cup r.start
                                       \/ e[2] # timer_gen'[e[1]]}
                 \cup {<<t, timer_gen'[t]>> : t \in r.start}

Input(event, arg) == Platform(timers, crossing_handle_event(cx, event, arg, TRUE))

Approach(d) == Input("TRAIN_APPROACH", d)
Enter(d)    == Input("TRAIN_ENTER", d)
Exit(d)     == Input("TRAIN_EXIT", d)
GateClosed  == Input("GATE_CLOSED", "UP")
GateOpened  == Input("GATE_OPENED", "UP")
InjectFault == Input("INJECT_FAULT", "UP")
ResetFault  == Input("RESET_FAULT", "UP")

Expire(e) ==
  /\ e \in timers
  /\ Platform(timers \ {e}, crossing_handle_event(cx, "TIMER", e[1],
                                                e = Live(e[1])))

Next ==
  \/ \E d \in Dir : Approach(d) \/ Enter(d) \/ Exit(d)
  \/ GateClosed \/ GateOpened
  \/ InjectFault \/ ResetFault
  \/ \E e \in TimerEvent : Expire(e)

Spec == Init /\ [][Next]_vars

\* The tick thread delivers every started timer that is not cancelled.
Fairness == \A t \in Timer : WF_vars(Expire(Live(t)))

FairSpec == Spec /\ Fairness

-----------------------------------------------------------------------------
TypeOK ==
  /\ cx \in CrossingState
  /\ timer_gen \in Generations
  /\ timers \subseteq TimerEvent
  /\ preempted \in BOOLEAN

\* The interlock: while the crossing has a train on one of its tracks
\* (crossing.c:268) the boom gate is down, or the crossing is in fault.
GateDownForTrain ==
  (\E d \in Dir : cx.track[d] = "ON_CROSSING") => cx.gate \in {"CLOSED", "FAULT"}

\* The road lights flash from the warning until the gate is fully open again
\* with nobody coming, through faults and resets (README.md:338-350).
RoadWarned ==
  ~crossing_both_tracks_clear(cx) \/ cx.gate # "OPEN" => cx.flash_on

\* The Locals are never left released while a train is announced: once a
\* track is APPROACHING or ON_CROSSING, the last message they were sent is
\* PREEMPT, whatever faults, resets and aborted openings came in between
\* (crossing.c:224, 369-388).
LocalsHeld ==
  ~crossing_both_tracks_clear(cx) => preempted

\* A timer the crossing would act on is queued exactly while the thing it
\* times is under way: no gate movement, close delay or occupation is ever
\* left without its timeout, and no cancelled timer can still fault the
\* crossing (crossing.c:123-151, 165-185, 401-411).
Supervised ==
  \A t \in Timer : Live(t) \in timers <=> Awaited(cx, t)

\* A train that leaves a track while the other track is clear frees both:
\* CLEARED is only a waiting state, held while the other track's train is
\* still announced (crossing.c:302-316).
ClearedWaits ==
  \A d \in Dir : cx.track[d] = "CLEARED" =>
     \E o \in Dir : cx.track[o] \in {"APPROACHING", "ON_CROSSING"}

\* A fault is raised only for what really happened: an expired timeout whose
\* movement or train is still outstanding, a train entering past an open gate,
\* or an injection.  In particular a stale timer never raises one.
FaultGenuine ==
  [][cx'.fault # cx.fault =>
       CASE cx'.fault = "GATE_CLOSE_TIMEOUT" -> cx.gate = "CLOSING"
         [] cx'.fault = "GATE_OPEN_TIMEOUT" -> cx.gate = "OPENING"
         [] cx'.fault = "TRAIN_TIMEOUT" ->
              \E d \in Dir : cx.track[d] = "ON_CROSSING"
         [] cx'.fault = "TRAIN_EARLY" ->
              cx.gate # "CLOSED" /\ \E d \in Dir : cx.track[d] = "APPROACHING"
         [] OTHER -> TRUE]_vars

\* Every announced train finally gets a closed gate or a crossing in fault,
\* although its approach may fall into an opening or a reset check.
GateComesDown ==
  \A d \in Dir :
    cx.track[d] = "APPROACHING" ~> cx.gate \in {"CLOSED", "FAULT"}
=============================================================================
