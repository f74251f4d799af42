------------------------------- MODULE RailSim -------------------------------
(***************************************************************************)
(* The railway simulator of rail_sim.c: a line of crossings, the event     *)
(* queue with its slots, the moving gates, the clock tick and the console  *)
(* commands.  One mutex (sim_mutex) serialises the tick, the console and   *)
(* the IPC threads, so a command never falls inside a tick; within a tick  *)
(* the due gates are handled first, then the due events in slot order.     *)
(*                                                                         *)
(* Time is relative: a queued event carries the time left until it is due, *)
(* in units of which SEC make a second, and a tick takes time_scale units  *)
(* off all of them.  With SEC = 10 and Scales = 1 .. 100 the unit is       *)
(* SIM_TICK_MS and the scales are those of the "scale" command.            *)
(***************************************************************************)
EXTENDS Crossing, FiniteSetsExt, Sequences

CONSTANTS
  NUM_CROSSINGS,            \* 3 (P1, P2, P3)
  MAX_PENDING_EVENTS,       \* 64
  GATE_CLOSE_DELAY_SEC,     \* 5
  GATE_MOVE_SEC,            \* 3
  GATE_CLOSE_TIMEOUT_SEC,   \* 10
  GATE_OPEN_TIMEOUT_SEC,    \* 10
  TRAIN_TIMEOUT_SEC,        \* 60
  TRAIN_WARNING_SEC,        \* 10
  TRAIN_LENGTH_SEC,         \* 7
  DISTANCE_SEC,             \* <<15, 15>>: P1-P2, P2-P3
  SEC,                      \* time units per second
  Scales,                   \* time units per tick that "scale" may choose
  Commands                  \* the console commands this instance issues

ASSUME RailSimAssumption ==
  /\ NUM_CROSSINGS \in Nat \ {0}
  /\ MAX_PENDING_EVENTS \in Nat
  /\ MAX_PENDING_EVENTS >= NUM_CROSSINGS * Cardinality(Timer)
  /\ SEC \in Nat \ {0}
  /\ Scales \subseteq Nat \ {0} /\ Scales # {}
  /\ Commands \subseteq {"train-both", "train-up", "train-down", "train",
                         "noexit", "fault", "reset", "scale"}
  /\ {GATE_CLOSE_DELAY_SEC, GATE_MOVE_SEC, GATE_CLOSE_TIMEOUT_SEC,
      GATE_OPEN_TIMEOUT_SEC, TRAIN_TIMEOUT_SEC, TRAIN_WARNING_SEC,
      TRAIN_LENGTH_SEC} \subseteq Nat \ {0}
  /\ DISTANCE_SEC \in [1 .. NUM_CROSSINGS - 1 -> Nat \ {0}]

VARIABLES
  crossings,   \* [P -> CrossingState]
  timer_gen,   \* [P -> Generations]
  events,      \* the active slots of sim.events, as a function from slots
  gates,       \* time left of each moving gate (move_complete_ms >= 0)
  time_scale,  \* units per tick
  ticking,     \* inside rail_sim_tick
  preempted,   \* history: the crossings whose last message to the Locals is PREEMPT
  occupied     \* history: <<p, dir>> with a train between its ENTER and its EXIT

vars == <<crossings, timer_gen, events, gates, time_scale, ticking, preempted,
          occupied>>

P == 1 .. NUM_CROSSINGS
Slots == 1 .. MAX_PENDING_EVENTS
TrainEvent == {"TRAIN_APPROACH", "TRAIN_ENTER", "TRAIN_EXIT"}
Event ==
  [left: Int, p: P, event: TrainEvent, arg: Dir, gen: {0}]
    \cup [left: Int, p: P, event: {"TIMER"}, arg: Timer, gen: 0 .. GEN_MOD - 1]

TIMER_EVENT_RESERVE == NUM_CROSSINGS * Cardinality(Timer)

Seconds(timer) ==
  CASE timer = "CLOSE_DELAY" -> GATE_CLOSE_DELAY_SEC
    [] timer = "CLOSE_TIMEOUT" -> GATE_CLOSE_TIMEOUT_SEC
    [] timer = "OPEN_TIMEOUT" -> GATE_OPEN_TIMEOUT_SEC
    [] OTHER -> TRAIN_TIMEOUT_SEC

Init ==
  /\ crossings = [p \in P |-> crossing_init]
  /\ timer_gen = [p \in P |-> timer_gen_init]
  /\ events = << >>
  /\ gates = << >>
  /\ time_scale \in Scales
  /\ ticking = FALSE
  /\ preempted = {}
  /\ occupied = {}

-----------------------------------------------------------------------------
(***************************************************************************)
(* The event queue.                                                        *)
(***************************************************************************)
Without(f, S) == [x \in DOMAIN f \ S |-> f[x]]
With(f, x, v) == [y \in DOMAIN f \cup {x} |-> IF y = x THEN v ELSE f[y]]

\* The first inactive slot takes the event; a full queue ignores it.
queue_event(evs, ev) ==
  LET free == Slots \ DOMAIN evs
  IN  IF free = {} THEN evs ELSE With(evs, Min(free), ev)

\* One queue_event after the other: the n-th of them takes the n-th inactive
\* slot, and those that find no slot are ignored.
queue_events(evs, seq) ==
  LET free == Slots \ DOMAIN evs
      Rank(i) == Cardinality({j \in free : j <= i})
      taken == {i \in free : Rank(i) <= Len(seq)}
  IN  [i \in DOMAIN evs \cup taken |->
         IF i \in taken THEN seq[Rank(i)] ELSE evs[i]]

TrainAt(p, event, dir, seconds) ==
  [left |-> seconds * SEC, p |-> p, event |-> event, arg |-> dir, gen |-> 0]

\* Mutant: the event carries another generation than the crossing expects.
rail_sim_start_timer_WrongGen(evs, p, timer, gen) ==
  queue_event(evs, [left |-> Seconds(timer) * SEC, p |-> p, event |-> "TIMER",
                    arg |-> timer, gen |-> (gen + 1) % GEN_MOD])

rail_sim_start_timer(evs, p, timer, gen) ==
  queue_event(evs, [left |-> Seconds(timer) * SEC, p |-> p, event |-> "TIMER",
                    arg |-> timer, gen |-> gen])

rail_sim_cancel_timer(evs, p, cancelled) ==
  Without(evs, {i \in DOMAIN evs : /\ evs[i].p = p
                                   /\ evs[i].event = "TIMER"
                                   /\ evs[i].arg \in cancelled})

(***************************************************************************)
(* The callbacks of one crossing event: cx_ops_t as train_controller.c     *)
(* binds it to the simulator.  "slot" is the queue slot being delivered,   *)
(* released only after the handler returned.  No handler starts more than  *)
(* one timer.                                                              *)
(***************************************************************************)
Callbacks(p, r, slot) ==
  LET gen == Bump(timer_gen[p], r.cancel \cup r.start)
      left == rail_sim_cancel_timer(events, p, r.cancel)
      started == IF r.start = {} THEN left
                 ELSE LET t == CHOOSE t \in r.start : TRUE
                      IN  rail_sim_start_timer(left, p, t, gen[t])
  IN  /\ crossings' = [crossings EXCEPT ![p] = r.cx]
      /\ timer_gen' = [timer_gen EXCEPT ![p] = gen]
      /\ events' = Without(started, slot)
      /\ preempted' = IF "PREEMPT" \in r.send THEN preempted \cup {p}
                      ELSE IF "CLEAR" \in r.send THEN preempted \ {p}
                      ELSE preempted

\* GATE_CMD_OPEN and GATE_CMD_CLOSE alike restart the gate's movement time.
rail_sim_gate_command(moving, p, r) ==
  IF r.move THEN With(moving, p, GATE_MOVE_SEC * SEC) ELSE moving

-----------------------------------------------------------------------------
(***************************************************************************)
(* rail_sim_tick: time advances, then every due gate and every due event   *)
(* is handled, each as one step.  The handlers only queue events for later *)
(* times, so the set of due events never grows during the tick.            *)
(***************************************************************************)
DueGates == {p \in DOMAIN gates : gates[p] <= 0}
DueEvents == {i \in DOMAIN events : events[i].left <= 0}

Tick ==
  /\ ~ticking
  /\ ticking' = TRUE
  /\ gates' = [p \in DOMAIN gates |-> gates[p] - time_scale]
  /\ events' = [i \in DOMAIN events |->
                  [events[i] EXCEPT !.left = @ - time_scale]]
  /\ UNCHANGED <<crossings, timer_gen, time_scale, preempted, occupied>>

GateMoved ==
  /\ ticking /\ DueGates # {}
  /\ LET p == Min(DueGates)
         gate == crossings[p].gate
         r == IF gate \in {"CLOSING", "OPENING"}
              THEN crossing_handle_event(crossings[p],
                     IF gate = "CLOSING" THEN "GATE_CLOSED" ELSE "GATE_OPENED",
                     "UP", TRUE)
              ELSE Nothing(crossings[p])
     IN  /\ Callbacks(p, r, {})
         /\ gates' = rail_sim_gate_command(Without(gates, {p}), p, r)
  /\ UNCHANGED <<time_scale, ticking, occupied>>

Deliver ==
  /\ ticking /\ DueGates = {} /\ DueEvents # {}
  /\ LET i == Min(DueEvents)
         ev == events[i]
         current == ev.event = "TIMER" => ev.gen = timer_gen[ev.p][ev.arg]
         r == crossing_handle_event(crossings[ev.p], ev.event, ev.arg, current)
     IN  /\ Callbacks(ev.p, r, {i})
         /\ gates' = rail_sim_gate_command(gates, ev.p, r)
         /\ occupied' = CASE ev.event = "TRAIN_ENTER" -> occupied \cup {<<ev.p, ev.arg>>}
                          [] ev.event = "TRAIN_EXIT" -> occupied \ {<<ev.p, ev.arg>>}
                          [] OTHER -> occupied
  /\ UNCHANGED <<time_scale, ticking>>

TickDone ==
  /\ ticking /\ DueGates = {} /\ DueEvents = {}
  /\ ticking' = FALSE
  /\ UNCHANGED <<crossings, timer_gen, events, gates, time_scale, preempted,
                 occupied>>

-----------------------------------------------------------------------------
(***************************************************************************)
(* rail_sim_command.  A refused command (BUSY) changes nothing.            *)
(***************************************************************************)
train_pending(p, dir) ==
  \E i \in DOMAIN events : /\ events[i].p = p
                           /\ events[i].event \in TrainEvent
                           /\ events[i].arg = dir

\* Mutant: the trains still pending are not looked for.
can_start_train_NoPendingCheck(targets, dir, n) ==
  Cardinality(Slots \ DOMAIN events) >= n + TIMER_EVENT_RESERVE

can_start_train(targets, dir, n) ==
  /\ \A p \in targets : ~train_pending(p, dir)
  /\ Cardinality(Slots \ DOMAIN events) >= n + TIMER_EVENT_RESERVE

\* UP runs P3, P2, P1 and DOWN runs P1, P2, P3: the k-th crossing of the
\* route, and the seconds its warning comes after the first one's.
Route(dir) == [k \in P |-> IF dir = "UP" THEN NUM_CROSSINGS + 1 - k ELSE k]
Travel(dir) ==
  LET travelled[k \in P] ==
        IF k = 1 THEN 0
        ELSE travelled[k - 1]
               + DISTANCE_SEC[IF dir = "UP" THEN NUM_CROSSINGS + 1 - k ELSE k - 1]
  IN  travelled

\* A train at one crossing: warned, entered and cleared.
Passage(p, dir, warning) ==
  << TrainAt(p, "TRAIN_APPROACH", dir, warning),
     TrainAt(p, "TRAIN_ENTER", dir, warning + TRAIN_WARNING_SEC),
     TrainAt(p, "TRAIN_EXIT", dir, warning + TRAIN_WARNING_SEC + TRAIN_LENGTH_SEC) >>

\* The passages of its crossings, one after the other.
simulate_train_on_line(dir) ==
  [n \in 1 .. 3 * NUM_CROSSINGS |->
     LET k == (n + 2) \div 3
     IN  Passage(Route(dir)[k], dir, Travel(dir)[k])[n - 3 * (k - 1)]]

\* Mutant: the warning is as long as the close delay.
simulate_train_at_crossing_ShortWarning(p, dir, no_exit) ==
  SubSeq(<< TrainAt(p, "TRAIN_APPROACH", dir, 0),
            TrainAt(p, "TRAIN_ENTER", dir, GATE_CLOSE_DELAY_SEC),
            TrainAt(p, "TRAIN_EXIT", dir, GATE_CLOSE_DELAY_SEC + TRAIN_LENGTH_SEC) >>,
         1, IF no_exit THEN 2 ELSE 3)

simulate_train_at_crossing(p, dir, no_exit) ==
  SubSeq(Passage(p, dir, 0), 1, IF no_exit THEN 2 ELSE 3)

Queue(seq) ==
  /\ events' = queue_events(events, seq)
  /\ UNCHANGED <<crossings, timer_gen, gates, time_scale, ticking, preempted,
                 occupied>>

Idle(command) == command \in Commands /\ ~ticking

TrainBoth ==
  /\ Idle("train-both")
  /\ \A dir \in Dir : can_start_train(P, dir, 6 * NUM_CROSSINGS)
  /\ Queue(simulate_train_on_line("UP") \o simulate_train_on_line("DOWN"))

TrainOnLine(dir) ==
  /\ Idle(IF dir = "UP" THEN "train-up" ELSE "train-down")
  /\ can_start_train(P, dir, 3 * NUM_CROSSINGS)
  /\ Queue(simulate_train_on_line(dir))

TrainAtCrossing(p, dir) ==
  /\ Idle("train")
  /\ can_start_train({p}, dir, 3)
  /\ Queue(simulate_train_at_crossing(p, dir, FALSE))

NoExit(p, dir) ==
  /\ Idle("noexit")
  /\ can_start_train({p}, dir, 2)
  /\ Queue(simulate_train_at_crossing(p, dir, TRUE))

Operate(p, event) ==
  LET r == crossing_handle_event(crossings[p], event, "UP", TRUE)
  IN  /\ Callbacks(p, r, {})
      /\ gates' = rail_sim_gate_command(gates, p, r)
      /\ UNCHANGED <<time_scale, ticking, occupied>>

InjectFault(p) == Idle("fault") /\ Operate(p, "INJECT_FAULT")

ResetFault(p) == Idle("reset") /\ Operate(p, "RESET_FAULT")

SetTimeScale(n) ==
  /\ Idle("scale")
  /\ time_scale' = n
  /\ UNCHANGED <<crossings, timer_gen, events, gates, ticking, preempted,
                 occupied>>

Command ==
  \/ TrainBoth
  \/ \E dir \in Dir : TrainOnLine(dir)
  \/ \E p \in P, dir \in Dir : TrainAtCrossing(p, dir) \/ NoExit(p, dir)
  \/ \E p \in P : InjectFault(p) \/ ResetFault(p)
  \/ \E n \in Scales : SetTimeScale(n)

Next == Tick \/ GateMoved \/ Deliver \/ TickDone \/ Command

Spec == Init /\ [][Next]_vars

\* The tick thread runs for ever; nobody has to issue commands.
FairSpec == Spec /\ WF_vars(Tick) /\ WF_vars(GateMoved) /\ WF_vars(Deliver)
                 /\ WF_vars(TickDone)

-----------------------------------------------------------------------------
(***************************************************************************)
(* Each crossing of the line is a CrossingSystem whose platform is this    *)
(* simulator: the queued TIMER events are its timers.                      *)
(***************************************************************************)
QueuedTimers(p) ==
  {<<events[i].arg, events[i].gen>> :
     i \in {j \in DOMAIN events : events[j].p = p /\ events[j].event = "TIMER"}}

Cx(p) == INSTANCE CrossingSystem WITH
           cx <- crossings[p], timer_gen <- timer_gen[p],
           timers <- QueuedTimers(p), preempted <- (p \in preempted)

P1System == INSTANCE CrossingSystem WITH
              cx <- crossings[1], timer_gen <- timer_gen[1],
              timers <- QueuedTimers(1), preempted <- (1 \in preempted)

\* Every variable has its type.
TypeOK ==
  /\ crossings \in [P -> CrossingState]
  /\ timer_gen \in [P -> Generations]
  /\ DOMAIN events \subseteq Slots
  /\ \A i \in DOMAIN events : events[i] \in Event
  /\ DOMAIN gates \subseteq P
  /\ \A p \in DOMAIN gates : gates[p] \in Int
  /\ time_scale \in Scales
  /\ ticking \in BOOLEAN
  /\ preempted \subseteq P
  /\ occupied \subseteq P \X Dir

\* The simulator implements the crossing's platform: each step of the line is
\* a legal step of P1's crossing or leaves it alone.
P1Implements == P1System!Spec

\* start_timer ignores a full queue (rail_sim.c:131, 318): the reserve that
\* can_start_train keeps makes sure it never is, and the slot released after
\* a delivery (rail_sim.c:273) never holds a timer its handler has started.  So
\* every gate movement, close delay and occupation has its timer queued, and no
\* slot holds anything but a well-formed event.
TimersQueued == TypeOK /\ \A p \in P : Cx(p)!Supervised

\* The warning leaves time to close the gate (crossing_config.h:41-46): on
\* healthy equipment no train is early and no gate movement times out, also
\* when the warning falls into an opening or into the check after a reset.
GateInTime ==
  \A p \in P : crossings[p].fault \notin
    {"TRAIN_EARLY", "GATE_CLOSE_TIMEOUT", "GATE_OPEN_TIMEOUT"}

\* A train that is really on a crossing, from its ENTER to its EXIT, has the
\* gate down or the crossing in fault (README.md:340, 347).
TrainProtected ==
  \A p \in P, d \in Dir :
    <<p, d>> \in occupied => crossings[p].gate \in {"CLOSED", "FAULT"}

\* Once no more trains come, the Locals of a crossing are released again or
\* the crossing shows a fault: no PREEMPT stays unanswered.
ServiceRestored ==
  \A p \in P :
    <>[](\A d \in Dir : ~train_pending(p, d))
      => []<>(p \notin preempted \/ crossings[p].fault # "NONE")
=============================================================================
