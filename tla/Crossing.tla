------------------------------ MODULE Crossing ------------------------------
(***************************************************************************)
(* The logic of one railway level crossing: crossing_t and                 *)
(* crossing_handle_event of crossing.c.                                    *)
(*                                                                         *)
(* The C functions update *cx and call back into the platform (cx_ops_t).  *)
(* Here each of them maps a result record to a result record:              *)
(*   cx      the crossing after the call (all but its timer generations),  *)
(*   cancel  the timers passed to ops->cancel_timer,                       *)
(*   start   the timers passed to ops->start_timer,                        *)
(*   move    whether ops->gate_command was called,                         *)
(*   send    the messages handed to the platform (PREEMPT, CLEAR, ALERT).  *)
(* Within one event every cancellation comes before the start, no handler  *)
(* starts two timers and none cancels the timer it starts, so sets lose    *)
(* nothing of the order.  Timestamps, names and state_changed are display  *)
(* only.                                                                   *)
(***************************************************************************)
EXTENDS Integers, FiniteSets

CONSTANT GEN_MOD    \* timer generations are counted modulo this (uint32_t: 2^32)

ASSUME GenModAssumption == GEN_MOD \in Nat \ {0, 1}

Dir == {"UP", "DOWN"}
TrackState == {"NONE", "APPROACHING", "ON_CROSSING", "CLEARED"}
GateState == {"OPEN", "CLOSING", "CLOSED", "OPENING", "FAULT"}
FaultKind == {"NONE", "GATE_CLOSE_TIMEOUT", "GATE_OPEN_TIMEOUT",
              "TRAIN_TIMEOUT", "TRAIN_EARLY", "INJECTED"}
Timer == {"CLOSE_DELAY", "CLOSE_TIMEOUT", "OPEN_TIMEOUT",
          "TRAIN_TIMEOUT_UP", "TRAIN_TIMEOUT_DOWN"}
Message == {"PREEMPT", "CLEAR", "ALERT"}

TRAIN_TIMEOUT_TIMER(dir) ==
  IF dir = "DOWN" THEN "TRAIN_TIMEOUT_DOWN" ELSE "TRAIN_TIMEOUT_UP"

CrossingState ==
  [track: [Dir -> TrackState], gate: GateState, flash_on: BOOLEAN,
   fault: FaultKind, reset_pending: BOOLEAN, close_delay_pending: BOOLEAN]

Generations == [Timer -> 0 .. GEN_MOD - 1]

crossing_init ==
  [track |-> [d \in Dir |-> "NONE"], gate |-> "OPEN", flash_on |-> FALSE,
   fault |-> "NONE", reset_pending |-> FALSE, close_delay_pending |-> FALSE]

timer_gen_init == [t \in Timer |-> 0]

crossing_both_tracks_clear(cx) ==
  \A d \in Dir : cx.track[d] \in {"NONE", "CLEARED"}

-----------------------------------------------------------------------------
(***************************************************************************)
(* Results, and the timer generations after one.  Cancelling and starting  *)
(* a timer both move its generation on; a handler that moves one twice is  *)
(* modelled as moving it once, because generations are only ever compared  *)
(* for equality.                                                           *)
(***************************************************************************)
Effect(cx, cancel, start, move, send) ==
  [cx |-> cx, cancel |-> cancel, start |-> start, move |-> move, send |-> send]

Nothing(cx) == Effect(cx, {}, {}, FALSE, {})

\* Mutant: the counter does not wrap.
Bump_NoWrap(gen, S) == [t \in Timer |-> IF t \in S THEN gen[t] + 1 ELSE gen[t]]

Bump(gen, S) ==
  [t \in Timer |-> IF t \in S THEN (gen[t] + 1) % GEN_MOD ELSE gen[t]]

\* Mutant: the flashing lights are left as they are.
enter_fault_Dark(cx, fault) ==
  Effect([cx EXCEPT !.fault = fault, !.gate = "FAULT",
                    !.close_delay_pending = FALSE],
         Timer, {}, FALSE, {"ALERT"})

enter_fault(cx, fault) ==
  Effect([cx EXCEPT !.fault = fault, !.gate = "FAULT",
                    !.close_delay_pending = FALSE, !.flash_on = TRUE],
         Timer, {}, FALSE, {"ALERT"})

\* Also takes what the caller has already cancelled and sent.
start_gate_close(cx, cancel, send) ==
  IF cx.gate \in {"OPEN", "OPENING"}
  THEN Effect([cx EXCEPT !.gate = "CLOSING", !.close_delay_pending = FALSE],
              IF cx.gate = "OPENING" THEN cancel \cup {"OPEN_TIMEOUT"}
                                     ELSE cancel,
              {"CLOSE_TIMEOUT"}, TRUE, send)
  ELSE Effect(cx, cancel, {}, FALSE, send)

start_gate_open(cx, cancel) ==
  IF cx.gate \in {"CLOSED", "CLOSING"}
  THEN Effect([cx EXCEPT !.gate = "OPENING", !.close_delay_pending = FALSE],
              cancel \cup {"CLOSE_DELAY", "CLOSE_TIMEOUT"},
              {"OPEN_TIMEOUT"}, TRUE, {})
  ELSE Effect(cx, cancel, {}, FALSE, {})

-----------------------------------------------------------------------------
(***************************************************************************)
(* The cases of crossing_handle_event, for a crossing without a fault.     *)
(***************************************************************************)
on_approach(cx, dir) ==
  LET warned == [cx EXCEPT !.track = [cx.track EXCEPT ![dir] = "APPROACHING"],
                           !.flash_on = TRUE]
  IN  IF cx.track[dir] # "NONE" THEN Nothing(cx)
      ELSE IF cx.gate = "OPEN" /\ ~cx.close_delay_pending
      THEN Effect([warned EXCEPT !.close_delay_pending = TRUE],
                  {}, {"CLOSE_DELAY"}, FALSE, {"PREEMPT"})
      ELSE IF cx.gate = "OPENING"
      THEN start_gate_close(warned, {}, {"PREEMPT"})
      ELSE Effect(warned, {}, {}, FALSE, {"PREEMPT"})

\* Mutant: the gate is not checked.
on_enter_Unchecked(cx, dir) ==
  IF cx.track[dir] # "APPROACHING" THEN Nothing(cx)
  ELSE Effect([cx EXCEPT !.track = [cx.track EXCEPT ![dir] = "ON_CROSSING"]],
              {}, {TRAIN_TIMEOUT_TIMER(dir)}, FALSE, {})

on_enter(cx, dir) ==
  IF cx.track[dir] # "APPROACHING" THEN Nothing(cx)
  ELSE IF cx.gate # "CLOSED" THEN enter_fault(cx, "TRAIN_EARLY")
  ELSE Effect([cx EXCEPT !.track = [cx.track EXCEPT ![dir] = "ON_CROSSING"]],
              {}, {TRAIN_TIMEOUT_TIMER(dir)}, FALSE, {})

\* Mutant: the train timeout is not cancelled.
on_exit_TimerLeft(cx, dir) ==
  LET left == [cx EXCEPT !.track = [cx.track EXCEPT ![dir] = "CLEARED"]]
  IN  IF cx.track[dir] # "ON_CROSSING" THEN Nothing(cx)
      ELSE IF crossing_both_tracks_clear(left)
      THEN start_gate_open([cx EXCEPT !.track = [d \in Dir |-> "NONE"]], {})
      ELSE Nothing(left)

\* Mutant: CLEARED is not reset when both tracks are clear.
on_exit_StaysCleared(cx, dir) ==
  LET left == [cx EXCEPT !.track = [cx.track EXCEPT ![dir] = "CLEARED"]]
      timeout == {TRAIN_TIMEOUT_TIMER(dir)}
  IN  IF cx.track[dir] # "ON_CROSSING" THEN Nothing(cx)
      ELSE IF crossing_both_tracks_clear(left)
      THEN start_gate_open(left, timeout)
      ELSE Effect(left, timeout, {}, FALSE, {})

on_exit(cx, dir) ==
  LET left == [cx EXCEPT !.track = [cx.track EXCEPT ![dir] = "CLEARED"]]
      timeout == {TRAIN_TIMEOUT_TIMER(dir)}
  IN  IF cx.track[dir] # "ON_CROSSING" THEN Nothing(cx)
      ELSE IF crossing_both_tracks_clear(left)
      THEN start_gate_open([cx EXCEPT !.track = [d \in Dir |-> "NONE"]],
                           timeout)
      ELSE Effect(left, timeout, {}, FALSE, {})

\* Mutant: the check after a reset ends with the gate down.
on_gate_closed_ForgetsReset(cx) ==
  IF cx.gate # "CLOSING" THEN Nothing(cx)
  ELSE Effect([cx EXCEPT !.gate = "CLOSED", !.reset_pending = FALSE],
              {"CLOSE_TIMEOUT"}, {}, FALSE, {})

\* Mutant: reset_pending is not cleared, so the gate opens after every closing.
on_gate_closed_KeepsReset(cx) ==
  LET closed == [cx EXCEPT !.gate = "CLOSED"]
  IN  IF cx.gate # "CLOSING" THEN Nothing(cx)
      ELSE IF cx.reset_pending
      THEN start_gate_open(closed, {"CLOSE_TIMEOUT"})
      ELSE Effect(closed, {"CLOSE_TIMEOUT"}, {}, FALSE, {})

on_gate_closed(cx) ==
  LET closed == [cx EXCEPT !.gate = "CLOSED"]
  IN  IF cx.gate # "CLOSING" THEN Nothing(cx)
      ELSE IF cx.reset_pending
      THEN start_gate_open([closed EXCEPT !.reset_pending = FALSE],
                           {"CLOSE_TIMEOUT"})
      ELSE Effect(closed, {"CLOSE_TIMEOUT"}, {}, FALSE, {})

\* Mutant: the tracks are not looked at again.
on_gate_opened_AlwaysClear(cx) ==
  IF cx.gate # "OPENING" THEN Nothing(cx)
  ELSE Effect([cx EXCEPT !.gate = "OPEN", !.flash_on = FALSE],
              {"OPEN_TIMEOUT"}, {}, FALSE, {"CLEAR"})

\* Mutant: the lights are put out before the tracks are looked at.
on_gate_opened_Dark(cx) ==
  LET opened == [cx EXCEPT !.gate = "OPEN", !.flash_on = FALSE]
  IN  IF cx.gate # "OPENING" THEN Nothing(cx)
      ELSE IF ~crossing_both_tracks_clear(cx)
      THEN start_gate_close(opened, {"OPEN_TIMEOUT"}, {})
      ELSE Effect(opened, {"OPEN_TIMEOUT"}, {}, FALSE, {"CLEAR"})

on_gate_opened(cx) ==
  LET opened == [cx EXCEPT !.gate = "OPEN"]
  IN  IF cx.gate # "OPENING" THEN Nothing(cx)
      ELSE IF ~crossing_both_tracks_clear(cx)
      THEN start_gate_close(opened, {"OPEN_TIMEOUT"}, {})
      ELSE Effect([opened EXCEPT !.flash_on = FALSE],
                  {"OPEN_TIMEOUT"}, {}, FALSE, {"CLEAR"})

\* Mutant: the generation is not compared.
on_timer_AnyGeneration(cx, timer, current) ==
  IF timer = "CLOSE_DELAY"
  THEN start_gate_close([cx EXCEPT !.close_delay_pending = FALSE], {}, {})
  ELSE enter_fault(cx, CASE timer = "CLOSE_TIMEOUT" -> "GATE_CLOSE_TIMEOUT"
                         [] timer = "OPEN_TIMEOUT" -> "GATE_OPEN_TIMEOUT"
                         [] OTHER -> "TRAIN_TIMEOUT")

\* Mutant: the delay that expired is cancelled too.
on_timer_CancelsItself(cx, timer, current) ==
  IF ~current THEN Nothing(cx)
  ELSE IF timer = "CLOSE_DELAY"
  THEN start_gate_close([cx EXCEPT !.close_delay_pending = FALSE], {timer}, {})
  ELSE enter_fault(cx, CASE timer = "CLOSE_TIMEOUT" -> "GATE_CLOSE_TIMEOUT"
                         [] timer = "OPEN_TIMEOUT" -> "GATE_OPEN_TIMEOUT"
                         [] OTHER -> "TRAIN_TIMEOUT")

\* current: the expiry carries the timer's present generation.
on_timer(cx, timer, current) ==
  IF ~current THEN Nothing(cx)
  ELSE IF timer = "CLOSE_DELAY"
  THEN start_gate_close([cx EXCEPT !.close_delay_pending = FALSE], {}, {})
  ELSE enter_fault(cx, CASE timer = "CLOSE_TIMEOUT" -> "GATE_CLOSE_TIMEOUT"
                         [] timer = "OPEN_TIMEOUT" -> "GATE_OPEN_TIMEOUT"
                         [] OTHER -> "TRAIN_TIMEOUT")

on_reset(cx) ==
  IF cx.fault = "NONE" THEN Nothing(cx)
  ELSE Effect([cx EXCEPT !.fault = "NONE", !.track = [d \in Dir |-> "NONE"],
                         !.gate = "CLOSING", !.reset_pending = TRUE],
              {}, {"CLOSE_TIMEOUT"}, TRUE, {})

(***************************************************************************)
(* The dispatcher: with a fault present only RESET_FAULT is accepted.  The *)
(* argument is the direction of a train event, the timer of a TIMER; the   *)
(* last one says whether a TIMER's generation is the present one.          *)
(***************************************************************************)
crossing_handle_event(cx, event, arg, current) ==
  IF cx.fault # "NONE" /\ event # "RESET_FAULT" THEN Nothing(cx)
  ELSE CASE event = "TRAIN_APPROACH" -> on_approach(cx, arg)
         [] event = "TRAIN_ENTER"    -> on_enter(cx, arg)
         [] event = "TRAIN_EXIT"     -> on_exit(cx, arg)
         [] event = "GATE_CLOSED"    -> on_gate_closed(cx)
         [] event = "GATE_OPENED"    -> on_gate_opened(cx)
         [] event = "TIMER"          -> on_timer(cx, arg, current)
         [] event = "INJECT_FAULT"   -> enter_fault(cx, "INJECTED")
         [] event = "RESET_FAULT"    -> on_reset(cx)

-----------------------------------------------------------------------------
\* What timer t of crossing c supervises is under way.
Awaited(c, t) ==
  CASE t = "CLOSE_DELAY" -> c.gate = "OPEN" /\ c.close_delay_pending
    [] t = "CLOSE_TIMEOUT" -> c.gate = "CLOSING"
    [] t = "OPEN_TIMEOUT" -> c.gate = "OPENING"
    [] t = "TRAIN_TIMEOUT_UP" -> c.fault = "NONE" /\ c.track["UP"] = "ON_CROSSING"
    [] t = "TRAIN_TIMEOUT_DOWN" -> c.fault = "NONE" /\ c.track["DOWN"] = "ON_CROSSING"
=============================================================================
