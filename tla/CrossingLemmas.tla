--------------------------- MODULE CrossingLemmas ---------------------------
(***************************************************************************)
(* What crossing_handle_event owes to its platform, as facts about its     *)
(* cases alone: no state machine is involved, so that both CrossingSystem  *)
(* and the line of RailSim can rest on them.                               *)
(*                                                                         *)
(* Contract says that a case preserves the invariant CxInv of crossing_t,  *)
(* starts and cancels timers so that exactly what is awaited stays timed,  *)
(* and releases the Locals only when no train is announced.  One lemma per *)
(* case shows it.  StartsOne adds that a case starts at most one timer,    *)
(* none that runs already and none while it cancels the one just expired.  *)
(* Sound adds the generations, the queued timers and the Locals, and       *)
(* ResultSound is the step of any platform.                                *)
(***************************************************************************)
EXTENDS Crossing, TLAPS

\* The inductive strengthening of GateDownForTrain, RoadWarned and
\* ClearedWaits, as a predicate on one crossing_t.
CxInv(c) ==
  /\ (c.fault # "NONE") <=> (c.gate = "FAULT")
  /\ c.reset_pending => c.gate \in {"CLOSING", "FAULT"}
  /\ c.close_delay_pending => c.gate = "OPEN" /\ c.flash_on
  /\ (\E d \in Dir : c.track[d] = "ON_CROSSING") => c.gate \in {"CLOSED", "FAULT"}
  /\ ~crossing_both_tracks_clear(c) \/ c.gate # "OPEN" => c.flash_on
  /\ \A d \in Dir : c.track[d] = "CLEARED" =>
       \E o \in Dir : c.track[o] \in {"APPROACHING", "ON_CROSSING"}

\* r is a sound result of an event at c that consumed the expiries of fired.
Contract(c, r, fired) ==
  /\ r.cx \in CrossingState
  /\ r.cancel \in SUBSET Timer
  /\ r.start \in SUBSET Timer
  /\ r.cancel \cap r.start = {}
  /\ CxInv(r.cx)
  /\ \A t \in Timer : Awaited(r.cx, t) <=>
        t \in r.start \/ (t \notin r.cancel \cup fired /\ Awaited(c, t))
  /\ "PREEMPT" \notin r.send =>
        IF "CLEAR" \in r.send THEN crossing_both_tracks_clear(r.cx)
        ELSE crossing_both_tracks_clear(c) => crossing_both_tracks_clear(r.cx)

\* r starts at most one timer, and that one in place of nothing.
StartsOne(c, r, fired) ==
  r.start = {} \/ \E t \in Timer : /\ r.start = {t}
                                  /\ ~Awaited(c, t)
                                  /\ r.cancel \cap fired = {}

-----------------------------------------------------------------------------
(***************************************************************************)
(* The cases of crossing_handle_event.                                     *)
(***************************************************************************)

\* An ignored event meets the contract.
LEMMA NothingOK ==
  ASSUME NEW c \in CrossingState, CxInv(c)
  PROVE  Contract(c, Nothing(c), {})
BY DEF Contract, Nothing, Effect

\* enter_fault freezes the tracks, cancels every timer and keeps the lights on.
LEMMA FaultOK ==
  ASSUME NEW c \in CrossingState, CxInv(c), NEW f \in FaultKind \ {"NONE"},
         NEW fired \in SUBSET Timer
  PROVE  Contract(c, enter_fault(c, f), fired)
<1> USE DEF CrossingState, GateState, TrackState, Dir, Timer
<1>1. CxInv(enter_fault(c, f).cx)
  BY DEF CxInv, enter_fault, Effect, crossing_both_tracks_clear
<1> QED
  BY <1>1 DEF Contract, enter_fault, Effect, crossing_both_tracks_clear, Awaited

\* A warning: lights and PREEMPT, and the gate is made to close.
LEMMA ApproachOK ==
  ASSUME NEW c \in CrossingState, NEW dir \in Dir, CxInv(c), c.fault = "NONE"
  PROVE  Contract(c, on_approach(c, dir), {})
<1> USE DEF CrossingState, GateState, TrackState, Dir, Timer
<1> DEFINE r == on_approach(c, dir)
<1>1. CASE c.track[dir] # "NONE"
  BY <1>1, NothingOK DEF on_approach
<1>2. CASE c.track[dir] = "NONE" /\ c.gate = "OPEN" /\ ~c.close_delay_pending
  <2>1. r.cx \in CrossingState
    BY <1>2 DEF on_approach, Effect
  <2>2. CxInv(r.cx)
    BY <1>2 DEF on_approach, Effect, CxInv, crossing_both_tracks_clear
  <2> QED
    BY <1>2, <2>1, <2>2
    DEF on_approach, Effect, Contract, Awaited, crossing_both_tracks_clear
<1>3. CASE c.track[dir] = "NONE" /\ c.gate = "OPENING"
  <2>1. r.cx \in CrossingState
    BY <1>3 DEF on_approach, start_gate_close, Effect
  <2>2. CxInv(r.cx)
    BY <1>3
    DEF on_approach, start_gate_close, Effect, CxInv, crossing_both_tracks_clear
  <2> QED
    BY <1>3, <2>1, <2>2
    DEF on_approach, start_gate_close, Effect, Contract, Awaited,
        crossing_both_tracks_clear
<1>4. CASE /\ c.track[dir] = "NONE" /\ c.gate # "OPENING"
           /\ ~(c.gate = "OPEN" /\ ~c.close_delay_pending)
  <2>1. r.cx \in CrossingState
    BY <1>4 DEF on_approach, Effect
  <2>2. CxInv(r.cx)
    BY <1>4 DEF on_approach, Effect, CxInv, crossing_both_tracks_clear
  <2> QED
    BY <1>4, <2>1, <2>2
    DEF on_approach, Effect, Contract, Awaited, crossing_both_tracks_clear
<1> QED
  BY <1>1, <1>2, <1>3, <1>4

\* A train enters only past a closed gate; otherwise the crossing faults.
LEMMA EnterOK ==
  ASSUME NEW c \in CrossingState, NEW dir \in Dir, CxInv(c), c.fault = "NONE"
  PROVE  Contract(c, on_enter(c, dir), {})
<1> USE DEF CrossingState, GateState, TrackState, Dir, Timer
<1> DEFINE r == on_enter(c, dir)
<1>1. CASE c.track[dir] # "APPROACHING"
  BY <1>1, NothingOK DEF on_enter
<1>2. CASE c.track[dir] = "APPROACHING" /\ c.gate # "CLOSED"
  BY <1>2, FaultOK DEF on_enter, FaultKind
<1>3. CASE c.track[dir] = "APPROACHING" /\ c.gate = "CLOSED"
  <2>1. r.cx \in CrossingState
    BY <1>3 DEF on_enter, Effect
  <2>2. CxInv(r.cx)
    BY <1>3 DEF on_enter, Effect, CxInv, crossing_both_tracks_clear
  <2> QED
    BY <1>3, <2>1, <2>2
    DEF on_enter, Effect, Contract, Awaited, crossing_both_tracks_clear,
        TRAIN_TIMEOUT_TIMER
<1> QED
  BY <1>1, <1>2, <1>3

\* A train leaves: the gate opens if the other track is clear too.
LEMMA ExitOK ==
  ASSUME NEW c \in CrossingState, NEW dir \in Dir, CxInv(c), c.fault = "NONE"
  PROVE  Contract(c, on_exit(c, dir), {})
<1> USE DEF CrossingState, GateState, TrackState, Dir, Timer
<1> DEFINE r == on_exit(c, dir)
           left == [c EXCEPT !.track = [c.track EXCEPT ![dir] = "CLEARED"]]
<1>1. CASE c.track[dir] # "ON_CROSSING"
  BY <1>1, NothingOK DEF on_exit
<1>2. CASE c.track[dir] = "ON_CROSSING" /\ crossing_both_tracks_clear(left)
  <2>1. r = start_gate_open([c EXCEPT !.track = [d \in Dir |-> "NONE"]],
                            {TRAIN_TIMEOUT_TIMER(dir)})
    BY <1>2 DEF on_exit
  <2>2. c.gate = "CLOSED" /\ \A d \in Dir \ {dir} : c.track[d] # "ON_CROSSING"
    BY <1>2 DEF CxInv, crossing_both_tracks_clear
  <2>3. r.cx \in CrossingState
    <3>1. r.cx = [c EXCEPT !.track = [d \in Dir |-> "NONE"],
                           !.gate = "OPENING", !.close_delay_pending = FALSE]
      BY <2>1, <2>2 DEF start_gate_open, Effect
    <3>2. [d \in Dir |-> "NONE"] \in [Dir -> TrackState]
      OBVIOUS
    <3> QED
      BY <3>1, <3>2
  <2>4. CxInv(r.cx)
    BY <2>1, <2>2
    DEF start_gate_open, Effect, CxInv, crossing_both_tracks_clear
  <2> QED
    BY <2>1, <2>2, <2>3, <2>4
    DEF start_gate_open, Effect, Contract, Awaited, crossing_both_tracks_clear,
        TRAIN_TIMEOUT_TIMER
<1>3. CASE c.track[dir] = "ON_CROSSING" /\ ~crossing_both_tracks_clear(left)
  <2>1. r = Effect(left, {TRAIN_TIMEOUT_TIMER(dir)}, {}, FALSE, {})
    BY <1>3 DEF on_exit
  <2>2. r.cx \in CrossingState
    BY <2>1 DEF Effect
  <2>3. CxInv(r.cx)
    BY <2>1, <1>3 DEF Effect, CxInv, crossing_both_tracks_clear
  <2> QED
    BY <2>1, <2>2, <2>3, <1>3
    DEF Effect, Contract, Awaited, crossing_both_tracks_clear,
        TRAIN_TIMEOUT_TIMER
<1> QED
  BY <1>1, <1>2, <1>3

\* The gate is down; in a reset check it is sent up again.
LEMMA GateClosedOK ==
  ASSUME NEW c \in CrossingState, CxInv(c), c.fault = "NONE"
  PROVE  Contract(c, on_gate_closed(c), {})
<1> USE DEF CrossingState, GateState, TrackState, Dir, Timer
<1> DEFINE r == on_gate_closed(c)
<1>1. CASE c.gate # "CLOSING"
  BY <1>1, NothingOK DEF on_gate_closed
<1>2. CASE c.gate = "CLOSING"
  <2>1. r.cx \in CrossingState
    BY <1>2 DEF on_gate_closed, start_gate_open, Effect
  <2>2. CxInv(r.cx)
    BY <1>2
    DEF on_gate_closed, start_gate_open, Effect, CxInv, crossing_both_tracks_clear
  <2> QED
    BY <1>2, <2>1, <2>2
    DEF on_gate_closed, start_gate_open, Effect, Contract, Awaited, CxInv,
        crossing_both_tracks_clear
<1> QED
  BY <1>1, <1>2

\* The gate is up: CLEAR if nobody is coming, otherwise down again.
LEMMA GateOpenedOK ==
  ASSUME NEW c \in CrossingState, CxInv(c), c.fault = "NONE"
  PROVE  Contract(c, on_gate_opened(c), {})
<1> USE DEF CrossingState, GateState, TrackState, Dir, Timer
<1> DEFINE r == on_gate_opened(c)
<1>1. CASE c.gate # "OPENING"
  BY <1>1, NothingOK DEF on_gate_opened
<1>2. CASE c.gate = "OPENING" /\ ~crossing_both_tracks_clear(c)
  <2>1. r.cx \in CrossingState
    BY <1>2 DEF on_gate_opened, start_gate_close, Effect
  <2>2. CxInv(r.cx)
    BY <1>2
    DEF on_gate_opened, start_gate_close, Effect, CxInv, crossing_both_tracks_clear
  <2> QED
    BY <1>2, <2>1, <2>2
    DEF on_gate_opened, start_gate_close, Effect, Contract, Awaited, CxInv,
        crossing_both_tracks_clear
<1>3. CASE c.gate = "OPENING" /\ crossing_both_tracks_clear(c)
  <2>1. r.cx \in CrossingState
    BY <1>3 DEF on_gate_opened, Effect
  <2>2. CxInv(r.cx)
    BY <1>3 DEF on_gate_opened, Effect, CxInv, crossing_both_tracks_clear
  <2>3. /\ r.cancel = {"OPEN_TIMEOUT"} /\ r.start = {} /\ r.send = {"CLEAR"}
        /\ r.cx.gate = "OPEN" /\ r.cx.track = c.track /\ r.cx.fault = c.fault
        /\ r.cx.close_delay_pending = c.close_delay_pending
    BY <1>3 DEF on_gate_opened, Effect
  <2>4. ~c.close_delay_pending /\ crossing_both_tracks_clear(r.cx)
    BY <1>3, <2>3 DEF CxInv, crossing_both_tracks_clear
  <2> HIDE DEF r
  <2>5. \A t \in Timer : Awaited(r.cx, t) <=>
          t \in r.start \/ (t \notin r.cancel \cup {} /\ Awaited(c, t))
    BY <1>3, <2>3, <2>4 DEF Awaited
  <2>6. Contract(c, r, {})
    BY <2>1, <2>2, <2>3, <2>4, <2>5 DEF Contract
  <2> QED
    BY <2>6 DEF r
<1> QED
  BY <1>1, <1>2, <1>3

\* A current expiry closes the gate or faults; a stale one does nothing.
LEMMA TimerOK ==
  ASSUME NEW c \in CrossingState, CxInv(c), c.fault = "NONE",
         NEW t \in Timer, Awaited(c, t)
  PROVE  Contract(c, on_timer(c, t, TRUE), {t})
<1> USE DEF CrossingState, GateState, TrackState, Dir, Timer
<1> DEFINE r == on_timer(c, t, TRUE)
<1>1. CASE t = "CLOSE_DELAY"
  <2>1. r = start_gate_close([c EXCEPT !.close_delay_pending = FALSE], {}, {})
    BY <1>1 DEF on_timer
  <2> HIDE DEF r
  <2>2. c.gate = "OPEN" /\ c.close_delay_pending
    BY <1>1 DEF Awaited
  <2>3. r.cx \in CrossingState
    BY <2>1, <2>2 DEF start_gate_close, Effect
  <2>4. CxInv(r.cx)
    BY <2>1, <2>2
    DEF start_gate_close, Effect, CxInv, crossing_both_tracks_clear
  <2>5. Contract(c, r, {t})
    BY <1>1, <2>1, <2>2, <2>3, <2>4
    DEF start_gate_close, Effect, Contract, Awaited, CxInv,
        crossing_both_tracks_clear
  <2> QED
    BY <2>5 DEF r
<1>2. CASE t # "CLOSE_DELAY"
  <2>1. \E f \in FaultKind \ {"NONE"} : r = enter_fault(c, f)
    BY <1>2 DEF on_timer, FaultKind
  <2>2. PICK f \in FaultKind \ {"NONE"} : r = enter_fault(c, f)
    BY <2>1
  <2> HIDE DEF r
  <2>3. Contract(c, r, {t})
    BY <2>2, FaultOK
  <2> QED
    BY <2>3 DEF r
<1> QED
  BY <1>1, <1>2

\* A reset forgets the trains and starts the close-open check.
LEMMA ResetOK ==
  ASSUME NEW c \in CrossingState, CxInv(c)
  PROVE  Contract(c, on_reset(c), {})
<1> USE DEF CrossingState, GateState, TrackState, Dir, Timer
<1> DEFINE r == on_reset(c)
<1>1. CASE c.fault = "NONE"
  BY <1>1, NothingOK DEF on_reset
<1>2. CASE c.fault # "NONE"
  <2>1. r.cx \in CrossingState
    BY <1>2 DEF on_reset, Effect, FaultKind
  <2>2. CxInv(r.cx)
    BY <1>2 DEF on_reset, Effect, CxInv, crossing_both_tracks_clear
  <2> QED
    BY <1>2, <2>1, <2>2
    DEF on_reset, Effect, Contract, Awaited, CxInv, crossing_both_tracks_clear
<1> QED
  BY <1>1, <1>2

\* crossing_handle_event: any event but an accepted expiry.
LEMMA EventOK ==
  ASSUME NEW c \in CrossingState, CxInv(c), NEW d \in Dir
  PROVE  /\ Contract(c, crossing_handle_event(c, "TRAIN_APPROACH", d, TRUE), {})
         /\ Contract(c, crossing_handle_event(c, "TRAIN_ENTER", d, TRUE), {})
         /\ Contract(c, crossing_handle_event(c, "TRAIN_EXIT", d, TRUE), {})
         /\ Contract(c, crossing_handle_event(c, "GATE_CLOSED", d, TRUE), {})
         /\ Contract(c, crossing_handle_event(c, "GATE_OPENED", d, TRUE), {})
         /\ Contract(c, crossing_handle_event(c, "INJECT_FAULT", d, TRUE), {})
         /\ Contract(c, crossing_handle_event(c, "RESET_FAULT", d, TRUE), {})
<1>1. CASE c.fault = "NONE"
  BY <1>1, ApproachOK, EnterOK, ExitOK, GateClosedOK, GateOpenedOK, FaultOK,
     ResetOK
  DEF crossing_handle_event, FaultKind
<1>2. CASE c.fault # "NONE"
  BY <1>2, NothingOK, ResetOK DEF crossing_handle_event
<1> QED
  BY <1>1, <1>2

\* crossing_handle_event: an expiry, current or stale.
LEMMA ExpiryOK ==
  ASSUME NEW c \in CrossingState, CxInv(c), NEW t \in Timer
  PROVE  /\ Contract(c, crossing_handle_event(c, "TIMER", t, FALSE), {})
         /\ c.fault = "NONE" /\ Awaited(c, t)
              => Contract(c, crossing_handle_event(c, "TIMER", t, TRUE), {t})
<1>1. c.fault = "NONE" =>
        /\ crossing_handle_event(c, "TIMER", t, TRUE) = on_timer(c, t, TRUE)
        /\ crossing_handle_event(c, "TIMER", t, FALSE) = Nothing(c)
  BY DEF crossing_handle_event, on_timer
<1>2. c.fault # "NONE" =>
        crossing_handle_event(c, "TIMER", t, FALSE) = Nothing(c)
  BY DEF crossing_handle_event
<1> QED
  BY <1>1, <1>2, NothingOK, TimerOK

\* Every event starts at most one timer; a delivered expiry of timer t is the
\* only event that has fired one.
LEMMA EventStartsOne ==
  ASSUME NEW c \in CrossingState, CxInv(c), NEW d \in Dir
  PROVE  /\ StartsOne(c, crossing_handle_event(c, "TRAIN_APPROACH", d, TRUE), {})
         /\ StartsOne(c, crossing_handle_event(c, "TRAIN_ENTER", d, TRUE), {})
         /\ StartsOne(c, crossing_handle_event(c, "TRAIN_EXIT", d, TRUE), {})
         /\ StartsOne(c, crossing_handle_event(c, "GATE_CLOSED", d, TRUE), {})
         /\ StartsOne(c, crossing_handle_event(c, "GATE_OPENED", d, TRUE), {})
         /\ StartsOne(c, crossing_handle_event(c, "INJECT_FAULT", d, TRUE), {})
         /\ StartsOne(c, crossing_handle_event(c, "RESET_FAULT", d, TRUE), {})
<1> USE DEF StartsOne, Nothing, Effect, crossing_handle_event, Timer, Dir
<1>1. StartsOne(c, crossing_handle_event(c, "TRAIN_APPROACH", d, TRUE), {})
  BY DEF on_approach, start_gate_close, Awaited
<1>2. StartsOne(c, crossing_handle_event(c, "TRAIN_ENTER", d, TRUE), {})
  BY DEF on_enter, enter_fault, Awaited, TRAIN_TIMEOUT_TIMER
<1>3. StartsOne(c, crossing_handle_event(c, "TRAIN_EXIT", d, TRUE), {})
  <2>1. CASE c.gate \in {"CLOSED", "CLOSING"}
    BY <2>1 DEF on_exit, start_gate_open, Awaited, CrossingState
  <2>2. CASE c.gate \notin {"CLOSED", "CLOSING"}
    BY <2>2 DEF on_exit, start_gate_open, Awaited, CrossingState
  <2> QED
    BY <2>1, <2>2
<1>4. StartsOne(c, crossing_handle_event(c, "GATE_CLOSED", d, TRUE), {})
  BY DEF on_gate_closed, start_gate_open, Awaited
<1>5. StartsOne(c, crossing_handle_event(c, "GATE_OPENED", d, TRUE), {})
  BY DEF on_gate_opened, start_gate_close, Awaited, CrossingState
<1>6. StartsOne(c, crossing_handle_event(c, "INJECT_FAULT", d, TRUE), {})
  BY DEF enter_fault
<1>7. StartsOne(c, crossing_handle_event(c, "RESET_FAULT", d, TRUE), {})
  BY DEF on_reset, Awaited, CxInv
<1> QED
  BY <1>1, <1>2, <1>3, <1>4, <1>5, <1>6, <1>7

\* An expiry starts nothing but the gate's timeout, after the close delay.
LEMMA ExpiryStartsOne ==
  ASSUME NEW c \in CrossingState, CxInv(c), NEW t \in Timer, Awaited(c, t)
  PROVE  StartsOne(c, crossing_handle_event(c, "TIMER", t, TRUE), {t})
BY DEF StartsOne, Nothing, Effect, crossing_handle_event, Timer, on_timer,
       enter_fault, start_gate_close, Awaited

-----------------------------------------------------------------------------
(***************************************************************************)
(* A crossing on its platform.                                             *)
(***************************************************************************)
\* Crossing c with its generations and queued timers; held: the last of PREEMPT
\* and CLEAR was PREEMPT.
Sound(c, gen, queue, held) ==
  /\ c \in CrossingState
  /\ gen \in Generations
  /\ queue \subseteq Timer \X (0 .. GEN_MOD - 1)
  /\ CxInv(c)
  /\ ~crossing_both_tracks_clear(c) => held
  /\ \A t \in Timer : <<t, gen[t]>> \in queue <=> Awaited(c, t)

\* The queue after result r and its cancellations: "rest" was not delivered.
QueueAfter(rest, r, gen, gone) ==
  {e \in rest \ gone : e[1] \notin r.cancel \cup r.start \/ e[2] # gen[e[1]]}
    \cup {<<t, gen[t]>> : t \in r.start}

\* Moving generations on keeps them in range.
LEMMA BumpType ==
  ASSUME NEW gen \in Generations, NEW S
  PROVE  Bump(gen, S) \in Generations
<1>1. ASSUME NEW t \in Timer
      PROVE  (gen[t] + 1) % GEN_MOD \in 0 .. GEN_MOD - 1
  BY GenModAssumption, SMT DEF Generations
<1> QED
  BY <1>1 DEF Bump, Generations

\* A result that meets its contract leaves the crossing sound.
LEMMA ResultSound ==
  ASSUME NEW c, NEW gen, NEW queue, NEW held, Sound(c, gen, queue, held),
         NEW r, NEW fired \in SUBSET Timer, Contract(c, r, fired),
         NEW rest \in SUBSET queue,
         \A t \in Timer :
           <<t, gen[t]>> \in rest <=> t \notin fired /\ <<t, gen[t]>> \in queue,
         NEW gone \in SUBSET {e \in rest : e[1] \in r.cancel}
  PROVE  LET new == Bump(gen, r.cancel \cup r.start)
         IN  Sound(r.cx, new, QueueAfter(rest, r, new, gone),
                   "PREEMPT" \in r.send \/ (held /\ "CLEAR" \notin r.send))
<1> DEFINE new == Bump(gen, r.cancel \cup r.start)
           after == QueueAfter(rest, r, new, gone)
           told == "PREEMPT" \in r.send \/ (held /\ "CLEAR" \notin r.send)
<1>1. new \in Generations
  BY BumpType DEF Sound
<1>2. after \subseteq Timer \X (0 .. GEN_MOD - 1)
  <2>1. \A e \in rest : e \in Timer \X (0 .. GEN_MOD - 1)
    BY DEF Sound
  <2>2. \A t \in r.start : <<t, new[t]>> \in Timer \X (0 .. GEN_MOD - 1)
    BY <1>1 DEF Contract, Generations
  <2> HIDE DEF new
  <2> QED
    BY <2>1, <2>2 DEF QueueAfter
<1>3. ~crossing_both_tracks_clear(r.cx) => told
  <2>1. CASE "PREEMPT" \in r.send
    BY <2>1
  <2>2. CASE "PREEMPT" \notin r.send /\ "CLEAR" \in r.send
    BY <2>2, Zenon DEF Contract
  <2>3. CASE "PREEMPT" \notin r.send /\ "CLEAR" \notin r.send
    BY <2>3 DEF Contract, Sound
  <2> QED
    BY <2>1, <2>2, <2>3
<1>4. ASSUME NEW t \in Timer
      PROVE  <<t, new[t]>> \in after <=> Awaited(r.cx, t)
  <2>1. Awaited(r.cx, t) <=>
           t \in r.start \/ (t \notin r.cancel \cup fired /\ Awaited(c, t))
    BY DEF Contract
  <2>2. Awaited(c, t) <=> <<t, gen[t]>> \in queue
    BY DEF Sound
  <2> HIDE DEF new
  <2>3. CASE t \in r.start
    BY <2>1, <2>3 DEF QueueAfter
  <2>4. CASE t \in r.cancel
    BY <2>1, <2>4 DEF QueueAfter, Contract
  <2>5. CASE t \notin r.start \cup r.cancel
    <3>1. new[t] = gen[t]
      BY <2>5 DEF new, Bump
    <3>2. <<t, new[t]>> \in after <=> <<t, gen[t]>> \in rest
      BY <2>5, <3>1 DEF QueueAfter
    <3> QED
      BY <2>1, <2>2, <2>5, <3>2
  <2> QED
    BY <2>3, <2>4, <2>5
<1>5. r.cx \in CrossingState /\ CxInv(r.cx)
  BY DEF Contract
<1> HIDE DEF new, after, told
<1>6. Sound(r.cx, new, after, told)
  BY <1>1, <1>2, <1>3, <1>4, <1>5 DEF Sound
<1> QED
  BY <1>6 DEF new, after, told

\* A freshly initialised crossing with no timers is sound.
LEMMA InitSound == Sound(crossing_init, timer_gen_init, {}, FALSE)
<1>1. [d \in Dir |-> "NONE"] \in [Dir -> TrackState]
  BY DEF TrackState
<1>2. crossing_init \in CrossingState
  BY <1>1 DEF crossing_init, CrossingState, GateState, FaultKind
<1>3. timer_gen_init \in Generations
  BY GenModAssumption DEF timer_gen_init, Generations
<1>4. CxInv(crossing_init) /\ crossing_both_tracks_clear(crossing_init)
  BY DEF CxInv, crossing_init, crossing_both_tracks_clear
<1>5. \A t \in Timer : ~Awaited(crossing_init, t)
  BY DEF crossing_init, Awaited, Timer, Dir
<1> QED
  BY <1>2, <1>3, <1>4, <1>5 DEF Sound
=============================================================================
