-------------------------- MODULE LocalController --------------------------
(***************************************************************************)
(* One Local core process: run_core executes one-second ticks and applies  *)
(* requests (console keys, frames from Central and Train, link reports)    *)
(* one at a time in between, so each of them is one atomic step.           *)
(*                                                                         *)
(* Abstracted: the simulated clock to whether it is peak time, the car     *)
(* counts to whether they reach SENSOR_CAR_THRESHOLD, the random gaps to   *)
(* "now or not yet".  Rejected frames (wrong target, bad fields) change    *)
(* nothing and are left out, and so are time stamps and fault texts.       *)
(***************************************************************************)
EXTENDS LocalTraffic

CONSTANTS
  Inputs,      \* what may happen besides the bare tick
  Etas,        \* eta_seconds of a RAILWAY_PREEMPT
  Durations,   \* duration_sec of a temporary mode
  Offsets      \* cycle_offset_sec of a coordination command

ASSUME InputAssumption ==
  /\ Inputs \subseteq {"clock", "demo-train", "cars", "links", "m", "ped",
       "toggle", "train", "reset", "time", "sim", "mode", "temporary", "revert",
       "coordination", "sensor", "railway"}
  /\ Etas \subseteq Nat
  /\ Durations \subseteq Nat \ {0}
  /\ Offsets \subseteq Nat

VARIABLES
  state,                   \* the signals, SignalState
  manual_mode_override,
  temp,                    \* temp_mode_remaining, temp_return_mode and _manual_override
  high,                    \* car count of each direction >= SENSOR_CAR_THRESHOLD
  manual_sensor_override,
  sim_running,
  peak,                    \* is_peak_time(sim_seconds)
  train_connected

ctl == <<manual_mode_override, temp>>
sim == <<high, manual_sensor_override, sim_running, peak>>
vars == <<state, ctl, sim, train_connected>>

Temporary == [remaining: Nat, return_mode: Mode, return_manual: BOOLEAN]

\* 06:00, not peak time: sensor mode, nobody waiting.
local_state_init ==
  [traffic_mode |-> "SENSOR", phase |-> Green(InitialDir),
   phase_duration |-> configured_green_time,
   time_remaining |-> configured_green_time,
   light |-> LampsOf(Green(InitialDir)),
   walk |-> Both(FALSE), request |-> Both(FALSE),
   extra |-> Both(0), cycle |-> Both(GREEN_BASE_SEC),
   train_pending |-> FALSE, train_active |-> FALSE,
   train_waiting_for_clear |-> FALSE,
   train_pass_remaining |-> 0, train_recovery_remaining |-> 0,
   coordination_pending |-> FALSE, coordination_dir |-> "NS",
   coordination_offset_sec |-> 0]

Init ==
  /\ state = local_state_init
  /\ manual_mode_override = FALSE
  /\ temp = [remaining |-> 0, return_mode |-> "FIXED", return_manual |-> FALSE]
  /\ high = Both(FALSE)
  /\ manual_sensor_override = FALSE
  /\ sim_running = TRUE
  /\ peak = FALSE
  /\ train_connected = FALSE

-----------------------------------------------------------------------------
(***************************************************************************)
(* The tick.                                                               *)
(***************************************************************************)
apply_time_settings(s, manual, is_peak) ==
  IF ~manual /\ s.traffic_mode # "FAILSAFE"
  THEN [s EXCEPT !.traffic_mode = IF is_peak THEN "FIXED" ELSE "SENSOR"]
  ELSE s

\* due: the random gap before the next demonstration train has run out.
update_time_of_day(s, is_peak, due, connected) ==
  LET t == apply_time_settings(s, manual_mode_override, is_peak)
  IN  IF ~sim_running THEN s
      ELSE IF due /\ ~RailwayBusy(t) /\ ~connected THEN start_train(t)
      ELSE t

update_temporary_mode(s, is_peak) ==
  IF temp.remaining = 1
  THEN apply_time_settings([s EXCEPT !.traffic_mode = temp.return_mode],
                           temp.return_manual, is_peak)
  ELSE s

\* Cars leave on green and arrive unless an operator set the counts.
update_vehicle_counts(s, counts) ==
  \A d \in Dir : counts[d] # high[d] =>
    /\ sim_running
    /\ IF high[d] THEN s.phase = Green(d) /\ ~RailwayBusy(s)
                  ELSE ~manual_sensor_override

\* One pass of run_core's tick: a silent comm process loses the links, then
\* clock, temporary mode, signals and cars.
Tick ==
  \E connected, is_peak, due \in BOOLEAN, counts \in [Dir -> BOOLEAN] :
    LET s1 == update_time_of_day(state, is_peak, due, connected)
        s2 == update_temporary_mode(s1, is_peak)
        s3 == traffic_tick(s2, high)
    IN  /\ connected # train_connected => train_connected /\ "links" \in Inputs
        /\ is_peak # peak => sim_running /\ "clock" \in Inputs
        /\ due => "demo-train" \in Inputs
        /\ counts # high => "cars" \in Inputs
        /\ state' = s3
        /\ manual_mode_override' = IF temp.remaining = 1 THEN temp.return_manual
                                   ELSE manual_mode_override
        /\ temp' = [temp EXCEPT !.remaining = CountDown(temp.remaining)]
        /\ update_vehicle_counts(s3, counts)
        /\ high' = counts
        /\ peak' = is_peak
        /\ train_connected' = connected
        /\ UNCHANGED <<manual_sensor_override, sim_running>>

-----------------------------------------------------------------------------
(***************************************************************************)
(* Requests: the keys of execute_command and the frames of                 *)
(* local_dispatch_message that are accepted.                               *)
(***************************************************************************)
Signals(s) ==
  /\ state' = s
  /\ UNCHANGED <<ctl, sim, train_connected>>

ToggleMode ==
  /\ "m" \in Inputs
  /\ state' = [state EXCEPT !.traffic_mode =
                 IF state.traffic_mode = "FIXED" THEN "SENSOR" ELSE "FIXED"]
  /\ manual_mode_override' = TRUE
  /\ UNCHANGED <<temp, sim, train_connected>>

PedRequest(d) == "ped" \in Inputs /\ Signals(add_pedestrian_request(state, d))

SetSensor(d, h) ==
  /\ high' = [high EXCEPT ![d] = h]
  /\ manual_sensor_override' = TRUE
  /\ UNCHANGED <<state, ctl, sim_running, peak, train_connected>>

ToggleSensor(d) == "toggle" \in Inputs /\ SetSensor(d, ~high[d])

SensorUpdate(d, h) == "sensor" \in Inputs /\ SetSensor(d, h)

DemoTrain == "train" \in Inputs /\ Signals(start_train(state))

Preempt(eta) == "railway" \in Inputs /\ Signals(start_train_message(state, eta))

\* TRAIN_CLEAR from the Train controller, and the console's 'c'.
TrainClear == {"railway", "train"} \cap Inputs # {} /\ Signals(clear_train(state))

ResetDemo ==
  /\ "reset" \in Inputs
  /\ LET s == [state EXCEPT !.request = Both(FALSE), !.walk = Both(FALSE),
                            !.train_pending = FALSE, !.train_active = FALSE,
                            !.train_pass_remaining = 0,
                            !.train_waiting_for_clear = FALSE,
                            !.train_recovery_remaining = 0,
                            !.coordination_pending = FALSE,
                            !.coordination_offset_sec = 0,
                            !.extra = Both(0)]
     IN  state' = set_initial_phase(apply_time_settings(s, FALSE, peak), Both(FALSE))
  /\ manual_mode_override' = FALSE
  /\ temp' = [temp EXCEPT !.remaining = 0]
  /\ high' = Both(FALSE)
  /\ manual_sensor_override' = FALSE
  /\ sim_running' = TRUE
  /\ UNCHANGED <<peak, train_connected>>

\* A new time of day releases both overrides.
SetTime(is_peak) ==
  /\ state' = apply_time_settings(state, FALSE, is_peak)
  /\ manual_mode_override' = FALSE
  /\ manual_sensor_override' = FALSE
  /\ peak' = is_peak
  /\ UNCHANGED <<temp, high, sim_running, train_connected>>

\* The keys 'p', 'o', 'l'.
SetHour(is_peak) == "time" \in Inputs /\ SetTime(is_peak)

\* Central's SIM1 ... TIME.
SetMinute(is_peak) == "sim" \in Inputs /\ SetTime(is_peak)

\* SIM1 ... START and STOP.
SetRunning(on) ==
  /\ "sim" \in Inputs
  /\ sim_running' = on
  /\ UNCHANGED <<state, ctl, high, manual_sensor_override, peak, train_connected>>

ModeSet(mode) ==
  /\ "mode" \in Inputs
  /\ state' = [state EXCEPT !.traffic_mode = mode]
  /\ manual_mode_override' = TRUE
  /\ temp' = [temp EXCEPT !.remaining = 0]
  /\ UNCHANGED <<sim, train_connected>>

\* Mutant: a second temporary mode becomes the baseline.
ModeTemporary_Rebases(mode, duration) ==
  /\ "temporary" \in Inputs
  /\ state' = [state EXCEPT !.traffic_mode = mode]
  /\ manual_mode_override' = TRUE
  /\ temp' = [remaining |-> duration, return_mode |-> state.traffic_mode,
              return_manual |-> manual_mode_override]
  /\ UNCHANGED <<sim, train_connected>>

ModeTemporary(mode, duration) ==
  /\ "temporary" \in Inputs
  /\ state' = [state EXCEPT !.traffic_mode = mode]
  /\ manual_mode_override' = TRUE
  /\ temp' = IF temp.remaining > 0 THEN [temp EXCEPT !.remaining = duration]
             ELSE [remaining |-> duration, return_mode |-> state.traffic_mode,
                   return_manual |-> manual_mode_override]
  /\ UNCHANGED <<sim, train_connected>>

ModeRevert ==
  /\ "revert" \in Inputs
  /\ LET mode == IF temp.remaining > 0 THEN temp.return_mode
                 ELSE state.traffic_mode
     IN  state' = [state EXCEPT !.traffic_mode =
                     IF mode = "FAILSAFE" THEN "FIXED" ELSE mode]
  /\ manual_mode_override' = IF temp.remaining > 0 THEN temp.return_manual
                             ELSE manual_mode_override
  /\ temp' = [temp EXCEPT !.remaining = 0]
  /\ UNCHANGED <<sim, train_connected>>

Coordination(d, offset) ==
  /\ "coordination" \in Inputs
  /\ offset < local_fixed_cycle_seconds
  /\ state' = [state EXCEPT !.traffic_mode = "FIXED",
                            !.coordination_pending = TRUE,
                            !.coordination_dir = d,
                            !.coordination_offset_sec = offset]
  /\ manual_mode_override' = TRUE
  /\ UNCHANGED <<temp, sim, train_connected>>

\* CORE_LINKS: the comm process reports its links.
LinkReport(up) ==
  /\ "links" \in Inputs
  /\ train_connected' = up
  /\ UNCHANGED <<state, ctl, sim>>

\* What may come from consoles, comm and Train, and from Central about modes.
SignalRequest ==
  \/ ToggleMode \/ DemoTrain \/ TrainClear \/ ResetDemo
  \/ \E d \in Dir : PedRequest(d) \/ ToggleSensor(d)
  \/ \E d \in Dir, h \in BOOLEAN : SensorUpdate(d, h)
  \/ \E eta \in Etas : Preempt(eta)
  \/ \E b \in BOOLEAN : LinkReport(b)
  \/ \E d \in Dir, offset \in Offsets : Coordination(d, offset)

ModeRequest ==
  \/ ModeRevert
  \/ \E b \in BOOLEAN : SetHour(b) \/ SetMinute(b) \/ SetRunning(b)
  \/ \E mode \in {"FIXED", "SENSOR"} :
       ModeSet(mode) \/ \E n \in Durations : ModeTemporary(mode, n)

Request == SignalRequest \/ ModeRequest

Next == Tick \/ Request

Spec == Init /\ [][Next]_vars

\* The core's loop ticks every second, whatever arrives.
FairSpec == Spec /\ WF_vars(Tick)

-----------------------------------------------------------------------------
\* Every variable has its type.
TypeOK ==
  /\ state \in SignalState
  /\ manual_mode_override \in BOOLEAN
  /\ temp \in Temporary
  /\ high \in [Dir -> BOOLEAN]
  /\ manual_sensor_override \in BOOLEAN
  /\ sim_running \in BOOLEAN
  /\ peak \in BOOLEAN
  /\ train_connected \in BOOLEAN

\* At most one road ever sees anything but red, whatever ticks, preemptions,
\* coordination jumps and resets come in which order; so the conflicting-green
\* check (local_traffic.c:191) never fires and FAILSAFE is never entered.
NoConflict ==
  /\ \E d \in Dir : state.light[d] = "RED"
  /\ state.traffic_mode # "FAILSAFE"

\* Once a train is known no lamp is green, and from the hold until the end of
\* the recovery all lamps are red and nobody has WALK (VALIDATION.md:44).
NoGreenForTrain ==
  /\ TrainPresent(state) => \A d \in Dir : state.light[d] # "GREEN"
  /\ state.train_active \/ state.train_recovery_remaining > 0
       => \A d \in Dir : state.light[d] = "RED" /\ ~state.walk[d]

\* The hold always has a train or a recovery behind it that ends it: the
\* intersection is never left red with nothing to release it, and the default
\* branch of advance_phase_locked is never used to leave it.
HoldHasReason ==
  state.phase = "RAILWAY_HOLD" <=>
    state.train_active \/ state.train_recovery_remaining > 0

\* What the lamps owe to traffic and to trains, whatever the order of ticks and
\* requests (traffic_tick_locked and the handlers of local_ipc.c).
SignalsSafe == NoConflict /\ NoGreenForTrain /\ HoldHasReason

\* Pedestrians have WALK only across a red road, beside a green one, and with
\* PED_WALK_END_SEC still to go, also after the button has cut the green short.
WalkSafe ==
  \A d \in Dir : state.walk[d] =>
    /\ state.light[d] = "RED" /\ state.light[Other(d)] = "GREEN"
    /\ state.time_remaining > PED_WALK_END_SEC

\* The two greens of the plan share 2 * GREEN_BASE_SEC and respect the limits
\* (PROCESSES.md:119-122).
PlanBalanced ==
  /\ state.cycle["NS"] + state.cycle["EW"] = 2 * GREEN_BASE_SEC
  /\ \A d \in Dir : state.cycle[d] \in GREEN_MIN_SEC .. GREEN_MAX_SEC

Begins(phase) == state.phase # phase /\ state'.phase = phase

\* Seconds taken from a green for pedestrians are paid back in full: a green
\* that the cycle begins lasts its plan plus what is due to it, the limit cuts
\* nothing off (PROCESSES.md:128-130), although the demand may be sampled
\* between the taking and the paying.
GreenPaysBack ==
  [][\A d \in Dir :
       Begins(Green(d)) /\ state.phase = Yellow(Other(d))
         /\ ~state.coordination_pending /\ ~ResetDemo
       => state'.phase_duration = state'.cycle[d] + state.extra[d]]_vars

\* A green lamp turns yellow before red, also for a train and for coordination;
\* only the console's reset jumps (local_simulation.c:213).
GreenEndsYellow ==
  [][\A d \in Dir :
       state.light[d] = "GREEN" /\ state'.light[d] = "RED" => ResetDemo]_vars

Announced(s) == TrainPresent(s) /\ s.train_waiting_for_clear

\* A train the Train controller announced, even on top of a demonstration
\* train, is held for until it is cleared: no tick, countdown or other request
\* releases it (local_traffic.c:321-331).
HeldUntilClear ==
  [][Announced(state) => Announced(state') \/ TrainClear \/ ResetDemo]_vars

\* A temporary mode that replaces another one still returns to the mode that
\* was in force before the first (local_ipc.c:171-174).
TempKeepsBaseline ==
  [][temp.remaining > 0 /\ temp'.remaining > 0
       => /\ temp'.return_mode = temp.return_mode
          /\ temp'.return_manual = temp.return_manual]_vars

\* A temporary mode ends, by itself or by a revert.
TempEnds == temp.remaining > 0 /\ temp'.remaining = 0

\* A mode that an operator chose stays in force until a temporary mode ends or
\* the console resets the demonstration or sets its hour. In particular
\* Central's SIM1 TIME, which "changes simulation time without releasing manual
\* overrides" (commands.h:32), does not release it. The code does not keep this:
\* set_sim_minute_locked (local_simulation.c:161) clears the override.
OverrideHolds ==
  [][manual_mode_override /\ ~manual_mode_override'
       => ResetDemo \/ TempEnds \/ \E b \in BOOLEAN : SetHour(b)]_vars

\* The clearing yellow ends although PREEMPT is repeated meanwhile
\* (local_traffic.c:326): a pending train gets its red road.
TrainGetsRed ==
  state.train_pending ~> \A d \in Dir : state.light[d] = "RED"

\* A pedestrian who pressed the button gets WALK, unless trains or
\* coordination commands keep coming for ever.
PedServed ==
  \A d \in Dir :
    <>[](~RailwayBusy(state) /\ ~state.coordination_pending)
      => []<>(~state.request[d])
=============================================================================
