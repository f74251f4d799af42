---------------------------- MODULE LocalTraffic ----------------------------
(***************************************************************************)
(* The signal logic of one Local intersection controller: the phase cycle, *)
(* the green plan, pedestrians and the railway preemption of               *)
(* local_traffic.c and local_pedestrian.c.                                 *)
(*                                                                         *)
(* Every C function here updates the global "state" under its mutex; it is *)
(* an operator from a state record to a state record.  NS and EW fields    *)
(* are functions of the direction.  Only what the signals depend on is     *)
(* kept: the sequence number of the status, texts and the display of the   *)
(* train direction are left out, and so is cycle_plan_valid, which is 1    *)
(* from the initialisation on.                                             *)
(***************************************************************************)
EXTENDS Integers

CONSTANTS
  GREEN_BASE_SEC,         \* 20, the configured green of both directions
  GREEN_MIN_SEC,          \* 10
  GREEN_MAX_SEC,          \* 30
  YELLOW_SEC,             \* 2
  PED_WALK_START_SEC,     \* 1
  PED_WALK_END_SEC,       \* 5
  PED_GREEN_CAP_SEC,      \* 10
  SENSOR_ADJUST_SEC,      \* 5
  RAILWAY_RECOVERY_SEC,   \* 2
  TRAIN_PASSING_SECONDS,  \* 10
  InitialDir              \* the direction that is green first

Dir == {"NS", "EW"}
Light == {"RED", "YELLOW", "GREEN"}
Phase == {"NS_GREEN", "NS_YELLOW", "EW_GREEN", "EW_YELLOW", "RAILWAY_HOLD"}
Mode == {"FIXED", "SENSOR", "FAILSAFE"}

\* What the protocol header's values satisfy and the plan relies on: the
\* second green of a pair is 2 * GREEN_BASE_SEC less the first, and has to
\* respect the limits too; a demonstration train may start in the same tick
\* that then takes the first second off its yellow.
ASSUME TimingAssumption ==
  /\ GREEN_BASE_SEC \in Nat /\ GREEN_MIN_SEC \in Nat /\ GREEN_MAX_SEC \in Nat
  /\ 0 < GREEN_MIN_SEC /\ GREEN_MIN_SEC <= GREEN_BASE_SEC
  /\ GREEN_MIN_SEC + GREEN_MAX_SEC = 2 * GREEN_BASE_SEC
  /\ YELLOW_SEC \in Nat /\ 1 < YELLOW_SEC
  /\ PED_WALK_START_SEC \in Nat
  /\ PED_WALK_END_SEC \in Nat /\ PED_GREEN_CAP_SEC \in Nat
  /\ PED_WALK_END_SEC < PED_GREEN_CAP_SEC
  /\ SENSOR_ADJUST_SEC \in Nat
  /\ RAILWAY_RECOVERY_SEC \in Nat /\ 0 < RAILWAY_RECOVERY_SEC
  /\ TRAIN_PASSING_SECONDS \in Nat
  /\ InitialDir \in Dir

Other(d) == IF d = "NS" THEN "EW" ELSE "NS"
Green(d) == IF d = "NS" THEN "NS_GREEN" ELSE "EW_GREEN"
Yellow(d) == IF d = "NS" THEN "NS_YELLOW" ELSE "EW_YELLOW"
Both(x) == [d \in Dir |-> x]

SignalState ==
  [traffic_mode: Mode,
   phase: Phase, phase_duration: Int, time_remaining: Int,
   light: [Dir -> Light],
   walk: [Dir -> BOOLEAN], request: [Dir -> BOOLEAN],
   extra: [Dir -> Int],          \* ped_extra_*_green
   cycle: [Dir -> Int],          \* cycle_*_green
   train_pending: BOOLEAN, train_active: BOOLEAN,
   train_waiting_for_clear: BOOLEAN,
   train_pass_remaining: Int, train_recovery_remaining: Int,
   coordination_pending: BOOLEAN, coordination_dir: Dir,
   coordination_offset_sec: Int]

-----------------------------------------------------------------------------
(***************************************************************************)
(* The green plan.                                                         *)
(***************************************************************************)
clamp_green_time(seconds) ==
  IF seconds < GREEN_MIN_SEC THEN GREEN_MIN_SEC
  ELSE IF seconds > GREEN_MAX_SEC THEN GREEN_MAX_SEC
  ELSE seconds

configured_green_time == clamp_green_time(GREEN_BASE_SEC)

local_fixed_cycle_seconds == 2 * configured_green_time + 2 * YELLOW_SEC

\* high[d]: SENSOR_CAR_THRESHOLD or more cars wait in direction d.
green_time_for_direction(d, mode, high) ==
  clamp_green_time(configured_green_time +
    (IF mode # "SENSOR" \/ high[d] = high[Other(d)] THEN 0
     ELSE IF high[d] THEN SENSOR_ADJUST_SEC
     ELSE 0 - SENSOR_ADJUST_SEC))

\* Mutant: no room is kept for carried seconds.
local_plan_cycle_NoReserve(s, high) ==
  LET ns == green_time_for_direction("NS", s.traffic_mode, high)
  IN  [s EXCEPT !.cycle = [d \in Dir |-> IF d = "NS" THEN ns
                                         ELSE 2 * GREEN_BASE_SEC - ns]]

\* Mutant: each direction is limited for itself.
local_plan_cycle_Apart(s, high) ==
  LET wish(d) == green_time_for_direction(d, s.traffic_mode, high)
      limit(d) == GREEN_MAX_SEC - s.extra[d]
  IN  [s EXCEPT !.cycle = [d \in Dir |-> IF wish(d) > limit(d) THEN limit(d)
                                         ELSE wish(d)]]

\* Samples the demand for the pair of greens that begins, keeping room for
\* the pedestrian seconds carried over.
local_plan_cycle(s, high) ==
  LET wish == green_time_for_direction("NS", s.traffic_mode, high)
      minimum == GREEN_MIN_SEC + s.extra["EW"]
      maximum == GREEN_MAX_SEC - s.extra["NS"]
      raised == IF wish < minimum THEN minimum ELSE wish
      ns == IF raised > maximum THEN maximum ELSE raised
  IN  [s EXCEPT !.cycle = [d \in Dir |-> IF d = "NS" THEN ns
                                         ELSE 2 * GREEN_BASE_SEC - ns]]

-----------------------------------------------------------------------------
(***************************************************************************)
(* Phases and lamps.                                                       *)
(***************************************************************************)
LampsOf(phase) ==
  [d \in Dir |-> IF phase = Green(d) THEN "GREEN"
                 ELSE IF phase = Yellow(d) THEN "YELLOW" ELSE "RED"]

\* Mutant: the other road's lamp is not turned red.
update_lights_OneLamp(s) ==
  IF s.train_active \/ s.train_recovery_remaining > 0 \/ s.phase = "RAILWAY_HOLD"
  THEN [s EXCEPT !.light = Both("RED"), !.walk = Both(FALSE)]
  ELSE [s EXCEPT !.light = [d \in Dir |-> IF s.phase \in {Green(d), Yellow(d)}
                                          THEN LampsOf(s.phase)[d] ELSE s.light[d]]]

update_lights(s) ==
  IF s.train_active \/ s.train_recovery_remaining > 0 \/ s.phase = "RAILWAY_HOLD"
  THEN [s EXCEPT !.light = Both("RED"), !.walk = Both(FALSE)]
  ELSE [s EXCEPT !.light = LampsOf(s.phase)]

\* Mutant: WALK is not withdrawn.
set_phase_KeepsWalk(s, phase, duration) ==
  update_lights([s EXCEPT !.phase = phase, !.phase_duration = duration,
                          !.time_remaining = duration])

set_phase(s, phase, duration) ==
  update_lights([s EXCEPT !.phase = phase, !.phase_duration = duration,
                          !.time_remaining = duration, !.walk = Both(FALSE)])

\* set_phase with next_green_time_for_direction: the first green of a pair
\* plans it, and the pedestrian seconds due to d are spent.
start_green(s, d, high) ==
  LET p == IF d = InitialDir THEN local_plan_cycle(s, high) ELSE s
  IN  set_phase([p EXCEPT !.extra = [p.extra EXCEPT ![d] = 0]], Green(d),
                clamp_green_time(p.cycle[d] + p.extra[d]))

set_initial_phase(s, high) == start_green(s, InitialDir, high)

\* Jumps offset seconds into the fixed cycle that begins with green of "first".
set_coordination_phase(s, first, offset) ==
  LET g == configured_green_time
      p == [s EXCEPT !.extra = Both(0), !.cycle = Both(g),
                     !.coordination_pending = FALSE]
      at == offset % local_fixed_cycle_seconds
  IN  IF at < g
      THEN set_phase(p, Green(first), g - at)
      ELSE IF at < g + YELLOW_SEC
      THEN set_phase(p, Yellow(first), g + YELLOW_SEC - at)
      ELSE IF at < g + YELLOW_SEC + g
      THEN set_phase(p, Green(Other(first)), g + YELLOW_SEC + g - at)
      ELSE set_phase(p, Yellow(Other(first)), local_fixed_cycle_seconds - at)

advance_phase(s, high) ==
  IF s.coordination_pending /\ s.phase \in {"NS_YELLOW", "EW_YELLOW"}
  THEN set_coordination_phase(s, s.coordination_dir, s.coordination_offset_sec)
  ELSE CASE s.phase = "NS_GREEN" -> set_phase(s, "NS_YELLOW", YELLOW_SEC)
         [] s.phase = "NS_YELLOW" -> start_green(s, "EW", high)
         [] s.phase = "EW_GREEN" -> set_phase(s, "EW_YELLOW", YELLOW_SEC)
         [] OTHER -> start_green(s, "NS", high)

-----------------------------------------------------------------------------
(***************************************************************************)
(* Pedestrians: those who cross road d walk while the other road is green. *)
(***************************************************************************)
pedestrian_service_phase(phase, d) == phase = Green(Other(d))

\* Mutant: WALK leaves the request standing.
update_pedestrian_KeepsRequest(s) ==
  LET window == /\ s.phase_duration - s.time_remaining >= PED_WALK_START_SEC
                /\ s.time_remaining > PED_WALK_END_SEC
  IN  IF s.train_active \/ s.train_recovery_remaining > 0
      THEN [s EXCEPT !.walk = Both(FALSE)]
      ELSE [s EXCEPT !.walk = [d \in Dir |->
              window /\ pedestrian_service_phase(s.phase, d)]]

update_pedestrian(s) ==
  LET elapsed == s.phase_duration - s.time_remaining
      window == elapsed >= PED_WALK_START_SEC
                  /\ s.time_remaining > PED_WALK_END_SEC
      walks == [d \in Dir |-> /\ window
                              /\ pedestrian_service_phase(s.phase, d)]
  IN  IF s.train_active \/ s.train_recovery_remaining > 0
      THEN [s EXCEPT !.walk = Both(FALSE)]
      ELSE [s EXCEPT !.walk = walks,
                     !.request = [d \in Dir |-> s.request[d] /\ ~walks[d]]]

\* Cuts the green that serves d down to the cap and gives the seconds to d's
\* own next green, as far as there is room for them.
cap_green_for_pedestrian(s, d) ==
  LET room == IF s.phase = Green(InitialDir)
              THEN GREEN_MAX_SEC - s.cycle[d] - s.extra[d]
              ELSE GREEN_MAX_SEC - GREEN_MIN_SEC - s.extra["NS"] - s.extra["EW"]
      capacity == IF room < 0 THEN 0 ELSE room
      excess == s.time_remaining - PED_GREEN_CAP_SEC
      removed == IF excess > capacity THEN capacity ELSE excess
  IN  IF pedestrian_service_phase(s.phase, d) /\ s.time_remaining > PED_GREEN_CAP_SEC
      THEN [s EXCEPT !.time_remaining = s.time_remaining - removed,
                     !.phase_duration = s.phase_duration - removed,
                     !.extra = [s.extra EXCEPT ![d] = s.extra[d] + removed]]
      ELSE s

add_pedestrian_request(s, d) ==
  LET asked == [s EXCEPT !.request = [s.request EXCEPT ![d] = TRUE]]
  IN  IF s.request[d] THEN s ELSE cap_green_for_pedestrian(asked, d)

-----------------------------------------------------------------------------
(***************************************************************************)
(* Railway preemption.                                                     *)
(***************************************************************************)
TrainPresent(s) == s.train_active \/ s.train_pending

RailwayBusy(s) == TrainPresent(s) \/ s.train_recovery_remaining > 0

\* Mutant: the phase goes on.
start_train_common_StaysGreen(s, wait_for_clear, eta) ==
  IF TrainPresent(s) THEN s
  ELSE [s EXCEPT !.train_pending = TRUE,
                 !.train_waiting_for_clear = wait_for_clear,
                 !.train_pass_remaining = eta,
                 !.train_recovery_remaining = 0,
                 !.extra = Both(0)]

\* Mutant: straight to the hold.
start_train_common_NoYellow(s, wait_for_clear, eta) ==
  IF TrainPresent(s) THEN s
  ELSE set_phase([s EXCEPT !.train_active = TRUE,
                           !.train_waiting_for_clear = wait_for_clear,
                           !.train_pass_remaining = eta,
                           !.train_recovery_remaining = 0,
                           !.extra = Both(0)],
                 "RAILWAY_HOLD", 0)

start_train_common(s, wait_for_clear, eta) ==
  LET p == [s EXCEPT !.train_pending = TRUE,
                     !.train_waiting_for_clear = wait_for_clear,
                     !.train_pass_remaining =
                        IF wait_for_clear THEN eta ELSE TRAIN_PASSING_SECONDS,
                     !.train_recovery_remaining = 0,
                     !.extra = Both(0)]
  IN  IF TrainPresent(s) THEN s
      ELSE CASE s.phase = "NS_GREEN" -> set_phase(p, "NS_YELLOW", YELLOW_SEC)
             [] s.phase = "EW_GREEN" -> set_phase(p, "EW_YELLOW", YELLOW_SEC)
             [] s.phase \in {"NS_YELLOW", "EW_YELLOW"} -> p
             [] OTHER -> set_phase([p EXCEPT !.train_pending = FALSE,
                                             !.train_active = TRUE],
                                   "RAILWAY_HOLD", 0)

start_train(s) == start_train_common(s, FALSE, 0)

\* Mutant: a repeated message restarts the yellow.
start_train_message_Restarts(s, eta) ==
  LET p == [s EXCEPT !.train_waiting_for_clear = TRUE,
                     !.train_pass_remaining = eta]
  IN  IF s.train_active THEN set_phase(p, "RAILWAY_HOLD", 0)
      ELSE IF s.train_pending THEN set_phase(p, s.phase, YELLOW_SEC)
      ELSE start_train_common(s, TRUE, eta)

\* A train that is already known is now also awaited to clear; its clearing
\* yellow is neither skipped nor restarted.
start_train_message(s, eta) ==
  LET p == [s EXCEPT !.train_waiting_for_clear = TRUE,
                     !.train_pass_remaining = eta]
  IN  IF s.train_active THEN set_phase(p, "RAILWAY_HOLD", 0)
      ELSE IF s.train_pending THEN p
      ELSE start_train_common(s, TRUE, eta)

\* Mutant: no recovery time.
clear_train_NoRecovery(s) ==
  IF TrainPresent(s)
  THEN set_phase([s EXCEPT !.train_pending = FALSE, !.train_active = FALSE,
                           !.train_pass_remaining = 0,
                           !.train_waiting_for_clear = FALSE,
                           !.extra = Both(0)],
                 "RAILWAY_HOLD", RAILWAY_RECOVERY_SEC)
  ELSE s

clear_train(s) ==
  IF TrainPresent(s)
  THEN set_phase([s EXCEPT !.train_pending = FALSE, !.train_active = FALSE,
                           !.train_pass_remaining = 0,
                           !.train_waiting_for_clear = FALSE,
                           !.train_recovery_remaining = RAILWAY_RECOVERY_SEC,
                           !.extra = Both(0)],
                 "RAILWAY_HOLD", RAILWAY_RECOVERY_SEC)
  ELSE s

-----------------------------------------------------------------------------
\* Mutant: counts below zero.
CountDown_NoFloor(n) == n - 1

(***************************************************************************)
(* traffic_tick_locked, one second, in the order of its branches.          *)
(***************************************************************************)
CountDown(n) == IF n > 0 THEN n - 1 ELSE n

tick_pending(s) ==
  LET p == update_lights([s EXCEPT !.time_remaining = CountDown(s.time_remaining)])
  IN  IF p.time_remaining <= 0
      THEN set_phase([p EXCEPT !.train_pending = FALSE, !.train_active = TRUE],
                     "RAILWAY_HOLD", 0)
      ELSE p

\* Mutant: the countdown releases an announced train too.
tick_active_TimesOut(s) ==
  LET left == CountDown(s.train_pass_remaining)
      p == [s EXCEPT !.train_pass_remaining = left]
  IN  IF left <= 0 THEN clear_train(p)
      ELSE set_phase(p, "RAILWAY_HOLD", left)

tick_active(s) ==
  LET left == CountDown(s.train_pass_remaining)
      p == [s EXCEPT !.train_pass_remaining = left]
  IN  IF s.train_waiting_for_clear
      THEN update_lights([p EXCEPT !.phase = "RAILWAY_HOLD",
                                   !.time_remaining = left])
      ELSE IF left <= 0 THEN clear_train(p)
      ELSE set_phase(p, "RAILWAY_HOLD", left)

tick_recovery(s, high) ==
  LET left == s.train_recovery_remaining - 1
      p == update_lights([s EXCEPT !.train_recovery_remaining = left,
                                   !.phase = "RAILWAY_HOLD",
                                   !.time_remaining = left])
  IN  IF left = 0 THEN set_initial_phase(p, high) ELSE p

tick_cycle(s, high) ==
  LET p == update_pedestrian(update_lights(
             [s EXCEPT !.time_remaining = CountDown(s.time_remaining)]))
  IN  IF p.time_remaining <= 0 THEN advance_phase(p, high) ELSE p

traffic_tick(s, high) ==
  IF \A d \in Dir : s.light[d] = "GREEN"
  THEN [s EXCEPT !.traffic_mode = "FAILSAFE", !.phase = "RAILWAY_HOLD",
                 !.time_remaining = 0, !.light = Both("RED"),
                 !.walk = Both(FALSE)]
  ELSE IF s.traffic_mode = "FAILSAFE"
  THEN update_lights([s EXCEPT !.phase = "RAILWAY_HOLD", !.time_remaining = 0])
  ELSE IF s.train_pending THEN tick_pending(s)
  ELSE IF s.train_active THEN tick_active(s)
  ELSE IF s.train_recovery_remaining > 0 THEN tick_recovery(s, high)
  ELSE tick_cycle(s, high)
=============================================================================
