---------------------------- MODULE LocalProofs ----------------------------
(***************************************************************************)
(* Safety of one Local intersection for all timing parameters that satisfy *)
(* TimingAssumption and every order of ticks and requests.                 *)
(*                                                                         *)
(* SigInv is the invariant of the signal state.  One lemma per C function  *)
(* of local_traffic.c and local_pedestrian.c shows what it owes to SigInv; *)
(* set_phase is the only one that changes the phase of a running cycle, so *)
(* most of them rest on SetPhaseFields, which lists what it writes.        *)
(***************************************************************************)
EXTENDS LocalController, TLAPS

\* Train, recovery and hold: one at a time, and the hold is never without.
TrainInv(s) ==
  /\ s.traffic_mode # "FAILSAFE"
  /\ ~(s.train_pending /\ s.train_active)
  /\ s.train_recovery_remaining >= 0
  /\ s.train_recovery_remaining > 0 => ~TrainPresent(s)
  /\ s.phase = "RAILWAY_HOLD" <=> s.train_active \/ s.train_recovery_remaining > 0
  /\ s.train_pending => s.phase \in {"NS_YELLOW", "EW_YELLOW"}

\* The lamps are those of the phase, and WALK is beside a green with time left.
LampInv(s) ==
  /\ s.light = LampsOf(s.phase)
  /\ \A d \in Dir : s.walk[d] => /\ s.phase = Green(Other(d))
                                 /\ s.time_remaining > PED_WALK_END_SEC

\* The plan balances, and there is room in it for the seconds carried over:
\* those of the direction that is served are spent, and those of the second
\* direction of a pair fit into its green as planned.
PlanInv(s) ==
  /\ s.cycle["NS"] + s.cycle["EW"] = 2 * GREEN_BASE_SEC
  /\ \A d \in Dir : GREEN_MIN_SEC <= s.cycle[d] /\ s.cycle[d] <= GREEN_MAX_SEC
  /\ \A d \in Dir : s.extra[d] >= 0
  /\ s.extra["NS"] + s.extra["EW"] <= GREEN_MAX_SEC - GREEN_MIN_SEC
  /\ \A d \in Dir : s.phase \in {Green(d), Yellow(d)} => s.extra[d] = 0
  /\ s.phase \in {Green(InitialDir), Yellow(InitialDir)} =>
       s.cycle[Other(InitialDir)] + s.extra[Other(InitialDir)] <= GREEN_MAX_SEC

SigInv(s) == s \in SignalState /\ TrainInv(s) /\ LampInv(s) /\ PlanInv(s)

\* The inductive invariant of the controller.
IInv == TypeOK /\ SigInv(state) /\ temp.return_mode # "FAILSAFE"
-----------------------------------------------------------------------------
(***************************************************************************)
(* The green plan.                                                         *)
(***************************************************************************)

\* The bounds that every green respects, and the configured green is its base.
LEMMA GreenBounds ==
  /\ GREEN_BASE_SEC \in Int /\ GREEN_MIN_SEC \in Int /\ GREEN_MAX_SEC \in Int
  /\ 0 < GREEN_MIN_SEC /\ GREEN_MIN_SEC <= GREEN_BASE_SEC
  /\ GREEN_BASE_SEC <= GREEN_MAX_SEC
  /\ GREEN_MIN_SEC + GREEN_MAX_SEC = 2 * GREEN_BASE_SEC
  /\ configured_green_time = GREEN_BASE_SEC
BY TimingAssumption DEF configured_green_time, clamp_green_time

\* clamp_green_time keeps what is between the limits.
LEMMA ClampOK ==
  ASSUME NEW n \in Int
  PROVE  /\ clamp_green_time(n) \in Int
         /\ GREEN_MIN_SEC <= clamp_green_time(n) /\ clamp_green_time(n) <= GREEN_MAX_SEC
         /\ GREEN_MIN_SEC <= n /\ n <= GREEN_MAX_SEC => clamp_green_time(n) = n
BY GreenBounds DEF clamp_green_time

\* The wish for a green is within the limits.
LEMMA WishOK ==
  ASSUME NEW d \in Dir, NEW mode, NEW h \in [Dir -> BOOLEAN]
  PROVE  LET g == green_time_for_direction(d, mode, h)
         IN  g \in Int /\ GREEN_MIN_SEC <= g /\ g <= GREEN_MAX_SEC
<1>1. ASSUME NEW x \in {0, SENSOR_ADJUST_SEC, 0 - SENSOR_ADJUST_SEC}
      PROVE  /\ clamp_green_time(configured_green_time + x) \in Int
             /\ GREEN_MIN_SEC <= clamp_green_time(configured_green_time + x)
             /\ clamp_green_time(configured_green_time + x) <= GREEN_MAX_SEC
  BY GreenBounds, ClampOK, TimingAssumption
<1> QED
  BY <1>1 DEF green_time_for_direction

\* Both directions of a new plan have room for the seconds they are due.
LEMMA PlanOK ==
  ASSUME NEW s \in SignalState, NEW h \in [Dir -> BOOLEAN],
         \A d \in Dir : s.extra[d] >= 0,
         s.extra["NS"] + s.extra["EW"] <= GREEN_MAX_SEC - GREEN_MIN_SEC
  PROVE  LET r == local_plan_cycle(s, h)
         IN  /\ r \in SignalState /\ r = [s EXCEPT !.cycle = r.cycle]
             /\ r.cycle["NS"] + r.cycle["EW"] = 2 * GREEN_BASE_SEC
             /\ \A d \in Dir : /\ GREEN_MIN_SEC <= r.cycle[d]
                               /\ r.cycle[d] + s.extra[d] <= GREEN_MAX_SEC
<1> DEFINE wish == green_time_for_direction("NS", s.traffic_mode, h)
           minimum == GREEN_MIN_SEC + s.extra["EW"]
           maximum == GREEN_MAX_SEC - s.extra["NS"]
           raised == IF wish < minimum THEN minimum ELSE wish
           ns == IF raised > maximum THEN maximum ELSE raised
           c == [d \in Dir |-> IF d = "NS" THEN ns ELSE 2 * GREEN_BASE_SEC - ns]
           r == local_plan_cycle(s, h)
<1>1. wish \in Int /\ s.extra["NS"] \in Int /\ s.extra["EW"] \in Int
      /\ s.extra["NS"] >= 0 /\ s.extra["EW"] >= 0
  BY WishOK DEF SignalState, Dir
<1> HIDE DEF wish
<1>2. ns \in Int /\ minimum <= ns /\ ns <= maximum
  BY <1>1, GreenBounds
<1> HIDE DEF ns
<1>3. c \in [Dir -> Int] /\ c["NS"] = ns /\ c["EW"] = 2 * GREEN_BASE_SEC - ns
  BY <1>2, GreenBounds DEF Dir
<1> HIDE DEF c
<1>4. r = [s EXCEPT !.cycle = c]
  BY DEF local_plan_cycle, wish, ns, c
<1>5. r \in SignalState /\ r.cycle = c
  BY <1>3, <1>4 DEF SignalState
<1>6. \A d \in Dir : GREEN_MIN_SEC <= c[d] /\ c[d] + s.extra[d] <= GREEN_MAX_SEC
  BY <1>1, <1>2, <1>3, GreenBounds DEF Dir
<1>7. c["NS"] + c["EW"] = 2 * GREEN_BASE_SEC
  BY <1>2, <1>3, GreenBounds
<1> HIDE DEF r
<1> QED
  BY <1>4, <1>5, <1>6, <1>7 DEF r

-----------------------------------------------------------------------------
(***************************************************************************)
(* Phases.                                                                 *)
(***************************************************************************)

\* r differs from s at most in the phase, its times and the lamps.
SameRest(r, s) ==
  /\ r.traffic_mode = s.traffic_mode /\ r.request = s.request
  /\ r.extra = s.extra /\ r.cycle = s.cycle
  /\ r.train_pending = s.train_pending /\ r.train_active = s.train_active
  /\ r.train_waiting_for_clear = s.train_waiting_for_clear
  /\ r.train_pass_remaining = s.train_pass_remaining
  /\ r.train_recovery_remaining = s.train_recovery_remaining
  /\ r.coordination_pending = s.coordination_pending
  /\ r.coordination_dir = s.coordination_dir
  /\ r.coordination_offset_sec = s.coordination_offset_sec

Red(s) == s.train_active \/ s.train_recovery_remaining > 0 \/ s.phase = "RAILWAY_HOLD"

\* The lamps of each phase; those of the hold are red.
LEMMA LampsOK ==
  ASSUME NEW p \in Phase
  PROVE  /\ LampsOf(p) \in [Dir -> Light]
         /\ p = "RAILWAY_HOLD" => LampsOf(p) = Both("RED")
BY DEF LampsOf, Phase, Dir, Light, Both, Green, Yellow

\* What update_lights writes.
LEMMA UpdateLightsFields ==
  ASSUME NEW s \in SignalState
  PROVE  LET r == update_lights(s)
         IN  /\ r \in SignalState /\ SameRest(r, s)
             /\ r.phase = s.phase /\ r.phase_duration = s.phase_duration
             /\ r.time_remaining = s.time_remaining
             /\ r.light = IF Red(s) THEN Both("RED") ELSE LampsOf(s.phase)
             /\ r.walk = IF Red(s) THEN Both(FALSE) ELSE s.walk
<1>1. /\ Both("RED") \in [Dir -> Light] /\ Both(FALSE) \in [Dir -> BOOLEAN]
      /\ LampsOf(s.phase) \in [Dir -> Light]
  BY LampsOK DEF Both, Light, SignalState
<1>2. CASE Red(s)
  <2>1. update_lights(s) = [s EXCEPT !.light = Both("RED"), !.walk = Both(FALSE)]
    BY <1>2 DEF update_lights, Red
  <2>2. update_lights(s) \in SignalState
    BY <1>1, <2>1 DEF SignalState
  <2> QED
    BY <1>1, <1>2, <2>1, <2>2 DEF SignalState, SameRest
<1>3. CASE ~Red(s)
  <2>1. update_lights(s) = [s EXCEPT !.light = LampsOf(s.phase)]
    BY <1>3 DEF update_lights, Red
  <2>2. update_lights(s) \in SignalState
    BY <1>1, <2>1 DEF SignalState
  <2> QED
    BY <1>1, <1>3, <2>1, <2>2 DEF SignalState, SameRest
<1> QED
  BY <1>2, <1>3

\* r is s with a phase of n seconds set.
PhaseSet(r, s, phase, n) ==
  /\ r \in SignalState /\ SameRest(r, s)
  /\ r.phase = phase /\ r.phase_duration = n /\ r.time_remaining = n
  /\ r.walk = Both(FALSE)
  /\ r.light = IF s.train_active \/ s.train_recovery_remaining > 0
               THEN Both("RED") ELSE LampsOf(phase)

\* What set_phase writes.
LEMMA SetPhaseFields ==
  ASSUME NEW s \in SignalState, NEW phase \in Phase, NEW n \in Int
  PROVE  PhaseSet(set_phase(s, phase, n), s, phase, n)
<1> DEFINE p == [s EXCEPT !.phase = phase, !.phase_duration = n,
                          !.time_remaining = n, !.walk = Both(FALSE)]
<1>1. /\ p \in SignalState /\ SameRest(p, s)
      /\ p.phase = phase /\ p.phase_duration = n /\ p.time_remaining = n
      /\ p.walk = Both(FALSE)
  <2>1. Both(FALSE) \in [Dir -> BOOLEAN]
    BY DEF Both
  <2> QED
    BY <2>1 DEF SignalState, SameRest
<1> HIDE DEF p
<1> DEFINE r == set_phase(s, phase, n)
<1>2. r = update_lights(p)
  BY DEF set_phase, p
<1> HIDE DEF r
<1>3. /\ r \in SignalState /\ SameRest(r, p)
      /\ r.phase = phase /\ r.phase_duration = n /\ r.time_remaining = n
      /\ r.light = IF Red(p) THEN Both("RED") ELSE LampsOf(phase)
      /\ r.walk = Both(FALSE)
  BY <1>1, <1>2, UpdateLightsFields
<1>4. r.light = IF s.train_active \/ s.train_recovery_remaining > 0
                THEN Both("RED") ELSE LampsOf(phase)
  BY <1>1, <1>3, LampsOK DEF Red, SameRest
<1>5. SameRest(r, s)
  BY <1>1, <1>3 DEF SameRest
<1> QED
  BY <1>3, <1>4, <1>5 DEF r, PhaseSet

\* A phase of the cycle, begun while no train holds the intersection.
LEMMA CyclePhaseOK ==
  ASSUME NEW s \in SignalState, NEW d \in Dir, NEW n \in Int,
         NEW phase \in {Green(d), Yellow(d)},
         s.traffic_mode # "FAILSAFE", ~s.train_active, s.train_recovery_remaining = 0,
         s.train_pending => phase = Yellow(d),
         PlanInv([s EXCEPT !.phase = phase])
  PROVE  SigInv(set_phase(s, phase, n))
<1> DEFINE r == set_phase(s, phase, n)
           q == [s EXCEPT !.phase = phase]
<1>0. phase \in Phase /\ phase # "RAILWAY_HOLD"
      /\ (s.train_pending => phase \in {"NS_YELLOW", "EW_YELLOW"})
  BY DEF Green, Yellow, Dir, Phase
<1>1. PhaseSet(r, s, phase, n)
  BY <1>0, SetPhaseFields
<1>2. q.phase = phase /\ q.cycle = s.cycle /\ q.extra = s.extra
  BY DEF SignalState
<1> HIDE DEF r, q
<1>3. TrainInv(r)
  BY <1>0, <1>1 DEF TrainInv, PhaseSet, SameRest, TrainPresent, SignalState
<1>4. LampInv(r)
  BY <1>1 DEF LampInv, PhaseSet, Both, SignalState
<1>5. PlanInv(r)
  <2>1. PlanInv(q)
    BY DEF q
  <2> QED
    BY <1>1, <1>2, <2>1 DEF PlanInv, PhaseSet, SameRest
<1> QED
  BY <1>1, <1>3, <1>4, <1>5 DEF SigInv, PhaseSet, r

\* The hold, with a train or a recovery behind it.
LEMMA HoldOK ==
  ASSUME NEW s \in SignalState, NEW n \in Int,
         s.traffic_mode # "FAILSAFE", ~s.train_pending,
         s.train_recovery_remaining >= 0,
         s.train_active <=> ~(s.train_recovery_remaining > 0),
         PlanInv(s)
  PROVE  SigInv(set_phase(s, "RAILWAY_HOLD", n))
<1> DEFINE r == set_phase(s, "RAILWAY_HOLD", n)
<1>0. "RAILWAY_HOLD" \in Phase
  BY DEF Phase
<1>1. PhaseSet(r, s, "RAILWAY_HOLD", n) /\ LampsOf("RAILWAY_HOLD") = Both("RED")
  BY <1>0, SetPhaseFields, LampsOK
<1> HIDE DEF r
<1>3. TrainInv(r)
  BY <1>1 DEF TrainInv, PhaseSet, SameRest, TrainPresent, SignalState
<1>4. LampInv(r)
  BY <1>1 DEF LampInv, PhaseSet, Both
<1>5. PlanInv(r)
  BY <1>1 DEF PlanInv, PhaseSet, SameRest, Green, Yellow, Dir
<1> QED
  BY <1>1, <1>3, <1>4, <1>5 DEF SigInv, PhaseSet, r

\* A green that the cycle begins: what is due to d is spent and not cut off.
LEMMA StartGreenOK ==
  ASSUME NEW s \in SignalState, NEW d \in Dir, NEW h \in [Dir -> BOOLEAN],
         s.traffic_mode # "FAILSAFE", ~TrainPresent(s), s.train_recovery_remaining = 0,
         \A e \in Dir : s.extra[e] >= 0,
         s.extra["NS"] + s.extra["EW"] <= GREEN_MAX_SEC - GREEN_MIN_SEC,
         d # InitialDir =>
           /\ s.cycle["NS"] + s.cycle["EW"] = 2 * GREEN_BASE_SEC
           /\ \A e \in Dir : GREEN_MIN_SEC <= s.cycle[e] /\ s.cycle[e] <= GREEN_MAX_SEC
           /\ s.cycle[d] + s.extra[d] <= GREEN_MAX_SEC
  PROVE  LET r == start_green(s, d, h)
         IN  /\ SigInv(r) /\ r.phase = Green(d)
             /\ r.phase_duration = r.cycle[d] + s.extra[d]
             /\ r.traffic_mode = s.traffic_mode
<1> DEFINE p == IF d = InitialDir THEN local_plan_cycle(s, h) ELSE s
           q == [p EXCEPT !.extra = [p.extra EXCEPT ![d] = 0]]
           n == clamp_green_time(p.cycle[d] + p.extra[d])
           r == start_green(s, d, h)
<1>1. /\ p \in SignalState /\ p = [s EXCEPT !.cycle = p.cycle]
      /\ p.cycle["NS"] + p.cycle["EW"] = 2 * GREEN_BASE_SEC
      /\ \A e \in Dir : GREEN_MIN_SEC <= p.cycle[e] /\ p.cycle[e] <= GREEN_MAX_SEC
      /\ p.cycle[d] + s.extra[d] <= GREEN_MAX_SEC
      /\ d = InitialDir => \A e \in Dir : p.cycle[e] + s.extra[e] <= GREEN_MAX_SEC
  <2>1. CASE d = InitialDir
    <3>1. /\ p \in SignalState /\ p = [s EXCEPT !.cycle = p.cycle]
          /\ p.cycle["NS"] + p.cycle["EW"] = 2 * GREEN_BASE_SEC
          /\ \A e \in Dir : /\ GREEN_MIN_SEC <= p.cycle[e]
                            /\ p.cycle[e] + s.extra[e] <= GREEN_MAX_SEC
      BY <2>1, PlanOK
    <3> HIDE DEF p
    <3>2. \A e \in Dir : p.cycle[e] \in Int /\ s.extra[e] \in Int
      BY <3>1 DEF SignalState
    <3>3. \A e \in Dir : p.cycle[e] <= GREEN_MAX_SEC
      BY <3>1, <3>2, GreenBounds
    <3> QED
      BY <3>1, <3>3
  <2>2. CASE d # InitialDir
    <3>1. p = s /\ s = [s EXCEPT !.cycle = s.cycle]
      BY <2>2 DEF SignalState
    <3> QED
      BY <2>2, <3>1
  <2> QED
    BY <2>1, <2>2
<1> HIDE DEF p
<1>2. p.extra = s.extra /\ p.traffic_mode = s.traffic_mode
      /\ p.train_active = s.train_active /\ p.train_pending = s.train_pending
      /\ p.train_recovery_remaining = s.train_recovery_remaining
  BY <1>1 DEF SignalState
<1>3. /\ q \in SignalState /\ q.cycle = p.cycle /\ q.extra = [s.extra EXCEPT ![d] = 0]
      /\ q.traffic_mode = s.traffic_mode /\ ~q.train_active /\ ~q.train_pending
      /\ q.train_recovery_remaining = 0
  BY <1>1, <1>2 DEF SignalState, TrainPresent
<1> HIDE DEF q
<1>4. n \in Int /\ n = p.cycle[d] + s.extra[d]
  BY <1>1, <1>2, ClampOK, GreenBounds DEF SignalState
<1> HIDE DEF n
<1>5. r = set_phase(q, Green(d), n)
  BY DEF start_green, p, q, n
<1>6. PlanInv([q EXCEPT !.phase = Green(d)])
  <2> DEFINE u == [q EXCEPT !.phase = Green(d)]
  <2>1. u.phase = Green(d) /\ u.cycle = p.cycle /\ u.extra = [s.extra EXCEPT ![d] = 0]
    BY <1>3 DEF SignalState
  <2> HIDE DEF u
  <2>2. \A e \in Dir : u.extra[e] = IF e = d THEN 0 ELSE s.extra[e]
    BY <2>1 DEF SignalState
  <2>3. \A e \in Dir : s.extra[e] \in Int /\ p.cycle[e] \in Int
    BY <1>1 DEF SignalState
  <2>4. Other(InitialDir) \in Dir /\ Other(d) \in Dir
    BY DEF Other, Dir
  <2>5. (\A e \in Dir : u.extra[e] >= 0)
        /\ u.extra["NS"] + u.extra["EW"] <= GREEN_MAX_SEC - GREEN_MIN_SEC
    BY <2>2, <2>3, GreenBounds DEF Dir
  <2>6. \A e \in Dir : u.phase \in {Green(e), Yellow(e)} => u.extra[e] = 0
    BY <2>1, <2>2 DEF Dir, Green, Yellow
  <2>7. u.phase \in {Green(InitialDir), Yellow(InitialDir)} => d = InitialDir
    BY <2>1, TimingAssumption DEF Dir, Green, Yellow
  <2>8. d = InitialDir => Other(InitialDir) # d
    BY DEF Other, Dir
  <2>9. u.phase \in {Green(InitialDir), Yellow(InitialDir)} =>
          u.cycle[Other(InitialDir)] + u.extra[Other(InitialDir)] <= GREEN_MAX_SEC
    BY <1>1, <2>1, <2>2, <2>4, <2>7, <2>8
  <2>10. PlanInv(u)
    BY <1>1, <2>1, <2>5, <2>6, <2>9 DEF PlanInv
  <2> QED
    BY <2>10 DEF u
<1>7. SigInv(r)
  <2>1. Green(d) \in {Green(d), Yellow(d)} /\ q.traffic_mode # "FAILSAFE"
    BY <1>3 DEF SigInv, TrainInv
  <2>2. SigInv(set_phase(q, Green(d), n))
    BY <1>3, <1>4, <1>6, <2>1, CyclePhaseOK
  <2> QED
    BY <1>5, <2>2
<1>8. /\ r.phase = Green(d) /\ r.phase_duration = n /\ r.cycle = p.cycle
      /\ r.traffic_mode = s.traffic_mode
  <2>1. Green(d) \in Phase
    BY DEF Green, Phase
  <2> HIDE DEF r
  <2>2. PhaseSet(r, q, Green(d), n)
    BY <1>3, <1>4, <1>5, <2>1, SetPhaseFields
  <2> QED
    BY <1>3, <2>2 DEF PhaseSet, SameRest
<1> HIDE DEF r
<1> QED
  BY <1>4, <1>7, <1>8 DEF r

\* A jump into the fixed cycle for coordination.
LEMMA CoordinationOK ==
  ASSUME NEW s \in SignalState, NEW first \in Dir, NEW offset \in Int,
         s.traffic_mode # "FAILSAFE", ~TrainPresent(s), s.train_recovery_remaining = 0
  PROVE  LET r == set_coordination_phase(s, first, offset)
         IN  SigInv(r) /\ r.traffic_mode = s.traffic_mode
<1> DEFINE g == configured_green_time
           p == [s EXCEPT !.extra = Both(0), !.cycle = Both(g),
                          !.coordination_pending = FALSE]
           at == offset % local_fixed_cycle_seconds
<1>1. g = GREEN_BASE_SEC /\ g \in Int /\ YELLOW_SEC \in Int
  BY GreenBounds, TimingAssumption
<1>2. local_fixed_cycle_seconds \in Int /\ local_fixed_cycle_seconds > 0
  BY <1>1, GreenBounds, TimingAssumption DEF local_fixed_cycle_seconds
<1>3. at \in Int
  BY <1>2
<1> HIDE DEF g, at
<1>4. Both(0) \in [Dir -> Int] /\ Both(g) \in [Dir -> Int]
  BY <1>1 DEF Both
<1>5. /\ p \in SignalState /\ p.extra = Both(0) /\ p.cycle = Both(g)
      /\ p.traffic_mode = s.traffic_mode /\ ~p.train_active /\ ~p.train_pending
      /\ p.train_recovery_remaining = 0
  BY <1>4 DEF SignalState, TrainPresent
<1> HIDE DEF p
<1>6. ASSUME NEW d \in Dir, NEW phase \in {Green(d), Yellow(d)}, NEW n \in Int
      PROVE  /\ SigInv(set_phase(p, phase, n))
             /\ set_phase(p, phase, n).traffic_mode = s.traffic_mode
  <2> DEFINE u == [p EXCEPT !.phase = phase]
  <2>1. u.extra = Both(0) /\ u.cycle = Both(g)
    BY <1>5 DEF SignalState
  <2> HIDE DEF u
  <2>2. Other(InitialDir) \in Dir
    BY DEF Other, Dir
  <2>3. \A e \in Dir : u.extra[e] = 0 /\ u.cycle[e] = GREEN_BASE_SEC
    BY <1>1, <2>1 DEF Both
  <2>4. PlanInv(u)
    BY <2>2, <2>3, GreenBounds DEF PlanInv, Dir
  <2>5. phase \in Phase
    BY DEF Green, Yellow, Phase
  <2>6. PhaseSet(set_phase(p, phase, n), p, phase, n)
    BY <1>5, <2>5, SetPhaseFields
  <2>7. SigInv(set_phase(p, phase, n))
    BY <1>5, <2>4, CyclePhaseOK DEF u
  <2> QED
    BY <1>5, <2>6, <2>7 DEF PhaseSet, SameRest
<1>7. /\ g - at \in Int /\ g + YELLOW_SEC - at \in Int
      /\ g + YELLOW_SEC + g - at \in Int /\ local_fixed_cycle_seconds - at \in Int
  BY <1>1, <1>2, <1>3
<1>8. Other(first) \in Dir
  BY DEF Other, Dir
<1>9. \/ set_coordination_phase(s, first, offset) = set_phase(p, Green(first), g - at)
      \/ set_coordination_phase(s, first, offset)
           = set_phase(p, Yellow(first), g + YELLOW_SEC - at)
      \/ set_coordination_phase(s, first, offset)
           = set_phase(p, Green(Other(first)), g + YELLOW_SEC + g - at)
      \/ set_coordination_phase(s, first, offset)
           = set_phase(p, Yellow(Other(first)), local_fixed_cycle_seconds - at)
  BY DEF set_coordination_phase, g, p, at
<1> QED
  BY <1>6, <1>7, <1>8, <1>9

\* r is a sound next phase after s: green ends in yellow, and a green that
\* follows the other road's yellow lasts its plan and what is due to it.
NextPhase(r, s) ==
  /\ r.traffic_mode = s.traffic_mode
  /\ \A d \in Dir : s.phase = Green(d) => r.phase \in {Green(d), Yellow(d)}
  /\ \A d \in Dir : s.phase = Yellow(Other(d)) /\ r.phase = Green(d)
                      /\ ~s.coordination_pending
                    => r.phase_duration = r.cycle[d] + s.extra[d]

\* The cycle goes on to its next phase.
LEMMA AdvanceOK ==
  ASSUME NEW s, SigInv(s), NEW h \in [Dir -> BOOLEAN],
         ~TrainPresent(s), s.train_recovery_remaining = 0
  PROVE  SigInv(advance_phase(s, h)) /\ NextPhase(advance_phase(s, h), s)
<1> DEFINE r == advance_phase(s, h)
<1>0. /\ s \in SignalState /\ s.traffic_mode # "FAILSAFE" /\ PlanInv(s)
      /\ ~s.train_active /\ ~s.train_pending /\ s.phase # "RAILWAY_HOLD"
      /\ s.phase \in Phase /\ s.coordination_dir \in Dir
      /\ s.coordination_offset_sec \in Int
  BY DEF SigInv, TrainInv, TrainPresent, SignalState
<1>1. \E d \in Dir : s.phase \in {Green(d), Yellow(d)}
  BY <1>0 DEF Phase, Dir, Green, Yellow
<1>2. PICK d \in Dir : s.phase \in {Green(d), Yellow(d)}
  BY <1>1
<1>3. /\ Other(d) \in Dir /\ Other(d) # d /\ Other(Other(d)) = d
      /\ Green(d) \in Phase /\ Yellow(d) \in Phase
      /\ \A e \in Dir : /\ Green(e) = Green(d) <=> e = d
                        /\ Yellow(e) = Yellow(d) <=> e = d
                        /\ Green(e) # Yellow(d) /\ Green(d) # Yellow(e)
  BY DEF Dir, Other, Green, Yellow, Phase
<1>4. CASE s.phase = Yellow(d) /\ s.coordination_pending
  <2>1. r = set_coordination_phase(s, s.coordination_dir, s.coordination_offset_sec)
    BY <1>4 DEF advance_phase, Yellow
  <2> HIDE DEF r
  <2>2. SigInv(r) /\ r.traffic_mode = s.traffic_mode
    BY <1>0, <2>1, CoordinationOK
  <2> QED
    BY <1>3, <1>4, <2>2 DEF NextPhase, r
<1>5. CASE s.phase = Green(d)
  <2>1. r = set_phase(s, Yellow(d), YELLOW_SEC)
    BY <1>5 DEF advance_phase, Green, Yellow, Dir
  <2> HIDE DEF r
  <2>2. PlanInv([s EXCEPT !.phase = Yellow(d)])
    <3> DEFINE u == [s EXCEPT !.phase = Yellow(d)]
    <3>1. u.phase = Yellow(d) /\ u.extra = s.extra /\ u.cycle = s.cycle
      BY <1>0 DEF SignalState
    <3> HIDE DEF u
    <3>2. PlanInv(u)
      BY <1>0, <1>3, <1>5, <3>1, TimingAssumption DEF PlanInv
    <3> QED
      BY <3>2 DEF u
  <2>3. YELLOW_SEC \in Int
    BY TimingAssumption
  <2>4. SigInv(r)
    BY <1>0, <2>1, <2>2, <2>3, CyclePhaseOK
  <2>5. PhaseSet(r, s, Yellow(d), YELLOW_SEC)
    BY <1>0, <1>3, <2>1, <2>3, SetPhaseFields
  <2>6. r.phase = Yellow(d) /\ r.traffic_mode = s.traffic_mode
    BY <2>5 DEF PhaseSet, SameRest
  <2> QED
    BY <1>3, <1>5, <2>4, <2>6 DEF NextPhase, r
<1>6. CASE s.phase = Yellow(d) /\ ~s.coordination_pending
  <2>1. r = start_green(s, Other(d), h)
    BY <1>0, <1>6 DEF advance_phase, Yellow, Dir, Other
  <2> HIDE DEF r
  <2>2. /\ \A e \in Dir : s.extra[e] >= 0
        /\ s.extra["NS"] + s.extra["EW"] <= GREEN_MAX_SEC - GREEN_MIN_SEC
        /\ s.cycle["NS"] + s.cycle["EW"] = 2 * GREEN_BASE_SEC
        /\ \A e \in Dir : GREEN_MIN_SEC <= s.cycle[e] /\ s.cycle[e] <= GREEN_MAX_SEC
    BY <1>0 DEF PlanInv
  <2>3. Other(d) # InitialDir => s.cycle[Other(d)] + s.extra[Other(d)] <= GREEN_MAX_SEC
    <3>1. Other(d) # InitialDir => d = InitialDir
      BY TimingAssumption DEF Dir, Other
    <3> QED
      BY <1>0, <1>6, <3>1 DEF PlanInv
  <2>4. /\ SigInv(r) /\ r.phase = Green(Other(d))
        /\ r.phase_duration = r.cycle[Other(d)] + s.extra[Other(d)]
        /\ r.traffic_mode = s.traffic_mode
    BY <1>0, <1>3, <2>1, <2>2, <2>3, StartGreenOK
  <2>5. \A e \in Dir : r.phase = Green(e) => e = Other(d)
    BY <2>4 DEF Dir, Green, Other
  <2> QED
    BY <1>3, <1>6, <2>4, <2>5 DEF NextPhase, r
<1> QED
  BY <1>2, <1>4, <1>5, <1>6

-----------------------------------------------------------------------------
(***************************************************************************)
(* Pedestrians.                                                            *)
(***************************************************************************)

\* r agrees with s in phase, times, lamps, plan, train and coordination.
SameSignals(r, s) ==
  /\ r.traffic_mode = s.traffic_mode /\ r.phase = s.phase /\ r.light = s.light
  /\ r.cycle = s.cycle
  /\ r.train_pending = s.train_pending /\ r.train_active = s.train_active
  /\ r.train_waiting_for_clear = s.train_waiting_for_clear
  /\ r.train_recovery_remaining = s.train_recovery_remaining
  /\ r.coordination_pending = s.coordination_pending

\* WALK is given in the window of the green beside, and nowhere else.
LEMMA PedestrianOK ==
  ASSUME NEW s \in SignalState, TrainInv(s), PlanInv(s), s.light = LampsOf(s.phase),
         ~s.train_active, s.train_recovery_remaining = 0
  PROVE  LET r == update_pedestrian(s)
         IN  /\ SigInv(r) /\ SameSignals(r, s) /\ r.extra = s.extra
             /\ r.time_remaining = s.time_remaining
<1> DEFINE window == /\ s.phase_duration - s.time_remaining >= PED_WALK_START_SEC
                     /\ s.time_remaining > PED_WALK_END_SEC
           walks == [d \in Dir |-> window /\ pedestrian_service_phase(s.phase, d)]
           asks == [d \in Dir |-> s.request[d] /\ ~walks[d]]
           r == update_pedestrian(s)
<1>1. walks \in [Dir -> BOOLEAN] /\ asks \in [Dir -> BOOLEAN]
      /\ \A d \in Dir : walks[d] => /\ s.phase = Green(Other(d))
                                    /\ s.time_remaining > PED_WALK_END_SEC
  BY DEF pedestrian_service_phase
<1>2. r = [s EXCEPT !.walk = walks, !.request = asks]
  <2>1. ~(s.train_active \/ s.train_recovery_remaining > 0)
    OBVIOUS
  <2> QED
    BY <2>1, Zenon DEF update_pedestrian
<1> HIDE DEF walks, asks
<1>3. /\ r \in SignalState /\ SameSignals(r, s) /\ r.extra = s.extra
      /\ r.time_remaining = s.time_remaining /\ r.walk = walks
  BY <1>1, <1>2 DEF SignalState, SameSignals
<1> HIDE DEF r
<1>4. TrainInv(r)
  BY <1>3 DEF TrainInv, TrainPresent, SameSignals
<1>5. LampInv(r)
  BY <1>1, <1>3 DEF LampInv, SameSignals
<1>6. PlanInv(r)
  BY <1>3 DEF PlanInv, SameSignals
<1> QED
  BY <1>3, <1>4, <1>5, <1>6 DEF SigInv, r

\* The button cuts the green that serves d, but not below the cap, and by no
\* more than there is room for in d's own next green.
LEMMA CapOK ==
  ASSUME NEW s, SigInv(s), NEW d \in Dir
  PROVE  LET r == cap_green_for_pedestrian(s, d)
         IN  SigInv(r) /\ SameSignals(r, s)
<1> DEFINE room == IF s.phase = Green(InitialDir)
                   THEN GREEN_MAX_SEC - s.cycle[d] - s.extra[d]
                   ELSE GREEN_MAX_SEC - GREEN_MIN_SEC - s.extra["NS"] - s.extra["EW"]
           capacity == IF room < 0 THEN 0 ELSE room
           excess == s.time_remaining - PED_GREEN_CAP_SEC
           removed == IF excess > capacity THEN capacity ELSE excess
           more == [s.extra EXCEPT ![d] = s.extra[d] + removed]
           r == cap_green_for_pedestrian(s, d)
<1>0. /\ s \in SignalState /\ TrainInv(s) /\ LampInv(s) /\ PlanInv(s)
      /\ \A e \in Dir : s.extra[e] \in Int /\ s.cycle[e] \in Int /\ s.extra[e] >= 0
      /\ s.time_remaining \in Int /\ s.phase_duration \in Int
      /\ s.extra \in [Dir -> Int]
  BY DEF SigInv, SignalState, PlanInv
<1>1. CASE ~(pedestrian_service_phase(s.phase, d) /\ s.time_remaining > PED_GREEN_CAP_SEC)
  <2>1. r = s
    BY <1>1 DEF cap_green_for_pedestrian
  <2> QED
    BY <2>1 DEF SameSignals
<1>2. CASE pedestrian_service_phase(s.phase, d) /\ s.time_remaining > PED_GREEN_CAP_SEC
  <2>1. r = [s EXCEPT !.time_remaining = s.time_remaining - removed,
                      !.phase_duration = s.phase_duration - removed, !.extra = more]
    BY <1>2 DEF cap_green_for_pedestrian
  <2>2. /\ s.phase = Green(Other(d)) /\ Other(d) \in Dir /\ Other(d) # d
        /\ Other(Other(d)) = d /\ s.phase \notin {Green(d), Yellow(d)}
        /\ Green(Other(d)) = Green(InitialDir) <=> Other(d) = InitialDir
        /\ Green(Other(d)) # Yellow(InitialDir)
    BY <1>2, TimingAssumption DEF pedestrian_service_phase, Dir, Other, Green, Yellow
  <2>3. s.extra[Other(d)] = 0
    BY <1>0, <2>2 DEF PlanInv
  <2>4. s.extra["NS"] + s.extra["EW"] = s.extra[d]
    BY <1>0, <2>3 DEF Dir, Other
  <2>5. GREEN_MIN_SEC <= s.cycle[d] /\ s.extra[d] <= GREEN_MAX_SEC - GREEN_MIN_SEC
    BY <1>0, <2>4 DEF PlanInv
  <2>6. Other(d) = InitialDir => s.cycle[d] + s.extra[d] <= GREEN_MAX_SEC
    BY <1>0, <2>2 DEF PlanInv
  <2>7. /\ room \in Int /\ room >= 0
        /\ s.extra[d] + room <= GREEN_MAX_SEC - GREEN_MIN_SEC
        /\ Other(d) = InitialDir => s.cycle[d] + s.extra[d] + room <= GREEN_MAX_SEC
    <3>1. "NS" \in Dir /\ "EW" \in Dir
      BY DEF Dir
    <3>2. CASE Other(d) = InitialDir
      BY <1>0, <2>2, <2>5, <2>6, <3>2, GreenBounds
    <3>3. CASE Other(d) # InitialDir
      BY <1>0, <2>2, <2>4, <2>5, <3>1, <3>3, GreenBounds
    <3> QED
      BY <3>2, <3>3
  <2> HIDE DEF room
  <2>8. excess \in Int /\ excess > 0
    BY <1>0, <1>2, TimingAssumption
  <2>9. removed \in Int /\ removed >= 0 /\ removed <= room /\ removed <= excess
    BY <2>7, <2>8
  <2>10. s.time_remaining - removed > PED_WALK_END_SEC
    BY <1>0, <2>9, TimingAssumption
  <2> HIDE DEF removed, excess
  <2>11. more \in [Dir -> Int] /\ \A e \in Dir :
           more[e] = IF e = d THEN s.extra[d] + removed ELSE s.extra[e]
    BY <1>0, <2>9
  <2> HIDE DEF more
  <2>12. s.time_remaining - removed \in Int /\ s.phase_duration - removed \in Int
    BY <1>0, <2>9
  <2>13. /\ r \in SignalState /\ SameSignals(r, s) /\ r.extra = more
         /\ r.time_remaining = s.time_remaining - removed /\ r.walk = s.walk
    <3> DEFINE a == s.time_remaining - removed
               b == s.phase_duration - removed
    <3>1. r = [s EXCEPT !.time_remaining = a, !.phase_duration = b, !.extra = more]
      BY <2>1
    <3>2. a \in Int /\ b \in Int
      BY <2>12
    <3> HIDE DEF a, b, r
    <3>3. /\ r \in SignalState /\ SameSignals(r, s) /\ r.extra = more
          /\ r.time_remaining = a /\ r.walk = s.walk
      BY <1>0, <2>11, <3>1, <3>2 DEF SignalState, SameSignals
    <3> QED
      BY <3>3 DEF a
  <2> HIDE DEF r
  <2>14. TrainInv(r)
    BY <1>0, <2>13 DEF TrainInv, TrainPresent, SameSignals
  <2>15. LampInv(r)
    BY <1>0, <2>10, <2>13 DEF LampInv, SameSignals
  <2>16. PlanInv(r)
    <3>1. /\ r.extra[d] = s.extra[d] + removed /\ r.extra[Other(d)] = 0
          /\ \A e \in Dir : e = d \/ e = Other(d)
      BY <2>2, <2>3, <2>11, <2>13 DEF Dir, Other
    <3>2. \A e \in Dir : r.extra[e] >= 0
      BY <1>0, <2>9, <3>1
    <3>3. r.extra["NS"] + r.extra["EW"] <= GREEN_MAX_SEC - GREEN_MIN_SEC
      <4>1. r.extra["NS"] + r.extra["EW"] = s.extra[d] + removed
        BY <1>0, <2>9, <3>1 DEF Dir, Other
      <4> QED
        BY <1>0, <2>7, <2>9, <4>1, GreenBounds
    <3>4. \A e \in Dir : r.phase \in {Green(e), Yellow(e)} => r.extra[e] = 0
      BY <2>2, <2>13, <3>1 DEF SameSignals
    <3>5. r.phase \in {Green(InitialDir), Yellow(InitialDir)} =>
            r.cycle[Other(InitialDir)] + r.extra[Other(InitialDir)] <= GREEN_MAX_SEC
      <4>1. ASSUME r.phase \in {Green(InitialDir), Yellow(InitialDir)}
            PROVE  Other(d) = InitialDir /\ Other(InitialDir) = d
        BY <2>2, <2>13, <4>1 DEF SameSignals
      <4>2. Other(d) = InitialDir => s.cycle[d] + (s.extra[d] + removed) <= GREEN_MAX_SEC
        BY <1>0, <2>7, <2>9, GreenBounds
      <4> QED
        BY <2>13, <3>1, <4>1, <4>2 DEF SameSignals
    <3> QED
      BY <1>0, <2>13, <3>2, <3>3, <3>4, <3>5 DEF PlanInv, SameSignals
  <2> QED
    BY <2>13, <2>14, <2>15, <2>16 DEF SigInv, r
<1> QED
  BY <1>1, <1>2

\* A request for pedestrians.
LEMMA PedRequestOK ==
  ASSUME NEW s, SigInv(s), NEW d \in Dir
  PROVE  LET r == add_pedestrian_request(s, d)
         IN  SigInv(r) /\ SameSignals(r, s)
<1> DEFINE asked == [s EXCEPT !.request = [s.request EXCEPT ![d] = TRUE]]
           r == add_pedestrian_request(s, d)
<1>0. s \in SignalState
  BY DEF SigInv
<1>1. /\ asked \in SignalState /\ SameSignals(asked, s) /\ asked.extra = s.extra
      /\ asked.time_remaining = s.time_remaining /\ asked.walk = s.walk
  BY <1>0 DEF SignalState, SameSignals
<1> HIDE DEF asked
<1>2. SigInv(asked)
  BY <1>1 DEF SigInv, SameSignals, TrainInv, TrainPresent, LampInv, PlanInv
<1>3. CASE s.request[d]
  <2>1. r = s
    BY <1>3 DEF add_pedestrian_request
  <2> QED
    BY <2>1 DEF SameSignals
<1>4. CASE ~s.request[d]
  <2>1. r = cap_green_for_pedestrian(asked, d)
    BY <1>4 DEF add_pedestrian_request, asked
  <2> HIDE DEF r
  <2>2. SigInv(r) /\ SameSignals(r, asked)
    BY <1>2, <2>1, CapOK
  <2>3. SameSignals(r, s)
    BY <1>1, <2>2 DEF SameSignals
  <2> QED
    BY <2>2, <2>3 DEF r
<1> QED
  BY <1>3, <1>4

-----------------------------------------------------------------------------
(***************************************************************************)
(* Trains.                                                                 *)
(***************************************************************************)

\* Without carried seconds the plan suits every phase.
LEMMA PlanWithoutExtra ==
  ASSUME NEW s, NEW r, s.cycle \in [Dir -> Int], PlanInv(s),
         r.cycle = s.cycle, r.extra = Both(0)
  PROVE  PlanInv(r)
<1>1. \A d \in Dir : r.extra[d] = 0 /\ s.cycle[d] \in Int
  BY DEF Both
<1>2. Other(InitialDir) \in Dir
  BY DEF Other, Dir
<1> QED
  BY <1>1, <1>2, GreenBounds DEF PlanInv, Dir

\* A train is announced: green turns yellow for YELLOW_SEC, yellow goes on,
\* and the hold goes on as a train's.
LEMMA StartTrainOK ==
  ASSUME NEW s, SigInv(s), ~TrainPresent(s), NEW wait \in BOOLEAN, NEW eta \in Int
  PROVE  LET r == start_train_common(s, wait, eta)
         IN  /\ SigInv(r) /\ TrainPresent(r) /\ r.train_waiting_for_clear = wait
             /\ r.traffic_mode = s.traffic_mode
             /\ s.phase # "RAILWAY_HOLD" => r.train_pending
             /\ \A d \in Dir : s.phase = Green(d) => /\ r.phase = Yellow(d)
                                                     /\ r.time_remaining = YELLOW_SEC
             /\ \A d \in Dir : s.phase = Yellow(d) => r.phase = Yellow(d)
<1> DEFINE n == IF wait THEN eta ELSE TRAIN_PASSING_SECONDS
           p == [s EXCEPT !.train_pending = TRUE, !.train_waiting_for_clear = wait,
                          !.train_pass_remaining = n,
                          !.train_recovery_remaining = 0, !.extra = Both(0)]
           r == start_train_common(s, wait, eta)
<1>0. s \in SignalState /\ TrainInv(s) /\ LampInv(s) /\ PlanInv(s) /\ s.phase \in Phase
  BY DEF SigInv, SignalState
<1>1. n \in Int /\ Both(0) \in [Dir -> Int] /\ YELLOW_SEC \in Int
  BY TimingAssumption DEF Both
<1>2. r = CASE s.phase = "NS_GREEN" -> set_phase(p, "NS_YELLOW", YELLOW_SEC)
            [] s.phase = "EW_GREEN" -> set_phase(p, "EW_YELLOW", YELLOW_SEC)
            [] s.phase \in {"NS_YELLOW", "EW_YELLOW"} -> p
            [] OTHER -> set_phase([p EXCEPT !.train_pending = FALSE,
                                            !.train_active = TRUE],
                                  "RAILWAY_HOLD", 0)
  BY DEF start_train_common
<1> HIDE DEF n, r
<1>3. /\ p \in SignalState /\ p.train_pending /\ p.train_active = s.train_active
      /\ p.train_waiting_for_clear = wait /\ p.train_recovery_remaining = 0
      /\ p.extra = Both(0) /\ p.cycle = s.cycle /\ p.traffic_mode = s.traffic_mode
      /\ p.phase = s.phase /\ p.light = s.light /\ p.walk = s.walk
      /\ p.time_remaining = s.time_remaining
  <2>1. p \in SignalState
    <3> DEFINE a == [s EXCEPT !.train_pending = TRUE, !.train_waiting_for_clear = wait,
                              !.train_pass_remaining = n]
    <3>1. a \in SignalState
      BY <1>0, <1>1 DEF SignalState
    <3> HIDE DEF a
    <3> DEFINE B(x) == [a EXCEPT !.train_recovery_remaining = x, !.extra = Both(0)]
    <3>2. \A x \in Int : B(x) \in SignalState
      BY <1>1, <3>1 DEF SignalState
    <3>3. p = B(0)
      BY DEF a
    <3> HIDE DEF B
    <3> QED
      BY <3>2, <3>3
  <2>2. /\ p.train_pending /\ p.train_active = s.train_active
        /\ p.train_waiting_for_clear = wait /\ p.train_recovery_remaining = 0
    BY <1>0, <1>1 DEF SignalState
  <2>3. /\ p.extra = Both(0) /\ p.cycle = s.cycle /\ p.traffic_mode = s.traffic_mode
        /\ p.phase = s.phase /\ p.light = s.light /\ p.walk = s.walk
        /\ p.time_remaining = s.time_remaining
    BY <1>0, <1>1 DEF SignalState
  <2> QED
    BY <2>1, <2>2, <2>3
<1> HIDE DEF p
<1>4. \A d \in Dir : /\ Green(d) \in Phase /\ Yellow(d) \in Phase
                     /\ Green(d) # "RAILWAY_HOLD" /\ Yellow(d) # "RAILWAY_HOLD"
                     /\ \A e \in Dir : /\ Green(d) # Yellow(e)
                                       /\ Green(d) = Green(e) => d = e
                                       /\ Yellow(d) = Yellow(e) => d = e
  BY DEF Dir, Phase, Green, Yellow
<1>5. ASSUME NEW d \in Dir, s.phase = Green(d)
      PROVE  /\ SigInv(r) /\ r.train_pending /\ r.train_waiting_for_clear = wait
             /\ r.traffic_mode = s.traffic_mode
             /\ r.phase = Yellow(d) /\ r.time_remaining = YELLOW_SEC
  <2>1. r = set_phase(p, Yellow(d), YELLOW_SEC)
    BY <1>2, <1>5 DEF Dir, Green, Yellow
  <2> DEFINE u == [p EXCEPT !.phase = Yellow(d)]
  <2>2. u.cycle = s.cycle /\ u.extra = Both(0)
    BY <1>3 DEF SignalState
  <2>3. PlanInv(u)
    BY <1>0, <2>2, PlanWithoutExtra DEF SignalState
  <2>4. ~p.train_active
    BY <1>3 DEF TrainPresent
  <2>5. SigInv(r)
    BY <1>0, <1>1, <1>3, <2>1, <2>3, <2>4, CyclePhaseOK DEF TrainInv
  <2>6. PhaseSet(r, p, Yellow(d), YELLOW_SEC)
    BY <1>1, <1>3, <1>4, <2>1, SetPhaseFields
  <2> QED
    BY <1>3, <2>5, <2>6 DEF PhaseSet, SameRest
<1>6. ASSUME NEW d \in Dir, s.phase = Yellow(d)
      PROVE  /\ SigInv(r) /\ r.train_pending /\ r.train_waiting_for_clear = wait
             /\ r.traffic_mode = s.traffic_mode /\ r.phase = Yellow(d)
  <2>1. r = p /\ s.phase \in {"NS_YELLOW", "EW_YELLOW"}
    BY <1>2, <1>6 DEF Dir, Green, Yellow
  <2>2. PlanInv(p)
    BY <1>0, <1>3, PlanWithoutExtra DEF SignalState
  <2>3. TrainInv(p)
    BY <1>0, <1>3, <2>1 DEF TrainInv, TrainPresent
  <2>4. LampInv(p)
    BY <1>0, <1>3 DEF LampInv
  <2> QED
    BY <1>3, <1>6, <2>1, <2>2, <2>3, <2>4 DEF SigInv
<1>7. ASSUME s.phase = "RAILWAY_HOLD"
      PROVE  /\ SigInv(r) /\ r.train_active /\ r.train_waiting_for_clear = wait
             /\ r.traffic_mode = s.traffic_mode
  <2> DEFINE q == [p EXCEPT !.train_pending = FALSE, !.train_active = TRUE]
  <2>1. r = set_phase(q, "RAILWAY_HOLD", 0)
    BY <1>2, <1>7
  <2>2. /\ q \in SignalState /\ ~q.train_pending /\ q.train_active
        /\ q.train_waiting_for_clear = wait /\ q.train_recovery_remaining = 0
        /\ q.extra = Both(0) /\ q.cycle = s.cycle /\ q.traffic_mode = s.traffic_mode
    BY <1>3 DEF SignalState
  <2> HIDE DEF q
  <2>3. PlanInv(q)
    BY <1>0, <2>2, PlanWithoutExtra DEF SignalState
  <2>4. SigInv(r)
    BY <1>0, <2>1, <2>2, <2>3, HoldOK DEF TrainInv
  <2>5. PhaseSet(r, q, "RAILWAY_HOLD", 0)
    BY <2>1, <2>2, SetPhaseFields DEF Phase
  <2> QED
    BY <2>2, <2>4, <2>5 DEF PhaseSet, SameRest
<1>8. \/ \E d \in Dir : s.phase = Green(d)
      \/ \E d \in Dir : s.phase = Yellow(d)
      \/ s.phase = "RAILWAY_HOLD"
  BY <1>0 DEF Phase, Dir, Green, Yellow
<1> QED
  BY <1>4, <1>5, <1>6, <1>7, <1>8 DEF TrainPresent, r

\* A PREEMPT, also for a train already known.
LEMMA PreemptOK ==
  ASSUME NEW s, SigInv(s), NEW eta \in Int
  PROVE  LET r == start_train_message(s, eta)
         IN  /\ SigInv(r) /\ Announced(r) /\ r.traffic_mode = s.traffic_mode
             /\ \A d \in Dir : s.phase = Green(d) => r.phase = Yellow(d)
             /\ \A d \in Dir : s.phase = Yellow(d) => r.phase = Yellow(d)
<1> DEFINE p == [s EXCEPT !.train_waiting_for_clear = TRUE, !.train_pass_remaining = eta]
           r == start_train_message(s, eta)
<1>0. s \in SignalState /\ TrainInv(s) /\ LampInv(s) /\ PlanInv(s)
  BY DEF SigInv
<1>1. /\ p \in SignalState /\ p.train_waiting_for_clear
      /\ p.train_pending = s.train_pending /\ p.train_active = s.train_active
      /\ p.train_recovery_remaining = s.train_recovery_remaining
      /\ p.extra = s.extra /\ p.cycle = s.cycle /\ p.traffic_mode = s.traffic_mode
      /\ p.phase = s.phase /\ p.light = s.light /\ p.walk = s.walk
      /\ p.time_remaining = s.time_remaining
  BY <1>0 DEF SignalState
<1>2. /\ s.train_active => r = set_phase(p, "RAILWAY_HOLD", 0)
      /\ ~s.train_active /\ s.train_pending => r = p
      /\ ~s.train_active /\ ~s.train_pending => r = start_train_common(s, TRUE, eta)
  BY DEF start_train_message
<1> HIDE DEF p, r
<1>3. SigInv(p)
  BY <1>0, <1>1 DEF SigInv, TrainInv, LampInv, PlanInv, TrainPresent
<1>4. CASE s.train_active
  <2>1. s.phase = "RAILWAY_HOLD" /\ ~s.train_pending /\ ~(s.train_recovery_remaining > 0)
    BY <1>0, <1>4 DEF TrainInv, TrainPresent
  <2>2. SigInv(r)
    <3>1. /\ r = set_phase(p, "RAILWAY_HOLD", 0) /\ PlanInv(p) /\ p \in SignalState
          /\ p.traffic_mode # "FAILSAFE" /\ ~p.train_pending
          /\ p.train_recovery_remaining >= 0
          /\ p.train_active <=> ~(p.train_recovery_remaining > 0)
      BY <1>1, <1>2, <1>3, <1>4, <2>1 DEF TrainInv, SigInv
    <3> QED
      BY <3>1, HoldOK
  <2>3. PhaseSet(r, p, "RAILWAY_HOLD", 0)
    BY <1>1, <1>2, <1>4, SetPhaseFields DEF Phase
  <2>4. \A d \in Dir : Green(d) # "RAILWAY_HOLD" /\ Yellow(d) # "RAILWAY_HOLD"
    BY DEF Green, Yellow
  <2> QED
    BY <1>1, <1>4, <2>1, <2>2, <2>3, <2>4
    DEF PhaseSet, SameRest, Announced, TrainPresent, r
<1>5. CASE ~s.train_active /\ s.train_pending
  <2>1. \A d \in Dir : s.phase # Green(d)
    BY <1>0, <1>5 DEF TrainInv, Green, Dir
  <2> QED
    BY <1>1, <1>2, <1>3, <1>5, <2>1 DEF Announced, TrainPresent, r
<1>6. CASE ~s.train_active /\ ~s.train_pending
  <2>1. r = start_train_common(s, TRUE, eta) /\ ~TrainPresent(s)
    BY <1>2, <1>6 DEF TrainPresent
  <2>2. /\ SigInv(r) /\ TrainPresent(r) /\ r.train_waiting_for_clear = TRUE
        /\ r.traffic_mode = s.traffic_mode
        /\ \A d \in Dir : s.phase = Green(d) => r.phase = Yellow(d)
        /\ \A d \in Dir : s.phase = Yellow(d) => r.phase = Yellow(d)
    BY <2>1, StartTrainOK
  <2> QED
    BY <2>2 DEF Announced, r
<1> QED
  BY <1>4, <1>5, <1>6

\* A train that has cleared leaves the recovery behind.
LEMMA ClearOK ==
  ASSUME NEW s, SigInv(s)
  PROVE  LET r == clear_train(s)
         IN  /\ SigInv(r) /\ r.traffic_mode = s.traffic_mode
             /\ IF TrainPresent(s) THEN r.phase = "RAILWAY_HOLD" ELSE r = s
<1> DEFINE p == [s EXCEPT !.train_pending = FALSE, !.train_active = FALSE,
                          !.train_pass_remaining = 0,
                          !.train_waiting_for_clear = FALSE,
                          !.train_recovery_remaining = RAILWAY_RECOVERY_SEC,
                          !.extra = Both(0)]
           r == clear_train(s)
<1>0. s \in SignalState /\ TrainInv(s) /\ LampInv(s) /\ PlanInv(s)
  BY DEF SigInv
<1>1. CASE TrainPresent(s)
  <2>1. r = set_phase(p, "RAILWAY_HOLD", RAILWAY_RECOVERY_SEC)
    BY <1>1 DEF clear_train
  <2>2. /\ RAILWAY_RECOVERY_SEC \in Int /\ RAILWAY_RECOVERY_SEC > 0
        /\ Both(0) \in [Dir -> Int]
    BY TimingAssumption DEF Both
  <2>3. /\ p \in SignalState /\ ~p.train_pending /\ ~p.train_active
        /\ p.train_recovery_remaining = RAILWAY_RECOVERY_SEC
        /\ p.extra = Both(0) /\ p.cycle = s.cycle /\ p.traffic_mode = s.traffic_mode
    <3>1. p \in SignalState
      <4> DEFINE A(x) == [s EXCEPT !.train_pending = FALSE, !.train_active = FALSE,
                                   !.train_pass_remaining = x,
                                   !.train_waiting_for_clear = FALSE]
                 a == A(0)
      <4>1. a \in SignalState
        <5>1. \A x \in Int : A(x) \in SignalState
          BY <1>0 DEF SignalState
        <5> HIDE DEF A
        <5> QED
          BY <5>1
      <4> HIDE DEF a
      <4>2. [a EXCEPT !.train_recovery_remaining = RAILWAY_RECOVERY_SEC,
                      !.extra = Both(0)] \in SignalState
        BY <2>2, <4>1 DEF SignalState
      <4> QED
        BY <4>2 DEF a
    <3>2. /\ ~p.train_pending /\ ~p.train_active
          /\ p.train_recovery_remaining = RAILWAY_RECOVERY_SEC
          /\ p.extra = Both(0) /\ p.cycle = s.cycle /\ p.traffic_mode = s.traffic_mode
      BY <1>0, <2>2 DEF SignalState
    <3> QED
      BY <3>1, <3>2
  <2> HIDE DEF p, r
  <2>4. PlanInv(p)
    BY <1>0, <2>3, PlanWithoutExtra DEF SignalState
  <2>5. SigInv(r)
    BY <1>0, <2>1, <2>2, <2>3, <2>4, HoldOK DEF TrainInv
  <2>6. PhaseSet(r, p, "RAILWAY_HOLD", RAILWAY_RECOVERY_SEC)
    BY <2>1, <2>2, <2>3, SetPhaseFields DEF Phase
  <2> QED
    BY <1>1, <2>3, <2>5, <2>6 DEF PhaseSet, SameRest, r
<1>2. CASE ~TrainPresent(s)
  BY <1>2 DEF clear_train
<1> QED
  BY <1>1, <1>2

-----------------------------------------------------------------------------
(***************************************************************************)
(* The tick.                                                               *)
(***************************************************************************)

\* What a second of the signals owes.
TickSound(r, s) ==
  /\ SigInv(r) /\ NextPhase(r, s)
  /\ Announced(s) => Announced(r)
  /\ s.train_pending => \A d \in Dir : r.phase # Green(d)
  /\ s.train_pending /\ s.time_remaining > 1 => r.phase = s.phase

\* A countdown stops at zero.
LEMMA CountDownOK ==
  ASSUME NEW n \in Int
  PROVE  CountDown(n) \in Int /\ (n > 1 => CountDown(n) > 0)
BY DEF CountDown

\* The names of the phases differ.
LEMMA PhasesDiffer ==
  ASSUME NEW d \in Dir
  PROVE  /\ Green(d) \in Phase /\ Yellow(d) \in Phase
         /\ Green(d) # "RAILWAY_HOLD" /\ Yellow(d) # "RAILWAY_HOLD"
         /\ Green(d) \notin {"NS_YELLOW", "EW_YELLOW"}
BY DEF Dir, Phase, Green, Yellow

\* The clearing yellow of a train, and the hold after it.
LEMMA TickPendingOK ==
  ASSUME NEW s, SigInv(s), s.train_pending
  PROVE  TickSound(tick_pending(s), s)
<1> DEFINE n == CountDown(s.time_remaining)
           w == [s EXCEPT !.time_remaining = n]
           p == update_lights(w)
           q == [p EXCEPT !.train_pending = FALSE, !.train_active = TRUE]
           r == tick_pending(s)
<1>0. /\ s \in SignalState /\ TrainInv(s) /\ LampInv(s) /\ PlanInv(s)
      /\ s.time_remaining \in Int /\ ~s.train_active
      /\ s.train_recovery_remaining = 0 /\ s.phase \in {"NS_YELLOW", "EW_YELLOW"}
  BY DEF SigInv, SignalState, TrainInv, TrainPresent
<1>1. n \in Int /\ (s.time_remaining > 1 => n > 0)
  BY <1>0, CountDownOK
<1>2. r = IF p.time_remaining <= 0 THEN set_phase(q, "RAILWAY_HOLD", 0) ELSE p
  BY DEF tick_pending
<1> HIDE DEF n, r
<1>3. /\ w \in SignalState /\ SameRest(w, s) /\ w.phase = s.phase
      /\ w.walk = s.walk /\ w.time_remaining = n
  BY <1>0, <1>1 DEF SignalState, SameRest
<1> HIDE DEF w
<1>4. ~Red(w)
  BY <1>0, <1>3 DEF Red, SameRest
<1>5. /\ p \in SignalState /\ SameRest(p, s) /\ p.phase = s.phase
      /\ p.walk = s.walk /\ p.time_remaining = n /\ p.light = LampsOf(s.phase)
  <2>1. /\ p \in SignalState /\ SameRest(p, w) /\ p.phase = w.phase
        /\ p.walk = w.walk /\ p.time_remaining = w.time_remaining
        /\ p.light = LampsOf(w.phase)
    BY <1>3, <1>4, UpdateLightsFields
  <2> HIDE DEF p
  <2> QED
    BY <1>3, <2>1 DEF SameRest
<1> HIDE DEF p
<1>6. \A d \in Dir : s.phase # Green(d)
  BY <1>0, PhasesDiffer
<1>7. CASE p.time_remaining <= 0
  <2>1. /\ q \in SignalState /\ ~q.train_pending /\ q.train_active
        /\ q.train_recovery_remaining = 0 /\ q.traffic_mode = s.traffic_mode
        /\ q.phase = s.phase /\ q.cycle = s.cycle /\ q.extra = s.extra
        /\ q.train_waiting_for_clear = s.train_waiting_for_clear
    BY <1>0, <1>5 DEF SignalState, SameRest
  <2> HIDE DEF q
  <2>2. PlanInv(q)
    BY <1>0, <2>1 DEF PlanInv
  <2>3. r = set_phase(q, "RAILWAY_HOLD", 0)
    BY <1>2, <1>7
  <2>4. SigInv(r)
    BY <1>0, <2>1, <2>2, <2>3, HoldOK DEF TrainInv
  <2>5. PhaseSet(r, q, "RAILWAY_HOLD", 0)
    BY <2>1, <2>3, SetPhaseFields DEF Phase
  <2>6. /\ r.phase = "RAILWAY_HOLD" /\ r.train_active /\ r.traffic_mode = s.traffic_mode
        /\ r.train_waiting_for_clear = s.train_waiting_for_clear
    BY <2>1, <2>5 DEF PhaseSet, SameRest
  <2>7. ~(s.time_remaining > 1)
    BY <1>0, <1>1, <1>5, <1>7
  <2> QED
    BY <1>6, <2>4, <2>6, <2>7, PhasesDiffer
    DEF TickSound, NextPhase, Announced, TrainPresent, r
<1>8. CASE ~(p.time_remaining <= 0)
  <2>1. r = p
    BY <1>2, <1>8
  <2>2. TrainInv(p) /\ PlanInv(p)
    BY <1>0, <1>5 DEF TrainInv, TrainPresent, PlanInv, SameRest
  <2>3. LampInv(p)
    BY <1>0, <1>5, <1>6 DEF LampInv, Dir, Other
  <2> QED
    BY <1>5, <1>6, <2>1, <2>2, <2>3
    DEF TickSound, NextPhase, Announced, TrainPresent, SigInv, SameRest, r
<1> QED
  BY <1>7, <1>8

\* The hold: an announced train stays, a demonstration train counts down.
LEMMA TickActiveOK ==
  ASSUME NEW s, SigInv(s), s.train_active
  PROVE  TickSound(tick_active(s), s)
<1> DEFINE left == CountDown(s.train_pass_remaining)
           p == [s EXCEPT !.train_pass_remaining = left]
           q == [p EXCEPT !.phase = "RAILWAY_HOLD", !.time_remaining = left]
           r == tick_active(s)
<1>0. /\ s \in SignalState /\ TrainInv(s) /\ LampInv(s) /\ PlanInv(s)
      /\ s.train_pass_remaining \in Int /\ ~s.train_pending
      /\ ~(s.train_recovery_remaining > 0) /\ s.phase = "RAILWAY_HOLD"
  BY DEF SigInv, SignalState, TrainInv, TrainPresent
<1>1. left \in Int
  BY <1>0, CountDownOK
<1>2. r = IF s.train_waiting_for_clear THEN update_lights(q)
          ELSE IF left <= 0 THEN clear_train(p) ELSE set_phase(p, "RAILWAY_HOLD", left)
  BY DEF tick_active
<1> HIDE DEF left, r
<1>3. /\ p \in SignalState /\ p.traffic_mode = s.traffic_mode /\ p.phase = s.phase
      /\ p.train_pending = s.train_pending /\ p.train_active = s.train_active
      /\ p.train_recovery_remaining = s.train_recovery_remaining
      /\ p.extra = s.extra /\ p.cycle = s.cycle /\ p.light = s.light /\ p.walk = s.walk
      /\ p.time_remaining = s.time_remaining
      /\ p.train_waiting_for_clear = s.train_waiting_for_clear
  BY <1>0, <1>1 DEF SignalState
<1>4. /\ q \in SignalState /\ SameRest(q, p) /\ q.phase = s.phase
  BY <1>0, <1>1, <1>3 DEF SignalState, SameRest
<1> HIDE DEF p, q
<1>5. \A d \in Dir : s.phase # Green(d) /\ s.phase # Yellow(d)
  BY <1>0, PhasesDiffer
<1>6. CASE s.train_waiting_for_clear
  <2>1. Red(q) /\ r = update_lights(q)
    BY <1>0, <1>2, <1>3, <1>4, <1>6 DEF Red, SameRest
  <2>2. /\ r \in SignalState /\ SameRest(r, p) /\ r.phase = s.phase
        /\ r.light = Both("RED") /\ r.walk = Both(FALSE)
    BY <1>4, <2>1, UpdateLightsFields DEF SameRest
  <2>3. TrainInv(r)
    BY <1>0, <1>3, <2>2 DEF TrainInv, TrainPresent, SameRest
  <2>4. LampInv(r)
    BY <1>0, <2>2, LampsOK DEF LampInv, Phase, Both
  <2>5. PlanInv(r)
    BY <1>0, <1>3, <2>2 DEF PlanInv, SameRest
  <2>6. SigInv(r) /\ r.traffic_mode = s.traffic_mode /\ Announced(r)
    BY <1>3, <1>6, <2>2, <2>3, <2>4, <2>5 DEF SigInv, SameRest, Announced, TrainPresent
  <2> QED
    BY <1>0, <1>5, <2>6 DEF TickSound, NextPhase, Dir, Other, r
<1>7. CASE ~s.train_waiting_for_clear
  <2>1. SigInv(p)
    BY <1>0, <1>3 DEF SigInv, TrainInv, TrainPresent, LampInv, PlanInv
  <2>2. SigInv(r) /\ r.traffic_mode = s.traffic_mode
    <3>1. CASE left <= 0
      BY <1>2, <1>3, <1>7, <2>1, <3>1, ClearOK
    <3>2. CASE ~(left <= 0)
      <4>1. r = set_phase(p, "RAILWAY_HOLD", left)
        BY <1>2, <1>7, <3>2
      <4>2. /\ PlanInv(p) /\ p.traffic_mode # "FAILSAFE" /\ ~p.train_pending
            /\ p.train_recovery_remaining >= 0
            /\ p.train_active <=> ~(p.train_recovery_remaining > 0)
        BY <1>0, <1>3, <2>1 DEF SigInv, TrainInv
      <4>3. SigInv(r)
        BY <1>1, <1>3, <4>1, <4>2, HoldOK
      <4>4. PhaseSet(r, p, "RAILWAY_HOLD", left)
        BY <1>1, <1>3, <4>1, SetPhaseFields DEF Phase
      <4> QED
        BY <1>3, <4>3, <4>4 DEF PhaseSet, SameRest
    <3> QED
      BY <3>1, <3>2
  <2> QED
    BY <1>0, <1>5, <1>7, <2>2 DEF TickSound, NextPhase, Announced, Dir, Other, r
<1> QED
  BY <1>6, <1>7

\* The recovery ends in the initial green, newly planned.
LEMMA TickRecoveryOK ==
  ASSUME NEW s, SigInv(s), s.train_recovery_remaining > 0, NEW h \in [Dir -> BOOLEAN]
  PROVE  TickSound(tick_recovery(s, h), s)
<1> DEFINE left == s.train_recovery_remaining - 1
           w == [s EXCEPT !.train_recovery_remaining = left, !.phase = "RAILWAY_HOLD",
                          !.time_remaining = left]
           p == update_lights(w)
           r == tick_recovery(s, h)
<1>0. /\ s \in SignalState /\ TrainInv(s) /\ LampInv(s) /\ PlanInv(s)
      /\ s.train_recovery_remaining \in Int /\ ~s.train_pending /\ ~s.train_active
      /\ s.phase = "RAILWAY_HOLD"
  BY DEF SigInv, SignalState, TrainInv, TrainPresent
<1>1. left \in Int /\ left >= 0 /\ (left # 0 => left > 0)
  BY <1>0
<1>2. r = IF left = 0 THEN start_green(p, InitialDir, h) ELSE p
  BY DEF tick_recovery, set_initial_phase
<1> HIDE DEF left, r
<1>3. /\ w \in SignalState /\ w.traffic_mode = s.traffic_mode
      /\ w.phase = "RAILWAY_HOLD" /\ ~w.train_pending /\ ~w.train_active
      /\ w.train_recovery_remaining = left /\ w.extra = s.extra /\ w.cycle = s.cycle
  BY <1>0, <1>1 DEF SignalState, Phase
<1> HIDE DEF w
<1>4. /\ p \in SignalState /\ SameRest(p, w) /\ p.phase = "RAILWAY_HOLD"
      /\ p.light = Both("RED") /\ p.walk = Both(FALSE)
  BY <1>3, UpdateLightsFields DEF Red
<1> HIDE DEF p
<1>5. \A d \in Dir : s.phase # Green(d) /\ s.phase # Yellow(d)
  BY <1>0, PhasesDiffer
<1>6. SigInv(r) /\ r.traffic_mode = s.traffic_mode
  <2>1. CASE left = 0
    <3>1. /\ p.traffic_mode # "FAILSAFE" /\ ~TrainPresent(p)
          /\ p.train_recovery_remaining = 0
          /\ \A e \in Dir : p.extra[e] >= 0
          /\ p.extra["NS"] + p.extra["EW"] <= GREEN_MAX_SEC - GREEN_MIN_SEC
      BY <1>0, <1>3, <1>4, <2>1 DEF TrainInv, TrainPresent, PlanInv, SameRest
    <3>2. r = start_green(p, InitialDir, h)
      BY <1>2, <2>1
    <3>3. InitialDir \in Dir
      BY TimingAssumption
    <3>4. SigInv(r) /\ r.traffic_mode = p.traffic_mode
      BY <1>4, <3>1, <3>2, <3>3, StartGreenOK
    <3> QED
      BY <1>3, <1>4, <3>4 DEF SameRest
  <2>2. CASE left # 0
    <3>1. TrainInv(p)
      BY <1>0, <1>1, <1>3, <1>4, <2>2 DEF TrainInv, TrainPresent, SameRest
    <3>2. LampInv(p)
      BY <1>4, LampsOK DEF LampInv, Phase, Both
    <3>3. PlanInv(p)
      BY <1>0, <1>3, <1>4 DEF PlanInv, SameRest
    <3> QED
      BY <1>2, <1>3, <1>4, <2>2, <3>1, <3>2, <3>3 DEF SigInv, SameRest
  <2> QED
    BY <2>1, <2>2
<1> QED
  BY <1>0, <1>5, <1>6 DEF TickSound, NextPhase, Announced, TrainPresent, Dir, Other, r

\* The cycle: pedestrians are served and the phase ends when its time is up.
LEMMA TickCycleOK ==
  ASSUME NEW s, SigInv(s), ~TrainPresent(s), ~(s.train_recovery_remaining > 0),
         NEW h \in [Dir -> BOOLEAN]
  PROVE  TickSound(tick_cycle(s, h), s)
<1> DEFINE n == CountDown(s.time_remaining)
           w == [s EXCEPT !.time_remaining = n]
           u == update_lights(w)
           p == update_pedestrian(u)
           r == tick_cycle(s, h)
<1>0. /\ s \in SignalState /\ TrainInv(s) /\ LampInv(s) /\ PlanInv(s)
      /\ s.time_remaining \in Int /\ ~s.train_active /\ ~s.train_pending
      /\ s.train_recovery_remaining = 0 /\ s.phase # "RAILWAY_HOLD"
  BY DEF SigInv, SignalState, TrainInv, TrainPresent
<1>1. n \in Int
  BY <1>0, CountDownOK
<1>2. r = IF p.time_remaining <= 0 THEN advance_phase(p, h) ELSE p
  BY DEF tick_cycle
<1> HIDE DEF n, r
<1>3. /\ w \in SignalState /\ SameRest(w, s) /\ w.phase = s.phase /\ w.time_remaining = n
  BY <1>0, <1>1 DEF SignalState, SameRest
<1> HIDE DEF w
<1>4. ~Red(w)
  BY <1>0, <1>3 DEF Red, SameRest
<1>5. /\ u \in SignalState /\ SameRest(u, s) /\ u.phase = s.phase
      /\ u.light = LampsOf(s.phase)
  <2>1. /\ u \in SignalState /\ SameRest(u, w) /\ u.phase = w.phase
        /\ u.light = LampsOf(w.phase)
    BY <1>3, <1>4, UpdateLightsFields
  <2> HIDE DEF u
  <2> QED
    BY <1>3, <2>1 DEF SameRest
<1> HIDE DEF u
<1>6. TrainInv(u) /\ PlanInv(u)
  BY <1>0, <1>5 DEF TrainInv, TrainPresent, PlanInv, SameRest
<1>7. SigInv(p) /\ SameSignals(p, u) /\ p.extra = u.extra
  BY <1>0, <1>5, <1>6, PedestrianOK DEF SameRest
<1> HIDE DEF p
<1>8. /\ p.traffic_mode = s.traffic_mode /\ p.phase = s.phase /\ p.extra = s.extra
      /\ p.coordination_pending = s.coordination_pending
      /\ ~TrainPresent(p) /\ p.train_recovery_remaining = 0
  BY <1>0, <1>5, <1>7 DEF SameSignals, SameRest, TrainPresent
<1>9. SigInv(r) /\ NextPhase(r, s)
  <2>1. CASE p.time_remaining <= 0
    <3>1. SigInv(r) /\ NextPhase(r, p)
      BY <1>2, <1>7, <1>8, <2>1, AdvanceOK
    <3> QED
      BY <1>8, <3>1 DEF NextPhase
  <2>2. CASE ~(p.time_remaining <= 0)
    <3>1. \A d, e \in Dir : Yellow(d) # Green(e)
      BY DEF Yellow, Green
    <3> QED
      BY <1>2, <1>7, <1>8, <2>2, <3>1 DEF NextPhase, Dir, Other
  <2> QED
    BY <2>1, <2>2
<1> QED
  BY <1>0, <1>9 DEF TickSound, Announced, TrainPresent, r

\* One second of traffic_tick_locked; its conflict check never fires.
LEMMA TrafficTickOK ==
  ASSUME NEW s, SigInv(s), NEW h \in [Dir -> BOOLEAN]
  PROVE  TickSound(traffic_tick(s, h), s)
<1>1. \E d \in Dir : s.light[d] # "GREEN"
  BY DEF SigInv, LampInv, LampsOf, Dir, Green, Yellow
<1>2. s.traffic_mode # "FAILSAFE"
  BY DEF SigInv, TrainInv
<1>3. traffic_tick(s, h) = IF s.train_pending THEN tick_pending(s)
        ELSE IF s.train_active THEN tick_active(s)
        ELSE IF s.train_recovery_remaining > 0 THEN tick_recovery(s, h)
        ELSE tick_cycle(s, h)
  BY <1>1, <1>2 DEF traffic_tick
<1> QED
  BY <1>3, TickPendingOK, TickActiveOK, TickRecoveryOK, TickCycleOK DEF TrainPresent

-----------------------------------------------------------------------------
(***************************************************************************)
(* The controller.                                                         *)
(***************************************************************************)

\* r is s in another mode.
InMode(r, s) == \E m \in {"FIXED", "SENSOR"} : r = [s EXCEPT !.traffic_mode = m]

\* A change of mode leaves the signals alone.
LEMMA ModeOK ==
  ASSUME NEW s, SigInv(s), NEW r, InMode(r, s)
  PROVE  /\ SigInv(r) /\ r.phase = s.phase /\ r.light = s.light
         /\ r.extra = s.extra /\ r.cycle = s.cycle
         /\ r.train_pending = s.train_pending /\ r.train_active = s.train_active
         /\ r.train_waiting_for_clear = s.train_waiting_for_clear
         /\ r.train_recovery_remaining = s.train_recovery_remaining
         /\ r.coordination_pending = s.coordination_pending
         /\ r.time_remaining = s.time_remaining
         /\ r.traffic_mode \in {"FIXED", "SENSOR"}
<1>1. PICK m \in {"FIXED", "SENSOR"} : r = [s EXCEPT !.traffic_mode = m]
  BY DEF InMode
<1>2. /\ r \in SignalState /\ r.phase = s.phase /\ r.light = s.light
      /\ r.extra = s.extra /\ r.cycle = s.cycle /\ r.walk = s.walk
      /\ r.train_pending = s.train_pending /\ r.train_active = s.train_active
      /\ r.train_waiting_for_clear = s.train_waiting_for_clear
      /\ r.train_recovery_remaining = s.train_recovery_remaining
      /\ r.coordination_pending = s.coordination_pending
      /\ r.time_remaining = s.time_remaining
      /\ r.traffic_mode \in {"FIXED", "SENSOR"}
  BY <1>1 DEF SigInv, SignalState, Mode
<1>3. TrainInv(r) /\ LampInv(r) /\ PlanInv(r)
  BY <1>2 DEF SigInv, TrainInv, TrainPresent, LampInv, PlanInv
<1> QED
  BY <1>2, <1>3 DEF SigInv

\* apply_time_settings changes at most the mode, and not one an operator set.
LEMMA TimeSettingsOK ==
  ASSUME NEW s, SigInv(s), NEW manual \in BOOLEAN, NEW is_peak \in BOOLEAN
  PROVE  LET r == apply_time_settings(s, manual, is_peak)
         IN  InMode(r, s) /\ (manual => r.traffic_mode = s.traffic_mode)
<1>1. s \in SignalState /\ s.traffic_mode \in {"FIXED", "SENSOR"}
      /\ s = [s EXCEPT !.traffic_mode = s.traffic_mode]
  BY DEF SigInv, SignalState, TrainInv, Mode
<1> QED
  BY <1>1 DEF apply_time_settings, InMode

\* The greens of the initial phase.
LEMMA ResetOK ==
  ASSUME NEW s, s \in SignalState, s.traffic_mode # "FAILSAFE", ~TrainPresent(s),
         s.train_recovery_remaining = 0, s.extra = Both(0), NEW h \in [Dir -> BOOLEAN]
  PROVE  SigInv(set_initial_phase(s, h))
<1>1. /\ \A e \in Dir : s.extra[e] >= 0
      /\ s.extra["NS"] + s.extra["EW"] <= GREEN_MAX_SEC - GREEN_MIN_SEC
  BY GreenBounds DEF Both, Dir
<1>2. InitialDir \in Dir
  BY TimingAssumption
<1> QED
  BY <1>1, <1>2, StartGreenOK DEF set_initial_phase

\* The signals start in the invariant.
LEMMA InitOK == Init => IInv
<1> SUFFICES ASSUME Init PROVE IInv
  OBVIOUS
<1> DEFINE s == local_state_init
<1>0. /\ configured_green_time \in Int /\ Green(InitialDir) \in Phase
      /\ Both(FALSE) \in [Dir -> BOOLEAN] /\ Both(0) \in [Dir -> Int]
      /\ Both(GREEN_BASE_SEC) \in [Dir -> Int] /\ LampsOf(Green(InitialDir)) \in [Dir -> Light]
      /\ Green(InitialDir) # "RAILWAY_HOLD"
      /\ Green(InitialDir) \notin {"NS_YELLOW", "EW_YELLOW"}
  BY TimingAssumption, GreenBounds, PhasesDiffer, LampsOK DEF Both
<1>1. s \in SignalState
  <2> DEFINE S(n, x, none) ==
        [traffic_mode |-> "SENSOR", phase |-> Green(InitialDir),
         phase_duration |-> n, time_remaining |-> n,
         light |-> LampsOf(Green(InitialDir)),
         walk |-> Both(FALSE), request |-> Both(FALSE),
         extra |-> none, cycle |-> Both(GREEN_BASE_SEC),
         train_pending |-> FALSE, train_active |-> FALSE,
         train_waiting_for_clear |-> FALSE,
         train_pass_remaining |-> x, train_recovery_remaining |-> x,
         coordination_pending |-> FALSE, coordination_dir |-> "NS",
         coordination_offset_sec |-> x]
  <2>1. \A n, x \in Int, none \in [Dir -> Int] : S(n, x, none) \in SignalState
    BY <1>0 DEF SignalState, Mode, Dir
  <2>2. s = S(configured_green_time, 0, Both(0))
    BY DEF local_state_init
  <2> HIDE DEF S, s
  <2> QED
    BY <1>0, <2>1, <2>2
<1>2. TrainInv(s)
  BY <1>0 DEF TrainInv, TrainPresent, local_state_init
<1>3. LampInv(s)
  BY DEF LampInv, local_state_init, Both
<1>4. PlanInv(s)
  <2>1. s.extra = Both(0) /\ s.cycle = Both(GREEN_BASE_SEC)
    BY DEF local_state_init
  <2>2. \A e \in Dir : s.extra[e] = 0 /\ s.cycle[e] = GREEN_BASE_SEC
    BY <2>1 DEF Both
  <2>3. Other(InitialDir) \in Dir
    BY DEF Other, Dir
  <2> HIDE DEF s
  <2> QED
    BY <2>2, <2>3, GreenBounds DEF PlanInv, Dir
<1>5. SigInv(state)
  BY <1>1, <1>2, <1>3, <1>4 DEF SigInv, Init
<1>6. TypeOK
  BY <1>0, <1>1 DEF TypeOK, Init, Temporary, Mode
<1> QED
  BY <1>5, <1>6 DEF IInv, Init

\* What a step owes: the invariant, and the promises to trains, drivers and
\* operators that the action properties state.
StepSound ==
  /\ IInv'
  /\ \A d \in Dir : state.phase = Green(d) =>
       state'.phase \in {Green(d), Yellow(d)} \/ ResetDemo
  /\ Announced(state) => Announced(state') \/ TrainClear \/ ResetDemo
  /\ \A d \in Dir :
       state.phase = Yellow(Other(d)) /\ state'.phase = Green(d)
         /\ ~state.coordination_pending
       => ResetDemo \/ state'.phase_duration = state'.cycle[d] + state.extra[d]
  /\ temp.remaining > 0 /\ temp'.remaining > 0
       => /\ temp'.return_mode = temp.return_mode
          /\ temp'.return_manual = temp.return_manual

\* The names of different directions' phases differ.
LEMMA PhaseOfDirection ==
  ASSUME NEW d \in Dir, NEW e \in Dir
  PROVE  /\ Green(d) # Yellow(e)
         /\ Green(d) = Green(e) <=> d = e
         /\ Yellow(d) = Yellow(e) <=> d = e
         /\ Other(d) \in Dir
BY DEF Dir, Green, Yellow, Other

\* One pass of the core: clock, demonstration train, temporary mode, signals.
LEMMA TickOK ==
  ASSUME IInv, Tick
  PROVE  StepSound
<1>0. /\ state \in SignalState /\ SigInv(state) /\ temp \in Temporary
      /\ temp.return_mode \in {"FIXED", "SENSOR"} /\ temp.return_manual \in BOOLEAN
      /\ temp.remaining \in Nat
      /\ manual_mode_override \in BOOLEAN /\ high \in [Dir -> BOOLEAN] /\ TypeOK
  BY DEF IInv, TypeOK, SigInv, Temporary, Mode
<1>1. PICK connected, is_peak, due \in BOOLEAN, counts \in [Dir -> BOOLEAN] :
        LET s1 == update_time_of_day(state, is_peak, due, connected)
            s2 == update_temporary_mode(s1, is_peak)
        IN  /\ state' = traffic_tick(s2, high)
            /\ manual_mode_override' = IF temp.remaining = 1 THEN temp.return_manual
                                       ELSE manual_mode_override
            /\ temp' = [temp EXCEPT !.remaining = CountDown(temp.remaining)]
            /\ high' = counts /\ peak' = is_peak /\ train_connected' = connected
            /\ UNCHANGED <<manual_sensor_override, sim_running>>
  BY DEF Tick
<1> DEFINE t == apply_time_settings(state, manual_mode_override, is_peak)
           s1 == update_time_of_day(state, is_peak, due, connected)
           x == [s1 EXCEPT !.traffic_mode = temp.return_mode]
           s2 == update_temporary_mode(s1, is_peak)
<1>2. InMode(state, state) /\ InMode(t, state)
  <2>1. state.traffic_mode \in {"FIXED", "SENSOR"}
        /\ state = [state EXCEPT !.traffic_mode = state.traffic_mode]
    BY <1>0 DEF SigInv, TrainInv, SignalState, Mode
  <2> QED
    BY <1>0, <2>1, TimeSettingsOK DEF InMode
<1>3. \/ s1 \in {state, t}
      \/ s1 = start_train_common(t, FALSE, 0) /\ ~RailwayBusy(t)
  BY DEF update_time_of_day, start_train
<1> HIDE DEF t, s1
\* The signals after the clock: as before, or with a new demonstration train.
<1>4. /\ SigInv(s1)
      /\ \/ /\ s1.phase = state.phase /\ s1.extra = state.extra
            /\ s1.coordination_pending = state.coordination_pending
            /\ Announced(state) => Announced(s1)
         \/ /\ ~TrainPresent(state) /\ s1.train_pending
            /\ \A d \in Dir : state.phase = Green(d) =>
                 s1.phase = Yellow(d) /\ s1.time_remaining > 1
  <2>1. CASE s1 \in {state, t}
    <3>1. InMode(s1, state)
      BY <1>2, <2>1
    <3> QED
      BY <1>0, <1>2, <2>1, <3>1, ModeOK DEF Announced, TrainPresent
  <2>2. CASE s1 = start_train_common(t, FALSE, 0) /\ ~RailwayBusy(t)
    <3>1. /\ SigInv(t) /\ t.phase = state.phase
          /\ t.train_pending = state.train_pending /\ t.train_active = state.train_active
      BY <1>0, <1>2, ModeOK
    <3>2. ~TrainPresent(t) /\ ~TrainPresent(state) /\ t.phase # "RAILWAY_HOLD"
      BY <2>2, <3>1 DEF RailwayBusy, TrainPresent, SigInv, TrainInv
    <3>3. /\ SigInv(s1) /\ s1.train_pending /\ s1.traffic_mode = t.traffic_mode
          /\ \A d \in Dir : t.phase = Green(d) => /\ s1.phase = Yellow(d)
                                                  /\ s1.time_remaining = YELLOW_SEC
      <4> DEFINE eta == 0
      <4>1. eta \in Int /\ s1 = start_train_common(t, FALSE, eta)
        BY <2>2
      <4> HIDE DEF eta
      <4>2. ASSUME NEW wait \in BOOLEAN
            PROVE  LET r == start_train_common(t, wait, eta)
                   IN  /\ SigInv(r) /\ r.train_pending
                       /\ r.traffic_mode = t.traffic_mode
                       /\ \A d \in Dir : t.phase = Green(d) =>
                            /\ r.phase = Yellow(d)
                            /\ r.time_remaining = YELLOW_SEC
        BY ONLY <3>1, <3>2, <4>1, StartTrainOK
      <4> QED
        BY ONLY <4>1, <4>2
    <3> QED
      BY <1>2, <3>1, <3>2, <3>3, TimingAssumption
  <2> QED
    BY <1>3, <2>1, <2>2
\* The temporary mode may end.
<1>5. InMode(s2, s1)
  <2>1. CASE temp.remaining = 1
    <3>1. InMode(x, s1)
      BY <1>0 DEF InMode
    <3>2. SigInv(x)
      BY <1>4, <3>1, ModeOK
    <3>3. s2 = apply_time_settings(x, temp.return_manual, is_peak)
      BY <2>1 DEF update_temporary_mode
    <3>4. InMode(s2, x)
      BY <1>0, <3>2, <3>3, TimeSettingsOK
    <3> HIDE DEF s2
    <3>5. s1 \in SignalState
      BY <1>4 DEF SigInv
    <3>6. \A m, k : [[s1 EXCEPT !.traffic_mode = m] EXCEPT !.traffic_mode = k]
                      = [s1 EXCEPT !.traffic_mode = k]
      BY <3>5 DEF SignalState
    <3> QED
      BY <2>1, <3>4, <3>6 DEF InMode
  <2>2. CASE temp.remaining # 1
    <3>1. s2 = s1
      BY <2>2 DEF update_temporary_mode
    <3>2. s1.traffic_mode \in {"FIXED", "SENSOR"}
          /\ s1 = [s1 EXCEPT !.traffic_mode = s1.traffic_mode]
      BY <1>4 DEF SigInv, TrainInv, SignalState, Mode
    <3> QED
      BY <2>2, <3>1, <3>2 DEF InMode
  <2> QED
    BY <2>1, <2>2
<1> HIDE DEF s2
<1>6. /\ SigInv(s2) /\ s2.phase = s1.phase /\ s2.extra = s1.extra
      /\ s2.train_pending = s1.train_pending /\ s2.time_remaining = s1.time_remaining
      /\ s2.coordination_pending = s1.coordination_pending
      /\ Announced(s1) => Announced(s2)
  BY <1>4, <1>5, ModeOK DEF Announced, TrainPresent
<1>7. TickSound(state', s2)
  BY <1>0, <1>1, <1>6, TrafficTickOK DEF s1, s2
<1>8. SigInv(state') /\ NextPhase(state', s2)
  BY <1>7 DEF TickSound
<1>9. IInv'
  <2>1. CountDown(temp.remaining) \in Nat
    BY <1>0 DEF CountDown
  <2>2. temp' \in Temporary /\ temp'.return_mode = temp.return_mode
    BY <1>0, <1>1, <2>1 DEF Temporary
  <2>3. TypeOK'
    BY <1>0, <1>1, <1>8, <2>2 DEF TypeOK, SigInv
  <2> QED
    BY <1>0, <1>8, <2>2, <2>3 DEF IInv
<1>10. \A d \in Dir : state.phase = Green(d) => state'.phase \in {Green(d), Yellow(d)}
  <2>1. CASE s1.phase = state.phase
    BY <1>6, <1>8, <2>1 DEF NextPhase
  <2>2. CASE \A d \in Dir : state.phase = Green(d) =>
               s1.phase = Yellow(d) /\ s1.time_remaining > 1
    <3>1. CASE s1.train_pending
      BY <1>6, <1>7, <2>2, <3>1 DEF TickSound
    <3>2. CASE ~s1.train_pending
      BY <1>4, <2>1, <3>2
    <3> QED
      BY <3>1, <3>2
  <2> QED
    BY <1>4, <2>1, <2>2
<1>11. Announced(state) => Announced(state')
  BY <1>4, <1>6, <1>7 DEF TickSound, Announced
<1>12. \A d \in Dir :
         state.phase = Yellow(Other(d)) /\ state'.phase = Green(d)
           /\ ~state.coordination_pending
         => state'.phase_duration = state'.cycle[d] + state.extra[d]
  <2>1. CASE /\ s1.phase = state.phase /\ s1.extra = state.extra
             /\ s1.coordination_pending = state.coordination_pending
    BY <1>6, <1>8, <2>1 DEF NextPhase
  <2>2. CASE s1.train_pending
    BY <1>6, <1>7, <2>2 DEF TickSound
  <2> QED
    BY <1>4, <2>1, <2>2
<1>13. /\ temp'.return_mode = temp.return_mode
       /\ temp'.return_manual = temp.return_manual
  BY <1>0, <1>1 DEF Temporary
<1> QED
  BY <1>9, <1>10, <1>11, <1>12, <1>13 DEF StepSound

\* A step that leaves the temporary mode alone and changes the signals so that
\* nothing is green that was not, and no announced train is forgotten.
LEMMA SignalStep ==
  ASSUME IInv, Request, SigInv(state'),
         \A d \in Dir : state.phase = Green(d) => state'.phase \in {Green(d), Yellow(d)},
         \A d \in Dir : state.phase = Yellow(d) => state'.phase = Yellow(d),
         Announced(state) => Announced(state') \/ TrainClear,
         UNCHANGED <<ctl, sim, train_connected>>
  PROVE  StepSound
<1>1. TypeOK'
  BY DEF IInv, TypeOK, SigInv, ctl, sim
<1>2. IInv'
  BY <1>1 DEF IInv, ctl
<1>3. \A d, e \in Dir : Green(d) # Yellow(e) /\ Other(d) \in Dir
  BY PhaseOfDirection
<1> QED
  BY <1>2, <1>3 DEF StepSound, ctl

\* A request that changes no phase and no train.
LEMMA ModeStep ==
  ASSUME IInv, Request, SigInv(state'), TypeOK', state'.phase = state.phase,
         Announced(state) => Announced(state'),
         temp'.return_mode # "FAILSAFE",
         temp.remaining > 0 /\ temp'.remaining > 0
           => /\ temp'.return_mode = temp.return_mode
              /\ temp'.return_manual = temp.return_manual
  PROVE  StepSound
<1>1. IInv'
  BY DEF IInv
<1>2. \A d, e \in Dir : Green(d) # Yellow(e) /\ Other(d) \in Dir
  BY PhaseOfDirection
<1> QED
  BY <1>1, <1>2 DEF StepSound

\* The same signals.
LEMMA SameStep ==
  ASSUME IInv, Request, TypeOK', UNCHANGED <<state, temp>>
  PROVE  StepSound
BY ModeStep DEF IInv

\* The requests that are about signals.
LEMMA SignalRequestsOK ==
  ASSUME IInv, Request
  PROVE  /\ \A d \in Dir : PedRequest(d) => StepSound
         /\ DemoTrain => StepSound
         /\ \A eta \in Etas : Preempt(eta) => StepSound
         /\ TrainClear => StepSound
<1>0. SigInv(state)
  BY DEF IInv
<1>1. ASSUME NEW d \in Dir, PedRequest(d) PROVE StepSound
  <2>1. /\ state' = add_pedestrian_request(state, d)
        /\ UNCHANGED <<ctl, sim, train_connected>>
    BY <1>1 DEF PedRequest, Signals
  <2>2. SigInv(state') /\ SameSignals(state', state)
    BY <1>0, <2>1, PedRequestOK
  <2> QED
    BY <2>1, <2>2, SignalStep DEF SameSignals, Announced, TrainPresent
<1>2. ASSUME DemoTrain PROVE StepSound
  <2> DEFINE eta == 0
  <2>1. /\ state' = start_train_common(state, FALSE, eta) /\ eta \in Int
        /\ UNCHANGED <<ctl, sim, train_connected>>
    BY <1>2 DEF DemoTrain, Signals, start_train
  <2> HIDE DEF eta
  <2>2. CASE TrainPresent(state)
    <3>1. state' = state
      BY <2>1, <2>2 DEF start_train_common
    <3> QED
      BY <1>0, <2>1, <3>1, SignalStep
  <2>3. CASE ~TrainPresent(state)
    <3>1. /\ SigInv(state')
          /\ \A d \in Dir : state.phase = Green(d) => state'.phase = Yellow(d)
          /\ \A d \in Dir : state.phase = Yellow(d) => state'.phase = Yellow(d)
      BY <1>0, <2>1, <2>3, StartTrainOK
    <3> QED
      BY <2>1, <2>3, <3>1, SignalStep DEF Announced
  <2> QED
    BY <2>2, <2>3
<1>3. ASSUME NEW eta \in Etas, Preempt(eta) PROVE StepSound
  <2>1. /\ state' = start_train_message(state, eta) /\ eta \in Int
        /\ UNCHANGED <<ctl, sim, train_connected>>
    BY <1>3, InputAssumption DEF Preempt, Signals
  <2>2. /\ SigInv(state') /\ Announced(state')
        /\ \A d \in Dir : state.phase = Green(d) => state'.phase = Yellow(d)
        /\ \A d \in Dir : state.phase = Yellow(d) => state'.phase = Yellow(d)
    BY <1>0, <2>1, PreemptOK
  <2> QED
    BY <2>1, <2>2, SignalStep
<1>4. ASSUME TrainClear PROVE StepSound
  <2>1. /\ state' = clear_train(state)
        /\ UNCHANGED <<ctl, sim, train_connected>>
    BY <1>4 DEF TrainClear, Signals
  <2>2. /\ SigInv(state')
        /\ IF TrainPresent(state) THEN state'.phase = "RAILWAY_HOLD" ELSE state' = state
    BY <1>0, <2>1, ClearOK
  <2>3. CASE ~TrainPresent(state)
    BY <1>4, <2>1, <2>2, <2>3, SignalStep
  <2>4. CASE TrainPresent(state)
    <3>1. \A d \in Dir : state.phase # Green(d) /\ state'.phase # Green(d)
      <4>1. state.phase \in {"NS_YELLOW", "EW_YELLOW", "RAILWAY_HOLD"}
        BY <1>0, <2>4 DEF SigInv, TrainInv, TrainPresent
      <4> QED
        BY <2>2, <2>4, <4>1, PhasesDiffer
    <3>2. TypeOK'
      BY <2>1, <2>2 DEF IInv, TypeOK, SigInv, ctl, sim
    <3>3. IInv'
      BY <2>1, <2>2, <3>2 DEF IInv, ctl
    <3> QED
      BY <1>4, <2>1, <3>1, <3>3 DEF StepSound, ctl
  <2> QED
    BY <2>3, <2>4
<1> QED
  BY <1>1, <1>2, <1>3, <1>4

\* The console's reset.
LEMMA ResetDemoOK ==
  ASSUME IInv, Request, ResetDemo
  PROVE  StepSound
<1> DEFINE s == [state EXCEPT !.request = Both(FALSE), !.walk = Both(FALSE),
                              !.train_pending = FALSE, !.train_active = FALSE,
                              !.train_pass_remaining = 0,
                              !.train_waiting_for_clear = FALSE,
                              !.train_recovery_remaining = 0,
                              !.coordination_pending = FALSE,
                              !.coordination_offset_sec = 0,
                              !.extra = Both(0)]
           a == apply_time_settings(s, FALSE, peak)
<1>0. /\ state \in SignalState /\ state.traffic_mode # "FAILSAFE" /\ temp \in Temporary
      /\ Both(FALSE) \in [Dir -> BOOLEAN] /\ Both(0) \in [Dir -> Int]
  BY DEF IInv, TypeOK, SigInv, TrainInv, Both
<1>1. s \in SignalState
  <2> DEFINE S(x, none) ==
        [state EXCEPT !.request = Both(FALSE), !.walk = Both(FALSE),
                      !.train_pending = FALSE, !.train_active = FALSE,
                      !.train_pass_remaining = x,
                      !.train_waiting_for_clear = FALSE,
                      !.train_recovery_remaining = x,
                      !.coordination_pending = FALSE,
                      !.coordination_offset_sec = x,
                      !.extra = none]
  <2>1. \A x \in Int, none \in [Dir -> Int] : S(x, none) \in SignalState
    BY ONLY <1>0 DEF SignalState
  <2>2. s = S(0, Both(0))
    OBVIOUS
  <2> HIDE DEF S, s
  <2> QED
    BY <1>0, <2>1, <2>2
<1>2. /\ s.traffic_mode = state.traffic_mode /\ s.extra = Both(0)
      /\ ~s.train_pending /\ ~s.train_active /\ s.train_recovery_remaining = 0
  BY <1>0 DEF SignalState
<1>3. /\ state' = set_initial_phase(a, Both(FALSE))
      /\ manual_mode_override' = FALSE /\ temp' = [temp EXCEPT !.remaining = 0]
      /\ high' = Both(FALSE) /\ manual_sensor_override' = FALSE /\ sim_running' = TRUE
      /\ UNCHANGED <<peak, train_connected>>
  BY DEF ResetDemo
<1> HIDE DEF s
<1>4. \E m \in {"FIXED", "SENSOR"} : a = [s EXCEPT !.traffic_mode = m]
  BY <1>0, <1>2 DEF apply_time_settings
<1> HIDE DEF a
<1>5. /\ a \in SignalState /\ a.traffic_mode # "FAILSAFE" /\ a.extra = Both(0)
      /\ ~TrainPresent(a) /\ a.train_recovery_remaining = 0
  BY <1>1, <1>2, <1>4 DEF SignalState, Mode, TrainPresent
<1>6. SigInv(state')
  BY <1>0, <1>3, <1>5, ResetOK
<1>7. temp' \in Temporary /\ temp'.return_mode = temp.return_mode /\ temp'.remaining = 0
  BY <1>0, <1>3 DEF Temporary
<1>8. TypeOK'
  BY <1>0, <1>3, <1>6, <1>7 DEF IInv, TypeOK, SigInv
<1>9. IInv'
  BY <1>6, <1>7, <1>8 DEF IInv
<1> QED
  BY <1>7, <1>9 DEF StepSound

\* The mode after a mode request is a mode an operator can choose.
LEMMA ModeRequestStep ==
  ASSUME IInv, Request, InMode(state', state),
         temp' \in Temporary, temp'.return_mode # "FAILSAFE",
         temp.remaining > 0 /\ temp'.remaining > 0
           => /\ temp'.return_mode = temp.return_mode
              /\ temp'.return_manual = temp.return_manual,
         manual_mode_override' \in BOOLEAN, manual_sensor_override' \in BOOLEAN,
         peak' \in BOOLEAN, UNCHANGED <<high, sim_running, train_connected>>
  PROVE  StepSound
<1>1. SigInv(state)
  BY DEF IInv
<1>2. /\ SigInv(state') /\ state'.phase = state.phase
      /\ Announced(state) => Announced(state')
  BY <1>1, ModeOK DEF Announced, TrainPresent
<1>3. TypeOK'
  BY <1>2 DEF IInv, TypeOK, SigInv
<1> QED
  BY <1>2, <1>3, ModeStep

\* The requests that change the mode, for good or for a time.
LEMMA ModeRequestsOK ==
  ASSUME IInv, Request
  PROVE  /\ ToggleMode => StepSound
         /\ \A b \in BOOLEAN : SetTime(b) => StepSound
         /\ \A m \in {"FIXED", "SENSOR"} : ModeSet(m) => StepSound
         /\ \A m \in {"FIXED", "SENSOR"}, n \in Durations :
              ModeTemporary(m, n) => StepSound
         /\ ModeRevert => StepSound
<1>0. /\ SigInv(state) /\ temp \in Temporary /\ temp.return_mode \in {"FIXED", "SENSOR"}
      /\ state.traffic_mode \in {"FIXED", "SENSOR"}
      /\ temp.return_manual \in BOOLEAN
      /\ manual_mode_override \in BOOLEAN /\ manual_sensor_override \in BOOLEAN
      /\ peak \in BOOLEAN
  BY DEF IInv, TypeOK, SigInv, TrainInv, SignalState, Temporary, Mode
<1>z. \A n \in Nat : LET t == [temp EXCEPT !.remaining = n]
                     IN  /\ t \in Temporary /\ t.remaining = n
                         /\ t.return_mode = temp.return_mode
                         /\ t.return_manual = temp.return_manual
  BY <1>0 DEF Temporary
<1>1. ASSUME ToggleMode PROVE StepSound
  <2>1. /\ InMode(state', state) /\ manual_mode_override' = TRUE
        /\ UNCHANGED <<temp, high, manual_sensor_override, sim_running, peak,
                       train_connected>>
    BY <1>1 DEF ToggleMode, InMode, sim
  <2> QED
    BY <1>0, <2>1, ModeRequestStep
<1>2. ASSUME NEW b \in BOOLEAN, SetTime(b) PROVE StepSound
  <2>1. /\ state' = apply_time_settings(state, FALSE, b)
        /\ manual_mode_override' = FALSE /\ manual_sensor_override' = FALSE
        /\ peak' = b /\ UNCHANGED <<temp, high, sim_running, train_connected>>
    BY <1>2 DEF SetTime
  <2>2. InMode(state', state)
    BY <1>0, <2>1, TimeSettingsOK
  <2> QED
    BY <1>0, <2>1, <2>2, ModeRequestStep
<1>3. ASSUME NEW m \in {"FIXED", "SENSOR"}, ModeSet(m) PROVE StepSound
  <2> DEFINE none == 0
  <2>1. /\ InMode(state', state) /\ manual_mode_override' = TRUE
        /\ temp' = [temp EXCEPT !.remaining = none] /\ none \in Nat /\ ~(none > 0)
        /\ UNCHANGED <<high, manual_sensor_override, sim_running, peak,
                       train_connected>>
    BY <1>3 DEF ModeSet, InMode, sim
  <2> HIDE DEF none
  <2> QED
    BY <1>0, <1>z, <2>1, ModeRequestStep
<1>4. ASSUME NEW m \in {"FIXED", "SENSOR"}, NEW n \in Durations, ModeTemporary(m, n)
      PROVE  StepSound
  <2>1. /\ InMode(state', state) /\ manual_mode_override' = TRUE
        /\ n \in Nat
        /\ temp' = IF temp.remaining > 0 THEN [temp EXCEPT !.remaining = n]
                   ELSE [remaining |-> n, return_mode |-> state.traffic_mode,
                         return_manual |-> manual_mode_override]
        /\ UNCHANGED <<high, manual_sensor_override, sim_running, peak,
                       train_connected>>
    BY <1>4, InputAssumption DEF ModeTemporary, InMode, sim
  <2>2. /\ temp' \in Temporary /\ temp'.return_mode # "FAILSAFE"
        /\ temp.remaining > 0 => /\ temp'.return_mode = temp.return_mode
                                 /\ temp'.return_manual = temp.return_manual
    <3>1. CASE temp.remaining > 0
      BY <1>0, <1>z, <2>1, <3>1
    <3>2. CASE ~(temp.remaining > 0)
      BY <1>0, <2>1, <3>2 DEF Temporary, Mode
    <3> QED
      BY <3>1, <3>2
  <2> QED
    BY <1>0, <2>1, <2>2, ModeRequestStep
<1>5. ASSUME ModeRevert PROVE StepSound
  <2> DEFINE none == 0
  <2>1. /\ manual_mode_override' \in BOOLEAN
        /\ temp' = [temp EXCEPT !.remaining = none] /\ none \in Nat /\ ~(none > 0)
        /\ UNCHANGED <<high, manual_sensor_override, sim_running, peak,
                       train_connected>>
    BY <1>0, <1>5 DEF ModeRevert, sim
  <2>2. InMode(state', state)
    BY <1>0, <1>5 DEF ModeRevert, InMode
  <2> HIDE DEF none
  <2> QED
    BY <1>0, <1>z, <2>1, <2>2, ModeRequestStep
<1> QED
  BY <1>1, <1>2, <1>3, <1>4, <1>5

\* A coordination command waits for the next yellow.
LEMMA CoordinationRequestOK ==
  ASSUME IInv, Request, NEW d \in Dir, NEW offset \in Offsets, Coordination(d, offset)
  PROVE  StepSound
<1>0. SigInv(state) /\ state \in SignalState /\ offset \in Int
  BY InputAssumption DEF IInv, SigInv
<1>1. /\ state' = [state EXCEPT !.traffic_mode = "FIXED",
                                !.coordination_pending = TRUE,
                                !.coordination_dir = d,
                                !.coordination_offset_sec = offset]
      /\ manual_mode_override' = TRUE /\ temp' = temp
      /\ UNCHANGED <<high, manual_sensor_override, sim_running, peak, train_connected>>
  BY DEF Coordination, sim
<1>2. /\ state' \in SignalState /\ state'.phase = state.phase
      /\ state'.light = state.light /\ state'.walk = state.walk
      /\ state'.extra = state.extra /\ state'.cycle = state.cycle
      /\ state'.train_pending = state.train_pending
      /\ state'.train_active = state.train_active
      /\ state'.train_waiting_for_clear = state.train_waiting_for_clear
      /\ state'.train_recovery_remaining = state.train_recovery_remaining
      /\ state'.time_remaining = state.time_remaining
      /\ state'.traffic_mode = "FIXED"
  BY <1>0, <1>1 DEF SignalState, Mode
<1>3. SigInv(state')
  BY <1>0, <1>2 DEF SigInv, TrainInv, TrainPresent, LampInv, PlanInv
<1>4. TypeOK'
  BY <1>1, <1>2 DEF IInv, TypeOK
<1> QED
  BY <1>1, <1>2, <1>3, <1>4, ModeStep DEF IInv, Announced, TrainPresent

\* The requests that touch neither signals nor mode.
LEMMA OtherRequestsOK ==
  ASSUME IInv, Request
  PROVE  /\ \A d \in Dir : ToggleSensor(d) => StepSound
         /\ \A d \in Dir, h \in BOOLEAN : SensorUpdate(d, h) => StepSound
         /\ \A b \in BOOLEAN : SetRunning(b) => StepSound
         /\ \A b \in BOOLEAN : LinkReport(b) => StepSound
<1>1. ASSUME NEW d \in Dir, NEW h \in BOOLEAN, SetSensor(d, h) PROVE StepSound
  <2>1. TypeOK' /\ UNCHANGED <<state, temp>>
    BY <1>1 DEF SetSensor, IInv, TypeOK, ctl
  <2> QED
    BY <2>1, SameStep
<1>2. ASSUME NEW b \in BOOLEAN, SetRunning(b) PROVE StepSound
  <2>1. TypeOK' /\ UNCHANGED <<state, temp>>
    BY <1>2 DEF SetRunning, IInv, TypeOK, ctl
  <2> QED
    BY <2>1, SameStep
<1>3. ASSUME NEW b \in BOOLEAN, LinkReport(b) PROVE StepSound
  <2>1. TypeOK' /\ UNCHANGED <<state, temp>>
    BY <1>3 DEF LinkReport, IInv, TypeOK, ctl, sim
  <2> QED
    BY <2>1, SameStep
<1>4. \A d \in Dir : (~high[d]) \in BOOLEAN
  OBVIOUS
<1> QED
  BY <1>1, <1>2, <1>3, <1>4 DEF ToggleSensor, SensorUpdate

\* Every step keeps the invariant and the promises.
LEMMA StepOK ==
  ASSUME IInv, Next
  PROVE  StepSound
<1>1. CASE Tick
  BY <1>1, TickOK
<1>2. CASE Request
  <2>1. CASE DemoTrain \/ TrainClear \/ (\E d \in Dir : PedRequest(d))
               \/ (\E eta \in Etas : Preempt(eta))
    BY <1>2, <2>1, SignalRequestsOK
  <2>2. CASE ResetDemo
    BY <1>2, <2>2, ResetDemoOK
  <2>3. CASE ToggleMode \/ ModeRevert \/ (\E b \in BOOLEAN : SetHour(b) \/ SetMinute(b))
    BY <1>2, <2>3, ModeRequestsOK DEF SetHour, SetMinute
  <2>4. CASE \E mode \in {"FIXED", "SENSOR"} :
               ModeSet(mode) \/ \E n \in Durations : ModeTemporary(mode, n)
    BY <1>2, <2>4, ModeRequestsOK
  <2>5. CASE \E d \in Dir, offset \in Offsets : Coordination(d, offset)
    BY <1>2, <2>5, CoordinationRequestOK
  <2>6. CASE \/ \E d \in Dir : ToggleSensor(d)
             \/ \E d \in Dir, h \in BOOLEAN : SensorUpdate(d, h)
             \/ \E b \in BOOLEAN : SetRunning(b) \/ LinkReport(b)
    BY <1>2, <2>6, OtherRequestsOK
  <2> QED
    BY <1>2, <2>1, <2>2, <2>3, <2>4, <2>5, <2>6 DEF Request, SignalRequest, ModeRequest
<1> QED
  BY <1>1, <1>2 DEF Next

-----------------------------------------------------------------------------
(***************************************************************************)
(* The theorems.                                                           *)
(***************************************************************************)

\* The inductive invariant holds in every reachable state.
THEOREM LocalInvariant == Spec => []IInv
<1>1. IInv /\ [Next]_vars => IInv'
  <2>1. ASSUME IInv, Next PROVE IInv'
    BY <2>1, StepOK DEF StepSound
  <2>2. ASSUME IInv, UNCHANGED vars PROVE IInv'
    BY <2>2 DEF IInv, TypeOK, vars, ctl, sim
  <2> QED
    BY <2>1, <2>2
<1> QED
  BY InitOK, <1>1, PTL DEF Spec

\* Every variable of the Local core keeps its type.
THEOREM LocalTypes == Spec => []TypeOK
<1>1. IInv => TypeOK
  BY DEF IInv
<1> QED
  BY <1>1, LocalInvariant, PTL

\* The lamps are always safe for traffic and for trains: one road at least is
\* red, FAILSAFE is unreachable, a known train has no green lamp in front of
\* it, and the red hold always has a train or a recovery that ends it.
THEOREM SignalsAlwaysSafe == Spec => []SignalsSafe
<1>1. ASSUME IInv PROVE SignalsSafe
  <2>1. SigInv(state) /\ state \in SignalState /\ state.light = LampsOf(state.phase)
    BY <1>1 DEF IInv, SigInv, LampInv
  <2>2. NoConflict
    BY <2>1 DEF NoConflict, SigInv, TrainInv, LampsOf, Dir, Green, Yellow
  <2>3. NoGreenForTrain
    <3>1. TrainPresent(state) =>
            state.phase \in {"NS_YELLOW", "EW_YELLOW", "RAILWAY_HOLD"}
      BY <2>1 DEF SigInv, TrainInv, TrainPresent
    <3>2. ASSUME state.phase = "RAILWAY_HOLD"
          PROVE  \A d \in Dir : state.light[d] = "RED" /\ ~state.walk[d]
      BY <2>1, <3>2, PhasesDiffer DEF SigInv, LampInv, LampsOf, Other, Dir, Green, Yellow
    <3>3. ASSUME NEW d \in Dir,
                 state.phase \in {"NS_YELLOW", "EW_YELLOW", "RAILWAY_HOLD"}
          PROVE  state.light[d] # "GREEN"
      BY <2>1, <3>3 DEF LampsOf, Dir, Green, Yellow
    <3>4. state.train_active \/ state.train_recovery_remaining > 0
            => state.phase = "RAILWAY_HOLD"
      BY <2>1 DEF SigInv, TrainInv
    <3> QED
      BY <3>1, <3>2, <3>3, <3>4 DEF NoGreenForTrain
  <2>4. HoldHasReason
    BY <2>1 DEF HoldHasReason, SigInv, TrainInv
  <2> QED
    BY <2>2, <2>3, <2>4 DEF SignalsSafe
<1>2. IInv => SignalsSafe
  BY <1>1
<1> QED
  BY <1>2, LocalInvariant, PTL

\* Pedestrians have WALK only beside a green with time to spare.
THEOREM WalkAlwaysSafe == Spec => []WalkSafe
<1>1. IInv => WalkSafe
  <2> SUFFICES ASSUME IInv, NEW d \in Dir, state.walk[d]
               PROVE  /\ state.light[d] = "RED" /\ state.light[Other(d)] = "GREEN"
                      /\ state.time_remaining > PED_WALK_END_SEC
    BY DEF WalkSafe
  <2>1. /\ state.phase = Green(Other(d)) /\ state.light = LampsOf(state.phase)
        /\ state.time_remaining > PED_WALK_END_SEC
    BY DEF IInv, SigInv, LampInv
  <2> QED
    BY <2>1 DEF LampsOf, Dir, Green, Yellow, Other
<1> QED
  BY <1>1, LocalInvariant, PTL

\* The two greens always share 2 * GREEN_BASE_SEC and respect the limits.
THEOREM PlanAlwaysBalanced == Spec => []PlanBalanced
<1>1. IInv => PlanBalanced
  <2> SUFFICES ASSUME IInv PROVE PlanBalanced
    OBVIOUS
  <2>1. state.cycle \in [Dir -> Int] /\ PlanInv(state)
    BY DEF IInv, SigInv, SignalState
  <2> QED
    BY <2>1, GreenBounds DEF PlanInv, PlanBalanced, Dir
<1> QED
  BY <1>1, LocalInvariant, PTL

\* A green lamp turns yellow before red, unless the console resets.
THEOREM GreenAlwaysEndsYellow == Spec => GreenEndsYellow
<1> DEFINE Kept == \A d \in Dir :
             state.light[d] = "GREEN" /\ state'.light[d] = "RED" => ResetDemo
<1>1. ASSUME IInv, Next PROVE Kept
  <2> SUFFICES ASSUME NEW d \in Dir, state.light[d] = "GREEN", state'.light[d] = "RED"
               PROVE  ResetDemo
    OBVIOUS
  <2>1. StepSound /\ IInv'
    BY <1>1, StepOK DEF StepSound
  <2>2. state.light = LampsOf(state.phase) /\ state'.light = LampsOf(state'.phase)
    BY <1>1, <2>1 DEF IInv, SigInv, LampInv
  <2>3. state.phase = Green(d)
    BY <2>2 DEF LampsOf
  <2>4. state'.phase \notin {Green(d), Yellow(d)}
    BY <2>2 DEF LampsOf
  <2> QED
    BY <2>1, <2>3, <2>4 DEF StepSound
<1>2. IInv /\ [Next]_vars => [Kept]_vars
  BY <1>1
<1> QED
  BY <1>2, LocalInvariant, PTL DEF Spec, GreenEndsYellow

\* An announced train is held for until it is cleared.
THEOREM AnnouncedAlwaysHeld == Spec => HeldUntilClear
<1>1. IInv /\ [Next]_vars
        => [Announced(state) => Announced(state') \/ TrainClear \/ ResetDemo]_vars
  BY StepOK DEF StepSound
<1> QED
  BY <1>1, LocalInvariant, PTL DEF Spec, HeldUntilClear

\* A green that the cycle begins lasts its plan and what is due to it.
THEOREM GreenAlwaysPaysBack == Spec => GreenPaysBack
<1>1. ASSUME IInv, Next
      PROVE  \A d \in Dir :
               Begins(Green(d)) /\ state.phase = Yellow(Other(d))
                 /\ ~state.coordination_pending /\ ~ResetDemo
               => state'.phase_duration = state'.cycle[d] + state.extra[d]
  BY <1>1, StepOK DEF StepSound, Begins
<1>2. IInv /\ [Next]_vars =>
        [\A d \in Dir :
           Begins(Green(d)) /\ state.phase = Yellow(Other(d))
             /\ ~state.coordination_pending /\ ~ResetDemo
           => state'.phase_duration = state'.cycle[d] + state.extra[d]]_vars
  BY <1>1
<1> QED
  BY <1>2, LocalInvariant, PTL DEF Spec, GreenPaysBack

\* A temporary mode on top of another returns to the mode before the first.
THEOREM BaselineAlwaysKept == Spec => TempKeepsBaseline
<1>1. IInv /\ [Next]_vars
        => [temp.remaining > 0 /\ temp'.remaining > 0
              => /\ temp'.return_mode = temp.return_mode
                 /\ temp'.return_manual = temp.return_manual]_vars
  BY StepOK DEF StepSound
<1> QED
  BY <1>1, LocalInvariant, PTL DEF Spec, TempKeepsBaseline
============================================================================
