-------------------------------- MODULE Scurve --------------------------------
(***************************************************************************)
(* The jerk-limited profile (ron_trajectory_scurve.c), as operators on one *)
(* generator t.  Times are on the grid: the ramp of a short move is        *)
(* rounded up to it and other quotients down; the time tolerance is below  *)
(* one grid unit.                                                          *)
(***************************************************************************)
EXTENDS FloatOps, FiniteSetsExt

(* RON_SCURVE_PHASE_*: the seven segments in order, and the end. *)
Segments == 0..6
JERK_POS_1 == 0
JERK_NEG_1 == 2
CONST_VEL  == 3
JERK_NEG_2 == 4
JERK_POS_2 == 6
DONE       == 7

ValidScurveConfig(c) ==
  \A x \in {c.v_max, c.a_max, c.j_max} : IsFinite(x) /\ x > 0

ScurveSeeded(cfg, pos0, is_initialised) ==
  [cfg |-> cfg, pos |-> pos0, vel |-> 0, acc |-> 0, jrk |-> 0, target |-> pos0,
   direction |-> 1, phase_time |-> [k \in Segments |-> 0],
   t_phase |-> 0, t_total |-> 0, elapsed |-> 0, phase |-> DONE,
   fault_code |-> "NONE", status |-> "OK",
   hold |-> FALSE, finished |-> TRUE, is_initialised |-> is_initialised]

ScurveFinish(t) ==
  [t EXCEPT !.pos = t.target, !.vel = 0, !.acc = 0, !.jrk = 0, !.elapsed = t.t_total,
            !.t_phase = 0, !.phase = DONE, !.finished = TRUE, !.status = "OK"]

(* The time of a ramp: until the acceleration or the speed limit is met,   *)
(* or in a move that is too short for that a quarter of its duration.  The *)
(* roots are exact; the code's are Newton steps of a fixed number, which   *)
(* over-estimate the root of a large ratio (README, known divergences).    *)
RampLimit(cfg) ==
  Min({Quot(cfg.a_max, cfg.j_max), Max({k \in 0..cfg.v_max : cfg.j_max * k * k <= cfg.v_max})})

(* The distance of a move of four ramps. *)
FourRamps(cfg, time) == 2 * cfg.j_max * time * time * time

Cruises(cfg, distance) == FourRamps(cfg, RampLimit(cfg)) <= distance

RampTime(cfg, distance) ==
  IF Cruises(cfg, distance) THEN RampLimit(cfg)
  ELSE Min({k \in 0..RampLimit(cfg) : FourRamps(cfg, k) >= distance})

(* Mutant: a new plan goes on with the clock of the old one. *)
ScurvePlanResuming(t) ==
  LET distance == Abs(t.target - t.pos)
      ramp     == RampTime(t.cfg, distance)
      cruise   == IF Cruises(t.cfg, distance)
                  THEN Quot(distance - FourRamps(t.cfg, ramp), t.cfg.j_max * ramp * ramp)
                  ELSE 0
  IN  IF distance = 0 THEN ScurveFinish([t EXCEPT !.phase_time = [k \in Segments |-> 0]])
      ELSE [t EXCEPT !.direction = Sign(t.target - t.pos), !.phase = JERK_POS_1, !.finished = FALSE,
                     !.phase_time = [k \in Segments |-> IF k = CONST_VEL THEN cruise
                                                        ELSE IF k % 2 = 0 THEN ramp ELSE 0],
                     !.t_total = 4 * ramp + cruise]

(* The profile is that of a move from rest: the position is taken from the *)
(* state, velocity and acceleration are neither used nor cleared.          *)
ScurvePlan(t) ==
  LET distance == Abs(t.target - t.pos)
      ramp     == RampTime(t.cfg, distance)
      cruise   == IF Cruises(t.cfg, distance)
                  THEN Quot(distance - FourRamps(t.cfg, ramp), t.cfg.j_max * ramp * ramp)
                  ELSE 0
  IN  IF distance = 0 THEN ScurveFinish([t EXCEPT !.phase_time = [k \in Segments |-> 0]])
      ELSE [t EXCEPT !.direction = Sign(t.target - t.pos), !.t_phase = 0, !.elapsed = 0,
                     !.phase = JERK_POS_1, !.finished = FALSE,
                     !.phase_time = [k \in Segments |-> IF k = CONST_VEL THEN cruise
                                                        ELSE IF k % 2 = 0 THEN ramp ELSE 0],
                     !.t_total = 4 * ramp + cruise]

(* The segments of the plan cover the distance exactly, without rounding.  *)
ScurveExact(t) ==
  Abs(t.target - t.pos) =
    FourRamps(t.cfg, t.phase_time[JERK_POS_1])
      + t.phase_time[CONST_VEL] * t.cfg.j_max * t.phase_time[JERK_POS_1] * t.phase_time[JERK_POS_1]

(* Mutant: negative jerk regardless of the direction. *)
PhaseJerkUndirected(t) ==
  IF t.phase \in {JERK_POS_1, JERK_POS_2} THEN t.direction * t.cfg.j_max
  ELSE IF t.phase \in {JERK_NEG_1, JERK_NEG_2} THEN -t.cfg.j_max
  ELSE 0

PhaseJerk(t) ==
  IF t.phase \in {JERK_POS_1, JERK_POS_2} THEN t.direction * t.cfg.j_max
  ELSE IF t.phase \in {JERK_NEG_1, JERK_NEG_2} THEN -t.direction * t.cfg.j_max
  ELSE 0

(* The first segment from the current one on that takes time. *)
SkipEmpty(t) ==
  LET next == Min({k \in Segments : k >= t.phase /\ t.phase_time[k] > 0} \union {DONE})
  IN  IF next = t.phase THEN t ELSE [t EXCEPT !.phase = next, !.t_phase = 0]

(* Constant jerk for a time h. *)
IntegrateSegment(t, h) ==
  LET jerk == PhaseJerk(t)
  IN  [t EXCEPT !.pos = @ + t.vel * h + Quot(t.acc * h * h, 2) + Quot(jerk * h * h * h, 6),
                !.vel = @ + t.acc * h + Quot(jerk * h * h, 2),
                !.acc = @ + jerk * h,
                !.jrk = jerk]

(* What is left of a sample moves through the current segment, to its end  *)
(* if it lasts that long.                                                  *)
RunSegment(run) ==
  LET s == SkipEmpty(run.t)
      remaining == s.phase_time[s.phase] - s.t_phase
      h == Min({run.left, remaining})
      moved == [IntegrateSegment(s, h) EXCEPT !.elapsed = @ + h, !.t_phase = @ + h]
  IN  IF run.left <= 0 \/ run.t.phase = DONE THEN run
      ELSE IF s.phase = DONE THEN [run EXCEPT !.t = s]
      ELSE [left |-> run.left - h,
            t |-> IF remaining = h THEN [moved EXCEPT !.phase = @ + 1, !.t_phase = 0]
                  ELSE moved]

(* A sample of length dt, across as many segments as it covers. *)
ScurveIntegrate(t, dt) ==
  LET run[k \in 0..7] ==
        IF k = 0 THEN [t |-> t, left |-> dt]
        ELSE CHOOSE next \in {RunSegment(before) : before \in {run[k - 1]}} : TRUE
  IN  run[7].t

(* Mutant: the end is looked for beyond the plan's duration. *)
ScurveFinishIfPassed(moved) ==
  IF moved.elapsed > moved.t_total THEN ScurveFinish(moved) ELSE moved

ScurveFinishIfDone(moved) ==
  IF moved.elapsed >= moved.t_total \/ moved.phase = DONE THEN ScurveFinish(moved) ELSE moved

ScurveHold(t, hold) == [t EXCEPT !.hold = hold]
=============================================================================
