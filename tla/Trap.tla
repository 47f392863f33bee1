--------------------------------- MODULE Trap ---------------------------------
(***************************************************************************)
(* The trapezoidal velocity profile (ron_trajectory_trap.c), as operators  *)
(* on one generator t.  Positions, velocities and accelerations are on the *)
(* grid; the square root is rounded down to it, the comparison of the      *)
(* distance with the stopping distance is exact, and the position          *)
(* tolerance is below one grid unit.                                       *)
(***************************************************************************)
EXTENDS FloatOps, FiniteSetsExt

TrapPhase == {"ACCEL", "CONST_VEL", "DECEL", "HOLD", "DONE"}

ValidTrapConfig(c) == IsFinite(c.v_max) /\ IsFinite(c.a_max) /\ c.v_max > 0 /\ c.a_max > 0

(* ron_util_sign_nonzero *)
SignNonzero(x) == IF x < 0 THEN -1 ELSE 1

(* At rest at pos0: init and reset. *)
TrapSeeded(cfg, pos0, is_initialised) ==
  [cfg |-> cfg, pos |-> pos0, vel |-> 0, acc |-> 0, jrk |-> 0, target |-> pos0,
   direction |-> 1, v_peak |-> 0, phase |-> "DONE", fault_code |-> "NONE", status |-> "OK",
   hold |-> FALSE, finished |-> TRUE, is_initialised |-> is_initialised]

(* The largest speed that still allows stopping at the target, from rest.  *)
PeakSpeed(cfg, distance) == Max({v \in 0..cfg.v_max : v * v <= cfg.a_max * distance})

(* Velocity and acceleration stay as they are, even if the target is here. *)
TrapPlan(t) ==
  IF t.target = t.pos
  THEN [t EXCEPT !.direction = 1, !.v_peak = 0, !.phase = "DONE", !.finished = TRUE]
  ELSE [t EXCEPT !.direction = SignNonzero(t.target - t.pos),
                 !.v_peak = PeakSpeed(t.cfg, Abs(t.target - t.pos)),
                 !.phase = "ACCEL", !.finished = FALSE]

TrapFinish(t) ==
  [t EXCEPT !.pos = t.target, !.vel = 0, !.acc = 0, !.phase = "DONE", !.finished = TRUE,
            !.status = "OK"]

TrapPhaseOf(t) ==
  LET along == t.vel * t.direction
  IN  IF along < 0 THEN "ACCEL"
      ELSE IF 2 * t.cfg.a_max * Abs(t.target - t.pos) <= along * along THEN "DECEL"
      ELSE IF along >= t.v_peak THEN "CONST_VEL"
      ELSE "ACCEL"

(* Mutant: the speed is not cut at the peak. *)
TrapIntegrateUncut(t, dt) ==
  LET phase == TrapPhaseOf(t)
      sense == CASE phase = "ACCEL" -> 1 [] phase = "DECEL" -> -1 [] OTHER -> 0
      acc   == sense * t.direction * t.cfg.a_max
      along == (t.vel + acc * dt) * t.direction
      cut   == phase = "DECEL" /\ along < 0
      vel   == IF cut THEN 0 ELSE t.vel + acc * dt
  IN  [t EXCEPT !.phase = phase, !.acc = IF cut THEN 0 ELSE acc, !.vel = vel,
                !.pos = @ + vel * dt]

(* One sample of motion: accelerate, cruise or brake, cut the speed at the *)
(* peak or at zero, and move with the new speed.                           *)
TrapIntegrate(t, dt) ==
  LET phase == TrapPhaseOf(t)
      sense == CASE phase = "ACCEL" -> 1 [] phase = "DECEL" -> -1 [] OTHER -> 0
      acc   == sense * t.direction * t.cfg.a_max
      along == (t.vel + acc * dt) * t.direction
      cut   == (phase = "ACCEL" /\ along > t.v_peak) \/ (phase = "DECEL" /\ along < 0)
      vel   == IF ~cut THEN t.vel + acc * dt
               ELSE IF phase = "ACCEL" THEN t.direction * t.v_peak ELSE 0
  IN  [t EXCEPT !.phase = phase, !.acc = IF cut THEN 0 ELSE acc, !.vel = vel,
                !.pos = @ + vel * dt]

TrapReached(t, dt) ==
  /\ t.direction * (t.target - t.pos) <= 0
  /\ t.phase = "DECEL" \/ Abs(t.vel) <= t.cfg.a_max * dt

(* A held generator shows that it is held. *)
TrapHeld(t) == [t EXCEPT !.phase = "HOLD"]

TrapFinishIfReached(moved, dt) ==
  IF TrapReached(moved, dt) THEN TrapFinish(moved) ELSE moved

(* ron_trap_hold: releasing the hold of an unfinished move plans it again. *)
TrapHold(t, hold) ==
  LET s == [t EXCEPT !.hold = hold]
  IN  IF hold THEN TrapHeld(s) ELSE IF t.finished THEN s ELSE TrapPlan(s)
=============================================================================
