------------------------------ MODULE Trajectory ------------------------------
(***************************************************************************)
(* One trajectory generator, trapezoidal or S-curve, and its caller: a     *)
(* periodic task that steps it, and an application that sets targets,      *)
(* holds, resets and initialises it between two steps.                     *)
(***************************************************************************)
EXTENDS Trap, Scurve

CONSTANTS
  TrapConfigs, ScurveConfigs,   (* configurations passed to init           *)
  Positions,                    (* initial positions of init and reset     *)
  Targets,                      (* targets                                 *)
  Period,                       (* the sample period of the task           *)
  Retargets                     (* bound on the targets and releases of    *)
                                (* one move, without limit in the code     *)

ASSUME TrajectoryAssumption ==
  /\ Positions \union Targets \subseteq Float
  /\ GoodDt(Period) /\ Retargets \in Nat

VARIABLES
  profile,    (* "TRAP" or "SCURVE": which generator this is               *)
  t,          (* the instance                                              *)
  stepped,    (* the last call was a step: it wrote t.pos, t.vel, t.acc,   *)
              (* t.jrk and t.finished to the caller                        *)
  from_rest,  (* the current plan was made at rest after a finished move,  *)
              (* for a distance the grid can represent, a history          *)
  plans       (* plans made since the last rest, a history                 *)

vars == <<profile, t, stepped, from_rest, plans>>

Faulty(code) == [t EXCEPT !.fault_code = code, !.status = "FAULT"]

Faultless == t.is_initialised /\ t.fault_code = "NONE"
-----------------------------------------------------------------------------
Init ==
  /\ profile \in {"TRAP", "SCURVE"}
  /\ t = IF profile = "TRAP" THEN TrapSeeded([v_max |-> 0, a_max |-> 0], 0, FALSE)
         ELSE ScurveSeeded([v_max |-> 0, a_max |-> 0, j_max |-> 0], 0, FALSE)
  /\ stepped = FALSE /\ from_rest = TRUE /\ plans = 0

(* A call that writes no setpoints; one that is refused changes nothing,   *)
(* and is a stuttering step.                                               *)
Configure(new) == t' = new /\ stepped' = FALSE /\ UNCHANGED profile

Rest(new) == Configure(new) /\ from_rest' = TRUE /\ plans' = 0

Initialise ==
  \E pos0 \in Positions :
    /\ IsFinite(pos0)
    /\ \/ /\ profile = "TRAP"
          /\ \E c \in TrapConfigs : ValidTrapConfig(c) /\ Rest(TrapSeeded(c, pos0, TRUE))
       \/ /\ profile = "SCURVE"
          /\ \E c \in ScurveConfigs : ValidScurveConfig(c) /\ Rest(ScurveSeeded(c, pos0, TRUE))

Reset ==
  \E pos0 \in Positions :
    /\ t.is_initialised /\ IsFinite(pos0)
    /\ Rest(IF profile = "TRAP" THEN TrapSeeded(t.cfg, pos0, TRUE)
            ELSE ScurveSeeded(t.cfg, pos0, TRUE))

(* A new plan, made in motion or at rest. *)
Planned(new) ==
  /\ plans < Retargets
  /\ Configure(new)
  /\ from_rest' = /\ t.finished /\ t.vel = 0 /\ t.acc = 0
                  /\ profile = "SCURVE" => ScurveExact(new)
  /\ plans' = plans + 1

SetTarget ==
  /\ Faultless
  /\ \E target \in Targets :
       LET s == [t EXCEPT !.target = target]
       IN  IF IsFinite(target)
           THEN Planned(IF profile = "TRAP" THEN TrapPlan(s) ELSE ScurvePlan(s))
           ELSE Configure(Faulty("CONFIG_INVALID")) /\ UNCHANGED <<from_rest, plans>>

Hold ==
  /\ Faultless
  /\ \E hold \in BOOLEAN :
       IF profile = "TRAP" /\ ~hold /\ ~t.finished THEN Planned(TrapHold(t, hold))
       ELSE /\ Configure(IF profile = "TRAP" THEN TrapHold(t, hold) ELSE ScurveHold(t, hold))
            /\ UNCHANGED <<from_rest, plans>>

Integrated(dt) == IF profile = "TRAP" THEN TrapIntegrate(t, dt) ELSE ScurveIntegrate(t, dt)

FinishIfDone(moved, dt) ==
  IF profile = "TRAP" THEN TrapFinishIfReached(moved, dt) ELSE ScurveFinishIfDone(moved)

KinematicsFinite(moved) == \A x \in {moved.pos, moved.vel, moved.acc, moved.jrk} : IsFinite(x)

(* Mutant: the result is kept before it is looked at. *)
AdvanceUnchecked(moved, dt) == FinishIfDone(moved, dt)

(* Only a finite result is kept. *)
Advance(moved, dt) ==
  IF KinematicsFinite(moved) THEN FinishIfDone(moved, dt) ELSE Faulty("OUTPUT_NAN")

(* A step with the task's period.  A result that is not finite is dropped, *)
(* and a generator that is faulty, held or finished stays where it is.     *)
Step ==
  /\ t.is_initialised
  /\ t' = IF t.fault_code # "NONE" THEN t
          ELSE IF t.hold THEN IF profile = "TRAP" THEN TrapHeld(t) ELSE t
          ELSE IF t.finished THEN t
          ELSE CHOOSE s \in {Advance(moved, Period) : moved \in {Integrated(Period)}} : TRUE
  /\ stepped' = TRUE
  /\ plans' = IF t'.finished /\ ~t.finished THEN 0 ELSE plans
  /\ UNCHANGED <<profile, from_rest>>

(* A step with a period that is not positive. *)
BadStep ==
  /\ t.is_initialised
  /\ Configure(Faulty("CONFIG_INVALID"))
  /\ UNCHANGED <<from_rest, plans>>

Next == Initialise \/ Reset \/ SetTarget \/ Hold \/ Step \/ BadStep

(* The task runs: an initialised generator is stepped again and again.     *)
Spec == Init /\ [][Next]_vars /\ WF_vars(Step)
-----------------------------------------------------------------------------
TypeOK ==
  /\ \A x \in {t.pos, t.vel, t.acc, t.jrk, t.target} : IsFinite(x)
  /\ t.direction \in {-1, 1}
  /\ t.phase \in IF profile = "TRAP" THEN TrapPhase ELSE Segments \union {DONE}
  /\ profile = "TRAP" => t.v_peak \in 0..t.cfg.v_max
  /\ profile = "SCURVE" => t.phase_time \in [Segments -> Nat]
  /\ t.hold \in BOOLEAN /\ t.finished \in BOOLEAN
  /\ from_rest \in BOOLEAN /\ plans \in 0..Retargets

(***************************************************************************)
(* RON-FR-500, RON-FR-510: the speed never exceeds v_max, for the          *)
(* trapezoidal profile however it is retargeted, held and released in      *)
(* motion, for the S-curve as long as it was planned at rest; then its     *)
(* acceleration is within a_max too.                                       *)
(***************************************************************************)
WithinLimits ==
  t.is_initialised =>
    /\ profile = "TRAP" \/ from_rest => Abs(t.vel) <= t.cfg.v_max
    /\ profile = "SCURVE" /\ from_rest => Abs(t.acc) <= t.cfg.a_max

(***************************************************************************)
(* RON-FR-510: an S-curve's clock tells where it is: the time elapsed is   *)
(* that of the segments behind it plus the time in the current one, and    *)
(* the plan's segments add up to its duration, across holds and retargets. *)
(***************************************************************************)
ClockMatchesSegments ==
  profile = "SCURVE" /\ ~t.finished =>
    LET time(S) == MapThenSumSet(LAMBDA k : t.phase_time[k], S)
    IN  /\ t.elapsed = t.t_phase + time({k \in Segments : k < t.phase})
        /\ t.t_total = time(Segments)
        /\ t.phase # DONE /\ t.elapsed < t.t_total

(***************************************************************************)
(* RON-FR-503, RON-FR-510: the motion is continuous.  Between two samples  *)
(* the position moves no further than v_max allows, the velocity changes   *)
(* no more than a_max allows and an S-curve's acceleration no more than    *)
(* j_max allows, up to and including the sample that puts the generator on *)
(* its target; only the trapezoidal profile may end with a velocity it has *)
(* not braked.                                                             *)
(***************************************************************************)
Continuous ==
  [][LET dt == Period IN
     stepped' /\ (profile = "TRAP" \/ from_rest) =>
       /\ Abs(t'.pos - t.pos) <= t.cfg.v_max * dt
       /\ Abs(t'.vel - t.vel) <= t.cfg.a_max * dt \/ (profile = "TRAP" /\ t'.finished)
       /\ profile = "SCURVE" => Abs(t'.acc - t.acc) <= t.cfg.j_max * dt]_vars

(* A move planned at rest that is under way. *)
MoveFromRest == Faultless /\ from_rest /\ ~t.finished /\ ~t.hold

(* It is over: at its target, or held, redirected, restarted or made       *)
(* faulty by the application, but not by running out of finite positions.  *)
Ended == ~MoveFromRest /\ t.fault_code # "OUTPUT_NAN"

(* The peak speed is reached in whole samples, or in the first one.        *)
WholeRamps ==
  profile = "TRAP" =>
    \/ t.v_peak % (t.cfg.a_max * Period) = 0
    \/ t.v_peak <= t.cfg.a_max * Period

(***************************************************************************)
(* RON-FR-512: a move planned at rest reaches its target, unless the       *)
(* application holds, redirects or restarts it: every S-curve, and a       *)
(* trapezoidal move whose ramps are whole samples (TrajectoryClaims says   *)
(* what happens to others).                                                *)
(***************************************************************************)
MovesEnd == MoveFromRest /\ WholeRamps ~> Ended
=============================================================================
