------------------------------- MODULE Autotune -------------------------------
(***************************************************************************)
(* The relay auto-tuner (ron_autotune.c) and the PID controller it borrows *)
(* while it drives the actuator.  A periodic task steps the tuner; the     *)
(* application initialises it, starts, applies and aborts runs, and        *)
(* changes the gains and the mode of its controller, at any time.          *)
(***************************************************************************)
EXTENDS PidOps

CONSTANTS
  AtConfigs,      (* configurations passed to ron_autotune_init            *)
  PidConfigs,     (* configurations passed to ron_pid_init                 *)
  Setpoints, Measurements, Periods,   (* what a step is given              *)
  GainSets        (* <<Kp, Ki, Kd>> the application sets by itself         *)

UInt8 == 0..255
UInt16 == 0..65535

Rule == {"ZN", "TL", "SOME_OS", "NO_OS"}

AtConfig ==
  [relay_amplitude: Float, hysteresis: Float, u_bias: Float, min_cycles: UInt8,
   timeout_s: Float, tuning_rule: Rule \union {IllegalEnum}]

ASSUME AutotuneAssumption ==
  /\ AtConfigs \subseteq AtConfig
  /\ PidConfigs \subseteq Config
  /\ Setpoints \union Measurements \union Periods \subseteq Float
  /\ GainSets \subseteq Float \X Float \X Float

(* ESTIMATING is passed through within one step. *)
Phase == {"IDLE", "SETTLING", "RELAY", "DONE", "ABORTED"}

Snapshot == [Kp: Float, Ki: Float, Kd: Float, mode: OpMode]

Tuner ==
  [cfg: AtConfig, Ku: Float, Tu: Float, Kp: Float, Ki: Float, Kd: Float,
   phase: Phase, done: BOOLEAN, aborted: BOOLEAN, is_initialised: BOOLEAN,
   u_relay_prev: Int, elapsed_s: Nat, time_since_cross: Nat,
   half_period_sum: Nat, pv_min: Int, pv_max: Int, half_period_count: UInt16,
   last_sign: {-1, 0, 1}, saved: Snapshot, pid_saved: BOOLEAN]

ZeroTuner ==
  [cfg |-> [relay_amplitude |-> 0, hysteresis |-> 0, u_bias |-> 0, min_cycles |-> 0,
            timeout_s |-> 0, tuning_rule |-> "ZN"],
   Ku |-> 0, Tu |-> 0, Kp |-> 0, Ki |-> 0, Kd |-> 0,
   phase |-> "IDLE", done |-> FALSE, aborted |-> FALSE, is_initialised |-> FALSE,
   u_relay_prev |-> 0, elapsed_s |-> 0, time_since_cross |-> 0,
   half_period_sum |-> 0, pv_min |-> 0, pv_max |-> 0, half_period_count |-> 0,
   last_sign |-> 0, saved |-> [Kp |-> 0, Ki |-> 0, Kd |-> 0, mode |-> "AUTOMATIC"],
   pid_saved |-> FALSE]

VARIABLES
  at,       (* the tuner                                                   *)
  pid,      (* the controller it tunes                                     *)
  u,        (* the tuner's last *u_out                                     *)
  ret,      (* the fault returned by the last call                         *)
  call,     (* which function of the tuner that was, or another call       *)
  origin    (* the controller's gains and mode before the run, a history   *)

vars == <<at, pid, u, ret, call, origin>>

Running(a) == a.phase \in {"SETTLING", "RELAY"}

HalfPeriodsNeeded(a) == 2 * a.cfg.min_cycles
-----------------------------------------------------------------------------
ValidAtConfig(c) ==
  /\ IsFinite(c.relay_amplitude) /\ c.relay_amplitude > 0
  /\ IsFinite(c.hysteresis) /\ c.hysteresis >= 0
  /\ IsFinite(c.u_bias)
  /\ c.min_cycles > 0
  /\ IsFinite(c.timeout_s) /\ c.timeout_s > 0
  /\ c.tuning_rule \in Rule

(* A real-valued result on the grid; beyond the float range it is infinite. *)
Result(x) == IF IsFinite(x) THEN x ELSE NaN

(* Factors of Ku, Tu and Tu, in thousandths. *)
RuleFactors ==
  [ZN      |-> [kp |-> 600, ti |-> 500,  td |-> 125],
   TL      |-> [kp |-> 450, ti |-> 2200, td |-> 158],
   SOME_OS |-> [kp |-> 330, ti |-> 500,  td |-> 333],
   NO_OS   |-> [kp |-> 200, ti |-> 500,  td |-> 333]]

(* Ku = 4 d / (pi a), where 2 a is the peak-to-peak measurement. *)
UltimateGain(a) == Quot(8000 * a.cfg.relay_amplitude, 3142 * (a.pv_max - a.pv_min))

(* A result computed from values that may have overflowed already. *)
ResultOf(operands, x) == IF \A o \in operands : IsFinite(o) THEN Result(x) ELSE NaN

(* An infinite Ti makes Ki zero: that is a finite gain. *)
WithGains(a, Ku, Tu) ==
  LET f  == RuleFactors[a.cfg.tuning_rule]
      kp == Quot(f.kp * Ku, 1000)
      ki == IF IsFinite(Quot(f.ti * Tu, 1000)) THEN Quot(1000 * kp, f.ti * Tu) ELSE 0
      kd == Quot(kp * f.td * Tu, 1000)
  IN  [a EXCEPT !.Ku = Result(Ku), !.Tu = Result(Tu), !.Kp = ResultOf({Ku}, kp),
                !.Ki = ResultOf({Ku}, ki), !.Kd = ResultOf({Ku, Tu}, kd)]

(* Mutant: a completed run stays in the phase ESTIMATING. *)
EstimateUnfinished(a) ==
  IF a.pv_max = a.pv_min THEN [a EXCEPT !.aborted = TRUE, !.phase = "ABORTED"]
  ELSE [WithGains(a, UltimateGain(a), Quot(2 * a.half_period_sum, a.half_period_count))
          EXCEPT !.done = TRUE, !.phase = "ESTIMATING"]

(* An oscillation below the smallest amplitude, half a grid unit, aborts. *)
Estimate(a) ==
  IF a.pv_max = a.pv_min THEN [a EXCEPT !.aborted = TRUE, !.phase = "ABORTED"]
  ELSE [WithGains(a, UltimateGain(a), Quot(2 * a.half_period_sum, a.half_period_count))
          EXCEPT !.done = TRUE, !.phase = "DONE"]

RelayOutput(a, e) ==
  IF e > a.cfg.hysteresis THEN a.cfg.u_bias + a.cfg.relay_amplitude
  ELSE IF e < -a.cfg.hysteresis THEN a.cfg.u_bias - a.cfg.relay_amplitude
  ELSE a.u_relay_prev

ErrorSign(e) == IF e >= 0 THEN 1 ELSE -1

Crossed(a, e) == a.last_sign # 0 /\ ErrorSign(e) # a.last_sign

StepSettling(a, y, crossed) ==
  IF crossed THEN [a EXCEPT !.phase = "RELAY", !.time_since_cross = 0,
                            !.pv_min = y, !.pv_max = y]
  ELSE a

(* Mutant: the time since the last crossing is not reset. *)
StepRelayAccumulating(a, y, dt, crossed) ==
  LET t == a.time_since_cross + dt
      b == [a EXCEPT !.pv_min = IF y < @ THEN y ELSE @,
                     !.pv_max = IF y > @ THEN y ELSE @,
                     !.half_period_sum = IF crossed THEN @ + t ELSE @,
                     !.half_period_count = IF crossed THEN @ + 1 ELSE @,
                     !.time_since_cross = t]
  IN  IF b.half_period_count >= HalfPeriodsNeeded(b) THEN Estimate(b) ELSE b

StepRelay(a, y, dt, crossed) ==
  LET t == a.time_since_cross + dt
      b == [a EXCEPT !.pv_min = IF y < @ THEN y ELSE @,
                     !.pv_max = IF y > @ THEN y ELSE @,
                     !.half_period_sum = IF crossed THEN @ + t ELSE @,
                     !.half_period_count = IF crossed THEN (@ + 1) % 65536 ELSE @,
                     !.time_since_cross = IF crossed THEN 0 ELSE t]
  IN  IF b.half_period_count >= HalfPeriodsNeeded(b) THEN Estimate(b) ELSE b

CheckTimeout(a) ==
  IF Running(a) /\ a.elapsed_s > a.cfg.timeout_s
  THEN [a EXCEPT !.aborted = TRUE, !.phase = "ABORTED"]
  ELSE a

(* Mutant: the clock only runs once the oscillation has begun. *)
DrivenClockless(a, r, y, dt) ==
  LET e       == r - y
      crossed == Crossed(a, e)
      b       == [a EXCEPT !.u_relay_prev = RelayOutput(a, e),
                           !.last_sign = ErrorSign(e)]
  IN  CheckTimeout(IF a.phase = "SETTLING" THEN StepSettling(b, y, crossed)
                   ELSE StepRelay([b EXCEPT !.elapsed_s = @ + dt], y, dt, crossed))

(* A step of a run. *)
Driven(a, r, y, dt) ==
  LET e       == r - y
      crossed == Crossed(a, e)
      b       == [a EXCEPT !.u_relay_prev = RelayOutput(a, e),
                           !.last_sign = ErrorSign(e), !.elapsed_s = @ + dt]
  IN  CheckTimeout(IF a.phase = "SETTLING" THEN StepSettling(b, y, crossed)
                   ELSE StepRelay(b, y, dt, crossed))

SnapshotOf(p) == [Kp |-> p.cfg.Kp, Ki |-> p.cfg.Ki, Kd |-> p.cfg.Kd, mode |-> p.mode]

(* Everything a new run discards. *)
Seeded(a) == [ZeroTuner EXCEPT !.cfg = a.cfg, !.is_initialised = a.is_initialised]

NoOutput == [u |-> 0, status |-> {}]

(* Mutant: the run starts before the controller's mode is saved. *)
StartedLate(a, p) ==
  [Seeded(a) EXCEPT !.saved = [SnapshotOf(p) EXCEPT !.mode = "MANUAL"],
                    !.pid_saved = TRUE, !.phase = "SETTLING",
                    !.u_relay_prev = a.cfg.u_bias + a.cfg.relay_amplitude]

(* Mutant: the relay of the previous run is not primed. *)
StartedUnprimed(a, p) ==
  [Seeded(a) EXCEPT !.saved = SnapshotOf(p),
                    !.pid_saved = TRUE, !.phase = "SETTLING"]

Started(a, p) ==
  [Seeded(a) EXCEPT !.saved = SnapshotOf(p),
                    !.pid_saved = TRUE, !.phase = "SETTLING",
                    !.u_relay_prev = a.cfg.u_bias + a.cfg.relay_amplitude]

(* Mutant: gains that are refused end the call. *)
HandBackEarlyReturn(p, Kp, Ki, Kd, mode, u_bias) ==
  LET gains == PidSetGains(p, NoOutput, Kp, Ki, Kd)
  IN  IF gains.ret # {} THEN gains ELSE PidSetMode(gains.pid, NoOutput, mode, u_bias)

(* New gains, then the mode from before the run, with the bias handed      *)
(* over; the two calls are made whatever the first returns.                *)
HandBack(p, Kp, Ki, Kd, mode, u_bias) ==
  LET gains == PidSetGains(p, NoOutput, Kp, Ki, Kd)
  IN  [PidSetMode(gains.pid, NoOutput, mode, u_bias) EXCEPT !.ret = gains.ret]
-----------------------------------------------------------------------------
Init ==
  /\ at = ZeroTuner /\ pid = ZeroPid
  /\ u = 0 /\ ret = {} /\ call = "other"
  /\ origin = ZeroTuner.saved

Called(name, fault) == call' = name /\ ret' = fault

Refuse(name) == Called(name, {"CONFIG_INVALID"}) /\ UNCHANGED <<at, pid, u, origin>>

InitTuner ==
  \E c \in AtConfigs :
    IF ValidAtConfig(c)
    THEN /\ at' = [ZeroTuner EXCEPT !.cfg = c, !.is_initialised = TRUE]
         /\ origin' = ZeroTuner.saved
         /\ Called("other", {}) /\ UNCHANGED <<pid, u>>
    ELSE Refuse("other")

Start ==
  IF at.is_initialised /\ pid.is_initialised
  THEN /\ at' = Started(at, pid)
       /\ pid' = PidSetMode(pid, NoOutput, "MANUAL", at.cfg.u_bias).pid
       /\ origin' = SnapshotOf(pid)
       /\ Called("start", {}) /\ UNCHANGED u
  ELSE Refuse("start")

(* An accepted step during a run. *)
RunStep ==
  \E r \in Setpoints, y \in Measurements, dt \in Periods :
    /\ Running(at) /\ at.is_initialised
    /\ GoodDt(dt) /\ IsFinite(r) /\ IsFinite(y)
    /\ at' = Driven(at, r, y, dt)
    /\ u' = RelayOutput(at, r - y)
    /\ Called("step", {}) /\ UNCHANGED <<pid, origin>>

(* Any other step: refused, or after the end of a run. *)
IdleStep ==
  \E r \in Setpoints, y \in Measurements, dt \in Periods :
    IF at.is_initialised /\ GoodDt(dt) /\ IsFinite(r) /\ IsFinite(y)
    THEN /\ ~Running(at)
         /\ IF at.phase = "IDLE" THEN Refuse("step")
            ELSE u' = at.cfg.u_bias /\ Called("step", {}) /\ UNCHANGED <<at, pid, origin>>
    ELSE Refuse("step")

Apply ==
  IF at.phase = "DONE"
  THEN LET res == HandBack(pid, at.Kp, at.Ki, at.Kd, at.saved.mode, at.cfg.u_bias)
       IN  pid' = res.pid /\ Called("apply", res.ret) /\ UNCHANGED <<at, u, origin>>
  ELSE Refuse("apply")

Abort ==
  IF at.is_initialised
  THEN /\ at' = [at EXCEPT !.aborted = TRUE, !.phase = "ABORTED"]
       /\ pid' = IF at.pid_saved
                 THEN HandBack(pid, at.saved.Kp, at.saved.Ki, at.saved.Kd,
                               at.saved.mode, at.cfg.u_bias).pid
                 ELSE pid
       /\ Called("abort", {}) /\ UNCHANGED <<u, origin>>
  ELSE Refuse("abort")

(* The application and its controller. *)
Direct(result) ==
  pid' = result.pid /\ Called("other", result.ret) /\ UNCHANGED <<at, u, origin>>

PidInitialise == \E c \in PidConfigs : Direct(PidInit(pid, NoOutput, c))

SetGains == \E g \in GainSets : Direct(PidSetGains(pid, NoOutput, g[1], g[2], g[3]))

SetMode == \E m \in OpMode : Direct(PidSetMode(pid, NoOutput, m, pid.u_sat_prev))

Next ==
  \/ InitTuner \/ Start \/ RunStep \/ IdleStep \/ Apply \/ Abort
  \/ PidInitialise \/ SetGains \/ SetMode

(* The periodic task keeps stepping a started run, sooner or later with a  *)
(* valid sample; the application is not obliged to anything.               *)
Fairness == WF_vars(RunStep)

Spec == Init /\ [][Next]_vars /\ Fairness
-----------------------------------------------------------------------------
TypeOK ==
  /\ at \in Tuner
  /\ pid \in PidInstance
  /\ u \in Int
  /\ ret \in SUBSET Fault
  /\ call \in {"start", "step", "apply", "abort", "other"}
  /\ origin \in Snapshot

(***************************************************************************)
(* The first half of RON-FR-806: the tuner drives the actuator only with   *)
(* the bias plus or minus the relay amplitude, and with the bias once the  *)
(* run has ended, although inside the hysteresis band it repeats an output *)
(* of an earlier step or of no step at all.  The second half, that the     *)
(* output limits of the controller still apply, the code does not keep:    *)
(* relay and bias are compared with no limits, and the drive the property  *)
(* fixes is outside them in the run.                                       *)
(***************************************************************************)
DriveWithinRelay ==
  [][call' = "step" /\ ret' = {} =>
       IF Running(at)
       THEN Abs(u' - at.cfg.u_bias) = at.cfg.relay_amplitude
       ELSE u' = at.cfg.u_bias]_vars

(***************************************************************************)
(* The oscillation bookkeeping is a partition of time: the half-periods    *)
(* counted and the one under way do not overlap, fit in the time since the *)
(* start, and the start fits in the budget; a finished run has measured    *)
(* exactly the cycles asked for, each with its peaks apart.                *)
(***************************************************************************)
TimeIsPartitioned ==
  /\ at.half_period_sum + at.time_since_cross <= at.elapsed_s
  /\ at.half_period_sum >= at.half_period_count
  /\ Running(at) => /\ at.elapsed_s <= at.cfg.timeout_s
                    /\ at.half_period_count < HalfPeriodsNeeded(at)
  /\ at.phase = "DONE" =>
       /\ at.half_period_count = HalfPeriodsNeeded(at)
       /\ IsFinite(at.Tu) => at.cfg.min_cycles * at.Tu <= at.elapsed_s
       /\ at.pv_min < at.pv_max

(***************************************************************************)
(* RON-FR-807: whatever the phase, however the run ended and whatever the  *)
(* application did to the controller meanwhile, abort gives it the gains   *)
(* and the mode it had before the run.                                     *)
(***************************************************************************)
AbortRestoresOrigin ==
  [][call' = "abort" /\ ret' = {} /\ at.pid_saved =>
       SnapshotOf(pid') = origin]_vars

(***************************************************************************)
(* RON-FR-804: only apply and abort change the controller's gains, apply   *)
(* to the results of a completed run; results it refuses leave the gains   *)
(* as they were, and the controller's mode is handed back all the same.    *)
(***************************************************************************)
GainsAreStaged ==
  [][/\ call' \in {"start", "step"} => pid'.cfg = pid.cfg
     /\ call' = "apply" /\ at.phase = "DONE" =>
          /\ pid'.mode = at.saved.mode
          /\ IF ret' = {}
             THEN ValidGains(pid'.cfg) /\ <<pid'.cfg.Kp, pid'.cfg.Ki, pid'.cfg.Kd>>
                                          = <<at.Kp, at.Ki, at.Kd>>
             ELSE pid'.cfg = pid.cfg /\ NaN \in {at.Kp, at.Ki, at.Kd}]_vars

(***************************************************************************)
(* RON-FR-807: a run ends.  If the application does not start over again   *)
(* and again, a run under way is completed, times out or is aborted, even  *)
(* if the process never crosses its setpoint.                              *)
(***************************************************************************)
RunEnds ==
  []<>(call = "start") \/ (Running(at) ~> ~Running(at))
=============================================================================
