------------------------------- MODULE PidOps -------------------------------
(***************************************************************************)
(* What each PID function does to one instance (ron_pid_t) and to its      *)
(* caller's output variables, as operators: the composite controllers call *)
(* the same operators on the instances they own.                           *)
(*                                                                         *)
(* An instance p holds its configuration p.cfg and the fields of           *)
(* ron_pid_state_t.  Fault registers and status words are sets of bits.    *)
(* A call yields [pid, out, ret, notified]: the instance afterwards, the   *)
(* caller's *u_out and *status, the returned fault, and the bits passed to *)
(* the fault callback.                                                     *)
(***************************************************************************)
EXTENDS PidConfig

Fault == {"INPUT_NAN", "OUTPUT_NAN", "INTEGRAL_OVERFLOW", "CONFIG_INVALID"}

(* The faults that latch; CONFIG_INVALID is only ever returned. *)
Detected == Fault \ {"CONFIG_INVALID"}

Status == {"SATURATED", "RATE_LIMITED", "AW_ACTIVE", "MANUAL_MODE", "FAULT",
           "SP_FILTER_ACTIVE", "NORMALISED", "FF_ACTIVE"}

OpMode == {"AUTOMATIC", "MANUAL"}

(* The memory is finite, but for the two remembered errors: a setpoint     *)
(* weighted with 0 (b, c) keeps an overflowed error out of the output.     *)
PidInstance ==
  [cfg: Config, integral: Finite, y_prev: Finite, e_D_prev: Int, D_filt_prev: Finite,
   r_filt_prev: Finite, u_sat_prev: Finite, u_prev: Finite, e_prev: Int,
   ff_r_prev: Finite, ff_v_prev: Finite, ff_a_prev: Finite, u_ff_prev: Finite,
   mode: OpMode, fault_code: SUBSET Fault, status: SUBSET Status,
   is_initialised: BOOLEAN]

Output == [u: Finite, status: SUBSET Status]

(* A zero-initialised instance, before ron_pid_init. *)
ZeroPid ==
  [cfg |-> ZeroConfig, integral |-> 0, y_prev |-> 0, e_D_prev |-> 0,
   D_filt_prev |-> 0, r_filt_prev |-> 0, u_sat_prev |-> 0, u_prev |-> 0,
   e_prev |-> 0, ff_r_prev |-> 0, ff_v_prev |-> 0, ff_a_prev |-> 0,
   u_ff_prev |-> 0, mode |-> "AUTOMATIC", fault_code |-> {}, status |-> {},
   is_initialised |-> FALSE]

Flag(condition, bit) == IF condition THEN {bit} ELSE {}

Done(p, out) == [pid |-> p, out |-> out, ret |-> {}, notified |-> {}]

Rejected(p, out) ==
  [pid |-> p, out |-> out, ret |-> {"CONFIG_INVALID"}, notified |-> {}]
-----------------------------------------------------------------------------
(***************************************************************************)
(* Fault handling (ron_pid_fault.c, pid_fail_step).                        *)
(***************************************************************************)
PidSafeOutput(p) ==
  SafeOutput(p.cfg.safe_policy, p.u_sat_prev, p.cfg.safe_value,
             p.cfg.u_min, p.cfg.u_max)

(* Mutant: the two registers are mixed up. *)
FaultSetSwapped(p, code) ==
  [p EXCEPT !.fault_code = @ \union {"FAULT"}, !.status = @ \union {code}]

FaultSet(p, code) ==
  [p EXCEPT !.fault_code = @ \union {code}, !.status = @ \union {"FAULT"}]

(* The callback hears of the bits that were not latched before. *)
FaultNotify(p, code) == IF p.cfg.fault_cb THEN {code} \ p.fault_code ELSE {}

SafeStep(p, out) ==
  [pid |-> p, out |-> [u |-> PidSafeOutput(p), status |-> p.status],
   ret |-> p.fault_code, notified |-> {}]

(* Mutant: the callback is asked after the fault is latched. *)
FailStepNotifiedLate(p, out, code) ==
  LET f == FaultSet(p, code)
  IN  [SafeStep(f, out) EXCEPT !.notified = FaultNotify(f, code)]

FailStep(p, out, code) ==
  [SafeStep(FaultSet(p, code), out) EXCEPT !.notified = FaultNotify(p, code)]
-----------------------------------------------------------------------------
(***************************************************************************)
(* The terms of the control law (ron_pid_core.c).  Arithmetic is exact, so *)
(* each term comes with the intermediate results C computes on the way:    *)
(* one of them overflowing makes the term an infinity or a NaN, although   *)
(* the exact term may lie within the range again.                          *)
(***************************************************************************)
(* Mutant: a step is committed without a test. *)
Untested(S) == TRUE

AllFinite(S) == \A x \in S : IsFinite(x)

(* A finite value over an infinite span is 0, an infinite one stays so. *)
Normalise(c, x) ==
  LET span   == c.in_max - c.in_min
      offset == x - c.in_min
  IN  IF ~c.normalise THEN x
      ELSE IF ~IsFinite(offset) THEN offset
      ELSE IF IsFinite(span) THEN Quot(offset, span) ELSE 0

Denormalise(c, u) == IF c.normalise THEN u * (c.out_max - c.out_min) + c.out_min ELSE u

DenormaliseSteps(c, u) ==
  IF c.normalise THEN {c.out_max - c.out_min, u * (c.out_max - c.out_min)} ELSE {}

(* A first-order lag: the weight w on the new sample, v on the old one. *)
Lag(new, w, old, v) == Quot(w * new + v * old, w + v)

(* The old setpoint has no weight beside an infinite tau_sp + dt. *)
SpFilter(p, r_n, dt) ==
  IF p.cfg.tau_sp > 0 /\ IsFinite(p.cfg.tau_sp + dt) /\ IsFinite(r_n)
  THEN Lag(r_n, dt, p.r_filt_prev, p.cfg.tau_sp)
  ELSE r_n

(* pid_prepare_inputs also zeroes the integral on a large setpoint change. *)
SetpointReset(p, r_f) ==
  IF /\ p.cfg.sp_reset_threshold > 0
     /\ ~IsFinite(r_f) \/ Abs(r_f - p.r_filt_prev) > p.cfg.sp_reset_threshold
  THEN [p EXCEPT !.integral = 0]
  ELSE p

Delta(p, y_n, e_d) ==
  IF p.cfg.deriv_mode = "ON_MEASUREMENT" THEN -(y_n - p.y_prev) ELSE e_d - p.e_D_prev

Derivative(p, y_n, e_d, dt) ==
  LET slope == Quot(p.cfg.Kd * Delta(p, y_n, e_d), dt)
  IN  IF p.cfg.N > 0 THEN Lag(slope, p.cfg.N * dt, p.D_filt_prev, 1) ELSE slope

DerivativeSteps(p, y_n, e_d, dt) ==
  {Delta(p, y_n, e_d), p.cfg.Kd * Delta(p, y_n, e_d), p.cfg.N * dt}
    \union IF p.cfg.deriv_mode = "ON_MEASUREMENT" THEN {} ELSE {e_d, p.e_D_prev}

(* Conditional integration: a saturated output and an error of the         *)
(* integral's sign freeze the integrator.                                  *)
Frozen(p, e) ==
  /\ p.cfg.aw_mode = "CLAMPING"
  /\ p.u_sat_prev <= p.cfg.u_min \/ p.u_sat_prev >= p.cfg.u_max
  /\ e # 0 /\ Sign(e) = Sign(p.integral)

(***************************************************************************)
(* pid_integral.  The clamp makes an infinite update the limit of its      *)
(* sign; opposite infinities, and 0 times an infinity, are NaN.            *)
(***************************************************************************)
IntegralTerm(p, e, dt) ==
  LET c      == p.cfg
      errors == IF c.integ_method = "TRAPEZOIDAL" THEN {e, p.e_prev} ELSE {e}
      sum    == IF c.integ_method = "TRAPEZOIDAL" THEN e + p.e_prev ELSE e
      k      == c.Ki * dt
      area   == IF c.integ_method = "TRAPEZOIDAL" THEN Quot(k * sum, 2) ELSE k * sum
      gap    == IF c.aw_mode = "BACK_CALC" THEN p.u_sat_prev - p.u_prev ELSE 0
      track  == IF c.aw_mode = "BACK_CALC" THEN Quot(dt * gap, c.T_aw) ELSE 0
      signs  == ({Infinity(x) : x \in errors \union {sum, area, gap, track, area + track}}
                   \union {Sign(sum) * Infinity(k)}) \ {0}
      nan    == \/ {-1, 1} \subseteq signs
                \/ k = 0 /\ ~AllFinite(errors \union {sum})
                \/ sum = 0 /\ ~IsFinite(k)
  IN  IF Frozen(p, e) THEN Clamp(p.integral, c.I_min, c.I_max)
      ELSE IF nan THEN NaN
      ELSE IF 1 \in signs THEN c.I_max
      ELSE IF -1 \in signs THEN c.I_min
      ELSE Clamp(p.integral + area + track, c.I_min, c.I_max)

FfFilter(raw, prev, N_ff, dt) == IF N_ff > 0 THEN Lag(raw, N_ff * dt, prev, 1) ELSE raw

FfVelocity(p, r, dt) ==
  FfFilter(Quot(r - p.ff_r_prev, dt), p.ff_v_prev, p.cfg.feedforward.N_ff, dt)

FfAcceleration(p, r, dt) ==
  FfFilter(Quot(FfVelocity(p, r, dt) - p.ff_v_prev, dt), p.ff_a_prev,
           p.cfg.feedforward.N_ff, dt)

(* pid_feedforward: the contribution and the memory it leaves behind. *)
FeedforwardUpdate(p, r, dt, external_ff) ==
  LET f    == p.cfg.feedforward
      v    == FfVelocity(p, r, dt)
      a    == FfAcceleration(p, r, dt)
      keep == [u_ff |-> 0, r |-> p.ff_r_prev, v |-> p.ff_v_prev, a |-> p.ff_a_prev]
  IN  IF f.mode = "EXTERNAL"
      THEN [keep EXCEPT !.u_ff = external_ff, !.r = r]
      ELSE IF f.mode = "DISABLED" \/ f.gain = 0 THEN keep
      ELSE IF f.mode = "STATIC_GAIN" THEN [keep EXCEPT !.u_ff = f.gain * r, !.r = r]
      ELSE IF f.mode = "VELOCITY"
      THEN [keep EXCEPT !.u_ff = f.gain * v, !.r = r, !.v = v]
      ELSE [u_ff |-> f.gain * a, r |-> r, v |-> v, a |-> a]

FeedforwardSteps(p, r, dt) ==
  LET f == p.cfg.feedforward
      v == FfVelocity(p, r, dt)
  IN  IF f.mode \notin {"VELOCITY", "ACCELERATION"} \/ f.gain = 0 THEN {}
      ELSE {r - p.ff_r_prev, f.N_ff * dt}
             \union IF f.mode = "VELOCITY" THEN {} ELSE {v - p.ff_v_prev}
-----------------------------------------------------------------------------
ManualStep(p, out) ==
  LET m == [p EXCEPT !.status = {"MANUAL_MODE"}]
  IN  Done(m, [u |-> m.u_sat_prev, status |-> m.status])

(***************************************************************************)
(* The terms of an automatic step from the prepared inputs, and seen, the  *)
(* other intermediate results.  An infinite one makes u_raw non-finite     *)
(* whatever its gain (0 times an infinity is NaN).                         *)
(***************************************************************************)
Terms(q, r_n, y_n, r_f, dt, external_ff) ==
  LET e   == r_f - y_n
      e_d == q.cfg.c * r_f - y_n
      e_p == q.cfg.b * r_f - y_n
  IN  [r_f |-> r_f, y_n |-> y_n, e |-> e, e_d |-> e_d,
       p_term |-> q.cfg.Kp * e_p,
       i_term |-> IntegralTerm(q, e, dt),
       d_term |-> Derivative(q, y_n, e_d, dt),
       ff     |-> FeedforwardUpdate(q, r_f, dt, external_ff),
       seen   |-> {r_n, r_f, y_n, e_p} \union DerivativeSteps(q, y_n, e_d, dt)
                    \union FeedforwardSteps(q, r_f, dt)]

(* pid_apply_output_limits and pid_store_step: the terms x, committed. *)
LimitAndStore(q, out, x, dt) ==
  LET c       == q.cfg
      sum     == x.p_term + x.i_term + x.d_term + x.ff.u_ff
      u_raw   == Denormalise(c, sum)
      finite  == /\ AllFinite(x.seen \union {x.p_term, x.i_term, x.d_term})
                 /\ AllFinite({x.p_term + x.i_term, x.p_term + x.i_term + x.d_term})
                 /\ AllFinite({x.ff.u_ff, x.ff.r, x.ff.v, x.ff.a})
                 /\ AllFinite({sum, u_raw} \union DenormaliseSteps(c, sum))
      u_sat   == Clamp(u_raw, c.u_min, c.u_max)
      u_final == RateLimit(u_sat, q.u_sat_prev, c.du_max, dt)
      clipped == u_sat # u_raw
      status  == Flag(c.normalise, "NORMALISED")
                 \union Flag(c.tau_sp > 0, "SP_FILTER_ACTIVE")
                 \union Flag(x.ff.u_ff # 0, "FF_ACTIVE")
                 \union Flag(clipped, "SATURATED")
                 \union Flag(RateLimited(u_sat, q.u_sat_prev, c.du_max, dt), "RATE_LIMITED")
                 \union Flag(clipped /\ c.aw_mode # "NONE", "AW_ACTIVE")
      stored  == [q EXCEPT !.integral = x.i_term, !.y_prev = x.y_n, !.e_D_prev = x.e_d,
                           !.D_filt_prev = x.d_term, !.r_filt_prev = x.r_f,
                           !.u_sat_prev = u_final, !.u_prev = u_raw, !.e_prev = x.e,
                           !.ff_r_prev = x.ff.r, !.ff_v_prev = x.ff.v,
                           !.ff_a_prev = x.ff.a, !.u_ff_prev = x.ff.u_ff,
                           !.status = status]
  IN  IF ~finite THEN FailStep(q, out, "OUTPUT_NAN")
      ELSE IF c.I_overflow_thresh > 0 /\ Abs(x.i_term) > c.I_overflow_thresh
      THEN FailStep(q, out, "INTEGRAL_OVERFLOW")
      ELSE Done(stored, [u |-> u_final, status |-> status])

(* The automatic branch of ron_pid_core_step.  Only the setpoint reset     *)
(* survives a failing step.                                                *)
AutomaticStep(p, out, r, y, dt, external_ff) ==
  LET r_n == Normalise(p.cfg, r)
      y_n == Normalise(p.cfg, y)
      r_f == SpFilter(p, r_n, dt)
      q   == SetpointReset(p, r_f)
  IN  LimitAndStore(q, out, Terms(q, r_n, y_n, r_f, dt, external_ff), dt)

CoreStep(p, out, r, y, dt, external_ff) ==
  IF ~IsFinite(r) \/ ~IsFinite(y) THEN FailStep(p, out, "INPUT_NAN")
  ELSE IF p.mode = "MANUAL" THEN ManualStep(p, out)
  ELSE AutomaticStep(p, out, r, y, dt, external_ff)
-----------------------------------------------------------------------------
(***************************************************************************)
(* The API (ron_pid_api.c, ron_feedforward.c).  Null pointers are refused  *)
(* before anything is read and are left out.                               *)
(***************************************************************************)
ResetState(p) ==
  [p EXCEPT !.integral = 0, !.y_prev = 0, !.e_D_prev = 0, !.D_filt_prev = 0,
            !.r_filt_prev = 0, !.u_sat_prev = 0, !.u_prev = 0, !.e_prev = 0,
            !.ff_r_prev = 0, !.ff_v_prev = 0, !.ff_a_prev = 0, !.u_ff_prev = 0,
            !.fault_code = {}]

ModeStatus(mode) == Flag(mode = "MANUAL", "MANUAL_MODE")

PidInit(p, out, cfg) ==
  IF ~ValidConfig(cfg) THEN Rejected(p, out)
  ELSE Done([ResetState(p) EXCEPT !.cfg = cfg, !.status = {}, !.mode = "AUTOMATIC",
                                  !.is_initialised = TRUE], out)

PidReset(p, out) ==
  IF ~p.is_initialised THEN Rejected(p, out)
  ELSE Done([ResetState(p) EXCEPT !.status = ModeStatus(p.mode)], out)

(* Mutant: a latched fault does not stop the control law. *)
PidStepUnlatched(p, out, r, y, dt) ==
  IF \/ ~p.is_initialised
     \/ ~GoodDt(dt) \/ p.cfg.feedforward.mode = "EXTERNAL"
  THEN Rejected(p, out)
  ELSE CoreStep(p, out, r, y, dt, 0)

PidStep(p, out, r, y, dt) ==
  IF ~p.is_initialised THEN Rejected(p, out)
  ELSE IF p.fault_code # {} THEN SafeStep(p, out)
  ELSE IF ~GoodDt(dt) \/ p.cfg.feedforward.mode = "EXTERNAL" THEN Rejected(p, out)
  ELSE CoreStep(p, out, r, y, dt, 0)

PidStepFeedforward(p, out, r, y, dt, external_ff) ==
  IF ~p.is_initialised THEN Rejected(p, out)
  ELSE IF p.fault_code # {} THEN SafeStep(p, out)
  ELSE IF \/ p.cfg.feedforward.mode # "EXTERNAL"
          \/ ~GoodDt(dt) \/ ~IsFinite(external_ff)
  THEN Rejected(p, out)
  ELSE CoreStep(p, out, r, y, dt, external_ff)

(* Mutants: the old configuration is validated, and the candidate is       *)
(* committed before it is refused.                                         *)
PidSetConfigStale(p, out, cfg) ==
  IF p.is_initialised /\ ValidConfig(p.cfg) THEN Done([p EXCEPT !.cfg = cfg], out)
  ELSE Rejected(p, out)

PidSetConfigEager(p, out, cfg) ==
  LET q == [p EXCEPT !.cfg = cfg]
  IN  IF p.is_initialised /\ ValidConfig(cfg) THEN Done(q, out) ELSE Rejected(q, out)

(* Every setter of the configuration goes through this one commit. *)
PidSetConfig(p, out, cfg) ==
  IF p.is_initialised /\ ValidConfig(cfg) THEN Done([p EXCEPT !.cfg = cfg], out)
  ELSE Rejected(p, out)

PidSetGains(p, out, Kp, Ki, Kd) ==
  PidSetConfig(p, out, [p.cfg EXCEPT !.Kp = Kp, !.Ki = Ki, !.Kd = Kd])

PidSetLimits(p, out, u_min, u_max) ==
  PidSetConfig(p, out, [p.cfg EXCEPT !.u_min = u_min, !.u_max = u_max])

PidSetFilter(p, out, N) == PidSetConfig(p, out, [p.cfg EXCEPT !.N = N])

PidSetAntiwindup(p, out, aw_mode, T_aw) ==
  PidSetConfig(p, out, [p.cfg EXCEPT !.aw_mode = aw_mode, !.T_aw = T_aw])

(* Feed-forward is validated alone and its memory starts afresh. *)
PidSetFeedforward(p, out, f) ==
  IF p.is_initialised /\ ValidFeedforward(f)
  THEN Done([p EXCEPT !.cfg.feedforward = f, !.ff_r_prev = 0, !.ff_v_prev = 0,
                      !.ff_a_prev = 0, !.u_ff_prev = 0,
                      !.status = @ \ {"FF_ACTIVE"}], out)
  ELSE Rejected(p, out)

(* Mutant: the back-calculation history keeps its old value. *)
HandoffUntracked(p, mode, u) ==
  IF p.mode = "MANUAL" /\ mode = "AUTOMATIC"
  THEN [p EXCEPT !.integral = Clamp(u, p.cfg.I_min, p.cfg.I_max), !.u_sat_prev = u]
  ELSE IF mode = "MANUAL" THEN [p EXCEPT !.u_sat_prev = u]
  ELSE p

(* The handoff value becomes the last output, and on the way to automatic  *)
(* the integral as well.                                                   *)
Handoff(p, mode, u) ==
  IF p.mode = "MANUAL" /\ mode = "AUTOMATIC"
  THEN [p EXCEPT !.integral = Clamp(u, p.cfg.I_min, p.cfg.I_max),
                 !.u_sat_prev = u, !.u_prev = u]
  ELSE IF mode = "MANUAL" THEN [p EXCEPT !.u_sat_prev = u, !.u_prev = u]
  ELSE p

PidSetMode(p, out, mode, manual_out) ==
  IF ~p.is_initialised \/ ~IsFinite(manual_out) THEN Rejected(p, out)
  ELSE Done([Handoff(p, mode, Clamp(manual_out, p.cfg.u_min, p.cfg.u_max))
               EXCEPT !.mode = mode, !.status = ModeStatus(mode)], out)

PidSetIntegral(p, out, value) ==
  IF ~p.is_initialised \/ ~IsFinite(value) THEN Rejected(p, out)
  ELSE Done([p EXCEPT !.integral = Clamp(value, p.cfg.I_min, p.cfg.I_max)], out)

(* Mutant: clearing a fault also puts the output history to rest. *)
PidFaultClearRestarting(p, out) ==
  Done([p EXCEPT !.fault_code = {}, !.status = @ \ {"FAULT"}, !.u_sat_prev = 0], out)

(* ron_pid_fault_clear does not ask whether the instance is initialised. *)
PidFaultClear(p, out) ==
  Done([p EXCEPT !.fault_code = {}, !.status = @ \ {"FAULT"}], out)
=============================================================================
