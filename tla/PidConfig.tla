----------------------------- MODULE PidConfig -----------------------------
(***************************************************************************)
(* The configuration record of one PID controller (ron_pid_config_t) and   *)
(* its validation (ron_pid_config.c, ron_feedforward.c).                   *)
(***************************************************************************)
EXTENDS RonUtil

AwMode      == {"NONE", "BACK_CALC", "CLAMPING"}
IntegMethod == {"EULER", "TRAPEZOIDAL"}
DerivMode   == {"ON_ERROR", "ON_MEASUREMENT"}
FfMode      == {"DISABLED", "STATIC_GAIN", "VELOCITY", "ACCELERATION",
                "EXTERNAL"}

(* C enumerations carry any integer; every illegal one is this value. *)
IllegalEnum == "ILLEGAL"

Feedforward == [mode: FfMode \union {IllegalEnum}, gain: Float, N_ff: Float]

Config ==
  [Kp: Float, Ki: Float, Kd: Float, N: Float, b: Float, c: Float,
   u_min: Float, u_max: Float, du_max: Float, I_min: Float, I_max: Float,
   aw_mode: AwMode \union {IllegalEnum}, T_aw: Float,
   integ_method: IntegMethod \union {IllegalEnum},
   deriv_mode: DerivMode \union {IllegalEnum}, tau_sp: Float,
   normalise: BOOLEAN, in_min: Float, in_max: Float,
   out_min: Float, out_max: Float,
   safe_policy: SafePolicy \union {IllegalEnum}, safe_value: Float,
   I_overflow_thresh: Float, sp_reset_threshold: Float,
   feedforward: Feedforward, fault_cb: BOOLEAN]

(* The all-zero record an instance holds before it is initialised. *)
ZeroConfig ==
  [Kp |-> 0, Ki |-> 0, Kd |-> 0, N |-> 0, b |-> 0, c |-> 0,
   u_min |-> 0, u_max |-> 0, du_max |-> 0, I_min |-> 0, I_max |-> 0,
   aw_mode |-> "NONE", T_aw |-> 0, integ_method |-> "EULER",
   deriv_mode |-> "ON_ERROR", tau_sp |-> 0, normalise |-> FALSE,
   in_min |-> 0, in_max |-> 0, out_min |-> 0, out_max |-> 0,
   safe_policy |-> "HOLD_LAST", safe_value |-> 0, I_overflow_thresh |-> 0,
   sp_reset_threshold |-> 0,
   feedforward |-> [mode |-> "DISABLED", gain |-> 0, N_ff |-> 0],
   fault_cb |-> FALSE]
-----------------------------------------------------------------------------
NonNegative(x) == IsFinite(x) /\ x >= 0

Positive(x) == IsFinite(x) /\ x > 0

(* The grid holds the two ends of the unit interval only. *)
UnitInterval(x) == IsFinite(x) /\ x >= 0 /\ x <= 1

StrictRange(lo, hi) == IsFinite(lo) /\ IsFinite(hi) /\ lo < hi

ValidGains(c) ==
  NonNegative(c.Kp) /\ NonNegative(c.Ki) /\ NonNegative(c.Kd) /\ NonNegative(c.N)

ValidWeights(c) == UnitInterval(c.b) /\ UnitInterval(c.c)

ValidLimits(c) == StrictRange(c.u_min, c.u_max) /\ StrictRange(c.I_min, c.I_max)

ValidEnums(c) ==
  /\ c.aw_mode \in AwMode
  /\ c.integ_method \in IntegMethod
  /\ c.deriv_mode \in DerivMode
  /\ c.safe_policy \in SafePolicy

ValidNormalisation(c) ==
  c.normalise => StrictRange(c.in_min, c.in_max) /\ StrictRange(c.out_min, c.out_max)

ValidThresholds(c) ==
  /\ IsFinite(c.tau_sp) /\ IsFinite(c.du_max) /\ IsFinite(c.safe_value)
  /\ c.aw_mode = "BACK_CALC" => Positive(c.T_aw)
  /\ c.I_overflow_thresh = 0 \/ Positive(c.I_overflow_thresh)
  /\ c.sp_reset_threshold = 0 \/ Positive(c.sp_reset_threshold)

ValidFeedforward(f) == f.mode \in FfMode /\ IsFinite(f.gain) /\ NonNegative(f.N_ff)

(* ron_pid_config_validate *)
ValidConfig(c) ==
  /\ ValidGains(c) /\ ValidWeights(c) /\ ValidLimits(c) /\ ValidEnums(c)
  /\ ValidNormalisation(c) /\ ValidThresholds(c)
  /\ ValidFeedforward(c.feedforward)

(* A PI law without filters, scaling or feed-forward. *)
PlainPi(c) ==
  /\ c.Kd = 0 /\ c.N = 0 /\ c.b = 1 /\ c.tau_sp = 0 /\ ~c.normalise
  /\ c.integ_method = "EULER" /\ c.sp_reset_threshold = 0
  /\ c.feedforward.mode = "DISABLED"
=============================================================================
