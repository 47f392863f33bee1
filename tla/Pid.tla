-------------------------------- MODULE Pid --------------------------------
(***************************************************************************)
(* One PID controller and the application that calls it: a periodic task   *)
(* that steps it and an operator or supervisor that reconfigures it, in    *)
(* any order.  Calls on one instance do not overlap (the caller owns the   *)
(* instance from one context), so each call is one action.                 *)
(***************************************************************************)
EXTENDS PidOps

CONSTANTS
  Configs,       (* configurations passed to init                          *)
  NewConfigs,    (* configurations passed to set_config                    *)
  Inputs,        (* setpoints, measurements, integral and manual values    *)
  Periods,       (* sample periods                                         *)
  GainSets,      (* <<Kp, Ki, Kd>> passed to set_gains                     *)
  LimitPairs,    (* <<u_min, u_max>> passed to set_limits                  *)
  FilterCoeffs,  (* N passed to set_filter                                 *)
  AwSettings,    (* <<aw_mode, T_aw>> passed to set_antiwindup             *)
  Feedforwards,  (* configurations passed to set_feedforward               *)
  Lo, Hi         (* the actuator's physical range                          *)

(* What the application does: the records have the fields of the C         *)
(* structures, and the limits it asks for lie within the actuator's range, *)
(* which contains the rest position 0.                                     *)
ASSUME PidAssumption ==
  /\ Configs \union NewConfigs \subseteq Config
  /\ Inputs \subseteq Float /\ Periods \subseteq Float
  /\ GainSets \subseteq Float \X Float \X Float
  /\ LimitPairs \subseteq Float \X Float
  /\ FilterCoeffs \subseteq Float
  /\ AwSettings \subseteq (AwMode \union {IllegalEnum}) \X Float
  /\ Feedforwards \subseteq Feedforward
  /\ Lo \in Int /\ Hi \in Int /\ Lo <= 0 /\ 0 <= Hi

ASSUME ActuatorAssumption ==
  /\ \A c \in Configs \union NewConfigs : ValidConfig(c) => Lo <= c.u_min /\ c.u_max <= Hi
  /\ \A l \in LimitPairs :
       StrictRange(l[1], l[2]) => Lo <= l[1] /\ l[2] <= Hi

VARIABLES
  pid,        (* the instance                                              *)
  out,        (* the caller's u_out and status: what the actuator gets     *)
  ret,        (* the fault returned by the last call                       *)
  notified,   (* the bits the fault callback received during that call     *)
  stepped,    (* the sample period, if that call was a step; 0 otherwise   *)
  followed    (* whether the actuator must still hold the last output of   *)
              (* the control law: see Following                            *)

vars == <<pid, out, ret, notified, stepped, followed>>

(* How far a value lies outside the limits of a configuration. *)
Excess(c, u) == IF u < c.u_min THEN c.u_min - u
                ELSE IF u > c.u_max THEN u - c.u_max ELSE 0

Effect(result) ==
  /\ pid' = result.pid
  /\ out' = result.out
  /\ ret' = result.ret
  /\ notified' = result.notified

Refused(result) == result.ret = {"CONFIG_INVALID"}

(* A call that leaves the output history alone, and one that replaces it.  *)
Configure(result) == Effect(result) /\ stepped' = 0 /\ UNCHANGED followed

Restart(result) ==
  /\ Effect(result)
  /\ stepped' = 0
  /\ followed' = (followed /\ Refused(result))

(***************************************************************************)
(* The actuator holds the control law's last output after every step that  *)
(* reports no fault, and goes on holding it while a fault is latched under *)
(* HOLD_LAST, as long as the limits in force admit that output.            *)
(***************************************************************************)
Following(result) ==
  \/ result.ret = {}
  \/ followed /\ Refused(result)
  \/ followed /\ pid.cfg.safe_policy = "HOLD_LAST" /\ Excess(pid.cfg, out.u) = 0

Sample(result, dt) ==
  /\ Effect(result)
  /\ stepped' = IF GoodDt(dt) THEN dt ELSE 0
  /\ followed' = Following(result)
-----------------------------------------------------------------------------
Init ==
  /\ pid = ZeroPid
  /\ out = [u |-> 0, status |-> {}]
  /\ ret = {}
  /\ notified = {}
  /\ stepped = 0
  /\ followed = FALSE

Initialise == \E cfg \in Configs : Restart(PidInit(pid, out, cfg))

Reset == Restart(PidReset(pid, out))

Step ==
  \E r, y \in Inputs, dt \in Periods : Sample(PidStep(pid, out, r, y, dt), dt)

StepFeedforward ==
  \E r, y, external_ff \in Inputs, dt \in Periods :
    Sample(PidStepFeedforward(pid, out, r, y, dt, external_ff), dt)

SetConfig == \E cfg \in NewConfigs : Configure(PidSetConfig(pid, out, cfg))

SetGains == \E g \in GainSets : Configure(PidSetGains(pid, out, g[1], g[2], g[3]))

SetLimits == \E l \in LimitPairs : Configure(PidSetLimits(pid, out, l[1], l[2]))

SetFilter == \E N \in FilterCoeffs : Configure(PidSetFilter(pid, out, N))

SetAntiwindup ==
  \E a \in AwSettings : Configure(PidSetAntiwindup(pid, out, a[1], a[2]))

SetFeedforward == \E f \in Feedforwards : Configure(PidSetFeedforward(pid, out, f))

SetMode ==
  \E mode \in OpMode, manual_out \in Inputs :
    Restart(PidSetMode(pid, out, mode, manual_out))

SetIntegral == \E value \in Inputs : Configure(PidSetIntegral(pid, out, value))

FaultClear == Configure(PidFaultClear(pid, out))

Next ==
  \/ Initialise \/ Reset
  \/ Step \/ StepFeedforward
  \/ SetConfig \/ SetGains \/ SetLimits \/ SetFilter \/ SetAntiwindup
  \/ SetFeedforward
  \/ SetMode \/ SetIntegral \/ FaultClear

Spec == Init /\ [][Next]_vars
-----------------------------------------------------------------------------
(***************************************************************************)
(* Types.  PidInstance says more than the kinds of the fields: what a step *)
(* commits, a call stores or a fault leaves behind is finite, every field  *)
(* but the two remembered errors; and so is what the actuator receives.    *)
(***************************************************************************)
TypeOK ==
  /\ pid \in PidInstance
  /\ out \in Output
  /\ ret \in SUBSET Fault
  /\ notified \in SUBSET Fault
  /\ stepped \in Nat
  /\ followed \in BOOLEAN

(***************************************************************************)
(* The configuration a controller runs with is valid as a whole, however   *)
(* the setters that replace one part of it are interleaved (RON-FR-053).   *)
(***************************************************************************)
ConfigInForceValid == pid.is_initialised => ValidConfig(pid.cfg)

(***************************************************************************)
(* Whatever limits were tightened, faults latched, modes switched and      *)
(* histories zeroed before, the actuator never receives a value outside    *)
(* its range: the rate limiter and HOLD_LAST start from an earlier output, *)
(* which belonged to limits that may no longer be in force.                *)
(***************************************************************************)
OutputInActuatorRange == out.u \in Lo..Hi

(***************************************************************************)
(* The first automatic output after manual operation equals the manual     *)
(* output (RON-FR-041) at zero error, for a plain PI law whose integral    *)
(* range holds the handoff value.  Each premise is needed: the derivative, *)
(* the trapezoidal rule, the setpoint filter and the feed-forward all use  *)
(* history that manual steps do not refresh.                               *)
(***************************************************************************)
FirstAutomatic(r, y, dt) ==
  LET handoff == PidSetMode(pid, out, "AUTOMATIC", pid.u_sat_prev)
  IN  PidStep(handoff.pid, handoff.out, r, y, dt)

InManual == pid.is_initialised /\ pid.mode = "MANUAL" /\ pid.fault_code = {}

BumplessTransfer ==
  InManual /\ PlainPi(pid.cfg) =>
    \A r \in Inputs, dt \in Periods :
      /\ FirstAutomatic(r, r, dt).ret = {}
      /\ pid.u_sat_prev \in pid.cfg.I_min..pid.cfg.I_max
      /\ pid.u_sat_prev \in pid.cfg.u_min..pid.cfg.u_max
      => FirstAutomatic(r, r, dt).out.u = pid.u_sat_prev
-----------------------------------------------------------------------------
(* A step that ran the control law and committed its result. *)
Committed ==
  stepped' > 0 /\ ret' = {} /\ pid.mode = "AUTOMATIC"

(* A limiter with an allowance: a product that overflows limits nothing. *)
RateBounded(c, dt) == c.du_max > 0 /\ IsFinite(c.du_max * dt)

(***************************************************************************)
(* A call that is refused has no effect at all: no setter leaves part of a *)
(* rejected configuration behind and no refused step touches the outputs.  *)
(***************************************************************************)
RejectionIsAtomic ==
  [][ret' = {"CONFIG_INVALID"} => UNCHANGED <<pid, out>>]_vars

(***************************************************************************)
(* A registered fault callback hears of a fault exactly when it becomes    *)
(* latched, never again for a bit that already is (ron_fault_cb_t).        *)
(***************************************************************************)
CallbackOncePerLatch ==
  [][notified' = IF pid.cfg.fault_cb THEN pid'.fault_code \ pid.fault_code ELSE {}]_vars

(***************************************************************************)
(* Limits tightened at run time take effect: a committed step never moves  *)
(* the output further outside them, and moves it strictly inwards while it *)
(* is outside, although the rate limiter starts from the old output.       *)
(***************************************************************************)
LimitRecovery ==
  [][Committed =>
       \/ Excess(pid.cfg, out'.u) = 0
       \/ Excess(pid.cfg, out'.u) < Excess(pid.cfg, pid.u_sat_prev)]_vars

(***************************************************************************)
(* The actuator does not jump (RON-FR-025) while it follows the control    *)
(* law: across faults, safe outputs, their clearing, manual operation and  *)
(* every setter, its value changes in committed steps alone, and then by   *)
(* the rate limit at most.  init, reset, set_mode and a safe value of      *)
(* another policy end that: the next output is rate-limited from the       *)
(* history, which the actuator does not hold.                              *)
(***************************************************************************)
NoActuatorJump ==
  [][followed /\ followed' =>
       \/ UNCHANGED out.u
       \/ /\ Committed
          /\ RateBounded(pid.cfg, stepped') =>
               Abs(out'.u - out.u) <= pid.cfg.du_max * stepped']_vars

(***************************************************************************)
(* The status word explains the output: a committed output differs from    *)
(* the control law's value only under SATURATED or RATE_LIMITED, and an    *)
(* output reported as not rate-limited lies within the limits.             *)
(***************************************************************************)
StatusExplainsOutput ==
  [][Committed =>
       /\ out'.u # pid'.u_prev => out'.status \intersect {"SATURATED", "RATE_LIMITED"} # {}
       /\ "RATE_LIMITED" \notin out'.status => Excess(pid.cfg, out'.u) = 0
       /\ "SATURATED" \in out'.status <=> Excess(pid.cfg, pid'.u_prev) > 0]_vars

(***************************************************************************)
(* The controller implements the fault latch, with the faults a step can   *)
(* detect; a refused call returns CONFIG_INVALID and never latches it.     *)
(***************************************************************************)
Latch == INSTANCE FaultLatch WITH
  Faults <- Detected, Values <- Lo..Hi, latched <- pid.fault_code, u <- out.u

ImplementsFaultLatch == Latch!Spec
=============================================================================
