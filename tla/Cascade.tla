------------------------------ MODULE Cascade ------------------------------
(***************************************************************************)
(* A cascade (ron_cascade_t): the output of the outer PID loop is the      *)
(* setpoint of the inner one, within one step.  The application steps it,  *)
(* switches the mode of both loops, and may call ron_pid_set_limits on     *)
(* either loop, in any order; calls do not overlap.                        *)
(***************************************************************************)
EXTENDS PidOps

CONSTANTS
  OuterConfigs, InnerConfigs,   (* configurations passed to init           *)
  Setpoints, Measurements,      (* what a step is given                    *)
  Handoffs,                     (* manual values passed to set_mode        *)
  Periods,                      (* sample periods                          *)
  OuterLimits, InnerLimits,     (* <<u_min, u_max>> passed to set_limits   *)
  Stack,                        (* what uninitialised local variables hold *)
  SpLo, SpHi,                   (* the inner loop's range of setpoints     *)
  Lo, Hi                        (* the actuator's range                    *)

ASSUME CascadeAssumption ==
  /\ OuterConfigs \union InnerConfigs \subseteq Config
  /\ Setpoints \union Measurements \union Handoffs \union Periods \subseteq Float
  /\ OuterLimits \union InnerLimits \subseteq Float \X Float
  /\ Stack \subseteq [u: Float, status: SUBSET Status]
  /\ {SpLo, SpHi, Lo, Hi} \subseteq Int
  /\ 0 \in SpLo..SpHi /\ 0 \in Lo..Hi

(* The limits the application asks for lie within the two ranges. *)
ASSUME CascadeRangeAssumption ==
  /\ \A c \in OuterConfigs : ValidConfig(c) => SpLo <= c.u_min /\ c.u_max <= SpHi
  /\ \A c \in InnerConfigs : ValidConfig(c) => Lo <= c.u_min /\ c.u_max <= Hi
  /\ \A l \in OuterLimits : StrictRange(l[1], l[2]) => SpLo <= l[1] /\ l[2] <= SpHi
  /\ \A l \in InnerLimits : StrictRange(l[1], l[2]) => Lo <= l[1] /\ l[2] <= Hi

VARIABLES
  outer, inner,   (* the two instances                                     *)
  link,           (* the last u_outer handed to the inner loop             *)
  out,            (* the caller's u_out and the two halves of status       *)
  ret,            (* the fault returned by the last call                   *)
  stepped         (* the sample period, if that call was a step; else 0    *)

loops == <<outer, inner>>
vars == <<outer, inner, link, out, ret, stepped>>

IsInitialised(o, i) == o.is_initialised /\ i.is_initialised

(* For the setters of a loop, which have no output variables. *)
NoOutput == [u |-> 0, status |-> {}]
-----------------------------------------------------------------------------
(* Mutants: the correction does not wait for saturation, and it is written *)
(* to the integral without the clamp of ron_pid_set_integral.              *)
CrossAwAlways(o, u_outer, u_inner, inner_status, dt) ==
  IF /\ o.cfg.aw_mode = "BACK_CALC"
     /\ IsFinite(u_outer) /\ IsFinite(u_inner)
  THEN PidSetIntegral(o, NoOutput,
                      o.integral + Quot(dt * (u_inner - u_outer), o.cfg.T_aw)).pid
  ELSE o

CrossAwUnclamped(o, u_outer, u_inner, inner_status, dt) ==
  IF "SATURATED" \in inner_status /\ o.cfg.aw_mode = "BACK_CALC"
  THEN [o EXCEPT !.integral = @ + Quot(dt * (u_inner - u_outer), o.cfg.T_aw)]
  ELSE o

(* Cross-loop back-calculation; ron_pid_set_integral refuses a value that  *)
(* is not finite, as does any overflow on the way to it, and its refusal   *)
(* is ignored.                                                             *)
CrossAw(o, u_outer, u_inner, inner_status, dt) ==
  LET excess  == u_inner - u_outer
      delta_I == Quot(dt * excess, o.cfg.T_aw)
  IN  IF /\ "SATURATED" \in inner_status
         /\ o.cfg.aw_mode = "BACK_CALC"
         /\ IsFinite(u_outer) /\ IsFinite(u_inner) /\ AllFinite({excess, delta_I})
      THEN PidSetIntegral(o, NoOutput, o.integral + delta_I).pid
      ELSE o

(***************************************************************************)
(* What one step makes of the results of its two loops; "own" is the outer *)
(* loop before the correction.                                             *)
(***************************************************************************)
Combine(first, second, dt) ==
  [outer |-> CrossAw(first.pid, first.out.u, second.out.u, second.out.status, dt),
   own   |-> first.pid,
   inner |-> second.pid,
   link  |-> first.out.u,
   out   |-> [u |-> second.out.u, outer |-> first.out.status,
              inner |-> second.out.status],
   ret   |-> first.ret \union second.ret]

(* Mutant: the inner loop recovers from its fault by itself. *)
LoopsStepRecovering(o, i, r_out, y_out, y_in, dt, u_outer, u_inner) ==
  LET first   == PidStep(o, u_outer, r_out, y_out, dt)
      cleared == PidFaultClear(i, u_inner).pid
  IN  Combine(first, PidStep(cleared, u_inner, first.out.u, y_in, dt), dt)

(* An accepted step of loops o and i.  A loop whose own step is refused    *)
(* leaves the local variables passed to it as the stack left them.         *)
LoopsStep(o, i, r_out, y_out, y_in, dt, u_outer, u_inner) ==
  LET first == PidStep(o, u_outer, r_out, y_out, dt)
  IN  Combine(first, PidStep(i, u_inner, first.out.u, y_in, dt), dt)

(* Mutant: the handoff values are exchanged. *)
LoopsSetModeSwapped(o, i, mode, manual_inner, manual_outer) ==
  [outer |-> PidSetMode(o, NoOutput, mode, manual_inner).pid,
   inner |-> PidSetMode(i, NoOutput, mode, manual_outer).pid]

(* Both loops change mode and each takes its own handoff value. *)
LoopsSetMode(o, i, mode, manual_inner, manual_outer) ==
  [outer |-> PidSetMode(o, NoOutput, mode, manual_outer).pid,
   inner |-> PidSetMode(i, NoOutput, mode, manual_inner).pid]
-----------------------------------------------------------------------------
Init ==
  /\ outer = ZeroPid /\ inner = ZeroPid
  /\ link = 0
  /\ out = [u |-> 0, outer |-> {}, inner |-> {}]
  /\ ret = {}
  /\ stepped = 0

(* A call that is not a step, with the fault it returns. *)
Call(fault) == ret' = fault /\ stepped' = 0 /\ UNCHANGED <<link, out>>

Refuse == Call({"CONFIG_INVALID"}) /\ UNCHANGED loops

(* The outer loop is initialised before the inner configuration is looked  *)
(* at, and stays so when that one is refused.                              *)
Initialise ==
  \E o_cfg \in OuterConfigs, i_cfg \in InnerConfigs :
    LET first  == PidInit(outer, NoOutput, o_cfg)
        second == PidInit(inner, NoOutput, i_cfg)
    IN  IF first.ret # {} THEN Refuse
        ELSE outer' = first.pid /\ inner' = second.pid /\ Call(second.ret)

Step ==
  \E r_out \in Setpoints, y_out, y_in \in Measurements, dt \in Periods,
     u_outer, u_inner \in Stack :
    IF IsInitialised(outer, inner) /\ GoodDt(dt)
    THEN LET res == LoopsStep(outer, inner, r_out, y_out, y_in, dt, u_outer, u_inner)
         IN  /\ outer' = res.outer /\ inner' = res.inner
             /\ link' = res.link /\ out' = res.out
             /\ ret' = res.ret
             /\ stepped' = dt
    ELSE Refuse

SetMode ==
  \E mode \in OpMode, manual_inner, manual_outer \in Handoffs :
    IF IsInitialised(outer, inner) /\ IsFinite(manual_inner) /\ IsFinite(manual_outer)
    THEN LET res == LoopsSetMode(outer, inner, mode, manual_inner, manual_outer)
         IN  outer' = res.outer /\ inner' = res.inner /\ Call({})
    ELSE Refuse

FaultClear ==
  IF IsInitialised(outer, inner)
  THEN /\ outer' = PidFaultClear(outer, NoOutput).pid
       /\ inner' = PidFaultClear(inner, NoOutput).pid
       /\ Call({})
  ELSE Refuse

Reset ==
  IF IsInitialised(outer, inner)
  THEN /\ outer' = PidReset(outer, NoOutput).pid
       /\ inner' = PidReset(inner, NoOutput).pid
       /\ Call({})
  ELSE Refuse

(* ron_pid_set_limits on one loop, which the application owns as well.     *)
SetOuterLimits ==
  \E l \in OuterLimits :
    LET res == PidSetLimits(outer, NoOutput, l[1], l[2])
    IN  outer' = res.pid /\ UNCHANGED inner /\ Call(res.ret)

SetInnerLimits ==
  \E l \in InnerLimits :
    LET res == PidSetLimits(inner, NoOutput, l[1], l[2])
    IN  inner' = res.pid /\ UNCHANGED outer /\ Call(res.ret)

Next ==
  \/ Initialise \/ Step \/ SetMode \/ FaultClear \/ Reset
  \/ SetOuterLimits \/ SetInnerLimits

Spec == Init /\ [][Next]_vars
-----------------------------------------------------------------------------
TypeOK ==
  /\ outer \in PidInstance /\ inner \in PidInstance
  /\ link \in Float
  /\ out \in [u: Float, outer: SUBSET Status, inner: SUBSET Status]
  /\ ret \in SUBSET Fault
  /\ stepped \in Nat

(***************************************************************************)
(* The inner loop's saturation, pushed back step after step, never drives  *)
(* the outer integral out of its range (RON-TC-CASC-004-FV), whatever the  *)
(* fault, mode and limits of either loop.  Validation does not ask that    *)
(* the range contain 0, and 0 is what init and reset start from.           *)
(***************************************************************************)
OuterIntegralBounded ==
  \/ outer.integral = 0
  \/ outer.integral \in outer.cfg.I_min..outer.cfg.I_max

(***************************************************************************)
(* Coordinated transfer is bumpless (RON-FR-404): from manual operation of *)
(* both loops, handed their own outputs, the first automatic step at the   *)
(* operating point (the outer error zero, the inner measurement at the     *)
(* outer output) repeats the actuator's value, for PI loops whose integral *)
(* ranges hold the handoff values.  A step that reports a fault is none:   *)
(* an integral past I_overflow_thresh, for one, trips on that very step.   *)
(***************************************************************************)
Transferable(p) ==
  /\ p.is_initialised /\ p.mode = "MANUAL" /\ p.fault_code = {}
  /\ PlainPi(p.cfg)
  /\ p.u_sat_prev \in p.cfg.I_min..p.cfg.I_max
  /\ p.u_sat_prev \in p.cfg.u_min..p.cfg.u_max

CascadeBumpless ==
  Transferable(outer) /\ Transferable(inner) =>
    \A r \in Setpoints \ {NaN}, dt \in Periods, garbage \in Stack :
      LET auto == LoopsSetMode(outer, inner, "AUTOMATIC",
                               inner.u_sat_prev, outer.u_sat_prev)
          res  == LoopsStep(auto.outer, auto.inner, r, r, outer.u_sat_prev, dt,
                            garbage, garbage)
      IN  GoodDt(dt) /\ res.ret = {} =>
            res.link = outer.u_sat_prev /\ res.out.u = inner.u_sat_prev

(***************************************************************************)
(* With both loops in manual mode neither integral moves (RON-FR-042): not *)
(* even the correction from a saturation that preceded the switch, and     *)
(* whatever faults a step meets.                                           *)
(***************************************************************************)
ManualFreezesBothLoops ==
  [][stepped' > 0 /\ outer.mode = "MANUAL" /\ inner.mode = "MANUAL"
     => outer'.integral = outer.integral /\ inner'.integral = inner.integral]_vars

(***************************************************************************)
(* Each loop implements the fault latch: a fault of one neither latches in *)
(* the other nor lets it leave its range, so the inner setpoint is always  *)
(* one the outer limits allow (RON-FR-402).  An initialisation that fails  *)
(* halfway clears one loop's latch and not the other's.                    *)
(***************************************************************************)
OuterLatch == INSTANCE FaultLatch WITH
  Faults <- Detected, Values <- SpLo..SpHi, latched <- outer.fault_code, u <- link

InnerLatch == INSTANCE FaultLatch WITH
  Faults <- Detected, Values <- Lo..Hi, latched <- inner.fault_code, u <- out.u

LoopsImplementLatch == OuterLatch!Spec /\ InnerLatch!Spec
=============================================================================
