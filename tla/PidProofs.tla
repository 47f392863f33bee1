----------------------------- MODULE PidProofs -----------------------------
(***************************************************************************)
(* Theorems about the PID controller, for every configuration, input and   *)
(* actuator range the assumptions of Pid admit.                            *)
(*                                                                         *)
(* The inductive invariant is Inv: the instance is Sound and the caller's  *)
(* variables hold an output of the actuator's range.  RonLemmas shows      *)
(* that every operation takes a sound instance to a Good result and every  *)
(* step that is not refused to an Accepted one; every theorem at the end   *)
(* of the module follows from one of the two.  Its last conjunct says what *)
(* the ghost variable followed promises: the actuator holds the history    *)
(* from which the rate limiter starts.                                     *)
(***************************************************************************)
EXTENDS Pid, RonLemmas

Inv ==
  /\ Sound(pid, Lo, Hi)
  /\ GoodOutput(out, Lo, Hi)
  /\ ret \in SUBSET Fault
  /\ notified \in SUBSET Fault
  /\ stepped \in Nat
  /\ followed \in BOOLEAN
  /\ followed => out.u = pid.u_sat_prev

(* What the last call did, as a result. *)
Call == [pid |-> pid', out |-> out', ret |-> ret', notified |-> notified']

(* The actuator's range, as every operation lemma needs it. *)
LEMMA ActuatorRange == Lo \in Int /\ Hi \in Int /\ Lo <= 0 /\ 0 <= Hi
  BY PidAssumption

(* The initial state. *)
LEMMA InitInv == Init => Inv
<1> SUFFICES ASSUME Init PROVE Inv
  OBVIOUS
<1>1. /\ pid = ZeroPid /\ out = [u |-> 0, status |-> {}]
      /\ ret = {} /\ notified = {} /\ stepped = 0 /\ followed = FALSE
  BY DEF Init
<1>2. Sound(pid, Lo, Hi)
  BY <1>1, ZeroPidSound, ActuatorRange
<1>3. GoodOutput(out, Lo, Hi)
  BY <1>1, FiniteFacts, PidAssumption DEF GoodOutput, Output
<1>4. QED
  BY <1>1, <1>2, <1>3 DEF Inv

(* A call of a good operation is a good call. *)
LEMMA EffectGood ==
  ASSUME NEW res, Good(pid, out, res, Lo, Hi), Effect(res) PROVE Good(pid, out, Call, Lo, Hi)
  BY DEF Good, GoodLatch, KeepsLatch, Effect, Call

(* Every call of the application is good. *)
LEMMA NextGood ==
  ASSUME Inv, Next PROVE Good(pid, out, Call, Lo, Hi) /\ stepped' \in Nat
<1> USE EffectGood, ActuatorRange
<1>1. Sound(pid, Lo, Hi) /\ GoodOutput(out, Lo, Hi)
  BY DEF Inv
<1>2. ASSUME NEW res, Configure(res) \/ Restart(res), Good(pid, out, res, Lo, Hi)
      PROVE  Good(pid, out, Call, Lo, Hi) /\ stepped' \in Nat
  BY <1>2 DEF Configure, Restart
<1>3. CASE Initialise
  <2>1. PICK cfg \in Configs : Restart(PidInit(pid, out, cfg))
    BY <1>3 DEF Initialise
  <2>2. cfg \in Config /\ (ValidConfig(cfg) => Lo <= cfg.u_min /\ cfg.u_max <= Hi)
    BY PidAssumption, ActuatorAssumption
  <2>3. QED
    BY <1>1, <1>2, <2>1, <2>2, InitGood
<1>4. CASE Reset
  BY <1>1, <1>2, <1>4, ResetGood DEF Reset
<1>5. ASSUME NEW dt, stepped' = IF GoodDt(dt) THEN dt ELSE 0 PROVE stepped' \in Nat
  BY <1>5, GoodDtIsInt
<1>6. CASE Step
  BY <1>1, <1>5, <1>6, StepGood DEF Step, Sample
<1>7. CASE StepFeedforward
  BY <1>1, <1>5, <1>7, StepGood DEF StepFeedforward, Sample
<1>8. CASE SetConfig
  <2>1. PICK cfg \in NewConfigs : Configure(PidSetConfig(pid, out, cfg))
    BY <1>8 DEF SetConfig
  <2>2. cfg \in Config /\ (ValidConfig(cfg) => Lo <= cfg.u_min /\ cfg.u_max <= Hi)
    BY PidAssumption, ActuatorAssumption
  <2>3. QED
    BY <1>1, <1>2, <2>1, <2>2, SetConfigGood
<1>9. CASE SetGains
  <2>1. PICK g \in GainSets : Configure(PidSetGains(pid, out, g[1], g[2], g[3]))
    BY <1>9 DEF SetGains
  <2>2. g[1] \in Float /\ g[2] \in Float /\ g[3] \in Float
    BY PidAssumption
  <2>3. QED
    BY <1>1, <1>2, <2>1, <2>2, SettersGood
<1>10. CASE SetLimits
  <2>1. PICK l \in LimitPairs : Configure(PidSetLimits(pid, out, l[1], l[2]))
    BY <1>10 DEF SetLimits
  <2>2. /\ l[1] \in Float /\ l[2] \in Float
        /\ StrictRange(l[1], l[2]) => Lo <= l[1] /\ l[2] <= Hi
    BY PidAssumption, ActuatorAssumption
  <2>3. QED
    BY <1>1, <1>2, <2>1, <2>2, SetLimitsGood
<1>11. CASE SetFilter
  <2>1. FilterCoeffs \subseteq Float
    BY PidAssumption
  <2>2. QED
    BY <1>1, <1>2, <1>11, <2>1, SettersGood DEF SetFilter
<1>12. CASE SetAntiwindup
  <2>1. PICK a \in AwSettings : Configure(PidSetAntiwindup(pid, out, a[1], a[2]))
    BY <1>12 DEF SetAntiwindup
  <2>2. a[1] \in AwMode \union {IllegalEnum} /\ a[2] \in Float
    BY PidAssumption
  <2>3. QED
    BY <1>1, <1>2, <2>1, <2>2, SettersGood
<1>13. CASE SetFeedforward
  <2>1. Feedforwards \subseteq Feedforward
    BY PidAssumption
  <2>2. QED
    BY <1>1, <1>2, <1>13, <2>1, SetFeedforwardGood DEF SetFeedforward
<1>14. CASE SetMode
  BY <1>1, <1>2, <1>14, SetModeGood DEF SetMode
<1>15. CASE SetIntegral
  BY <1>1, <1>2, <1>15, SetIntegralGood DEF SetIntegral
<1>16. CASE FaultClear
  BY <1>1, <1>2, <1>16, FaultClearGood DEF FaultClear
<1>17. QED
  BY <1>3, <1>4, <1>6, <1>7, <1>8, <1>9, <1>10, <1>11, <1>12, <1>13, <1>14, <1>15, <1>16
  DEF Next

(* The setters and the clearing of a fault ...                             *)
SetterResult(p, o, res) ==
  \/ \E cfg : res = PidSetConfig(p, o, cfg)
  \/ \E f : res = PidSetFeedforward(p, o, f)
  \/ \E value : res = PidSetIntegral(p, o, value)
  \/ res = PidFaultClear(p, o)

(* ... leave the output history alone.                                     *)
LEMMA SettersKeepHistory ==
  ASSUME NEW p \in PidInstance, NEW o, NEW res, SetterResult(p, o, res)
  PROVE  res.out = o /\ res.pid.u_sat_prev = p.u_sat_prev
<1>1. CASE \E cfg : res = PidSetConfig(p, o, cfg)
  BY <1>1 DEF PidSetConfig, Done, Rejected, PidInstance
<1>2. CASE \E f : res = PidSetFeedforward(p, o, f)
  <2>1. PICK f : res = PidSetFeedforward(p, o, f)
    BY <1>2
  <2> DEFINE q == [p EXCEPT !.cfg.feedforward = f, !.ff_r_prev = 0, !.ff_v_prev = 0,
                            !.ff_a_prev = 0, !.u_ff_prev = 0,
                            !.status = @ \ {"FF_ACTIVE"}]
  <2>2. res \in {Rejected(p, o), Done(q, o)}
    BY <2>1 DEF PidSetFeedforward
  <2>3. q.u_sat_prev = p.u_sat_prev
    BY DEF PidInstance
  <2> HIDE DEF q
  <2>4. QED
    BY <2>2, <2>3 DEF Rejected, Done
<1>3. CASE \E value : res = PidSetIntegral(p, o, value)
  BY <1>3 DEF PidSetIntegral, Done, Rejected, PidInstance
<1>4. CASE res = PidFaultClear(p, o)
  BY <1>4 DEF PidFaultClear, Done, PidInstance
<1>5. QED
  BY <1>1, <1>2, <1>3, <1>4 DEF SetterResult

(* A call that runs no step leaves what the actuator holds and the history *)
(* alone, or ends the promise that the two agree.                          *)
Quiet ==
  /\ stepped' = 0
  /\ followed' => followed /\ UNCHANGED out /\ pid'.u_sat_prev = pid.u_sat_prev

(* A step is refused, or accepted.                                         *)
Stepping(dt) ==
  /\ stepped' = IF GoodDt(dt) THEN dt ELSE 0
  /\ followed' = Following(Call)
  /\ \/ ret' = {"CONFIG_INVALID"} /\ UNCHANGED <<pid, out>>
     \/ /\ Accepted(pid, out, Call, dt, Lo, Hi)
        /\ ret' = {} => GoodDt(dt)

(* There is no third kind of call. *)
LEMMA CallKinds == ASSUME Inv, Next PROVE Quiet \/ \E dt : Stepping(dt)
<1> USE ActuatorRange
<1>1. Sound(pid, Lo, Hi) /\ pid \in PidInstance
  BY DEF Inv, Sound
<1>2. Good(pid, out, Call, Lo, Hi)
  BY NextGood
<1>3. ASSUME NEW res, Restart(res) PROVE Quiet
  <2>1. followed' => ret' = {"CONFIG_INVALID"} /\ followed
    BY <1>3 DEF Restart, Effect, Refused
  <2>2. ret' = {"CONFIG_INVALID"} => UNCHANGED <<pid, out>>
    BY <1>2 DEF Good, Call
  <2>3. stepped' = 0
    BY <1>3 DEF Restart
  <2>4. QED
    BY <2>1, <2>2, <2>3 DEF Quiet
<1>4. ASSUME NEW res, Configure(res), SetterResult(pid, out, res) PROVE Quiet
  <2>1. res.out = out /\ res.pid.u_sat_prev = pid.u_sat_prev
    BY <1>1, <1>4, SettersKeepHistory
  <2>2. UNCHANGED out /\ pid'.u_sat_prev = pid.u_sat_prev /\ stepped' = 0
    BY <1>4, <2>1 DEF Configure, Effect
  <2>3. followed' = followed
    BY <1>4 DEF Configure
  <2>4. followed' => followed
    BY <2>3
  <2>5. QED
    BY <2>2, <2>4 DEF Quiet
<1>5. ASSUME NEW res, NEW dt, Sample(res, dt),
             res = Rejected(pid, out) \/ Accepted(pid, out, res, dt, Lo, Hi),
             res.ret = {} => GoodDt(dt)
      PROVE  Stepping(dt)
  <2>1. /\ Call.pid = res.pid /\ Call.out = res.out /\ Call.ret = res.ret
        /\ Call.notified = res.notified
    BY <1>5 DEF Sample, Effect, Call
  <2>2. Accepted(pid, out, res, dt, Lo, Hi) => Accepted(pid, out, Call, dt, Lo, Hi)
    BY <2>1 DEF Accepted, Good, GoodLatch, Commits, Follows
  <2>3. res = Rejected(pid, out) => ret' = {"CONFIG_INVALID"} /\ UNCHANGED <<pid, out>>
    BY <1>5 DEF Sample, Effect, Rejected
  <2>4. followed' = Following(Call) /\ stepped' = IF GoodDt(dt) THEN dt ELSE 0
    BY <1>5, <2>1 DEF Sample, Following, Refused
  <2>5. ret' = res.ret
    BY <1>5 DEF Sample, Effect
  <2>6. QED
    BY <1>5, <2>2, <2>3, <2>4, <2>5 DEF Stepping
<1>6. Initialise \/ Reset \/ SetMode => Quiet
  BY <1>3 DEF Initialise, Reset, SetMode
<1>7. SetConfig \/ SetGains \/ SetLimits \/ SetFilter \/ SetAntiwindup => Quiet
  BY <1>4 DEF SetConfig, SetGains, SetLimits, SetFilter, SetAntiwindup, SetterResult,
              PidSetGains, PidSetLimits, PidSetFilter, PidSetAntiwindup
<1>8. SetFeedforward \/ SetIntegral \/ FaultClear => Quiet
  BY <1>4 DEF SetFeedforward, SetIntegral, FaultClear, SetterResult
<1>9. CASE Step
  <2>1. PICK r \in Inputs, y \in Inputs, dt \in Periods : Sample(PidStep(pid, out, r, y, dt), dt)
    BY <1>9 DEF Step
  <2>2. \/ PidStep(pid, out, r, y, dt) = Rejected(pid, out)
        \/ Accepted(pid, out, PidStep(pid, out, r, y, dt), dt, Lo, Hi)
    BY <1>1, StepAccepted
  <2>3. PidStep(pid, out, r, y, dt).ret = {} => GoodDt(dt)
    BY DEF PidStep, Rejected, SafeStep
  <2>4. QED
    BY <1>5, <2>1, <2>2, <2>3
<1>10. CASE StepFeedforward
  <2>1. PICK r \in Inputs, y \in Inputs, external_ff \in Inputs, dt \in Periods :
          Sample(PidStepFeedforward(pid, out, r, y, dt, external_ff), dt)
    BY <1>10 DEF StepFeedforward
  <2>2. \/ PidStepFeedforward(pid, out, r, y, dt, external_ff) = Rejected(pid, out)
        \/ Accepted(pid, out, PidStepFeedforward(pid, out, r, y, dt, external_ff), dt,
                    Lo, Hi)
    BY <1>1, StepAccepted
  <2>3. PidStepFeedforward(pid, out, r, y, dt, external_ff).ret = {} => GoodDt(dt)
    BY DEF PidStepFeedforward, Rejected, SafeStep
  <2>4. QED
    BY <1>5, <2>1, <2>2, <2>3
<1>11. QED
  BY <1>6, <1>7, <1>8, <1>9, <1>10 DEF Next

(* A step with a fault that the actuator follows holds the last output.    *)
LEMMA FaultHolds ==
  ASSUME Inv, NEW dt, Stepping(dt), ret' # {}, followed'
  PROVE  followed /\ out'.u = out.u /\ pid'.u_sat_prev = pid.u_sat_prev
<1>1. CASE ret' = {"CONFIG_INVALID"}
  <2>1. UNCHANGED <<pid, out>>
    BY <1>1 DEF Stepping, Accepted, Call
  <2>2. QED
    BY <2>1 DEF Stepping, Following, Call
<1>2. CASE ret' # {"CONFIG_INVALID"}
  <2>1. /\ Accepted(pid, out, Call, dt, Lo, Hi)
        /\ followed /\ pid.cfg.safe_policy = "HOLD_LAST" /\ Excess(pid.cfg, out.u) = 0
    BY <1>2 DEF Stepping, Following, Refused, Call
  <2>2. /\ out.u = pid.u_sat_prev /\ Sound(pid, Lo, Hi)
        /\ out'.u = PidSafeOutput(pid) /\ pid'.u_sat_prev = pid.u_sat_prev
    BY <2>1 DEF Inv, Accepted, Follows, Call
  <2>3. pid.cfg \in Config /\ ValidConfig(pid.cfg)
    BY <2>1, <2>2 DEF Accepted, Sound, InForce, PidInstance
  <2>4. /\ pid.cfg.u_min \in Int /\ pid.cfg.u_max \in Int /\ pid.cfg.u_min <= pid.cfg.u_max
        /\ pid.u_sat_prev \in Int
    BY <2>2, <2>3, ValidConfigTypes DEF Sound, PidInstance, Finite
  <2>5. pid.cfg.u_min <= pid.u_sat_prev /\ pid.u_sat_prev <= pid.cfg.u_max
    BY <2>1, <2>2, <2>4 DEF Excess
  <2>6. PidSafeOutput(pid) = pid.u_sat_prev
    BY <2>1, <2>4, <2>5, ClampFixed DEF PidSafeOutput, SafeOutput
  <2>7. QED
    BY <2>1, <2>2, <2>6
<1>3. QED
  BY <1>1, <1>2

(* While it follows the control law the actuator holds the history. *)
LEMMA NextFollows ==
  ASSUME Inv, Next PROVE followed' \in BOOLEAN /\ (followed' => out'.u = pid'.u_sat_prev)
<1>1. CASE Quiet
  <2>1. followed' \in BOOLEAN
    BY DEF Inv, Next, Initialise, Reset, Step, StepFeedforward, SetConfig, SetGains,
           SetLimits, SetFilter, SetAntiwindup, SetFeedforward, SetMode, SetIntegral,
           FaultClear, Configure, Restart, Sample, Following, Refused
  <2>2. QED
    BY <1>1, <2>1 DEF Quiet, Inv
<1>2. ASSUME NEW dt, Stepping(dt) PROVE followed' => out'.u = pid'.u_sat_prev
  <2>1. CASE ret' = {}
    <3>1. Accepted(pid, out, Call, dt, Lo, Hi)
      BY <1>2, <2>1 DEF Stepping
    <3>2. QED
      BY <2>1, <3>1 DEF Accepted, Follows, Call
  <2>2. CASE ret' # {}
    BY <1>2, <2>2, FaultHolds DEF Inv
  <2>3. QED
    BY <2>1, <2>2
<1>3. ASSUME NEW dt, Stepping(dt) PROVE followed' \in BOOLEAN
  BY <1>3 DEF Stepping, Following, Inv
<1>4. QED
  BY <1>1, <1>2, <1>3, CallKinds

(* The invariant is inductive. *)
LEMMA NextInv == Inv /\ [Next]_vars => Inv'
<1> SUFFICES ASSUME Inv, [Next]_vars PROVE Inv'
  OBVIOUS
<1>1. CASE Next
  <2>1. Good(pid, out, Call, Lo, Hi) /\ stepped' \in Nat
    BY <1>1, NextGood
  <2>2. Sound(pid', Lo, Hi) /\ ret' \in SUBSET Fault /\ notified' \in SUBSET Fault
    BY <2>1 DEF Good, Call
  <2>3. GoodOutput(out', Lo, Hi)
    BY <2>1 DEF Good, Call, Inv
  <2>4. followed' \in BOOLEAN /\ (followed' => out'.u = pid'.u_sat_prev)
    BY <1>1, NextFollows
  <2>5. QED
    BY <2>1, <2>2, <2>3, <2>4 DEF Inv, Sound, GoodOutput
<1>2. CASE UNCHANGED vars
  BY <1>2 DEF Inv, vars
<1>3. QED
  BY <1>1, <1>2

(* The invariant holds in every reachable state. *)
THEOREM Invariance == Spec => []Inv
<1>1. QED
  BY InitInv, NextInv, PTL DEF Spec

(* TypeOK: every field keeps its type.  The memory a step computes with    *)
(* and the output are typed by the finite range, so no call stores a NaN   *)
(* or an infinity there; the two remembered errors are the exception.      *)
THEOREM TypeCorrectness == Spec => []TypeOK
<1>1. Inv => TypeOK
  BY DEF Inv, Sound, GoodOutput, TypeOK
<1>2. QED
  BY <1>1, Invariance, PTL

(* ConfigInForceValid: however the setters interleave, an initialised      *)
(* controller runs with a configuration that is valid as a whole.          *)
THEOREM ConfigurationSafety == Spec => []ConfigInForceValid
<1>1. Inv => ConfigInForceValid
  BY DEF Inv, Sound, InForce, ConfigInForceValid
<1>2. QED
  BY <1>1, Invariance, PTL

(* OutputInActuatorRange: the actuator never receives a value outside its  *)
(* range, whatever steps, faults and reconfigurations came before.         *)
THEOREM ActuatorSafety == Spec => []OutputInActuatorRange
<1>1. Inv => OutputInActuatorRange
  BY DEF Inv, GoodOutput, OutputInActuatorRange
<1>2. QED
  BY <1>1, Invariance, PTL

(* RejectionIsAtomic: a refused call changes neither the instance nor the  *)
(* outputs.                                                                *)
THEOREM AtomicRejection == Spec => RejectionIsAtomic
<1>1. Inv /\ [Next]_vars => [ret' = {"CONFIG_INVALID"} => UNCHANGED <<pid, out>>]_vars
  BY NextGood DEF Good, Call
<1>2. QED
  BY <1>1, Invariance, PTL DEF Spec, RejectionIsAtomic

(* CallbackOncePerLatch: the fault callback hears exactly of the bits the  *)
(* call latched.                                                           *)
THEOREM CallbackExactness == Spec => CallbackOncePerLatch
<1>1. Inv /\ [Next]_vars =>
        [notified' = IF pid.cfg.fault_cb THEN pid'.fault_code \ pid.fault_code
                     ELSE {}]_vars
  BY NextGood DEF Good, Call
<1>2. QED
  BY <1>1, Invariance, PTL DEF Spec, CallbackOncePerLatch

(* ImplementsFaultLatch: the controller with its whole API implements the  *)
(* abstract fault latch.                                                   *)
THEOREM FaultLatchRefinement == Spec => ImplementsFaultLatch
<1>1. Init => Latch!Init
  BY PidAssumption DEF Init, Latch!Init, ZeroPid
<1>2. Inv /\ [Next]_vars => [Latch!Next]_<<pid.fault_code, out.u>>
  <2> SUFFICES ASSUME Inv, [Next]_vars PROVE [Latch!Next]_<<pid.fault_code, out.u>>
    OBVIOUS
  <2>1. CASE Next
    <3>1. GoodLatch(pid, out, Call)
      BY <2>1, NextGood DEF Good
    <3>2. GoodOutput(out', Lo, Hi)
      BY <2>1, NextInv DEF Inv, GoodOutput
    <3>3. QED
      BY <3>1, <3>2 DEF GoodLatch, KeepsLatch, GoodOutput, Call, Latch!Next, Latch!Compute, Latch!Trip,
                  Latch!Hold, Latch!Clear
  <2>2. CASE UNCHANGED vars
    BY <2>2 DEF vars
  <2>3. QED
    BY <2>1, <2>2
<1>3. QED
  BY <1>1, <1>2, Invariance, PTL DEF Spec, ImplementsFaultLatch, Latch!Spec
-----------------------------------------------------------------------------
(***************************************************************************)
(* What a committed step does to the output.                               *)
(***************************************************************************)

(* Only the two step functions leave a sample period behind, and one that  *)
(* returns no fault was accepted.                                          *)
LEMMA StepCall ==
  ASSUME Inv, Next, stepped' > 0, ret' = {}
  PROVE  stepped' \in Int /\ Accepted(pid, out, Call, stepped', Lo, Hi)
<1>1. PICK dt : Stepping(dt)
  BY CallKinds DEF Quiet
<1>2. GoodDt(dt) /\ stepped' = dt /\ Accepted(pid, out, Call, dt, Lo, Hi)
  BY <1>1 DEF Stepping
<1>3. QED
  BY <1>2, GoodDtIsInt

(* A committed output: u_sat is the control law's value within the limits. *)
LEMMA CommittedOutput ==
  ASSUME Inv, Next, Committed
  PROVE  LET c     == pid.cfg
             u_raw == pid'.u_prev
             u_sat == Clamp(u_raw, c.u_min, c.u_max)
         IN  /\ stepped' \in Int /\ stepped' > 0
             /\ u_raw \in Int /\ pid.u_sat_prev \in Int /\ out'.u \in Int
             /\ c.u_min \in Int /\ c.u_max \in Int /\ c.u_min <= c.u_max
             /\ c.du_max \in Int
             /\ u_sat \in c.u_min..c.u_max
             /\ out'.u = RateLimit(u_sat, pid.u_sat_prev, c.du_max, stepped')
             /\ pid'.u_sat_prev = out'.u
             /\ "SATURATED" \in out'.status <=> u_sat # u_raw
             /\ "RATE_LIMITED" \in out'.status
                  <=> RateLimited(u_sat, pid.u_sat_prev, c.du_max, stepped')
<1>1. stepped' \in Int /\ stepped' > 0 /\ Accepted(pid, out, Call, stepped', Lo, Hi)
  BY StepCall DEF Committed
<1>2. Commits(pid, Call, stepped')
  BY <1>1 DEF Accepted, Committed, Call
<1>3. Sound(pid, Lo, Hi) /\ Sound(pid', Lo, Hi)
  BY NextInv DEF Inv
<1>4. /\ pid'.u_prev \in Int /\ pid.u_sat_prev \in Int /\ pid'.u_sat_prev \in Int
      /\ out'.u = pid'.u_sat_prev
  BY <1>2, <1>3 DEF Sound, PidInstance, Finite, Commits, Call
<1>5. pid.is_initialised
  BY <1>1 DEF Accepted
<1>6. pid.cfg \in Config /\ ValidConfig(pid.cfg)
  BY <1>3, <1>5 DEF Sound, InForce, PidInstance
<1>7. /\ pid.cfg.u_min \in Int /\ pid.cfg.u_max \in Int /\ pid.cfg.u_min <= pid.cfg.u_max
      /\ pid.cfg.du_max \in Int
  BY <1>6, ValidConfigTypes
<1>8. Clamp(pid'.u_prev, pid.cfg.u_min, pid.cfg.u_max) \in pid.cfg.u_min..pid.cfg.u_max
  BY <1>4, <1>7, ClampInRange
<1>9. QED
  BY <1>1, <1>2, <1>4, <1>7, <1>8 DEF Commits, Call

(* NoActuatorJump: while the actuator follows the control law its value    *)
(* changes in committed steps only, by du_max * dt at most, whatever       *)
(* faults, safe outputs, clearings and reconfigurations lie between.       *)
THEOREM ActuatorSlew == Spec => NoActuatorJump
<1> DEFINE Jumpless ==
             followed /\ followed' =>
               \/ UNCHANGED out.u
               \/ /\ Committed
                  /\ RateBounded(pid.cfg, stepped') =>
                       Abs(out'.u - out.u) <= pid.cfg.du_max * stepped'
<1>1. Inv /\ [Next]_vars => [Jumpless]_vars
  <2> SUFFICES ASSUME Inv, Next, followed, followed' PROVE Jumpless
    OBVIOUS
  <2>1. out.u = pid.u_sat_prev /\ out'.u = pid'.u_sat_prev
    BY NextFollows DEF Inv
  <2>2. CASE Quiet
    BY <2>2 DEF Quiet
  <2>3. ASSUME NEW dt, Stepping(dt) PROVE Jumpless
    <3>1. CASE ret' # {}
      BY <2>3, <3>1, FaultHolds
    <3>2. CASE ret' = {} /\ pid.mode = "MANUAL"
      <4>1. Follows(pid, Call)
        BY <2>3, <3>2 DEF Stepping, Accepted
      <4>2. pid'.u_sat_prev = pid.u_sat_prev
        BY <3>2, <4>1 DEF Follows, Call
      <4>3. QED
        BY <2>1, <4>2
    <3>3. CASE ret' = {} /\ pid.mode # "MANUAL"
      <4>1. pid.mode = "AUTOMATIC"
        BY <3>3 DEF Inv, Sound, PidInstance, OpMode
      <4>2. Committed
        BY <2>3, <3>3, <4>1, GoodDtIsInt DEF Stepping, Committed
      <4> DEFINE c == pid.cfg
                 u_sat == Clamp(pid'.u_prev, c.u_min, c.u_max)
      <4>3. /\ stepped' \in Int /\ stepped' > 0 /\ pid.u_sat_prev \in Int /\ c.du_max \in Int
            /\ u_sat \in Int
            /\ out'.u = RateLimit(u_sat, pid.u_sat_prev, c.du_max, stepped')
        BY <4>2, CommittedOutput
      <4> HIDE DEF u_sat
      <4>4. RateBounded(c, stepped') => Abs(out'.u - pid.u_sat_prev) <= c.du_max * stepped'
        BY <4>3, RateLimitSlew DEF RateBounded
      <4>5. QED
        BY <2>1, <4>2, <4>4
    <3>4. QED
      BY <3>1, <3>2, <3>3
  <2>4. QED
    BY <2>2, <2>3, CallKinds
<1>2. QED
  BY <1>1, Invariance, PTL DEF Spec, NoActuatorJump

(* LimitRecovery: a committed step ends within the limits in force, or     *)
(* strictly closer to them than the last output was.                       *)
THEOREM LimitsRecover == Spec => LimitRecovery
<1>1. Inv /\ [Next]_vars =>
        [Committed =>
           \/ Excess(pid.cfg, out'.u) = 0
           \/ Excess(pid.cfg, out'.u) < Excess(pid.cfg, pid.u_sat_prev)]_vars
  <2> SUFFICES ASSUME Inv, Next, Committed
               PROVE  \/ Excess(pid.cfg, out'.u) = 0
                      \/ Excess(pid.cfg, out'.u) < Excess(pid.cfg, pid.u_sat_prev)
    OBVIOUS
  <2> DEFINE c == pid.cfg
             u_sat == Clamp(pid'.u_prev, c.u_min, c.u_max)
  <2>1. /\ stepped' \in Int /\ stepped' > 0 /\ pid.u_sat_prev \in Int /\ c.du_max \in Int
        /\ c.u_min \in Int /\ c.u_max \in Int /\ out'.u \in Int
        /\ u_sat \in Int /\ c.u_min <= u_sat /\ u_sat <= c.u_max
        /\ out'.u = RateLimit(u_sat, pid.u_sat_prev, c.du_max, stepped')
    BY CommittedOutput
  <2> HIDE DEF u_sat
  <2>2. CASE RateLimited(u_sat, pid.u_sat_prev, c.du_max, stepped')
    <3>1. \/ u_sat < out'.u /\ out'.u < pid.u_sat_prev
          \/ pid.u_sat_prev < out'.u /\ out'.u < u_sat
      BY <2>1, <2>2, RateLimitMoves
    <3>2. QED
      BY <2>1, <3>1 DEF Excess
  <2>3. CASE ~RateLimited(u_sat, pid.u_sat_prev, c.du_max, stepped')
    BY <2>1, <2>3 DEF RateLimit, Excess
  <2>4. QED
    BY <2>2, <2>3
<1>2. QED
  BY <1>1, Invariance, PTL DEF Spec, LimitRecovery

(* StatusExplainsOutput: an output that is not the control law's value is  *)
(* reported, and the report says which limit made the difference.          *)
THEOREM StatusExplains == Spec => StatusExplainsOutput
<1>1. Inv /\ [Next]_vars =>
        [Committed =>
           /\ out'.u # pid'.u_prev
                => out'.status \intersect {"SATURATED", "RATE_LIMITED"} # {}
           /\ "RATE_LIMITED" \notin out'.status => Excess(pid.cfg, out'.u) = 0
           /\ "SATURATED" \in out'.status <=> Excess(pid.cfg, pid'.u_prev) > 0]_vars
  <2> SUFFICES ASSUME Inv, Next, Committed
               PROVE  /\ out'.u # pid'.u_prev
                           => out'.status \intersect {"SATURATED", "RATE_LIMITED"} # {}
                      /\ "RATE_LIMITED" \notin out'.status => Excess(pid.cfg, out'.u) = 0
                      /\ "SATURATED" \in out'.status <=> Excess(pid.cfg, pid'.u_prev) > 0
    OBVIOUS
  <2> DEFINE c == pid.cfg
             u_raw == pid'.u_prev
             u_sat == Clamp(u_raw, c.u_min, c.u_max)
  <2>1. /\ u_raw \in Int
        /\ c.u_min \in Int /\ c.u_max \in Int /\ c.u_min <= c.u_max
        /\ u_sat \in c.u_min..c.u_max
        /\ out'.u = RateLimit(u_sat, pid.u_sat_prev, c.du_max, stepped')
        /\ "SATURATED" \in out'.status <=> u_sat # u_raw
        /\ "RATE_LIMITED" \in out'.status
             <=> RateLimited(u_sat, pid.u_sat_prev, c.du_max, stepped')
    BY CommittedOutput
  <2>2. u_sat = u_raw <=> c.u_min <= u_raw /\ u_raw <= c.u_max
    BY <2>1, ClampFixed
  <2> HIDE DEF u_sat
  <2>3. "RATE_LIMITED" \notin out'.status => out'.u = u_sat
    BY <2>1 DEF RateLimit
  <2>4. QED
    BY <2>1, <2>2, <2>3 DEF Excess
<1>2. QED
  BY <1>1, Invariance, PTL DEF Spec, StatusExplainsOutput
-----------------------------------------------------------------------------
(* BumplessTransfer: the first automatic output after manual operation is  *)
(* the manual output, for a plain PI law at zero error.                    *)
THEOREM Bumpless == Spec => []BumplessTransfer
<1>1. Inv => BumplessTransfer
  <2> SUFFICES ASSUME Inv, InManual, PlainPi(pid.cfg), NEW r \in Inputs, NEW dt \in Periods,
                      FirstAutomatic(r, r, dt).ret = {},
                      pid.u_sat_prev \in pid.cfg.I_min..pid.cfg.I_max,
                      pid.u_sat_prev \in pid.cfg.u_min..pid.cfg.u_max
               PROVE  FirstAutomatic(r, r, dt).out.u = pid.u_sat_prev
    BY DEF BumplessTransfer
  <2> DEFINE h == PidSetMode(pid, out, "AUTOMATIC", pid.u_sat_prev)
             res == PidStep(h.pid, h.out, r, r, dt)
  <2>1. Sound(pid, Lo, Hi)
    BY DEF Inv
  <2>2. Sound(h.pid, Lo, Hi) /\ AtHandoff(h.pid, pid.u_sat_prev)
    BY <2>1, ActuatorRange, TransferAtHandoff DEF InManual
  <2>3. res = FirstAutomatic(r, r, dt)
    BY DEF FirstAutomatic
  <2> HIDE DEF h
  <2>4. GoodDt(dt)
    <3>1. Rejected(h.pid, h.out).ret # {}
      BY DEF Rejected
    <3>2. ~GoodDt(dt) => res = Rejected(h.pid, h.out)
      BY <2>2 DEF AtHandoff, PidStep
    <3>3. QED
      BY <2>3, <3>1, <3>2
  <2>5. QED
    BY <2>2, <2>3, <2>4, ActuatorRange, StepAtHandoff
<1>2. QED
  BY <1>1, Invariance, PTL
=============================================================================
