--------------------------- MODULE CascadeProofs ---------------------------
(***************************************************************************)
(* Theorems about the cascade, for every pair of configurations, input and *)
(* range the assumptions of Cascade admit.                                 *)
(*                                                                         *)
(* The inductive invariant is Inv: both loops are Sound, each in its own   *)
(* range, and Settled.  What the loops hand on lies in the two ranges only *)
(* if neither refuses its step, that is if no configuration asks for       *)
(* external feed-forward, which ron_cascade_step cannot supply: the        *)
(* theorems that need it say so, and InRanges is invariant under it.       *)
(***************************************************************************)
EXTENDS Cascade, RonLemmas

Inv ==
  /\ Sound(outer, SpLo, SpHi) /\ Settled(outer)
  /\ Sound(inner, Lo, Hi) /\ Settled(inner)
  /\ link \in Float
  /\ out \in [u: Float, outer: SUBSET Status, inner: SUBSET Status]
  /\ ret \in SUBSET Fault
  /\ stepped \in Nat

NoExternalFeedforward ==
  \A c \in OuterConfigs \union InnerConfigs : c.feedforward.mode # "EXTERNAL"

Internal(p) == p.cfg.feedforward.mode # "EXTERNAL"

InRanges ==
  /\ Internal(outer) /\ link \in SpLo..SpHi
  /\ Internal(inner) /\ out.u \in Lo..Hi

(* What an action may do to the two fault registers. *)
LatchesHold ==
  /\ KeepsLatch(outer, outer') \/ (outer'.fault_code = {} /\ link' = link)
  /\ KeepsLatch(inner, inner') \/ (inner'.fault_code = {} /\ out'.u = out.u)

(* What is proved of every action. *)
Outcome == Inv' /\ (NoExternalFeedforward /\ InRanges => InRanges' /\ LatchesHold)

(* What a call on one loop leaves of it. *)
LoopKept(p, q, lo, hi) ==
  /\ Sound(q, lo, hi) /\ Settled(q)
  /\ KeepsLatch(p, q) \/ q.fault_code = {}
-----------------------------------------------------------------------------
(* The two ranges, as the operation lemmas need them. *)
LEMMA Ranges ==
  /\ SpLo \in Int /\ SpHi \in Int /\ SpLo <= 0 /\ 0 <= SpHi
  /\ Lo \in Int /\ Hi \in Int /\ Lo <= 0 /\ 0 <= Hi
<1>1. SpLo \in Int /\ SpHi \in Int /\ Lo \in Int /\ Hi \in Int
  BY CascadeAssumption
<1>2. 0 \in SpLo..SpHi /\ 0 \in Lo..Hi
  BY CascadeAssumption
<1>3. QED
  BY <1>1, <1>2

(* A good call that leaves its loop settled. *)
LEMMA GoodCallKept ==
  ASSUME NEW p, NEW o, NEW res, NEW lo, NEW hi, Good(p, o, res, lo, hi), Settled(res.pid)
  PROVE  LoopKept(p, res.pid, lo, hi)
  BY DEF Good, GoodLatch, LoopKept

(* No call at all. *)
LEMMA NoCallKept ==
  ASSUME NEW p, NEW lo, NEW hi, Sound(p, lo, hi), Settled(p) PROVE LoopKept(p, p, lo, hi)
  BY DEF LoopKept, KeepsLatch

(* A call that is not a step, made of one call on each loop. *)
LEMMA CallOutcome ==
  ASSUME Inv, NEW fault \in SUBSET Fault, Call(fault),
         LoopKept(outer, outer', SpLo, SpHi), LoopKept(inner, inner', Lo, Hi),
         NoExternalFeedforward /\ InRanges => Internal(outer') /\ Internal(inner')
  PROVE  Outcome
<1>1. ret' = fault /\ stepped' = 0 /\ link' = link /\ out' = out
  BY DEF Call
<1>2. Inv'
  <2>1. link' \in Float /\ out' \in [u: Float, outer: SUBSET Status, inner: SUBSET Status]
    BY <1>1 DEF Inv
  <2>2. Sound(outer, SpLo, SpHi)' /\ Settled(outer)' /\ Sound(inner, Lo, Hi)' /\ Settled(inner)'
    BY DEF LoopKept
  <2>3. QED
    BY <1>1, <2>1, <2>2 DEF Inv
<1>3. NoExternalFeedforward /\ InRanges => InRanges'
  BY <1>1 DEF InRanges
<1>4. LatchesHold
  BY <1>1 DEF LatchesHold, LoopKept
<1>5. QED
  BY <1>2, <1>3, <1>4 DEF Outcome

(* A refused call. *)
LEMMA RefuseOutcome == ASSUME Inv, Refuse PROVE Outcome
<1>1. {"CONFIG_INVALID"} \in SUBSET Fault /\ Call({"CONFIG_INVALID"})
  BY DEF Fault, Refuse
<1>2. outer' = outer /\ inner' = inner
  BY DEF Refuse, loops
<1>3. LoopKept(outer, outer', SpLo, SpHi) /\ LoopKept(inner, inner', Lo, Hi)
  BY <1>2, NoCallKept DEF Inv
<1>4. InRanges => Internal(outer') /\ Internal(inner')
  BY <1>2 DEF InRanges
<1>5. QED
  BY <1>1, <1>3, <1>4, CallOutcome
-----------------------------------------------------------------------------
(* ron_cascade_init: the inner configuration may be refused after the      *)
(* outer loop was initialised.                                             *)
LEMMA InitialiseOutcome == ASSUME Inv, Initialise PROVE Outcome
<1> USE Ranges
<1>1. PICK o_cfg \in OuterConfigs, i_cfg \in InnerConfigs :
        LET first  == PidInit(outer, NoOutput, o_cfg)
            second == PidInit(inner, NoOutput, i_cfg)
        IN  IF first.ret # {} THEN Refuse
            ELSE outer' = first.pid /\ inner' = second.pid /\ Call(second.ret)
  BY DEF Initialise
<1> DEFINE first  == PidInit(outer, NoOutput, o_cfg)
           second == PidInit(inner, NoOutput, i_cfg)
<1>2. /\ Sound(outer, SpLo, SpHi) /\ Settled(outer) /\ outer \in PidInstance
      /\ Sound(inner, Lo, Hi) /\ Settled(inner) /\ inner \in PidInstance
  BY DEF Inv, Sound
<1>3. /\ o_cfg \in Config /\ (ValidConfig(o_cfg) => SpLo <= o_cfg.u_min /\ o_cfg.u_max <= SpHi)
      /\ i_cfg \in Config /\ (ValidConfig(i_cfg) => Lo <= i_cfg.u_min /\ i_cfg.u_max <= Hi)
  BY CascadeAssumption, CascadeRangeAssumption
<1>4. /\ Good(outer, NoOutput, first, SpLo, SpHi)
      /\ Good(inner, NoOutput, second, Lo, Hi)
  BY <1>2, <1>3, InitGood
<1>5. /\ Settled(first.pid)
      /\ first.pid = outer \/ first.pid.cfg = o_cfg
      /\ Settled(second.pid)
      /\ second.pid = inner \/ second.pid.cfg = i_cfg
  BY <1>2, InitSettles DEF Rejected
<1> HIDE DEF first, second
<1>6. CASE first.ret # {}
  BY <1>1, <1>6, RefuseOutcome DEF first
<1>7. CASE first.ret = {}
  <2>1. outer' = first.pid /\ inner' = second.pid /\ Call(second.ret)
    BY <1>1, <1>7 DEF first, second
  <2>2. second.ret \in SUBSET Fault
    BY <1>4 DEF Good
  <2>3. LoopKept(outer, outer', SpLo, SpHi) /\ LoopKept(inner, inner', Lo, Hi)
    BY <1>4, <1>5, <2>1, GoodCallKept
  <2>4. NoExternalFeedforward /\ InRanges => Internal(outer') /\ Internal(inner')
    BY <1>5, <2>1 DEF NoExternalFeedforward, InRanges, Internal
  <2>5. QED
    BY <2>1, <2>2, <2>3, <2>4, CallOutcome
<1>8. QED
  BY <1>6, <1>7

(* A call that makes the same good call on both loops. *)
LEMMA BothOutcome ==
  ASSUME Inv, NEW first, NEW second,
         Good(outer, NoOutput, first, SpLo, SpHi), StaysSettled(outer, first.pid),
         Good(inner, NoOutput, second, Lo, Hi), StaysSettled(inner, second.pid),
         outer' = first.pid, inner' = second.pid, NEW fault \in SUBSET Fault, Call(fault)
  PROVE  Outcome
<1>1. LoopKept(outer, outer', SpLo, SpHi) /\ LoopKept(inner, inner', Lo, Hi)
  BY GoodCallKept DEF StaysSettled
<1>2. InRanges => Internal(outer') /\ Internal(inner')
  BY DEF InRanges, Internal, StaysSettled
<1>3. QED
  BY <1>1, <1>2, CallOutcome

(* ron_cascade_set_mode, _fault_clear and _reset. *)
LEMMA BothLoopsOutcome == ASSUME Inv, SetMode \/ FaultClear \/ Reset PROVE Outcome
<1> USE Ranges
<1>1. /\ Sound(outer, SpLo, SpHi) /\ Settled(outer)
      /\ Sound(inner, Lo, Hi) /\ Settled(inner)
  BY DEF Inv
<1>2. {} \in SUBSET Fault
  OBVIOUS
<1>3. CASE SetMode
  <2>1. PICK mode \in OpMode, manual_inner \in Handoffs, manual_outer \in Handoffs :
          \/ Refuse
          \/ /\ outer' = PidSetMode(outer, NoOutput, mode, manual_outer).pid
             /\ inner' = PidSetMode(inner, NoOutput, mode, manual_inner).pid
             /\ Call({})
    BY <1>3 DEF SetMode, LoopsSetMode
  <2>2. /\ Good(outer, NoOutput, PidSetMode(outer, NoOutput, mode, manual_outer), SpLo, SpHi)
        /\ Good(inner, NoOutput, PidSetMode(inner, NoOutput, mode, manual_inner), Lo, Hi)
    BY <1>1, SetModeGood
  <2>3. /\ StaysSettled(outer, PidSetMode(outer, NoOutput, mode, manual_outer).pid)
        /\ StaysSettled(inner, PidSetMode(inner, NoOutput, mode, manual_inner).pid)
    BY <1>1, CallsSettle
  <2>4. QED
    BY <1>2, <2>1, <2>2, <2>3, RefuseOutcome, BothOutcome
<1>4. CASE FaultClear
  <2>1. /\ Good(outer, NoOutput, PidFaultClear(outer, NoOutput), SpLo, SpHi)
        /\ Good(inner, NoOutput, PidFaultClear(inner, NoOutput), Lo, Hi)
    BY <1>1, FaultClearGood
  <2>2. /\ StaysSettled(outer, PidFaultClear(outer, NoOutput).pid)
        /\ StaysSettled(inner, PidFaultClear(inner, NoOutput).pid)
    BY <1>1, CallsSettle
  <2>3. QED
    BY <1>2, <1>4, <2>1, <2>2, RefuseOutcome, BothOutcome DEF FaultClear
<1>5. CASE Reset
  <2>1. /\ Good(outer, NoOutput, PidReset(outer, NoOutput), SpLo, SpHi)
        /\ Good(inner, NoOutput, PidReset(inner, NoOutput), Lo, Hi)
    BY <1>1, ResetGood
  <2>2. /\ StaysSettled(outer, PidReset(outer, NoOutput).pid)
        /\ StaysSettled(inner, PidReset(inner, NoOutput).pid)
    BY <1>1, CallsSettle
  <2>3. QED
    BY <1>2, <1>5, <2>1, <2>2, RefuseOutcome, BothOutcome DEF Reset
<1>6. QED
  BY <1>3, <1>4, <1>5

(* ron_pid_set_limits on one of the loops. *)
LEMMA SetLimitsOutcome == ASSUME Inv, SetOuterLimits \/ SetInnerLimits PROVE Outcome
<1> USE Ranges
<1>1. /\ Sound(outer, SpLo, SpHi) /\ Settled(outer)
      /\ Sound(inner, Lo, Hi) /\ Settled(inner)
  BY DEF Inv
<1>2. CASE SetOuterLimits
  <2>1. PICK l \in OuterLimits :
          LET res == PidSetLimits(outer, NoOutput, l[1], l[2])
          IN  outer' = res.pid /\ UNCHANGED inner /\ Call(res.ret)
    BY <1>2 DEF SetOuterLimits
  <2> DEFINE res == PidSetLimits(outer, NoOutput, l[1], l[2])
  <2>2. /\ l[1] \in Float /\ l[2] \in Float
        /\ StrictRange(l[1], l[2]) => SpLo <= l[1] /\ l[2] <= SpHi
    BY CascadeAssumption, CascadeRangeAssumption
  <2>3. Good(outer, NoOutput, res, SpLo, SpHi) /\ StaysSettled(outer, res.pid)
    BY <1>1, <2>2, SetLimitsGood, CallsSettle
  <2>4. outer' = res.pid /\ inner' = inner /\ Call(res.ret)
    BY <2>1
  <2> HIDE DEF res
  <2>5. LoopKept(outer, outer', SpLo, SpHi) /\ LoopKept(inner, inner', Lo, Hi)
    BY <1>1, <2>3, <2>4, GoodCallKept, NoCallKept DEF StaysSettled
  <2>6. InRanges => Internal(outer') /\ Internal(inner')
    BY <2>3, <2>4 DEF InRanges, Internal, StaysSettled
  <2>7. res.ret \in SUBSET Fault
    BY <2>3 DEF Good
  <2>8. QED
    BY <2>4, <2>5, <2>6, <2>7, CallOutcome
<1>3. CASE SetInnerLimits
  <2>1. PICK l \in InnerLimits :
          LET res == PidSetLimits(inner, NoOutput, l[1], l[2])
          IN  inner' = res.pid /\ UNCHANGED outer /\ Call(res.ret)
    BY <1>3 DEF SetInnerLimits
  <2> DEFINE res == PidSetLimits(inner, NoOutput, l[1], l[2])
  <2>2. /\ l[1] \in Float /\ l[2] \in Float
        /\ StrictRange(l[1], l[2]) => Lo <= l[1] /\ l[2] <= Hi
    BY CascadeAssumption, CascadeRangeAssumption
  <2>3. Good(inner, NoOutput, res, Lo, Hi) /\ StaysSettled(inner, res.pid)
    BY <1>1, <2>2, SetLimitsGood, CallsSettle
  <2>4. inner' = res.pid /\ outer' = outer /\ Call(res.ret)
    BY <2>1
  <2> HIDE DEF res
  <2>5. LoopKept(outer, outer', SpLo, SpHi) /\ LoopKept(inner, inner', Lo, Hi)
    BY <1>1, <2>3, <2>4, GoodCallKept, NoCallKept DEF StaysSettled
  <2>6. InRanges => Internal(outer') /\ Internal(inner')
    BY <2>3, <2>4 DEF InRanges, Internal, StaysSettled
  <2>7. res.ret \in SUBSET Fault
    BY <2>3 DEF Good
  <2>8. QED
    BY <2>4, <2>5, <2>6, <2>7, CallOutcome
<1>4. QED
  BY <1>2, <1>3
-----------------------------------------------------------------------------
(***************************************************************************)
(* One step of the cascade.                                                *)
(***************************************************************************)

(* The correction is a call of ron_pid_set_integral: it keeps the outer    *)
(* loop sound and settled, whatever it is given.                           *)
LEMMA CrossAwSettles ==
  ASSUME NEW o, Sound(o, SpLo, SpHi), Settled(o),
         NEW u_outer, NEW u_inner, NEW inner_status, NEW dt
  PROVE  LET q == CrossAw(o, u_outer, u_inner, inner_status, dt)
         IN  /\ Sound(q, SpLo, SpHi) /\ StaysSettled(o, q)
             /\ q.fault_code = o.fault_code
             /\ "SATURATED" \notin inner_status => q = o
<1> USE Ranges
<1>1. ASSUME NEW value
      PROVE  /\ Sound(PidSetIntegral(o, NoOutput, value).pid, SpLo, SpHi)
             /\ StaysSettled(o, PidSetIntegral(o, NoOutput, value).pid)
  BY SetIntegralGood, CallsSettle DEF Good
<1>2. ASSUME NEW value
      PROVE  PidSetIntegral(o, NoOutput, value).pid.fault_code = o.fault_code
  <2> DEFINE q == [o EXCEPT !.integral = Clamp(value, o.cfg.I_min, o.cfg.I_max)]
  <2>1. PidSetIntegral(o, NoOutput, value) \in {Rejected(o, NoOutput), Done(q, NoOutput)}
    BY DEF PidSetIntegral
  <2>2. q.fault_code = o.fault_code
    BY DEF Sound, PidInstance
  <2> HIDE DEF q
  <2>3. QED
    BY <2>1, <2>2 DEF Rejected, Done
<1>3. StaysSettled(o, o)
  BY DEF StaysSettled
<1>4. QED
  BY <1>1, <1>2, <1>3 DEF CrossAw

(* What a loop's own step yields, refused or not. *)
StepResult(p, res, lo, hi) ==
  /\ Sound(res.pid, lo, hi) /\ StaysSettled(p, res.pid)
  /\ res.out \in [u: Float, status: SUBSET Status]
  /\ res.ret \in SUBSET Fault
  /\ Internal(p) => /\ res.out.u \in lo..hi /\ KeepsLatch(p, res.pid)
                    /\ p.mode = "MANUAL" => /\ res.pid.integral = p.integral
                                            /\ "SATURATED" \notin res.out.status

(* What one loop of a step returns. *)
LEMMA LoopStepResult ==
  ASSUME NEW lo \in Int, NEW hi \in Int, lo <= 0, 0 <= hi,
         NEW p, NEW local \in Stack, Sound(p, lo, hi), Settled(p), p.is_initialised,
         NEW r, NEW y, NEW dt, GoodDt(dt)
  PROVE  StepResult(p, PidStep(p, local, r, y, dt), lo, hi)
<1> DEFINE res == PidStep(p, local, r, y, dt)
<1>1. /\ res = Rejected(p, local) \/ Accepted(p, local, res, dt, lo, hi)
      /\ Internal(p) => Accepted(p, local, res, dt, lo, hi)
  BY StepAccepted DEF Internal
<1>2. local \in [u: Float, status: SUBSET Status]
  BY CascadeAssumption
<1> HIDE DEF res
<1>3. StaysSettled(p, res.pid)
  BY <1>1, StepSettles
<1>4. CASE Accepted(p, local, res, dt, lo, hi)
  <2>1. Sound(res.pid, lo, hi) /\ res.ret \in SUBSET Fault
    BY <1>4 DEF Accepted, Good
  <2>2. res.out \in [u: Float, status: SUBSET Status] /\ res.out.u \in lo..hi
    BY <1>4 DEF Accepted, GoodOutput, Output, Float
  <2>3. KeepsLatch(p, res.pid) /\ Continues(p, res.pid) /\ res.out.status = res.pid.status
    BY <1>4 DEF Accepted
  <2>4. p.mode = "MANUAL" => /\ res.pid.integral = p.integral
                             /\ "SATURATED" \notin res.out.status
    BY <2>3 DEF Continues, Settled
  <2>5. QED
    BY <1>3, <2>1, <2>2, <2>3, <2>4 DEF StepResult, res
<1>5. CASE ~Accepted(p, local, res, dt, lo, hi)
  <2>1. res.pid = p /\ res.out = local /\ res.ret = {"CONFIG_INVALID"}
    BY <1>1, <1>5 DEF Rejected
  <2>2. ~Internal(p)
    BY <1>1, <1>5
  <2>3. QED
    BY <1>2, <1>3, <2>1, <2>2 DEF StepResult, Fault, res
<1>6. QED
  BY <1>4, <1>5

(* An accepted step, taken apart: the results of the two loops and what    *)
(* Combine makes of them.                                                  *)
LEMMA StepParts ==
  ASSUME Inv, Step
  PROVE  \/ Refuse
         \/ \E first, second, dt :
              /\ StepResult(outer, first, SpLo, SpHi)
              /\ StepResult(inner, second, Lo, Hi)
              /\ outer' = CrossAw(first.pid, first.out.u, second.out.u,
                                  second.out.status, dt)
              /\ inner' = second.pid
              /\ link' = first.out.u
              /\ out' = [u |-> second.out.u, outer |-> first.out.status,
                         inner |-> second.out.status]
              /\ ret' = first.ret \union second.ret
              /\ stepped' = dt /\ dt \in Nat
<1> USE Ranges
<1>1. PICK r_out \in Setpoints, y_out \in Measurements, y_in \in Measurements,
           dt \in Periods, u_outer \in Stack, u_inner \in Stack :
        IF IsInitialised(outer, inner) /\ GoodDt(dt)
        THEN LET res == LoopsStep(outer, inner, r_out, y_out, y_in, dt, u_outer, u_inner)
             IN  /\ outer' = res.outer /\ inner' = res.inner
                 /\ link' = res.link /\ out' = res.out
                 /\ ret' = res.ret
                 /\ stepped' = dt
        ELSE Refuse
  BY DEF Step
<1>2. CASE IsInitialised(outer, inner) /\ GoodDt(dt)
  <2> DEFINE first  == PidStep(outer, u_outer, r_out, y_out, dt)
             second == PidStep(inner, u_inner, first.out.u, y_in, dt)
             res    == Combine(first, second, dt)
  <2>1. StepResult(outer, first, SpLo, SpHi)
    BY <1>2, LoopStepResult DEF Inv, IsInitialised
  <2>2. StepResult(inner, second, Lo, Hi)
    BY <1>2, LoopStepResult DEF Inv, IsInitialised
  <2>3. /\ outer' = res.outer /\ inner' = res.inner /\ link' = res.link /\ out' = res.out
        /\ ret' = res.ret /\ stepped' = dt
    BY <1>1, <1>2 DEF LoopsStep
  <2>4. dt \in Nat
    BY <1>2, GoodDtIsInt
  <2> HIDE DEF first, second
  <2>5. QED
    BY <2>1, <2>2, <2>3, <2>4 DEF Combine
<1>3. CASE ~(IsInitialised(outer, inner) /\ GoodDt(dt))
  BY <1>1, <1>3
<1>4. QED
  BY <1>2, <1>3

(* ron_cascade_step. *)
LEMMA StepOutcome == ASSUME Inv, Step PROVE Outcome
<1>1. CASE Refuse
  BY <1>1, RefuseOutcome
<1>2. CASE ~Refuse
  <2>1. PICK first, second, dt :
          /\ StepResult(outer, first, SpLo, SpHi)
          /\ StepResult(inner, second, Lo, Hi)
          /\ outer' = CrossAw(first.pid, first.out.u, second.out.u,
                              second.out.status, dt)
          /\ inner' = second.pid
          /\ link' = first.out.u
          /\ out' = [u |-> second.out.u, outer |-> first.out.status,
                     inner |-> second.out.status]
          /\ ret' = first.ret \union second.ret
          /\ stepped' = dt /\ dt \in Nat
    BY <1>2, StepParts
  <2>2. /\ Sound(outer', SpLo, SpHi) /\ StaysSettled(first.pid, outer')
        /\ outer'.fault_code = first.pid.fault_code
    <3>1. Sound(first.pid, SpLo, SpHi) /\ Settled(first.pid)
      BY <2>1 DEF StepResult, StaysSettled
    <3>2. QED
      BY <2>1, <3>1, CrossAwSettles
  <2>3. Inv'
    <3>1. Settled(outer') /\ Sound(inner', Lo, Hi) /\ Settled(inner')
      BY <2>1, <2>2 DEF StepResult, StaysSettled
    <3>2. link' \in Float /\ out' \in [u: Float, outer: SUBSET Status, inner: SUBSET Status]
      BY <2>1 DEF StepResult
    <3>3. ret' \in SUBSET Fault /\ stepped' \in Nat
      BY <2>1 DEF StepResult
    <3>4. QED
      BY <2>2, <3>1, <3>2, <3>3 DEF Inv, Sound, Settled
  <2>4. InRanges => InRanges'
    BY <2>1, <2>2 DEF InRanges, StepResult, StaysSettled, Internal
  <2>5. InRanges => LatchesHold
    BY <2>1, <2>2 DEF InRanges, StepResult, LatchesHold, KeepsLatch
  <2>6. QED
    BY <2>3, <2>4, <2>5 DEF Outcome
<1>3. QED
  BY <1>1, <1>2
-----------------------------------------------------------------------------
(***************************************************************************)
(* The specification.                                                      *)
(***************************************************************************)

(* Every action has the outcome. *)
LEMMA NextOutcome == ASSUME Inv, Next PROVE Outcome
  BY InitialiseOutcome, StepOutcome, BothLoopsOutcome, SetLimitsOutcome DEF Next

(* The initial state. *)
LEMMA InitInv == Init => Inv /\ InRanges
<1> SUFFICES ASSUME Init PROVE Inv /\ InRanges
  OBVIOUS
<1>1. /\ outer = ZeroPid /\ inner = ZeroPid /\ link = 0
      /\ out = [u |-> 0, outer |-> {}, inner |-> {}] /\ ret = {} /\ stepped = 0
  BY DEF Init
<1>2. Sound(ZeroPid, SpLo, SpHi) /\ Sound(ZeroPid, Lo, Hi)
  BY ZeroPidSound, Ranges
<1>3. Settled(ZeroPid) /\ Internal(ZeroPid)
  BY DEF Settled, Internal, ZeroPid, ZeroConfig
<1>4. QED
  BY <1>1, <1>2, <1>3, Ranges DEF Inv, InRanges, Float

(* The invariant is inductive. *)
LEMMA NextInv == Inv /\ [Next]_vars => Inv'
<1> SUFFICES ASSUME Inv, [Next]_vars PROVE Inv'
  OBVIOUS
<1>1. CASE Next
  BY <1>1, NextOutcome DEF Outcome
<1>2. CASE UNCHANGED vars
  BY <1>2 DEF Inv, vars
<1>3. QED
  BY <1>1, <1>2

(* The invariant holds in every reachable state. *)
THEOREM Invariance == Spec => []Inv
<1>1. QED
  BY InitInv, NextInv, PTL DEF Spec

(* TypeOK: both instances, the link between them and the caller's outputs  *)
(* keep their types, whatever the local variables of a step held.          *)
THEOREM TypeCorrectness == Spec => []TypeOK
<1>1. Inv => TypeOK
  BY DEF Inv, Sound, TypeOK
<1>2. QED
  BY <1>1, Invariance, PTL

(* OuterIntegralBounded: no sequence of corrections, faults, mode and      *)
(* limit changes drives the outer integral out of its range.               *)
THEOREM OuterIntegralSafety == Spec => []OuterIntegralBounded
<1>1. Inv => OuterIntegralBounded
  BY DEF Inv, Settled, OuterIntegralBounded
<1>2. QED
  BY <1>1, Invariance, PTL

(* Without external feed-forward both loops write what they hand on. *)
THEOREM RangeInvariance ==
  ASSUME NoExternalFeedforward
  PROVE  Spec => []InRanges
<1>1. Inv /\ InRanges /\ [Next]_vars => InRanges'
  <2> SUFFICES ASSUME Inv, InRanges, [Next]_vars PROVE InRanges'
    OBVIOUS
  <2>1. CASE Next
    BY <2>1, NextOutcome DEF Outcome
  <2>2. CASE UNCHANGED vars
    BY <2>2 DEF InRanges, Internal, vars
  <2>3. QED
    BY <2>1, <2>2
<1>2. QED
  BY <1>1, InitInv, Invariance, PTL DEF Spec

(* LoopsImplementLatch: each loop implements the fault latch in its own    *)
(* range; the inner setpoint is always a value the outer limits allow.     *)
THEOREM LatchRefinement ==
  ASSUME NoExternalFeedforward
  PROVE  Spec => LoopsImplementLatch
<1>1. Init => OuterLatch!Init /\ InnerLatch!Init
  BY CascadeAssumption DEF Init, OuterLatch!Init, InnerLatch!Init, ZeroPid
<1>2. Inv /\ InRanges /\ [Next]_vars
        => /\ [OuterLatch!Next]_<<outer.fault_code, link>>
           /\ [InnerLatch!Next]_<<inner.fault_code, out.u>>
  <2> SUFFICES ASSUME Inv, InRanges, [Next]_vars
               PROVE  /\ [OuterLatch!Next]_<<outer.fault_code, link>>
                      /\ [InnerLatch!Next]_<<inner.fault_code, out.u>>
    OBVIOUS
  <2>1. CASE Next
    <3>1. LatchesHold /\ InRanges'
      BY <2>1, NextOutcome DEF Outcome
    <3>2. [OuterLatch!Next]_<<outer.fault_code, link>>
      BY <3>1 DEF LatchesHold, InRanges, KeepsLatch, OuterLatch!Next, OuterLatch!Compute,
                  OuterLatch!Trip, OuterLatch!Hold, OuterLatch!Clear
    <3>3. [InnerLatch!Next]_<<inner.fault_code, out.u>>
      BY <3>1 DEF LatchesHold, InRanges, KeepsLatch, InnerLatch!Next, InnerLatch!Compute,
                  InnerLatch!Trip, InnerLatch!Hold, InnerLatch!Clear
    <3>4. QED
      BY <3>2, <3>3
  <2>2. CASE UNCHANGED vars
    BY <2>2 DEF vars
  <2>3. QED
    BY <2>1, <2>2
<1>3. QED
  BY <1>1, <1>2, Invariance, RangeInvariance, PTL
  DEF Spec, LoopsImplementLatch, OuterLatch!Spec, InnerLatch!Spec

(* ManualFreezesBothLoops: no step moves an integral while both loops are  *)
(* in manual mode, whatever saturation preceded the switch.                *)
THEOREM ManualFreezes ==
  ASSUME NoExternalFeedforward
  PROVE  Spec => ManualFreezesBothLoops
<1>1. Inv /\ InRanges /\ [Next]_vars =>
        [stepped' > 0 /\ outer.mode = "MANUAL" /\ inner.mode = "MANUAL"
           => outer'.integral = outer.integral /\ inner'.integral = inner.integral]_vars
  <2> SUFFICES ASSUME Inv, InRanges, Next, stepped' > 0,
                      outer.mode = "MANUAL", inner.mode = "MANUAL"
               PROVE  outer'.integral = outer.integral /\ inner'.integral = inner.integral
    OBVIOUS
  <2>1. Step
    BY DEF Next, Initialise, SetMode, FaultClear, Reset, SetOuterLimits, SetInnerLimits,
           Refuse, Call
  <2>2. ~Refuse
    BY DEF Refuse, Call
  <2>3. PICK first, second, dt :
          /\ StepResult(outer, first, SpLo, SpHi)
          /\ StepResult(inner, second, Lo, Hi)
          /\ outer' = CrossAw(first.pid, first.out.u, second.out.u,
                              second.out.status, dt)
          /\ inner' = second.pid
    BY <2>1, <2>2, StepParts
  <2>4. /\ first.pid.integral = outer.integral
        /\ second.pid.integral = inner.integral
        /\ "SATURATED" \notin second.out.status
    BY <2>3 DEF StepResult, InRanges
  <2>5. Sound(first.pid, SpLo, SpHi) /\ Settled(first.pid)
    BY <2>3 DEF StepResult, StaysSettled
  <2>6. outer' = first.pid
    BY <2>3, <2>4, <2>5, CrossAwSettles
  <2>7. QED
    BY <2>3, <2>4, <2>6
<1>2. QED
  BY <1>1, Invariance, RangeInvariance, PTL DEF Spec, ManualFreezesBothLoops

(* CascadeBumpless: from manual operation of both loops, handed their own  *)
(* outputs, the first automatic step repeats the actuator's value.         *)
THEOREM Bumpless == Spec => []CascadeBumpless
<1>1. Inv => CascadeBumpless
  <2> SUFFICES ASSUME Inv, Transferable(outer), Transferable(inner),
                      NEW r \in Setpoints \ {NaN}, NEW dt \in Periods,
                      NEW garbage \in Stack, GoodDt(dt),
                      LoopsStep(LoopsSetMode(outer, inner, "AUTOMATIC", inner.u_sat_prev,
                                             outer.u_sat_prev).outer,
                                LoopsSetMode(outer, inner, "AUTOMATIC", inner.u_sat_prev,
                                             outer.u_sat_prev).inner,
                                r, r, outer.u_sat_prev, dt, garbage, garbage).ret = {}
               PROVE  LET auto == LoopsSetMode(outer, inner, "AUTOMATIC",
                                               inner.u_sat_prev, outer.u_sat_prev)
                          res  == LoopsStep(auto.outer, auto.inner, r, r,
                                            outer.u_sat_prev, dt, garbage, garbage)
                      IN  res.link = outer.u_sat_prev /\ res.out.u = inner.u_sat_prev
    BY DEF CascadeBumpless
  <2> USE Ranges
  <2> DEFINE o == PidSetMode(outer, NoOutput, "AUTOMATIC", outer.u_sat_prev).pid
             i == PidSetMode(inner, NoOutput, "AUTOMATIC", inner.u_sat_prev).pid
             first  == PidStep(o, garbage, r, r, dt)
             second == PidStep(i, garbage, first.out.u, outer.u_sat_prev, dt)
             res    == Combine(first, second, dt)
  <2>1. Sound(o, SpLo, SpHi) /\ AtHandoff(o, outer.u_sat_prev)
    BY TransferAtHandoff DEF Inv, Transferable
  <2>2. Sound(i, Lo, Hi) /\ AtHandoff(i, inner.u_sat_prev)
    BY TransferAtHandoff DEF Inv, Transferable
  <2>3. res.ret = {} /\ res.ret = first.ret \union second.ret
    BY DEF LoopsStep, LoopsSetMode, Combine
  <2>4. first.ret = {} /\ second.ret = {}
    BY <2>3
  <2> HIDE DEF o, i
  <2>5. first.out.u = outer.u_sat_prev
    BY <2>1, <2>4, StepAtHandoff
  <2>6. second.out.u = inner.u_sat_prev
    BY <2>2, <2>4, <2>5, StepAtHandoff
  <2>7. QED
    BY <2>5, <2>6 DEF LoopsStep, LoopsSetMode, Combine, o, i
<1>2. QED
  BY <1>1, Invariance, PTL
=============================================================================
