---------------------------- MODULE StateFeedback ----------------------------
(***************************************************************************)
(* One state-feedback controller and its estimator: the state-space        *)
(* controller (ron_statespace.c), LQR (ron_lqr.c) or LQG (ron_lqg.c), with *)
(* the application that initialises, tunes, resets and clears it, and the  *)
(* periodic task that feeds the estimator and steps the controller.        *)
(***************************************************************************)
EXTENDS Riccati, FiniteSets, FiniteSetsExt

CONSTANTS
  Configs,        (* configurations passed to init, for each kind          *)
  GainPairs,      (* <<K, Kr>> passed to set_gains                         *)
  References,     (* setpoints                                             *)
  Measurements,   (* measurements, and values of an external estimate      *)
  Periods         (* sample periods                                        *)

(* The configuration structure, with any content; "INVALID" is a value     *)
(* outside an enumeration.  An LQG has no integral action.                 *)
ControllerConfigs ==
  [n : Nat, K : Float, Kr : Float, use_integral : BOOLEAN, Ki_aug : Float, C_out : Float,
   i_min : Float, i_max : Float, u_min : Float, u_max : Float, du_max : Float,
   safe_policy : SafePolicy \union {"INVALID"}, safe_value : Float,
   gain_mode : {"PRECOMPUTED", "DARE", "DARE_BOTH", "INVALID"},
   A : Float, B : Float, Q : Float, R : Float, max_iter : Nat, tol : Float,
   est : EstimatorConfigs]

ASSUME StateFeedbackAssumption ==
  /\ \A k \in {"SS", "LQR", "LQG"} : Configs[k] \subseteq ControllerConfigs
  /\ \A cfg \in Configs["LQG"] : ~cfg.use_integral
  /\ GainPairs \subseteq Float \X Float
  /\ References \union Measurements \union Periods \subseteq Float

VARIABLES
  kind,       (* "SS", "LQR" or "LQG": which controller this is            *)
  c,          (* the controller                                            *)
  est,        (* its estimator; an LQG uses the Kalman filter of it alone  *)
  external,   (* the caller's estimate, which an EXTERNAL source reads     *)
  u,          (* the value the actuator holds                              *)
  ret,        (* the fault the last step returned, "NONE" after others     *)
  mixed,      (* the last init failed after it had copied a configuration, *)
              (* a history                                                 *)
  resumed     (* a step has succeeded since the last init or reset, a      *)
              (* history                                                   *)

vars == <<kind, c, est, external, u, ret, mixed, resumed>>

FeedbackFault == {"INPUT_NAN", "OUTPUT_NAN", "CONFIG_INVALID", "NULL_POINTER"}
-----------------------------------------------------------------------------
(* Validation: what the controller checks itself, and leaves to others.    *)
LqrValidLimits(cfg) ==
  /\ FiniteAll({cfg.u_min, cfg.u_max, cfg.du_max, cfg.safe_value})
  /\ cfg.u_min < cfg.u_max
  /\ cfg.safe_policy \in SafePolicy

ValidIntegral(cfg) ==
  cfg.use_integral =>
    FiniteAll({cfg.Ki_aug, cfg.C_out, cfg.i_min, cfg.i_max}) /\ cfg.i_min <= cfg.i_max

ValidCost(cfg) == FiniteAll({cfg.Q, cfg.R, cfg.tol}) /\ cfg.tol > 0

ValidSs(cfg) ==
  /\ cfg.n \in 1..MaxStates
  /\ FiniteAll({cfg.K, cfg.Kr}) /\ LqrValidLimits(cfg) /\ ValidIntegral(cfg)
  /\ ValidEstimatorConfig(cfg.est, cfg.n)

ValidLqr(cfg) ==
  /\ cfg.n \in 1..MaxStates
  /\ ValidEstimatorConfig(cfg.est, cfg.n)
  /\ cfg.gain_mode \in {"PRECOMPUTED", "DARE"} /\ IsFinite(cfg.Kr)
  /\ IF cfg.gain_mode = "PRECOMPUTED" THEN IsFinite(cfg.K) ELSE ValidCost(cfg)
  /\ cfg.gain_mode = "DARE" \/ cfg.est.source # "EXTERNAL" => FiniteAll({cfg.A, cfg.B})
  /\ ValidIntegral(cfg) /\ LqrValidLimits(cfg)

(* The noise model is left to ron_kf_init, unless the gain is solved here. *)
ValidLqg(cfg) ==
  /\ cfg.n \in 1..MaxStates
  /\ cfg.gain_mode \in {"PRECOMPUTED", "DARE", "DARE_BOTH"}
  /\ FiniteAll({cfg.A, cfg.B, cfg.Kr})
  /\ IF cfg.gain_mode = "PRECOMPUTED" THEN IsFinite(cfg.K) ELSE ValidCost(cfg)
  /\ cfg.gain_mode = "DARE_BOTH" =>
       LET kf == cfg.est.kf_cfg IN FiniteAll({kf.H, kf.Q, kf.R})
  /\ LqrValidLimits(cfg)

LqrValidConfig(cfg) ==
  CASE kind = "SS" -> ValidSs(cfg) [] kind = "LQR" -> ValidLqr(cfg) [] kind = "LQG" -> ValidLqg(cfg)
-----------------------------------------------------------------------------
(* The control gain: given, or the solution of the control DARE. *)
ControlGain(cfg) ==
  IF kind = "SS" \/ cfg.gain_mode = "PRECOMPUTED" THEN [ok |-> TRUE, K |-> cfg.K, P |-> 0]
  ELSE DareSolve([A |-> cfg.A, B |-> cfg.B, Q |-> cfg.Q, R |-> cfg.R], cfg.max_iter, cfg.tol)

(* The filter an LQG runs: on its system matrices and its noise model.     *)
LqgKfConfig(cfg) ==
  [cfg.est.kf_cfg EXCEPT !.n = cfg.n, !.p = 1, !.A = cfg.A, !.B = cfg.B,
                         !.K_inf = IF cfg.est.kf_cfg.steady_state THEN @ ELSE 0]

(* The steady-state Kalman gain, from the DARE of the transposed system.   *)
KalmanGain(cfg) ==
  LET kf   == cfg.est.kf_cfg
      dual == DareSolve([A |-> cfg.A, B |-> kf.H, Q |-> kf.Q, R |-> kf.R], cfg.max_iter, cfg.tol)
      s    == InnovationCov(kf.H, dual.P, kf.R)
  IN  [ok |-> dual.ok /\ CholeskyAccepts(s), K |-> CholeskySolve(s, Times(kf.H, dual.P))]

LqgKalmanInit(e, cfg) ==
  LET gain == CHOOSE g \in {KalmanGain(cfg)} : TRUE
      res  == KfInit(e.kalman, IF cfg.gain_mode # "DARE_BOTH" THEN LqgKfConfig(cfg)
                               ELSE [LqgKfConfig(cfg) EXCEPT !.K_inf = gain.K, !.steady_state = TRUE])
  IN  IF cfg.gain_mode = "DARE_BOTH" /\ ~gain.ok THEN Result(e, "CONFIG_INVALID")
      ELSE Result([e EXCEPT !.kalman = res.inst], res.ret)

EmbeddedInit(e, cfg) ==
  IF kind = "LQG" THEN LqgKalmanInit(e, cfg) ELSE EstimatorInit(e, cfg.est)

(* Integral, output history and faults of a new or reset controller. *)
Seeded(ctl) == [ctl EXCEPT !.integral = 0, !.u_prev = 0, !.faults = {}]
-----------------------------------------------------------------------------
ZeroController ==
  [cfg |-> [n |-> 0, K |-> 0, Kr |-> 0, use_integral |-> FALSE, Ki_aug |-> 0, C_out |-> 0,
            i_min |-> 0, i_max |-> 0, u_min |-> 0, u_max |-> 0, du_max |-> 0,
            safe_policy |-> "HOLD_LAST", safe_value |-> 0, gain_mode |-> "PRECOMPUTED",
            A |-> 0, B |-> 0, Q |-> 0, R |-> 0, max_iter |-> 0, tol |-> 0,
            est |-> [source |-> "EXTERNAL", x_ext |-> FALSE, obs_cfg |-> ZeroObs.cfg,
                     kf_cfg |-> ZeroKf.cfg]],
   K_solved |-> 0, P_solved |-> 0, dare_converged |-> FALSE, integral |-> 0, u_prev |-> 0,
   faults |-> {}, is_initialised |-> FALSE]

Init ==
  /\ kind \in {"SS", "LQR", "LQG"}
  /\ c = ZeroController /\ est = ZeroEstimator
  /\ external = 0 /\ u = 0 /\ ret = "NONE" /\ mixed = FALSE /\ resumed = FALSE

(* A call of the application: the actuator keeps its value. *)
Call == ret' = "NONE" /\ UNCHANGED <<kind, external, u>>

(* Configuration, gain and estimator are put in place one after the other; *)
(* an init that fails keeps what is in place, and leaves the rest.         *)
Initialise ==
  \E cfg \in Configs[kind] :
    /\ LqrValidConfig(cfg)
    /\ Call
    /\ resumed' = FALSE
    /\ \E gain \in {ControlGain(cfg)}, res \in {EmbeddedInit(est, cfg)} :
         LET configured == [c EXCEPT !.cfg = cfg, !.dare_converged = kind = "LQR" /\ gain.ok
                                                        /\ cfg.gain_mode = "DARE"]
             tuned == [configured EXCEPT !.K_solved = gain.K, !.P_solved = gain.P]
         IN  IF ~gain.ok THEN c' = configured /\ mixed' = TRUE /\ UNCHANGED est
             ELSE /\ est' = res.inst
                  /\ mixed' = (res.ret # "NONE")
                  /\ c' = IF res.ret # "NONE" THEN tuned
                          ELSE [Seeded(tuned) EXCEPT !.is_initialised = TRUE]

Reset ==
  /\ c.is_initialised
  /\ Call
  /\ c' = Seeded(c)
  /\ est' = IF kind = "LQG" THEN [est EXCEPT !.kalman = KfReset(est.kalman)]
            ELSE EstimatorReset(est)
  /\ resumed' = FALSE
  /\ UNCHANGED mixed

(* Mutant: clearing a fault forgets the output history too. *)
FaultClearSeeding ==
  /\ c.is_initialised
  /\ Call
  /\ c' = Seeded(c)
  /\ UNCHANGED <<est, mixed, resumed>>

FaultClear ==
  /\ c.is_initialised
  /\ Call
  /\ c' = [c EXCEPT !.faults = {}]
  /\ UNCHANGED <<est, mixed, resumed>>

(* ron_ss_set_gains and ron_lqr_set_gains; an LQG has none.  K_solved is   *)
(* the gain in use, an SS keeps it in its configuration.                   *)
SetGains ==
  /\ kind # "LQG" /\ c.is_initialised
  /\ \E g \in GainPairs : FiniteAll({g[1], g[2]}) /\ c' = [c EXCEPT !.K_solved = g[1], !.cfg.Kr = g[2]]
  /\ Call
  /\ UNCHANGED <<est, mixed, resumed>>

(* The caller's task writes its own estimate. *)
WriteExternal ==
  /\ kind # "LQG"
  /\ external' \in Measurements
  /\ ret' = "NONE"
  /\ UNCHANGED <<kind, c, est, u, mixed, resumed>>
-----------------------------------------------------------------------------
(* The estimator is fed whether a fault is latched or not.                 *)
FeedObserver ==
  /\ kind # "LQG" /\ Selected(est, "LUENBERGER")
  /\ \E y \in Measurements : est' = [est EXCEPT !.observer = ObsStep(est.observer, y, u).inst]
  /\ Call
  /\ UNCHANGED <<c, mixed, resumed>>

Filtering == IF kind = "LQG" THEN est.kalman.is_initialised ELSE Selected(est, "KALMAN")

(* Predict with the value the actuator holds. *)
Predict ==
  /\ Filtering
  /\ est' = [est EXCEPT !.kalman = KfPredict(est.kalman, u).inst]
  /\ Call
  /\ UNCHANGED <<c, mixed, resumed>>

Update ==
  /\ Filtering
  /\ \E z \in Measurements : est' = [est EXCEPT !.kalman = KfUpdate(est.kalman, z).inst]
  /\ Call
  /\ UNCHANGED <<c, mixed, resumed>>
-----------------------------------------------------------------------------
StateEstimate == IF kind = "LQG" THEN est.kalman.x_hat ELSE Estimate(est, external)

StateFault ==
  IF kind = "LQG" THEN IF IsFinite(est.kalman.x_hat) THEN "NONE" ELSE "INPUT_NAN"
  ELSE EstimateFault(est, external)

(* The integral a step would store: clamped, also when the term to add is  *)
(* an infinity, but 0 times an infinity is not a number.                   *)
IntegralNext(r, dt) ==
  LET cx   == c.cfg.C_out * StateEstimate
      e    == r - cx
      ki   == c.cfg.Ki_aug * dt
      term == ki * e
      lo   == c.cfg.i_min
      hi   == c.cfg.i_max
  IN  IF ~c.cfg.use_integral THEN c.integral
      ELSE IF FiniteAll({cx, e, ki, term}) THEN Clamp(c.integral + term, lo, hi)
      ELSE IF term = 0 THEN NaN
      ELSE IF term > 0 THEN hi ELSE lo

(* -K x_hat + Kr r, and the integral. *)
RawOutput(r, dt) ==
  LET law == Minus(Times(c.cfg.Kr, r), Scaled(c.K_solved, StateEstimate, One))
  IN  IF c.cfg.use_integral THEN Plus(law, IntegralNext(r, dt)) ELSE law

(* A fault is added to the latched ones, and the safe value is output. *)
SsFailStep(codes) ==
  /\ c' = [c EXCEPT !.faults = @ \union codes]
  /\ u' = SafeOutput(c.cfg.safe_policy, c.u_prev, c.cfg.safe_value, c.cfg.u_min, c.cfg.u_max)
  /\ ret' = CHOOSE f \in c.faults \union codes : TRUE

(* Mutant: a computation that succeeds overrides a latched fault. *)
EvaluateUnlatched(r, dt) ==
  IF ~IsFinite(r) \/ ~GoodDt(dt) THEN {"INPUT_NAN"}
  ELSE IF StateFault # "NONE" THEN {StateFault}
  ELSE IF ~IsFinite(RawOutput(r, dt)) THEN {"OUTPUT_NAN"}
  ELSE {}

(* The faults of a step: those latched, or what its evaluation meets. *)
Evaluate(r, dt) ==
  IF c.faults # {} THEN c.faults
  ELSE IF ~IsFinite(r) \/ ~GoodDt(dt) THEN {"INPUT_NAN"}
  ELSE IF StateFault # "NONE" THEN {StateFault}
  ELSE IF ~IsFinite(RawOutput(r, dt)) THEN {"OUTPUT_NAN"}
  ELSE {}

(* Saturation, then the rate limit. *)
Limited(raw, dt) ==
  RateLimit(Clamp(raw, c.cfg.u_min, c.cfg.u_max), c.u_prev, c.cfg.du_max, dt)

CommitStep(r, dt) ==
  \E out \in {Limited(RawOutput(r, dt), dt)} :
    /\ c' = [c EXCEPT !.integral = IntegralNext(r, dt), !.u_prev = out]
    /\ u' = out
    /\ ret' = "NONE"

Step ==
  /\ c.is_initialised
  /\ \E r \in References, dt \in Periods :
       LET faults == Evaluate(r, dt)
       IN  IF faults # {} THEN SsFailStep(faults) ELSE CommitStep(r, dt)
  /\ resumed' = (resumed \/ ret' = "NONE")
  /\ UNCHANGED <<kind, est, external, mixed>>

Next ==
  \/ Initialise \/ Reset \/ FaultClear \/ SetGains \/ WriteExternal
  \/ FeedObserver \/ Predict \/ Update \/ Step

Spec == Init /\ [][Next]_vars
-----------------------------------------------------------------------------
(* Nothing non-finite is ever stored or output, however an estimate, a     *)
(* covariance or an output overflows; at most one fault is latched.        *)
TypeOK ==
  /\ kind \in {"SS", "LQR", "LQG"}
  /\ FiniteAll({u, c.u_prev, c.integral, c.K_solved, c.P_solved,
                est.observer.x_hat, est.kalman.x_hat, est.kalman.P})
  /\ c.faults \subseteq FeedbackFault /\ Cardinality(c.faults) <= 1
  /\ ret \in FeedbackFault \union {"NONE"}
  /\ c.is_initialised \in BOOLEAN /\ est.is_initialised \in BOOLEAN
  /\ mixed \in BOOLEAN /\ resumed \in BOOLEAN

(***************************************************************************)
(* RON-FR-701, RON-FR-734, RON-FR-752: a controller works on an estimate   *)
(* of its own design.  After a successful init its estimator is the one    *)
(* its configuration asks for.  After a failed one over a running          *)
(* controller only the state-space controller is safe: its estimator is    *)
(* then unusable, and every step fails.                                    *)
(***************************************************************************)
EstimateMatchesDesign ==
  c.is_initialised =>
    IF mixed THEN kind = "SS" => ~est.is_initialised
    ELSE IF kind = "LQG" THEN est.kalman.is_initialised /\ est.kalman.cfg.n = c.cfg.n
    ELSE /\ est.is_initialised /\ est.source = c.cfg.est.source
         /\ est.source = "LUENBERGER" => est.observer.cfg = c.cfg.est.obs_cfg
         /\ est.source = "KALMAN" => est.kalman.cfg = c.cfg.est.kf_cfg

(***************************************************************************)
(* RON-FR-604: on a noise model and an initial covariance that are not     *)
(* negative the covariance never becomes negative: in Joseph form with any *)
(* gain, fixed or the filter's own, and in the simple form with the        *)
(* filter's own gain if the measurement noise outweighs the rounding of    *)
(* that gain, which may be half a unit too large.  With less noise K H may *)
(* exceed 1 and the simple form turn negative.                             *)
(***************************************************************************)
NoiseOutweighsRounding(kf) == 2 * One * kf.cfg.R >= Abs(kf.cfg.H) * FloatMax

CovarianceNonNegative ==
  LET kf == est.kalman
  IN  /\ kf.cfg.Q >= 0 /\ kf.cfg.R >= 0 /\ kf.cfg.P0 >= 0
      /\ kf.cfg.use_joseph_form \/ (~kf.cfg.steady_state /\ NoiseOutweighsRounding(kf))
      => kf.P >= 0

(***************************************************************************)
(* RON-FR-703, RON-FR-736, RON-FR-757: an output is within the limits in   *)
(* force, or the rate limit keeps it between them and the output before,   *)
(* also after an init that narrowed the limits and then failed; a safe     *)
(* output is within them at once.                                          *)
(***************************************************************************)
LimitsRecovered ==
  [][Step => IF ret' = "NONE" THEN u' \in Min({c.u_prev, c.cfg.u_min})..Max({c.u_prev, c.cfg.u_max})
             ELSE u' \in c.cfg.u_min..c.cfg.u_max]_vars

(* The rate limit of a sample; an allowance beyond the float range is none. *)
Allowed(move, dt) ==
  LET allowance == c.cfg.du_max * dt
  IN  GoodDt(dt) /\ (IsFinite(allowance) => Abs(move) <= allowance)

(***************************************************************************)
(* RON-SR-011, RON-SR-012: with HOLD_LAST a fault and its clearing do not  *)
(* move the actuator.  From one successful step to the next, across any    *)
(* steps that fail, the actuator moves no further than the rate limit      *)
(* allows.  An output that the rate limit still keeps outside the limits   *)
(* is excepted: a fault moves it into them, and the next success back to   *)
(* where the history left it.                                              *)
(***************************************************************************)
NoJumpAcrossFaults ==
  [][Step /\ resumed /\ c.cfg.safe_policy = "HOLD_LAST" /\ c.u_prev \in c.cfg.u_min..c.cfg.u_max =>
       \/ u' = u
       \/ ret' = "NONE" /\ c.cfg.du_max <= 0
       \/ ret' = "NONE" /\ \E dt \in Periods : Allowed(u' - u, dt)]_vars

(* RON-SR-012, RON-SR-013: the three controllers are fault latches.        *)
Latch == INSTANCE FaultLatch WITH
  Faults <- FeedbackFault, Values <- -FloatMax..FloatMax, latched <- c.faults, u <- u

ImplementsFaultLatch == Latch!Spec

(***************************************************************************)
(* RON-FR-733: an init that reports a converged DARE has a gain.  Violated *)
(* when the iteration overflows.                                           *)
(***************************************************************************)
SolvedGainIsFinite ==
  c.is_initialised /\ c.dare_converged => IsFinite(c.K_solved) /\ IsFinite(c.P_solved)
=============================================================================
