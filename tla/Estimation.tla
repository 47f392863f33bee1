----------------------------- MODULE Estimation -----------------------------
(***************************************************************************)
(* The state estimators a state-feedback controller embeds: the Luenberger *)
(* observer (ron_observer.c), the Kalman filter (ron_kalman.c) and the     *)
(* source that selects one of them or the caller's own vector              *)
(* (ron_estimator.c), as operators on an instance.  A vector or a matrix   *)
(* is one number: its dimension is kept beside it.  Gains are in units of  *)
(* 1 / One.                                                                *)
(***************************************************************************)
EXTENDS FloatOps

CONSTANTS
  MaxStates,   (* RON_KF_MAX_STATES, RON_SS_MAX_STATES, RON_LQR_MAX_STATES *)
  One          (* the gain 1 on the grid                                   *)

ASSUME EstimationAssumption == MaxStates \in Nat \ {0} /\ One \in Nat \ {0}

FiniteAll(S) == \A x \in S : IsFinite(x)

Product(a, b, x) == Times(Times(a, b), x)

(* A call's effect on the instance, and what it returns. *)
Result(inst, fault) == [inst |-> inst, ret |-> fault]
Accept(inst) == Result(inst, "NONE")
-----------------------------------------------------------------------------
(* The configuration structure, with any content. *)
ObsConfigs ==
  [n : Nat, p : Nat, A : Float, B : Float, C : Float, L : Float, x0 : Float]

ZeroObs ==
  [cfg |-> [n |-> 0, p |-> 0, A |-> 0, B |-> 0, C |-> 0, L |-> 0, x0 |-> 0],
   x_hat |-> 0, is_initialised |-> FALSE]

ValidObsConfig(c) ==
  /\ c.n \in 1..MaxStates /\ c.p \in 0..1
  /\ FiniteAll({c.A, c.C, c.L, c.x0}) /\ (c.p > 0 => IsFinite(c.B))

ObsInit(obs, c) ==
  IF ValidObsConfig(c) THEN Accept([cfg |-> c, x_hat |-> c.x0, is_initialised |-> TRUE])
  ELSE Result(obs, "CONFIG_INVALID")

ObsReset(obs) == [obs EXCEPT !.x_hat = obs.cfg.x0]

(* A x_hat + B u + L (y - C x_hat) *)
ObsAdvance(obs, y, u) ==
  LET c == obs.cfg
  IN  Plus(Plus(Times(c.A, obs.x_hat), IF c.p = 0 THEN 0 ELSE Times(c.B, u)),
           Scaled(c.L, Minus(y, Times(c.C, obs.x_hat)), One))

(* Mutant: the candidate is the estimate before it is looked at. *)
ObsStepUnchecked(obs, y, u) ==
  IF ~obs.is_initialised THEN Result(obs, "CONFIG_INVALID")
  ELSE IF ~IsFinite(y) \/ (obs.cfg.p > 0 /\ ~IsFinite(u)) THEN Result(obs, "INPUT_NAN")
  ELSE Accept([obs EXCEPT !.x_hat = ObsAdvance(obs, y, u)])

ObsStep(obs, y, u) ==
  LET x_next == ObsAdvance(obs, y, u)
  IN  IF ~obs.is_initialised THEN Result(obs, "CONFIG_INVALID")
      ELSE IF ~IsFinite(y) \/ (obs.cfg.p > 0 /\ ~IsFinite(u)) THEN Result(obs, "INPUT_NAN")
      ELSE IF ~IsFinite(x_next) THEN Result(obs, "OUTPUT_NAN")
      ELSE Accept([obs EXCEPT !.x_hat = x_next])
-----------------------------------------------------------------------------
KfConfigs ==
  [n : Nat, p : Nat, A : Float, B : Float, H : Float, Q : Float, R : Float, x0 : Float,
   P0 : Float, use_joseph_form : BOOLEAN, steady_state : BOOLEAN, K_inf : Float]

ZeroKf ==
  [cfg |-> [n |-> 0, p |-> 0, A |-> 0, B |-> 0, H |-> 0, Q |-> 0, R |-> 0, x0 |-> 0, P0 |-> 0,
            use_joseph_form |-> FALSE, steady_state |-> FALSE, K_inf |-> 0],
   x_hat |-> 0, P |-> 0, is_initialised |-> FALSE]

ValidKfConfig(c) ==
  /\ c.n \in 1..MaxStates /\ c.p \in 0..1
  /\ FiniteAll({c.A, c.Q, c.P0, c.H, c.R, c.K_inf, c.x0}) /\ (c.p > 0 => IsFinite(c.B))

KfInit(kf, c) ==
  IF ValidKfConfig(c)
  THEN Accept([cfg |-> c, x_hat |-> c.x0, P |-> c.P0, is_initialised |-> TRUE])
  ELSE Result(kf, "CONFIG_INVALID")

KfReset(kf) == [kf EXCEPT !.x_hat = kf.cfg.x0, !.P = kf.cfg.P0]

(* Estimate and covariance are committed together, or not at all. *)
KfCommit(kf, x_next, p_next) ==
  IF IsFinite(x_next) /\ IsFinite(p_next)
  THEN Accept([kf EXCEPT !.x_hat = x_next, !.P = p_next])
  ELSE Result(kf, "OUTPUT_NAN")

PredictedState(kf, u) ==
  Plus(Times(kf.cfg.A, kf.x_hat), IF kf.cfg.p = 0 THEN 0 ELSE Times(kf.cfg.B, u))

PredictedCov(kf) == Plus(Product(kf.cfg.A, kf.P, kf.cfg.A), kf.cfg.Q)

KfPredict(kf, u) ==
  IF ~kf.is_initialised THEN Result(kf, "CONFIG_INVALID")
  ELSE IF kf.cfg.p > 0 /\ ~IsFinite(u) THEN Result(kf, "INPUT_NAN")
  ELSE KfCommit(kf, PredictedState(kf, u), PredictedCov(kf))

(* The innovation covariance H P H^T + R; beyond the float range it is the *)
(* infinity of its sign, and of a non-finite P it is not a number.         *)
InnovationCov(H, P, R) ==
  LET hph == H * P * H
  IN  IF ~IsFinite(P) THEN NaN ELSE IF IsFinite(hph) THEN hph + R ELSE hph

(* The Cholesky factorisation refuses a pivot that is known not to be      *)
(* positive: one that is not a number passes.                              *)
CholeskyAccepts(s) == s = NaN \/ s > 0

(* x / s as a gain, by an accepted factor: rounded to the nearest, halves  *)
(* away from zero.  The factor of an infinite s is not a number: Newton's  *)
(* square root of it takes infinity by infinity.                           *)
CholeskySolve(s, x) ==
  IF IsFinite(x) /\ s \in 1..FloatMax
  THEN Fin(Sign(x) * Quot(2 * One * Abs(x) + s, 2 * s))
  ELSE NaN

(* kf_compute_gain of one measurement divides by s itself: the gain over   *)
(* an infinite innovation is 0.                                            *)
DirectSolve(s, x) == IF ~IsFinite(s) /\ IsFinite(x) THEN 0 ELSE CholeskySolve(s, x)

ResolvedGain(kf) ==
  IF kf.cfg.steady_state THEN kf.cfg.K_inf
  ELSE DirectSolve(InnovationCov(kf.cfg.H, kf.P, kf.cfg.R), Times(kf.P, kf.cfg.H))

CorrectedState(kf, gain, z) ==
  Plus(kf.x_hat, Scaled(gain, Minus(z, Times(kf.cfg.H, kf.x_hat)), One))

(* A gain whose product with H does not overflow. *)
UsableGain(kf, gain) == IsFinite(gain) /\ Abs(gain * kf.cfg.H) <= One * FloatMax

(* Mutant: the Joseph form is left out. *)
CorrectedCovSimple(kf, gain) ==
  LET ikh == One - gain * kf.cfg.H
  IN  IF UsableGain(kf, gain) THEN Fin(Quot(ikh * kf.P, One)) ELSE NaN

(* (I - K H) P, or in Joseph form (I - K H) P (I - K H)^T + K R K^T. *)
CorrectedCov(kf, gain) ==
  LET ikh == One - gain * kf.cfg.H
  IN  IF ~UsableGain(kf, gain) THEN NaN
      ELSE IF kf.cfg.use_joseph_form
           THEN Plus(Quot(ikh * ikh * kf.P, One * One), Quot(gain * gain * kf.cfg.R, One * One))
      ELSE Fin(Quot(ikh * kf.P, One))

(* ron_kf_update with a valid measurement; a dropout leaves the filter. *)
KfUpdate(kf, z) ==
  IF ~kf.is_initialised THEN Result(kf, "CONFIG_INVALID")
  ELSE IF ~IsFinite(z) THEN Result(kf, "INPUT_NAN")
  ELSE IF /\ ~kf.cfg.steady_state
          /\ ~CholeskyAccepts(InnovationCov(kf.cfg.H, kf.P, kf.cfg.R))
       THEN Result(kf, "CONFIG_INVALID")
  ELSE KfCommit(kf, CorrectedState(kf, ResolvedGain(kf), z), CorrectedCov(kf, ResolvedGain(kf)))
-----------------------------------------------------------------------------
Source == {"EXTERNAL", "LUENBERGER", "KALMAN"}

EstimatorConfigs ==
  [source : Source \union {"INVALID"}, x_ext : BOOLEAN, obs_cfg : ObsConfigs, kf_cfg : KfConfigs]

(* x_ext tells whether the caller's vector is there (not NULL). *)
ZeroEstimator ==
  [source |-> "EXTERNAL", x_ext |-> FALSE, observer |-> ZeroObs, kalman |-> ZeroKf,
   is_initialised |-> FALSE]

ValidEstimatorConfig(c, n) ==
  /\ c.source \in Source
  /\ c.source = "LUENBERGER" => c.obs_cfg.n = n
  /\ c.source = "KALMAN" => c.kf_cfg.n = n

(* The estimator is not usable while, and unless, its part is initialised. *)
Adopted(est, c) ==
  CASE c.source = "LUENBERGER" ->
         LET res == ObsInit(est.observer, c.obs_cfg)
         IN  Result([est EXCEPT !.observer = res.inst, !.is_initialised = FALSE], res.ret)
    [] c.source = "KALMAN" ->
         LET res == KfInit(est.kalman, c.kf_cfg)
         IN  Result([est EXCEPT !.kalman = res.inst, !.is_initialised = FALSE], res.ret)
    [] OTHER -> Accept(est)

(* Mutant: a failed initialisation leaves the old estimator in use. *)
EstimatorInitKeeping(est, c) ==
  LET res == Adopted(est, c)
  IN  IF res.ret # "NONE" THEN Result(est, res.ret)
      ELSE Accept([res.inst EXCEPT !.source = c.source, !.x_ext = c.x_ext, !.is_initialised = TRUE])

EstimatorInit(est, c) ==
  LET res == Adopted(est, c)
  IN  IF res.ret # "NONE" THEN res
      ELSE Accept([res.inst EXCEPT !.source = c.source, !.x_ext = c.x_ext, !.is_initialised = TRUE])

EstimatorReset(est) ==
  IF ~est.is_initialised THEN est
  ELSE CASE est.source = "LUENBERGER" -> [est EXCEPT !.observer = ObsReset(est.observer)]
         [] est.source = "KALMAN" -> [est EXCEPT !.kalman = KfReset(est.kalman)]
         [] OTHER -> est

(* estimator_check *)
Selected(est, source) == est.is_initialised /\ est.source = source

(* ron_estimator_get_state: the estimate a controller reads, and the fault *)
(* it gets instead; external is what the caller's vector holds.            *)
Estimate(est, external) ==
  CASE est.source = "LUENBERGER" -> est.observer.x_hat
    [] est.source = "KALMAN" -> est.kalman.x_hat
    [] OTHER -> external

EstimateFault(est, external) ==
  IF ~est.is_initialised THEN "CONFIG_INVALID"
  ELSE IF est.source = "EXTERNAL" /\ ~est.x_ext THEN "NULL_POINTER"
  ELSE IF ~IsFinite(Estimate(est, external)) THEN "INPUT_NAN"
  ELSE "NONE"
=============================================================================
