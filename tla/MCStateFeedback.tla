--------------------------- MODULE MCStateFeedback ---------------------------
(***************************************************************************)
(* Instances of StateFeedback for TLC.                                     *)
(***************************************************************************)
EXTENDS StateFeedback

Base ==
  [ZeroController.cfg EXCEPT !.n = 1, !.K = One, !.Kr = 1, !.u_min = -2, !.u_max = 2,
     !.du_max = 1, !.A = 1, !.B = 1, !.Q = 1, !.R = 1, !.max_iter = 4, !.tol = 1,
     !.est.x_ext = TRUE]

Observer == [ZeroObs.cfg EXCEPT !.n = 1, !.p = 1, !.A = 1, !.B = 1, !.C = 1, !.L = 1]
Filter == [ZeroKf.cfg EXCEPT !.n = 1, !.p = 1, !.A = 1, !.B = 1, !.H = 1, !.Q = 1, !.R = 2,
                             !.P0 = 2]

(* Range without 0, and a policy that moves the actuator. *)
Offset(cfg) ==
  [cfg EXCEPT !.u_min = 1, !.u_max = 3, !.safe_policy = "CONSTANT", !.safe_value = 3]

With(cfg, source) ==
  [cfg EXCEPT !.est.source = source, !.est.obs_cfg = Observer, !.est.kf_cfg = Filter]

(* An estimator that its own init refuses, or one of another dimension.    *)
SsConfigs ==
  {[Base EXCEPT !.use_integral = TRUE, !.Ki_aug = 1, !.C_out = 1, !.i_min = -1, !.i_max = 1],
   [Offset(Base) EXCEPT !.est.x_ext = FALSE],
   With(Base, "LUENBERGER"),
   [With(Offset(Base), "LUENBERGER") EXCEPT !.est.obs_cfg.L = NaN],
   [With(Base, "LUENBERGER") EXCEPT !.n = 2]}

(* The DARE converges in 2 iterations; the second configuration allows 1.  *)
LqrConfigs ==
  {[Base EXCEPT !.gain_mode = "DARE"],
   [Offset(Base) EXCEPT !.gain_mode = "DARE", !.max_iter = 1, !.n = 2],
   [With(Base, "KALMAN") EXCEPT !.est.kf_cfg.R = 0, !.est.kf_cfg.P0 = 0, !.est.kf_cfg.Q = 0],
   [With(Offset(Base), "KALMAN") EXCEPT !.est.kf_cfg.Q = NaN]}

LqgConfigs ==
  {With(Base, "KALMAN"),
   [With(Offset(Base), "KALMAN") EXCEPT !.gain_mode = "DARE_BOTH"],
   [With(Base, "KALMAN") EXCEPT !.gain_mode = "DARE", !.du_max = 0, !.est.kf_cfg.steady_state = TRUE,
                                !.est.kf_cfg.K_inf = 2 * One, !.est.kf_cfg.use_joseph_form = TRUE],
   [With(Offset(Base), "KALMAN") EXCEPT !.n = 2, !.est.kf_cfg.x0 = NaN],
   [With(Base, "KALMAN") EXCEPT !.gain_mode = "DARE_BOTH", !.est.kf_cfg.H = 0,
                                !.est.kf_cfg.R = 0]}

ConfigSets == [SS |-> SsConfigs, LQR |-> LqrConfigs, LQG |-> LqgConfigs]

(* An unstable plant that the input does not reach, with the default       *)
(* number of iterations.                                                   *)
UnreachableSets ==
  [SS |-> {Base}, LQR |-> {[Base EXCEPT !.gain_mode = "DARE", !.A = 2, !.B = 0, !.max_iter = 0]},
   LQG |-> {With(Base, "KALMAN")}]

GainSet == {<<2 * One, 0>>, <<NaN, 0>>}
ReferenceSet == {0, 2, NaN}
MeasurementSet == {0, 3, NaN}
PeriodSet == {0, 1}
=============================================================================
