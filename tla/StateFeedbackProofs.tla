------------------------- MODULE StateFeedbackProofs -------------------------
(***************************************************************************)
(* Proofs about StateFeedback: what its estimators keep, the invariant of  *)
(* the controller that runs on them, and the properties that follow from   *)
(* it for every configuration, reference, measurement and sample period.   *)
(***************************************************************************)
EXTENDS StateFeedback, RonLemmas

(* A finite product of three is the exact one. *)
LEMMA ProductFinite ==
  ASSUME NEW a, NEW b, NEW x, IsFinite(Product(a, b, x))
  PROVE  a \in Finite /\ b \in Finite /\ x \in Finite /\ Product(a, b, x) = a * b * x
<1>1. Times(a, b) \in Finite /\ x \in Finite /\ Product(a, b, x) = Times(a, b) * x
  BY TimesFinite DEF Product
<1>2. a \in Finite /\ b \in Finite /\ Times(a, b) = a * b
  BY <1>1, TimesFinite, FiniteMember
<1>3. QED
  BY <1>1, <1>2
-----------------------------------------------------------------------------
(* The estimators between calls: typed, finite where the code promises it, *)
(* valid once initialised.                                                 *)
Observers == [cfg : ObsConfigs, x_hat : Finite, is_initialised : BOOLEAN]

SoundObserver(obs) == obs \in Observers /\ obs.cfg.x0 \in Finite

Filters == [cfg : KfConfigs, x_hat : Finite, P : Finite, is_initialised : BOOLEAN]

(* CovarianceNonNegative, of any filter. *)
CovNonNegative(kf) ==
  /\ kf.cfg.Q >= 0 /\ kf.cfg.R >= 0 /\ kf.cfg.P0 >= 0
  /\ kf.cfg.use_joseph_form \/ (~kf.cfg.steady_state /\ NoiseOutweighsRounding(kf))
  => kf.P >= 0

SoundFilter(kf) ==
  /\ kf \in Filters
  /\ kf.cfg.x0 \in Finite /\ kf.cfg.P0 \in Finite
  /\ kf.is_initialised => ValidKfConfig(kf.cfg)
  /\ CovNonNegative(kf)

(* Nothing but estimate and covariance has changed. *)
SameDesign(old, new) == new.cfg = old.cfg /\ new.is_initialised = old.is_initialised
-----------------------------------------------------------------------------
(* The Luenberger observer. *)
LEMMA ObsInitSound ==
  ASSUME NEW obs, SoundObserver(obs), NEW cfg \in ObsConfigs
  PROVE  LET res == ObsInit(obs, cfg)
         IN  /\ SoundObserver(res.inst)
             /\ res.ret = "NONE" => res.inst.cfg = cfg
<1>1. CASE ValidObsConfig(cfg)
  <2>1. cfg.x0 \in Finite
    BY <1>1, FiniteMember DEF ValidObsConfig, FiniteAll
  <2>2. QED
    BY <1>1, <2>1 DEF ObsInit, Accept, Result, SoundObserver, Observers
<1>2. CASE ~ValidObsConfig(cfg)
  BY <1>2 DEF ObsInit, Result
<1>3. QED
  BY <1>1, <1>2

(* ron_observer_reset. *)
LEMMA ObsResetSound ==
  ASSUME NEW obs, SoundObserver(obs)
  PROVE  SoundObserver(ObsReset(obs)) /\ SameDesign(obs, ObsReset(obs))
  BY DEF SoundObserver, Observers, ObsReset, SameDesign

(* ron_observer_step. *)
LEMMA ObsStepSound ==
  ASSUME NEW obs, SoundObserver(obs), NEW y, NEW v
  PROVE  LET res == ObsStep(obs, y, v) IN SoundObserver(res.inst) /\ SameDesign(obs, res.inst)
<1> DEFINE x_next == ObsAdvance(obs, y, v)
<1>1. CASE ObsStep(obs, y, v).inst = obs
  BY <1>1 DEF SameDesign
<1>2. CASE IsFinite(x_next) /\ ObsStep(obs, y, v).inst = [obs EXCEPT !.x_hat = x_next]
  <2>1. x_next \in Finite
    BY <1>2, FiniteMember
  <2> HIDE DEF x_next
  <2>2. QED
    BY <1>2, <2>1 DEF SoundObserver, Observers, SameDesign
<1>3. QED
  BY <1>1, <1>2 DEF ObsStep, Result, Accept
-----------------------------------------------------------------------------
(* The Kalman filter. *)
LEMMA KfInitSound ==
  ASSUME NEW kf, SoundFilter(kf), NEW cfg \in KfConfigs
  PROVE  LET res == KfInit(kf, cfg)
         IN  /\ SoundFilter(res.inst)
             /\ res.ret = "NONE" => res.inst.cfg = cfg /\ res.inst.is_initialised
<1>1. CASE ValidKfConfig(cfg)
  <2>1. cfg.x0 \in Finite /\ cfg.P0 \in Finite
    BY <1>1, FiniteMember DEF ValidKfConfig, FiniteAll
  <2>2. QED
    BY <1>1, <2>1 DEF KfInit, Accept, Result, SoundFilter, Filters, CovNonNegative, NoiseOutweighsRounding
<1>2. CASE ~ValidKfConfig(cfg)
  BY <1>2 DEF KfInit, Result
<1>3. QED
  BY <1>1, <1>2

(* ron_kf_reset. *)
LEMMA KfResetSound ==
  ASSUME NEW kf, SoundFilter(kf)
  PROVE  SoundFilter(KfReset(kf)) /\ SameDesign(kf, KfReset(kf))
  BY DEF SoundFilter, Filters, KfReset, SameDesign, CovNonNegative, NoiseOutweighsRounding

(* Predict and update commit a finite estimate and covariance together. *)
LEMMA KfCommitSound ==
  ASSUME NEW kf, SoundFilter(kf), NEW x_next, NEW p_next,
         IsFinite(p_next) => CovNonNegative([kf EXCEPT !.P = p_next])
  PROVE  LET res == KfCommit(kf, x_next, p_next)
         IN  SoundFilter(res.inst) /\ SameDesign(kf, res.inst)
<1>1. CASE IsFinite(x_next) /\ IsFinite(p_next)
  <2>1. x_next \in Finite /\ p_next \in Finite
    BY <1>1, FiniteMember
  <2>2. KfCommit(kf, x_next, p_next).inst = [kf EXCEPT !.x_hat = x_next, !.P = p_next]
    BY <1>1 DEF KfCommit, Accept, Result
  <2>3. QED
    BY <1>1, <2>1, <2>2 DEF SoundFilter, Filters, SameDesign, CovNonNegative, NoiseOutweighsRounding
<1>2. CASE ~(IsFinite(x_next) /\ IsFinite(p_next))
  BY <1>2 DEF KfCommit, Result, SameDesign
<1>3. QED
  BY <1>1, <1>2

(* A square is not negative, nor what it scales. *)
LEMMA SquareScales ==
  ASSUME NEW a \in Int, NEW p \in Int, p >= 0 PROVE a * p * a >= 0 /\ a * a * p >= 0
<1>1. a * a \in Nat
  <2>1. CASE a >= 0
    BY <2>1
  <2>2. CASE a < 0
    <3>1. -a \in Nat /\ (-a) * (-a) \in Nat
      BY <2>2
    <3>2. (-a) * (-a) = a * a
      OBVIOUS
    <3>3. QED
      BY <3>1, <3>2
  <2>3. QED
    BY <2>1, <2>2
<1> DEFINE s == a * a
<1>2. a * p * a = s * p
  OBVIOUS
<1>3. s \in Nat
  BY <1>1
<1> HIDE DEF s
<1>4. s * p >= 0
  BY <1>3
<1>5. QED
  BY <1>2, <1>4 DEF s

(* A P A^T + Q is not negative. *)
LEMMA KfPredictSound ==
  ASSUME NEW kf, SoundFilter(kf), NEW v
  PROVE  LET res == KfPredict(kf, v) IN SoundFilter(res.inst) /\ SameDesign(kf, res.inst)
<1> DEFINE p_next == PredictedCov(kf)
           apa == Product(kf.cfg.A, kf.P, kf.cfg.A)
<1>1. IsFinite(p_next) => CovNonNegative([kf EXCEPT !.P = p_next])
  <2> SUFFICES ASSUME IsFinite(p_next), kf.cfg.Q >= 0, kf.P >= 0
               PROVE  p_next >= 0
    BY DEF CovNonNegative, SoundFilter, Filters, NoiseOutweighsRounding
  <2>1. apa \in Finite /\ kf.cfg.Q \in Finite /\ p_next = apa + kf.cfg.Q
    BY PlusFinite DEF PredictedCov
  <2>2. kf.cfg.A \in Finite /\ kf.P \in Finite /\ apa = kf.cfg.A * kf.P * kf.cfg.A
    BY <2>1, ProductFinite, FiniteMember
  <2>3. apa >= 0
    BY <2>2, FiniteFacts, SquareScales
  <2> HIDE DEF p_next, apa
  <2>4. QED
    BY <2>1, <2>3, FiniteFacts
<1> HIDE DEF p_next
<1>2. CASE KfPredict(kf, v).inst = kf
  BY <1>2 DEF SameDesign
<1>3. CASE KfPredict(kf, v) = KfCommit(kf, PredictedState(kf, v), p_next)
  BY <1>1, <1>3, KfCommitSound
<1>4. QED
  BY <1>2, <1>3 DEF KfPredict, Result, p_next

(* Scaling by a natural number keeps the order. *)
LEMMA ScaleLe ==
  ASSUME NEW x \in Int, NEW y \in Int, NEW a \in Nat, x <= y
  PROVE  x * a <= y * a
  OBVIOUS

(* The filter's own gain K, rounded to the nearest, does not make K H      *)
(* exceed 1 if the measurement noise outweighs the rounding.               *)
LEMMA OwnGainBounded ==
  ASSUME NEW H \in Int, NEW P \in Nat, NEW R \in Nat, NEW k \in Nat, NEW s \in Int,
         s > 0, s <= FloatMax, s = H * P * H + R,
         2 * One * R >= Abs(H) * FloatMax,
         2 * s * k <= 2 * One * Abs(P * H) + s
  PROVE  One - Sign(P * H) * k * H >= 0
<1> DEFINE a == Abs(H)
           sgn == Sign(P * H)
<1>1. a \in Nat /\ One \in Nat /\ One > 0
  BY EstimationAssumption DEF Abs
<1>2. CASE P * H = 0
  <2>1. sgn = 0
    BY <1>2 DEF Sign
  <2> HIDE DEF sgn
  <2>2. sgn * k * H = 0
    BY <2>1
  <2>3. QED
    BY <1>1, <2>2 DEF sgn
<1>3. CASE P * H # 0
  <2>1. P > 0 /\ H # 0
    BY <1>3
  <2>2. sgn * H = a /\ Abs(P * H) = P * a
    <3>1. CASE H > 0
      <4>1. P * H \in Int /\ P * H > 0
        BY <2>1, <3>1, PositiveProduct
      <4>2. QED
        BY <3>1, <4>1 DEF Abs, Sign
    <3>2. CASE H < 0
      <4>1. P * (-H) > 0
        BY <2>1, <3>2, PositiveProduct
      <4>2. P * H = -(P * (-H))
        OBVIOUS
      <4> DEFINE ph == P * H
                 nph == P * (-H)
      <4>3. ph \in Int /\ nph \in Int /\ nph > 0 /\ ph = -nph
        BY <4>1, <4>2
      <4>4. a = -H
        BY <3>2 DEF Abs
      <4>5. Sign(ph) = -1 /\ Abs(ph) = nph
        <5> HIDE DEF ph, nph
        <5>1. QED
          BY <4>3 DEF Sign, Abs
      <4>6. QED
        BY <4>4, <4>5
    <3>3. QED
      BY <2>1, <3>1, <3>2
  <2>3. H * P * H = P * a * a
    <3>1. H * H = a * a
      BY DEF Abs
    <3>2. H * P * H = P * (H * H) /\ P * a * a = P * (a * a)
      BY <1>1
    <3>3. QED
      BY <3>1, <3>2
  <2>4. s * (k * a) <= s * One
    <3> DEFINE paa == P * a * a
               ska == s * (k * a)
               sa  == s * a
               OR  == One * R
               Op  == One * paa
               Os  == One * s
    <3>1. paa \in Int /\ ska \in Int /\ sa \in Int /\ OR \in Int /\ Op \in Int /\ Os \in Int
      <4>1. P * a \in Int /\ k * a \in Int
        BY <1>1, ProductIsInt
      <4>2. paa \in Int
        BY <1>1, <4>1, ProductIsInt
      <4>3. QED
        BY <1>1, <4>1, <4>2, ProductIsInt
    <3>2. 2 * ska <= 2 * Op + sa
      <4> DEFINE l == s * k
                 m == One * (P * a)
      <4>1. l \in Int /\ m \in Int
        <5>1. P * a \in Int
          BY <1>1, ProductIsInt
        <5>2. QED
          BY <1>1, <5>1, ProductIsInt
      <4>2. 2 * l <= 2 * m + s
        BY <1>1, <2>2
      <4>3. (2 * l) * a <= (2 * m + s) * a
        <5> HIDE DEF l, m, a
        <5> QED BY <1>1, <4>1, <4>2, ScaleLe
      <4>4. (2 * l) * a = 2 * ska /\ (2 * m + s) * a = 2 * Op + sa
        <5>1. l * a = ska /\ m * a = Op
          BY <1>1
        <5>2. (2 * l) * a = 2 * (l * a) /\ (2 * m + s) * a = 2 * (m * a) + sa
          <6> HIDE DEF l, m, a
          <6> QED BY <1>1, <4>1 DEF sa
        <5>3. QED
          BY <5>1, <5>2
      <4>5. QED
        BY <4>3, <4>4
    <3>3. sa <= 2 * OR
      <4>1. FloatMax \in Int /\ s <= FloatMax
        BY RonUtilAssumption
      <4>2. s * a <= FloatMax * a
        <5> HIDE DEF a
        <5> QED BY <1>1, <4>1, ScaleLe
      <4>3. FloatMax * a = a * FloatMax /\ 2 * One * R = 2 * OR
        BY <1>1, <4>1
      <4>4. a * FloatMax \in Int
        BY <1>1, <4>1, ProductIsInt
      <4>5. QED
        BY <3>1, <4>2, <4>3, <4>4
    <3>4. Os = Op + OR
      <4>1. s = paa + R
        BY <2>3
      <4> HIDE DEF paa
      <4>2. QED
        BY <1>1, <3>1, <4>1
    <3>5. s * One = Os
      BY <1>1
    <3> HIDE DEF paa, ska, sa, OR, Op, Os
    <3>6. ska <= Os
      BY <3>1, <3>2, <3>3, <3>4
    <3>7. QED
      BY <3>5, <3>6 DEF ska
  <2> DEFINE ka == k * a
  <2>5. ka \in Int /\ s * ka <= s * One
    BY <1>1, <2>4
  <2>6. ka <= One
    <3> HIDE DEF ka
    <3>1. QED
      BY <1>1, <2>5
  <2>7. sgn * k * H = ka
    <3>1. sgn \in Int
      BY DEF Sign
    <3> HIDE DEF sgn
    <3>2. sgn * k * H = k * (sgn * H)
      BY <3>1
    <3>3. QED
      BY <2>2, <3>2
  <2> HIDE DEF ka, sgn
  <2>8. QED
    BY <1>1, <2>5, <2>6, <2>7 DEF sgn
<1>4. QED
  BY <1>2, <1>3

(* A gain the filter computes is a rounded quotient, or 0. *)
LEMMA OwnGain ==
  ASSUME NEW s, NEW x, IsFinite(DirectSolve(s, x))
  PROVE  \/ DirectSolve(s, x) = 0
         \/ /\ s \in 1..FloatMax /\ x \in Finite
            /\ \E k \in Nat : /\ DirectSolve(s, x) = Sign(x) * k
                            /\ 2 * s * k <= 2 * One * Abs(x) + s
<1> SUFFICES ASSUME DirectSolve(s, x) # 0
             PROVE  /\ s \in 1..FloatMax /\ x \in Finite
                    /\ \E k \in Nat : /\ DirectSolve(s, x) = Sign(x) * k
                                    /\ 2 * s * k <= 2 * One * Abs(x) + s
  OBVIOUS
<1> DEFINE n == 2 * One * Abs(x) + s
           d == 2 * s
           k == Quot(n, d)
<1>1. DirectSolve(s, x) = CholeskySolve(s, x)
  BY DEF DirectSolve
<1>2. /\ IsFinite(x) /\ s \in 1..FloatMax
      /\ CholeskySolve(s, x) = Fin(Sign(x) * k)
  BY <1>1, RonUtilAssumption DEF CholeskySolve, IsFinite
<1> HIDE DEF k
<1>3. x \in Finite /\ x \in Int /\ s \in Int /\ s > 0
  <2>1. x \in Finite /\ x \in Int
    BY <1>2, FiniteMember, FiniteIsInt
  <2>2. s \in Int /\ s > 0
    BY <1>2, RonUtilAssumption
  <2>3. QED
    BY <2>1, <2>2
<1>4. Abs(x) \in Nat /\ Sign(x) \in Int /\ One \in Nat
  BY <1>3, EstimationAssumption DEF Abs, Sign
<1>5. n \in Nat /\ d \in Int /\ d > 0
  <2>1. One * Abs(x) \in Nat /\ 2 * One * Abs(x) = 2 * (One * Abs(x))
    BY <1>4
  <2>2. QED
    BY <1>3, <2>1
<1>6. k \in Nat /\ d * k <= n
  <2> HIDE DEF n, d
  <2> QED BY <1>5, QuotBounds DEF k
<1>7. CholeskySolve(s, x) = Sign(x) * k
  BY <1>1, <1>2, <1>4, <1>6, FinFinite
<1>8. QED
  BY <1>1, <1>2, <1>3, <1>6, <1>7

(* The Joseph form with any gain, and (I - K H) P with the filter's own if *)
(* the noise outweighs its rounding, keep a covariance from becoming       *)
(* negative.                                                               *)
LEMMA CorrectedCovNonNegative ==
  ASSUME NEW kf, SoundFilter(kf), kf.is_initialised, kf.cfg.R >= 0, kf.P >= 0,
         kf.cfg.use_joseph_form \/ (~kf.cfg.steady_state /\ NoiseOutweighsRounding(kf)),
         IsFinite(CorrectedCov(kf, ResolvedGain(kf)))
  PROVE  CorrectedCov(kf, ResolvedGain(kf)) >= 0
<1> DEFINE gain == ResolvedGain(kf)
           H == kf.cfg.H
           P == kf.P
           R == kf.cfg.R
           ikh == One - gain * H
<1>1. gain \in Finite /\ gain \in Int
  <2>1. UsableGain(kf, gain)
    BY RonUtilAssumption DEF CorrectedCov, IsFinite
  <2>2. QED
    BY <2>1, FiniteMember, FiniteFacts DEF UsableGain
<1>2. H \in Int /\ P \in Nat /\ R \in Nat
  <2>1. IsFinite(H) /\ IsFinite(R) /\ IsFinite(P)
    BY FiniteMember DEF SoundFilter, Filters, ValidKfConfig, FiniteAll
  <2>2. H \in Int /\ R \in Int /\ P \in Int
    BY <2>1, FiniteIsInt
  <2>3. P >= 0 /\ R >= 0
    OBVIOUS
  <2> HIDE DEF H, P, R
  <2>4. QED
    BY <2>2, <2>3
<1>3. One \in Nat /\ One > 0
  BY EstimationAssumption
<1>4. ikh \in Int
  BY <1>1, <1>2, <1>3, ProductIsInt
<1>5. CASE kf.cfg.use_joseph_form
  <2> DEFINE kept  == ikh * ikh * P
             noise == gain * gain * R
             unit  == One * One
             a == Quot(kept, unit)
             b == Quot(noise, unit)
  <2>1. CorrectedCov(kf, gain) = Plus(a, b)
    BY <1>5, RonUtilAssumption DEF CorrectedCov, IsFinite
  <2>2. unit \in Int /\ unit > 0
    BY <1>3, PositiveProduct
  <2>3. kept \in Nat /\ noise \in Nat
    <3> HIDE DEF ikh, gain
    <3>1. kept >= 0 /\ noise >= 0
      BY <1>1, <1>2, <1>4, SquareScales
    <3>2. kept \in Int /\ noise \in Int
      BY <1>1, <1>2, <1>4, ProductIsInt
    <3> HIDE DEF kept, noise
    <3>3. QED
      BY <3>1, <3>2
  <2> HIDE DEF kept, noise, unit
  <2>4. a \in Nat /\ b \in Nat
    BY <2>2, <2>3, QuotBounds
  <2> HIDE DEF a, b
  <2>5. Plus(a, b) = a + b
    BY <2>1, PlusFinite
  <2>6. QED
    BY <2>1, <2>4, <2>5
<1>6. CASE ~kf.cfg.use_joseph_form
  <2> DEFINE s == InnovationCov(H, P, R)
             x == Times(P, H)
  <2>1. gain = DirectSolve(s, x)
    BY <1>6 DEF ResolvedGain
  <2>2. ikh >= 0
    <3>1. CASE gain = 0
      <4> HIDE DEF gain
      <4>1. ikh = One
        BY <3>1, <1>2, <1>3
      <4>2. QED
        BY <4>1, <1>3
    <3>2. CASE gain # 0
      <4>1. PICK k \in Nat : /\ s \in 1..FloatMax /\ x \in Finite
                             /\ gain = Sign(x) * k
                             /\ 2 * s * k <= 2 * One * Abs(x) + s
        <5>1. IsFinite(DirectSolve(s, x)) /\ DirectSolve(s, x) # 0
          BY <1>1, <2>1, <3>2, FiniteMember
        <5> HIDE DEF s, x, gain
        <5>2. QED
          BY <2>1, <5>1, OwnGain
      <4>2. x = P * H
        BY <4>1, TimesFinite, FiniteMember
      <4>3. s \in Int /\ s > 0 /\ s <= FloatMax /\ s = H * P * H + R
        <5>1. s \in Int /\ s > 0 /\ s <= FloatMax /\ s # NaN /\ IsFinite(s)
          BY <4>1, RonUtilAssumption DEF IsFinite
        <5>2. s = H * P * H + R
          BY <5>1 DEF InnovationCov
        <5>3. QED
          BY <5>1, <5>2
      <4>9. 2 * One * R >= Abs(H) * FloatMax
        BY <1>6 DEF NoiseOutweighsRounding
      <4>4. One - Sign(P * H) * k * H >= 0
        <5> HIDE DEF s, x, gain, H, P, R, ikh
        <5>1. QED
          BY <1>2, <4>1, <4>2, <4>3, <4>9, OwnGainBounded
      <4>5. QED
        BY <4>1, <4>2, <4>4
    <3>3. QED
      BY <3>1, <3>2
  <2> DEFINE prod == ikh * P
  <2>3. CorrectedCov(kf, gain) = Fin(Quot(prod, One))
    BY <1>6, RonUtilAssumption DEF CorrectedCov, IsFinite
  <2>4. prod \in Nat
    <3> HIDE DEF ikh, P
    <3>1. QED
      BY <1>2, <1>4, <2>2
  <2> HIDE DEF prod
  <2>5. Quot(prod, One) \in Nat
    BY <1>3, <2>4, QuotBounds
  <2>6. QED
    BY <2>3, <2>5, FinFinite
<1>7. QED
  BY <1>5, <1>6

(* ron_kf_update, with its own gain or a fixed one. *)
LEMMA KfUpdateSound ==
  ASSUME NEW kf, SoundFilter(kf), NEW z
  PROVE  LET res == KfUpdate(kf, z) IN SoundFilter(res.inst) /\ SameDesign(kf, res.inst)
<1> DEFINE p_next == CorrectedCov(kf, ResolvedGain(kf))
           x_next == CorrectedState(kf, ResolvedGain(kf), z)
<1>1. CASE KfUpdate(kf, z).inst = kf
  BY <1>1 DEF SameDesign
<1>2. CASE kf.is_initialised /\ KfUpdate(kf, z) = KfCommit(kf, x_next, p_next)
  <2>1. IsFinite(p_next) => CovNonNegative([kf EXCEPT !.P = p_next])
    <3> SUFFICES ASSUME IsFinite(p_next), kf.cfg.R >= 0, kf.P >= 0,
                        kf.cfg.use_joseph_form \/ (~kf.cfg.steady_state /\ NoiseOutweighsRounding(kf))
                 PROVE  p_next >= 0
      BY DEF CovNonNegative, SoundFilter, Filters, NoiseOutweighsRounding
    <3>1. QED
      BY <1>2, CorrectedCovNonNegative
  <2> HIDE DEF p_next, x_next
  <2>2. QED
    BY <1>2, <2>1, KfCommitSound
<1>3. QED
  BY <1>1, <1>2 DEF KfUpdate, Result
-----------------------------------------------------------------------------
(* The estimator: its parts are sound, and a design is what initialisation *)
(* fixes of it.                                                            *)
Estimators ==
  [source : Source \union {"INVALID"}, x_ext : BOOLEAN, observer : Observers, kalman : Filters,
   is_initialised : BOOLEAN]

SoundEstimator(e) ==
  e \in Estimators /\ SoundObserver(e.observer) /\ SoundFilter(e.kalman)

SameEstimator(old, new) ==
  /\ new.source = old.source /\ new.is_initialised = old.is_initialised
  /\ SameDesign(old.observer, new.observer) /\ SameDesign(old.kalman, new.kalman)

(* The estimator that a configuration asks for. *)
Matches(e, cfg) ==
  /\ e.is_initialised /\ e.source = cfg.source
  /\ e.source = "LUENBERGER" => e.observer.cfg = cfg.obs_cfg
  /\ e.source = "KALMAN" => e.kalman.cfg = cfg.kf_cfg

(* Replacing the embedded observer. *)
LEMMA WithObserver ==
  ASSUME NEW e, SoundEstimator(e), NEW obs, SoundObserver(obs), SameDesign(e.observer, obs)
  PROVE  LET f == [e EXCEPT !.observer = obs] IN SoundEstimator(f) /\ SameEstimator(e, f)
  BY DEF SoundEstimator, Estimators, SoundObserver, SameEstimator, SameDesign

(* Replacing the embedded filter. *)
LEMMA WithFilter ==
  ASSUME NEW e, SoundEstimator(e), NEW kf, SoundFilter(kf), SameDesign(e.kalman, kf)
  PROVE  LET f == [e EXCEPT !.kalman = kf] IN SoundEstimator(f) /\ SameEstimator(e, f)
<1>1. kf \in Filters
  BY DEF SoundFilter
<1>2. QED
  BY <1>1 DEF SoundEstimator, Estimators, SameEstimator, SameDesign

(* ron_estimator_init: the estimator asked for, or an unusable one. *)
LEMMA AdoptedSound ==
  ASSUME NEW e, SoundEstimator(e), NEW cfg \in EstimatorConfigs
  PROVE  LET res == Adopted(e, cfg)
         IN  /\ SoundEstimator(res.inst)
             /\ res.ret # "NONE" => ~res.inst.is_initialised
             /\ res.ret = "NONE" /\ cfg.source = "LUENBERGER" =>
                  res.inst.observer.cfg = cfg.obs_cfg
             /\ res.ret = "NONE" /\ cfg.source = "KALMAN" => res.inst.kalman.cfg = cfg.kf_cfg
<1>1. cfg.obs_cfg \in ObsConfigs /\ cfg.kf_cfg \in KfConfigs
  BY DEF EstimatorConfigs
<1>2. CASE cfg.source = "LUENBERGER"
  <2> DEFINE res == ObsInit(e.observer, cfg.obs_cfg)
             obs == res.inst
  <2>1. SoundObserver(obs) /\ (res.ret = "NONE" => obs.cfg = cfg.obs_cfg)
    BY <1>1, ObsInitSound DEF SoundEstimator
  <2>2. /\ Adopted(e, cfg).inst = [e EXCEPT !.observer = obs, !.is_initialised = FALSE]
        /\ Adopted(e, cfg).ret = res.ret
    BY <1>2 DEF Adopted, Result
  <2> HIDE DEF res
  <2>3. obs \in Observers
    BY <2>1 DEF SoundObserver
  <2> HIDE DEF obs
  <2>4. QED
    BY <1>2, <2>1, <2>2, <2>3 DEF SoundEstimator, Estimators
<1>3. CASE cfg.source = "KALMAN"
  <2> DEFINE res == KfInit(e.kalman, cfg.kf_cfg)
             kf == res.inst
  <2>1. SoundFilter(kf) /\ (res.ret = "NONE" => kf.cfg = cfg.kf_cfg)
    BY <1>1, KfInitSound DEF SoundEstimator
  <2>2. /\ Adopted(e, cfg).inst = [e EXCEPT !.kalman = kf, !.is_initialised = FALSE]
        /\ Adopted(e, cfg).ret = res.ret
    BY <1>3 DEF Adopted, Result
  <2> HIDE DEF res
  <2>3. kf \in Filters
    BY <2>1 DEF SoundFilter
  <2> HIDE DEF kf
  <2>4. QED
    BY <1>3, <2>1, <2>2, <2>3 DEF SoundEstimator, Estimators
<1>4. CASE cfg.source \notin {"LUENBERGER", "KALMAN"}
  BY <1>4 DEF Adopted, Accept, Result
<1>5. QED
  BY <1>2, <1>3, <1>4

(* ron_estimator_init, and its refusals. *)
LEMMA EstimatorInitSound ==
  ASSUME NEW e, SoundEstimator(e), NEW cfg \in EstimatorConfigs
  PROVE  LET res == EstimatorInit(e, cfg)
         IN  /\ SoundEstimator(res.inst)
             /\ res.ret = "NONE" => Matches(res.inst, cfg)
             /\ res.ret # "NONE" => ~res.inst.is_initialised
<1> DEFINE res == Adopted(e, cfg)
           inst == res.inst
<1>1. /\ SoundEstimator(inst)
      /\ res.ret # "NONE" => ~inst.is_initialised
      /\ res.ret = "NONE" /\ cfg.source = "LUENBERGER" => inst.observer.cfg = cfg.obs_cfg
      /\ res.ret = "NONE" /\ cfg.source = "KALMAN" => inst.kalman.cfg = cfg.kf_cfg
  BY AdoptedSound
<1>2. CASE res.ret # "NONE"
  BY <1>1, <1>2 DEF EstimatorInit
<1>3. CASE res.ret = "NONE"
  <2> DEFINE f == [inst EXCEPT !.source = cfg.source, !.x_ext = cfg.x_ext, !.is_initialised = TRUE]
  <2>1. EstimatorInit(e, cfg).inst = f /\ EstimatorInit(e, cfg).ret = "NONE"
    BY <1>3 DEF EstimatorInit, Accept, Result
  <2>2. cfg.source \in Source \union {"INVALID"} /\ cfg.x_ext \in BOOLEAN
    BY DEF EstimatorConfigs
  <2> HIDE DEF res, inst
  <2>3. SoundEstimator(f) /\ Matches(f, cfg)
    BY <1>1, <1>3, <2>2 DEF SoundEstimator, Estimators, Matches
  <2>4. QED
    BY <2>1, <2>3
<1>4. QED
  BY <1>2, <1>3

(* ron_estimator_reset. *)
LEMMA EstimatorResetSound ==
  ASSUME NEW e, SoundEstimator(e)
  PROVE  SoundEstimator(EstimatorReset(e)) /\ SameEstimator(e, EstimatorReset(e))
<1>1. CASE EstimatorReset(e) = e
  BY <1>1 DEF SameEstimator, SameDesign
<1>2. CASE EstimatorReset(e) = [e EXCEPT !.observer = ObsReset(e.observer)]
  BY <1>2, ObsResetSound, WithObserver DEF SoundEstimator
<1>3. CASE EstimatorReset(e) = [e EXCEPT !.kalman = KfReset(e.kalman)]
  BY <1>3, KfResetSound, WithFilter DEF SoundEstimator
<1>4. QED
  BY <1>1, <1>2, <1>3 DEF EstimatorReset
-----------------------------------------------------------------------------
(* The filter of an LQG: a gain solved here is a value of its structure.   *)
LEMMA CholeskySolveFloat == ASSUME NEW s, NEW x PROVE CholeskySolve(s, x) \in Float
<1>1. CASE IsFinite(x) /\ s \in 1..FloatMax
  <2>1. x \in Int /\ s \in Int /\ s > 0
    BY <1>1, FiniteIsInt, RonUtilAssumption
  <2>2. Abs(x) \in Nat /\ Sign(x) \in Int /\ One * Abs(x) \in Nat
    BY <2>1, EstimationAssumption DEF Abs, Sign
  <2> DEFINE n == 2 * One * Abs(x) + s
             d == 2 * s
             q == Quot(n, d)
  <2>3. q \in Int
    <3>1. One \in Nat /\ 2 * One * Abs(x) = 2 * (One * Abs(x))
      BY <2>2, EstimationAssumption
    <3>2. n \in Nat /\ d \in Int /\ d > 0
      BY <2>1, <2>2, <3>1
    <3> HIDE DEF n, d
    <3>3. QED
      BY <3>2, QuotBounds
  <2> HIDE DEF q
  <2>4. Sign(x) * q \in Int
    BY <2>2, <2>3, ProductIsInt
  <2>5. QED
    BY <1>1, <2>4 DEF CholeskySolve, Fin, Float, q
<1>2. CASE ~(IsFinite(x) /\ s \in 1..FloatMax)
  BY <1>2 DEF CholeskySolve, Float
<1>3. QED
  BY <1>1, <1>2

(* The filter configuration an LQG derives from its own. *)
LEMMA LqgKfConfigTyped ==
  ASSUME NEW cfg \in ControllerConfigs
  PROVE  LqgKfConfig(cfg) \in KfConfigs /\ LqgKfConfig(cfg).n = cfg.n
<1>1. /\ cfg.n \in Nat /\ cfg.A \in Float /\ cfg.B \in Float /\ cfg.est \in EstimatorConfigs
  BY DEF ControllerConfigs
<1>2. cfg.est.kf_cfg \in KfConfigs
  BY <1>1 DEF EstimatorConfigs
<1>3. 0 \in Float /\ 1 \in Nat
  BY DEF Float
<1> DEFINE kf == cfg.est.kf_cfg
           k == IF kf.steady_state THEN kf.K_inf ELSE 0
<1>4. k \in Float
  BY <1>2, <1>3 DEF KfConfigs
<1>5. LqgKfConfig(cfg) = [kf EXCEPT !.n = cfg.n, !.p = 1, !.A = cfg.A, !.B = cfg.B, !.K_inf = k]
  BY <1>2 DEF LqgKfConfig, KfConfigs
<1> HIDE DEF kf, k
<1>6. kf \in KfConfigs
  BY <1>2 DEF kf
<1>7. QED
  BY <1>1, <1>3, <1>4, <1>5, <1>6 DEF KfConfigs

(* The filter an LQG initialises, with a solved or a given gain. *)
LEMMA LqgKalmanInitSound ==
  ASSUME NEW e, SoundEstimator(e), NEW cfg \in ControllerConfigs
  PROVE  LET res == LqgKalmanInit(e, cfg)
         IN  /\ SoundEstimator(res.inst)
             /\ res.ret = "NONE" =>
                  res.inst.kalman.is_initialised /\ res.inst.kalman.cfg.n = cfg.n
<1> DEFINE gain == CHOOSE g \in {KalmanGain(cfg)} : TRUE
           given == LqgKfConfig(cfg)
           asked == IF cfg.gain_mode # "DARE_BOTH" THEN given
                    ELSE [given EXCEPT !.K_inf = gain.K, !.steady_state = TRUE]
           res == KfInit(e.kalman, asked)
           kf == res.inst
<1>1. gain.K \in Float
  <2>1. gain = KalmanGain(cfg)
    OBVIOUS
  <2>2. \E s, x : KalmanGain(cfg).K = CholeskySolve(s, x)
    BY DEF KalmanGain
  <2> HIDE DEF gain
  <2>3. QED
    BY <2>1, <2>2, CholeskySolveFloat
<1>2. given \in KfConfigs /\ given.n = cfg.n
  BY LqgKfConfigTyped
<1>3. asked \in KfConfigs /\ asked.n = cfg.n
  <2> HIDE DEF gain, given
  <2>1. QED
    BY <1>1, <1>2 DEF KfConfigs
<1> HIDE DEF asked
<1>4. SoundFilter(kf) /\ (res.ret = "NONE" => kf.cfg = asked /\ kf.is_initialised)
  BY <1>3, KfInitSound DEF SoundEstimator
<1>5. CASE cfg.gain_mode = "DARE_BOTH" /\ ~gain.ok
  BY <1>5 DEF LqgKalmanInit, Result
<1>6. CASE ~(cfg.gain_mode = "DARE_BOTH" /\ ~gain.ok)
  <2>1. /\ LqgKalmanInit(e, cfg).inst = [e EXCEPT !.kalman = kf]
        /\ LqgKalmanInit(e, cfg).ret = res.ret
    BY <1>6 DEF LqgKalmanInit, Result, asked
  <2> HIDE DEF res, gain, given
  <2>2. kf \in Filters
    BY <1>4 DEF SoundFilter
  <2> HIDE DEF kf
  <2>3. QED
    BY <1>3, <1>4, <2>1, <2>2 DEF SoundEstimator, Estimators
<1>7. QED
  BY <1>5, <1>6
-----------------------------------------------------------------------------
(* The controller between calls: finite history, at most one fault, valid  *)
(* limits once initialised.  A solved gain and its DARE solution are not   *)
(* known to be finite: the law, not this, keeps them from the output.      *)
Latched == {{}} \union {{f} : f \in FeedbackFault}

IsController(k) ==
  k \in [cfg : ControllerConfigs, K_solved : {k.K_solved}, P_solved : {k.P_solved},
         dare_converged : {k.dare_converged}, integral : Finite, u_prev : Finite,
         faults : Latched, is_initialised : BOOLEAN]

SoundController(k) ==
  /\ IsController(k)
  /\ k.is_initialised => LqrValidLimits(k.cfg) /\ ValidIntegral(k.cfg)

Typed ==
  /\ kind \in {"SS", "LQR", "LQG"}
  /\ external \in Float /\ u \in Finite
  /\ ret \in FeedbackFault \union {"NONE"}
  /\ mixed \in BOOLEAN /\ resumed \in BOOLEAN

(* With HOLD_LAST the actuator holds the output history, or, while a fault *)
(* holds it, the history brought into the limits.                          *)
Held ==
  resumed /\ c.cfg.safe_policy = "HOLD_LAST" =>
    u = c.u_prev \/ u = Clamp(c.u_prev, c.cfg.u_min, c.cfg.u_max)

Inv ==
  /\ Typed /\ SoundController(c) /\ SoundEstimator(est)
  /\ EstimateMatchesDesign /\ Held
-----------------------------------------------------------------------------
(* What a successful validation says of a configuration. *)
LEMMA LimitsTyped ==
  ASSUME NEW cfg, LqrValidLimits(cfg)
  PROVE  /\ cfg.u_min \in Finite /\ cfg.u_max \in Finite
         /\ cfg.du_max \in Finite /\ cfg.safe_value \in Finite
         /\ cfg.u_min \in Int /\ cfg.u_max \in Int /\ cfg.du_max \in Int /\ cfg.safe_value \in Int
         /\ cfg.u_min <= cfg.u_max
<1>1. /\ IsFinite(cfg.u_min) /\ IsFinite(cfg.u_max) /\ IsFinite(cfg.du_max)
      /\ IsFinite(cfg.safe_value) /\ cfg.u_min < cfg.u_max
  BY DEF LqrValidLimits, FiniteAll
<1>2. /\ cfg.u_min \in Int /\ cfg.u_max \in Int /\ cfg.du_max \in Int /\ cfg.safe_value \in Int
  BY <1>1, FiniteIsInt
<1>3. cfg.u_min <= cfg.u_max
  BY <1>1, <1>2
<1>4. QED
  BY <1>1, <1>2, <1>3, FiniteMember

(* The types of an accepted integral term. *)
LEMMA IntegralTyped ==
  ASSUME NEW cfg, cfg.use_integral, ValidIntegral(cfg)
  PROVE  /\ cfg.Ki_aug \in Int /\ cfg.C_out \in Int
         /\ cfg.i_min \in Finite /\ cfg.i_max \in Finite
         /\ cfg.i_min \in Int /\ cfg.i_max \in Int /\ cfg.i_min <= cfg.i_max
<1>1. /\ IsFinite(cfg.Ki_aug) /\ IsFinite(cfg.C_out) /\ IsFinite(cfg.i_min) /\ IsFinite(cfg.i_max)
      /\ cfg.i_min <= cfg.i_max
  BY DEF ValidIntegral, FiniteAll
<1>2. QED
  BY <1>1, FiniteIsInt, FiniteMember

(* What an accepted configuration promises. *)
LEMMA ValidConfigSound ==
  ASSUME kind \in {"SS", "LQR", "LQG"}, NEW cfg \in Configs[kind], LqrValidConfig(cfg)
  PROVE  /\ cfg \in ControllerConfigs
         /\ LqrValidLimits(cfg) /\ ValidIntegral(cfg)
<1>1. cfg \in ControllerConfigs
  BY StateFeedbackAssumption
<1>2. CASE kind = "SS"
  BY <1>1, <1>2 DEF LqrValidConfig, ValidSs
<1>3. CASE kind = "LQR"
  BY <1>1, <1>3 DEF LqrValidConfig, ValidLqr
<1>4. CASE kind = "LQG"
  <2>1. ~cfg.use_integral
    BY <1>4, StateFeedbackAssumption
  <2>2. LqrValidLimits(cfg)
    BY <1>4 DEF LqrValidConfig, ValidLqg
  <2>3. QED
    BY <1>1, <2>1, <2>2 DEF ValidIntegral
<1>5. QED
  BY <1>2, <1>3, <1>4

(* The least of two integers. *)
LEMMA MinOfTwo ==
  ASSUME NEW a \in Int, NEW b \in Int
  PROVE  Min({a, b}) \in Int /\ Min({a, b}) <= a /\ Min({a, b}) <= b
<1>1. \E x \in {a, b} : \A y \in {a, b} : x <= y
  OBVIOUS
<1>2. Min({a, b}) \in {a, b} /\ \A y \in {a, b} : Min({a, b}) <= y
  BY <1>1 DEF Min
<1>3. QED
  BY <1>2

(* The greatest of two integers. *)
LEMMA MaxOfTwo ==
  ASSUME NEW a \in Int, NEW b \in Int
  PROVE  Max({a, b}) \in Int /\ Max({a, b}) >= a /\ Max({a, b}) >= b
<1>1. \E x \in {a, b} : \A y \in {a, b} : x >= y
  OBVIOUS
<1>2. Max({a, b}) \in {a, b} /\ \A y \in {a, b} : Max({a, b}) >= y
  BY <1>1 DEF Max
<1>3. QED
  BY <1>2
-----------------------------------------------------------------------------
(* A step evaluates to the fault that is latched, to one new fault, or to  *)
(* none with a finite estimate and output.                                 *)
LEMMA StateFaultTyped ==
  ASSUME Inv
  PROVE  /\ StateFault \in FeedbackFault \union {"NONE"}
         /\ StateFault = "NONE" => IsFinite(StateEstimate)
<1>1. CASE kind = "LQG"
  BY <1>1 DEF StateFault, StateEstimate, FeedbackFault
<1>2. CASE kind # "LQG"
  BY <1>2 DEF StateFault, StateEstimate, EstimateFault, FeedbackFault
<1>3. QED
  BY <1>1, <1>2

(* The evaluation of a step is the latched fault, a new one, or none when  *)
(* everything the law reads and returns is finite.                         *)
LEMMA EvaluateTyped ==
  ASSUME Inv, NEW r, NEW dt
  PROVE  /\ Evaluate(r, dt) \in Latched
         /\ c.faults # {} => Evaluate(r, dt) = c.faults
         /\ Evaluate(r, dt) = {} =>
              /\ c.faults = {} /\ IsFinite(r) /\ GoodDt(dt)
              /\ IsFinite(StateEstimate) /\ IsFinite(RawOutput(r, dt))
<1>1. c.faults \in Latched
  BY DEF Inv, SoundController, IsController
<1>2. \A f \in FeedbackFault : {f} \in Latched
  BY DEF Latched
<1>3. "INPUT_NAN" \in FeedbackFault /\ "OUTPUT_NAN" \in FeedbackFault
  BY DEF FeedbackFault
<1>4. QED
  BY <1>1, <1>2, <1>3, StateFaultTyped DEF Evaluate

(* A failed step: the fault is latched alone, the safe value is output.    *)
LEMMA FailOutcome ==
  ASSUME Inv, c.is_initialised, NEW codes \in Latched, codes # {},
         c.faults # {} => codes = c.faults, SsFailStep(codes)
  PROVE  /\ c' = [c EXCEPT !.faults = codes]
         /\ u' \in Finite /\ u' \in c.cfg.u_min..c.cfg.u_max
         /\ ret' \in FeedbackFault
         /\ c.cfg.safe_policy = "HOLD_LAST" => u' = Clamp(c.u_prev, c.cfg.u_min, c.cfg.u_max)
<1>1. c.faults \union codes = codes
  BY DEF Inv, SoundController, IsController, Latched
<1>2. c' = [c EXCEPT !.faults = codes]
  BY <1>1 DEF SsFailStep
<1>3. ret' \in FeedbackFault
  <2>1. \E f : f \in codes
    OBVIOUS
  <2>2. codes \subseteq FeedbackFault
    BY DEF Latched
  <2>3. QED
    BY <1>1, <2>1, <2>2 DEF SsFailStep
<1>4. LqrValidLimits(c.cfg) /\ c.u_prev \in Finite /\ c.u_prev \in Int
  BY FiniteFacts DEF Inv, SoundController, IsController
<1> DEFINE lo == c.cfg.u_min
           hi == c.cfg.u_max
<1>5. lo \in Finite /\ hi \in Finite /\ lo \in Int /\ hi \in Int /\ lo <= hi /\ c.cfg.safe_value \in Int
  BY <1>4, LimitsTyped
<1>6. u' = SafeOutput(c.cfg.safe_policy, c.u_prev, c.cfg.safe_value, lo, hi)
  BY DEF SsFailStep
<1>7. u' \in lo..hi
  <2> HIDE DEF lo, hi
  <2>1. QED
    BY <1>4, <1>5, <1>6, SafeOutputBounded
<1>8. u' \in Finite
  <2> HIDE DEF lo, hi
  <2>1. u' \in Int /\ lo <= u' /\ u' <= hi
    BY <1>5, <1>7
  <2>2. QED
    BY <1>5, <2>1, FiniteBetween
<1>9. c.cfg.safe_policy = "HOLD_LAST" => u' = Clamp(c.u_prev, lo, hi)
  BY <1>6 DEF SafeOutput
<1>10. QED
  BY <1>2, <1>3, <1>7, <1>8, <1>9

(* The integral a successful step stores is finite: the output contains it. *)
LEMMA IntegralFinite ==
  ASSUME Inv, c.is_initialised, NEW r, NEW dt, Evaluate(r, dt) = {}
  PROVE  IntegralNext(r, dt) \in Finite
<1>1. c.integral \in Finite /\ c.integral \in Int /\ ValidIntegral(c.cfg)
  BY FiniteFacts DEF Inv, SoundController, IsController
<1>2. CASE ~c.cfg.use_integral
  BY <1>1, <1>2 DEF IntegralNext
<1>3. CASE c.cfg.use_integral
  <2>1. IsFinite(RawOutput(r, dt))
    BY EvaluateTyped
  <2> DEFINE law == Minus(Times(c.cfg.Kr, r), Scaled(c.K_solved, StateEstimate, One))
             i   == IntegralNext(r, dt)
  <2>2. RawOutput(r, dt) = Plus(law, i)
    BY <1>3 DEF RawOutput
  <2> HIDE DEF law, i
  <2>3. i \in Finite
    BY <2>1, <2>2, PlusFinite
  <2>4. QED
    BY <2>3 DEF i
<1>4. QED
  BY <1>2, <1>3

(* A successful step: its output lies between the old one and the limits,  *)
(* no further from the old one than the rate limit allows.                 *)
LEMMA CommitOutcome ==
  ASSUME Inv, c.is_initialised, NEW r, NEW dt, Evaluate(r, dt) = {}, CommitStep(r, dt)
  PROVE  /\ u' \in Finite /\ ret' = "NONE"
         /\ c' = [c EXCEPT !.integral = IntegralNext(r, dt), !.u_prev = u']
         /\ u' \in Min({c.u_prev, c.cfg.u_min})..Max({c.u_prev, c.cfg.u_max})
         /\ GoodDt(dt)
         /\ c.cfg.du_max <= 0 \/ Allowed(u' - c.u_prev, dt)
<1> DEFINE lo == c.cfg.u_min
           hi == c.cfg.u_max
           du == c.cfg.du_max
           old == c.u_prev
           raw == RawOutput(r, dt)
           sat == Clamp(raw, lo, hi)
           out == RateLimit(sat, old, du, dt)
<1>1. old \in Finite /\ old \in Int /\ LqrValidLimits(c.cfg)
  BY FiniteFacts DEF Inv, SoundController, IsController
<1>2. /\ lo \in Finite /\ hi \in Finite /\ lo \in Int /\ hi \in Int /\ du \in Int /\ lo <= hi
  BY <1>1, LimitsTyped
<1>3. GoodDt(dt) /\ dt \in Int /\ dt > 0 /\ raw \in Int
  BY EvaluateTyped, GoodDtIsInt, FiniteIsInt
<1>4. /\ u' = out /\ ret' = "NONE"
      /\ c' = [c EXCEPT !.integral = IntegralNext(r, dt), !.u_prev = out]
  BY DEF CommitStep, Limited
<1> HIDE DEF lo, hi, du, old, raw
<1>5. sat \in Int /\ lo <= sat /\ sat <= hi
  <2>1. sat \in Int /\ sat \in lo..hi
    BY <1>2, <1>3, ClampIsInt, ClampInRange
  <2> HIDE DEF sat
  <2>2. QED
    BY <1>2, <2>1
<1> HIDE DEF sat
<1>6. /\ out \in Int
      /\ \/ sat <= out /\ out <= old
         \/ old <= out /\ out <= sat
  BY <1>1, <1>2, <1>3, <1>5, RateLimitBetween
<1>7. du <= 0 \/ (IsFinite(du * dt) => Abs(out - old) <= du * dt)
  <2>1. CASE du > 0
    BY <1>1, <1>2, <1>3, <1>5, <2>1, RateLimitSlew
  <2>2. QED
    BY <1>2, <2>1
<1> HIDE DEF out
<1>8. out \in Finite
  <2>1. CASE sat <= out /\ out <= old
    <3>1. lo <= out
      BY <1>2, <1>5, <1>6, <2>1
    <3>2. QED
      BY <1>1, <1>2, <1>6, <2>1, <3>1, FiniteBetween
  <2>2. CASE old <= out /\ out <= sat
    <3>1. out <= hi
      BY <1>2, <1>5, <1>6, <2>2
    <3>2. QED
      BY <1>1, <1>2, <1>6, <2>2, <3>1, FiniteBetween
  <2>3. QED
    BY <1>6, <2>1, <2>2
<1>9. out \in Min({old, lo})..Max({old, hi})
  <2> DEFINE least == Min({old, lo})
             most == Max({old, hi})
  <2>1. least \in Int /\ least <= old /\ least <= lo
    BY <1>1, <1>2, MinOfTwo
  <2>2. most \in Int /\ most >= old /\ most >= hi
    BY <1>1, <1>2, MaxOfTwo
  <2> HIDE DEF least, most
  <2>3. out \in least..most
    BY <1>1, <1>2, <1>5, <1>6, <2>1, <2>2
  <2>4. QED
    BY <2>3 DEF least, most
<1>10. QED
  BY <1>3, <1>4, <1>7, <1>8, <1>9 DEF lo, hi, du, old, Allowed
-----------------------------------------------------------------------------
(* The initial state, and one lemma for each action. *)
LEMMA ZeroFinite == 0 \in Finite /\ 0 \in Float /\ 0 \in Nat
  BY FiniteFacts DEF Float

(* The invariant holds before the first call. *)
LEMMA InitInv == Init => Inv
<1> SUFFICES ASSUME Init PROVE Inv
  OBVIOUS
<1>1. SoundObserver(ZeroObs)
  BY ZeroFinite DEF SoundObserver, Observers, ObsConfigs, ZeroObs
<1>2. SoundFilter(ZeroKf)
  BY ZeroFinite DEF SoundFilter, Filters, KfConfigs, ZeroKf, CovNonNegative
<1>3. SoundEstimator(ZeroEstimator)
  <2>1. ZeroObs \in Observers /\ ZeroKf \in Filters
    BY <1>1, <1>2 DEF SoundObserver, SoundFilter
  <2>2. "EXTERNAL" \in Source \union {"INVALID"}
    BY DEF Source
  <2>3. ZeroEstimator \in Estimators
    BY <2>1, <2>2 DEF Estimators, ZeroEstimator
  <2>4. ZeroEstimator.observer = ZeroObs /\ ZeroEstimator.kalman = ZeroKf
    BY DEF ZeroEstimator
  <2>5. QED
    BY <1>1, <1>2, <2>3, <2>4 DEF SoundEstimator
<1>4. ZeroController.cfg \in ControllerConfigs
  <2>1. ZeroObs.cfg \in ObsConfigs /\ ZeroKf.cfg \in KfConfigs
    BY <1>1, <1>2 DEF SoundObserver, Observers, SoundFilter, Filters
  <2> DEFINE est_cfg == [source |-> "EXTERNAL", x_ext |-> FALSE, obs_cfg |-> ZeroObs.cfg,
                         kf_cfg |-> ZeroKf.cfg]
  <2>2. "EXTERNAL" \in Source \union {"INVALID"} /\ "HOLD_LAST" \in SafePolicy \union {"INVALID"}
    BY DEF Source, SafePolicy
  <2>3. est_cfg \in EstimatorConfigs
    BY <2>1, <2>2 DEF EstimatorConfigs
  <2>4. ZeroController.cfg =
          [n |-> 0, K |-> 0, Kr |-> 0, use_integral |-> FALSE, Ki_aug |-> 0, C_out |-> 0,
           i_min |-> 0, i_max |-> 0, u_min |-> 0, u_max |-> 0, du_max |-> 0,
           safe_policy |-> "HOLD_LAST", safe_value |-> 0, gain_mode |-> "PRECOMPUTED",
           A |-> 0, B |-> 0, Q |-> 0, R |-> 0, max_iter |-> 0, tol |-> 0, est |-> est_cfg]
    BY DEF ZeroController
  <2> HIDE DEF est_cfg
  <2>5. QED
    BY <2>2, <2>3, <2>4, ZeroFinite DEF ControllerConfigs
<1>5. SoundController(ZeroController)
  <2>1. {} \in Latched
    BY DEF Latched
  <2> DEFINE cfg == ZeroController.cfg
  <2>2. cfg \in ControllerConfigs
    BY <1>4
  <2>3. ZeroController = [cfg |-> cfg, K_solved |-> 0, P_solved |-> 0, dare_converged |-> FALSE,
          integral |-> 0, u_prev |-> 0, faults |-> {}, is_initialised |-> FALSE]
    BY DEF ZeroController
  <2> HIDE DEF cfg
  <2>4. QED
    BY <2>1, <2>2, <2>3, ZeroFinite DEF SoundController, IsController
<1>6. ~c.is_initialised /\ ~resumed
  BY DEF Init, ZeroController
<1>7. QED
  BY <1>3, <1>5, <1>6, ZeroFinite DEF Init, Inv, Typed, EstimateMatchesDesign, Held

(* Actions that keep both designs keep the match between them. *)
LEMMA DesignKept ==
  ASSUME Inv, SameEstimator(est, est'), kind' = kind, mixed' = mixed,
         c'.is_initialised = c.is_initialised, c'.cfg.est = c.cfg.est, c'.cfg.n = c.cfg.n
  PROVE  EstimateMatchesDesign'
  BY DEF Inv, EstimateMatchesDesign, SameEstimator, SameDesign

(* Seeding by init and reset. *)
LEMMA SeededSound ==
  ASSUME NEW k, SoundController(k)
  PROVE  SoundController(Seeded(k)) /\ Seeded(k).cfg = k.cfg
         /\ Seeded(k).is_initialised = k.is_initialised /\ Seeded(k).faults = {}
<1>1. {} \in Latched
  BY DEF Latched
<1>2. QED
  BY <1>1, ZeroFinite DEF SoundController, IsController, Seeded

(* The estimator of a controller that is being initialised. *)
LEMMA EmbeddedInitSound ==
  ASSUME Inv, NEW cfg \in Configs[kind], LqrValidConfig(cfg)
  PROVE  LET res == EmbeddedInit(est, cfg)
         IN  /\ SoundEstimator(res.inst)
             /\ kind = "SS" /\ res.ret # "NONE" => ~res.inst.is_initialised
             /\ kind = "LQG" /\ res.ret = "NONE" =>
                  res.inst.kalman.is_initialised /\ res.inst.kalman.cfg.n = cfg.n
             /\ kind # "LQG" /\ res.ret = "NONE" => Matches(res.inst, cfg.est)
<1>1. cfg \in ControllerConfigs
  BY ValidConfigSound DEF Inv, Typed
<1>2. cfg.est \in EstimatorConfigs
  BY <1>1 DEF ControllerConfigs
<1>3. SoundEstimator(est)
  BY DEF Inv
<1>4. CASE kind = "LQG"
  BY <1>1, <1>3, <1>4, LqgKalmanInitSound DEF EmbeddedInit
<1>5. CASE kind # "LQG"
  BY <1>2, <1>3, <1>5, EstimatorInitSound DEF EmbeddedInit
<1>6. QED
  BY <1>4, <1>5

(* The inits of the three kinds, at every stage they can fail. *)
LEMMA InitialiseInv == ASSUME Inv, Initialise PROVE Inv'
<1>1. PICK cfg \in Configs[kind] :
        /\ LqrValidConfig(cfg)
        /\ Call
        /\ resumed' = FALSE
        /\ \E gain \in {ControlGain(cfg)}, res \in {EmbeddedInit(est, cfg)} :
             LET configured == [c EXCEPT !.cfg = cfg, !.dare_converged = kind = "LQR" /\ gain.ok
                                                            /\ cfg.gain_mode = "DARE"]
                 tuned == [configured EXCEPT !.K_solved = gain.K, !.P_solved = gain.P]
             IN  IF ~gain.ok THEN c' = configured /\ mixed' = TRUE /\ UNCHANGED est
                 ELSE /\ est' = res.inst
                      /\ mixed' = (res.ret # "NONE")
                      /\ c' = IF res.ret # "NONE" THEN tuned
                              ELSE [Seeded(tuned) EXCEPT !.is_initialised = TRUE]
  BY DEF Initialise
<1> DEFINE gain == ControlGain(cfg)
           res == EmbeddedInit(est, cfg)
           dare == kind = "LQR" /\ gain.ok /\ cfg.gain_mode = "DARE"
           K == gain.K
           P == gain.P
           configured == [c EXCEPT !.cfg = cfg, !.dare_converged = dare]
           tuned == [configured EXCEPT !.K_solved = K, !.P_solved = P]
           ready == [Seeded(tuned) EXCEPT !.is_initialised = TRUE]
<1>2. \/ /\ ~gain.ok
         /\ c' = configured /\ mixed' = TRUE /\ est' = est
      \/ /\ res.ret # "NONE"
         /\ c' = tuned /\ mixed' = TRUE /\ est' = res.inst
      \/ /\ res.ret = "NONE"
         /\ c' = ready /\ mixed' = FALSE /\ est' = res.inst
  BY <1>1
<1>3. kind = "SS" => gain.ok
  BY DEF ControlGain
<1>4. cfg \in ControllerConfigs /\ LqrValidLimits(cfg) /\ ValidIntegral(cfg)
  BY <1>1, ValidConfigSound DEF Inv, Typed
<1>5. /\ SoundEstimator(res.inst)
      /\ kind = "SS" /\ res.ret # "NONE" => ~res.inst.is_initialised
      /\ kind = "LQG" /\ res.ret = "NONE" =>
           res.inst.kalman.is_initialised /\ res.inst.kalman.cfg.n = cfg.n
      /\ kind # "LQG" /\ res.ret = "NONE" => Matches(res.inst, cfg.est)
  BY <1>1, EmbeddedInitSound
<1>6. kind' = kind /\ external' = external /\ u' = u /\ ret' = "NONE"
  BY <1>1 DEF Call
<1>7. resumed' = FALSE
  BY <1>1
<1> HIDE DEF gain, res, dare, K, P
<1>8. SoundController(configured) /\ configured.cfg = cfg
  BY <1>4 DEF Inv, SoundController, IsController
<1> HIDE DEF configured
<1>9. SoundController(tuned) /\ tuned.cfg = cfg
  BY <1>8 DEF SoundController, IsController
<1> HIDE DEF tuned
<1>10. SoundController(ready) /\ ready.cfg = cfg /\ ready.is_initialised
  <2> DEFINE seeded == Seeded(tuned)
  <2>1. SoundController(seeded) /\ seeded.cfg = cfg
    BY <1>9, SeededSound
  <2> HIDE DEF seeded
  <2>2. SoundController([seeded EXCEPT !.is_initialised = TRUE])
    BY <1>4, <2>1 DEF SoundController, IsController
  <2>3. /\ [seeded EXCEPT !.is_initialised = TRUE].cfg = cfg
        /\ [seeded EXCEPT !.is_initialised = TRUE].is_initialised
    BY <2>1 DEF SoundController, IsController
  <2>4. QED
    BY <2>2, <2>3 DEF seeded
<1> HIDE DEF ready
<1>11. Typed' /\ Held'
  BY <1>2, <1>6, <1>7 DEF Inv, Typed, Held
<1>12. SoundController(c') /\ SoundEstimator(est')
  BY <1>2, <1>5, <1>8, <1>9, <1>10 DEF Inv
<1>13. EstimateMatchesDesign'
  <2>1. CASE mixed' = TRUE
    BY <1>2, <1>3, <1>5, <1>6, <2>1 DEF EstimateMatchesDesign
  <2>2. CASE mixed' = FALSE /\ kind = "LQG"
    BY <1>2, <1>5, <1>6, <1>10, <2>2 DEF EstimateMatchesDesign
  <2>3. CASE mixed' = FALSE /\ kind # "LQG"
    BY <1>2, <1>5, <1>6, <1>10, <2>3 DEF EstimateMatchesDesign, Matches
  <2>4. QED
    BY <1>2, <2>1, <2>2, <2>3
<1>14. QED
  BY <1>11, <1>12, <1>13 DEF Inv

(* Reset. *)
LEMMA ResetInv == ASSUME Inv, Reset PROVE Inv'
<1>1. /\ c' = Seeded(c) /\ resumed' = FALSE /\ mixed' = mixed
      /\ kind' = kind /\ external' = external /\ u' = u /\ ret' = "NONE"
      /\ est' = IF kind = "LQG" THEN [est EXCEPT !.kalman = KfReset(est.kalman)]
                ELSE EstimatorReset(est)
  BY DEF Reset, Call
<1>2. SoundEstimator(est') /\ SameEstimator(est, est')
  <2>1. CASE kind = "LQG"
    BY <1>1, <2>1, KfResetSound, WithFilter DEF Inv, SoundEstimator
  <2>2. CASE kind # "LQG"
    BY <1>1, <2>2, EstimatorResetSound DEF Inv
  <2>3. QED
    BY <2>1, <2>2
<1>3. SoundController(c') /\ c'.cfg = c.cfg /\ c'.is_initialised = c.is_initialised
  BY <1>1, SeededSound DEF Inv
<1>4. EstimateMatchesDesign'
  BY <1>1, <1>2, <1>3, DesignKept
<1>5. QED
  BY <1>1, <1>2, <1>3, <1>4 DEF Inv, Typed, Held

(* Clearing the faults. *)
LEMMA FaultClearInv == ASSUME Inv, FaultClear PROVE Inv'
<1>1. /\ c' = [c EXCEPT !.faults = {}] /\ est' = est /\ mixed' = mixed /\ resumed' = resumed
      /\ kind' = kind /\ external' = external /\ u' = u /\ ret' = "NONE"
  BY DEF FaultClear, Call
<1>2. {} \in Latched
  BY DEF Latched
<1>3. /\ SoundController(c') /\ c'.cfg = c.cfg /\ c'.u_prev = c.u_prev
      /\ c'.is_initialised = c.is_initialised
  BY <1>1, <1>2 DEF Inv, SoundController, IsController
<1>4. EstimateMatchesDesign'
  BY <1>1, <1>3, DesignKept DEF SameEstimator, SameDesign
<1>5. QED
  BY <1>1, <1>3, <1>4 DEF Inv, Typed, Held

(* Retuning. *)
LEMMA SetGainsInv == ASSUME Inv, SetGains PROVE Inv'
<1>1. PICK g \in GainPairs : c' = [c EXCEPT !.K_solved = g[1], !.cfg.Kr = g[2]]
  BY DEF SetGains
<1>2. /\ est' = est /\ mixed' = mixed /\ resumed' = resumed
      /\ kind' = kind /\ external' = external /\ u' = u /\ ret' = "NONE"
  BY DEF SetGains, Call
<1> DEFINE K == g[1]
           Kr == g[2]
           cfg == [c.cfg EXCEPT !.Kr = Kr]
<1>3. Kr \in Float
  BY StateFeedbackAssumption
<1>4. c.cfg \in ControllerConfigs
  BY DEF Inv, SoundController, IsController
<1>5. c' = [c EXCEPT !.K_solved = K, !.cfg = cfg]
  BY <1>1
<1> HIDE DEF K, Kr
<1>6. /\ cfg \in ControllerConfigs /\ cfg.est = c.cfg.est /\ cfg.n = c.cfg.n
      /\ cfg.u_min = c.cfg.u_min /\ cfg.u_max = c.cfg.u_max
      /\ cfg.safe_policy = c.cfg.safe_policy
      /\ LqrValidLimits(c.cfg) => LqrValidLimits(cfg)
      /\ ValidIntegral(c.cfg) => ValidIntegral(cfg)
  BY <1>3, <1>4 DEF ControllerConfigs, LqrValidLimits, ValidIntegral
<1> HIDE DEF cfg
<1>7. /\ SoundController(c') /\ c'.cfg = cfg /\ c'.u_prev = c.u_prev
      /\ c'.is_initialised = c.is_initialised
  BY <1>5, <1>6 DEF Inv, SoundController, IsController
<1>8. EstimateMatchesDesign'
  BY <1>2, <1>6, <1>7, DesignKept DEF SameEstimator, SameDesign
<1>9. QED
  BY <1>2, <1>6, <1>7, <1>8 DEF Inv, Typed, Held

(* The application writes the external estimate. *)
LEMMA WriteExternalInv == ASSUME Inv, WriteExternal PROVE Inv'
<1>1. /\ c' = c /\ est' = est /\ mixed' = mixed /\ resumed' = resumed
      /\ kind' = kind /\ u' = u /\ ret' = "NONE" /\ external' \in Measurements
  BY DEF WriteExternal
<1>2. external' \in Float
  BY <1>1, StateFeedbackAssumption
<1>3. QED
  BY <1>1, <1>2 DEF Inv, Typed, Held, EstimateMatchesDesign

(* Feeding the estimator changes estimate and covariance only. *)
LEMMA EstimatorInv == ASSUME Inv, FeedObserver \/ Predict \/ Update PROVE Inv'
<1>1. /\ c' = c /\ mixed' = mixed /\ resumed' = resumed
      /\ kind' = kind /\ external' = external /\ u' = u /\ ret' = "NONE"
  BY DEF FeedObserver, Predict, Update, Call
<1>2. SoundEstimator(est') /\ SameEstimator(est, est')
  <2>1. SoundEstimator(est) /\ SoundObserver(est.observer) /\ SoundFilter(est.kalman)
    BY DEF Inv, SoundEstimator
  <2>2. CASE FeedObserver
    BY <2>1, <2>2, ObsStepSound, WithObserver DEF FeedObserver
  <2>3. CASE Predict
    BY <2>1, <2>3, KfPredictSound, WithFilter DEF Predict
  <2>4. CASE Update
    BY <2>1, <2>4, KfUpdateSound, WithFilter DEF Update
  <2>5. QED
    BY <2>2, <2>3, <2>4
<1>3. EstimateMatchesDesign'
  BY <1>1, <1>2, DesignKept
<1>4. QED
  BY <1>1, <1>2, <1>3 DEF Inv, Typed, Held

(* A step fails or succeeds. *)
LEMMA StepOutcome ==
  ASSUME Inv, Step
  PROVE  \/ \E codes \in Latched :
              /\ codes # {} /\ (c.faults # {} => codes = c.faults)
              /\ c' = [c EXCEPT !.faults = codes]
              /\ u' \in Finite /\ u' \in c.cfg.u_min..c.cfg.u_max
              /\ ret' \in FeedbackFault
              /\ c.cfg.safe_policy = "HOLD_LAST" => u' = Clamp(c.u_prev, c.cfg.u_min, c.cfg.u_max)
         \/ \E dt \in Periods, i \in Finite :
              /\ c.faults = {}
              /\ u' \in Finite /\ ret' = "NONE"
              /\ c' = [c EXCEPT !.integral = i, !.u_prev = u']
              /\ u' \in Min({c.u_prev, c.cfg.u_min})..Max({c.u_prev, c.cfg.u_max})
              /\ GoodDt(dt)
              /\ c.cfg.du_max <= 0 \/ Allowed(u' - c.u_prev, dt)
<1>1. PICK r \in References, dt \in Periods :
        IF Evaluate(r, dt) # {} THEN SsFailStep(Evaluate(r, dt)) ELSE CommitStep(r, dt)
  BY DEF Step
<1>2. c.is_initialised
  BY DEF Step
<1>3. CASE Evaluate(r, dt) # {}
  <2> DEFINE codes == Evaluate(r, dt)
  <2>1. codes \in Latched /\ (c.faults # {} => codes = c.faults)
    BY EvaluateTyped
  <2>2. SsFailStep(codes) /\ codes # {}
    BY <1>1, <1>3
  <2> HIDE DEF codes
  <2>3. /\ c' = [c EXCEPT !.faults = codes]
        /\ u' \in Finite /\ u' \in c.cfg.u_min..c.cfg.u_max
        /\ ret' \in FeedbackFault
        /\ c.cfg.safe_policy = "HOLD_LAST" => u' = Clamp(c.u_prev, c.cfg.u_min, c.cfg.u_max)
    BY <1>2, <2>1, <2>2, FailOutcome
  <2>4. QED
    BY <2>1, <2>2, <2>3
<1>4. CASE Evaluate(r, dt) = {}
  <2> DEFINE i == IntegralNext(r, dt)
  <2>1. CommitStep(r, dt)
    BY <1>1, <1>4
  <2>2. i \in Finite
    BY <1>2, <1>4, IntegralFinite
  <2>3. c.faults = {}
    BY <1>4, EvaluateTyped
  <2>4. /\ u' \in Finite /\ ret' = "NONE"
        /\ c' = [c EXCEPT !.integral = i, !.u_prev = u']
        /\ u' \in Min({c.u_prev, c.cfg.u_min})..Max({c.u_prev, c.cfg.u_max})
        /\ GoodDt(dt)
        /\ c.cfg.du_max <= 0 \/ Allowed(u' - c.u_prev, dt)
    BY <1>2, <1>4, <2>1, CommitOutcome
  <2> HIDE DEF i
  <2>5. QED
    BY <2>2, <2>3, <2>4
<1>5. QED
  BY <1>3, <1>4

(* A step. *)
LEMMA StepInv == ASSUME Inv, Step PROVE Inv'
<1>1. /\ kind' = kind /\ est' = est /\ external' = external /\ mixed' = mixed
      /\ resumed' \in BOOLEAN
  BY DEF Step, Inv, Typed
<1>2. /\ u' \in Finite /\ ret' \in FeedbackFault \union {"NONE"}
      /\ SoundController(c') /\ c'.cfg = c.cfg /\ c'.is_initialised = c.is_initialised
      /\ Held'
  <2>1. CASE \E codes \in Latched :
               /\ codes # {} /\ (c.faults # {} => codes = c.faults)
               /\ c' = [c EXCEPT !.faults = codes]
               /\ u' \in Finite /\ u' \in c.cfg.u_min..c.cfg.u_max
               /\ ret' \in FeedbackFault
               /\ c.cfg.safe_policy = "HOLD_LAST" =>
                    u' = Clamp(c.u_prev, c.cfg.u_min, c.cfg.u_max)
    <3>1. PICK codes \in Latched : c' = [c EXCEPT !.faults = codes]
      BY <2>1
    <3>2. /\ SoundController(c') /\ c'.cfg = c.cfg /\ c'.u_prev = c.u_prev
          /\ c'.is_initialised = c.is_initialised
      BY <3>1 DEF Inv, SoundController, IsController
    <3>3. QED
      BY <2>1, <3>2 DEF Held
  <2>2. CASE \E dt \in Periods, i \in Finite :
               /\ c.faults = {}
               /\ u' \in Finite /\ ret' = "NONE"
               /\ c' = [c EXCEPT !.integral = i, !.u_prev = u']
               /\ u' \in Min({c.u_prev, c.cfg.u_min})..Max({c.u_prev, c.cfg.u_max})
               /\ GoodDt(dt)
               /\ c.cfg.du_max <= 0 \/ Allowed(u' - c.u_prev, dt)
    <3>1. PICK i \in Finite : c' = [c EXCEPT !.integral = i, !.u_prev = u']
      BY <2>2
    <3>2. u' \in Finite /\ ret' = "NONE"
      BY <2>2
    <3>3. /\ SoundController(c') /\ c'.cfg = c.cfg /\ c'.u_prev = u'
          /\ c'.is_initialised = c.is_initialised
      BY <3>1, <3>2 DEF Inv, SoundController, IsController
    <3>4. QED
      BY <3>2, <3>3 DEF Held
  <2>3. QED
    BY <2>1, <2>2, StepOutcome
<1>3. EstimateMatchesDesign'
  BY <1>1, <1>2, DesignKept DEF SameEstimator, SameDesign
<1>4. QED
  BY <1>1, <1>2, <1>3 DEF Inv, Typed

(* Every call preserves the invariant. *)
LEMMA NextInv == Inv /\ [Next]_vars => Inv'
<1> SUFFICES ASSUME Inv, [Next]_vars PROVE Inv'
  OBVIOUS
<1>1. CASE Next
  BY <1>1, InitialiseInv, ResetInv, FaultClearInv, SetGainsInv, WriteExternalInv, EstimatorInv,
     StepInv DEF Next
<1>2. CASE UNCHANGED vars
  BY <1>2 DEF vars, Inv, Typed, Held, EstimateMatchesDesign
<1>3. QED
  BY <1>1, <1>2

(* The invariant the theorems below rest on. *)
THEOREM Invariance == Spec => []Inv
  BY InitInv, NextInv, PTL DEF Spec
-----------------------------------------------------------------------------
(* EstimateMatchesDesign: a controller works on an estimator of its own    *)
(* design, and a state-space controller on none after a failed init.       *)
THEOREM OwnDesign == Spec => []EstimateMatchesDesign
<1>1. Inv => EstimateMatchesDesign
  BY DEF Inv
<1>2. QED
  BY <1>1, Invariance, PTL

(* CovarianceNonNegative: the filter's covariance, in the forms that keep  *)
(* it from becoming negative: Joseph's, and the simple one on measurement  *)
(* noise that outweighs the rounding of the gain.                          *)
THEOREM CovarianceSafety == Spec => []CovarianceNonNegative
<1>1. Inv => CovarianceNonNegative
  BY DEF Inv, SoundEstimator, SoundFilter, CovNonNegative, CovarianceNonNegative
<1>2. QED
  BY <1>1, Invariance, PTL

(* LimitsRecovered: outputs are within the limits, or on their way there.  *)
THEOREM LimitsRecover == Spec => LimitsRecovered
<1>1. Inv /\ [Next]_vars =>
        [Step => IF ret' = "NONE" THEN u' \in Min({c.u_prev, c.cfg.u_min})..Max({c.u_prev, c.cfg.u_max})
                 ELSE u' \in c.cfg.u_min..c.cfg.u_max]_vars
  <2> SUFFICES ASSUME Inv, Step
               PROVE  IF ret' = "NONE"
                      THEN u' \in Min({c.u_prev, c.cfg.u_min})..Max({c.u_prev, c.cfg.u_max})
                      ELSE u' \in c.cfg.u_min..c.cfg.u_max
    OBVIOUS
  <2>1. "NONE" \notin FeedbackFault
    BY DEF FeedbackFault
  <2>2. QED
    BY <2>1, StepOutcome
<1>2. QED
  BY <1>1, Invariance, PTL DEF Spec, LimitsRecovered

(* NoJumpAcrossFaults: faults and their clearing do not move a HOLD_LAST   *)
(* actuator; the next success moves it at most as the rate limit allows.   *)
THEOREM NoJump == Spec => NoJumpAcrossFaults
<1> DEFINE Gentle ==
      Step /\ resumed /\ c.cfg.safe_policy = "HOLD_LAST" /\ c.u_prev \in c.cfg.u_min..c.cfg.u_max =>
        \/ u' = u
        \/ ret' = "NONE" /\ c.cfg.du_max <= 0
        \/ ret' = "NONE" /\ \E dt \in Periods : Allowed(u' - u, dt)
<1>1. Inv /\ [Next]_vars => [Gentle]_vars
  <2> SUFFICES ASSUME Inv, Step, resumed, c.cfg.safe_policy = "HOLD_LAST",
                      c.u_prev \in c.cfg.u_min..c.cfg.u_max
               PROVE  \/ u' = u
                      \/ ret' = "NONE" /\ c.cfg.du_max <= 0
                      \/ ret' = "NONE" /\ \E dt \in Periods : Allowed(u' - u, dt)
    OBVIOUS
  <2>1. c.u_prev \in Int /\ c.cfg.u_min \in Int /\ c.cfg.u_max \in Int /\ c.cfg.u_min <= c.cfg.u_max
    BY FiniteFacts, LimitsTyped DEF Inv, SoundController, IsController, Step
  <2>2. Clamp(c.u_prev, c.cfg.u_min, c.cfg.u_max) = c.u_prev
    BY <2>1, ClampFixed
  <2>3. u = c.u_prev
    BY <2>2 DEF Inv, Held
  <2>4. QED
    BY <2>2, <2>3, StepOutcome
<1>2. QED
  BY <1>1, Invariance, PTL DEF Spec, NoJumpAcrossFaults

(* ImplementsFaultLatch: with every call of its API, re-initialisation and *)
(* the failures of it included, the controller is a fault latch.           *)
THEOREM FaultLatchRefinement == Spec => ImplementsFaultLatch
<1>1. Init => Latch!Init
  BY FiniteFacts DEF Init, Latch!Init, ZeroController, Finite
<1>2. Inv /\ [Next]_vars => [Latch!Next]_<<c.faults, u>>
  <2> SUFFICES ASSUME Inv, [Next]_vars PROVE [Latch!Next]_<<c.faults, u>>
    OBVIOUS
  <2>1. u \in -FloatMax..FloatMax /\ u' \in -FloatMax..FloatMax
    BY NextInv DEF Inv, Typed, Finite
  <2>2. CASE Step
    <3>1. \/ \E f \in FeedbackFault : c'.faults = {f} /\ (c.faults # {} => c'.faults = c.faults)
          \/ c.faults = {} /\ c'.faults = {}
      <4>1. SoundController(c)
        BY DEF Inv
      <4>2. ASSUME NEW codes \in Latched, codes # {}, c.faults # {} => codes = c.faults,
                   c' = [c EXCEPT !.faults = codes]
            PROVE  \E f \in FeedbackFault :
                     c'.faults = {f} /\ (c.faults # {} => c'.faults = c.faults)
        <5>1. c'.faults = codes
          BY <4>1, <4>2 DEF SoundController, IsController
        <5>2. \E f \in FeedbackFault : codes = {f}
          BY <4>2 DEF Latched
        <5>3. QED
          BY <4>2, <5>1, <5>2
      <4>3. ASSUME NEW i \in Finite, c.faults = {}, c' = [c EXCEPT !.integral = i, !.u_prev = u']
            PROVE  c'.faults = {}
        BY <4>1, <4>3 DEF SoundController, IsController
      <4>4. QED
        BY <2>2, <4>2, <4>3, StepOutcome
    <3>2. QED
      BY <2>1, <3>1 DEF Latch!Next, Latch!Compute, Latch!Trip, Latch!Hold
  <2>3. CASE Next /\ ~Step
    <3>1. u' = u
      BY <2>3 DEF Next, Initialise, Reset, FaultClear, SetGains, WriteExternal, FeedObserver,
                  Predict, Update, Call
    <3>2. c'.faults = c.faults \/ c'.faults = {}
      <4>1. SoundController(c)
        BY DEF Inv
      <4>2. CASE Initialise
        BY <4>1, <4>2 DEF Initialise, Seeded, SoundController, IsController
      <4>3. CASE Reset
        BY <4>1, <4>3, SeededSound DEF Reset
      <4>4. CASE FaultClear
        BY <4>1, <4>4 DEF FaultClear, SoundController, IsController
      <4>5. CASE SetGains
        BY <4>1, <4>5 DEF SetGains, SoundController, IsController
      <4>6. CASE WriteExternal \/ FeedObserver \/ Predict \/ Update
        BY <4>6 DEF WriteExternal, FeedObserver, Predict, Update
      <4>7. QED
        BY <2>3, <4>2, <4>3, <4>4, <4>5, <4>6 DEF Next
    <3>3. QED
      BY <2>1, <3>1, <3>2 DEF Latch!Next, Latch!Compute, Latch!Hold, Latch!Clear
  <2>4. CASE UNCHANGED vars
    BY <2>4 DEF vars
  <2>5. QED
    BY <2>2, <2>3, <2>4
<1>3. QED
  BY <1>1, <1>2, Invariance, PTL DEF Spec, ImplementsFaultLatch, Latch!Spec
-----------------------------------------------------------------------------
(***************************************************************************)
(* The type invariant needs one hypothesis: that no configuration is       *)
(* solved to an infinite gain or solution.  The code does not check it     *)
(* (SolvedGainIsFinite is violated), and no other property here needs it.  *)
(***************************************************************************)
SolutionsAreFinite ==
  \A cfg \in Configs["LQR"] \union Configs["LQG"] :
    LET sys == [A |-> cfg.A, B |-> cfg.B, Q |-> cfg.Q, R |-> cfg.R]
        dare == DareSolve(sys, cfg.max_iter, cfg.tol)
    IN  cfg.gain_mode # "PRECOMPUTED" /\ dare.ok => IsFinite(dare.K) /\ IsFinite(dare.P)

GainFinite == IsFinite(c.K_solved) /\ IsFinite(c.P_solved)

(* The gain an accepted init commits is finite, if every solution is. *)
LEMMA ControlGainFinite ==
  ASSUME SolutionsAreFinite, kind \in {"SS", "LQR", "LQG"}, NEW cfg \in Configs[kind],
         LqrValidConfig(cfg), ControlGain(cfg).ok
  PROVE  IsFinite(ControlGain(cfg).K) /\ IsFinite(ControlGain(cfg).P)
<1>1. CASE kind = "SS" \/ cfg.gain_mode = "PRECOMPUTED"
  <2>1. ControlGain(cfg).K = cfg.K /\ ControlGain(cfg).P = 0
    BY <1>1 DEF ControlGain
  <2>2. IsFinite(cfg.K)
    BY <1>1 DEF LqrValidConfig, ValidSs, ValidLqr, ValidLqg, FiniteAll
  <2>3. QED
    BY <2>1, <2>2, ZeroFinite, FiniteMember
<1>2. CASE kind # "SS" /\ cfg.gain_mode # "PRECOMPUTED"
  <2> DEFINE dare == DareSolve([A |-> cfg.A, B |-> cfg.B, Q |-> cfg.Q, R |-> cfg.R],
                               cfg.max_iter, cfg.tol)
  <2>1. ControlGain(cfg) = dare
    BY <1>2 DEF ControlGain
  <2>2. cfg \in Configs["LQR"] \union Configs["LQG"]
    BY <1>2
  <2>3. dare.ok => IsFinite(dare.K) /\ IsFinite(dare.P)
    BY <1>2, <2>2 DEF SolutionsAreFinite
  <2> HIDE DEF dare
  <2>4. QED
    BY <2>1, <2>3
<1>3. QED
  BY <1>1, <1>2

(* Every call keeps it finite. *)
LEMMA GainFiniteInv ==
  ASSUME SolutionsAreFinite PROVE Inv /\ GainFinite /\ [Next]_vars => GainFinite'
<1> SUFFICES ASSUME Inv, GainFinite, [Next]_vars PROVE GainFinite'
  OBVIOUS
<1>1. SoundController(c)
  BY DEF Inv
<1>2. CASE Initialise
  <2>1. PICK cfg \in Configs[kind] :
          /\ LqrValidConfig(cfg)
          /\ \E gain \in {ControlGain(cfg)}, res \in {EmbeddedInit(est, cfg)} :
               LET configured == [c EXCEPT !.cfg = cfg, !.dare_converged = kind = "LQR" /\ gain.ok
                                                              /\ cfg.gain_mode = "DARE"]
                   tuned == [configured EXCEPT !.K_solved = gain.K, !.P_solved = gain.P]
               IN  IF ~gain.ok THEN c' = configured /\ mixed' = TRUE /\ UNCHANGED est
                   ELSE /\ est' = res.inst
                        /\ mixed' = (res.ret # "NONE")
                        /\ c' = IF res.ret # "NONE" THEN tuned
                                ELSE [Seeded(tuned) EXCEPT !.is_initialised = TRUE]
    BY <1>2 DEF Initialise
  <2> DEFINE gain == ControlGain(cfg)
             res == EmbeddedInit(est, cfg)
             dare == kind = "LQR" /\ gain.ok /\ cfg.gain_mode = "DARE"
             K == gain.K
             P == gain.P
             configured == [c EXCEPT !.cfg = cfg, !.dare_converged = dare]
             tuned == [configured EXCEPT !.K_solved = K, !.P_solved = P]
             ready == [Seeded(tuned) EXCEPT !.is_initialised = TRUE]
  <2>2. \/ c' = configured
        \/ gain.ok /\ c' = tuned
        \/ gain.ok /\ c' = ready
    BY <2>1
  <2>3. gain.ok => IsFinite(K) /\ IsFinite(P)
    BY <2>1, ControlGainFinite DEF Inv, Typed
  <2> HIDE DEF gain, dare, K, P
  <2>4. configured.K_solved = c.K_solved /\ configured.P_solved = c.P_solved
    BY <1>1 DEF SoundController, IsController
  <2>5. /\ tuned.K_solved = K /\ tuned.P_solved = P
        /\ ready.K_solved = K /\ ready.P_solved = P
    BY <1>1 DEF SoundController, IsController, Seeded
  <2> HIDE DEF configured, tuned, ready
  <2>6. QED
    BY <2>2, <2>3, <2>4, <2>5 DEF GainFinite
<1>3. CASE SetGains
  <2>1. PICK g \in GainPairs :
          IsFinite(g[1]) /\ c' = [c EXCEPT !.K_solved = g[1], !.cfg.Kr = g[2]]
    BY <1>3 DEF SetGains, FiniteAll
  <2> DEFINE K == g[1]
             cfg == [c.cfg EXCEPT !.Kr = g[2]]
  <2>2. c' = [c EXCEPT !.K_solved = K, !.cfg = cfg]
    BY <2>1
  <2>3. IsFinite(K)
    BY <2>1
  <2> HIDE DEF K, cfg
  <2>4. c'.K_solved = K /\ c'.P_solved = c.P_solved
    BY <1>1, <2>2 DEF SoundController, IsController
  <2>5. QED
    BY <2>3, <2>4 DEF GainFinite
<1>4. CASE Step
  <2>1. ASSUME NEW codes, c' = [c EXCEPT !.faults = codes]
        PROVE  c'.K_solved = c.K_solved /\ c'.P_solved = c.P_solved
    BY <1>1, <2>1 DEF SoundController, IsController
  <2>2. ASSUME NEW i, c' = [c EXCEPT !.integral = i, !.u_prev = u']
        PROVE  c'.K_solved = c.K_solved /\ c'.P_solved = c.P_solved
    BY <1>1, <2>2 DEF SoundController, IsController
  <2>3. c'.K_solved = c.K_solved /\ c'.P_solved = c.P_solved
    BY <1>4, <2>1, <2>2, StepOutcome
  <2>4. QED
    BY <2>3 DEF GainFinite
<1>5. CASE Reset \/ FaultClear
  <2>1. c'.K_solved = c.K_solved /\ c'.P_solved = c.P_solved
    BY <1>1, <1>5 DEF Reset, FaultClear, Seeded, SoundController, IsController
  <2>2. QED
    BY <2>1 DEF GainFinite
<1>6. CASE UNCHANGED c
  BY <1>6 DEF GainFinite
<1>7. QED
  BY <1>2, <1>3, <1>4, <1>5, <1>6
  DEF Next, vars, WriteExternal, FeedObserver, Predict, Update

(* TypeOK: estimates, covariances, histories and outputs stay finite, and  *)
(* at most one fault is latched.                                           *)
THEOREM TypeCorrectness == ASSUME SolutionsAreFinite PROVE Spec => []TypeOK
<1>1. Init => GainFinite
  BY ZeroFinite, FiniteMember DEF Init, ZeroController, GainFinite
<1>2. Inv /\ GainFinite /\ [Next]_vars => GainFinite'
  BY GainFiniteInv
<1>3. Inv /\ GainFinite => TypeOK
  <2> SUFFICES ASSUME Inv, GainFinite PROVE TypeOK
    OBVIOUS
  <2>1. /\ c.u_prev \in Finite /\ c.integral \in Finite /\ c.is_initialised \in BOOLEAN
        /\ c.faults \in Latched
    BY DEF Inv, SoundController, IsController
  <2>2. c.faults \subseteq FeedbackFault /\ Cardinality(c.faults) <= 1
    <3>1. CASE c.faults = {}
      BY <3>1, FS_EmptySet
    <3>2. ASSUME NEW f \in FeedbackFault, c.faults = {f}
          PROVE  c.faults \subseteq FeedbackFault /\ Cardinality(c.faults) <= 1
      <4>1. Cardinality(c.faults) = 1
        BY <3>2, FS_Singleton
      <4>2. QED
        BY <3>2, <4>1
    <3>3. QED
      BY <2>1, <3>1, <3>2 DEF Latched
  <2>3. /\ est.observer.x_hat \in Finite /\ est.kalman.x_hat \in Finite /\ est.kalman.P \in Finite
        /\ est.is_initialised \in BOOLEAN
    BY DEF Inv, SoundEstimator, Estimators, SoundObserver, Observers, SoundFilter, Filters
  <2>4. FiniteAll({u, c.u_prev, c.integral, c.K_solved, c.P_solved,
                   est.observer.x_hat, est.kalman.x_hat, est.kalman.P})
    BY <2>1, <2>3, FiniteMember DEF Inv, Typed, GainFinite, FiniteAll
  <2>5. QED
    BY <2>1, <2>2, <2>3, <2>4 DEF Inv, Typed, TypeOK
<1>4. QED
  BY <1>1, <1>2, <1>3, Invariance, PTL DEF Spec
=============================================================================
