---------------------------- MODULE AutotuneProofs ----------------------------
(***************************************************************************)
(* Theorems about the relay auto-tuner and the controller it borrows, for  *)
(* every configuration, sample and controller the assumptions of Autotune  *)
(* admit.                                                                  *)
(*                                                                         *)
(* The inductive invariant is Inv.  The time bookkeeping needs to know     *)
(* that the peaks are ordered while the relay runs and that a period is at *)
(* least one unit; handing the controller back needs to know that what     *)
(* was saved would be accepted, whatever the application did meanwhile.    *)
(***************************************************************************)
EXTENDS Autotune, RonLemmas

GoodGain(x) == IsFinite(x) /\ x >= 0

(* A run needs a valid configuration and a controller to give back. *)
HasOwner(a) ==
  /\ a.is_initialised => ValidAtConfig(a.cfg)
  /\ Running(a) \/ a.phase = "DONE" => a.pid_saved
  /\ a.pid_saved => a.is_initialised

(* What the hysteresis band repeats is one of the two relay outputs. *)
Primed(a) == Running(a) => Abs(a.u_relay_prev - a.cfg.u_bias) = a.cfg.relay_amplitude

PeaksOrdered(a) == a.phase = "RELAY" => a.pv_min <= a.pv_max

Counted(a) ==
  /\ a.half_period_sum + a.time_since_cross <= a.elapsed_s
  /\ a.half_period_sum >= a.half_period_count

(* A completed run; only results that overflowed are not gains. *)
Complete(a) ==
  /\ a.half_period_count = HalfPeriodsNeeded(a)
  /\ IsFinite(a.Tu) => a.cfg.min_cycles * a.Tu <= a.elapsed_s
  /\ a.pv_min < a.pv_max
  /\ \A x \in {a.Kp, a.Ki, a.Kd} : x = NaN \/ GoodGain(x)

(* The tuner, before and after the clock is compared with the timeout. *)
Untimed(a) ==
  /\ a \in Tuner /\ HasOwner(a) /\ Primed(a) /\ PeaksOrdered(a) /\ Counted(a)
  /\ Running(a) => a.half_period_count < HalfPeriodsNeeded(a)
  /\ a.phase = "DONE" => Complete(a)

Sane(a) == Untimed(a) /\ (Running(a) => a.elapsed_s <= a.cfg.timeout_s)

(* Sound, with every finite output allowed. *)
SoundPid(p) == Sound(p, -FloatMax, FloatMax)

(* What becomes of gains given to controller p, which is q then: they are  *)
(* installed if they are good, and refused without effect if not.          *)
GainsTaken(p, q, fault, Kp, Ki, Kd) ==
  \/ /\ fault = {} /\ ValidGains(q.cfg)
     /\ q.cfg.Kp = Kp /\ q.cfg.Ki = Ki /\ q.cfg.Kd = Kd
  \/ /\ fault = {"CONFIG_INVALID"} /\ q.cfg = p.cfg
     /\ ~GoodGain(Kp) \/ ~GoodGain(Ki) \/ ~GoodGain(Kd)

(* What was saved is what the controller had, and would be accepted. *)
Restorable ==
  at.pid_saved =>
    /\ pid.is_initialised /\ at.saved = origin
    /\ GoodGain(origin.Kp) /\ GoodGain(origin.Ki) /\ GoodGain(origin.Kd)

Inv ==
  /\ Sane(at)
  /\ SoundPid(pid)
  /\ u \in Int
  /\ ret \in SUBSET Fault
  /\ call \in {"start", "step", "apply", "abort", "other"}
  /\ origin \in Snapshot
  /\ Restorable

(* A step keeps what belongs to the run as a whole. *)
SameRun(a, b) ==
  /\ b.cfg = a.cfg /\ b.is_initialised = a.is_initialised
  /\ b.saved = a.saved /\ b.pid_saved = a.pid_saved
-----------------------------------------------------------------------------
(***************************************************************************)
(* The tuner's own step.                                                   *)
(***************************************************************************)

(* The fields of a valid configuration the relay computes with. *)
LEMMA ValidAtConfigTypes ==
  ASSUME NEW c \in AtConfig, ValidAtConfig(c)
  PROVE  /\ c.relay_amplitude \in Int /\ c.relay_amplitude > 0
         /\ c.hysteresis \in Int /\ c.hysteresis >= 0
         /\ c.u_bias \in Int /\ IsFinite(c.u_bias)
         /\ c.min_cycles \in 1..255
         /\ c.timeout_s \in Int /\ c.timeout_s > 0
         /\ c.tuning_rule \in Rule
<1>1. /\ IsFinite(c.relay_amplitude) /\ IsFinite(c.hysteresis) /\ IsFinite(c.u_bias)
      /\ IsFinite(c.timeout_s)
  BY DEF ValidAtConfig
<1>2. c.min_cycles \in UInt8
  BY DEF AtConfig
<1>3. c.min_cycles \in 1..255
  BY <1>2 DEF UInt8, ValidAtConfig
<1>4. QED
  BY <1>1, <1>3, FiniteIsInt DEF ValidAtConfig

(* at_relay_output returns one of the two outputs of the relay. *)
LEMMA RelayOutputPrimed ==
  ASSUME NEW a \in Tuner, ValidAtConfig(a.cfg), NEW e \in Int,
         Abs(a.u_relay_prev - a.cfg.u_bias) = a.cfg.relay_amplitude
  PROVE  /\ RelayOutput(a, e) \in Int
         /\ Abs(RelayOutput(a, e) - a.cfg.u_bias) = a.cfg.relay_amplitude
<1>1. a.cfg \in AtConfig /\ a.u_relay_prev \in Int
  BY DEF Tuner
<1>2. /\ a.cfg.relay_amplitude \in Int /\ a.cfg.relay_amplitude > 0
      /\ a.cfg.hysteresis \in Int /\ a.cfg.u_bias \in Int
  BY <1>1, ValidAtConfigTypes
<1>3. QED
  BY <1>1, <1>2 DEF RelayOutput, Abs

(* The results of at_estimate: the ultimate period covers the cycles, and  *)
(* gains that did not overflow are gains the controller accepts.           *)
LEMMA WithGainsComplete ==
  ASSUME NEW a \in Tuner, ValidAtConfig(a.cfg), Counted(a), a.pv_min < a.pv_max,
         a.half_period_count = HalfPeriodsNeeded(a)
  PROVE  LET b == WithGains(a, UltimateGain(a),
                            Quot(2 * a.half_period_sum, a.half_period_count))
         IN  /\ b.Ku \in Float /\ b.Tu \in Float
             /\ b.Kp \in Float /\ b.Ki \in Float /\ b.Kd \in Float
             /\ \A x \in {b.Kp, b.Ki, b.Kd} : x = NaN \/ GoodGain(x)
             /\ IsFinite(b.Tu) => a.cfg.min_cycles * b.Tu <= a.elapsed_s
             /\ b = [a EXCEPT !.Ku = b.Ku, !.Tu = b.Tu, !.Kp = b.Kp, !.Ki = b.Ki,
                              !.Kd = b.Kd]
<1> DEFINE n  == a.half_period_count
           Ku == UltimateGain(a)
           Tu == Quot(2 * a.half_period_sum, n)
           f  == RuleFactors[a.cfg.tuning_rule]
           kp == Quot(f.kp * Ku, 1000)
           ki == IF IsFinite(Quot(f.ti * Tu, 1000)) THEN Quot(1000 * kp, f.ti * Tu) ELSE 0
           kd == Quot(kp * f.td * Tu, 1000)
           b  == WithGains(a, Ku, Tu)
<1>1. /\ a.cfg \in AtConfig /\ a.pv_min \in Int /\ a.pv_max \in Int
      /\ a.half_period_sum \in Nat /\ n \in UInt16 /\ a.elapsed_s \in Nat
      /\ a.time_since_cross \in Nat
  BY DEF Tuner
<1>2. /\ a.cfg.relay_amplitude \in Int /\ a.cfg.relay_amplitude > 0
      /\ a.cfg.min_cycles \in 1..255 /\ a.cfg.tuning_rule \in Rule
  BY <1>1, ValidAtConfigTypes
<1>3. f.kp \in Nat /\ f.ti \in Nat /\ f.ti > 0 /\ f.td \in Nat
  BY <1>2 DEF Rule, RuleFactors
<1>4. n = 2 * a.cfg.min_cycles /\ n > 0 /\ a.half_period_sum >= n
  BY <1>1, <1>2 DEF HalfPeriodsNeeded, Counted
<1>5. Ku \in Nat
  <2>1. 8000 * a.cfg.relay_amplitude \in Nat
    BY <1>2
  <2>2. /\ 3142 * (a.pv_max - a.pv_min) \in Int
        /\ 3142 * (a.pv_max - a.pv_min) > 0
    BY <1>1
  <2>3. QED
    BY <2>1, <2>2, QuotBounds DEF UltimateGain
<1>6. Tu \in Nat /\ n * Tu <= 2 * a.half_period_sum /\ 2 <= Tu
  <2> DEFINE s == 2 * a.half_period_sum
  <2>1. s \in Nat /\ n \in Int /\ n > 0 /\ 2 * n <= s
    BY <1>1, <1>2, <1>4
  <2> HIDE DEF n, s
  <2>2. Quot(s, n) \in Nat /\ n * Quot(s, n) <= s
    BY <2>1, QuotBounds
  <2>3. 2 <= Quot(s, n)
    BY <2>1, QuotAtLeast
  <2>4. QED
    BY <2>2, <2>3 DEF s
<1> HIDE DEF f, n, Ku, Tu
<1>7. kp \in Nat
  BY <1>3, <1>5, QuotBounds, ProductIsInt
<1> HIDE DEF kp
<1>8. ki \in Nat
  <2>1. f.ti * Tu \in Int /\ f.ti * Tu > 0
    BY <1>3, <1>6, PositiveProduct
  <2>2. 1000 * kp \in Nat
    BY <1>7
  <2>3. QED
    BY <2>1, <2>2, QuotBounds
<1>9. kd \in Nat
  <2>1. kp * f.td \in Nat
    BY <1>3, <1>7
  <2>2. kp * f.td * Tu \in Nat
    BY <2>1, <1>6
  <2>3. QED
    BY <2>2, QuotBounds
<1> HIDE DEF ki, kd
<1>10. /\ b.Ku = Result(Ku) /\ b.Tu = Result(Tu) /\ b.Kp = ResultOf({Ku}, kp)
       /\ b.Ki = ResultOf({Ku}, ki) /\ b.Kd = ResultOf({Ku, Tu}, kd)
       /\ b = [a EXCEPT !.Ku = b.Ku, !.Tu = b.Tu, !.Kp = b.Kp, !.Ki = b.Ki, !.Kd = b.Kd]
  <2>1. b = [a EXCEPT !.Ku = Result(Ku), !.Tu = Result(Tu), !.Kp = ResultOf({Ku}, kp),
                      !.Ki = ResultOf({Ku}, ki), !.Kd = ResultOf({Ku, Tu}, kd)]
    BY DEF WithGains, f, kp, ki, kd
  <2> HIDE DEF b
  <2>2. QED
    BY <2>1 DEF Tuner
<1> HIDE DEF b
<1>11. ASSUME NEW x \in Nat, NEW ops
       PROVE  /\ Result(x) = NaN \/ (Result(x) = x /\ GoodGain(x))
              /\ ResultOf(ops, x) = NaN \/ (ResultOf(ops, x) = x /\ GoodGain(x))
  BY DEF Result, ResultOf, GoodGain
<1>12. /\ b.Ku \in Float /\ b.Tu \in Float /\ b.Kp \in Float /\ b.Ki \in Float /\ b.Kd \in Float
       /\ \A x \in {b.Kp, b.Ki, b.Kd} : x = NaN \/ GoodGain(x)
  BY <1>5, <1>6, <1>7, <1>8, <1>9, <1>10, <1>11 DEF Float
<1>13. IsFinite(b.Tu) => a.cfg.min_cycles * b.Tu <= a.elapsed_s
  <2> SUFFICES ASSUME IsFinite(b.Tu) PROVE a.cfg.min_cycles * b.Tu <= a.elapsed_s
    OBVIOUS
  <2>1. b.Tu = Tu
    BY <1>6, <1>10, <1>11, FiniteIsInt, RonUtilAssumption
  <2>2. a.cfg.min_cycles * Tu \in Int /\ n * Tu = 2 * (a.cfg.min_cycles * Tu)
    BY <1>2, <1>4, <1>6
  <2>3. a.half_period_sum <= a.elapsed_s
    BY <1>1 DEF Counted
  <2>4. QED
    BY <2>1, <2>2, <2>3, <1>1, <1>6
<1>14. QED
  BY <1>10, <1>12, <1>13 DEF b, n, Ku, Tu

(* at_estimate ends the run, with results or without. *)
LEMMA EstimateUntimed ==
  ASSUME NEW a \in Tuner, HasOwner(a), a.pid_saved, Counted(a), a.pv_min <= a.pv_max,
         a.half_period_count = HalfPeriodsNeeded(a)
  PROVE  Untimed(Estimate(a)) /\ SameRun(a, Estimate(a))
<1>1. ValidAtConfig(a.cfg) /\ a.is_initialised
  BY DEF HasOwner
<1>2. a.pv_min \in Int /\ a.pv_max \in Int
  BY DEF Tuner
<1>3. CASE a.pv_max = a.pv_min
  <2> DEFINE d == [a EXCEPT !.aborted = TRUE, !.phase = "ABORTED"]
  <2>1. Estimate(a) = d
    BY <1>3 DEF Estimate
  <2>2. d \in Tuner
    BY DEF Tuner, Phase
  <2>3. /\ d.phase = "ABORTED" /\ d.cfg = a.cfg /\ d.is_initialised = a.is_initialised
        /\ d.saved = a.saved /\ d.pid_saved = a.pid_saved
        /\ d.half_period_sum = a.half_period_sum /\ d.elapsed_s = a.elapsed_s
        /\ d.time_since_cross = a.time_since_cross
        /\ d.half_period_count = a.half_period_count
    BY DEF Tuner
  <2> HIDE DEF d
  <2>4. QED
    BY <1>1, <2>1, <2>2, <2>3
    DEF Untimed, SameRun, HasOwner, Primed, PeaksOrdered, Counted, Running
<1>4. CASE a.pv_max # a.pv_min
  <2> DEFINE b == WithGains(a, UltimateGain(a),
                            Quot(2 * a.half_period_sum, a.half_period_count))
             d == [b EXCEPT !.done = TRUE, !.phase = "DONE"]
  <2>1. Estimate(a) = d
    BY <1>4 DEF Estimate
  <2>2. a.pv_min < a.pv_max
    BY <1>2, <1>4
  <2>3. /\ b.Ku \in Float /\ b.Tu \in Float
        /\ b.Kp \in Float /\ b.Ki \in Float /\ b.Kd \in Float
        /\ \A x \in {b.Kp, b.Ki, b.Kd} : x = NaN \/ GoodGain(x)
        /\ IsFinite(b.Tu) => a.cfg.min_cycles * b.Tu <= a.elapsed_s
        /\ b = [a EXCEPT !.Ku = b.Ku, !.Tu = b.Tu, !.Kp = b.Kp, !.Ki = b.Ki,
                         !.Kd = b.Kd]
    BY <1>1, <2>2, WithGainsComplete
  <2> HIDE DEF b
  <2>4. b \in Tuner
    BY <2>3 DEF Tuner
  <2>5. /\ b.cfg = a.cfg /\ b.is_initialised = a.is_initialised
        /\ b.saved = a.saved /\ b.pid_saved = a.pid_saved
        /\ b.half_period_sum = a.half_period_sum /\ b.elapsed_s = a.elapsed_s
        /\ b.time_since_cross = a.time_since_cross
        /\ b.half_period_count = a.half_period_count
        /\ b.pv_min = a.pv_min /\ b.pv_max = a.pv_max
    BY <2>3 DEF Tuner
  <2>6. d \in Tuner
    BY <2>4 DEF Tuner, Phase
  <2>7. /\ d.phase = "DONE" /\ d.cfg = b.cfg /\ d.is_initialised = b.is_initialised
        /\ d.saved = b.saved /\ d.pid_saved = b.pid_saved
        /\ d.half_period_sum = b.half_period_sum /\ d.elapsed_s = b.elapsed_s
        /\ d.time_since_cross = b.time_since_cross
        /\ d.half_period_count = b.half_period_count
        /\ d.pv_min = b.pv_min /\ d.pv_max = b.pv_max
        /\ d.Tu = b.Tu /\ d.Kp = b.Kp /\ d.Ki = b.Ki /\ d.Kd = b.Kd
    BY <2>4 DEF Tuner
  <2> HIDE DEF d
  <2>8. Complete(d)
    BY <2>2, <2>3, <2>5, <2>7 DEF Complete, HalfPeriodsNeeded
  <2>9. Counted(d)
    BY <2>5, <2>7 DEF Counted
  <2>10. QED
    BY <1>1, <2>1, <2>5, <2>6, <2>7, <2>8, <2>9
    DEF Untimed, SameRun, HasOwner, Primed, PeaksOrdered, Running
<1>5. QED
  BY <1>3, <1>4

(* at_step_settling starts the clocks at a crossing. *)
LEMMA SettlingUntimed ==
  ASSUME NEW a, Untimed(a), a.phase = "SETTLING", NEW y \in Int, NEW crossed \in BOOLEAN
  PROVE  Untimed(StepSettling(a, y, crossed)) /\ SameRun(a, StepSettling(a, y, crossed))
<1> DEFINE b == [a EXCEPT !.phase = "RELAY", !.time_since_cross = 0,
                          !.pv_min = y, !.pv_max = y]
<1>1. a \in Tuner
  BY DEF Untimed
<1>2. CASE crossed
  <2>1. StepSettling(a, y, crossed) = b
    BY <1>2 DEF StepSettling
  <2>2. b \in Tuner
    BY <1>1 DEF Tuner, Phase
  <2>3. /\ b.phase = "RELAY" /\ b.cfg = a.cfg /\ b.is_initialised = a.is_initialised
        /\ b.saved = a.saved /\ b.pid_saved = a.pid_saved
        /\ b.half_period_sum = a.half_period_sum /\ b.elapsed_s = a.elapsed_s
        /\ b.time_since_cross = 0
        /\ b.half_period_count = a.half_period_count
        /\ b.pv_min = y /\ b.pv_max = y /\ b.u_relay_prev = a.u_relay_prev
    BY <1>1 DEF Tuner
  <2>4. a.half_period_sum \in Nat /\ a.time_since_cross \in Nat /\ a.elapsed_s \in Nat
    BY <1>1 DEF Tuner
  <2> HIDE DEF b
  <2>5. Counted(b)
    BY <2>3, <2>4 DEF Untimed, Counted
  <2>6. QED
    BY <2>1, <2>2, <2>3, <2>5
    DEF Untimed, SameRun, HasOwner, Primed, PeaksOrdered, Running, HalfPeriodsNeeded
<1>3. CASE ~crossed
  BY <1>3 DEF StepSettling, SameRun
<1>4. QED
  BY <1>2, <1>3

(* The counter of half-periods, a uint16_t. *)
LEMMA UInt16Range ==
  /\ UInt16 \subseteq Nat
  /\ \A n \in Nat : n <= 65535 => n \in UInt16
<1> DEFINE max == 65535
<1>1. UInt16 = 0..max /\ max \in Nat
  BY DEF UInt16
<1> HIDE DEF max
<1>2. UInt16 \subseteq Nat /\ \A n \in Nat : n <= max => n \in UInt16
  BY <1>1
<1>3. QED
  BY <1>2 DEF max

(* It does not wrap around: a run has fewer than 2 * 255 of them. *)
LEMMA CountFits ==
  ASSUME NEW a, a \in Tuner, ValidAtConfig(a.cfg),
         a.half_period_count < HalfPeriodsNeeded(a)
  PROVE  /\ a.half_period_count \in Nat
         /\ HalfPeriodsNeeded(a) \in Nat
         /\ a.half_period_count + 1 <= HalfPeriodsNeeded(a)
         /\ a.half_period_count + 1 \in UInt16
         /\ (a.half_period_count + 1) % 65536 = a.half_period_count + 1
<1>1. a.cfg \in AtConfig /\ a.half_period_count \in UInt16
  BY DEF Tuner
<1>2. a.cfg.min_cycles \in 1..255
  BY <1>1, ValidAtConfigTypes
<1> DEFINE n == a.half_period_count
           m == a.cfg.min_cycles
<1>3. n \in Nat
  <2> HIDE DEF n
  <2>1. n \in UInt16
    BY <1>1 DEF n
  <2>2. QED
    BY <2>1, UInt16Range
<1>4. n < 2 * m
  BY DEF HalfPeriodsNeeded
<1>5. HalfPeriodsNeeded(a) = 2 * m
  BY DEF HalfPeriodsNeeded
<1> HIDE DEF n, m
<1>6. m \in Nat /\ n + 1 <= 2 * m /\ n + 1 <= 65535
  BY <1>2, <1>3, <1>4 DEF m
<1>7. (n + 1) % 65536 = n + 1 /\ n + 1 \in Nat
  BY <1>3, <1>6
<1>8. n + 1 \in UInt16
  BY <1>6, <1>7, UInt16Range
<1>9. QED
  BY <1>3, <1>5, <1>6, <1>7, <1>8 DEF n

(* at_step_relay: a half-period counted moves the time from the running    *)
(* clock to the sum, at least one unit of it.                              *)
LEMMA RelayUntimed ==
  ASSUME NEW a, Untimed(a), a.phase = "RELAY", NEW y \in Int, NEW dt \in Int, dt > 0,
         a.half_period_sum + a.time_since_cross + dt <= a.elapsed_s,
         NEW crossed \in BOOLEAN
  PROVE  Untimed(StepRelay(a, y, dt, crossed)) /\ SameRun(a, StepRelay(a, y, dt, crossed))
<1> DEFINE t == a.time_since_cross + dt
           b == [a EXCEPT !.pv_min = IF y < @ THEN y ELSE @,
                          !.pv_max = IF y > @ THEN y ELSE @,
                          !.half_period_sum = IF crossed THEN @ + t ELSE @,
                          !.half_period_count = IF crossed THEN (@ + 1) % 65536 ELSE @,
                          !.time_since_cross = IF crossed THEN 0 ELSE t]
<1>1. /\ a \in Tuner /\ a.cfg \in AtConfig /\ a.pv_min \in Int /\ a.pv_max \in Int
      /\ a.half_period_sum \in Nat /\ a.half_period_count \in UInt16
      /\ a.time_since_cross \in Nat /\ a.elapsed_s \in Nat
  BY DEF Untimed, Tuner
<1>2. /\ a.pid_saved /\ a.is_initialised /\ ValidAtConfig(a.cfg)
      /\ a.pv_min <= a.pv_max /\ Counted(a)
      /\ a.half_period_count < HalfPeriodsNeeded(a)
      /\ Abs(a.u_relay_prev - a.cfg.u_bias) = a.cfg.relay_amplitude
  BY DEF Untimed, HasOwner, Primed, PeaksOrdered, Running
<1>3. /\ a.half_period_count \in Nat
      /\ HalfPeriodsNeeded(a) \in Nat
      /\ a.half_period_count + 1 <= HalfPeriodsNeeded(a)
      /\ a.half_period_count + 1 \in UInt16
  BY <1>1, <1>2, CountFits
<1>4. (a.half_period_count + 1) % 65536 = a.half_period_count + 1
  BY <1>1, <1>2, CountFits
<1>5. t \in Nat /\ t > 0
  BY <1>1
<1>6. /\ b.phase = "RELAY" /\ b.cfg = a.cfg /\ b.is_initialised = a.is_initialised
      /\ b.saved = a.saved /\ b.pid_saved = a.pid_saved /\ b.elapsed_s = a.elapsed_s
      /\ b.u_relay_prev = a.u_relay_prev
      /\ b.pv_min = IF y < a.pv_min THEN y ELSE a.pv_min
      /\ b.pv_max = IF y > a.pv_max THEN y ELSE a.pv_max
      /\ b.half_period_sum = IF crossed THEN a.half_period_sum + t ELSE a.half_period_sum
      /\ b.half_period_count = IF crossed THEN a.half_period_count + 1
                               ELSE a.half_period_count
      /\ b.time_since_cross = IF crossed THEN 0 ELSE t
  BY <1>1, <1>4 DEF Tuner
<1>7. b \in Tuner
  <2>1. b.half_period_count \in UInt16
    <3> HIDE DEF b
    <3>1. QED
      BY <1>1, <1>3, <1>6
  <2>2. /\ b.pv_min \in Int /\ b.pv_max \in Int /\ b.half_period_sum \in Nat
        /\ b.time_since_cross \in Nat
    BY <1>1, <1>5, <1>6
  <2>3. b = [a EXCEPT !.pv_min = b.pv_min, !.pv_max = b.pv_max,
                      !.half_period_sum = b.half_period_sum,
                      !.half_period_count = b.half_period_count,
                      !.time_since_cross = b.time_since_cross]
    BY <1>1 DEF Tuner
  <2> HIDE DEF b
  <2>4. QED
    BY <1>1, <2>1, <2>2, <2>3 DEF Tuner
<1>8. StepRelay(a, y, dt, crossed)
        = IF b.half_period_count >= HalfPeriodsNeeded(b) THEN Estimate(b) ELSE b
  BY DEF StepRelay
<1> HIDE DEF b
<1>9. b.half_period_count \in Nat /\ b.half_period_count <= HalfPeriodsNeeded(b)
      /\ HalfPeriodsNeeded(b) \in Nat
  <2>1. HalfPeriodsNeeded(b) = HalfPeriodsNeeded(a)
    BY <1>6 DEF HalfPeriodsNeeded
  <2>2. QED
    BY <1>3, <1>6, <2>1
<1>10. b.pv_min <= b.pv_max
  BY <1>1, <1>2, <1>6
<1>11. Counted(b)
  <2>1. b.half_period_sum + b.time_since_cross <= b.elapsed_s
    BY <1>1, <1>5, <1>6
  <2>2. b.half_period_sum >= b.half_period_count
    BY <1>1, <1>2, <1>3, <1>5, <1>6 DEF Counted
  <2>3. QED
    BY <2>1, <2>2 DEF Counted
<1>12. HasOwner(b) /\ b.pid_saved
  BY <1>2, <1>6 DEF HasOwner
<1>13. CASE b.half_period_count >= HalfPeriodsNeeded(b)
  <2>1. b.half_period_count = HalfPeriodsNeeded(b)
    BY <1>9, <1>13
  <2>2. Untimed(Estimate(b)) /\ SameRun(b, Estimate(b))
    BY <1>7, <1>10, <1>11, <1>12, <2>1, EstimateUntimed
  <2>3. QED
    BY <1>6, <1>8, <1>13, <2>2 DEF SameRun
<1>14. CASE ~(b.half_period_count >= HalfPeriodsNeeded(b))
  <2>1. b.half_period_count < HalfPeriodsNeeded(b)
    BY <1>9, <1>14
  <2>2. Untimed(b)
    BY <1>2, <1>6, <1>7, <1>10, <1>11, <1>12, <2>1
    DEF Untimed, Primed, PeaksOrdered, Running
  <2>3. QED
    BY <1>6, <1>8, <1>14, <2>2 DEF SameRun
<1>15. QED
  BY <1>13, <1>14

(* An aborted run keeps what it has measured. *)
LEMMA AbortedSane ==
  ASSUME NEW a, Untimed(a)
  PROVE  LET b == [a EXCEPT !.aborted = TRUE, !.phase = "ABORTED"]
         IN  Sane(b) /\ SameRun(a, b)
<1> DEFINE b == [a EXCEPT !.aborted = TRUE, !.phase = "ABORTED"]
<1>1. a \in Tuner
  BY DEF Untimed
<1>2. b \in Tuner
  BY <1>1 DEF Tuner, Phase
<1>3. /\ b.phase = "ABORTED" /\ b.cfg = a.cfg /\ b.is_initialised = a.is_initialised
      /\ b.saved = a.saved /\ b.pid_saved = a.pid_saved
      /\ b.half_period_sum = a.half_period_sum /\ b.elapsed_s = a.elapsed_s
      /\ b.time_since_cross = a.time_since_cross
      /\ b.half_period_count = a.half_period_count
  BY <1>1 DEF Tuner
<1> HIDE DEF b
<1>4. Sane(b) /\ SameRun(a, b)
  BY <1>2, <1>3
  DEF Untimed, Sane, SameRun, HasOwner, Primed, PeaksOrdered, Counted, Running
<1>5. QED
  BY <1>4 DEF b

(* at_check_timeout *)
LEMMA CheckTimeoutSane ==
  ASSUME NEW a, Untimed(a)
  PROVE  Sane(CheckTimeout(a)) /\ SameRun(a, CheckTimeout(a))
<1>1. a \in Tuner
  BY DEF Untimed
<1>2. a.elapsed_s \in Nat
  BY <1>1 DEF Tuner
<1>3. CASE Running(a) /\ a.elapsed_s > a.cfg.timeout_s
  BY <1>3, AbortedSane DEF CheckTimeout
<1>4. CASE ~(Running(a) /\ a.elapsed_s > a.cfg.timeout_s)
  <2>1. CheckTimeout(a) = a
    BY <1>4 DEF CheckTimeout
  <2>2. Running(a) => a.elapsed_s <= a.cfg.timeout_s
    <3>1. SUFFICES ASSUME Running(a) PROVE a.elapsed_s <= a.cfg.timeout_s
      OBVIOUS
    <3>2. ValidAtConfig(a.cfg) /\ a.cfg \in AtConfig
      BY <1>1, <3>1 DEF Untimed, HasOwner, Tuner
    <3>3. a.cfg.timeout_s \in Int
      BY <3>2, ValidAtConfigTypes
    <3>4. QED
      BY <1>2, <1>4, <3>1, <3>3
  <2>3. QED
    BY <2>1, <2>2 DEF Sane, SameRun
<1>5. QED
  BY <1>3, <1>4

(* ron_autotune_step during a run keeps the tuner sane. *)
LEMMA DrivenSane ==
  ASSUME NEW a, Sane(a), Running(a), NEW r \in Int, NEW y \in Int, NEW dt \in Int, dt > 0
  PROVE  Sane(Driven(a, r, y, dt)) /\ SameRun(a, Driven(a, r, y, dt))
<1> DEFINE e == r - y
           crossed == Crossed(a, e)
           b == [a EXCEPT !.u_relay_prev = RelayOutput(a, e),
                          !.last_sign = ErrorSign(e), !.elapsed_s = @ + dt]
<1>1. a \in Tuner /\ Untimed(a) /\ ValidAtConfig(a.cfg) /\ e \in Int
  BY DEF Sane, Untimed, HasOwner
<1>2. /\ RelayOutput(a, e) \in Int
      /\ Abs(RelayOutput(a, e) - a.cfg.u_bias) = a.cfg.relay_amplitude
  BY <1>1, RelayOutputPrimed DEF Untimed, Primed
<1>3. ErrorSign(e) \in {-1, 0, 1} /\ crossed \in BOOLEAN
  BY DEF ErrorSign, Crossed
<1>4. /\ a.elapsed_s \in Nat /\ a.half_period_sum \in Nat /\ a.time_since_cross \in Nat
      /\ a.elapsed_s + dt \in Nat
  BY <1>1 DEF Tuner
<1> HIDE DEF e, crossed
<1>5. b \in Tuner
  BY <1>1, <1>2, <1>3, <1>4 DEF Tuner
<1>6. /\ b.phase = a.phase /\ b.cfg = a.cfg /\ b.is_initialised = a.is_initialised
      /\ b.saved = a.saved /\ b.pid_saved = a.pid_saved
      /\ b.half_period_sum = a.half_period_sum /\ b.elapsed_s = a.elapsed_s + dt
      /\ b.time_since_cross = a.time_since_cross
      /\ b.half_period_count = a.half_period_count
      /\ b.pv_min = a.pv_min /\ b.pv_max = a.pv_max
      /\ b.u_relay_prev = RelayOutput(a, e)
  BY <1>1 DEF Tuner
<1>7. Driven(a, r, y, dt)
        = CheckTimeout(IF a.phase = "SETTLING" THEN StepSettling(b, y, crossed)
                       ELSE StepRelay(b, y, dt, crossed))
  BY DEF Driven, e, crossed
<1> HIDE DEF b
<1>8. Counted(b) /\ b.half_period_sum + b.time_since_cross + dt <= b.elapsed_s
  BY <1>1, <1>4, <1>6 DEF Untimed, Counted
<1>9. a.phase # "DONE"
  BY DEF Running
<1>10. Untimed(b)
  BY <1>1, <1>2, <1>5, <1>6, <1>8, <1>9
  DEF Untimed, HasOwner, Primed, PeaksOrdered, Running, HalfPeriodsNeeded
<1>11. SameRun(a, b)
  BY <1>6 DEF SameRun
<1>12. CASE a.phase = "SETTLING"
  <2>1. Untimed(StepSettling(b, y, crossed)) /\ SameRun(b, StepSettling(b, y, crossed))
    BY <1>3, <1>6, <1>10, <1>12, SettlingUntimed
  <2>2. QED
    BY <1>7, <1>11, <1>12, <2>1, CheckTimeoutSane DEF SameRun
<1>13. CASE a.phase = "RELAY"
  <2>1. Untimed(StepRelay(b, y, dt, crossed)) /\ SameRun(b, StepRelay(b, y, dt, crossed))
    BY <1>3, <1>6, <1>8, <1>10, <1>13, RelayUntimed
  <2>2. QED
    BY <1>7, <1>11, <1>13, <2>1, CheckTimeoutSane DEF SameRun
<1>14. QED
  BY <1>12, <1>13 DEF Running
-----------------------------------------------------------------------------
(***************************************************************************)
(* Borrowing the controller and giving it back.                            *)
(***************************************************************************)

(* The float range is a range of the operation lemmas. *)
LEMMA FloatRange ==
  -FloatMax \in Int /\ FloatMax \in Int /\ -FloatMax <= 0 /\ 0 <= FloatMax
  BY RonUtilAssumption

(* A good call leaves a sound controller. *)
LEMMA GoodKeepsSound ==
  ASSUME NEW p, NEW o, NEW res, Good(p, o, res, -FloatMax, FloatMax)
  PROVE  SoundPid(res.pid)
  BY DEF Good, SoundPid

(* Limits of a valid configuration lie in the float range. *)
LEMMA ValidInForce ==
  ASSUME NEW c, ValidConfig(c)
  PROVE  -FloatMax <= c.u_min /\ c.u_max <= FloatMax
  BY RonUtilAssumption DEF ValidConfig, ValidLimits, StrictRange, IsFinite

(* ron_pid_set_mode with a finite handoff value keeps the configuration. *)
LEMMA SetModeTakes ==
  ASSUME NEW p, SoundPid(p), p.is_initialised,
         NEW mode \in OpMode, NEW value, IsFinite(value)
  PROVE  LET q == PidSetMode(p, NoOutput, mode, value).pid
         IN  /\ SoundPid(q) /\ q.is_initialised
             /\ q.cfg = p.cfg /\ q.mode = mode
<1> DEFINE h == Handoff(p, mode, Clamp(value, p.cfg.u_min, p.cfg.u_max))
           q == [h EXCEPT !.mode = mode, !.status = ModeStatus(mode)]
<1>1. PidSetMode(p, NoOutput, mode, value) = Done(q, NoOutput)
  BY DEF PidSetMode
<1>2. SoundPid(PidSetMode(p, NoOutput, mode, value).pid)
  BY FloatRange, SetModeGood, GoodKeepsSound DEF SoundPid
<1>3. p \in PidInstance
  BY DEF SoundPid, Sound
<1>4. /\ DOMAIN h = DOMAIN p /\ h.cfg = p.cfg /\ h.is_initialised = p.is_initialised
  BY <1>3 DEF Handoff, PidInstance
<1>5. q.cfg = h.cfg /\ q.is_initialised = h.is_initialised /\ q.mode = mode
  <2> HIDE DEF h
  <2>1. {"cfg", "is_initialised", "mode", "status"} \subseteq DOMAIN h
    BY <1>3, <1>4 DEF PidInstance
  <2>2. QED
    BY <2>1
<1>6. PidSetMode(p, NoOutput, mode, value).pid = q
  BY <1>1 DEF Done
<1> HIDE DEF h, q
<1>7. q.is_initialised /\ q.cfg = p.cfg /\ q.mode = mode
  BY <1>4, <1>5
<1>8. QED
  BY <1>2, <1>6, <1>7

(* ron_pid_set_gains on an initialised controller: gains that are good are *)
(* installed, any others leave it alone.                                   *)
LEMMA SetGainsTakes ==
  ASSUME NEW p, SoundPid(p), p.is_initialised,
         NEW Kp \in Float, NEW Ki \in Float, NEW Kd \in Float
  PROVE  LET res == PidSetGains(p, NoOutput, Kp, Ki, Kd)
         IN  /\ SoundPid(res.pid) /\ res.pid.is_initialised
             /\ GainsTaken(p, res.pid, res.ret, Kp, Ki, Kd)
<1> DEFINE c == [p.cfg EXCEPT !.Kp = Kp, !.Ki = Ki, !.Kd = Kd]
           q == [p EXCEPT !.cfg = c]
           res == PidSetGains(p, NoOutput, Kp, Ki, Kd)
<1>1. p \in PidInstance /\ p.cfg \in Config /\ ValidConfig(p.cfg)
  BY DEF SoundPid, Sound, InForce, PidInstance
<1>2. SoundPid(res.pid)
  BY FloatRange, SettersGood, GoodKeepsSound DEF SoundPid
<1>3. c.Kp = Kp /\ c.Ki = Ki /\ c.Kd = Kd /\ c.N = p.cfg.N
  BY <1>1 DEF Config
<1>4. GoodGain(Kp) /\ GoodGain(Ki) /\ GoodGain(Kd) <=> ValidConfig(c)
  <2>1. /\ ValidWeights(c) <=> ValidWeights(p.cfg)
        /\ ValidLimits(c) <=> ValidLimits(p.cfg)
        /\ ValidEnums(c) <=> ValidEnums(p.cfg)
        /\ ValidNormalisation(c) <=> ValidNormalisation(p.cfg)
        /\ ValidThresholds(c) <=> ValidThresholds(p.cfg)
        /\ c.feedforward = p.cfg.feedforward
    BY <1>1 DEF Config, ValidWeights, ValidLimits, ValidEnums, ValidNormalisation,
                ValidThresholds
  <2> HIDE DEF c
  <2>2. ValidGains(c) <=> GoodGain(Kp) /\ GoodGain(Ki) /\ GoodGain(Kd)
    BY <1>1, <1>3 DEF ValidGains, ValidConfig, NonNegative, GoodGain
  <2>3. QED
    BY <1>1, <2>1, <2>2 DEF ValidConfig
<1>5. res = IF ValidConfig(c) THEN Done(q, NoOutput) ELSE Rejected(p, NoOutput)
  BY DEF PidSetGains, PidSetConfig
<1>6. q.cfg = c /\ q.is_initialised
  BY <1>1 DEF PidInstance
<1> HIDE DEF c, q, res
<1>7. CASE ValidConfig(c)
  BY <1>2, <1>3, <1>5, <1>6, <1>7 DEF Done, ValidConfig, GainsTaken, res
<1>8. CASE ~ValidConfig(c)
  BY <1>2, <1>4, <1>5, <1>8 DEF Rejected, GainsTaken, res
<1>9. QED
  BY <1>7, <1>8

(* The controller is handed back in the mode asked for; its gains are new  *)
(* if they are good and as they were otherwise.                            *)
LEMMA HandBackGood ==
  ASSUME NEW p, SoundPid(p), p.is_initialised,
         NEW Kp \in Float, NEW Ki \in Float, NEW Kd \in Float,
         NEW mode \in OpMode, NEW value, IsFinite(value)
  PROVE  LET res == HandBack(p, Kp, Ki, Kd, mode, value)
         IN  /\ SoundPid(res.pid) /\ res.pid.is_initialised
             /\ res.pid.mode = mode
             /\ GainsTaken(p, res.pid, res.ret, Kp, Ki, Kd)
<1> DEFINE gains == PidSetGains(p, NoOutput, Kp, Ki, Kd)
           back  == PidSetMode(gains.pid, NoOutput, mode, value)
           res   == HandBack(p, Kp, Ki, Kd, mode, value)
<1>1. /\ SoundPid(gains.pid) /\ gains.pid.is_initialised
      /\ GainsTaken(p, gains.pid, gains.ret, Kp, Ki, Kd)
  BY SetGainsTakes
<1>2. res.pid = back.pid /\ res.ret = gains.ret
  BY DEF HandBack, PidSetMode, Done, Rejected
<1> HIDE DEF gains, res
<1>3. /\ SoundPid(back.pid) /\ back.pid.is_initialised
      /\ back.pid.cfg = gains.pid.cfg /\ back.pid.mode = mode
  BY <1>1, SetModeTakes
<1> HIDE DEF back
<1>4. QED
  BY <1>1, <1>2, <1>3 DEF GainsTaken, res
-----------------------------------------------------------------------------
(***************************************************************************)
(* The actions.                                                            *)
(***************************************************************************)

(* The state of a tuner that was never initialised. *)
LEMMA ZeroTunerFields ==
  /\ ZeroTuner \in Tuner /\ ZeroTuner.saved \in Snapshot
  /\ ZeroTuner.cfg \in AtConfig /\ ~ZeroTuner.is_initialised
  /\ ZeroTuner.phase = "IDLE" /\ ~ZeroTuner.pid_saved
  /\ ZeroTuner.half_period_sum = 0 /\ ZeroTuner.elapsed_s = 0
  /\ ZeroTuner.time_since_cross = 0 /\ ZeroTuner.half_period_count = 0
<1> DEFINE cfg == [relay_amplitude |-> 0, hysteresis |-> 0, u_bias |-> 0,
                   min_cycles |-> 0, timeout_s |-> 0, tuning_rule |-> "ZN"]
           saved == [Kp |-> 0, Ki |-> 0, Kd |-> 0, mode |-> "AUTOMATIC"]
<1>1. 0 \in UInt16 /\ 0 \in UInt8 /\ 0 \in Float
  BY UInt16Range DEF Float, UInt8
<1>2. cfg \in AtConfig
  BY <1>1 DEF AtConfig, Rule
<1>3. saved \in Snapshot
  BY <1>1 DEF Snapshot, OpMode
<1> HIDE DEF cfg, saved
<1>4. ZeroTuner =
        [cfg |-> cfg, Ku |-> 0, Tu |-> 0, Kp |-> 0, Ki |-> 0, Kd |-> 0,
         phase |-> "IDLE", done |-> FALSE, aborted |-> FALSE, is_initialised |-> FALSE,
         u_relay_prev |-> 0, elapsed_s |-> 0, time_since_cross |-> 0,
         half_period_sum |-> 0, pv_min |-> 0, pv_max |-> 0, half_period_count |-> 0,
         last_sign |-> 0, saved |-> saved, pid_saved |-> FALSE]
  BY DEF ZeroTuner, cfg, saved
<1>5. ZeroTuner \in Tuner
  BY <1>1, <1>2, <1>3, <1>4 DEF Tuner, Phase
<1>6. QED
  BY <1>2, <1>3, <1>4, <1>5

(* A tuner with nothing but a configuration. *)
LEMMA FreshTuner ==
  ASSUME NEW c \in AtConfig, NEW i \in BOOLEAN
  PROVE  LET a == [ZeroTuner EXCEPT !.cfg = c, !.is_initialised = i]
         IN  /\ a \in Tuner /\ a.cfg = c /\ a.is_initialised = i
             /\ a.phase = "IDLE" /\ ~a.pid_saved
             /\ a.half_period_sum = 0 /\ a.elapsed_s = 0
             /\ a.time_since_cross = 0 /\ a.half_period_count = 0
  BY ZeroTunerFields DEF Tuner

(* It is sane if that configuration is valid once it is in force. *)
LEMMA FreshSane ==
  ASSUME NEW c \in AtConfig, NEW i \in BOOLEAN, i => ValidAtConfig(c)
  PROVE  Sane([ZeroTuner EXCEPT !.cfg = c, !.is_initialised = i])
<1> DEFINE a == [ZeroTuner EXCEPT !.cfg = c, !.is_initialised = i]
<1>1. /\ a \in Tuner /\ a.cfg = c /\ a.is_initialised = i
      /\ a.phase = "IDLE" /\ ~a.pid_saved
      /\ a.half_period_sum = 0 /\ a.elapsed_s = 0
      /\ a.time_since_cross = 0 /\ a.half_period_count = 0
  BY FreshTuner
<1> HIDE DEF a
<1>2. Sane(a)
  BY <1>1 DEF Sane, Untimed, HasOwner, Primed, PeaksOrdered, Counted, Running
<1>3. QED
  BY <1>2 DEF a

(* The invariant holds before the first call. *)
LEMMA InitInv == Init => Inv
<1> SUFFICES ASSUME Init PROVE Inv
  OBVIOUS
<1>1. /\ at = ZeroTuner /\ pid = ZeroPid /\ u = 0 /\ ret = {} /\ call = "other"
      /\ origin = ZeroTuner.saved
  BY DEF Init
<1>2. Sane(at) /\ ~at.pid_saved
  BY <1>1, ZeroTunerFields
  DEF Sane, Untimed, HasOwner, Primed, PeaksOrdered, Counted, Running
<1>3. SoundPid(pid)
  BY <1>1, FloatRange, ZeroPidSound DEF SoundPid
<1>4. origin \in Snapshot
  BY <1>1, ZeroTunerFields
<1>5. QED
  BY <1>1, <1>2, <1>3, <1>4 DEF Inv, Restorable

(* A refused call. *)
LEMMA RefuseInv == ASSUME Inv, NEW name \in {"start", "step", "apply", "abort", "other"},
                          Refuse(name) PROVE Inv'
<1>1. /\ at' = at /\ pid' = pid /\ u' = u /\ origin' = origin
      /\ call' = name /\ ret' = {"CONFIG_INVALID"}
  BY DEF Refuse, Called
<1>2. ret' \in SUBSET Fault
  BY <1>1 DEF Fault
<1>3. QED
  BY <1>1, <1>2 DEF Inv, Restorable

(* ron_autotune_init *)
LEMMA InitTunerInv == ASSUME Inv, InitTuner PROVE Inv'
<1>1. PICK c \in AtConfigs :
        IF ValidAtConfig(c)
        THEN /\ at' = [ZeroTuner EXCEPT !.cfg = c, !.is_initialised = TRUE]
             /\ origin' = ZeroTuner.saved
             /\ Called("other", {}) /\ UNCHANGED <<pid, u>>
        ELSE Refuse("other")
  BY DEF InitTuner
<1>2. CASE ValidAtConfig(c)
  <2>1. /\ at' = [ZeroTuner EXCEPT !.cfg = c, !.is_initialised = TRUE]
        /\ origin' = ZeroTuner.saved /\ pid' = pid /\ u' = u
        /\ call' = "other" /\ ret' = {}
    BY <1>1, <1>2 DEF Called
  <2>2. c \in AtConfig
    BY AutotuneAssumption
  <2>3. Sane(at') /\ ~at'.pid_saved
    BY <1>2, <2>1, <2>2, FreshSane, FreshTuner
  <2>4. origin' \in Snapshot
    BY <2>1, ZeroTunerFields
  <2>5. QED
    BY <2>1, <2>3, <2>4 DEF Inv, Restorable
<1>3. CASE ~ValidAtConfig(c)
  BY <1>1, <1>3, RefuseInv
<1>4. QED
  BY <1>2, <1>3

(* What a sound controller that is in use holds: gains it would accept     *)
(* again, and a mode.                                                      *)
LEMMA SnapshotGood ==
  ASSUME NEW p, SoundPid(p), p.is_initialised
  PROVE  /\ SnapshotOf(p) \in Snapshot
         /\ LET s == SnapshotOf(p)
            IN  GoodGain(s.Kp) /\ GoodGain(s.Ki) /\ GoodGain(s.Kd)
<1>1. p \in PidInstance /\ p.cfg \in Config /\ ValidConfig(p.cfg)
  BY DEF SoundPid, Sound, InForce, PidInstance
<1>2. p.mode \in OpMode /\ p.cfg.Kp \in Float /\ p.cfg.Ki \in Float /\ p.cfg.Kd \in Float
  BY <1>1 DEF PidInstance, Config
<1>3. QED
  BY <1>1, <1>2 DEF SnapshotOf, Snapshot, GoodGain, ValidConfig, ValidGains, NonNegative

(* ron_autotune_start *)
LEMMA StartInv == ASSUME Inv, Start PROVE Inv'
<1>1. CASE at.is_initialised /\ pid.is_initialised
  <2> DEFINE s == SnapshotOf(pid)
             f == Seeded(at)
             a == [f EXCEPT !.saved = s, !.pid_saved = TRUE, !.phase = "SETTLING",
                            !.u_relay_prev = at.cfg.u_bias + at.cfg.relay_amplitude]
  <2>1. /\ at' = a /\ origin' = s /\ u' = u /\ call' = "start" /\ ret' = {}
        /\ pid' = PidSetMode(pid, NoOutput, "MANUAL", at.cfg.u_bias).pid
    BY <1>1 DEF Start, Started, Called
  <2>2. /\ at \in Tuner /\ at.cfg \in AtConfig /\ ValidAtConfig(at.cfg)
        /\ at.is_initialised \in BOOLEAN /\ SoundPid(pid)
    BY <1>1 DEF Inv, Sane, Untimed, HasOwner, Tuner
  <2>3. /\ at.cfg.relay_amplitude \in Int /\ at.cfg.relay_amplitude > 0
        /\ at.cfg.u_bias \in Int /\ IsFinite(at.cfg.u_bias)
        /\ at.cfg.timeout_s \in Int /\ at.cfg.timeout_s > 0
        /\ at.cfg.min_cycles \in 1..255
    BY <2>2, ValidAtConfigTypes
  <2>4. /\ s \in Snapshot
        /\ GoodGain(s.Kp) /\ GoodGain(s.Ki) /\ GoodGain(s.Kd)
    BY <1>1, <2>2, SnapshotGood
  <2>5. /\ f \in Tuner /\ f.cfg = at.cfg /\ f.is_initialised = at.is_initialised
        /\ f.half_period_sum = 0 /\ f.elapsed_s = 0
        /\ f.time_since_cross = 0 /\ f.half_period_count = 0
    BY <2>2, ZeroTunerFields DEF Seeded, Tuner
  <2> HIDE DEF s, f
  <2>6. at.cfg.u_bias + at.cfg.relay_amplitude \in Int
    BY <2>3
  <2>7. a \in Tuner
    BY <2>4, <2>5, <2>6 DEF Tuner, Phase
  <2>8. /\ a.cfg = f.cfg /\ a.is_initialised = f.is_initialised
        /\ a.half_period_sum = f.half_period_sum /\ a.elapsed_s = f.elapsed_s
        /\ a.time_since_cross = f.time_since_cross
        /\ a.half_period_count = f.half_period_count
        /\ a.phase = "SETTLING" /\ a.pid_saved /\ a.saved = s
        /\ a.u_relay_prev = at.cfg.u_bias + at.cfg.relay_amplitude
    BY <2>5 DEF Tuner
  <2> HIDE DEF a
  <2>9. Primed(a)
    BY <2>3, <2>5, <2>8 DEF Primed, Abs
  <2>10. a.half_period_count < HalfPeriodsNeeded(a) /\ a.elapsed_s <= a.cfg.timeout_s
    BY <2>3, <2>5, <2>8 DEF HalfPeriodsNeeded
  <2>11. Sane(a)
    BY <1>1, <2>2, <2>5, <2>7, <2>8, <2>9, <2>10
    DEF Sane, Untimed, HasOwner, PeaksOrdered, Counted
  <2>12. SoundPid(pid') /\ pid'.is_initialised
    BY <1>1, <2>1, <2>2, <2>3, SetModeTakes DEF OpMode
  <2>13. QED
    BY <2>1, <2>4, <2>8, <2>11, <2>12 DEF Inv, Restorable
<1>2. CASE ~(at.is_initialised /\ pid.is_initialised)
  BY <1>2, RefuseInv DEF Start
<1>3. QED
  BY <1>1, <1>2

(* ron_autotune_step *)
LEMMA StepInv == ASSUME Inv, RunStep \/ IdleStep PROVE Inv'
<1>1. CASE RunStep
  <2>1. PICK r \in Setpoints, y \in Measurements, dt \in Periods :
          /\ Running(at) /\ at.is_initialised
          /\ GoodDt(dt) /\ IsFinite(r) /\ IsFinite(y)
          /\ at' = Driven(at, r, y, dt)
          /\ u' = RelayOutput(at, r - y)
          /\ Called("step", {}) /\ UNCHANGED <<pid, origin>>
    BY <1>1 DEF RunStep
  <2>2. r \in Int /\ y \in Int /\ dt \in Int /\ dt > 0
    BY <2>1, FiniteIsInt, GoodDtIsInt
  <2>3. Sane(at') /\ SameRun(at, at')
    BY <2>1, <2>2, DrivenSane DEF Inv
  <2>4. u' \in Int
    <3>1. /\ at \in Tuner /\ ValidAtConfig(at.cfg) /\ r - y \in Int
          /\ Abs(at.u_relay_prev - at.cfg.u_bias) = at.cfg.relay_amplitude
      BY <2>1, <2>2 DEF Inv, Sane, Untimed, HasOwner, Primed
    <3>2. QED
      BY <2>1, <3>1, RelayOutputPrimed
  <2>5. pid' = pid /\ origin' = origin /\ call' = "step" /\ ret' = {}
    BY <2>1 DEF Called
  <2>6. QED
    BY <2>3, <2>4, <2>5 DEF Inv, Restorable, SameRun
<1>2. CASE IdleStep
  <2>1. CASE Refuse("step")
    BY <2>1, RefuseInv
  <2>2. CASE ~Refuse("step")
    <3>1. /\ at.is_initialised /\ u' = at.cfg.u_bias /\ call' = "step" /\ ret' = {}
          /\ at' = at /\ pid' = pid /\ origin' = origin
      BY <1>2, <2>2 DEF IdleStep, Called
    <3>2. at.cfg \in AtConfig /\ ValidAtConfig(at.cfg)
      BY <3>1 DEF Inv, Sane, Untimed, HasOwner, Tuner
    <3>3. u' \in Int
      BY <3>1, <3>2, ValidAtConfigTypes
    <3>4. QED
      BY <3>1, <3>3 DEF Inv, Restorable
  <2>3. QED
    BY <2>1, <2>2
<1>3. QED
  BY <1>1, <1>2

(* ron_autotune_apply: the results of the run, or the old gains. *)
LEMMA ApplyEffect ==
  ASSUME Inv, Apply, at.phase = "DONE"
  PROVE  /\ UNCHANGED <<at, u, origin>> /\ call' = "apply"
         /\ SoundPid(pid') /\ pid'.is_initialised
         /\ pid'.mode = at.saved.mode
         /\ GainsTaken(pid, pid', ret', at.Kp, at.Ki, at.Kd)
<1> DEFINE res == HandBack(pid, at.Kp, at.Ki, at.Kd, at.saved.mode, at.cfg.u_bias)
<1>1. /\ pid' = res.pid /\ call' = "apply" /\ ret' = res.ret
      /\ UNCHANGED <<at, u, origin>>
  BY DEF Apply, Called
<1>2. /\ at \in Tuner /\ ValidAtConfig(at.cfg) /\ at.cfg \in AtConfig
      /\ SoundPid(pid) /\ pid.is_initialised
  BY DEF Inv, Sane, Untimed, HasOwner, Restorable, Tuner
<1>3. /\ at.Kp \in Float /\ at.Ki \in Float /\ at.Kd \in Float
      /\ at.saved.mode \in OpMode
  BY <1>2 DEF Tuner, Snapshot
<1>4. IsFinite(at.cfg.u_bias)
  BY <1>2, ValidAtConfigTypes
<1>5. /\ SoundPid(res.pid) /\ res.pid.is_initialised
      /\ res.pid.mode = at.saved.mode
      /\ GainsTaken(pid, res.pid, res.ret, at.Kp, at.Ki, at.Kd)
  BY <1>2, <1>3, <1>4, HandBackGood
<1> HIDE DEF res
<1>6. QED
  BY <1>1, <1>5

(* ron_autotune_abort: the gains and the mode from before the run, never   *)
(* refused, or a controller that was never borrowed.                       *)
LEMMA AbortEffect ==
  ASSUME Inv, Abort, at.is_initialised
  PROVE  /\ at' = [at EXCEPT !.aborted = TRUE, !.phase = "ABORTED"]
         /\ UNCHANGED <<u, origin>> /\ call' = "abort" /\ ret' = {}
         /\ at.pid_saved => /\ SoundPid(pid') /\ pid'.is_initialised
                            /\ SnapshotOf(pid') = origin
         /\ ~at.pid_saved => pid' = pid
<1> DEFINE res == HandBack(pid, at.saved.Kp, at.saved.Ki, at.saved.Kd,
                           at.saved.mode, at.cfg.u_bias)
<1>1. /\ at' = [at EXCEPT !.aborted = TRUE, !.phase = "ABORTED"]
      /\ UNCHANGED <<u, origin>> /\ call' = "abort" /\ ret' = {}
      /\ pid' = IF at.pid_saved THEN res.pid ELSE pid
  BY DEF Abort, Called
<1>2. CASE at.pid_saved
  <2>1. /\ at \in Tuner /\ ValidAtConfig(at.cfg) /\ at.cfg \in AtConfig
        /\ SoundPid(pid) /\ pid.is_initialised /\ at.saved = origin
        /\ GoodGain(origin.Kp) /\ GoodGain(origin.Ki) /\ GoodGain(origin.Kd)
        /\ origin \in Snapshot
    BY <1>2 DEF Inv, Sane, Untimed, HasOwner, Restorable, Tuner
  <2>2. /\ origin.Kp \in Float /\ origin.Ki \in Float /\ origin.Kd \in Float
        /\ origin.mode \in OpMode
        /\ origin = [Kp |-> origin.Kp, Ki |-> origin.Ki, Kd |-> origin.Kd,
                     mode |-> origin.mode]
    BY <2>1 DEF Snapshot
  <2>3. IsFinite(at.cfg.u_bias)
    BY <2>1, ValidAtConfigTypes
  <2>4. /\ SoundPid(res.pid) /\ res.pid.is_initialised
        /\ res.pid.mode = origin.mode
        /\ res.pid.cfg.Kp = origin.Kp /\ res.pid.cfg.Ki = origin.Ki
        /\ res.pid.cfg.Kd = origin.Kd
    BY <2>1, <2>2, <2>3, HandBackGood DEF GainsTaken
  <2> HIDE DEF res
  <2>5. SnapshotOf(res.pid) = origin
    BY <2>2, <2>4 DEF SnapshotOf
  <2>6. QED
    BY <1>1, <1>2, <2>4, <2>5
<1>3. CASE ~at.pid_saved
  BY <1>1, <1>3
<1>4. QED
  BY <1>2, <1>3

(* A call of the application on its controller. *)
LEMMA DirectInv ==
  ASSUME Inv, NEW res, Direct(res), SoundPid(res.pid), res.ret \in SUBSET Fault,
         pid.is_initialised => res.pid.is_initialised
  PROVE  Inv'
<1>1. /\ pid' = res.pid /\ at' = at /\ u' = u /\ origin' = origin
      /\ call' = "other" /\ ret' = res.ret
  BY DEF Direct, Called
<1>2. QED
  BY <1>1 DEF Inv, Restorable

(* The calls of the application on the controller. *)
LEMMA ApplicationInv ==
  ASSUME Inv, PidInitialise \/ SetGains \/ SetMode
  PROVE  Inv'
<1>1. SoundPid(pid) /\ pid \in PidInstance
  BY DEF Inv, SoundPid, Sound
<1>2. CASE PidInitialise
  <2>1. PICK c \in PidConfigs : Direct(PidInit(pid, NoOutput, c))
    BY <1>2 DEF PidInitialise
  <2> DEFINE res == PidInit(pid, NoOutput, c)
  <2>2. Good(pid, NoOutput, res, -FloatMax, FloatMax)
    BY <1>1, AutotuneAssumption, FloatRange, ValidInForce, InitGood DEF SoundPid
  <2>3. pid.is_initialised => res.pid.is_initialised
    <3>1. ResetState(pid) \in PidInstance
      BY <1>1, ResetStateFields
    <3>2. QED
      BY <3>1 DEF PidInit, Rejected, Done, PidInstance
  <2>4. QED
    BY <2>1, <2>2, <2>3, GoodKeepsSound, DirectInv DEF Good
<1>3. CASE SetGains
  <2>1. PICK g \in GainSets : Direct(PidSetGains(pid, NoOutput, g[1], g[2], g[3]))
    BY <1>3 DEF SetGains
  <2> DEFINE res == PidSetGains(pid, NoOutput, g[1], g[2], g[3])
  <2>2. g[1] \in Float /\ g[2] \in Float /\ g[3] \in Float
    BY AutotuneAssumption
  <2>3. Good(pid, NoOutput, res, -FloatMax, FloatMax)
    BY <1>1, <2>2, FloatRange, SettersGood DEF SoundPid
  <2>4. pid.is_initialised => res.pid.is_initialised
    BY <1>1, <2>2, SetGainsTakes
  <2>5. QED
    BY <2>1, <2>3, <2>4, GoodKeepsSound, DirectInv DEF Good
<1>4. CASE SetMode
  <2>1. PICK m \in OpMode : Direct(PidSetMode(pid, NoOutput, m, pid.u_sat_prev))
    BY <1>4 DEF SetMode
  <2> DEFINE res == PidSetMode(pid, NoOutput, m, pid.u_sat_prev)
  <2>2. Good(pid, NoOutput, res, -FloatMax, FloatMax)
    BY <1>1, FloatRange, SetModeGood DEF SoundPid
  <2>3. pid.is_initialised => res.pid.is_initialised
    <3>1. CASE IsFinite(pid.u_sat_prev)
      BY <1>1, <3>1, SetModeTakes
    <3>2. CASE ~IsFinite(pid.u_sat_prev)
      BY <3>2 DEF PidSetMode, Rejected
    <3>3. QED
      BY <3>1, <3>2
  <2>4. QED
    BY <2>1, <2>2, <2>3, GoodKeepsSound, DirectInv DEF Good
<1>5. QED
  BY <1>2, <1>3, <1>4

(* Every call preserves the invariant. *)
LEMMA NextInv == Inv /\ [Next]_vars => Inv'
<1> SUFFICES ASSUME Inv, [Next]_vars PROVE Inv'
  OBVIOUS
<1>1. CASE InitTuner
  BY <1>1, InitTunerInv
<1>2. CASE Start
  BY <1>2, StartInv
<1>3. CASE RunStep \/ IdleStep
  BY <1>3, StepInv
<1>4. CASE Apply
  <2>1. CASE at.phase = "DONE"
    <3>1. ret' \in SUBSET Fault
      BY <1>4, <2>1, ApplyEffect DEF Fault, GainsTaken
    <3>2. at' = at /\ u' = u /\ origin' = origin /\ call' = "apply"
      BY <1>4, <2>1, ApplyEffect
    <3>3. SoundPid(pid') /\ pid'.is_initialised
      BY <1>4, <2>1, ApplyEffect
    <3>4. QED
      BY <3>1, <3>2, <3>3 DEF Inv, Restorable
  <2>2. CASE at.phase # "DONE"
    BY <1>4, <2>2, RefuseInv DEF Apply
  <2>3. QED
    BY <2>1, <2>2
<1>5. CASE Abort
  <2>1. CASE at.is_initialised
    <3>1. Sane(at') /\ SameRun(at, at')
      BY <1>5, <2>1, AbortEffect, AbortedSane DEF Inv, Sane
    <3>2. /\ u' = u /\ origin' = origin /\ call' = "abort" /\ ret' = {}
          /\ at.pid_saved => SoundPid(pid') /\ pid'.is_initialised
          /\ ~at.pid_saved => pid' = pid
      BY <1>5, <2>1, AbortEffect
    <3>3. QED
      BY <3>1, <3>2 DEF Inv, Restorable, SameRun
  <2>2. CASE ~at.is_initialised
    BY <1>5, <2>2, RefuseInv DEF Abort
  <2>3. QED
    BY <2>1, <2>2
<1>6. CASE PidInitialise \/ SetGains \/ SetMode
  BY <1>6, ApplicationInv
<1>7. CASE UNCHANGED vars
  BY <1>7 DEF Inv, Restorable, vars
<1>8. QED
  BY <1>1, <1>2, <1>3, <1>4, <1>5, <1>6, <1>7 DEF Next
-----------------------------------------------------------------------------
(***************************************************************************)
(* The properties of Autotune.                                             *)
(***************************************************************************)

(* Inv is an invariant of the tuner and its controller. *)
THEOREM Invariance == Spec => []Inv
  BY InitInv, NextInv, PTL DEF Spec

(* Every record keeps its type: no step leaves the tuner in a phase the    *)
(* API does not know, and the counter of half-periods does not wrap.       *)
THEOREM TypeCorrectness == Spec => []TypeOK
<1>1. Inv => TypeOK
  BY DEF Inv, Sane, Untimed, SoundPid, Sound, TypeOK
<1>2. QED
  BY <1>1, Invariance, PTL

(* TimeIsPartitioned: half-periods do not overlap and fit in the run, the  *)
(* run fits in its budget, a completed run measured the cycles asked for.  *)
THEOREM TimePartition == Spec => []TimeIsPartitioned
<1>1. Inv => TimeIsPartitioned
  BY DEF Inv, Sane, Untimed, Counted, Complete, TimeIsPartitioned
<1>2. QED
  BY <1>1, Invariance, PTL

(* DriveWithinRelay (RON-FR-806, but for the limits of the controller):    *)
(* the bias plus or minus the amplitude during a run, also inside the      *)
(* hysteresis band, and the bias after it.                                 *)
THEOREM RelayDrive == Spec => DriveWithinRelay
<1>1. Inv /\ [Next]_vars =>
        [call' = "step" /\ ret' = {} =>
           IF Running(at)
           THEN Abs(u' - at.cfg.u_bias) = at.cfg.relay_amplitude
           ELSE u' = at.cfg.u_bias]_vars
  <2> SUFFICES ASSUME Inv, Next, call' = "step", ret' = {}
               PROVE  IF Running(at)
                      THEN Abs(u' - at.cfg.u_bias) = at.cfg.relay_amplitude
                      ELSE u' = at.cfg.u_bias
    OBVIOUS
  <2>1. RunStep \/ IdleStep
    BY DEF Next, InitTuner, Start, Apply, Abort, PidInitialise, SetGains, SetMode,
           Direct, Refuse, Called
  <2>2. CASE RunStep
    <3>1. PICK r \in Setpoints, y \in Measurements :
            /\ Running(at) /\ at.is_initialised /\ IsFinite(r) /\ IsFinite(y)
            /\ u' = RelayOutput(at, r - y)
      BY <2>2 DEF RunStep
    <3>2. /\ at \in Tuner /\ ValidAtConfig(at.cfg)
          /\ Abs(at.u_relay_prev - at.cfg.u_bias) = at.cfg.relay_amplitude
      BY <3>1 DEF Inv, Sane, Untimed, HasOwner, Primed
    <3>3. r - y \in Int
      BY <3>1, FiniteIsInt
    <3>4. QED
      BY <3>1, <3>2, <3>3, RelayOutputPrimed
  <2>3. CASE IdleStep
    <3>1. ~Refuse("step")
      BY DEF Refuse, Called
    <3>2. QED
      BY <2>3, <3>1 DEF IdleStep
  <2>4. QED
    BY <2>1, <2>2, <2>3
<1>2. QED
  BY <1>1, Invariance, PTL DEF Spec, DriveWithinRelay

(* AbortRestoresOrigin (RON-FR-807): an abort gives back the gains and the *)
(* mode from before the run: the saved gains are never refused, although   *)
(* they meet a configuration the application may have replaced.            *)
THEOREM AbortRestores == Spec => AbortRestoresOrigin
<1>1. Inv /\ [Next]_vars =>
        [call' = "abort" /\ ret' = {} /\ at.pid_saved => SnapshotOf(pid') = origin]_vars
  <2> SUFFICES ASSUME Inv, Next, call' = "abort", ret' = {}, at.pid_saved
               PROVE  SnapshotOf(pid') = origin
    OBVIOUS
  <2>1. Abort
    BY DEF Next, InitTuner, Start, RunStep, IdleStep, Apply, PidInitialise, SetGains,
           SetMode, Direct, Refuse, Called
  <2>2. at.is_initialised
    BY <2>1 DEF Abort, Refuse, Called
  <2>3. QED
    BY <2>1, <2>2, AbortEffect
<1>2. QED
  BY <1>1, Invariance, PTL DEF Spec, AbortRestoresOrigin

(* GainsAreStaged (RON-FR-804): starting and stepping a run leave the      *)
(* controller's configuration alone; apply installs the results or, if     *)
(* they overflowed, leaves the gains, and hands the mode back either way.  *)
THEOREM GainsStaged == Spec => GainsAreStaged
<1>1. ASSUME Inv, Next, call' \in {"start", "step"} PROVE pid'.cfg = pid.cfg
  <2>1. Start \/ RunStep \/ IdleStep
    BY <1>1 DEF Next, InitTuner, Apply, Abort, PidInitialise, SetGains, SetMode,
                Direct, Refuse, Called
  <2>2. CASE Start
    <3>1. CASE at.is_initialised /\ pid.is_initialised
      <4>1. SoundPid(pid) /\ at.cfg \in AtConfig /\ ValidAtConfig(at.cfg)
        BY <1>1, <3>1 DEF Inv, Sane, Untimed, HasOwner, Tuner
      <4>2. IsFinite(at.cfg.u_bias)
        BY <4>1, ValidAtConfigTypes
      <4>3. QED
        BY <2>2, <3>1, <4>1, <4>2, SetModeTakes DEF Start, OpMode
    <3>2. CASE ~(at.is_initialised /\ pid.is_initialised)
      BY <2>2, <3>2 DEF Start, Refuse
    <3>3. QED
      BY <3>1, <3>2
  <2>3. CASE RunStep \/ IdleStep
    BY <2>3 DEF RunStep, IdleStep, Refuse
  <2>4. QED
    BY <2>1, <2>2, <2>3
<1>2. ASSUME Inv, Next, call' = "apply", at.phase = "DONE"
      PROVE  /\ pid'.mode = at.saved.mode
             /\ IF ret' = {}
                THEN ValidGains(pid'.cfg) /\ <<pid'.cfg.Kp, pid'.cfg.Ki, pid'.cfg.Kd>>
                                             = <<at.Kp, at.Ki, at.Kd>>
                ELSE pid'.cfg = pid.cfg /\ NaN \in {at.Kp, at.Ki, at.Kd}
  <2>1. Apply
    BY <1>2 DEF Next, InitTuner, Start, RunStep, IdleStep, Abort, PidInitialise,
                SetGains, SetMode, Direct, Refuse, Called
  <2>2. pid'.mode = at.saved.mode /\ GainsTaken(pid, pid', ret', at.Kp, at.Ki, at.Kd)
    BY <1>2, <2>1, ApplyEffect
  <2>3. \A x \in {at.Kp, at.Ki, at.Kd} : x = NaN \/ GoodGain(x)
    BY <1>2 DEF Inv, Sane, Untimed, Complete
  <2>4. QED
    BY <2>2, <2>3 DEF GainsTaken
<1>3. Inv /\ [Next]_vars =>
        [/\ call' \in {"start", "step"} => pid'.cfg = pid.cfg
         /\ call' = "apply" /\ at.phase = "DONE" =>
              /\ pid'.mode = at.saved.mode
              /\ IF ret' = {}
                 THEN ValidGains(pid'.cfg) /\ <<pid'.cfg.Kp, pid'.cfg.Ki, pid'.cfg.Kd>>
                                              = <<at.Kp, at.Ki, at.Kd>>
                 ELSE pid'.cfg = pid.cfg /\ NaN \in {at.Kp, at.Ki, at.Kd}]_vars
  BY <1>1, <1>2
<1>4. QED
  BY <1>3, Invariance, PTL DEF Spec, GainsAreStaged
=============================================================================
