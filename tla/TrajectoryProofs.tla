-------------------------- MODULE TrajectoryProofs --------------------------
(***************************************************************************)
(* Proofs about Trajectory: types, limits and continuity of both profiles, *)
(* and the clock of the S-curve, for every configuration, position and     *)
(* target and however a generator is retargeted, held and released in      *)
(* motion.  Of the trapezoidal profile the end of a move is the hard part: *)
(* it may step over its target, and the jump that puts it back must be     *)
(* shorter than one sample at full speed, or never come.  Of the S-curve   *)
(* it is that a sample may cover several segments, and that they meet: the *)
(* second half follows a move along the path its plan defines.             *)
(***************************************************************************)
EXTENDS Trajectory, RonLemmas

TrapFault == {"NONE", "CONFIG_INVALID", "OUTPUT_NAN"}

TrapStatus == {"OK", "FAULT"}

Directions == {-1, 1}

(* A trapezoidal generator, whatever its configuration. *)
IsTrap(s) ==
  s \in [cfg : {s.cfg}, pos : Finite, vel : Finite, acc : Finite, jrk : {0}, target : Finite,
         direction : Directions, v_peak : Nat, phase : TrapPhase, fault_code : TrapFault,
         status : TrapStatus, hold : BOOLEAN, finished : BOOLEAN, is_initialised : BOOLEAN]

(* Speed towards the target, and the distance left; negative beyond it. *)
Along(s) == s.vel * s.direction

Left(s) == s.direction * (s.target - s.pos)

(* The distance, either way, exceeds what braking takes. *)
BrakesInTime(s) == 2 * s.cfg.a_max * Abs(s.target - s.pos) > Along(s) * Along(s)

(***************************************************************************)
(* An unfinished generator that has stepped over its target goes faster    *)
(* than it can brake in one sample.  Either it did so in the last sample,  *)
(* or it is past its braking distance and will not brake any more.         *)
(***************************************************************************)
SteppedOver(s) ==
  ~s.finished /\ Left(s) <= 0 =>
    /\ Along(s) > s.cfg.a_max * Period
    /\ -Left(s) <= s.cfg.v_max * Period \/ BrakesInTime(s)

SoundTrap(s) ==
  /\ IsTrap(s) /\ s.cfg.v_max \in Nat
  /\ s.v_peak <= s.cfg.v_max /\ Abs(s.vel) <= s.cfg.v_max
  /\ ~s.is_initialised => s.finished
  /\ s.is_initialised => ValidTrapConfig(s.cfg) /\ SteppedOver(s)

Inv ==
  /\ profile \in {"TRAP", "SCURVE"}
  /\ profile = "TRAP" => SoundTrap(t)
  /\ stepped \in BOOLEAN /\ from_rest \in BOOLEAN /\ plans \in 0..Retargets
-----------------------------------------------------------------------------
(* The peak speed is within the limit. *)
LEMMA PeakWithinLimit ==
  ASSUME NEW cfg, cfg.v_max \in Nat, cfg.a_max \in Nat, NEW distance \in Nat
  PROVE  PeakSpeed(cfg, distance) \in 0..cfg.v_max
<1> DEFINE S == {v \in 0..cfg.v_max : v * v <= cfg.a_max * distance}
<1>1. 0 \in 0..cfg.v_max /\ 0 * 0 <= cfg.a_max * distance
  OBVIOUS
<1>2. S \subseteq 0..cfg.v_max /\ S # {}
  BY <1>1
<1>3. PeakSpeed(cfg, distance) = Max(S)
  BY DEF PeakSpeed
<1> HIDE DEF S
<1>4. QED
  BY <1>2, <1>3, MaxOfBounded

(* A direction does not change a magnitude. *)
LEMMA Directed ==
  ASSUME NEW d \in Directions, NEW x \in Int
  PROVE  /\ d * x \in Int /\ x * d \in Int /\ d * x = x * d
         /\ Abs(x * d) = Abs(x) /\ Abs(x) \in Nat
         /\ (x * d) * d = x
         /\ x * d >= 0 => Abs(x) = x * d
         /\ x * d <= 0 => Abs(x) = -(x * d)
<1>1. CASE d = 1
  BY <1>1 DEF Abs
<1>2. CASE d = -1
  BY <1>2 DEF Abs
<1>3. QED
  BY <1>1, <1>2 DEF Directions
-----------------------------------------------------------------------------
(***************************************************************************)
(* What one sample does to the speed towards the target: it grows up to    *)
(* the peak while the target is beyond the braking distance or behind,     *)
(* falls by no more than a sample's braking, or stays.                     *)
(***************************************************************************)
Ramp(s, phase, next, w) ==
  \/ /\ phase = "ACCEL"
     /\ Along(s) < 0 \/ BrakesInTime(s)
     /\ Along(s) < next /\ next <= Along(s) + w /\ next <= s.v_peak
  \/ /\ phase = "DECEL"
     /\ ~BrakesInTime(s)
     /\ 0 <= next /\ next <= Along(s) /\ Along(s) - w <= next
  \/ /\ phase = "CONST_VEL"
     /\ BrakesInTime(s)
     /\ 0 <= Along(s) /\ next = Along(s)

(* The types of an initialised generator, as the arithmetic needs them. *)
LEMMA TrapTypes ==
  ASSUME NEW s, IsTrap(s), ValidTrapConfig(s.cfg)
  PROVE  /\ s.pos \in Int /\ s.vel \in Int /\ s.target \in Int /\ s.v_peak \in Nat
         /\ s.direction \in Directions
         /\ s.cfg.a_max \in Nat /\ s.cfg.a_max > 0 /\ s.cfg.a_max \in Finite
         /\ s.cfg.v_max \in Nat /\ s.cfg.v_max > 0
<1>1. /\ s.pos \in Finite /\ s.vel \in Finite /\ s.target \in Finite /\ s.v_peak \in Nat
      /\ s.direction \in Directions
  BY DEF IsTrap
<1>2. IsFinite(s.cfg.a_max) /\ IsFinite(s.cfg.v_max) /\ s.cfg.a_max > 0 /\ s.cfg.v_max > 0
  BY DEF ValidTrapConfig
<1>3. s.cfg.a_max \in Int /\ s.cfg.v_max \in Int /\ s.cfg.a_max \in Finite
  BY <1>2, FiniteIsInt, FiniteMember
<1>4. s.pos \in Int /\ s.vel \in Int /\ s.target \in Int
  BY <1>1, FiniteFacts
<1>5. s.cfg.a_max \in Nat /\ s.cfg.v_max \in Nat
  BY <1>2, <1>3
<1>6. QED
  BY <1>1, <1>2, <1>3, <1>4, <1>5

(* A sample's acceleration and speed change, from its phase. *)
LEMMA IntegrateOutcome ==
  ASSUME NEW s, IsTrap(s), ValidTrapConfig(s.cfg), NEW dt \in Int, dt > 0
  PROVE  \E phase \in TrapPhase, acc \in Finite, vel \in Int :
           /\ TrapIntegrate(s, dt) =
                [s EXCEPT !.phase = phase, !.acc = acc, !.vel = vel, !.pos = @ + vel * dt]
           /\ Ramp(s, phase, vel * s.direction, s.cfg.a_max * dt)
<1> DEFINE d == s.direction
           a == s.cfg.a_max
           w == a * dt
           phase == TrapPhaseOf(s)
           sense == CASE phase = "ACCEL" -> 1 [] phase = "DECEL" -> -1 [] OTHER -> 0
           acc   == sense * d * a
           along == (s.vel + acc * dt) * d
           cut   == (phase = "ACCEL" /\ along > s.v_peak) \/ (phase = "DECEL" /\ along < 0)
           vel   == IF ~cut THEN s.vel + acc * dt
                    ELSE IF phase = "ACCEL" THEN d * s.v_peak ELSE 0
           acc2  == IF cut THEN 0 ELSE acc
<1>1. TrapIntegrate(s, dt) =
        [s EXCEPT !.phase = phase, !.acc = acc2, !.vel = vel, !.pos = @ + vel * dt]
  BY DEF TrapIntegrate
<1>2. /\ s.vel \in Int /\ s.v_peak \in Nat /\ d \in Directions /\ d \in Int
      /\ a \in Nat /\ a > 0 /\ a \in Finite /\ w \in Int /\ w > 0
      /\ Along(s) \in Int
  <2>1. /\ s.vel \in Int /\ s.v_peak \in Nat /\ d \in Directions
        /\ a \in Nat /\ a > 0 /\ a \in Finite
    BY TrapTypes
  <2>2. w \in Int /\ w > 0
    BY <2>1, PositiveProduct
  <2>3. d \in Int
    BY <2>1 DEF Directions
  <2>4. Along(s) \in Int
    BY <2>1, Directed DEF Along
  <2>5. QED
    BY <2>1, <2>2, <2>3, <2>4
<1>3. /\ phase \in {"ACCEL", "DECEL", "CONST_VEL"}
      /\ phase = "ACCEL" => \/ Along(s) < 0
                            \/ BrakesInTime(s) /\ Along(s) < s.v_peak
      /\ phase = "DECEL" => ~BrakesInTime(s) /\ Along(s) >= 0
      /\ phase = "CONST_VEL" => BrakesInTime(s) /\ 0 <= Along(s)
  <2> DEFINE stop == 2 * a * Abs(s.target - s.pos)
             square == Along(s) * Along(s)
  <2>1. stop \in Int /\ square \in Int
    <3>1. Abs(s.target - s.pos) \in Int
      BY TrapTypes DEF Abs
    <3>2. 2 * a \in Int
      BY <1>2
    <3>3. QED
      BY <1>2, <3>1, <3>2, ProductIsInt
  <2>2. phase = IF Along(s) < 0 THEN "ACCEL"
                ELSE IF stop <= square THEN "DECEL"
                ELSE IF Along(s) >= s.v_peak THEN "CONST_VEL" ELSE "ACCEL"
    BY DEF TrapPhaseOf, Along
  <2>3. BrakesInTime(s) <=> stop > square
    BY DEF BrakesInTime
  <2> HIDE DEF stop, square, phase
  <2>4. QED
    BY <1>2, <2>1, <2>2, <2>3
<1>4. /\ acc \in Finite /\ acc2 \in Finite
      /\ acc * dt \in Int
      /\ phase = "ACCEL" => (acc * dt) * d = w
      /\ phase = "DECEL" => (acc * dt) * d = -w
      /\ phase = "CONST_VEL" => acc = 0
  <2> HIDE DEF phase
  <2>1. -a \in Finite /\ 0 \in Finite
    BY <1>2, RonUtilAssumption DEF Finite
  <2>2. CASE d = 1
    BY <1>2, <1>3, <2>1, <2>2
  <2>3. CASE d = -1
    BY <1>2, <1>3, <2>1, <2>3
  <2>4. QED
    BY <1>2, <2>2, <2>3 DEF Directions
<1>5. along \in Int /\ along = Along(s) + (acc * dt) * d
  <2> DEFINE step == acc * dt
  <2>1. step \in Int
    BY <1>4
  <2> HIDE DEF acc
  <2>2. (s.vel + step) * d = s.vel * d + step * d
    BY <1>2, <2>1
  <2>3. QED
    BY <1>2, <2>1, <2>2, ProductIsInt DEF Along
<1>6. vel \in Int /\ vel * d = IF ~cut THEN along ELSE IF phase = "ACCEL" THEN s.v_peak ELSE 0
  <2> HIDE DEF acc, phase
  <2>1. s.vel + acc * dt \in Int
    BY <1>2, <1>4
  <2>2. d * s.v_peak \in Int /\ (d * s.v_peak) * d = s.v_peak
    BY <1>2, Directed
  <2>3. QED
    BY <1>2, <2>1, <2>2
<1> HIDE DEF phase, acc, along, vel, acc2
<1>7. Ramp(s, phase, vel * d, w)
  <2>1. CASE phase = "ACCEL"
    <3>1. along = Along(s) + w
      BY <1>4, <1>5, <2>1
    <3>2. vel * d = IF along > s.v_peak THEN s.v_peak ELSE along
      BY <1>6, <2>1
    <3>3. Along(s) < s.v_peak
      BY <1>2, <1>3, <2>1
    <3>4. QED
      BY <1>2, <1>3, <2>1, <3>1, <3>2, <3>3 DEF Ramp
  <2>2. CASE phase = "DECEL"
    <3>1. along = Along(s) - w
      BY <1>2, <1>4, <1>5, <2>2
    <3>2. vel * d = IF along < 0 THEN 0 ELSE along
      BY <1>6, <2>2
    <3>3. QED
      BY <1>2, <1>3, <2>2, <3>1, <3>2 DEF Ramp
  <2>3. CASE phase = "CONST_VEL"
    <3>1. vel * d = Along(s)
      BY <1>2, <1>4, <1>5, <1>6, <2>3
    <3>2. QED
      BY <1>3, <2>3, <3>1 DEF Ramp
  <2>4. QED
    BY <1>3, <2>1, <2>2, <2>3
<1>8. phase \in TrapPhase
  BY <1>3 DEF TrapPhase
<1>9. QED
  BY <1>1, <1>4, <1>6, <1>7, <1>8
-----------------------------------------------------------------------------
(* A generator past its braking distance that does not brake stays there:  *)
(* the distance it covers exceeds what its new speed adds to the braking.  *)
LEMMA StillBeyond ==
  ASSUME NEW a \in Int, NEW dt \in Int, a > 0, dt > 0,
         NEW beyond \in Int, NEW along \in Int, NEW next \in Int,
         0 < along, along <= next, next <= along + a * dt,
         2 * a * beyond > along * along
  PROVE  2 * a * (beyond + next * dt) > next * next
<1> DEFINE w == a * dt
           grown == next - along
<1>1. w \in Int /\ w > 0 /\ grown \in Int /\ 0 <= grown /\ grown <= w
  BY PositiveProduct
<1>2. 2 * a * (beyond + next * dt) = 2 * a * beyond + 2 * (next * w)
  <2>1. 2 * a * (next * dt) = 2 * (next * w)
    BY ProductIsInt
  <2>2. next * dt \in Int /\ 2 * a \in Int
    BY ProductIsInt
  <2> HIDE DEF w
  <2>3. 2 * a * (beyond + next * dt) = 2 * a * beyond + 2 * a * (next * dt)
    BY <2>2
  <2>4. QED
    BY <2>1, <2>3
<1>3. next * next = along * along + grown * (next + along)
  BY ProductIsInt
<1>4. grown * (next + along) <= w * (next + along)
  <2>1. next + along \in Nat /\ w - grown \in Nat
    BY <1>1
  <2>2. (w - grown) * (next + along) >= 0
    BY <2>1
  <2> HIDE DEF w, grown
  <2>3. (w - grown) * (next + along) = w * (next + along) - grown * (next + along)
    BY <1>1
  <2>4. w * (next + along) \in Int /\ grown * (next + along) \in Int
    BY <1>1, <2>1, ProductIsInt
  <2>5. QED
    BY <2>2, <2>3, <2>4
<1>5. w * (next + along) <= 2 * (next * w)
  <2>1. w \in Nat /\ next - along \in Nat
    BY <1>1
  <2> HIDE DEF w
  <2>2. w * (next - along) >= 0
    BY <2>1
  <2>3. w * (next - along) = 2 * (next * w) - w * (next + along)
    BY <1>1
  <2>4. w * (next + along) \in Int /\ next * w \in Int
    BY <1>1, ProductIsInt
  <2>5. QED
    BY <2>2, <2>3, <2>4
<1> HIDE DEF w, grown
<1>6. /\ 2 * a * beyond \in Int /\ along * along \in Int /\ next * next \in Int
      /\ grown * (next + along) \in Int /\ w * (next + along) \in Int /\ next * w \in Int
  BY <1>1, ProductIsInt
<1>7. 2 * a * (beyond + next * dt) \in Int
  BY <1>2, <1>6
<1>8. QED
  BY <1>2, <1>3, <1>4, <1>5, <1>6, <1>7
-----------------------------------------------------------------------------
(* The sample period is a positive integer. *)
LEMMA PeriodPositive == Period \in Int /\ Period > 0
  BY TrajectoryAssumption, GoodDtIsInt

(* What stands between a magnitude and a product with it. *)
LEMMA ScaledMagnitude ==
  ASSUME NEW x \in Int, NEW v \in Nat, Abs(x) <= v, NEW dt \in Nat
  PROVE  x * dt \in Int /\ Abs(x * dt) <= v * dt
<1>1. v - x \in Nat /\ v + x \in Nat
  BY DEF Abs
<1>2. (v - x) * dt >= 0 /\ (v + x) * dt >= 0
  BY <1>1
<1>3. (v - x) * dt = v * dt - x * dt /\ (v + x) * dt = v * dt + x * dt
  BY ProductIsInt
<1>4. x * dt \in Int /\ v * dt \in Int
  BY ProductIsInt
<1>5. QED
  BY <1>2, <1>3, <1>4 DEF Abs

(* A sample's motion, if its result is finite: the fields it writes, its   *)
(* speed and the distance it leaves.                                       *)
LEMMA Moved ==
  ASSUME NEW s, SoundTrap(s), s.is_initialised, ~s.finished,
         NEW m, m = TrapIntegrate(s, Period), KinematicsFinite(m)
  PROVE  /\ IsTrap(m) /\ m.cfg = s.cfg /\ m.is_initialised /\ ~m.finished
         /\ m.target = s.target /\ m.direction = s.direction /\ m.v_peak = s.v_peak
         /\ m.pos = s.pos + m.vel * Period
         /\ Ramp(s, m.phase, Along(m), s.cfg.a_max * Period)
         /\ Left(m) = Left(s) - Along(m) * Period
         /\ Along(m) \in Int /\ Along(s) \in Int /\ Left(s) \in Int
<1>1. IsTrap(s) /\ ValidTrapConfig(s.cfg)
  BY DEF SoundTrap
<1>2. PICK phase \in TrapPhase, acc \in Finite, vel \in Int :
        /\ m = [s EXCEPT !.phase = phase, !.acc = acc, !.vel = vel, !.pos = @ + vel * Period]
        /\ Ramp(s, phase, vel * s.direction, s.cfg.a_max * Period)
  BY <1>1, IntegrateOutcome, PeriodPositive
<1>3. /\ m.phase = phase /\ m.acc = acc /\ m.vel = vel /\ m.pos = s.pos + vel * Period
      /\ m.cfg = s.cfg /\ m.target = s.target /\ m.direction = s.direction
      /\ m.v_peak = s.v_peak /\ m.is_initialised = s.is_initialised /\ m.finished = s.finished
  BY <1>1, <1>2 DEF IsTrap
<1>4. m.pos \in Finite /\ m.vel \in Finite
  BY FiniteMember DEF KinematicsFinite
<1>5. IsTrap(m)
  BY <1>1, <1>2, <1>3, <1>4 DEF IsTrap
<1>6. /\ s.pos \in Int /\ s.vel \in Int /\ s.target \in Int /\ s.direction \in Directions
      /\ Period \in Int
  BY <1>1, TrapTypes, PeriodPositive
<1>7. Left(m) = Left(s) - Along(m) * Period
  <2> DEFINE d == s.direction
             step == vel * Period
  <2>1. step \in Int /\ d \in Int
    BY <1>6, ProductIsInt DEF Directions
  <2>2. d * step = (vel * d) * Period
    BY <1>6, <2>1, ProductIsInt
  <2>3. Left(m) = d * (s.target - (s.pos + step)) /\ Left(s) = d * (s.target - s.pos)
        /\ Along(m) = vel * d
    BY <1>3 DEF Left, Along
  <2> HIDE DEF step, d
  <2>4. d * (s.target - (s.pos + step)) = d * (s.target - s.pos) - d * step
    BY <1>6, <2>1
  <2>5. QED
    BY <2>2, <2>3, <2>4
<1>8. Along(m) \in Int /\ Along(s) \in Int /\ Left(s) \in Int
  BY <1>3, <1>6, Directed DEF Along, Left
<1>9. QED
  BY <1>2, <1>3, <1>5, <1>7, <1>8 DEF Along

(* Its speed is within the limit, and changes by at most the acceleration. *)
LEMMA MovedWithinLimits ==
  ASSUME NEW s, SoundTrap(s), s.is_initialised, ~s.finished,
         NEW m, m = TrapIntegrate(s, Period), KinematicsFinite(m)
  PROVE  /\ Abs(m.vel) <= s.cfg.v_max /\ Abs(Along(m)) <= s.cfg.v_max
         /\ Abs(m.vel - s.vel) <= s.cfg.a_max * Period
         /\ Abs(m.pos - s.pos) <= s.cfg.v_max * Period
<1> DEFINE w == s.cfg.a_max * Period
<1>1. /\ IsTrap(m) /\ m.direction = s.direction /\ m.pos = s.pos + m.vel * Period
      /\ Ramp(s, m.phase, Along(m), w)
      /\ Along(m) \in Int /\ Along(s) \in Int
  BY Moved
<1>2. /\ s.vel \in Int /\ s.pos \in Int /\ s.v_peak \in Nat /\ s.direction \in Directions
      /\ s.cfg.v_max \in Nat /\ s.v_peak <= s.cfg.v_max /\ Abs(s.vel) <= s.cfg.v_max
  BY TrapTypes DEF SoundTrap
<1>3. m.vel \in Int
  BY <1>1, FiniteFacts DEF IsTrap
<1>4. w \in Int /\ w > 0
  BY TrapTypes, PeriodPositive, PositiveProduct DEF SoundTrap
<1>5. Abs(Along(s)) <= s.cfg.v_max /\ Abs(Along(m)) = Abs(m.vel)
  BY <1>1, <1>2, <1>3, Directed DEF Along
<1> HIDE DEF w
<1>6. Abs(Along(m)) <= s.cfg.v_max
  BY <1>1, <1>2, <1>4, <1>5 DEF Ramp, Abs
<1>7. Abs(Along(m) - Along(s)) <= w
  BY <1>1, <1>4 DEF Ramp, Abs
<1>8. Along(m) - Along(s) = (m.vel - s.vel) * s.direction
  BY <1>1, <1>2, <1>3 DEF Along, Directions
<1>9. Abs(m.vel - s.vel) <= w
  BY <1>2, <1>3, <1>7, <1>8, Directed
<1>10. Abs(m.vel * Period) <= s.cfg.v_max * Period
  BY <1>2, <1>3, <1>5, <1>6, PeriodPositive, ScaledMagnitude
<1>11. m.pos - s.pos = m.vel * Period
  BY <1>1, <1>2, <1>3, PeriodPositive, ProductIsInt
<1>12. QED
  BY <1>5, <1>6, <1>9, <1>10, <1>11 DEF w
-----------------------------------------------------------------------------
(* The distance to the target does not depend on the direction. *)
LEMMA LeftMagnitude ==
  ASSUME NEW s, IsTrap(s)
  PROVE  /\ Left(s) \in Int /\ Abs(s.target - s.pos) = Abs(Left(s))
         /\ Left(s) >= 0 => Abs(s.target - s.pos) = Left(s)
         /\ Left(s) <= 0 => Abs(s.target - s.pos) = -Left(s)
<1>1. s.target \in Finite /\ s.pos \in Finite /\ s.direction \in Directions
  BY DEF IsTrap
<1>2. s.target \in Int /\ s.pos \in Int
  BY <1>1, FiniteFacts
<1> DEFINE gap == s.target - s.pos
<1>3. Left(s) = s.direction * gap
  BY DEF Left
<1> HIDE DEF gap
<1>4. gap \in Int
  BY <1>2 DEF gap
<1>5. Abs(gap) = Abs(Left(s)) /\ Left(s) \in Int
  BY <1>1, <1>3, <1>4, Directed
<1>6. Abs(s.target - s.pos) = Abs(Left(s))
  BY <1>5 DEF gap
<1>7. QED
  BY <1>5, <1>6 DEF Abs

(***************************************************************************)
(* The end of a sample's motion: a generator found to have reached its     *)
(* target was no further from it than a sample at full speed, and one that *)
(* has not, but is past it, has stepped over it.                           *)
(***************************************************************************)
LEMMA MovedEnd ==
  ASSUME NEW s, SoundTrap(s), s.is_initialised, ~s.finished,
         NEW m, m = TrapIntegrate(s, Period), KinematicsFinite(m)
  PROVE  /\ TrapReached(m, Period) => Abs(s.target - s.pos) <= s.cfg.v_max * Period
         /\ ~TrapReached(m, Period) => SteppedOver(m)
<1> DEFINE a  == s.cfg.a_max
           w  == a * Period
           vp == s.cfg.v_max * Period
           a0 == Along(s)
           a1 == Along(m)
           l0 == Left(s)
           l1 == Left(m)
           step == a1 * Period
<1>1. /\ IsTrap(m) /\ m.cfg = s.cfg /\ ~m.finished
      /\ Ramp(s, m.phase, a1, w)
      /\ l1 = l0 - step
      /\ a1 \in Int /\ a0 \in Int /\ l0 \in Int
  BY Moved
<1>2. /\ a \in Int /\ a > 0 /\ s.cfg.v_max \in Nat /\ m.direction \in Directions
      /\ IsTrap(s) /\ (l0 <= 0 => a0 > w /\ (-l0 <= vp \/ BrakesInTime(s)))
  BY <1>1, TrapTypes DEF SoundTrap, SteppedOver, IsTrap
<1>3. Period \in Int /\ Period > 0 /\ w \in Int /\ w > 0 /\ step \in Int /\ vp \in Int
  BY <1>1, <1>2, PeriodPositive, PositiveProduct, ProductIsInt
<1>4. /\ l1 \in Int
      /\ l0 >= 0 => Abs(s.target - s.pos) = l0
      /\ l0 <= 0 => Abs(s.target - s.pos) = -l0
      /\ l1 <= 0 => Abs(m.target - m.pos) = -l1
  BY <1>1, <1>2, LeftMagnitude
<1>5. Abs(a1) <= s.cfg.v_max
  BY MovedWithinLimits
<1>6. step <= vp
  <2>1. Abs(step) <= vp
    BY <1>1, <1>2, <1>3, <1>5, ScaledMagnitude
  <2> HIDE DEF step, vp
  <2>2. QED
    BY <1>3, <2>1 DEF Abs
<1>7. step > 0 => a1 > 0
  <2>1. ASSUME a1 <= 0 PROVE step <= 0
    <3>1. -a1 \in Nat /\ Period \in Nat
      BY <1>1, <1>3, <2>1
    <3>2. (-a1) * Period >= 0 /\ (-a1) * Period = -(a1 * Period)
      BY <1>1, <3>1
    <3>3. QED
      BY <1>3, <3>2
  <2> HIDE DEF step
  <2>2. QED
    BY <1>1, <1>3, <2>1
<1>8. m.vel \in Int /\ Abs(a1) = Abs(m.vel)
  <2>1. m.vel \in Int
    BY <1>1, FiniteFacts DEF IsTrap
  <2>2. QED
    BY <1>2, <2>1, Directed DEF Along
<1>9. TrapReached(m, Period) <=> l1 <= 0 /\ (m.phase = "DECEL" \/ Abs(a1) <= w)
  <2>1. TrapReached(m, Period) <=> l1 <= 0 /\ (m.phase = "DECEL" \/ Abs(m.vel) <= w)
    BY <1>1 DEF TrapReached, Left
  <2>2. QED
    BY <1>8, <2>1
<1>10. SteppedOver(m) <=> (l1 <= 0 => a1 > w /\ (-l1 <= vp \/ BrakesInTime(m)))
  BY <1>1 DEF SteppedOver
<1>11. /\ m.phase = "DECEL" => ~BrakesInTime(s)
       /\ a0 >= 0 /\ m.phase # "DECEL" =>
            BrakesInTime(s) /\ a0 <= a1 /\ a1 <= a0 + w
  BY <1>1, <1>3 DEF Ramp
<1> HIDE DEF w, vp, a0, a1, l0, l1, step
<1>12. CASE l0 > 0
  <2>1. ASSUME l1 <= 0 PROVE l0 <= step /\ -l1 <= vp /\ l0 <= vp /\ a1 > 0
    BY <1>1, <1>3, <1>4, <1>6, <1>7, <1>12, <2>1
  <2>2. a1 > 0 /\ ~(Abs(a1) <= w) => a1 > w
    BY <1>1, <1>3 DEF Abs
  <2>3. QED
    <3>1. TrapReached(m, Period) => Abs(s.target - s.pos) <= vp
      <4>1. Abs(s.target - s.pos) = l0
        BY <1>1, <1>4, <1>12
      <4>2. QED
        BY <1>9, <2>1, <4>1
    <3>2. ~TrapReached(m, Period) => SteppedOver(m)
      BY <1>9, <1>10, <2>1, <2>2
    <3>3. QED
      BY <3>1, <3>2 DEF vp
<1>13. CASE l0 <= 0
  <2>1. a0 > w /\ a0 > 0 /\ (-l0 <= vp \/ BrakesInTime(s))
    BY <1>1, <1>2, <1>3, <1>13 DEF w, vp, a0, l0
  <2>2. ASSUME m.phase # "DECEL" PROVE a1 > w /\ ~(Abs(a1) <= w) /\ BrakesInTime(s)
    BY <1>1, <1>3, <1>11, <2>1, <2>2 DEF Abs
  <2>3. ASSUME TrapReached(m, Period) PROVE Abs(s.target - s.pos) <= vp
    <3>1. m.phase = "DECEL"
      BY <1>9, <2>2, <2>3
    <3>2. -l0 <= vp
      BY <1>11, <2>1, <3>1
    <3>3. QED
      BY <1>4, <1>13, <3>2
  <2>4. ASSUME m.phase # "DECEL", l1 <= 0 PROVE BrakesInTime(m)
    <3>1. 2 * a * (-l0) > a0 * a0
      BY <1>4, <1>13, <2>2, <2>4 DEF BrakesInTime, a0
    <3>2. 2 * a * (-l0 + a1 * Period) > a1 * a1
      <4> HIDE DEF a
      <4>1. a0 <= a1 /\ a1 <= a0 + a * Period
        BY <1>11, <2>1, <2>4, <1>1 DEF w
      <4>2. QED
        BY <1>1, <1>2, <1>3, <2>1, <3>1, <4>1, StillBeyond
    <3>3. -l0 + a1 * Period = -l1
      BY <1>1, <1>3 DEF step
    <3>4. Abs(m.target - m.pos) = -l1
      BY <1>4, <2>4
    <3>5. 2 * m.cfg.a_max * Abs(m.target - m.pos) > a1 * a1
      BY <1>1, <3>2, <3>3, <3>4
    <3>6. QED
      BY <3>5 DEF BrakesInTime, a1
  <2>5. QED
    <3>1. ~TrapReached(m, Period) => SteppedOver(m)
      BY <1>9, <1>10, <2>2, <2>4
    <3>2. QED
      BY <2>3, <3>1 DEF vp
<1>14. QED
  BY <1>1, <1>12, <1>13 DEF vp
-----------------------------------------------------------------------------
(* init and reset leave a generator at rest. *)
LEMMA SeededSound ==
  ASSUME NEW cfg, cfg.v_max \in Nat, NEW pos0 \in Finite, NEW ready \in BOOLEAN,
         ready => ValidTrapConfig(cfg)
  PROVE  SoundTrap(TrapSeeded(cfg, pos0, ready))
<1> DEFINE r == TrapSeeded(cfg, pos0, ready)
<1>1. /\ r.cfg = cfg /\ r.vel = 0 /\ r.v_peak = 0 /\ r.finished
      /\ r.is_initialised = ready
  BY DEF TrapSeeded
<1>2. IsTrap(r)
  BY FiniteFacts DEF TrapSeeded, IsTrap, Directions, TrapPhase, TrapFault, TrapStatus
<1> HIDE DEF r
<1>3. QED
  BY <1>1, <1>2 DEF SoundTrap, SteppedOver, Abs, r

(* A change of hold, phase, fault and status leaves a generator sound. *)
LEMMA SameMotion ==
  ASSUME NEW s, SoundTrap(s), NEW r, IsTrap(r),
         r.cfg = s.cfg, r.pos = s.pos, r.vel = s.vel, r.target = s.target,
         r.direction = s.direction, r.v_peak = s.v_peak, r.finished = s.finished,
         r.is_initialised = s.is_initialised
  PROVE  SoundTrap(r)
<1>1. SteppedOver(s) => SteppedOver(r)
  BY DEF SteppedOver, Along, Left, BrakesInTime
<1>2. QED
  BY <1>1 DEF SoundTrap

(* A held generator is sound. *)
LEMMA HeldSound ==
  ASSUME NEW s, SoundTrap(s)
  PROVE  SoundTrap(TrapHeld(s)) /\ TrapHeld(s).pos = s.pos /\ TrapHeld(s).vel = s.vel
<1> DEFINE r == TrapHeld(s)
<1>1. IsTrap(s) /\ "HOLD" \in TrapPhase
  BY DEF SoundTrap, TrapPhase
<1>2. r = [s EXCEPT !.phase = "HOLD"]
  BY DEF TrapHeld
<1> HIDE DEF r
<1>3. /\ r.cfg = s.cfg /\ r.pos = s.pos /\ r.vel = s.vel /\ r.target = s.target
      /\ r.direction = s.direction /\ r.v_peak = s.v_peak /\ r.finished = s.finished
      /\ r.is_initialised = s.is_initialised
  BY <1>1, <1>2 DEF IsTrap
<1>4. IsTrap(r)
  BY <1>1, <1>2 DEF IsTrap
<1>5. SoundTrap(r)
  BY <1>3, <1>4, SameMotion
<1>6. QED
  BY <1>3, <1>5 DEF r

(* A new plan points at the target, or ends the move where it is. *)
LEMMA PlanSound ==
  ASSUME NEW s, IsTrap(s), s.is_initialised, ValidTrapConfig(s.cfg),
         Abs(s.vel) <= s.cfg.v_max
  PROVE  SoundTrap(TrapPlan(s))
<1> DEFINE r == TrapPlan(s)
<1>1. /\ s.pos \in Int /\ s.vel \in Int /\ s.target \in Int
      /\ s.cfg.a_max \in Nat /\ s.cfg.v_max \in Nat
  BY TrapTypes
<1>2. CASE s.target = s.pos
  <2>1. r = [s EXCEPT !.direction = 1, !.v_peak = 0, !.phase = "DONE", !.finished = TRUE]
    BY <1>2 DEF TrapPlan
  <2>2. /\ r.cfg = s.cfg /\ r.vel = s.vel /\ r.v_peak = 0 /\ r.finished
        /\ r.is_initialised = s.is_initialised
    BY <2>1 DEF IsTrap
  <2> HIDE DEF r
  <2>3. IsTrap(r)
    <3>1. 1 \in Directions /\ "DONE" \in TrapPhase /\ 0 \in Nat
      BY DEF Directions, TrapPhase
    <3>2. QED
      BY <2>1, <3>1 DEF IsTrap
  <2>4. QED
    BY <1>1, <2>2, <2>3 DEF SoundTrap, SteppedOver, r
<1>3. CASE s.target # s.pos
  <2> DEFINE d    == SignNonzero(s.target - s.pos)
             peak == PeakSpeed(s.cfg, Abs(s.target - s.pos))
  <2>1. r = [s EXCEPT !.direction = d, !.v_peak = peak, !.phase = "ACCEL", !.finished = FALSE]
    BY <1>3 DEF TrapPlan
  <2>2. d \in Directions /\ d * (s.target - s.pos) > 0
    <3>1. CASE s.target - s.pos < 0
      BY <1>1, <3>1 DEF SignNonzero, Directions
    <3>2. CASE s.target - s.pos > 0
      BY <1>1, <3>2 DEF SignNonzero, Directions
    <3>3. QED
      BY <1>1, <1>3, <3>1, <3>2
  <2>3. peak \in Nat /\ peak <= s.cfg.v_max
    <3>1. Abs(s.target - s.pos) \in Nat
      BY <1>1 DEF Abs
    <3>2. QED
      BY <1>1, <3>1, PeakWithinLimit
  <2> HIDE DEF d, peak
  <2>4. /\ r.cfg = s.cfg /\ r.vel = s.vel /\ r.v_peak = peak /\ r.direction = d
        /\ r.target = s.target /\ r.pos = s.pos /\ r.is_initialised = s.is_initialised
    BY <2>1 DEF IsTrap
  <2>5. IsTrap(r)
    BY <2>1, <2>2, <2>3 DEF IsTrap, TrapPhase
  <2> HIDE DEF r
  <2>6. Left(r) > 0 /\ Left(r) \in Int
    BY <2>2, <2>4, <2>5, LeftMagnitude DEF Left
  <2>7. SteppedOver(r)
    BY <2>6 DEF SteppedOver
  <2>8. SoundTrap(r)
    BY <1>1, <2>3, <2>4, <2>5, <2>7 DEF SoundTrap
  <2>9. QED
    BY <2>8 DEF r
<1>4. QED
  BY <1>2, <1>3

(* The generator after a step's motion, and how far it has come. *)
LEMMA AdvanceSound ==
  ASSUME NEW s, SoundTrap(s), s.is_initialised, ~s.finished,
         NEW m, m = TrapIntegrate(s, Period), KinematicsFinite(m),
         NEW r, r = TrapFinishIfReached(m, Period)
  PROVE  /\ SoundTrap(r) /\ r.cfg = s.cfg /\ r.is_initialised
         /\ Abs(r.pos - s.pos) <= s.cfg.v_max * Period
         /\ Abs(r.vel - s.vel) <= s.cfg.a_max * Period \/ r.finished
<1>1. /\ IsTrap(m) /\ m.cfg = s.cfg /\ m.is_initialised /\ m.v_peak = s.v_peak
      /\ m.target = s.target
  BY Moved
<1>2. /\ Abs(m.vel) <= s.cfg.v_max
      /\ Abs(m.vel - s.vel) <= s.cfg.a_max * Period
      /\ Abs(m.pos - s.pos) <= s.cfg.v_max * Period
  BY MovedWithinLimits
<1>3. /\ TrapReached(m, Period) => Abs(s.target - s.pos) <= s.cfg.v_max * Period
      /\ ~TrapReached(m, Period) => SteppedOver(m)
  BY MovedEnd
<1>4. s.cfg.v_max \in Nat /\ s.v_peak <= s.cfg.v_max /\ ValidTrapConfig(s.cfg)
  BY DEF SoundTrap
<1>5. CASE TrapReached(m, Period)
  <2>1. r = TrapFinish(m)
    BY <1>5 DEF TrapFinishIfReached
  <2>2. /\ r.cfg = s.cfg /\ r.is_initialised /\ r.pos = s.target /\ r.vel = 0
        /\ r.v_peak = s.v_peak /\ r.finished
    BY <1>1, <2>1 DEF TrapFinish, IsTrap
  <2>3. IsTrap(r)
    <3>1. "DONE" \in TrapPhase /\ "OK" \in TrapStatus /\ 0 \in Finite
      BY FiniteFacts DEF TrapPhase, TrapStatus
    <3>2. m.target \in Finite
      BY <1>1 DEF IsTrap
    <3>3. r = [m EXCEPT !.pos = m.target, !.vel = 0, !.acc = 0, !.phase = "DONE",
                        !.finished = TRUE, !.status = "OK"]
      BY <2>1 DEF TrapFinish
    <3>4. QED
      BY <1>1, <3>1, <3>2, <3>3 DEF IsTrap
  <2>4. SoundTrap(r)
    BY <1>4, <2>2, <2>3 DEF SoundTrap, SteppedOver, Abs
  <2>5. QED
    BY <1>3, <1>5, <2>2, <2>4
<1>6. CASE ~TrapReached(m, Period)
  <2>1. r = m
    BY <1>6 DEF TrapFinishIfReached
  <2>2. SoundTrap(m)
    BY <1>1, <1>2, <1>3, <1>4, <1>6 DEF SoundTrap
  <2>3. QED
    BY <1>1, <1>2, <2>1, <2>2
<1>7. QED
  BY <1>5, <1>6
-----------------------------------------------------------------------------
(* The initial state. *)
LEMMA InitInv == Init => Inv
<1> SUFFICES ASSUME Init PROVE Inv
  OBVIOUS
<1>1. profile \in {"TRAP", "SCURVE"} /\ stepped \in BOOLEAN /\ from_rest \in BOOLEAN
  BY DEF Init
<1>2. plans \in 0..Retargets
  BY TrajectoryAssumption DEF Init
<1>3. ASSUME profile = "TRAP" PROVE SoundTrap(t)
  <2> DEFINE cfg == [v_max |-> 0, a_max |-> 0]
  <2>1. t = TrapSeeded(cfg, 0, FALSE)
    BY <1>3 DEF Init
  <2>2. cfg.v_max \in Nat /\ 0 \in Finite
    BY FiniteFacts
  <2> HIDE DEF cfg
  <2>3. QED
    BY <2>1, <2>2, SeededSound
<1>4. QED
  BY <1>1, <1>2, <1>3 DEF Inv

(* A generator at rest after init or reset. *)
LEMMA RestInv ==
  ASSUME Inv, NEW new, Rest(new), profile = "TRAP" => SoundTrap(new) PROVE Inv'
<1>1. t' = new /\ stepped' = FALSE /\ profile' = profile /\ from_rest' = TRUE /\ plans' = 0
  BY DEF Rest, Configure
<1>2. 0 \in 0..Retargets
  BY TrajectoryAssumption
<1>3. QED
  BY <1>1, <1>2 DEF Inv

(* A call that writes no setpoints and makes no plan. *)
LEMMA ConfigureInv ==
  ASSUME Inv, NEW new, Configure(new), UNCHANGED <<from_rest, plans>>,
         profile = "TRAP" => SoundTrap(new)
  PROVE  Inv'
<1>1. t' = new /\ stepped' = FALSE /\ profile' = profile /\ from_rest' = from_rest /\ plans' = plans
  BY DEF Configure
<1>2. QED
  BY <1>1 DEF Inv

(* A new plan. *)
LEMMA PlannedInv ==
  ASSUME Inv, NEW new, Planned(new), profile = "TRAP" => SoundTrap(new) PROVE Inv'
<1>1. t' = new /\ stepped' = FALSE /\ profile' = profile /\ plans' = plans + 1 /\ plans < Retargets
  BY DEF Planned, Configure
<1>2. from_rest' \in BOOLEAN
  BY DEF Planned
<1>3. plans' \in 0..Retargets
  BY <1>1, TrajectoryAssumption DEF Inv
<1>4. QED
  BY <1>1, <1>2, <1>3 DEF Inv

(* ron_trap_init, ron_scurve_init *)
LEMMA InitialiseInv == ASSUME Inv, Initialise PROVE Inv'
<1>1. PICK pos0 \in Positions :
        /\ IsFinite(pos0)
        /\ \/ /\ profile = "TRAP"
              /\ \E c \in TrapConfigs : ValidTrapConfig(c) /\ Rest(TrapSeeded(c, pos0, TRUE))
           \/ /\ profile = "SCURVE"
              /\ \E c \in ScurveConfigs : ValidScurveConfig(c) /\ Rest(ScurveSeeded(c, pos0, TRUE))
  BY DEF Initialise
<1>2. CASE profile = "TRAP"
  <2>1. PICK c \in TrapConfigs : ValidTrapConfig(c) /\ Rest(TrapSeeded(c, pos0, TRUE))
    BY <1>1, <1>2
  <2>2. c.v_max \in Nat /\ pos0 \in Finite
    BY <1>1, <2>1, FiniteMember, FiniteIsInt DEF ValidTrapConfig
  <2>3. SoundTrap(TrapSeeded(c, pos0, TRUE))
    BY <2>1, <2>2, SeededSound
  <2>4. QED
    BY <2>1, <2>3, RestInv
<1>3. CASE profile = "SCURVE"
  <2>1. PICK c \in ScurveConfigs : Rest(ScurveSeeded(c, pos0, TRUE))
    BY <1>1, <1>3
  <2>2. QED
    BY <1>3, <2>1, RestInv
<1>4. QED
  BY <1>1, <1>2, <1>3

(* ron_trap_reset, ron_scurve_reset *)
LEMMA ResetInv == ASSUME Inv, Reset PROVE Inv'
<1>1. PICK pos0 \in Positions :
        /\ t.is_initialised /\ IsFinite(pos0)
        /\ Rest(IF profile = "TRAP" THEN TrapSeeded(t.cfg, pos0, TRUE)
                ELSE ScurveSeeded(t.cfg, pos0, TRUE))
  BY DEF Reset
<1>2. CASE profile = "TRAP"
  <2>1. t.cfg.v_max \in Nat /\ ValidTrapConfig(t.cfg) /\ pos0 \in Finite
    BY <1>1, <1>2, FiniteMember DEF Inv, SoundTrap
  <2>2. SoundTrap(TrapSeeded(t.cfg, pos0, TRUE))
    BY <2>1, SeededSound
  <2>3. QED
    BY <1>1, <1>2, <2>2, RestInv
<1>3. CASE profile # "TRAP"
  BY <1>1, <1>3, RestInv
<1>4. QED
  BY <1>2, <1>3

(* A fault the trapezoidal generator can raise. *)
LEMMA FaultySound ==
  ASSUME SoundTrap(t), NEW code \in TrapFault
  PROVE  SoundTrap(Faulty(code)) /\ Faulty(code).pos = t.pos /\ Faulty(code).vel = t.vel
<1> DEFINE r == Faulty(code)
<1>1. IsTrap(t) /\ "FAULT" \in TrapStatus
  BY DEF SoundTrap, TrapStatus
<1>2. r = [t EXCEPT !.fault_code = code, !.status = "FAULT"]
  BY DEF Faulty
<1> HIDE DEF r
<1>3. /\ r.cfg = t.cfg /\ r.pos = t.pos /\ r.vel = t.vel /\ r.target = t.target
      /\ r.direction = t.direction /\ r.v_peak = t.v_peak /\ r.finished = t.finished
      /\ r.is_initialised = t.is_initialised
  BY <1>1, <1>2 DEF IsTrap
<1>4. IsTrap(r)
  BY <1>1, <1>2 DEF IsTrap
<1>5. SoundTrap(r)
  BY <1>3, <1>4, SameMotion
<1>6. QED
  BY <1>3, <1>5 DEF r

(* ron_trap_set_target, ron_scurve_set_target *)
LEMMA SetTargetInv == ASSUME Inv, SetTarget PROVE Inv'
<1>1. PICK target \in Targets :
        LET s == [t EXCEPT !.target = target]
        IN  IF IsFinite(target)
            THEN Planned(IF profile = "TRAP" THEN TrapPlan(s) ELSE ScurvePlan(s))
            ELSE Configure(Faulty("CONFIG_INVALID")) /\ UNCHANGED <<from_rest, plans>>
  BY DEF SetTarget
<1> DEFINE s == [t EXCEPT !.target = target]
<1>2. CASE IsFinite(target)
  <2>1. Planned(IF profile = "TRAP" THEN TrapPlan(s) ELSE ScurvePlan(s))
    BY <1>1, <1>2
  <2>2. ASSUME profile = "TRAP" PROVE SoundTrap(TrapPlan(s))
    <3>1. IsTrap(t) /\ ValidTrapConfig(t.cfg) /\ Abs(t.vel) <= t.cfg.v_max /\ t.is_initialised
      BY <2>2 DEF Inv, SoundTrap, SetTarget, Faultless
    <3>2. target \in Finite
      BY <1>2, FiniteMember
    <3>3. IsTrap(s) /\ s.cfg = t.cfg /\ s.vel = t.vel /\ s.is_initialised
      BY <3>1, <3>2 DEF IsTrap
    <3> HIDE DEF s
    <3>4. QED
      BY <3>1, <3>3, PlanSound
  <2> HIDE DEF s
  <2>3. QED
    BY <2>1, <2>2, PlannedInv
<1>3. CASE ~IsFinite(target)
  <2>1. Configure(Faulty("CONFIG_INVALID")) /\ UNCHANGED <<from_rest, plans>>
    BY <1>1, <1>3
  <2>2. profile = "TRAP" => SoundTrap(Faulty("CONFIG_INVALID"))
    BY FaultySound DEF Inv, TrapFault
  <2>3. QED
    BY <2>1, <2>2, ConfigureInv
<1>4. QED
  BY <1>2, <1>3

(* A hold and its release, which plans an unfinished move again. *)
LEMMA HoldSound ==
  ASSUME NEW s, SoundTrap(s), s.is_initialised, NEW hold \in BOOLEAN
  PROVE  SoundTrap(TrapHold(s, hold))
<1> DEFINE r == [s EXCEPT !.hold = hold]
<1>1. IsTrap(s) /\ ValidTrapConfig(s.cfg) /\ Abs(s.vel) <= s.cfg.v_max
  BY DEF SoundTrap
<1>2. /\ r.cfg = s.cfg /\ r.pos = s.pos /\ r.vel = s.vel /\ r.target = s.target
      /\ r.direction = s.direction /\ r.v_peak = s.v_peak /\ r.finished = s.finished
      /\ r.is_initialised = s.is_initialised
  BY <1>1 DEF IsTrap
<1>3. IsTrap(r)
  BY <1>1 DEF IsTrap
<1>4. TrapHold(s, hold) = IF hold THEN TrapHeld(r) ELSE IF s.finished THEN r ELSE TrapPlan(r)
  BY DEF TrapHold
<1> HIDE DEF r
<1>5. SoundTrap(r)
  BY <1>2, <1>3, SameMotion
<1>6. SoundTrap(TrapPlan(r))
  BY <1>1, <1>2, <1>3, PlanSound
<1>7. SoundTrap(TrapHeld(r))
  BY <1>5, HeldSound
<1>8. QED
  BY <1>4, <1>5, <1>6, <1>7

(* ron_trap_hold, ron_scurve_hold *)
LEMMA HoldInv == ASSUME Inv, Hold PROVE Inv'
<1>1. PICK hold \in BOOLEAN :
        IF profile = "TRAP" /\ ~hold /\ ~t.finished THEN Planned(TrapHold(t, hold))
        ELSE /\ Configure(IF profile = "TRAP" THEN TrapHold(t, hold) ELSE ScurveHold(t, hold))
             /\ UNCHANGED <<from_rest, plans>>
  BY DEF Hold
<1>2. profile = "TRAP" => SoundTrap(TrapHold(t, hold))
  BY HoldSound DEF Inv, Hold, Faultless
<1>3. CASE profile = "TRAP" /\ ~hold /\ ~t.finished
  BY <1>1, <1>2, <1>3, PlannedInv
<1>4. CASE ~(profile = "TRAP" /\ ~hold /\ ~t.finished)
  <2> DEFINE new == IF profile = "TRAP" THEN TrapHold(t, hold) ELSE ScurveHold(t, hold)
  <2>1. Configure(new) /\ UNCHANGED <<from_rest, plans>>
    BY <1>1, <1>4
  <2>2. profile = "TRAP" => SoundTrap(new)
    BY <1>2
  <2> HIDE DEF new
  <2>3. QED
    BY <2>1, <2>2, ConfigureInv
<1>5. QED
  BY <1>3, <1>4

(***************************************************************************)
(* A step: the generator stays where it is, or moves as far as its limits  *)
(* allow.                                                                  *)
(***************************************************************************)
LEMMA StepSound ==
  ASSUME Inv, Step, profile = "TRAP"
  PROVE  /\ SoundTrap(t')
         /\ Abs(t'.pos - t.pos) <= t.cfg.v_max * Period
         /\ Abs(t'.vel - t.vel) <= t.cfg.a_max * Period \/ t'.finished
<1> DEFINE m == TrapIntegrate(t, Period)
           Stays == /\ SoundTrap(t') /\ t'.pos = t.pos /\ t'.vel = t.vel
<1>1. SoundTrap(t) /\ IsTrap(t) /\ t.is_initialised /\ ValidTrapConfig(t.cfg)
  BY DEF Inv, Step, SoundTrap
<1>2. /\ t.pos \in Int /\ t.vel \in Int /\ t.cfg.v_max \in Nat /\ t.cfg.a_max \in Nat
      /\ Period \in Nat
  BY <1>1, TrapTypes, PeriodPositive
<1>3. ASSUME Stays
      PROVE  /\ Abs(t'.pos - t.pos) <= t.cfg.v_max * Period
             /\ Abs(t'.vel - t.vel) <= t.cfg.a_max * Period
  <2>1. t.cfg.v_max * Period >= 0 /\ t.cfg.a_max * Period >= 0
    BY <1>2
  <2>2. Abs(t'.pos - t.pos) = 0 /\ Abs(t'.vel - t.vel) = 0
    BY <1>2, <1>3 DEF Abs
  <2>3. QED
    BY <2>1, <2>2
<1>4. CASE t.fault_code # "NONE" \/ (~t.hold /\ t.finished)
  <2>1. t' = t
    BY <1>4 DEF Step
  <2>2. QED
    BY <1>1, <1>3, <2>1
<1>5. CASE t.fault_code = "NONE" /\ t.hold
  <2>1. t' = TrapHeld(t)
    BY <1>5 DEF Step
  <2>2. QED
    BY <1>1, <1>3, <2>1, HeldSound
<1>6. CASE t.fault_code = "NONE" /\ ~t.hold /\ ~t.finished
  <2>1. t' = Advance(m, Period)
    BY <1>6 DEF Step, Integrated
  <2>2. CASE KinematicsFinite(m)
    <3>1. t' = TrapFinishIfReached(m, Period)
      BY <2>1, <2>2 DEF Advance, FinishIfDone
    <3> HIDE DEF m
    <3>2. m = TrapIntegrate(t, Period)
      BY DEF m
    <3>3. QED
      BY <1>1, <1>6, <2>2, <3>1, <3>2, AdvanceSound
  <2>3. CASE ~KinematicsFinite(m)
    <3>1. t' = Faulty("OUTPUT_NAN")
      BY <2>1, <2>3 DEF Advance
    <3>2. SoundTrap(t') /\ t'.pos = t.pos /\ t'.vel = t.vel
      BY <1>1, <3>1, FaultySound DEF TrapFault
    <3>3. QED
      BY <1>3, <3>2
  <2>4. QED
    BY <2>2, <2>3
<1>7. QED
  BY <1>4, <1>5, <1>6

(* ron_trap_step, ron_scurve_step *)
LEMMA StepInv == ASSUME Inv, Step PROVE Inv'
<1>1. stepped' = TRUE /\ profile' = profile /\ from_rest' = from_rest
  BY DEF Step
<1>2. plans' \in 0..Retargets
  <2>1. plans' = 0 \/ plans' = plans
    BY DEF Step
  <2>2. QED
    BY <2>1, TrajectoryAssumption DEF Inv
<1>3. profile = "TRAP" => SoundTrap(t')
  BY StepSound
<1>4. QED
  BY <1>1, <1>2, <1>3 DEF Inv

(* The invariant is inductive. *)
LEMMA NextInv == Inv /\ [Next]_vars => Inv'
<1> SUFFICES ASSUME Inv, [Next]_vars PROVE Inv'
  OBVIOUS
<1>1. CASE Initialise
  BY <1>1, InitialiseInv
<1>2. CASE Reset
  BY <1>2, ResetInv
<1>3. CASE SetTarget
  BY <1>3, SetTargetInv
<1>4. CASE Hold
  BY <1>4, HoldInv
<1>5. CASE Step
  BY <1>5, StepInv
<1>6. CASE BadStep
  <2>1. Configure(Faulty("CONFIG_INVALID")) /\ UNCHANGED <<from_rest, plans>>
    BY <1>6 DEF BadStep
  <2>2. profile = "TRAP" => SoundTrap(Faulty("CONFIG_INVALID"))
    BY FaultySound DEF Inv, TrapFault
  <2>3. QED
    BY <2>1, <2>2, ConfigureInv
<1>7. CASE UNCHANGED vars
  BY <1>7 DEF vars, Inv
<1>8. QED
  BY <1>1, <1>2, <1>3, <1>4, <1>5, <1>6, <1>7 DEF Next

(* The invariant the theorems below rest on. *)
THEOREM Invariance == Spec => []Inv
  BY InitInv, NextInv, PTL DEF Spec

(* TypeOK of the trapezoidal generator: nothing that is not finite is      *)
(* kept, and the planned peak speed is within the limit.                   *)
THEOREM TypeCorrectness == Spec => [](profile = "TRAP" => TypeOK)
<1>1. Inv => (profile = "TRAP" => TypeOK)
  <2> SUFFICES ASSUME Inv, profile = "TRAP" PROVE TypeOK
    OBVIOUS
  <2>1. /\ t.pos \in Finite /\ t.vel \in Finite /\ t.acc \in Finite /\ t.jrk = 0
        /\ t.target \in Finite /\ t.direction \in Directions /\ t.phase \in TrapPhase
        /\ t.v_peak \in Nat /\ t.hold \in BOOLEAN /\ t.finished \in BOOLEAN
    BY DEF Inv, SoundTrap, IsTrap
  <2>2. t.cfg.v_max \in Nat /\ t.v_peak <= t.cfg.v_max
    BY DEF Inv, SoundTrap
  <2>3. \A x \in {t.pos, t.vel, t.acc, t.jrk, t.target} : IsFinite(x)
    BY <2>1, FiniteMember, FiniteFacts
  <2>4. t.v_peak \in 0..t.cfg.v_max
    BY <2>1, <2>2
  <2>5. QED
    BY <2>1, <2>3, <2>4 DEF Inv, TypeOK, Directions
<1>2. QED
  BY <1>1, Invariance, PTL

(* WithinLimits of the trapezoidal generator: its speed never exceeds the  *)
(* limit, however it is retargeted, held and released in motion.           *)
THEOREM LimitsSafety == Spec => [](profile = "TRAP" => WithinLimits)
<1>1. Inv => (profile = "TRAP" => WithinLimits)
  BY DEF Inv, SoundTrap, WithinLimits
<1>2. QED
  BY <1>1, Invariance, PTL

(* Continuous for the trapezoidal generator: no sample moves the position  *)
(* further than the greatest speed allows, the one that puts it on its     *)
(* target included, and none but that one changes the speed faster than    *)
(* the acceleration limit allows.                                          *)
THEOREM Continuity == Spec => (profile = "TRAP" => Continuous)
<1> DEFINE Smooth ==
      LET dt == Period IN
      stepped' /\ (profile = "TRAP" \/ from_rest) =>
        /\ Abs(t'.pos - t.pos) <= t.cfg.v_max * dt
        /\ Abs(t'.vel - t.vel) <= t.cfg.a_max * dt \/ (profile = "TRAP" /\ t'.finished)
        /\ profile = "SCURVE" => Abs(t'.acc - t.acc) <= t.cfg.j_max * dt
    IsTrapezoidal == profile = "TRAP"
<1>1. Inv /\ IsTrapezoidal /\ [Next]_vars => [Smooth]_vars
  <2> SUFFICES ASSUME Inv, profile = "TRAP", Next, stepped'
               PROVE  /\ Abs(t'.pos - t.pos) <= t.cfg.v_max * Period
                      /\ \/ Abs(t'.vel - t.vel) <= t.cfg.a_max * Period
                         \/ t'.finished
    OBVIOUS
  <2>1. Step
    BY DEF Next, Initialise, Reset, SetTarget, Hold, BadStep, Rest, Planned, Configure
  <2>2. QED
    BY <2>1, StepSound
<1>2. IsTrapezoidal /\ [Next]_vars => IsTrapezoidal'
  BY DEF Next, vars, Initialise, Reset, SetTarget, Hold, Step, BadStep, Rest, Planned, Configure
<1> HIDE DEF IsTrapezoidal, Smooth
<1>3. Spec /\ IsTrapezoidal => [][Smooth]_vars
  BY <1>1, <1>2, Invariance, PTL DEF Spec
<1>4. QED
  BY <1>3 DEF Continuous, IsTrapezoidal, Smooth
-----------------------------------------------------------------------------
(* A jerk-limited generator, whatever its configuration; within a sample   *)
(* its motion need not be finite.                                          *)
IsScurve(s) ==
  s \in [cfg : {s.cfg}, pos : Int, vel : Int, acc : Int, jrk : Int, target : Finite,
         direction : Directions, phase_time : [Segments -> Nat], t_phase : Nat, t_total : Nat,
         elapsed : Nat, phase : 0..7, fault_code : TrapFault, status : TrapStatus,
         hold : BOOLEAN, finished : BOOLEAN, is_initialised : BOOLEAN]

(* The segments before the k-th. *)
Before(k) == {i \in Segments : i < k}

(***************************************************************************)
(* The clock: what has elapsed is the time of the segments behind and the  *)
(* time in this one, which is not over.                                    *)
(***************************************************************************)
OnTime(s) ==
  /\ s.elapsed = s.t_phase + Total(s.phase_time, Before(s.phase))
  /\ (s.phase \in Segments /\ s.t_phase < s.phase_time[s.phase]) \/ s.t_phase = 0
  /\ s.t_total = Total(s.phase_time, Segments)

SoundScurve(s) ==
  /\ IsScurve(s)
  /\ s.pos \in Finite /\ s.vel \in Finite /\ s.acc \in Finite /\ s.jrk \in Finite
  /\ ~s.is_initialised => s.finished
  /\ s.is_initialised => s.cfg \in ScurveConfigs /\ ValidScurveConfig(s.cfg)
  /\ ~s.finished => OnTime(s) /\ s.phase # DONE /\ s.elapsed < s.t_total

(***************************************************************************)
(* The motion of a move planned at rest, with ramps of R and a cruise of   *)
(* C, at the time u of the k-th segment: the acceleration, twice the       *)
(* velocity and six times the distance come, in units of the jerk.         *)
(***************************************************************************)
PathAcc(R, k, u) ==
  CASE k = 0 -> u
    [] k = 1 -> R
    [] k = 2 -> R - u
    [] k = 4 -> -u
    [] k = 5 -> -R
    [] k = 6 -> u - R
    [] OTHER -> 0

PathVel(R, k, u) ==
  CASE k = 0 -> u * u
    [] k = 1 -> R * R
    [] k = 2 -> 2 * R * R - (R - u) * (R - u)
    [] k = 3 -> 2 * R * R
    [] k = 4 -> 2 * R * R - u * u
    [] k = 5 -> R * R
    [] k = 6 -> (R - u) * (R - u)
    [] OTHER -> 0

PathPos(R, C, k, u) ==
  CASE k = 0 -> u * u * u
    [] k = 1 -> R * R * R
    [] k = 2 -> 6 * R * R * u + (R - u) * (R - u) * (R - u)
    [] k = 3 -> 6 * R * R * (R + u)
    [] k = 4 -> 6 * R * R * (R + C + u) - u * u * u
    [] k = 5 -> R * R * (11 * R + 6 * C)
    [] k = 6 -> R * R * (12 * R + 6 * C) - (R - u) * (R - u) * (R - u)
    [] OTHER -> R * R * (12 * R + 6 * C)

(* The segments' times of a plan. *)
PlanTimes(R, C) == [k \in Segments |-> IF k = CONST_VEL THEN C ELSE IF k % 2 = 0 THEN R ELSE 0]

(* A generator at a point of the path that ends at its target.             *)
OnPathAt(s, k, u) ==
  LET R == s.phase_time[JERK_POS_1]
      C == s.phase_time[CONST_VEL]
      j == s.direction * s.cfg.j_max
  IN  /\ s.acc = j * PathAcc(R, k, u)
      /\ 2 * s.vel = j * PathVel(R, k, u)
      /\ 6 * (s.target - s.pos) = j * (PathPos(R, C, DONE, 0) - PathPos(R, C, k, u))

(* A generator where its clock says, on a plan its configuration allows.   *)
OnPath(s) ==
  /\ s.phase_time = PlanTimes(s.phase_time[JERK_POS_1], s.phase_time[CONST_VEL])
  /\ s.phase_time[JERK_POS_1] \in 1..RampLimit(s.cfg)
  /\ OnPathAt(s, s.phase, s.t_phase)
-----------------------------------------------------------------------------
(***************************************************************************)
(* The clock of the S-curve.                                               *)
(***************************************************************************)
(* There are seven segments. *)
LEMMA SegmentsFinite == IsFiniteSet(Segments)
<1>1. 0 \in Int /\ 6 \in Int
  OBVIOUS
<1>2. IsFiniteSet(0..6)
  BY <1>1, FS_Interval
<1>3. QED
  BY <1>2 DEF Segments

(* The segments before the next one are those before this one, and this.   *)
LEMMA BeforeIs ==
  /\ Before(0) = {} /\ Before(DONE) = Segments
  /\ \A k \in 0..7 : IsFiniteSet(Before(k)) /\ Before(k) \subseteq Segments
  /\ \A k \in Segments : k \notin Before(k) /\ Before(k + 1) = Before(k) \union {k}
<1>1. Before(0) = {} /\ Before(DONE) = Segments
  BY DEF Before, Segments, DONE
<1>2. ASSUME NEW k \in 0..7 PROVE IsFiniteSet(Before(k)) /\ Before(k) \subseteq Segments
  <2>1. IsFiniteSet(Segments)
    BY SegmentsFinite
  <2>2. Before(k) \subseteq Segments
    BY DEF Before
  <2>3. QED
    BY <2>1, <2>2, FS_Subset
<1>3. ASSUME NEW k \in Segments PROVE k \notin Before(k) /\ Before(k + 1) = Before(k) \union {k}
  BY DEF Before, Segments
<1>4. QED
  BY <1>1, <1>2, <1>3

(* The time before a segment, and before the next one. *)
LEMMA TimeBefore ==
  ASSUME NEW w \in [Segments -> Nat]
  PROVE  /\ Total(w, Before(0)) = 0 /\ Total(w, Before(DONE)) = Total(w, Segments)
         /\ \A k \in 0..7 : Total(w, Before(k)) \in Nat
         /\ \A k \in Segments : Total(w, Before(k + 1)) = Total(w, Before(k)) + w[k]
<1>1. Total(w, Before(0)) = 0 /\ Total(w, Before(DONE)) = Total(w, Segments)
  BY BeforeIs, TotalEmpty
<1>2. ASSUME NEW k \in 0..7 PROVE Total(w, Before(k)) \in Nat
  <2>1. IsFiniteSet(Before(k)) /\ \A i \in Before(k) : w[i] \in Nat
    BY BeforeIs
  <2>2. QED
    BY <2>1, UnitsFinite
<1>3. ASSUME NEW k \in Segments PROVE Total(w, Before(k + 1)) = Total(w, Before(k)) + w[k]
  <2>1. k \in 0..7
    BY DEF Segments
  <2>2. IsFiniteSet(Before(k)) /\ (\A i \in Before(k) : w[i] \in Nat) /\ k \notin Before(k) /\ w[k] \in Nat
    BY <2>1, BeforeIs
  <2>3. Total(w, Before(k) \union {k}) = Total(w, Before(k)) + w[k]
    BY <2>2, TotalAdd
  <2>4. QED
    BY <2>3, BeforeIs
<1>4. QED
  BY <1>1, <1>2, <1>3

(* Segments that take no time do not count. *)
LEMMA TimeSkipped ==
  ASSUME NEW w \in [Segments -> Nat], NEW k \in 0..7, NEW n \in 0..7, k <= n,
         \A i \in Segments : k <= i /\ i < n => w[i] = 0
  PROVE  Total(w, Before(n)) = Total(w, Before(k))
<1>1. ASSUME NEW p, p \in Units(w, Before(n)) PROVE p \in Units(w, Before(k))
  <2>1. p \in Before(n) \X Nat /\ p[2] < w[p[1]] /\ p[1] \in Segments /\ p[1] < n
    BY <1>1 DEF Units, Before
  <2>2. w[p[1]] # 0
    BY <2>1
  <2>3. p[1] < k
    BY <2>1, <2>2 DEF Segments
  <2>4. QED
    BY <2>1, <2>3 DEF Units, Before
<1>2. ASSUME NEW p, p \in Units(w, Before(k)) PROVE p \in Units(w, Before(n))
  BY <1>2 DEF Units, Before, Segments
<1>3. Units(w, Before(n)) = Units(w, Before(k))
  BY <1>1, <1>2
<1>4. QED
  BY <1>3 DEF Total

(* What a plan's times add up to. *)
LEMMA PlanTimesAre ==
  ASSUME NEW R \in Nat, NEW C \in Nat
  PROVE  /\ PlanTimes(R, C) \in [Segments -> Nat]
         /\ PlanTimes(R, C)[0] = R /\ PlanTimes(R, C)[1] = 0 /\ PlanTimes(R, C)[2] = R
         /\ PlanTimes(R, C)[3] = C /\ PlanTimes(R, C)[4] = R /\ PlanTimes(R, C)[5] = 0
         /\ PlanTimes(R, C)[6] = R
         /\ Total(PlanTimes(R, C), Segments) = 4 * R + C
<1> DEFINE w == PlanTimes(R, C)
           b(k) == Total(w, Before(k))
<1>1. /\ w \in [Segments -> Nat]
      /\ w[0] = R /\ w[1] = 0 /\ w[2] = R /\ w[3] = C /\ w[4] = R /\ w[5] = 0 /\ w[6] = R
  BY DEF PlanTimes, Segments, CONST_VEL
<1> HIDE DEF w
<1>2. /\ b(0) = 0 /\ b(7) = Total(w, Segments)
      /\ \A k \in Segments : b(k + 1) = b(k) + w[k]
  BY <1>1, TimeBefore DEF DONE
<1> HIDE DEF b
<1>3. /\ b(1) = b(0) + w[0] /\ b(2) = b(1) + w[1] /\ b(3) = b(2) + w[2] /\ b(4) = b(3) + w[3]
      /\ b(5) = b(4) + w[4] /\ b(6) = b(5) + w[5] /\ b(7) = b(6) + w[6]
  <2>1. ASSUME NEW k \in Segments, NEW n, n = k + 1 PROVE b(n) = b(k) + w[k]
    BY <1>2, <2>1
  <2>2. QED
    BY <2>1 DEF Segments
<1>4. b(7) = 4 * R + C
  BY <1>1, <1>2, <1>3
<1>5. QED
  BY <1>1, <1>2, <1>4 DEF w

(* What ClockMatchesSegments sums. *)
LEMMA TimeIsTotal ==
  ASSUME NEW w \in [Segments -> Nat], NEW S \in SUBSET Segments
  PROVE  MapThenSumSet(LAMBDA k : w[k], S) = Total(w, S)
<1> DEFINE step(iter) ==
             [T \in SUBSET S |->
                IF T = {} THEN 0
                ELSE w[CHOOSE x \in T : TRUE] + iter[T \ {CHOOSE x \in T : TRUE}]]
           f == CHOOSE iter : iter = step(iter)
<1>1. IsFiniteSet(S)
  <2>1. IsFiniteSet(Segments)
    BY SegmentsFinite
  <2>2. QED
    BY <2>1, FS_Subset
<1>2. \A k \in S : w[k] \in Nat
  OBVIOUS
<1>3. ASSUME NEW iter PROVE step(iter) = Unfolded(w, S, iter)
  BY DEF Unfolded
<1>4. \E iter : iter = step(iter)
  <2> HIDE DEF step
  <2>1. \E iter : iter = Unfolded(w, S, iter)
    BY <1>1, <1>2, FoldExists
  <2>2. QED
    BY <1>3, <2>1
<1>5. f = step(f)
  <2> HIDE DEF step
  <2> QED BY <1>4
<1>6. MapThenSumSet(LAMBDA k : w[k], S) = f[S]
  BY DEF MapThenSumSet, MapThenFoldSet
<1>7. f[S] = Total(w, S)
  <2> HIDE DEF f, step
  <2>1. f = Unfolded(w, S, f)
    BY <1>3, <1>5
  <2>2. QED
    BY <1>1, <1>2, <2>1, FoldIsTotal
<1>8. QED
  BY <1>6, <1>7
(* A product with a number is monotone. *)
LEMMA LeftFactor ==
  ASSUME NEW a \in Nat, NEW x \in Int, NEW y \in Int, x <= y
  PROVE  /\ a * x <= a * y /\ x * a <= y * a
  OBVIOUS
-----------------------------------------------------------------------------
(***************************************************************************)
(* The grid resolves the shortest ramp: reaching a limit takes a grid unit *)
(* of time.  Where it does not, the duration of a cruise is a quotient by  *)
(* zero in the model, and by a small ramp in the code.                     *)
(***************************************************************************)
GridResolves ==
  \A c \in ScurveConfigs : ValidScurveConfig(c) => c.j_max <= c.a_max /\ c.j_max <= c.v_max

(* The limits of a configuration in use. *)
LEMMA LimitTypes ==
  ASSUME NEW c, ValidScurveConfig(c)
  PROVE  /\ c.v_max \in Nat \ {0} /\ c.a_max \in Nat \ {0} /\ c.j_max \in Nat \ {0}
  BY FiniteIsInt DEF ValidScurveConfig

(* A ramp that meets the acceleration or the speed limit.                  *)
LEMMA RampLimitIs ==
  ASSUME NEW c, ValidScurveConfig(c), c.j_max <= c.a_max, c.j_max <= c.v_max
  PROVE  /\ RampLimit(c) \in Nat \ {0}
         /\ c.j_max * RampLimit(c) <= c.a_max
         /\ c.j_max * (RampLimit(c) * RampLimit(c)) <= c.v_max
<1> DEFINE j == c.j_max
           q == Quot(c.a_max, j)
           K == {k \in 0..c.v_max : j * k * k <= c.v_max}
           m == Max(K)
           R == Min({q, m})
<1>1. c.v_max \in Nat \ {0} /\ c.a_max \in Nat \ {0} /\ j \in Nat \ {0} /\ j <= c.a_max /\ j <= c.v_max
  BY LimitTypes
<1>2. RampLimit(c) = R
  BY DEF RampLimit
<1>3. m \in K /\ 1 <= m
  <2>1. 1 \in K
    BY <1>1
  <2>2. K \subseteq 0..c.v_max /\ K # {}
    BY <2>1
  <2> HIDE DEF K
  <2>3. m \in K /\ \A k \in K : k <= m
    BY <1>1, <2>2, MaxOfBounded
  <2>4. QED
    BY <2>1, <2>3
<1>4. m \in Nat /\ j * (m * m) <= c.v_max
  <2> HIDE DEF m
  <2>1. m \in Nat /\ j * m * m <= c.v_max
    BY <1>1, <1>3
  <2> HIDE DEF j
  <2>2. QED
    BY <1>1, <2>1
<1> HIDE DEF m
<1>5. q \in Nat /\ 1 <= q /\ j * q <= c.a_max
  <2> DEFINE a == c.a_max
  <2>1. a \in Nat /\ j \in Nat /\ j > 0 /\ j <= a
    BY <1>1
  <2> HIDE DEF a, j
  <2>2. a \div j \in Nat /\ 1 <= a \div j /\ j * (a \div j) <= a
    BY <2>1
  <2>3. QED
    BY <2>2 DEF Quot, a
<1> HIDE DEF q
<1>6. R \in Nat /\ 1 <= R /\ R <= q /\ R <= m
  <2> DEFINE S == {q, m}
  <2>1. S \subseteq Nat /\ S # {}
    BY <1>4, <1>5
  <2> HIDE DEF S
  <2>2. Min(S) \in S /\ \A y \in S : Min(S) <= y
    BY <2>1, MinOfNumbers
  <2>3. QED
    BY <1>3, <1>4, <1>5, <2>2 DEF S
<1> HIDE DEF R
<1>7. j * R <= c.a_max
  <2>1. j * R <= j * q
    BY <1>1, <1>5, <1>6, LeftFactor
  <2>2. j * R \in Int /\ j * q \in Int
    BY <1>1, <1>5, <1>6
  <2>3. QED
    BY <1>1, <1>5, <2>1, <2>2
<1>8. j * (R * R) <= c.v_max
  <2>1. R * R <= m * R /\ m * R <= m * m
    BY <1>4, <1>6, LeftFactor
  <2>2. R * R \in Nat /\ m * m \in Nat /\ R * R <= m * m
    BY <1>4, <1>6, <2>1
  <2>3. j * (R * R) <= j * (m * m)
    BY <1>1, <2>2, LeftFactor
  <2>4. j * (R * R) \in Int /\ j * (m * m) \in Int
    BY <1>1, <2>2
  <2>5. QED
    BY <1>1, <1>4, <2>3, <2>4
<1>9. QED
  BY <1>2, <1>6, <1>7, <1>8

(* The ramps and the cruise of a plan for a distance. *)
CruiseTime(cfg, distance) ==
  IF Cruises(cfg, distance)
  THEN Quot(distance - FourRamps(cfg, RampTime(cfg, distance)),
            cfg.j_max * RampTime(cfg, distance) * RampTime(cfg, distance))
  ELSE 0

(* A plan's ramps take time, no more than the limits allow. *)
LEMMA PlanIs ==
  ASSUME NEW c, ValidScurveConfig(c), c.j_max <= c.a_max, c.j_max <= c.v_max,
         NEW d \in Nat \ {0}
  PROVE  /\ RampTime(c, d) \in Nat \ {0} /\ RampTime(c, d) <= RampLimit(c)
         /\ CruiseTime(c, d) \in Nat
<1> DEFINE j == c.j_max
           L == RampLimit(c)
           R == RampTime(c, d)
           F(k) == FourRamps(c, k)
<1>1. j \in Nat \ {0} /\ L \in Nat \ {0}
  BY LimitTypes, RampLimitIs
<1>2. \A k \in Nat : F(k) \in Nat /\ F(0) = 0
  BY <1>1 DEF FourRamps
<1> HIDE DEF F, L
<1>3. CASE Cruises(c, d)
  <2>1. R = L /\ F(L) <= d /\ CruiseTime(c, d) = Quot(d - F(L), j * L * L)
    BY <1>3 DEF Cruises, RampTime, CruiseTime, L, F
  <2>2. d - F(L) \in Nat
    BY <1>1, <1>2, <2>1
  <2>3. j * L * L \in Nat \ {0}
    <3>1. \A a, b \in Nat \ {0} : a * b \in Nat \ {0}
      OBVIOUS
    <3>2. QED
      BY <1>1, <3>1
  <2>4. ASSUME NEW a \in Nat, NEW b \in Nat \ {0} PROVE a \div b \in Nat
    OBVIOUS
  <2>5. QED
    BY <1>1, <2>1, <2>2, <2>3, <2>4 DEF Quot, L
<1>4. CASE ~Cruises(c, d)
  <2> DEFINE S == {k \in 0..L : F(k) >= d}
  <2>1. R = Min(S) /\ CruiseTime(c, d) = 0 /\ ~(F(L) <= d)
    BY <1>4 DEF Cruises, RampTime, CruiseTime, L, F
  <2>2. L \in S
    BY <1>1, <1>2, <2>1
  <2>3. S \subseteq Nat /\ S # {} /\ S \subseteq 0..L /\ 0 \notin S
    BY <1>1, <1>2, <2>2
  <2> HIDE DEF S
  <2>4. Min(S) \in S
    BY <2>3, MinOfNumbers
  <2>5. R \in S
    BY <2>1, <2>4
  <2> HIDE DEF R
  <2>6. R \in Nat \ {0} /\ R <= L
    BY <1>1, <2>3, <2>5
  <2>7. QED
    BY <2>1, <2>6 DEF L, R
<1>5. QED
  BY <1>3, <1>4
(* The end of a move. *)
LEMMA FinishSound ==
  ASSUME NEW s, IsScurve(s),
         s.is_initialised => s.cfg \in ScurveConfigs /\ ValidScurveConfig(s.cfg)
  PROVE  LET r == ScurveFinish(s) IN
         /\ SoundScurve(r) /\ r.finished /\ r.vel = 0 /\ r.acc = 0 /\ r.pos = s.target
         /\ r.cfg = s.cfg /\ r.is_initialised = s.is_initialised
<1> DEFINE r == ScurveFinish(s)
<1>1. r = [s EXCEPT !.pos = s.target, !.vel = 0, !.acc = 0, !.jrk = 0, !.elapsed = s.t_total,
                    !.t_phase = 0, !.phase = DONE, !.finished = TRUE, !.status = "OK"]
  BY DEF ScurveFinish
<1>2. s.target \in Finite /\ s.target \in Int /\ 0 \in Finite /\ s.t_total \in Nat
  BY FiniteFacts DEF IsScurve
<1>3. "OK" \in TrapStatus /\ DONE \in 0..7 /\ 0 \in Nat /\ 0 \in Int
  BY DEF TrapStatus, DONE
<1> HIDE DEF r
<1>4. IsScurve(r)
  BY <1>1, <1>2, <1>3 DEF IsScurve
<1>5. /\ r.finished /\ r.vel = 0 /\ r.acc = 0 /\ r.jrk = 0 /\ r.pos = s.target
      /\ r.cfg = s.cfg /\ r.is_initialised = s.is_initialised
  BY <1>1 DEF IsScurve
<1>6. QED
  BY <1>2, <1>4, <1>5 DEF SoundScurve, r

(* A new plan: none at the target, else ramps and a cruise from now on.    *)
LEMMA ScurvePlanIs ==
  ASSUME NEW s, IsScurve(s), s.pos \in Finite, s.vel \in Finite, s.acc \in Finite, s.jrk \in Finite,
         s.is_initialised, s.cfg \in ScurveConfigs, ValidScurveConfig(s.cfg), GridResolves
  PROVE  LET r == ScurvePlan(s)
             d == Abs(s.target - s.pos)
             R == RampTime(s.cfg, d)
             C == CruiseTime(s.cfg, d)
         IN  /\ SoundScurve(r) /\ r.cfg = s.cfg
             /\ d = 0 => r.finished /\ r.vel = 0 /\ r.acc = 0
             /\ d # 0 =>
                  /\ ~r.finished /\ R \in Nat \ {0} /\ R <= RampLimit(s.cfg) /\ C \in Nat
                  /\ r.phase_time = PlanTimes(R, C) /\ r.phase = 0 /\ r.t_phase = 0
                  /\ r.direction = Sign(s.target - s.pos)
                  /\ r.pos = s.pos /\ r.vel = s.vel /\ r.acc = s.acc /\ r.target = s.target
<1> DEFINE r == ScurvePlan(s)
           d == Abs(s.target - s.pos)
           R == RampTime(s.cfg, d)
           C == CruiseTime(s.cfg, d)
<1>1. s.target \in Int /\ s.pos \in Int /\ d \in Nat
  BY FiniteFacts DEF IsScurve, Abs
<1>2. s.cfg.j_max <= s.cfg.a_max /\ s.cfg.j_max <= s.cfg.v_max
  BY DEF GridResolves
<1>3. CASE d = 0
  <2> DEFINE none == [k \in Segments |-> 0]
             q    == [s EXCEPT !.phase_time = none]
  <2>1. r = ScurveFinish(q)
    BY <1>3 DEF ScurvePlan
  <2>2. none \in [Segments -> Nat]
    OBVIOUS
  <2> HIDE DEF none
  <2>3. IsScurve(q) /\ q.cfg = s.cfg /\ q.is_initialised
    BY <2>2 DEF IsScurve
  <2> HIDE DEF q
  <2>4. SoundScurve(r) /\ r.finished /\ r.vel = 0 /\ r.acc = 0 /\ r.cfg = s.cfg
    BY <2>1, <2>3, FinishSound
  <2> HIDE DEF r, d
  <2>5. SoundScurve(r) /\ r.cfg = s.cfg /\ (d = 0 => r.finished /\ r.vel = 0 /\ r.acc = 0) /\ ~(d # 0)
    BY <1>3, <2>4
  <2>6. QED
    BY <2>5 DEF r, d
<1>4. CASE d # 0
  <2>1. R \in Nat \ {0} /\ R <= RampLimit(s.cfg) /\ C \in Nat
    <3>1. d \in Nat \ {0}
      BY <1>1, <1>4
    <3> HIDE DEF d
    <3>2. QED
      BY <1>2, <3>1, PlanIs
  <2> DEFINE w   == PlanTimes(R, C)
             dir == Sign(s.target - s.pos)
             tot == 4 * R + C
  <2>2. r = [s EXCEPT !.direction = dir, !.t_phase = 0, !.elapsed = 0,
                      !.phase = 0, !.finished = FALSE, !.phase_time = w, !.t_total = tot]
    BY <1>4 DEF ScurvePlan, CruiseTime, PlanTimes, JERK_POS_1
  <2>3. dir \in Directions
    BY <1>1, <1>4 DEF Sign, Directions, Abs
  <2>4. w \in [Segments -> Nat] /\ w[0] = R /\ Total(w, Segments) = tot /\ Total(w, Before(0)) = 0
    <3> HIDE DEF R, C, r, d
    <3>1. R \in Nat /\ C \in Nat
      BY <2>1
    <3>2. w \in [Segments -> Nat] /\ w[0] = R
      BY <3>1, PlanTimesAre
    <3>3. Total(w, Segments) = tot
      BY <3>1, PlanTimesAre
    <3> HIDE DEF w, tot
    <3>4. QED
      BY <3>2, <3>3, TimeBefore
  <2>5. tot \in Nat /\ tot > 0
    <3> HIDE DEF R, C
    <3> QED BY <2>1
  <2> HIDE DEF dir, w, tot
  <2> HIDE DEF r
  <2>6. IsScurve(r)
    <3>1. 0 \in 0..7 /\ 0 \in Nat /\ FALSE \in BOOLEAN
      OBVIOUS
    <3>2. r.cfg = s.cfg
      BY <2>2 DEF IsScurve
    <3> HIDE DEF R, C, d
    <3>3. QED
      BY <2>2, <2>3, <2>4, <2>5, <3>1, <3>2 DEF IsScurve
  <2>7. /\ r.cfg = s.cfg /\ ~r.finished /\ r.phase_time = w /\ r.phase = 0 /\ r.t_phase = 0
        /\ r.elapsed = 0 /\ r.t_total = tot /\ r.direction = dir /\ r.is_initialised
        /\ r.pos = s.pos /\ r.vel = s.vel /\ r.acc = s.acc /\ r.jrk = s.jrk /\ r.target = s.target
    BY <2>2 DEF IsScurve
  <2>8. OnTime(r) /\ r.phase # DONE /\ r.elapsed < r.t_total
    BY <2>4, <2>5, <2>7 DEF OnTime, DONE
  <2>9. SoundScurve(r)
    BY <2>6, <2>7, <2>8 DEF SoundScurve
  <2> HIDE DEF R, C, d
  <2>10. QED
    BY <1>4, <2>1, <2>7, <2>9 DEF r, d, R, C, w, dir
<1>5. QED
  BY <1>3, <1>4
-----------------------------------------------------------------------------
(* What a segment's motion leaves alone. *)
SameMove(s, r) ==
  /\ r.cfg = s.cfg /\ r.target = s.target /\ r.direction = s.direction
  /\ r.phase_time = s.phase_time /\ r.t_total = s.t_total
  /\ r.finished = s.finished /\ r.is_initialised = s.is_initialised

(* Segments that take no time are skipped. *)
LEMMA SkipSound ==
  ASSUME NEW s, IsScurve(s), OnTime(s), s.phase # DONE, NEW r, r = SkipEmpty(s)
  PROVE  /\ IsScurve(r) /\ OnTime(r) /\ SameMove(s, r) /\ r.elapsed = s.elapsed
         /\ r.pos = s.pos /\ r.vel = s.vel /\ r.acc = s.acc /\ r.jrk = s.jrk
         /\ r.phase # DONE => r.phase_time[r.phase] > r.t_phase
         /\ (r.phase = s.phase /\ r.t_phase = s.t_phase) \/ (r.t_phase = 0 /\ s.t_phase = 0)
         /\ s.phase <= r.phase
         /\ \A k \in Segments : s.phase <= k /\ k < r.phase => s.phase_time[k] = 0
<1> DEFINE w == s.phase_time
           S == {k \in Segments : k >= s.phase /\ w[k] > 0} \union {DONE}
           next == Min(S)
<1>1. /\ w \in [Segments -> Nat] /\ s.phase \in Segments /\ s.t_phase \in Nat /\ s.elapsed \in Nat
  BY DEF IsScurve, DONE, Segments
<1>2. next \in S /\ \A y \in S : next <= y
  <2>1. S \subseteq Nat /\ S # {}
    BY DEF Segments, DONE
  <2> HIDE DEF S
  <2>2. QED
    BY <2>1, MinOfNumbers
<1>3. r = IF next = s.phase THEN s ELSE [s EXCEPT !.phase = next, !.t_phase = 0]
  BY DEF SkipEmpty
<1> HIDE DEF next
<1>4. /\ next \in 0..7 /\ s.phase <= next /\ (next # DONE => next \in Segments /\ w[next] > 0)
  BY <1>1, <1>2 DEF Segments, DONE
<1>5. ASSUME NEW k \in Segments, s.phase <= k, k < next PROVE w[k] = 0
  <2>1. k \notin S
    BY <1>2, <1>5 DEF Segments, DONE
  <2>2. QED
    BY <1>1, <1>5, <2>1
<1>6. CASE next = s.phase
  <2>1. r = s
    BY <1>3, <1>6
  <2>2. s.phase_time[s.phase] > 0
    BY <1>1, <1>4, <1>6
  <2>3. s.phase_time[s.phase] > s.t_phase
    BY <1>1, <2>2 DEF OnTime
  <2>4. QED
    BY <1>1, <2>1, <2>3 DEF SameMove, Segments
<1>7. CASE next # s.phase
  <2>1. r = [s EXCEPT !.phase = next, !.t_phase = 0]
    BY <1>3, <1>7
  <2>2. IsScurve(r)
    <3>1. 0 \in Nat /\ s.cfg = s.cfg
      OBVIOUS
    <3>2. r.cfg = s.cfg
      BY <2>1 DEF IsScurve
    <3> HIDE DEF w, S
    <3>3. QED
      BY <1>4, <2>1, <3>1, <3>2 DEF IsScurve
  <2>3. /\ r.phase = next /\ r.t_phase = 0 /\ SameMove(s, r) /\ r.elapsed = s.elapsed
        /\ r.pos = s.pos /\ r.vel = s.vel /\ r.acc = s.acc /\ r.jrk = s.jrk
    BY <2>1 DEF IsScurve, SameMove
  <2>4. s.t_phase = 0
    <3>1. w[s.phase] = 0
      BY <1>1, <1>4, <1>5, <1>7 DEF Segments
    <3>2. QED
      BY <1>1, <3>1 DEF OnTime
  <2>5. Total(w, Before(next)) = Total(w, Before(s.phase))
    <3>1. s.phase \in 0..7
      BY DEF IsScurve
    <3>2. QED
      BY <1>1, <1>4, <1>5, <3>1, TimeSkipped
  <2>6. OnTime(r)
    BY <1>1, <2>3, <2>4, <2>5 DEF OnTime, SameMove
  <2>7. r.phase # DONE => r.phase_time[r.phase] > r.t_phase
    BY <1>4, <2>3 DEF SameMove
  <2>8. QED
    BY <1>4, <1>5, <2>2, <2>3, <2>4, <2>6, <2>7
<1>8. QED
  BY <1>6, <1>7
(* A time h of the current segment q, up to its end r. *)
SegmentMove(q, h, r) ==
  /\ r.jrk = PhaseJerk(q) /\ r.acc = q.acc + PhaseJerk(q) * h
  /\ r.vel = q.vel + q.acc * h + Quot(PhaseJerk(q) * h * h, 2)
  /\ r.pos = q.pos + q.vel * h + Quot(q.acc * h * h, 2) + Quot(PhaseJerk(q) * h * h * h, 6)
  /\ \/ r.phase = q.phase /\ r.t_phase = q.t_phase + h
     \/ r.phase = q.phase + 1 /\ r.t_phase = 0 /\ q.t_phase + h = q.phase_time[q.phase]

(* A segment's jerk. *)
LEMMA JerkIsInt ==
  ASSUME NEW s, IsScurve(s), ValidScurveConfig(s.cfg) PROVE PhaseJerk(s) \in Int
<1>1. s.cfg.j_max \in Int /\ s.direction \in Int
  BY LimitTypes DEF IsScurve, Directions
<1>2. s.direction * s.cfg.j_max \in Int /\ -s.direction * s.cfg.j_max \in Int
  BY <1>1
<1>3. QED
  BY <1>2 DEF PhaseJerk

(* What happens in one segment, or none if the sample or the move is over. *)
LEMMA RunSegmentIs ==
  ASSUME NEW s, IsScurve(s), OnTime(s), ValidScurveConfig(s.cfg), NEW left \in Int,
         NEW run, run = [t |-> s, left |-> left],
         NEW q, q = SkipEmpty(s), NEW out, out = RunSegment(run)
  PROVE  /\ out = [t |-> out.t, left |-> out.left]
         /\ \/ out.t = s /\ out.left = left
            \/ left > 0 /\ s.phase # DONE /\ q.phase = DONE /\ out.t = q /\ out.left = left
            \/ \E h \in Nat \ {0} :
                 /\ s.phase # DONE /\ q.phase # DONE
                 /\ h <= left /\ q.t_phase + h <= q.phase_time[q.phase] /\ out.left = left - h
                 /\ IsScurve(out.t) /\ OnTime(out.t) /\ SameMove(q, out.t) /\ SegmentMove(q, h, out.t)
<1> DEFINE remaining == q.phase_time[q.phase] - q.t_phase
           h     == Min({left, remaining})
           begun == IntegrateSegment(q, h)
           moved == [begun EXCEPT !.elapsed = @ + h, !.t_phase = @ + h]
           r     == IF remaining = h THEN [moved EXCEPT !.phase = @ + 1, !.t_phase = 0] ELSE moved
<1>1. out = IF left <= 0 \/ s.phase = DONE THEN run
            ELSE IF q.phase = DONE THEN [run EXCEPT !.t = q]
            ELSE [left |-> left - h, t |-> r]
  BY DEF RunSegment
<1> HIDE DEF h, r
<1>2. CASE left <= 0 \/ s.phase = DONE
  BY <1>1, <1>2
<1>3. CASE left > 0 /\ s.phase # DONE /\ q.phase = DONE
  BY <1>1, <1>3
<1>4. CASE left > 0 /\ s.phase # DONE /\ q.phase # DONE
  <2>1. /\ IsScurve(q) /\ OnTime(q) /\ SameMove(s, q) /\ q.phase_time[q.phase] > q.t_phase
    BY <1>4, SkipSound
  <2>2. /\ q.phase \in Segments /\ q.t_phase \in Nat /\ q.phase_time \in [Segments -> Nat]
        /\ q.elapsed \in Nat /\ q.pos \in Int /\ q.vel \in Int /\ q.acc \in Int
    BY <1>4, <2>1 DEF IsScurve, Segments, DONE
  <2>3. remaining \in Nat \ {0}
    <3>1. q.phase_time[q.phase] \in Nat
      BY <2>2
    <3>2. QED
      BY <2>1, <2>2, <3>1
  <2> HIDE DEF remaining
  <2>4. h \in Nat \ {0} /\ h <= left /\ h <= remaining /\ (h = left \/ h = remaining)
    <3> DEFINE S == {left, remaining}
    <3>1. S \subseteq Nat /\ S # {}
      BY <1>4, <2>3
    <3> HIDE DEF S
    <3>2. Min(S) \in S /\ \A y \in S : Min(S) <= y
      BY <3>1, MinOfNumbers
    <3>3. QED
      BY <1>4, <2>3, <3>2 DEF S, h
  <2>5. PhaseJerk(q) \in Int
    BY <2>1, JerkIsInt DEF SameMove
  <2> DEFINE J == PhaseJerk(q)
             pos == q.pos + q.vel * h + Quot(q.acc * h * h, 2) + Quot(J * h * h * h, 6)
             vel == q.vel + q.acc * h + Quot(J * h * h, 2)
             acc == q.acc + J * h
             phase == IF remaining = h THEN q.phase + 1 ELSE q.phase
             clock == IF remaining = h THEN 0 ELSE q.t_phase + h
  <2>6. r = [q EXCEPT !.pos = pos, !.vel = vel, !.acc = acc, !.jrk = J,
                      !.elapsed = @ + h, !.t_phase = clock, !.phase = phase]
    <3>1. begun = [q EXCEPT !.pos = pos, !.vel = vel, !.acc = acc, !.jrk = J]
      BY <2>1 DEF IntegrateSegment, IsScurve
    <3> HIDE DEF pos, vel, acc, J
    <3>2. moved = [q EXCEPT !.pos = pos, !.vel = vel, !.acc = acc, !.jrk = J,
                            !.elapsed = @ + h, !.t_phase = @ + h]
      BY <2>1, <3>1 DEF IsScurve
    <3> HIDE DEF moved
    <3>3. QED
      BY <2>1, <3>2 DEF r, IsScurve
  <2>7. pos \in Int /\ vel \in Int /\ acc \in Int
    <3>1. /\ q.vel * h \in Int /\ q.acc * h \in Int /\ q.acc * h * h \in Int
          /\ J * h \in Int /\ J * h * h \in Int /\ J * h * h * h \in Int
      BY <2>2, <2>4, <2>5, ProductIsInt
    <3>2. Quot(q.acc * h * h, 2) \in Int /\ Quot(J * h * h * h, 6) \in Int /\ Quot(J * h * h, 2) \in Int
      BY <3>1, QuotIsInt
    <3> HIDE DEF J
    <3>3. QED
      BY <2>2, <3>1, <3>2
  <2>8. phase \in 0..7 /\ clock \in Nat /\ q.elapsed + h \in Nat
    BY <2>2, <2>4 DEF Segments
  <2> HIDE DEF pos, vel, acc, phase, clock, J
  <2>9. IsScurve(r)
    <3>1. r.cfg = q.cfg
      BY <2>1, <2>6 DEF IsScurve
    <3>2. QED
      BY <2>1, <2>5, <2>6, <2>7, <2>8, <3>1 DEF IsScurve, J
  <2>10. /\ SameMove(q, r) /\ r.pos = pos /\ r.vel = vel /\ r.acc = acc /\ r.jrk = J
         /\ r.phase = phase /\ r.t_phase = clock /\ r.elapsed = q.elapsed + h
    BY <2>1, <2>6 DEF IsScurve, SameMove
  <2>11. SegmentMove(q, h, r)
    <3>1. \/ r.phase = q.phase /\ r.t_phase = q.t_phase + h
          \/ r.phase = q.phase + 1 /\ r.t_phase = 0 /\ q.t_phase + h = q.phase_time[q.phase]
      <4>1. q.phase_time[q.phase] \in Nat
        BY <2>2
      <4>2. QED
        BY <2>2, <2>4, <2>10, <4>1 DEF phase, clock, remaining
    <3>2. QED
      BY <2>10, <3>1 DEF SegmentMove, pos, vel, acc, J
  <2>12. OnTime(r)
    <3> DEFINE w == q.phase_time
               b(k) == Total(w, Before(k))
    <3>1. /\ b(q.phase) \in Nat /\ b(q.phase + 1) = b(q.phase) + w[q.phase] /\ w[q.phase] \in Nat
      <4>1. q.phase \in 0..7
        BY <2>2 DEF Segments
      <4>2. QED
        BY <2>2, <4>1, TimeBefore
    <3>2. q.elapsed = q.t_phase + b(q.phase) /\ q.t_total = Total(w, Segments)
      BY <2>1 DEF OnTime
    <3> HIDE DEF b
    <3>3. CASE remaining = h
      <4>1. r.phase = q.phase + 1 /\ r.t_phase = 0 /\ w[q.phase] = q.t_phase + h
        BY <2>2, <2>10, <3>1, <3>3 DEF phase, clock, remaining
      <4>2. r.elapsed = r.t_phase + b(r.phase)
        BY <2>2, <2>4, <2>10, <3>1, <3>2, <4>1
      <4>3. QED
        BY <2>10, <3>2, <4>1, <4>2 DEF OnTime, SameMove, b
    <3>4. CASE remaining # h
      <4>1. r.phase = q.phase /\ r.t_phase = q.t_phase + h /\ q.t_phase + h < w[q.phase]
        BY <2>2, <2>4, <2>10, <3>1, <3>4 DEF phase, clock, remaining
      <4>2. r.elapsed = r.t_phase + b(r.phase)
        BY <2>2, <2>4, <2>10, <3>1, <3>2, <4>1
      <4>3. QED
        BY <2>2, <2>10, <3>2, <4>1, <4>2 DEF OnTime, SameMove, b
    <3>5. QED
      BY <3>3, <3>4
  <2>13. out = [left |-> left - h, t |-> r]
    BY <1>1, <1>4
  <2>14. q.t_phase + h <= q.phase_time[q.phase]
    <3>1. q.phase_time[q.phase] \in Nat
      BY <2>2
    <3>2. QED
      BY <2>2, <2>4, <3>1 DEF remaining
  <2>15. out.t = r /\ out.left = left - h
    BY <2>13
  <2>16. QED
    BY <1>4, <2>4, <2>9, <2>10, <2>11, <2>12, <2>13, <2>14, <2>15
<1>5. QED
  BY <1>2, <1>3, <1>4
(***************************************************************************)
(* A sample is seven segments at most, one after the other.                *)
(***************************************************************************)
LEMMA IntegrateIs ==
  ASSUME NEW s, NEW dt, NEW r0, r0 = [t |-> s, left |-> dt],
         NEW r1, r1 = RunSegment(r0), NEW r2, r2 = RunSegment(r1), NEW r3, r3 = RunSegment(r2),
         NEW r4, r4 = RunSegment(r3), NEW r5, r5 = RunSegment(r4), NEW r6, r6 = RunSegment(r5),
         NEW r7, r7 = RunSegment(r6)
  PROVE  ScurveIntegrate(s, dt) = r7.t
<1> DEFINE one(b)  == CHOOSE next \in {RunSegment(before) : before \in {b}} : TRUE
           step(f) == [k \in 0..7 |-> IF k = 0 THEN r0 ELSE one(f[k - 1])]
           run     == CHOOSE f : f = step(f)
           seven   == [k \in 0..7 |->
                         IF k = 0 THEN r0 ELSE IF k = 1 THEN r1 ELSE IF k = 2 THEN r2
                         ELSE IF k = 3 THEN r3 ELSE IF k = 4 THEN r4 ELSE IF k = 5 THEN r5
                         ELSE IF k = 6 THEN r6 ELSE r7]
<1>1. ScurveIntegrate(s, dt) = run[7].t
  BY DEF ScurveIntegrate
<1>2. ASSUME NEW b PROVE one(b) = RunSegment(b)
  OBVIOUS
<1> HIDE DEF one
<1>3. seven = step(seven)
  <2>1. ASSUME NEW k \in 0..7 PROVE seven[k] = IF k = 0 THEN r0 ELSE one(seven[k - 1])
    <3>1. CASE k = 0
      BY <3>1
    <3>2. CASE k # 0
      <4> DEFINE p == k - 1
      <4>1. p \in 0..6 /\ k = p + 1
        BY <3>2
      <4> HIDE DEF p
      <4>2. seven[p + 1] = RunSegment(seven[p])
        BY <4>1
      <4>3. QED
        BY <1>2, <3>2, <4>1, <4>2 DEF p
    <3>3. QED
      BY <3>1, <3>2
  <2>2. QED
    BY <2>1
<1>4. run = step(run)
  <2> HIDE DEF step, seven
  <2> QED BY <1>3
<1> HIDE DEF run
<1>5. run[0] = r0 /\ \A k \in 0..6 : run[k + 1] = RunSegment(run[k])
  <2>1. ASSUME NEW k \in 0..6 PROVE run[k + 1] = RunSegment(run[k])
    <3>1. run[k + 1] = one(run[k + 1 - 1]) /\ k + 1 - 1 = k
      BY <1>4
    <3>2. QED
      BY <1>2, <3>1
  <2>2. QED
    BY <1>4, <2>1
<1>6. /\ run[1] = RunSegment(run[0]) /\ run[2] = RunSegment(run[1]) /\ run[3] = RunSegment(run[2])
      /\ run[4] = RunSegment(run[3]) /\ run[5] = RunSegment(run[4]) /\ run[6] = RunSegment(run[5])
      /\ run[7] = RunSegment(run[6])
  <2>1. ASSUME NEW k \in 0..6, NEW n, n = k + 1 PROVE run[n] = RunSegment(run[k])
    BY <1>5, <2>1
  <2>2. QED
    BY <2>1
<1>7. run[7] = r7
  BY <1>5, <1>6
<1>8. QED
  BY <1>1, <1>7
-----------------------------------------------------------------------------
(***************************************************************************)
(* The path of a move planned at rest.                                     *)
(***************************************************************************)
(* Where it is in each segment. *)
LEMMA PathIs ==
  ASSUME NEW R, NEW C, NEW u
  PROVE  /\ PathAcc(R, 0, u) = u /\ PathVel(R, 0, u) = u * u /\ PathPos(R, C, 0, u) = u * u * u
         /\ PathAcc(R, 1, u) = R /\ PathVel(R, 1, u) = R * R /\ PathPos(R, C, 1, u) = R * R * R
         /\ PathAcc(R, 2, u) = R - u /\ PathVel(R, 2, u) = 2 * R * R - (R - u) * (R - u)
         /\ PathPos(R, C, 2, u) = 6 * R * R * u + (R - u) * (R - u) * (R - u)
         /\ PathAcc(R, 3, u) = 0 /\ PathVel(R, 3, u) = 2 * R * R
         /\ PathPos(R, C, 3, u) = 6 * R * R * (R + u)
         /\ PathAcc(R, 4, u) = -u /\ PathVel(R, 4, u) = 2 * R * R - u * u
         /\ PathPos(R, C, 4, u) = 6 * R * R * (R + C + u) - u * u * u
         /\ PathAcc(R, 5, u) = -R /\ PathVel(R, 5, u) = R * R
         /\ PathPos(R, C, 5, u) = R * R * (11 * R + 6 * C)
         /\ PathAcc(R, 6, u) = u - R /\ PathVel(R, 6, u) = (R - u) * (R - u)
         /\ PathPos(R, C, 6, u) = R * R * (12 * R + 6 * C) - (R - u) * (R - u) * (R - u)
         /\ PathAcc(R, 7, u) = 0 /\ PathVel(R, 7, u) = 0
         /\ PathPos(R, C, 7, u) = R * R * (12 * R + 6 * C)
  BY DEF PathAcc, PathVel, PathPos

(* The segments meet. *)
LEMMA PathMeets ==
  ASSUME NEW R \in Nat, NEW C \in Nat, NEW k \in Segments
  PROVE  /\ PathAcc(R, k + 1, 0) = PathAcc(R, k, PlanTimes(R, C)[k])
         /\ PathVel(R, k + 1, 0) = PathVel(R, k, PlanTimes(R, C)[k])
         /\ PathPos(R, C, k + 1, 0) = PathPos(R, C, k, PlanTimes(R, C)[k])
<1> DEFINE Meet(n, m, full) == /\ PathAcc(R, m, 0) = PathAcc(R, n, full)
                               /\ PathVel(R, m, 0) = PathVel(R, n, full)
                               /\ PathPos(R, C, m, 0) = PathPos(R, C, n, full)
<1>1. /\ R - 0 = R /\ 0 - R = -R /\ R - R = 0 /\ 2 * R * R - R * R = R * R
      /\ 6 * R * R * 0 = 0 /\ 2 * R * R - 0 * 0 = 2 * R * R /\ 0 * 0 * 0 = 0
      /\ 6 * R * R * R + 0 * 0 * 0 = 6 * R * R * (R + 0)
      /\ 6 * R * R * (R + C + 0) - 0 * 0 * 0 = 6 * R * R * (R + C)
      /\ R * R * (11 * R + 6 * C) = 6 * R * R * (R + C + R) - R * R * R
      /\ R * R * (12 * R + 6 * C) - R * R * R = R * R * (11 * R + 6 * C)
      /\ R * R * (12 * R + 6 * C) - 0 * 0 * 0 = R * R * (12 * R + 6 * C)
  OBVIOUS
<1>2. Meet(0, 1, R)
  BY PathIs
<1>3. Meet(1, 2, 0)
  <2>1. /\ PathAcc(R, 2, 0) = R - 0 /\ PathVel(R, 2, 0) = 2 * R * R - (R - 0) * (R - 0)
        /\ PathPos(R, C, 2, 0) = 6 * R * R * 0 + (R - 0) * (R - 0) * (R - 0)
        /\ PathAcc(R, 1, 0) = R /\ PathVel(R, 1, 0) = R * R /\ PathPos(R, C, 1, 0) = R * R * R
    BY PathIs
  <2>2. 0 + R * R * R = R * R * R
    OBVIOUS
  <2>3. QED
    BY <1>1, <2>1, <2>2
<1>4. Meet(2, 3, R)
  <2> DEFINE u == R
  <2>1. u = R
    OBVIOUS
  <2> HIDE DEF u
  <2>2. /\ PathAcc(R, 2, u) = R - u /\ PathVel(R, 2, u) = 2 * R * R - (R - u) * (R - u)
        /\ PathPos(R, C, 2, u) = 6 * R * R * u + (R - u) * (R - u) * (R - u)
    BY PathIs
  <2>3. /\ PathAcc(R, 3, 0) = 0 /\ PathVel(R, 3, 0) = 2 * R * R
        /\ PathPos(R, C, 3, 0) = 6 * R * R * (R + 0)
    BY PathIs
  <2>4. QED
    BY <1>1, <2>1, <2>2, <2>3
<1>5. Meet(3, 4, C)
  <2>1. /\ PathAcc(R, 3, C) = 0 /\ PathVel(R, 3, C) = 2 * R * R
        /\ PathPos(R, C, 3, C) = 6 * R * R * (R + C)
        /\ PathAcc(R, 4, 0) = -0 /\ PathVel(R, 4, 0) = 2 * R * R - 0 * 0
        /\ PathPos(R, C, 4, 0) = 6 * R * R * (R + C + 0) - 0 * 0 * 0
    BY PathIs
  <2>2. QED
    BY <1>1, <2>1
<1>6. Meet(4, 5, R)
  <2>1. /\ PathAcc(R, 4, R) = -R /\ PathVel(R, 4, R) = 2 * R * R - R * R
        /\ PathPos(R, C, 4, R) = 6 * R * R * (R + C + R) - R * R * R
        /\ PathAcc(R, 5, 0) = -R /\ PathVel(R, 5, 0) = R * R
        /\ PathPos(R, C, 5, 0) = R * R * (11 * R + 6 * C)
    BY PathIs
  <2>2. QED
    BY <1>1, <2>1
<1>7. Meet(5, 6, 0)
  <2>1. /\ PathAcc(R, 6, 0) = 0 - R /\ PathVel(R, 6, 0) = (R - 0) * (R - 0)
        /\ PathPos(R, C, 6, 0) = R * R * (12 * R + 6 * C) - (R - 0) * (R - 0) * (R - 0)
        /\ PathAcc(R, 5, 0) = -R /\ PathVel(R, 5, 0) = R * R
        /\ PathPos(R, C, 5, 0) = R * R * (11 * R + 6 * C)
    BY PathIs
  <2>2. QED
    BY <1>1, <2>1
<1>8. Meet(6, 7, R)
  <2>1. /\ PathAcc(R, 6, R) = R - R /\ PathVel(R, 6, R) = (R - R) * (R - R)
        /\ PathPos(R, C, 6, R) = R * R * (12 * R + 6 * C) - (R - R) * (R - R) * (R - R)
        /\ PathAcc(R, 7, 0) = 0 /\ PathVel(R, 7, 0) = 0
        /\ PathPos(R, C, 7, 0) = R * R * (12 * R + 6 * C)
    BY PathIs
  <2>2. QED
    BY <1>1, <2>1
<1> HIDE DEF Meet
<1>9. Meet(k, k + 1, PlanTimes(R, C)[k])
  <2>1. /\ PlanTimes(R, C)[0] = R /\ PlanTimes(R, C)[1] = 0 /\ PlanTimes(R, C)[2] = R
        /\ PlanTimes(R, C)[3] = C /\ PlanTimes(R, C)[4] = R /\ PlanTimes(R, C)[5] = 0
        /\ PlanTimes(R, C)[6] = R
    BY PlanTimesAre
  <2>2. k \in {0, 1, 2, 3, 4, 5, 6}
    BY DEF Segments
  <2>3. QED
    BY <1>2, <1>3, <1>4, <1>5, <1>6, <1>7, <1>8, <2>1, <2>2
<1>10. QED
  BY <1>9 DEF Meet

(* The jerk of a segment, in units of the limit. *)
PathJerk(k) == IF k \in {0, 6} THEN 1 ELSE IF k \in {2, 4} THEN -1 ELSE 0

(* A path from p with velocity v and acceleration a, both scaled as above, *)
(* after a time h of jerk j.                                               *)
Grown(j, h, a0, v0, p0, a1, v1, p1) ==
  /\ a0 \in Int /\ v0 \in Int /\ p0 \in Int
  /\ a1 = a0 + j * h
  /\ v1 = v0 + 2 * (a0 * h) + j * (h * h)
  /\ p1 = p0 + 3 * (v0 * h) + 3 * (a0 * (h * h)) + j * (h * h * h)

(* A time h along the path is constant jerk. *)
LEMMA PathGrows ==
  ASSUME NEW R \in Nat, NEW C \in Nat, NEW k \in {0, 2, 3, 4, 6},
         NEW u \in Nat, NEW h \in Nat, NEW w, w = u + h
  PROVE  Grown(PathJerk(k), h, PathAcc(R, k, u), PathVel(R, k, u), PathPos(R, C, k, u),
               PathAcc(R, k, w), PathVel(R, k, w), PathPos(R, C, k, w))
<1> DEFINE D == R * R * (12 * R + 6 * C)
<1>1. D \in Int
  OBVIOUS
<1>2. CASE k = 0
  <2>1. Grown(1, h, u, u * u, u * u * u, w, w * w, w * w * w)
    BY DEF Grown
  <2>2. /\ PathAcc(R, 0, u) = u /\ PathVel(R, 0, u) = u * u /\ PathPos(R, C, 0, u) = u * u * u
    BY PathIs
  <2>3. PathAcc(R, 0, w) = w /\ PathVel(R, 0, w) = w * w /\ PathPos(R, C, 0, w) = w * w * w
    BY PathIs
  <2>4. PathJerk(0) = 1
    BY DEF PathJerk
  <2>5. QED
    BY <1>2, <2>1, <2>2, <2>3, <2>4
<1>3. CASE k = 2
  <2>1. Grown(-1, h, R - u, 2 * R * R - (R - u) * (R - u),
                     6 * R * R * u + (R - u) * (R - u) * (R - u),
                     R - w, 2 * R * R - (R - w) * (R - w),
                     6 * R * R * w + (R - w) * (R - w) * (R - w))
    BY DEF Grown
  <2>2. /\ PathAcc(R, 2, u) = R - u /\ PathVel(R, 2, u) = 2 * R * R - (R - u) * (R - u)
        /\ PathPos(R, C, 2, u) = 6 * R * R * u + (R - u) * (R - u) * (R - u)
    BY PathIs
  <2>3. /\ PathAcc(R, 2, w) = R - w /\ PathVel(R, 2, w) = 2 * R * R - (R - w) * (R - w)
        /\ PathPos(R, C, 2, w) = 6 * R * R * w + (R - w) * (R - w) * (R - w)
    BY PathIs
  <2>4. PathJerk(2) = -1
    BY DEF PathJerk
  <2>5. QED
    BY <1>3, <2>1, <2>2, <2>3, <2>4
<1>4. CASE k = 3
  <2>1. Grown(0, h, 0, 2 * R * R, 6 * R * R * (R + u), 0, 2 * R * R, 6 * R * R * (R + w))
    BY DEF Grown
  <2>2. /\ PathAcc(R, 3, u) = 0 /\ PathVel(R, 3, u) = 2 * R * R
        /\ PathPos(R, C, 3, u) = 6 * R * R * (R + u)
    BY PathIs
  <2>3. /\ PathAcc(R, 3, w) = 0 /\ PathVel(R, 3, w) = 2 * R * R
        /\ PathPos(R, C, 3, w) = 6 * R * R * (R + w)
    BY PathIs
  <2>4. PathJerk(3) = 0
    BY DEF PathJerk
  <2>5. QED
    BY <1>4, <2>1, <2>2, <2>3, <2>4
<1>5. CASE k = 4
  <2>1. Grown(-1, h, -u, 2 * R * R - u * u, 6 * R * R * (R + C + u) - u * u * u,
                     -w, 2 * R * R - w * w, 6 * R * R * (R + C + w) - w * w * w)
    BY DEF Grown
  <2>2. /\ PathAcc(R, 4, u) = -u /\ PathVel(R, 4, u) = 2 * R * R - u * u
        /\ PathPos(R, C, 4, u) = 6 * R * R * (R + C + u) - u * u * u
    BY PathIs
  <2>3. /\ PathAcc(R, 4, w) = -w /\ PathVel(R, 4, w) = 2 * R * R - w * w
        /\ PathPos(R, C, 4, w) = 6 * R * R * (R + C + w) - w * w * w
    BY PathIs
  <2>4. PathJerk(4) = -1
    BY DEF PathJerk
  <2>5. QED
    BY <1>5, <2>1, <2>2, <2>3, <2>4
<1>6. CASE k = 6
  <2> HIDE DEF D
  <2>1. Grown(1, h, u - R, (R - u) * (R - u), D - (R - u) * (R - u) * (R - u),
                    w - R, (R - w) * (R - w), D - (R - w) * (R - w) * (R - w))
    BY <1>1 DEF Grown
  <2>2. /\ PathAcc(R, 6, u) = u - R /\ PathVel(R, 6, u) = (R - u) * (R - u)
        /\ PathPos(R, C, 6, u) = D - (R - u) * (R - u) * (R - u)
    BY PathIs DEF D
  <2>3. /\ PathAcc(R, 6, w) = w - R /\ PathVel(R, 6, w) = (R - w) * (R - w)
        /\ PathPos(R, C, 6, w) = D - (R - w) * (R - w) * (R - w)
    BY PathIs DEF D
  <2>4. PathJerk(6) = 1
    BY DEF PathJerk
  <2>5. QED
    BY <1>6, <2>1, <2>2, <2>3, <2>4
<1>7. QED
  BY <1>2, <1>3, <1>4, <1>5, <1>6
(* Products of two times within a ramp. *)
LEMMA WithinSquare ==
  ASSUME NEW R \in Nat, NEW x \in 0..R, NEW y \in 0..R
  PROVE  x * y \in Int /\ 0 <= x * y /\ x * y <= R * R
<1>1. x * y <= R * y /\ R * y <= R * R
  BY LeftFactor
<1>2. x * y \in Int /\ R * y \in Int /\ R * R \in Int /\ 0 <= x * y
  OBVIOUS
<1>3. QED
  BY <1>1, <1>2

(* The acceleration and the speed along the path. *)
LEMMA PathBounds ==
  ASSUME NEW R \in Nat, NEW k \in 0..7, NEW u \in Nat, k \in {0, 2, 4, 6} => u <= R
  PROVE  /\ -R <= PathAcc(R, k, u) /\ PathAcc(R, k, u) <= R
         /\ 0 <= PathVel(R, k, u) /\ PathVel(R, k, u) <= 2 * (R * R)
<1>1. ASSUME NEW x \in 0..R
      PROVE  0 <= x * x /\ x * x <= 2 * (R * R) /\ 0 <= 2 * R * R - x * x /\ 2 * R * R - x * x <= 2 * (R * R)
  <2>1. x * x \in Int /\ 0 <= x * x /\ x * x <= R * R
    BY WithinSquare
  <2>2. R * R \in Int /\ 2 * R * R = 2 * (R * R)
    OBVIOUS
  <2>3. QED
    BY <2>1, <2>2
<1>2. CASE k = 0
  <2>1. PathAcc(R, 0, u) = u /\ PathVel(R, 0, u) = u * u
    BY DEF PathAcc, PathVel
  <2>2. QED
    BY <1>1, <1>2, <2>1
<1>3. CASE k = 2
  <2> DEFINE x == R - u
  <2>1. PathAcc(R, 2, u) = x /\ PathVel(R, 2, u) = 2 * R * R - x * x
    BY DEF PathAcc, PathVel
  <2>2. x \in 0..R
    BY <1>3
  <2> HIDE DEF x
  <2>3. QED
    BY <1>1, <1>3, <2>1, <2>2
<1>4. CASE k = 3
  <2>1. PathAcc(R, 3, u) = 0 /\ PathVel(R, 3, u) = 2 * R * R
    BY DEF PathAcc, PathVel
  <2>2. R * R \in Nat /\ 2 * R * R = 2 * (R * R)
    OBVIOUS
  <2>3. QED
    BY <1>4, <2>1, <2>2
<1>5. CASE k = 4
  <2>1. PathAcc(R, 4, u) = -u /\ PathVel(R, 4, u) = 2 * R * R - u * u
    BY DEF PathAcc, PathVel
  <2>2. QED
    BY <1>1, <1>5, <2>1
<1>6. CASE k = 6
  <2> DEFINE x == R - u
  <2>1. PathAcc(R, 6, u) = u - R /\ PathVel(R, 6, u) = x * x
    BY DEF PathAcc, PathVel
  <2>2. x \in 0..R /\ u - R = -x
    BY <1>6
  <2> HIDE DEF x
  <2>3. QED
    BY <1>1, <1>6, <2>1, <2>2
<1>7. CASE k \in {1, 5, 7}
  <2>1. R * R \in Nat
    OBVIOUS
  <2>2. PathAcc(R, k, u) \in {R, -R, 0} /\ PathVel(R, k, u) \in {R * R, 0}
    BY <1>7 DEF PathAcc, PathVel
  <2>3. QED
    BY <2>1, <2>2
<1>8. QED
  BY <1>2, <1>3, <1>4, <1>5, <1>6, <1>7

(* How far and how much faster a time h along the path is. *)
LEMMA PathSpeed ==
  ASSUME NEW R \in Nat, NEW C \in Nat, NEW k \in {0, 2, 3, 4, 6},
         NEW u \in Nat, NEW h \in Nat, NEW w, w = u + h, k # 3 => w <= R
  PROVE  /\ PathPos(R, C, k, w) - PathPos(R, C, k, u) >= 0
         /\ PathPos(R, C, k, w) - PathPos(R, C, k, u) <= 6 * (R * R * h)
         /\ PathVel(R, k, w) - PathVel(R, k, u) <= 2 * (R * h)
         /\ PathVel(R, k, w) - PathVel(R, k, u) >= -(2 * (R * h))
<1> DEFINE J == PathJerk(k)
           A == PathAcc(R, k, u)
           V == PathVel(R, k, u)
           P == PathPos(R, C, k, u)
           B == PathAcc(R, k, w)
           Q == 3 * V + 3 * (A * h) + J * (h * h)
<1>1. /\ A \in Int /\ V \in Int /\ P \in Int /\ J \in {-1, 0, 1}
      /\ B = A + J * h
      /\ PathVel(R, k, w) = V + 2 * (A * h) + J * (h * h)
      /\ PathPos(R, C, k, w) = P + 3 * (V * h) + 3 * (A * (h * h)) + J * (h * h * h)
  <2>1. J \in {-1, 0, 1}
    BY DEF PathJerk
  <2>2. Grown(J, h, A, V, P, B, PathVel(R, k, w), PathPos(R, C, k, w))
    BY PathGrows
  <2>3. QED
    BY <2>1, <2>2 DEF Grown
<1>2. -R <= A /\ A <= R /\ -R <= B /\ B <= R
  <2>1. w \in Nat /\ (k # 3 => u <= R) /\ k \in 0..7
    OBVIOUS
  <2>2. -R <= B /\ B <= R
    BY <2>1, PathBounds
  <2>3. QED
    BY <2>1, <2>2, PathBounds
<1>3. Q \in Int /\ 0 <= Q /\ Q <= 6 * (R * R)
  <2>1. ASSUME NEW x \in 0..R, NEW y \in 0..R
        PROVE  0 <= x * x + x * y + y * y /\ x * x + x * y + y * y <= 3 * (R * R)
    <3>1. /\ x * x \in Int /\ 0 <= x * x /\ x * x <= R * R
          /\ x * y \in Int /\ 0 <= x * y /\ x * y <= R * R
          /\ y * y \in Int /\ 0 <= y * y /\ y * y <= R * R
      BY WithinSquare
    <3>2. R * R \in Int
      OBVIOUS
    <3>3. QED
      BY <3>1, <3>2
  <2>2. R * R \in Nat /\ 2 * R * R = 2 * (R * R)
    OBVIOUS
  <2>3. CASE k = 0
    <3>1. A = u /\ V = u * u
      BY <2>3 DEF PathAcc, PathVel
    <3>2. J = 1 /\ u \in 0..R /\ w \in 0..R
      BY <2>3 DEF PathJerk
    <3>3. Q = u * u + u * w + w * w
      BY <3>1, <3>2
    <3>4. u * u + u * w + w * w \in Int
      OBVIOUS
    <3> HIDE DEF Q
    <3>5. QED
      BY <2>1, <2>2, <3>2, <3>3, <3>4
  <2>4. CASE k = 2
    <3> DEFINE x == R - u
               y == R - w
    <3>1. A = x /\ V = 2 * R * R - x * x
      BY <2>4 DEF PathAcc, PathVel
    <3>2. J = -1 /\ x \in 0..R /\ y \in 0..R /\ y = x - h
      BY <2>4 DEF PathJerk
    <3> HIDE DEF x, y
    <3>3. Q = 6 * (R * R) - (x * x + x * y + y * y)
      BY <3>1, <3>2
    <3>4. x * x + x * y + y * y \in Int
      BY <3>2
    <3> HIDE DEF Q
    <3>5. QED
      BY <2>1, <2>2, <3>2, <3>3, <3>4
  <2>5. CASE k = 3
    <3>1. A = 0 /\ V = 2 * R * R
      BY <2>5 DEF PathAcc, PathVel
    <3>2. J = 0
      BY <2>5 DEF PathJerk
    <3>3. Q = 6 * (R * R)
      BY <2>2, <3>1, <3>2
    <3> HIDE DEF Q
    <3>4. QED
      BY <2>2, <3>3
  <2>6. CASE k = 4
    <3>1. A = -u /\ V = 2 * R * R - u * u
      BY <2>6 DEF PathAcc, PathVel
    <3>2. J = -1 /\ u \in 0..R /\ w \in 0..R
      BY <2>6 DEF PathJerk
    <3>3. Q = 6 * (R * R) - (u * u + u * w + w * w)
      BY <3>1, <3>2
    <3>4. u * u + u * w + w * w \in Int
      OBVIOUS
    <3> HIDE DEF Q
    <3>5. QED
      BY <2>1, <2>2, <3>2, <3>3, <3>4
  <2>7. CASE k = 6
    <3> DEFINE x == R - u
               y == R - w
    <3>1. A = u - R /\ V = x * x
      BY <2>7 DEF PathAcc, PathVel
    <3>2. J = 1 /\ x \in 0..R /\ y \in 0..R /\ y = x - h /\ u - R = -x
      BY <2>7 DEF PathJerk
    <3> HIDE DEF x, y
    <3>3. Q = x * x + x * y + y * y
      BY <3>1, <3>2
    <3>4. x * x + x * y + y * y \in Int
      BY <3>2
    <3> HIDE DEF Q
    <3>5. QED
      BY <2>1, <2>2, <3>2, <3>3, <3>4
  <2>8. QED
    BY <2>3, <2>4, <2>5, <2>6, <2>7
<1>4. /\ PathPos(R, C, k, w) - P = Q * h
      /\ PathVel(R, k, w) - V = (A + B) * h
  BY <1>1
<1> HIDE DEF A, B, V, P, Q, J
<1>5. 0 <= Q * h /\ Q * h <= (6 * (R * R)) * h /\ (6 * (R * R)) * h = 6 * (R * R * h)
  BY <1>3, LeftFactor
<1>6. B \in Int
  BY <1>1
<1>7. (A + B) * h <= (2 * R) * h /\ (-(2 * R)) * h <= (A + B) * h
  <2>1. A + B \in Int /\ 2 * R \in Int /\ -(2 * R) \in Int /\ A + B <= 2 * R /\ -(2 * R) <= A + B
    BY <1>1, <1>2, <1>6
  <2>2. QED
    BY <2>1, LeftFactor
<1>8. (2 * R) * h = 2 * (R * h) /\ (-(2 * R)) * h = -(2 * (R * h))
  OBVIOUS
<1>9. QED
  BY <1>4, <1>5, <1>7, <1>8 DEF V, P
-----------------------------------------------------------------------------
(***************************************************************************)
(* The grid is fine enough for the motion: the sixth of a jerk's cube of a *)
(* time, and what else the segments compute, is on it.  Every              *)
(* configuration is so in a sixth of its unit of length.                   *)
(***************************************************************************)
GridExact == \A c \in ScurveConfigs : ValidScurveConfig(c) => c.j_max % 6 = 0

(* A point between two segments belongs to both. *)
LEMMA PathJoins ==
  ASSUME NEW s, IsScurve(s), s.phase_time = PlanTimes(s.phase_time[0], s.phase_time[3]),
         NEW k \in Segments, OnPathAt(s, k, s.phase_time[k])
  PROVE  OnPathAt(s, k + 1, 0)
<1> DEFINE R == s.phase_time[0]
           C == s.phase_time[3]
<1>1. R \in Nat /\ C \in Nat
  BY DEF IsScurve, Segments
<1>2. s.phase_time[k] = PlanTimes(R, C)[k]
  OBVIOUS
<1> HIDE DEF R, C
<1>3. /\ PathAcc(R, k + 1, 0) = PathAcc(R, k, s.phase_time[k])
      /\ PathVel(R, k + 1, 0) = PathVel(R, k, s.phase_time[k])
      /\ PathPos(R, C, k + 1, 0) = PathPos(R, C, k, s.phase_time[k])
  BY <1>1, <1>2, PathMeets
<1>4. QED
  BY <1>3 DEF OnPathAt, R, C, JERK_POS_1, CONST_VEL

(* Skipping a segment that takes no time stays on the path. *)
LEMMA SkipOnPath ==
  ASSUME NEW s, IsScurve(s), OnTime(s), OnPath(s), s.phase # DONE, NEW q, q = SkipEmpty(s),
         RampLimit(s.cfg) \in Nat
  PROVE  OnPath(q) /\ q.phase \in {0, 2, 3, 4, 6}
<1> DEFINE w == s.phase_time
<1>1. /\ SameMove(s, q)
      /\ q.pos = s.pos /\ q.vel = s.vel /\ q.acc = s.acc
      /\ q.phase # DONE => q.phase_time[q.phase] > q.t_phase
      /\ (q.phase = s.phase /\ q.t_phase = s.t_phase) \/ (q.t_phase = 0 /\ s.t_phase = 0)
      /\ s.phase <= q.phase
      /\ \A k \in Segments : s.phase <= k /\ k < q.phase => w[k] = 0
      /\ IsScurve(q)
  BY SkipSound
<1>2. s.phase \in Segments /\ q.phase \in 0..7 /\ q.t_phase \in Nat /\ w \in [Segments -> Nat]
  BY <1>1 DEF IsScurve, DONE, Segments
<1>3. w = PlanTimes(w[0], w[3]) /\ w[0] \in 1..RampLimit(s.cfg) /\ OnPathAt(s, s.phase, s.t_phase)
  BY DEF OnPath, JERK_POS_1, CONST_VEL
<1>4. w[0] > 0 /\ w[0] \in Nat /\ w[3] \in Nat
  BY <1>2, <1>3 DEF Segments
<1>5. /\ w[0] > 0 /\ w[1] = 0 /\ w[2] > 0 /\ w[4] > 0 /\ w[5] = 0 /\ w[6] > 0
  <2>1. /\ w[1] = 0 /\ w[2] = w[0] /\ w[4] = w[0] /\ w[5] = 0 /\ w[6] = w[0]
    <3> DEFINE R == w[0]
               C == w[3]
    <3>1. R \in Nat /\ C \in Nat /\ w = PlanTimes(R, C)
      BY <1>3, <1>4
    <3> HIDE DEF w, R, C
    <3>2. R \in Nat /\ C \in Nat
      BY <3>1
    <3>3. /\ PlanTimes(R, C)[0] = R /\ PlanTimes(R, C)[1] = 0 /\ PlanTimes(R, C)[2] = R
          /\ PlanTimes(R, C)[3] = C /\ PlanTimes(R, C)[4] = R /\ PlanTimes(R, C)[5] = 0
          /\ PlanTimes(R, C)[6] = R
      BY <3>2 DEF PlanTimes, Segments, CONST_VEL
    <3>4. w[1] = 0 /\ w[2] = R /\ w[4] = R /\ w[5] = 0 /\ w[6] = R
      BY <3>1, <3>3
    <3>5. QED
      BY <3>4 DEF R
  <2>2. QED
    BY <1>4, <2>1
<1>6. ASSUME NEW k \in Segments, w[k] > 0, s.phase <= k PROVE q.phase <= k
  BY <1>1, <1>2, <1>6 DEF Segments
<1>7. q.phase = s.phase \/ (q.phase = s.phase + 1 /\ s.phase \in {1, 3, 5})
  <2> HIDE DEF w
  <2>1. CASE s.phase \in {0, 2, 4, 6}
    BY <1>1, <1>2, <1>5, <1>6, <2>1 DEF Segments
  <2>2. CASE s.phase \in {1, 3, 5}
    BY <1>1, <1>2, <1>5, <1>6, <2>2 DEF Segments
  <2>3. QED
    BY <1>2, <2>1, <2>2 DEF Segments
<1>8. q.phase \in {0, 2, 3, 4, 6}
  <2>1. q.phase # DONE /\ w[q.phase] > 0 /\ q.phase \in Segments
    BY <1>1, <1>2, <1>7 DEF SameMove, Segments, DONE
  <2> HIDE DEF w
  <2>2. QED
    BY <1>5, <2>1 DEF Segments
<1>9. OnPathAt(s, q.phase, q.t_phase)
  <2>1. CASE q.phase = s.phase
    BY <1>1, <1>3, <2>1
  <2>2. CASE q.phase = s.phase + 1
    <3>1. s.t_phase = 0 /\ q.t_phase = 0 /\ w[s.phase] = 0
      BY <1>1, <1>2, <2>2 DEF Segments
    <3>2. OnPathAt(s, s.phase, w[s.phase])
      BY <1>3, <3>1
    <3> HIDE DEF w
    <3>3. OnPathAt(s, s.phase + 1, 0)
      BY <1>2, <1>3, <3>2, PathJoins DEF w
    <3>4. QED
      BY <2>2, <3>1, <3>3
  <2>3. QED
    BY <1>7, <2>1, <2>2
<1>10. OnPathAt(q, q.phase, q.t_phase)
  BY <1>1, <1>9 DEF OnPathAt, SameMove
<1>11. OnPath(q)
  BY <1>1, <1>3, <1>10 DEF OnPath, SameMove, JERK_POS_1, CONST_VEL
<1>12. QED
  BY <1>8, <1>11

(* A multiple is as large as its factor allows. *)
LEMMA Magnified ==
  ASSUME NEW d \in Directions, NEW i \in Nat, NEW x \in Int, NEW m \in Nat, -m <= x, x <= m
  PROVE  d * i \in Int /\ (d * i) * x \in Int /\ Abs((d * i) * x) <= i * m
<1>1. i * x <= i * m /\ i * (-m) <= i * x
  BY LeftFactor
<1>2. i * x \in Int /\ i * m \in Int /\ i * (-m) = -(i * m)
  OBVIOUS
<1>3. CASE d = 1
  BY <1>1, <1>2, <1>3 DEF Abs
<1>4. CASE d = -1
  <2>1. (d * i) * x = -(i * x)
    BY <1>4
  <2>2. QED
    BY <1>1, <1>2, <1>4, <2>1 DEF Abs
<1>5. QED
  BY <1>3, <1>4 DEF Directions

(* Halves and sixths of what the path is made of leave no remainder. *)
LEMMA QuotExact ==
  ASSUME NEW x \in Int PROVE Quot(2 * x, 2) = x /\ Quot(6 * x, 6) = x
  BY DEF Quot

(* How far a sample may go in a time h. *)
WithinReach(s, r, h) ==
  /\ Abs(r.pos - s.pos) <= s.cfg.v_max * h
  /\ Abs(r.vel - s.vel) <= s.cfg.a_max * h
  /\ Abs(r.acc - s.acc) <= s.cfg.j_max * h

(* A segment's motion follows the path, without rounding.                  *)
LEMMA SegmentFollows ==
  ASSUME NEW q, IsScurve(q), OnPath(q), NEW k \in {0, 2, 3, 4, 6}, q.phase = k,
         ValidScurveConfig(q.cfg), q.cfg.j_max <= q.cfg.a_max, q.cfg.j_max <= q.cfg.v_max,
         q.cfg.j_max % 6 = 0,
         NEW h \in Nat \ {0}, q.t_phase + h <= q.phase_time[k],
         NEW r, IsScurve(r), SameMove(q, r), SegmentMove(q, h, r)
  PROVE  OnPathAt(r, k, q.t_phase + h) /\ WithinReach(q, r, h)
<1> DEFINE R == q.phase_time[0]
           C == q.phase_time[3]
           u == q.t_phase
           w == u + h
           j == q.cfg.j_max
           i == j \div 6
           d == q.direction
           g == d * i
           J == PathJerk(k)
           A == PathAcc(R, k, u)
           V == PathVel(R, k, u)
           P == PathPos(R, C, k, u)
           A1 == PathAcc(R, k, w)
           V1 == PathVel(R, k, w)
           P1 == PathPos(R, C, k, w)
           E  == PathPos(R, C, DONE, 0)
<1>1. /\ q.phase_time \in [Segments -> Nat] /\ u \in Nat /\ w \in Nat /\ d \in Directions
      /\ q.pos \in Int /\ q.vel \in Int /\ q.acc \in Int /\ q.target \in Int
      /\ R \in Nat /\ C \in Nat
  BY FiniteFacts DEF IsScurve, Segments
<1>2. j \in Nat \ {0} /\ i \in Nat /\ j = 6 * i /\ q.cfg.a_max \in Nat /\ q.cfg.v_max \in Nat
  <2>1. j \in Nat \ {0} /\ j % 6 = 0 /\ q.cfg.a_max \in Nat /\ q.cfg.v_max \in Nat
    BY LimitTypes
  <2> HIDE DEF j
  <2>2. QED
    BY <2>1
<1>3. /\ q.phase_time = PlanTimes(R, C) /\ R \in 1..RampLimit(q.cfg) /\ OnPathAt(q, k, u)
  BY DEF OnPath, JERK_POS_1, CONST_VEL
<1>4. /\ j * R <= q.cfg.a_max /\ j * (R * R) <= q.cfg.v_max
  <2> DEFINE L == RampLimit(q.cfg)
  <2>1. L \in Nat /\ j * L <= q.cfg.a_max /\ j * (L * L) <= q.cfg.v_max
    BY RampLimitIs
  <2>2. R \in Nat /\ R <= L
    BY <1>3, <2>1
  <2> HIDE DEF L, R, j
  <2>3. j * R <= j * L /\ R * R <= L * R /\ L * R <= L * L
    BY <1>2, <2>1, <2>2, LeftFactor
  <2>4. R * R \in Int /\ L * R \in Int /\ L * L \in Int
    BY <2>1, <2>2
  <2>5. R * R <= L * L
    BY <2>3, <2>4
  <2>6. j * (R * R) <= j * (L * L)
    BY <1>2, <2>4, <2>5, LeftFactor
  <2>7. j * R \in Int /\ j * L \in Int /\ j * (R * R) \in Int /\ j * (L * L) \in Int
    BY <1>2, <2>1, <2>2, <2>4
  <2>8. QED
    BY <1>2, <2>1, <2>3, <2>6, <2>7
<1>5. k # 3 => w <= R
  <2>1. k # 3 => q.phase_time[k] = R
    <3> HIDE DEF R, C
    <3>1. /\ PlanTimes(R, C)[0] = R /\ PlanTimes(R, C)[2] = R
          /\ PlanTimes(R, C)[4] = R /\ PlanTimes(R, C)[6] = R
      BY <1>1, PlanTimesAre
    <3>2. QED
      BY <1>3, <3>1
  <2>2. QED
    BY <2>1
<1>6. /\ A \in Int /\ V \in Int /\ P \in Int /\ J \in {-1, 0, 1}
      /\ A1 = A + J * h /\ V1 = V + 2 * (A * h) + J * (h * h)
      /\ P1 = P + 3 * (V * h) + 3 * (A * (h * h)) + J * (h * h * h)
  <2> HIDE DEF R, C, u
  <2>1. Grown(J, h, A, V, P, A1, V1, P1)
    BY <1>1, PathGrows
  <2>2. J \in {-1, 0, 1}
    BY DEF PathJerk
  <2>3. QED
    BY <2>1, <2>2 DEF Grown
<1>7. /\ 0 <= P1 - P /\ P1 - P <= 6 * (R * R * h)
      /\ V1 - V <= 2 * (R * h) /\ -(2 * (R * h)) <= V1 - V
  <2> HIDE DEF R, C, u
  <2>1. QED
    BY <1>1, <1>5, PathSpeed
<1>8. E \in Int
  <2>1. E = R * R * (12 * R + 6 * C)
    BY DEF PathPos, DONE
  <2>2. QED
    BY <1>1, <2>1
<1>9. /\ q.acc = (d * j) * A /\ 2 * q.vel = (d * j) * V
      /\ 6 * (q.target - q.pos) = (d * j) * (E - P)
  BY <1>3 DEF OnPathAt, JERK_POS_1, CONST_VEL
<1>10. PhaseJerk(q) = J * (d * j)
  <2>1. d \in Int /\ j \in Int
    BY <1>1, <1>2 DEF Directions
  <2>2. PhaseJerk(q) = IF k \in {0, 6} THEN d * j ELSE IF k \in {2, 4} THEN -d * j ELSE 0
    BY DEF PhaseJerk, JERK_POS_1, JERK_NEG_1, JERK_NEG_2, JERK_POS_2
  <2>3. -d * j = -(d * j) /\ d * j \in Int
    BY <2>1
  <2> HIDE DEF d, j
  <2>4. QED
    BY <2>2, <2>3 DEF PathJerk
<1>11. d * j = 6 * g /\ g \in Int
  <2>1. d \in Int
    BY <1>1 DEF Directions
  <2> HIDE DEF d, j, i
  <2>2. QED
    BY <1>2, <2>1
<1> HIDE DEF R, C, u, w, j, i, d, g, J, A, V, P, A1, V1, P1, E
<1>12. q.acc = 6 * (g * A) /\ q.vel = 3 * (g * V) /\ q.target - q.pos = g * (E - P)
  <2>1. g * A \in Int /\ g * V \in Int /\ g * (E - P) \in Int
    BY <1>6, <1>8, <1>11
  <2>2. q.acc = 6 * (g * A) /\ 2 * q.vel = 6 * (g * V) /\ 6 * (q.target - q.pos) = 6 * (g * (E - P))
    BY <1>6, <1>8, <1>9, <1>11
  <2>3. ASSUME NEW a \in Int, NEW b \in Int, 2 * a = 6 * b PROVE a = 3 * b
    BY <2>3
  <2>4. ASSUME NEW a \in Int, NEW b \in Int, 6 * a = 6 * b PROVE a = b
    BY <2>4
  <2>5. q.vel = 3 * (g * V)
    BY <1>1, <2>1, <2>2, <2>3
  <2>6. q.target - q.pos \in Int
    BY <1>1
  <2>7. q.target - q.pos = g * (E - P)
    BY <2>1, <2>2, <2>4, <2>6
  <2>8. QED
    BY <2>2, <2>5, <2>7
<1>13. /\ q.acc * h * h = 2 * (3 * (g * (A * (h * h))))
       /\ PhaseJerk(q) * h = 6 * (g * (J * h))
       /\ PhaseJerk(q) * h * h = 2 * (3 * (g * (J * (h * h))))
       /\ PhaseJerk(q) * h * h * h = 6 * (g * (J * (h * h * h)))
  <2>1. PhaseJerk(q) = J * (6 * g) /\ J \in Int
    BY <1>6, <1>10, <1>11
  <2>2. QED
    BY <1>6, <1>11, <1>12, <2>1
<1>14. /\ Quot(q.acc * h * h, 2) = 3 * (g * (A * (h * h)))
       /\ Quot(PhaseJerk(q) * h * h, 2) = 3 * (g * (J * (h * h)))
       /\ Quot(PhaseJerk(q) * h * h * h, 6) = g * (J * (h * h * h))
  <2>1. J \in Int
    BY <1>6
  <2>2. 3 * (g * (A * (h * h))) \in Int /\ 3 * (g * (J * (h * h))) \in Int /\ g * (J * (h * h * h)) \in Int
    BY <1>6, <1>11, <2>1
  <2>3. QED
    BY <1>13, <2>2, QuotExact
<1>15. /\ r.acc = q.acc + 6 * (g * (J * h))
       /\ r.vel = q.vel + q.acc * h + 3 * (g * (J * (h * h)))
       /\ r.pos = q.pos + q.vel * h + 3 * (g * (A * (h * h))) + g * (J * (h * h * h))
  BY <1>13, <1>14 DEF SegmentMove
<1>16. /\ r.acc - q.acc = 6 * (g * (J * h))
       /\ r.vel - q.vel = 3 * (g * (V1 - V))
       /\ r.pos - q.pos = g * (P1 - P)
  <2>1. J \in Int
    BY <1>6
  <2>2. /\ r.acc - q.acc = 6 * (g * (J * h))
    BY <1>1, <1>11, <1>15, <2>1
  <2>3. r.vel - q.vel = 3 * (g * (2 * (A * h) + J * (h * h)))
    BY <1>1, <1>6, <1>11, <1>12, <1>15, <2>1
  <2>4. V1 - V = 2 * (A * h) + J * (h * h)
    BY <1>6, <2>1
  <2>5. r.pos - q.pos = g * (3 * (V * h) + 3 * (A * (h * h)) + J * (h * h * h))
    BY <1>1, <1>6, <1>11, <1>12, <1>15, <2>1
  <2>6. P1 - P = 3 * (V * h) + 3 * (A * (h * h)) + J * (h * h * h)
    BY <1>6, <2>1
  <2>7. QED
    BY <2>2, <2>3, <2>4, <2>5, <2>6
<1>17. A1 \in Int /\ V1 \in Int /\ P1 \in Int
  BY <1>6
<1>18. OnPathAt(r, k, w)
  <2>1. r.acc = 6 * (g * A1) /\ r.vel = 3 * (g * V1)
    <3>1. J \in Int /\ g * A \in Int /\ g * V \in Int
      BY <1>6, <1>11
    <3>2. r.acc = 6 * (g * A) + 6 * (g * (J * h)) /\ r.vel = 3 * (g * V) + 3 * (g * (V1 - V))
      BY <1>11, <1>12, <1>15, <1>16, <1>17, <3>1
    <3>3. g * A1 = g * A + g * (J * h) /\ g * V1 = g * V + g * (V1 - V)
      BY <1>6, <1>11, <1>17, <3>1
    <3>4. g * (J * h) \in Int /\ g * (V1 - V) \in Int
      BY <1>6, <1>11, <1>17
    <3>5. QED
      BY <3>1, <3>2, <3>3, <3>4
  <2>2. q.target - r.pos = g * (E - P1)
    <3>1. r.pos \in Int
      BY DEF IsScurve
    <3>2. g * (E - P) = g * (E - P1) + g * (P1 - P)
      BY <1>6, <1>8, <1>11, <1>17
    <3>3. g * (E - P1) \in Int /\ g * (P1 - P) \in Int
      BY <1>6, <1>8, <1>11, <1>17
    <3>4. QED
      BY <1>1, <1>12, <1>16, <3>1, <3>2, <3>3
  <2>3. /\ r.acc = (6 * g) * A1 /\ 2 * r.vel = (6 * g) * V1
        /\ 6 * (q.target - r.pos) = (6 * g) * (E - P1)
    BY <1>8, <1>11, <1>17, <2>1, <2>2
  <2>4. /\ r.acc = (d * j) * A1 /\ 2 * r.vel = (d * j) * V1
        /\ 6 * (q.target - r.pos) = (d * j) * (E - P1)
    BY <1>11, <2>3
  <2>5. QED
    BY <2>4 DEF OnPathAt, SameMove, JERK_POS_1, CONST_VEL, R, C, d, j, A1, V1, P1, E
<1>19. WithinReach(q, r, h)
  <2>1. Abs(r.acc - q.acc) <= j * h
    <3> DEFINE x == 6 * (J * h)
               m == 6 * h
    <3>1. x \in Int /\ m \in Nat /\ -m <= x /\ x <= m
      BY <1>6
    <3>2. g * x = 6 * (g * (J * h)) /\ i * m = j * h
      BY <1>2, <1>6, <1>11
    <3> HIDE DEF x, m
    <3>3. Abs(g * x) <= i * m
      BY <1>1, <1>2, <3>1, Magnified DEF g
    <3>4. QED
      BY <1>16, <3>2, <3>3
  <2>2. Abs(r.vel - q.vel) <= q.cfg.a_max * h
    <3> DEFINE x == 3 * (V1 - V)
               m == 6 * (R * h)
    <3>1. R * h \in Nat
      BY <1>1
    <3>2. x \in Int /\ m \in Nat /\ -m <= x /\ x <= m
      BY <1>6, <1>7, <1>17, <3>1
    <3>3. g * x = 3 * (g * (V1 - V)) /\ i * m = (j * R) * h
      BY <1>1, <1>2, <1>6, <1>11, <1>17
    <3> HIDE DEF x, m
    <3>4. Abs(g * x) <= i * m
      BY <1>1, <1>2, <3>2, Magnified DEF g
    <3>5. (j * R) * h <= q.cfg.a_max * h /\ j * R \in Int
      <4>1. j * R \in Int
        BY <1>1, <1>2
      <4>2. QED
        BY <1>2, <1>4, <4>1, LeftFactor
    <3>6. (j * R) * h \in Int /\ q.cfg.a_max * h \in Int /\ Abs(r.vel - q.vel) \in Int
      <4>1. r.vel - q.vel \in Int
        BY <1>1 DEF IsScurve
      <4>2. QED
        BY <1>2, <3>5, <4>1 DEF Abs
    <3>7. QED
      BY <1>16, <3>3, <3>4, <3>5, <3>6
  <2>3. Abs(r.pos - q.pos) <= q.cfg.v_max * h
    <3> DEFINE x == P1 - P
               m == 6 * (R * R * h)
    <3>1. R * R * h \in Nat
      BY <1>1
    <3>2. x \in Int /\ m \in Nat /\ -m <= x /\ x <= m
      BY <1>6, <1>7, <1>17, <3>1
    <3>3. i * m = (j * (R * R)) * h
      BY <1>1, <1>2
    <3> HIDE DEF m
    <3>4. Abs(g * x) <= i * m
      <4> HIDE DEF x
      <4> QED BY <1>1, <1>2, <3>2, Magnified DEF g
    <3>5. (j * (R * R)) * h <= q.cfg.v_max * h /\ j * (R * R) \in Int
      <4>1. j * (R * R) \in Int
        BY <1>1, <1>2
      <4>2. QED
        BY <1>2, <1>4, <4>1, LeftFactor
    <3>6. (j * (R * R)) * h \in Int /\ q.cfg.v_max * h \in Int /\ Abs(r.pos - q.pos) \in Int
      <4>1. r.pos - q.pos \in Int
        BY <1>1 DEF IsScurve
      <4>2. QED
        BY <1>2, <3>5, <4>1 DEF Abs
    <3>7. QED
      BY <1>16, <3>3, <3>4, <3>5, <3>6
  <2>4. QED
    BY <2>1, <2>2, <2>3 DEF WithinReach, j
<1>20. QED
  BY <1>18, <1>19 DEF w, u
-----------------------------------------------------------------------------
(* Reaches add up. *)
LEMMA ReachAdds ==
  ASSUME NEW s, IsScurve(s), ValidScurveConfig(s.cfg), NEW q, IsScurve(q), q.cfg = s.cfg,
         NEW r, IsScurve(r), NEW a \in Nat, NEW b \in Nat,
         WithinReach(s, q, a), WithinReach(q, r, b)
  PROVE  WithinReach(s, r, a + b)
<1>1. s.cfg.v_max \in Nat /\ s.cfg.a_max \in Nat /\ s.cfg.j_max \in Nat
  BY LimitTypes
<1>2. ASSUME NEW L \in Nat, NEW x \in Int, NEW y \in Int, NEW z \in Int,
             Abs(y - x) <= L * a, Abs(z - y) <= L * b
      PROVE  Abs(z - x) <= L * (a + b)
  <2>1. L * a \in Nat /\ L * b \in Nat /\ L * (a + b) = L * a + L * b
    OBVIOUS
  <2> DEFINE m == L * a
             n == L * b
  <2>2. Abs(y - x) <= m /\ Abs(z - y) <= n /\ m \in Nat /\ n \in Nat
    BY <1>2, <2>1
  <2>3. L * (a + b) = m + n
    BY <2>1
  <2> HIDE DEF m, n
  <2>4. Abs(z - x) <= m + n
    BY <2>2 DEF Abs
  <2>5. QED
    BY <2>3, <2>4
<1>3. /\ s.pos \in Int /\ s.vel \in Int /\ s.acc \in Int /\ q.pos \in Int /\ q.vel \in Int
      /\ q.acc \in Int /\ r.pos \in Int /\ r.vel \in Int /\ r.acc \in Int
  BY DEF IsScurve
<1>4. Abs(r.pos - s.pos) <= s.cfg.v_max * (a + b)
  BY <1>1, <1>2, <1>3 DEF WithinReach
<1>5. Abs(r.vel - s.vel) <= s.cfg.a_max * (a + b)
  BY <1>1, <1>2, <1>3 DEF WithinReach
<1>6. Abs(r.acc - s.acc) <= s.cfg.j_max * (a + b)
  BY <1>1, <1>2, <1>3 DEF WithinReach
<1>7. QED
  BY <1>4, <1>5, <1>6 DEF WithinReach

(* Who stays goes nowhere. *)
LEMMA NoReach ==
  ASSUME NEW s, IsScurve(s), ValidScurveConfig(s.cfg),
         NEW r, r.pos = s.pos, r.vel = s.vel, r.acc = s.acc, NEW a \in Nat
  PROVE  WithinReach(s, r, a)
<1>1. s.cfg.v_max \in Nat /\ s.cfg.a_max \in Nat /\ s.cfg.j_max \in Nat
  BY LimitTypes
<1>2. s.cfg.v_max * a >= 0 /\ s.cfg.a_max * a >= 0 /\ s.cfg.j_max * a >= 0
  BY <1>1
<1>3. Abs(r.pos - s.pos) = 0 /\ Abs(r.vel - s.vel) = 0 /\ Abs(r.acc - s.acc) = 0
  BY DEF IsScurve, Abs
<1>4. QED
  BY <1>2, <1>3 DEF WithinReach

(* A sample under way: so much is left of it, and the clock is right.      *)
Underway(s, dt, run) ==
  /\ run = [t |-> run.t, left |-> run.left] /\ run.left \in 0..dt
  /\ IsScurve(run.t) /\ OnTime(run.t) /\ SameMove(s, run.t)

(* It has kept to the path, and gone no further than its time allows.      *)
OnTheWay(s, dt, run) == OnPath(run.t) /\ WithinReach(s, run.t, dt - run.left)

(* One more segment: the clock. *)
LEMMA UnderwayNext ==
  ASSUME NEW s, ValidScurveConfig(s.cfg), NEW dt \in Nat, NEW run, Underway(s, dt, run)
  PROVE  Underway(s, dt, RunSegment(run))
<1> DEFINE out == RunSegment(run)
           q == SkipEmpty(run.t)
<1>1. /\ IsScurve(run.t) /\ OnTime(run.t) /\ ValidScurveConfig(run.t.cfg) /\ run.left \in Int
      /\ run = [t |-> run.t, left |-> run.left] /\ run.left \in 0..dt /\ SameMove(s, run.t)
  BY DEF Underway, SameMove
<1>2. run.t.phase # DONE => IsScurve(q) /\ OnTime(q) /\ SameMove(run.t, q)
  BY <1>1, SkipSound
<1> HIDE DEF q
<1> HIDE DEF out
<1>3. /\ out = [t |-> out.t, left |-> out.left]
      /\ \/ out.t = run.t /\ out.left = run.left
         \/ run.left > 0 /\ run.t.phase # DONE /\ q.phase = DONE /\ out.t = q /\ out.left = run.left
         \/ \E h \in Nat \ {0} :
              /\ run.t.phase # DONE /\ q.phase # DONE
              /\ h <= run.left /\ q.t_phase + h <= q.phase_time[q.phase] /\ out.left = run.left - h
              /\ IsScurve(out.t) /\ OnTime(out.t) /\ SameMove(q, out.t) /\ SegmentMove(q, h, out.t)
  BY <1>1, RunSegmentIs DEF out, q
<1>4. CASE out.t = run.t /\ out.left = run.left
  BY <1>1, <1>3, <1>4 DEF Underway, out
<1>5. CASE run.t.phase # DONE /\ out.t = q /\ out.left = run.left
  <2>1. SameMove(s, q)
    BY <1>1, <1>2, <1>5 DEF SameMove
  <2>2. Underway(s, dt, out)
    BY <1>1, <1>2, <1>3, <1>5, <2>1 DEF Underway
  <2>3. QED
    BY <2>2 DEF out
<1>6. CASE \E h \in Nat \ {0} :
             /\ run.t.phase # DONE /\ h <= run.left /\ out.left = run.left - h
             /\ IsScurve(out.t) /\ OnTime(out.t) /\ SameMove(q, out.t)
  <2>1. PICK h \in Nat \ {0} :
             /\ run.t.phase # DONE /\ h <= run.left /\ out.left = run.left - h
             /\ IsScurve(out.t) /\ OnTime(out.t) /\ SameMove(q, out.t)
    BY <1>6
  <2>2. SameMove(s, out.t)
    BY <1>1, <1>2, <2>1 DEF SameMove
  <2>3. out.left \in 0..dt
    BY <1>1, <2>1
  <2>4. Underway(s, dt, out)
    BY <1>3, <2>1, <2>2, <2>3 DEF Underway
  <2>5. QED
    BY <2>4 DEF out
<1>7. QED
  BY <1>3, <1>4, <1>5, <1>6

(* A segment's motion stays on the path, to the next segment if it ends.   *)
LEMMA SegmentOnPath ==
  ASSUME NEW q, IsScurve(q), OnPath(q), q.phase \in {0, 2, 3, 4, 6},
         ValidScurveConfig(q.cfg), q.cfg.j_max <= q.cfg.a_max, q.cfg.j_max <= q.cfg.v_max,
         q.cfg.j_max % 6 = 0,
         NEW h \in Nat \ {0}, q.t_phase + h <= q.phase_time[q.phase],
         NEW r, IsScurve(r), SameMove(q, r), SegmentMove(q, h, r)
  PROVE  OnPath(r) /\ WithinReach(q, r, h)
<1>1. OnPathAt(r, q.phase, q.t_phase + h) /\ WithinReach(q, r, h)
  BY SegmentFollows
<1>2. /\ r.phase_time = PlanTimes(r.phase_time[0], r.phase_time[3])
      /\ r.phase_time[0] \in 1..RampLimit(r.cfg)
  BY DEF OnPath, SameMove, JERK_POS_1, CONST_VEL
<1>3. CASE r.phase = q.phase /\ r.t_phase = q.t_phase + h
  BY <1>1, <1>2, <1>3 DEF OnPath, JERK_POS_1, CONST_VEL
<1>4. CASE r.phase = q.phase + 1 /\ r.t_phase = 0 /\ q.t_phase + h = q.phase_time[q.phase]
  <2>1. q.phase \in Segments
    BY DEF Segments
  <2>2. OnPathAt(r, q.phase, r.phase_time[q.phase])
    BY <1>1, <1>4 DEF SameMove
  <2>3. OnPathAt(r, q.phase + 1, 0)
    BY <1>2, <2>1, <2>2, PathJoins
  <2>4. QED
    BY <1>1, <1>2, <1>4, <2>3 DEF OnPath, JERK_POS_1, CONST_VEL
<1>5. QED
  BY <1>1, <1>3, <1>4 DEF SegmentMove

(* One more segment: the path. *)
LEMMA OnTheWayNext ==
  ASSUME NEW s, IsScurve(s), ValidScurveConfig(s.cfg),
         s.cfg.j_max <= s.cfg.a_max, s.cfg.j_max <= s.cfg.v_max, s.cfg.j_max % 6 = 0,
         NEW dt \in Nat, NEW run, Underway(s, dt, run), OnTheWay(s, dt, run)
  PROVE  OnTheWay(s, dt, RunSegment(run))
<1> DEFINE out == RunSegment(run)
           q == SkipEmpty(run.t)
<1>1. /\ IsScurve(run.t) /\ OnTime(run.t) /\ ValidScurveConfig(run.t.cfg) /\ run.left \in Int
      /\ run = [t |-> run.t, left |-> run.left] /\ run.left \in 0..dt /\ run.t.cfg = s.cfg
      /\ OnPath(run.t) /\ WithinReach(s, run.t, dt - run.left)
  BY DEF Underway, OnTheWay, SameMove
<1>2. RampLimit(run.t.cfg) \in Nat
  BY <1>1, RampLimitIs
<1>3. run.t.phase # DONE =>
        /\ IsScurve(q) /\ SameMove(run.t, q) /\ OnPath(q) /\ q.phase \in {0, 2, 3, 4, 6}
        /\ q.pos = run.t.pos /\ q.vel = run.t.vel /\ q.acc = run.t.acc
  BY <1>1, <1>2, SkipSound, SkipOnPath
<1> HIDE DEF q
<1> HIDE DEF out
<1>4. /\ out = [t |-> out.t, left |-> out.left]
      /\ \/ out.t = run.t /\ out.left = run.left
         \/ run.left > 0 /\ run.t.phase # DONE /\ q.phase = DONE /\ out.t = q /\ out.left = run.left
         \/ \E h \in Nat \ {0} :
              /\ run.t.phase # DONE /\ q.phase # DONE
              /\ h <= run.left /\ q.t_phase + h <= q.phase_time[q.phase] /\ out.left = run.left - h
              /\ IsScurve(out.t) /\ OnTime(out.t) /\ SameMove(q, out.t) /\ SegmentMove(q, h, out.t)
  BY <1>1, RunSegmentIs DEF out, q
<1>5. CASE out.t = run.t /\ out.left = run.left
  BY <1>5 DEF OnTheWay, out
<1>6. CASE run.t.phase # DONE /\ q.phase = DONE
  BY <1>3, <1>6 DEF DONE
<1>7. CASE \E h \in Nat \ {0} :
              /\ run.t.phase # DONE
              /\ h <= run.left /\ q.t_phase + h <= q.phase_time[q.phase] /\ out.left = run.left - h
              /\ IsScurve(out.t) /\ SameMove(q, out.t) /\ SegmentMove(q, h, out.t)
  <2>1. PICK h \in Nat \ {0} :
              /\ run.t.phase # DONE
              /\ h <= run.left /\ q.t_phase + h <= q.phase_time[q.phase] /\ out.left = run.left - h
              /\ IsScurve(out.t) /\ SameMove(q, out.t) /\ SegmentMove(q, h, out.t)
    BY <1>7
  <2>2. q.cfg = s.cfg
    BY <1>1, <1>3, <2>1 DEF SameMove
  <2>3. OnPath(out.t) /\ WithinReach(q, out.t, h)
    BY <1>3, <2>1, <2>2, SegmentOnPath
  <2>4. WithinReach(s, q, dt - run.left)
    BY <1>1, <1>3, <2>1 DEF WithinReach
  <2>5. dt - run.left \in Nat /\ (dt - run.left) + h = dt - out.left
    BY <1>1, <2>1
  <2>6. WithinReach(s, out.t, (dt - run.left) + h)
    <3> DEFINE a == dt - run.left
    <3>1. a \in Nat /\ WithinReach(s, q, a)
      BY <2>4, <2>5
    <3> HIDE DEF a
    <3>2. WithinReach(s, out.t, a + h)
      BY <1>3, <2>1, <2>2, <2>3, <3>1, ReachAdds
    <3>3. QED
      BY <3>2 DEF a
  <2>7. WithinReach(s, out.t, dt - out.left)
    BY <2>5, <2>6
  <2>8. QED
    BY <2>3, <2>7 DEF OnTheWay, out
<1>8. QED
  BY <1>4, <1>5, <1>6, <1>7

(***************************************************************************)
(* A sample's motion: its clock is right, and a move that was on its path  *)
(* still is.                                                               *)
(***************************************************************************)
LEMMA SampleSound ==
  ASSUME NEW s, IsScurve(s), OnTime(s), ValidScurveConfig(s.cfg), NEW dt \in Nat,
         NEW m, m = ScurveIntegrate(s, dt)
  PROVE  /\ IsScurve(m) /\ OnTime(m) /\ SameMove(s, m)
         /\ /\ s.cfg.j_max <= s.cfg.a_max /\ s.cfg.j_max <= s.cfg.v_max /\ s.cfg.j_max % 6 = 0
            /\ OnPath(s)
            => OnPath(m) /\ \E a \in 0..dt : WithinReach(s, m, a)
<1> DEFINE r0 == [t |-> s, left |-> dt]
           r1 == RunSegment(r0)
           r2 == RunSegment(r1)
           r3 == RunSegment(r2)
           r4 == RunSegment(r3)
           r5 == RunSegment(r4)
           r6 == RunSegment(r5)
           r7 == RunSegment(r6)
           Begun(r) == Underway(s, dt, r)
           Fine(r) == OnTheWay(s, dt, r)
           Exact == /\ s.cfg.j_max <= s.cfg.a_max /\ s.cfg.j_max <= s.cfg.v_max
                    /\ s.cfg.j_max % 6 = 0 /\ OnPath(s)
<1>1. Begun(r0)
  BY DEF Underway, SameMove
<1>2. Exact => Fine(r0)
  <2>1. dt - r0.left = 0 /\ r0.t = s
    OBVIOUS
  <2>2. WithinReach(s, s, 0)
    BY NoReach
  <2>3. QED
    BY <2>1, <2>2 DEF OnTheWay
<1>3. m = r7.t
  <2> HIDE DEF r0, r1, r2, r3, r4, r5, r6, r7
  <2>1. /\ r0 = [t |-> s, left |-> dt] /\ r1 = RunSegment(r0) /\ r2 = RunSegment(r1)
        /\ r3 = RunSegment(r2) /\ r4 = RunSegment(r3) /\ r5 = RunSegment(r4)
        /\ r6 = RunSegment(r5) /\ r7 = RunSegment(r6)
    BY DEF r0, r1, r2, r3, r4, r5, r6, r7
  <2>2. ScurveIntegrate(s, dt) = r7.t
    BY <2>1, IntegrateIs
  <2>3. QED
    BY <2>2
<1>4. ASSUME NEW r, Begun(r), Exact => Fine(r)
      PROVE  Begun(RunSegment(r)) /\ (Exact => Fine(RunSegment(r)))
  BY <1>4, UnderwayNext, OnTheWayNext
<1> HIDE DEF Begun, Fine, Exact
<1>5. Begun(r1) /\ (Exact => Fine(r1))
  BY <1>1, <1>2, <1>4
<1> HIDE DEF r1
<1>6. Begun(r2) /\ (Exact => Fine(r2))
  BY <1>4, <1>5
<1> HIDE DEF r2
<1>7. Begun(r3) /\ (Exact => Fine(r3))
  BY <1>4, <1>6
<1> HIDE DEF r3
<1>8. Begun(r4) /\ (Exact => Fine(r4))
  BY <1>4, <1>7
<1> HIDE DEF r4
<1>9. Begun(r5) /\ (Exact => Fine(r5))
  BY <1>4, <1>8
<1> HIDE DEF r5
<1>10. Begun(r6) /\ (Exact => Fine(r6))
  BY <1>4, <1>9
<1> HIDE DEF r6
<1>11. Begun(r7) /\ (Exact => Fine(r7))
  BY <1>4, <1>10
<1> HIDE DEF r7
<1>12. IsScurve(m) /\ OnTime(m) /\ SameMove(s, m)
  BY <1>3, <1>11 DEF Begun, Underway
<1>13. Exact => OnPath(m) /\ \E a \in 0..dt : WithinReach(s, m, a)
  <2>1. dt - r7.left \in 0..dt
    BY <1>11 DEF Begun, Underway
  <2>2. Exact => OnPath(m) /\ WithinReach(s, m, dt - r7.left)
    BY <1>3, <1>11 DEF Fine, OnTheWay
  <2>3. QED
    BY <2>1, <2>2
<1>14. QED
  BY <1>12, <1>13 DEF Exact
(* Time is left while the last segment is. *)
LEMMA TimeLeft ==
  ASSUME NEW w \in [Segments -> Nat], w[6] > 0, NEW k \in Segments
  PROVE  /\ Total(w, Before(k)) + w[k] <= Total(w, Segments)
         /\ Total(w, Before(k)) < Total(w, Segments)
<1> DEFINE b(n) == Total(w, Before(n))
<1>1. /\ b(7) = Total(w, Segments) /\ (\A n \in 0..7 : b(n) \in Nat)
      /\ \A n \in Segments : b(n + 1) = b(n) + w[n]
  BY TimeBefore DEF DONE
<1> HIDE DEF b
<1>2. /\ b(1) = b(0) + w[0] /\ b(2) = b(1) + w[1] /\ b(3) = b(2) + w[2] /\ b(4) = b(3) + w[3]
      /\ b(5) = b(4) + w[4] /\ b(6) = b(5) + w[5] /\ b(7) = b(6) + w[6]
  <2>1. ASSUME NEW n \in Segments, NEW p, p = n + 1 PROVE b(p) = b(n) + w[n]
    BY <1>1, <2>1
  <2>2. QED
    BY <2>1 DEF Segments
<1>3. /\ w[0] \in Nat /\ w[1] \in Nat /\ w[2] \in Nat /\ w[3] \in Nat /\ w[4] \in Nat
      /\ w[5] \in Nat /\ w[6] \in Nat
  BY DEF Segments
<1>4. /\ b(0) \in Nat /\ b(1) \in Nat /\ b(2) \in Nat /\ b(3) \in Nat /\ b(4) \in Nat
      /\ b(5) \in Nat /\ b(6) \in Nat
  BY <1>1
<1>5. b(k) + w[k] <= b(7) /\ b(k) < b(7)
  <2>1. k \in {0, 1, 2, 3, 4, 5, 6}
    BY DEF Segments
  <2>2. QED
    BY <1>2, <1>3, <1>4, <2>1
<1>6. QED
  BY <1>1, <1>5 DEF b

(* Who finishes on the path is at the target, at rest. *)
LEMMA FinishOnPath ==
  ASSUME NEW m, IsScurve(m), OnTime(m), OnPath(m), RampLimit(m.cfg) \in Nat,
         ValidScurveConfig(m.cfg),
         m.elapsed >= m.t_total \/ m.phase = DONE
  PROVE  m.pos = m.target /\ m.vel = 0 /\ m.acc = 0
<1> DEFINE w == m.phase_time
           R == w[0]
           C == w[3]
           b(k) == Total(w, Before(k))
<1>1. /\ w \in [Segments -> Nat] /\ m.t_phase \in Nat /\ m.phase \in 0..7 /\ R \in Nat /\ C \in Nat
      /\ m.pos \in Int /\ m.vel \in Int /\ m.target \in Int /\ m.direction \in Directions
  BY FiniteFacts DEF IsScurve, Segments
<1>2. w = PlanTimes(R, C) /\ R \in 1..RampLimit(m.cfg) /\ OnPathAt(m, m.phase, m.t_phase)
  BY DEF OnPath, JERK_POS_1, CONST_VEL
<1>3. w[6] > 0
  <2>1. PlanTimes(R, C)[6] = R
    BY <1>1 DEF PlanTimes, Segments, CONST_VEL
  <2>2. QED
    BY <1>1, <1>2, <2>1
<1>4. ASSUME m.phase # DONE, m.elapsed >= m.t_total PROVE FALSE
  <2>1. m.phase \in Segments
    BY <1>1, <1>4 DEF Segments, DONE
  <2>2. /\ b(m.phase) + w[m.phase] <= Total(w, Segments)
        /\ b(m.phase) < Total(w, Segments)
    BY <1>1, <1>3, <2>1, TimeLeft
  <2>3. m.elapsed = m.t_phase + b(m.phase) /\ m.t_total = Total(w, Segments)
        /\ (m.t_phase < w[m.phase] \/ m.t_phase = 0)
    BY DEF OnTime
  <2>4. b(m.phase) \in Nat /\ w[m.phase] \in Nat /\ Total(w, Segments) \in Nat
    BY <1>1, <2>1, TimeBefore DEF DONE
  <2> HIDE DEF b, w
  <2>5. QED
    BY <1>1, <1>4, <2>2, <2>3, <2>4
<1>5. m.phase = 7
  BY <1>4 DEF DONE
<1>6. /\ m.acc = (m.direction * m.cfg.j_max) * 0
      /\ 2 * m.vel = (m.direction * m.cfg.j_max) * 0
      /\ 6 * (m.target - m.pos) =
           (m.direction * m.cfg.j_max) * (R * R * (12 * R + 6 * C) - R * R * (12 * R + 6 * C))
  BY <1>2, <1>5 DEF OnPathAt, PathAcc, PathVel, PathPos, DONE, JERK_POS_1, CONST_VEL
<1>7. QED
  <2> DEFINE E == R * R * (12 * R + 6 * C)
             j == m.direction * m.cfg.j_max
  <2>1. E \in Int
    BY <1>1
  <2> HIDE DEF E
  <2>2. E - E = 0
    BY <2>1
  <2>3. m.acc = j * 0 /\ 2 * m.vel = j * 0 /\ 6 * (m.target - m.pos) = j * 0
    BY <1>6, <2>2 DEF E
  <2>4. m.acc \in Int /\ j \in Int
    <3>1. m.cfg.j_max \in Int /\ m.direction \in Int
      BY <1>1, LimitTypes DEF Directions
    <3>2. QED
      BY <3>1, ProductIsInt DEF IsScurve
  <2> HIDE DEF j
  <2>5. m.acc = 0 /\ 2 * m.vel = 0 /\ 6 * (m.target - m.pos) = 0
    BY <2>3, <2>4
  <2>6. m.vel \in Int /\ m.pos \in Int /\ m.target \in Int
    BY <1>1
  <2>7. QED
    BY <2>5, <2>6

(* More time, more reach. *)
LEMMA ReachGrows ==
  ASSUME NEW s, IsScurve(s), ValidScurveConfig(s.cfg), NEW r, IsScurve(r),
         NEW dt \in Nat, NEW a \in 0..dt, WithinReach(s, r, a)
  PROVE  WithinReach(s, r, dt)
<1>1. s.cfg.v_max \in Nat /\ s.cfg.a_max \in Nat /\ s.cfg.j_max \in Nat
  BY LimitTypes
<1>2. ASSUME NEW l \in Nat, NEW x \in Int, NEW y \in Int, Abs(x - y) <= l * a
      PROVE  Abs(x - y) <= l * dt
  <2>1. l * a <= l * dt /\ l * a \in Int /\ l * dt \in Int
    BY LeftFactor, ProductIsInt
  <2>2. Abs(x - y) \in Int
    BY DEF Abs
  <2>3. QED
    BY <1>2, <2>1, <2>2
<1>3. /\ s.pos \in Int /\ r.pos \in Int /\ s.vel \in Int /\ r.vel \in Int
      /\ s.acc \in Int /\ r.acc \in Int
  BY DEF IsScurve
<1>4. QED
  BY <1>1, <1>2, <1>3 DEF WithinReach

(***************************************************************************)
(* A sample that is kept: the generator goes on, or is done.  Who keeps to *)
(* its path goes no further than its limits allow, and stops at the target *)
(* without a jump.                                                         *)
(***************************************************************************)
LEMMA ScurveAdvanceSound ==
  ASSUME NEW s, SoundScurve(s), s.is_initialised, ~s.finished, GridResolves,
         NEW m, m = ScurveIntegrate(s, Period), KinematicsFinite(m),
         NEW r, r = ScurveFinishIfDone(m)
  PROVE  /\ SoundScurve(r) /\ r.cfg = s.cfg
         /\ GridExact /\ OnPath(s) =>
              /\ WithinReach(s, r, Period)
              /\ IF r.finished THEN r.vel = 0 /\ r.acc = 0 ELSE OnPath(r)
<1>1. /\ IsScurve(s) /\ OnTime(s) /\ s.cfg \in ScurveConfigs /\ ValidScurveConfig(s.cfg)
      /\ s.cfg.j_max <= s.cfg.a_max /\ s.cfg.j_max <= s.cfg.v_max
  BY DEF SoundScurve, GridResolves
<1>2. Period \in Nat
  BY PeriodPositive
<1>3. GridExact => s.cfg.j_max % 6 = 0
  BY <1>1 DEF GridExact
<1>4. /\ IsScurve(m) /\ OnTime(m) /\ SameMove(s, m)
      /\ GridExact /\ OnPath(s) => OnPath(m) /\ \E a \in 0..Period : WithinReach(s, m, a)
  BY <1>1, <1>2, <1>3, SampleSound
<1>5. /\ m.cfg = s.cfg /\ m.is_initialised /\ ~m.finished
      /\ m.pos \in Finite /\ m.vel \in Finite /\ m.acc \in Finite /\ m.jrk \in Finite
  BY <1>4, FiniteMember DEF SameMove, KinematicsFinite
<1>6. GridExact /\ OnPath(s) => WithinReach(s, m, Period)
  BY <1>1, <1>2, <1>4, ReachGrows
<1>7. CASE m.elapsed >= m.t_total \/ m.phase = DONE
  <2>1. r = ScurveFinish(m)
    BY <1>7 DEF ScurveFinishIfDone
  <2>2. /\ SoundScurve(r) /\ r.finished /\ r.vel = 0 /\ r.acc = 0 /\ r.pos = m.target
        /\ r.cfg = m.cfg
    BY <1>1, <1>4, <1>5, <2>1, FinishSound
  <2>3. ASSUME GridExact, OnPath(s) PROVE WithinReach(s, r, Period)
    <3>1. RampLimit(m.cfg) \in Nat
      BY <1>1, <1>5, RampLimitIs
    <3>2. m.pos = m.target /\ m.vel = 0 /\ m.acc = 0
      BY <1>1, <1>4, <1>5, <1>7, <2>3, <3>1, FinishOnPath
    <3>3. QED
      BY <1>6, <2>2, <2>3, <3>2 DEF WithinReach
  <2>4. QED
    BY <1>5, <2>2, <2>3
<1>8. CASE ~(m.elapsed >= m.t_total \/ m.phase = DONE)
  <2>1. r = m
    BY <1>8 DEF ScurveFinishIfDone
  <2>2. m.elapsed < m.t_total
    BY <1>4, <1>8 DEF IsScurve
  <2>3. SoundScurve(m)
    BY <1>1, <1>4, <1>5, <1>8, <2>2 DEF SoundScurve
  <2>4. QED
    BY <1>4, <1>5, <1>6, <2>1, <2>3
<1>9. QED
  BY <1>7, <1>8
-----------------------------------------------------------------------------
(* An S-curve generator after init or reset. *)
LEMMA ScurveSeededSound ==
  ASSUME NEW cfg, NEW pos0 \in Finite, NEW ready \in BOOLEAN,
         ready => cfg \in ScurveConfigs /\ ValidScurveConfig(cfg),
         NEW r, r = ScurveSeeded(cfg, pos0, ready)
  PROVE  SoundScurve(r) /\ r.finished /\ r.vel = 0 /\ r.acc = 0
<1>1. /\ r.cfg = cfg /\ r.vel = 0 /\ r.acc = 0 /\ r.jrk = 0 /\ r.pos = pos0 /\ r.finished
      /\ r.is_initialised = ready
  BY DEF ScurveSeeded
<1>2. pos0 \in Int /\ 0 \in Finite /\ [k \in Segments |-> 0] \in [Segments -> Nat]
  BY FiniteFacts
<1>3. IsScurve(r)
  BY <1>1, <1>2 DEF ScurveSeeded, IsScurve, Directions, TrapFault, TrapStatus, DONE
<1>4. QED
  BY <1>1, <1>2, <1>3 DEF SoundScurve

(* A change of hold, fault and status changes nothing about the motion. *)
LEMMA SameScurveMotion ==
  ASSUME NEW s, SoundScurve(s), NEW r, IsScurve(r), SameMove(s, r),
         r.pos = s.pos, r.vel = s.vel, r.acc = s.acc, r.jrk = s.jrk,
         r.t_phase = s.t_phase, r.elapsed = s.elapsed, r.phase = s.phase
  PROVE  SoundScurve(r) /\ (OnPath(s) => OnPath(r))
<1>1. SoundScurve(r)
  BY DEF SoundScurve, SameMove, OnTime
<1>2. OnPath(s) => OnPath(r)
  BY DEF OnPath, OnPathAt, SameMove
<1>3. QED
  BY <1>1, <1>2

(***************************************************************************)
(* A plan made at rest whose segments cover the distance starts on its     *)
(* path.                                                                   *)
(***************************************************************************)
LEMMA PlanOnPath ==
  ASSUME NEW s, IsScurve(s), s.pos \in Finite, s.vel = 0, s.acc = 0, s.jrk \in Finite,
         s.is_initialised, s.cfg \in ScurveConfigs, ValidScurveConfig(s.cfg), GridResolves,
         NEW r, r = ScurvePlan(s), ScurveExact(r)
  PROVE  IF r.finished THEN r.vel = 0 /\ r.acc = 0 ELSE OnPath(r)
<1> DEFINE d == Abs(s.target - s.pos)
           R == RampTime(s.cfg, d)
           C == CruiseTime(s.cfg, d)
           J == s.cfg.j_max
<1>1. 0 \in Finite
  BY FiniteFacts
<1>2. /\ SoundScurve(r) /\ r.cfg = s.cfg
      /\ d = 0 => r.finished /\ r.vel = 0 /\ r.acc = 0
      /\ d # 0 =>
           /\ ~r.finished /\ R \in Nat \ {0} /\ R <= RampLimit(s.cfg) /\ C \in Nat
           /\ r.phase_time = PlanTimes(R, C) /\ r.phase = 0 /\ r.t_phase = 0
           /\ r.direction = Sign(s.target - s.pos)
           /\ r.pos = s.pos /\ r.vel = s.vel /\ r.acc = s.acc /\ r.target = s.target
  BY <1>1, ScurvePlanIs
<1>3. CASE d = 0
  BY <1>2, <1>3
<1>4. CASE d # 0
  <2>1. /\ R \in Nat /\ C \in Nat /\ J \in Nat /\ s.pos \in Int /\ s.target \in Int
        /\ RampLimit(s.cfg) \in Nat
    <3>1. s.cfg.j_max <= s.cfg.a_max /\ s.cfg.j_max <= s.cfg.v_max
      BY DEF GridResolves
    <3>2. QED
      BY <1>2, <1>4, <3>1, LimitTypes, RampLimitIs, FiniteFacts DEF IsScurve
  <2> HIDE DEF R, C
  <2>2. r.phase_time[0] = R /\ r.phase_time[3] = C
    BY <1>2, <1>4, <2>1, PlanTimesAre
  <2>3. d = 2 * J * R * R * R + C * J * R * R
    BY <1>2, <1>4, <2>2 DEF ScurveExact, FourRamps, JERK_POS_1, CONST_VEL
  <2> DEFINE g == Sign(s.target - s.pos)
             E == R * R * (12 * R + 6 * C)
             way == J * E
  <2>4. g * d = s.target - s.pos /\ g \in Int /\ d \in Int
    BY <2>1 DEF Abs, Sign
  <2>5. 6 * d = way
    BY <2>1, <2>3
  <2>6. E \in Int /\ way \in Int
    BY <2>1, ProductIsInt
  <2> HIDE DEF E, g, d, J
  <2>7. 6 * (s.target - s.pos) = (g * J) * E
    <3>1. 6 * (g * d) = g * (6 * d)
      BY <2>4
    <3>2. g * way = (g * J) * E
      BY <2>1, <2>4, <2>6
    <3>3. QED
      BY <2>4, <2>5, <3>1, <3>2
  <2> DEFINE K == g * J
  <2>8. K \in Int
    BY <2>1, <2>4, ProductIsInt
  <2> HIDE DEF K
  <2>9. PathPos(R, C, 7, 0) - PathPos(R, C, 0, 0) = E /\ PathAcc(R, 0, 0) = 0 /\ PathVel(R, 0, 0) = 0
    <3>1. /\ PathPos(R, C, 7, 0) = E /\ PathPos(R, C, 0, 0) = 0 /\ PathAcc(R, 0, 0) = 0
          /\ PathVel(R, 0, 0) = 0
      BY PathIs DEF E
    <3>2. QED
      BY <2>6, <3>1
  <2>10. K * 0 = 0 /\ 2 * 0 = 0
    BY <2>8
  <2>11. OnPathAt(r, 0, 0)
    <3>1. r.direction * r.cfg.j_max = K
      BY <1>2, <1>4 DEF K, g, J, d
    <3>2. r.acc = 0 /\ r.vel = 0 /\ r.target = s.target /\ r.pos = s.pos
      BY <1>2, <1>4
    <3>3. 6 * (r.target - r.pos) = K * E
      BY <2>7, <3>2 DEF K
    <3>4. QED
      BY <2>2, <2>9, <2>10, <3>1, <3>2, <3>3 DEF OnPathAt, DONE, JERK_POS_1, CONST_VEL
  <2>12. OnPath(r)
    <3>1. R \in 1..RampLimit(r.cfg)
      BY <1>2, <1>4, <2>1 DEF R
    <3>2. r.phase_time = PlanTimes(R, C) /\ r.phase = 0 /\ r.t_phase = 0
      BY <1>2, <1>4 DEF R, C
    <3>3. QED
      BY <2>2, <2>11, <3>1, <3>2 DEF OnPath, JERK_POS_1, CONST_VEL
  <2>13. QED
    BY <1>2, <1>4, <2>12 DEF d
<1>5. QED
  BY <1>3, <1>4
-----------------------------------------------------------------------------
(* At rest, or on the path. *)
RestOrPath(s) == IF s.finished THEN s.vel = 0 /\ s.acc = 0 ELSE OnPath(s)

(***************************************************************************)
(* The S-curve's invariant: its clock is right always; a generator whose   *)
(* move was planned at rest is where the path of the plan says.            *)
(***************************************************************************)
ScurveInv ==
  profile = "SCURVE" => SoundScurve(t) /\ (GridExact /\ from_rest => RestOrPath(t))

(* A fault the S-curve generator can raise. *)
LEMMA ScurveFaultySound ==
  ASSUME SoundScurve(t), NEW code \in TrapFault, NEW r, r = Faulty(code)
  PROVE  /\ SoundScurve(r) /\ (RestOrPath(t) => RestOrPath(r))
         /\ r.pos = t.pos /\ r.vel = t.vel /\ r.acc = t.acc
<1>1. IsScurve(t) /\ "FAULT" \in TrapStatus
  BY DEF SoundScurve, TrapStatus
<1>2. r = [t EXCEPT !.fault_code = code, !.status = "FAULT"]
  BY DEF Faulty
<1>3. /\ SameMove(t, r) /\ r.pos = t.pos /\ r.vel = t.vel /\ r.acc = t.acc /\ r.jrk = t.jrk
      /\ r.t_phase = t.t_phase /\ r.elapsed = t.elapsed /\ r.phase = t.phase
  BY <1>1, <1>2 DEF IsScurve, SameMove
<1>4. IsScurve(r)
  BY <1>1, <1>2 DEF IsScurve
<1>5. SoundScurve(r) /\ (OnPath(t) => OnPath(r))
  BY <1>3, <1>4, SameScurveMotion
<1>6. QED
  BY <1>3, <1>5 DEF RestOrPath, SameMove

(* A hold and its release. *)
LEMMA ScurveHoldSound ==
  ASSUME SoundScurve(t), NEW hold \in BOOLEAN, NEW r, r = ScurveHold(t, hold)
  PROVE  SoundScurve(r) /\ (RestOrPath(t) => RestOrPath(r))
<1>1. IsScurve(t)
  BY DEF SoundScurve
<1>2. r = [t EXCEPT !.hold = hold]
  BY DEF ScurveHold
<1>3. /\ SameMove(t, r) /\ r.pos = t.pos /\ r.vel = t.vel /\ r.acc = t.acc /\ r.jrk = t.jrk
      /\ r.t_phase = t.t_phase /\ r.elapsed = t.elapsed /\ r.phase = t.phase
  BY <1>1, <1>2 DEF IsScurve, SameMove
<1>4. IsScurve(r)
  BY <1>1, <1>2 DEF IsScurve
<1>5. SoundScurve(r) /\ (OnPath(t) => OnPath(r))
  BY <1>3, <1>4, SameScurveMotion
<1>6. QED
  BY <1>3, <1>5 DEF RestOrPath, SameMove

(* The initial state. *)
LEMMA ScurveInitInv == Init => ScurveInv
<1> SUFFICES ASSUME Init, profile = "SCURVE" PROVE ScurveInv
  BY DEF ScurveInv
<1> DEFINE cfg == [v_max |-> 0, a_max |-> 0, j_max |-> 0]
<1>1. t = ScurveSeeded(cfg, 0, FALSE) /\ 0 \in Finite
  BY FiniteFacts DEF Init
<1> HIDE DEF cfg
<1>2. SoundScurve(t) /\ t.finished /\ t.vel = 0 /\ t.acc = 0
  BY <1>1, ScurveSeededSound
<1>3. QED
  BY <1>2 DEF ScurveInv, RestOrPath

(* ron_scurve_init, ron_scurve_reset *)
LEMMA ScurveRestInv ==
  ASSUME ScurveInv, profile = "SCURVE", Initialise \/ Reset PROVE ScurveInv'
<1>1. PICK cfg \in ScurveConfigs, pos0 \in Positions :
        IsFinite(pos0) /\ ValidScurveConfig(cfg) /\ Rest(ScurveSeeded(cfg, pos0, TRUE))
  <2>1. profile # "TRAP"
    OBVIOUS
  <2>2. CASE Initialise
    BY <2>1, <2>2 DEF Initialise
  <2>3. CASE Reset
    BY <2>1, <2>3 DEF Reset, ScurveInv, SoundScurve
  <2>4. QED
    BY <2>2, <2>3
<1>2. t' = ScurveSeeded(cfg, pos0, TRUE) /\ pos0 \in Finite
  BY <1>1, FiniteMember DEF Rest, Configure
<1>3. SoundScurve(t') /\ t'.finished /\ t'.vel = 0 /\ t'.acc = 0
  BY <1>1, <1>2, ScurveSeededSound
<1>4. QED
  BY <1>3 DEF ScurveInv, RestOrPath

(* A call that writes no setpoints and makes no plan. *)
LEMMA ScurveConfigureInv ==
  ASSUME ScurveInv, profile = "SCURVE", NEW new, Configure(new), UNCHANGED <<from_rest, plans>>,
         SoundScurve(new), RestOrPath(t) => RestOrPath(new)
  PROVE  ScurveInv'
<1>1. t' = new /\ from_rest' = from_rest
  BY DEF Configure
<1>2. QED
  BY <1>1 DEF ScurveInv

(* ron_scurve_set_target *)
LEMMA ScurveTargetInv ==
  ASSUME ScurveInv, profile = "SCURVE", GridResolves, SetTarget PROVE ScurveInv'
<1>1. PICK target \in Targets :
        LET s == [t EXCEPT !.target = target]
        IN  IF IsFinite(target)
            THEN Planned(IF profile = "TRAP" THEN TrapPlan(s) ELSE ScurvePlan(s))
            ELSE Configure(Faulty("CONFIG_INVALID")) /\ UNCHANGED <<from_rest, plans>>
  BY DEF SetTarget
<1> DEFINE s == [t EXCEPT !.target = target]
<1>2. SoundScurve(t) /\ IsScurve(t) /\ t.is_initialised
  BY DEF ScurveInv, SoundScurve, SetTarget, Faultless
<1>3. CASE IsFinite(target)
  <2>1. Planned(ScurvePlan(s))
    BY <1>1, <1>3
  <2>2. target \in Finite
    BY <1>3, FiniteMember
  <2>3. /\ IsScurve(s) /\ s.cfg = t.cfg /\ s.pos = t.pos /\ s.vel = t.vel /\ s.acc = t.acc
        /\ s.jrk = t.jrk /\ s.is_initialised
    BY <1>2, <2>2 DEF IsScurve
  <2>4. s.cfg \in ScurveConfigs /\ ValidScurveConfig(s.cfg)
    BY <1>2, <2>3 DEF SoundScurve
  <2>5. s.pos \in Finite /\ s.vel \in Finite /\ s.acc \in Finite /\ s.jrk \in Finite
    BY <1>2, <2>3 DEF SoundScurve
  <2> HIDE DEF s
  <2>6. t' = ScurvePlan(s) /\ (from_rest' => t.vel = 0 /\ t.acc = 0 /\ ScurveExact(t'))
    BY <2>1 DEF Planned, Configure
  <2>7. SoundScurve(t')
    BY <2>3, <2>4, <2>5, <2>6, ScurvePlanIs
  <2>8. from_rest' => RestOrPath(t')
    BY <2>3, <2>4, <2>5, <2>6, PlanOnPath DEF RestOrPath
  <2>9. QED
    BY <2>7, <2>8 DEF ScurveInv
<1>4. CASE ~IsFinite(target)
  <2>1. Configure(Faulty("CONFIG_INVALID")) /\ UNCHANGED <<from_rest, plans>>
    BY <1>1, <1>4
  <2>2. /\ SoundScurve(Faulty("CONFIG_INVALID"))
        /\ RestOrPath(t) => RestOrPath(Faulty("CONFIG_INVALID"))
    BY <1>2, ScurveFaultySound DEF TrapFault
  <2>3. QED
    BY <2>1, <2>2, ScurveConfigureInv
<1>5. QED
  BY <1>3, <1>4

(***************************************************************************)
(* A step of the S-curve: it stays where it is or goes on, and who keeps   *)
(* to a path goes no further than the limits allow.                        *)
(***************************************************************************)
LEMMA ScurveStepSound ==
  ASSUME ScurveInv, profile = "SCURVE", GridResolves, Step
  PROVE  /\ SoundScurve(t')
         /\ GridExact /\ from_rest => RestOrPath(t') /\ WithinReach(t, t', Period)
<1> DEFINE m == ScurveIntegrate(t, Period)
<1>1. /\ SoundScurve(t) /\ IsScurve(t) /\ t.is_initialised /\ ValidScurveConfig(t.cfg)
      /\ GridExact /\ from_rest => RestOrPath(t)
  BY DEF ScurveInv, Step, SoundScurve
<1>2. Period \in Nat
  BY PeriodPositive
<1>3. profile # "TRAP"
  OBVIOUS
<1>4. CASE t.fault_code # "NONE" \/ t.hold \/ t.finished
  <2>1. t' = t
    BY <1>3, <1>4 DEF Step
  <2>2. WithinReach(t, t', Period)
    BY <1>1, <1>2, <2>1, NoReach
  <2>3. QED
    BY <1>1, <2>1, <2>2
<1>5. CASE t.fault_code = "NONE" /\ ~t.hold /\ ~t.finished
  <2>1. t' = Advance(m, Period)
    BY <1>3, <1>5 DEF Step, Integrated
  <2>2. CASE KinematicsFinite(m)
    <3>1. t' = ScurveFinishIfDone(m)
      BY <1>3, <2>1, <2>2 DEF Advance, FinishIfDone
    <3> HIDE DEF m
    <3>2. m = ScurveIntegrate(t, Period)
      BY DEF m
    <3>3. /\ SoundScurve(t')
          /\ GridExact /\ OnPath(t) =>
               /\ WithinReach(t, t', Period)
               /\ IF t'.finished THEN t'.vel = 0 /\ t'.acc = 0 ELSE OnPath(t')
      BY <1>1, <1>5, <2>2, <3>1, <3>2, ScurveAdvanceSound
    <3>4. QED
      BY <1>1, <1>5, <3>3 DEF RestOrPath
  <2>3. CASE ~KinematicsFinite(m)
    <3>1. t' = Faulty("OUTPUT_NAN")
      BY <2>1, <2>3 DEF Advance
    <3>2. /\ SoundScurve(t') /\ (RestOrPath(t) => RestOrPath(t'))
          /\ t'.pos = t.pos /\ t'.vel = t.vel /\ t'.acc = t.acc
      BY <1>1, <3>1, ScurveFaultySound DEF TrapFault
    <3>3. WithinReach(t, t', Period)
      BY <1>1, <1>2, <3>2, NoReach
    <3>4. QED
      BY <1>1, <3>2, <3>3
  <2>4. QED
    BY <2>2, <2>3
<1>6. QED
  BY <1>4, <1>5

(* A generator stays of one kind. *)
LEMMA SameProfile == [Next]_vars => profile' = profile
  BY DEF Next, vars, Initialise, Reset, SetTarget, Hold, Step, BadStep, Rest, Planned, Configure

(* The S-curve's invariant is inductive. *)
LEMMA ScurveNextInv == GridResolves /\ ScurveInv /\ [Next]_vars => ScurveInv'
<1> SUFFICES ASSUME GridResolves, ScurveInv, [Next]_vars, profile = "SCURVE" PROVE ScurveInv'
  BY SameProfile DEF ScurveInv
<1>1. CASE Initialise \/ Reset
  BY <1>1, ScurveRestInv
<1>2. CASE SetTarget
  BY <1>2, ScurveTargetInv
<1>3. CASE Hold
  <2>1. PICK hold \in BOOLEAN :
          Configure(ScurveHold(t, hold)) /\ UNCHANGED <<from_rest, plans>>
    <3>1. profile # "TRAP"
      OBVIOUS
    <3>2. QED
      BY <1>3, <3>1 DEF Hold
  <2>2. SoundScurve(t)
    BY DEF ScurveInv
  <2>3. /\ SoundScurve(ScurveHold(t, hold))
        /\ RestOrPath(t) => RestOrPath(ScurveHold(t, hold))
    BY <2>2, ScurveHoldSound
  <2>4. QED
    BY <2>1, <2>3, ScurveConfigureInv
<1>4. CASE Step
  <2>1. /\ SoundScurve(t')
        /\ GridExact /\ from_rest => RestOrPath(t')
    BY <1>4, ScurveStepSound
  <2>2. from_rest' = from_rest
    BY <1>4 DEF Step
  <2>3. QED
    BY <2>1, <2>2 DEF ScurveInv
<1>5. CASE BadStep
  <2>1. Configure(Faulty("CONFIG_INVALID")) /\ UNCHANGED <<from_rest, plans>>
    BY <1>5 DEF BadStep
  <2>2. /\ SoundScurve(Faulty("CONFIG_INVALID"))
        /\ RestOrPath(t) => RestOrPath(Faulty("CONFIG_INVALID"))
    BY ScurveFaultySound DEF TrapFault, ScurveInv
  <2>3. QED
    BY <2>1, <2>2, ScurveConfigureInv
<1>6. CASE UNCHANGED vars
  BY <1>6 DEF vars, ScurveInv
<1>7. QED
  BY <1>1, <1>2, <1>3, <1>4, <1>5, <1>6 DEF Next
-----------------------------------------------------------------------------
(* On the path, the speed and the acceleration are within their limits. *)
LEMMA PathWithinLimits ==
  ASSUME NEW s, SoundScurve(s), s.is_initialised, ~s.finished, OnPath(s), GridResolves
  PROVE  Abs(s.vel) <= s.cfg.v_max /\ Abs(s.acc) <= s.cfg.a_max
<1> DEFINE R == s.phase_time[0]
           k == s.phase
           u == s.t_phase
           J == s.cfg.j_max
           d == s.direction
<1>1. /\ IsScurve(s) /\ OnTime(s) /\ ValidScurveConfig(s.cfg)
      /\ s.cfg.j_max <= s.cfg.a_max /\ s.cfg.j_max <= s.cfg.v_max
  BY DEF SoundScurve, GridResolves
<1>2. /\ RampLimit(s.cfg) \in Nat
      /\ J * RampLimit(s.cfg) <= s.cfg.a_max
      /\ J * (RampLimit(s.cfg) * RampLimit(s.cfg)) <= s.cfg.v_max
      /\ J \in Nat /\ s.cfg.a_max \in Nat /\ s.cfg.v_max \in Nat
  BY <1>1, RampLimitIs, LimitTypes
<1>3. /\ R \in Nat /\ R <= RampLimit(s.cfg) /\ s.phase_time[3] \in Nat
      /\ s.phase_time = PlanTimes(R, s.phase_time[3])
      /\ k \in 0..7 /\ u \in Nat /\ d \in Directions /\ s.vel \in Int /\ s.acc \in Int
      /\ s.acc = (d * J) * PathAcc(R, k, u) /\ 2 * s.vel = (d * J) * PathVel(R, k, u)
  BY <1>1, <1>2 DEF IsScurve, OnPath, OnPathAt, Segments, JERK_POS_1, CONST_VEL
<1>4. k \in {0, 2, 4, 6} => u <= R
  <2>1. u = 0 \/ (k \in Segments /\ u < s.phase_time[k])
    BY <1>1 DEF OnTime
  <2>2. k \in {0, 2, 4, 6} => s.phase_time[k] = R
    <3> DEFINE C == s.phase_time[3]
    <3>1. R \in Nat /\ C \in Nat /\ s.phase_time = PlanTimes(R, C)
      BY <1>3
    <3> HIDE DEF R, C
    <3>2. /\ PlanTimes(R, C)[0] = R /\ PlanTimes(R, C)[2] = R /\ PlanTimes(R, C)[4] = R
          /\ PlanTimes(R, C)[6] = R
      BY <3>1, PlanTimesAre
    <3>3. QED
      BY <3>1, <3>2
  <2>3. QED
    BY <1>3, <2>1, <2>2
<1> HIDE DEF R, k, u, J, d
<1>5. /\ -R <= PathAcc(R, k, u) /\ PathAcc(R, k, u) <= R
      /\ 0 <= PathVel(R, k, u) /\ PathVel(R, k, u) <= 2 * (R * R)
  BY <1>3, <1>4, PathBounds
<1>6. PathAcc(R, k, u) \in Int /\ PathVel(R, k, u) \in Int
  <2>1. k \in {0, 1, 2, 3, 4, 5, 6, 7}
    BY <1>3
  <2>2. QED
    BY <1>3, <2>1 DEF PathAcc, PathVel
<1> DEFINE L == RampLimit(s.cfg)
           a == PathAcc(R, k, u)
           v == PathVel(R, k, u)
<1> HIDE DEF L, a, v
<1>7. J * R <= s.cfg.a_max /\ J * (R * R) <= s.cfg.v_max
  <2>1. R \in Nat /\ L \in Nat /\ R <= L
    BY <1>2, <1>3 DEF L
  <2>2. R * R <= L * L /\ R * R \in Nat /\ L * L \in Nat
    <3>1. R * R <= R * L /\ R * L <= L * L
      BY <2>1, LeftFactor
    <3>2. R * R \in Nat /\ R * L \in Nat /\ L * L \in Nat
      BY <2>1
    <3>3. QED
      BY <3>1, <3>2
  <2>3. J * R <= J * L /\ J * (R * R) <= J * (L * L)
    BY <1>2, <2>1, <2>2, LeftFactor
  <2>4. J * R \in Int /\ J * L \in Int /\ J * (R * R) \in Int /\ J * (L * L) \in Int
    BY <1>2, <2>1, <2>2, ProductIsInt
  <2>5. J * L <= s.cfg.a_max /\ J * (L * L) <= s.cfg.v_max
    BY <1>2 DEF L
  <2>6. QED
    BY <1>2, <2>3, <2>4, <2>5
<1>8. Abs(s.acc) <= J * R
  BY <1>2, <1>3, <1>5, <1>6, Magnified
<1>9. Abs(2 * s.vel) <= J * (2 * (R * R))
  <2> DEFINE M == 2 * (R * R)
  <2>1. M \in Nat /\ -M <= v /\ v <= M /\ v \in Int
    BY <1>3, <1>5, <1>6 DEF v
  <2> HIDE DEF M
  <2>2. Abs((d * J) * v) <= J * M
    BY <1>2, <1>3, <2>1, Magnified
  <2>3. QED
    BY <1>3, <2>2 DEF v, M
<1>10. Abs(s.vel) <= J * (R * R)
  <2> DEFINE q == R * R
             w == J * q
  <2>1. q \in Int /\ w \in Int /\ J * (2 * q) = 2 * w
    BY <1>2, <1>3
  <2>2. Abs(2 * s.vel) <= 2 * w
    BY <1>9, <2>1
  <2> HIDE DEF w, q
  <2>3. Abs(s.vel) <= w
    BY <1>3, <2>1, <2>2 DEF Abs
  <2>4. QED
    BY <2>3 DEF w, q
<1>11. QED
  <2>1. J * R \in Int /\ J * (R * R) \in Int /\ Abs(s.vel) \in Int /\ Abs(s.acc) \in Int
    BY <1>2, <1>3, ProductIsInt DEF Abs
  <2>2. QED
    BY <1>2, <1>7, <1>8, <1>10, <2>1

(* What the theorems below rest on. *)
THEOREM ScurveInvariance == ASSUME GridResolves PROVE Spec => []ScurveInv
<1>1. ScurveInv /\ [Next]_vars => ScurveInv'
  BY ScurveNextInv
<1>2. QED
  BY ScurveInitInv, <1>1, PTL DEF Spec

(* TypeOK of both generators: nothing that is not finite is kept, the peak *)
(* speed is within the limit, and an S-curve's segments have lengths.      *)
THEOREM TypesSafety == ASSUME GridResolves PROVE Spec => []TypeOK
<1>1. Inv /\ ScurveInv /\ (profile = "TRAP" => TypeOK) => TypeOK
  <2> SUFFICES ASSUME Inv, ScurveInv, profile = "SCURVE" PROVE TypeOK
    BY DEF Inv
  <2>1. /\ t.pos \in Finite /\ t.vel \in Finite /\ t.acc \in Finite /\ t.jrk \in Finite
        /\ t.target \in Finite /\ t.direction \in Directions /\ t.phase \in 0..7
        /\ t.phase_time \in [Segments -> Nat] /\ t.hold \in BOOLEAN /\ t.finished \in BOOLEAN
    BY DEF ScurveInv, SoundScurve, IsScurve
  <2>2. \A x \in {t.pos, t.vel, t.acc, t.jrk, t.target} : IsFinite(x)
    BY <2>1, FiniteMember
  <2>3. t.phase \in Segments \union {DONE}
    BY <2>1 DEF Segments, DONE
  <2>4. QED
    BY <2>1, <2>2, <2>3 DEF Inv, TypeOK, Directions
<1>2. QED
  BY <1>1, Invariance, TypeCorrectness, ScurveInvariance, PTL

(* ClockMatchesSegments: an S-curve's clock tells where it is, across      *)
(* samples that cover several segments, holds and retargets, and its plan  *)
(* adds up.                                                                *)
THEOREM ClockSafety == ASSUME GridResolves PROVE Spec => []ClockMatchesSegments
<1>1. ScurveInv => ClockMatchesSegments
  <2> SUFFICES ASSUME ScurveInv, profile = "SCURVE", ~t.finished PROVE ClockMatchesSegments
    BY DEF ClockMatchesSegments
  <2> DEFINE w == t.phase_time
  <2>1. /\ w \in [Segments -> Nat] /\ OnTime(t) /\ t.phase # DONE /\ t.elapsed < t.t_total
    BY DEF ScurveInv, SoundScurve, IsScurve
  <2>2. \A S \in SUBSET Segments : MapThenSumSet(LAMBDA k : t.phase_time[k], S) = Total(w, S)
    BY <2>1, TimeIsTotal
  <2>3. /\ MapThenSumSet(LAMBDA k : t.phase_time[k], Segments) = Total(w, Segments)
        /\ MapThenSumSet(LAMBDA k : t.phase_time[k], {k \in Segments : k < t.phase})
             = Total(w, Before(t.phase))
    BY <2>2 DEF Before
  <2>4. t.elapsed = t.t_phase + Total(w, Before(t.phase)) /\ t.t_total = Total(w, Segments)
    BY <2>1 DEF OnTime
  <2>5. QED
    BY <2>1, <2>3, <2>4 DEF ClockMatchesSegments
<1>2. QED
  BY <1>1, ScurveInvariance, PTL

(* WithinLimits of both generators: an S-curve whose move was planned at   *)
(* rest never exceeds its speed and its acceleration limit.                *)
THEOREM BothWithinLimits ==
  ASSUME GridResolves, GridExact PROVE Spec => []WithinLimits
<1>1. Inv /\ ScurveInv => WithinLimits
  <2> SUFFICES ASSUME Inv, ScurveInv, t.is_initialised PROVE WithinLimits
    BY DEF WithinLimits
  <2>1. CASE profile = "TRAP"
    BY <2>1 DEF Inv, SoundTrap, WithinLimits
  <2>2. CASE profile = "SCURVE" /\ from_rest
    <3>1. SoundScurve(t) /\ RestOrPath(t) /\ ValidScurveConfig(t.cfg)
      BY <2>2 DEF ScurveInv, SoundScurve
    <3>2. t.finished => Abs(t.vel) = 0 /\ Abs(t.acc) = 0
      BY <3>1 DEF RestOrPath, Abs
    <3>3. t.cfg.v_max >= 0 /\ t.cfg.a_max >= 0
      BY <3>1, LimitTypes
    <3>4. ~t.finished => Abs(t.vel) <= t.cfg.v_max /\ Abs(t.acc) <= t.cfg.a_max
      BY <3>1, PathWithinLimits DEF RestOrPath
    <3>5. QED
      BY <2>2, <3>2, <3>3, <3>4 DEF WithinLimits
  <2>3. QED
    BY <2>1, <2>2 DEF Inv, WithinLimits
<1>2. QED
  BY <1>1, Invariance, ScurveInvariance, PTL

(* Continuous for both generators: no sample of an S-curve planned at rest *)
(* moves the position, the velocity or the acceleration further than the   *)
(* limits allow, the one that puts it on its target included.              *)
THEOREM SmoothMotion ==
  ASSUME GridResolves, GridExact PROVE Spec => Continuous
<1> DEFINE Smooth ==
      LET dt == Period IN
      stepped' /\ (profile = "TRAP" \/ from_rest) =>
        /\ Abs(t'.pos - t.pos) <= t.cfg.v_max * dt
        /\ Abs(t'.vel - t.vel) <= t.cfg.a_max * dt \/ (profile = "TRAP" /\ t'.finished)
        /\ profile = "SCURVE" => Abs(t'.acc - t.acc) <= t.cfg.j_max * dt
<1>1. Inv /\ ScurveInv /\ [Next]_vars => [Smooth]_vars
  <2> SUFFICES ASSUME Inv, ScurveInv, Next, stepped', profile = "TRAP" \/ from_rest PROVE Smooth
    OBVIOUS
  <2>1. Step
    BY DEF Next, Initialise, Reset, SetTarget, Hold, BadStep, Rest, Planned, Configure
  <2>2. CASE profile = "TRAP"
    BY <2>1, <2>2, StepSound
  <2>3. CASE profile = "SCURVE" /\ from_rest
    <3>1. WithinReach(t, t', Period)
      BY <2>1, <2>3, ScurveStepSound
    <3>2. QED
      BY <3>1 DEF WithinReach
  <2>4. QED
    BY <2>2, <2>3 DEF Inv
<1> HIDE DEF Smooth
<1>2. Spec => [][Smooth]_vars
  BY <1>1, Invariance, ScurveInvariance, PTL DEF Spec
<1>3. QED
  BY <1>2 DEF Continuous, Smooth
=============================================================================
