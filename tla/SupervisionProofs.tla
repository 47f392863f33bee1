------------------------- MODULE SupervisionProofs -------------------------
(***************************************************************************)
(* Theorems about what supervises a controller: the health monitor, the    *)
(* loop metrics and the gain schedule.                                     *)
(*                                                                         *)
(* The monitors' properties speak of the whole history of samples, the     *)
(* instances hold a few numbers.  Two invariants tie them.  Remembers:     *)
(* each timer of the health monitor is the time since the last change of   *)
(* its kind, each slot of the ring the sign of one of the last errors.     *)
(* SoundMetrics: the integrals are sums over the current window, the       *)
(* fields of the response are what the samples since the last restart      *)
(* show, and the window's counter is in step with the history's length.    *)
(*                                                                         *)
(* The schedule's properties speak of the breakpoint that brackets the     *)
(* operating point; that the bisection finds it is LookupBrackets, by the  *)
(* least counterexample.                                                   *)
(***************************************************************************)
EXTENDS GainSched, Monitors, RonLemmas

(* The samples the monitors record. *)
Record == [r: Int, y: Int, u: Float, dt: Nat \ {0}]

Periods(seq) == [k \in 1..Len(seq) |-> seq[k].dt]

(* A sample of a history. *)
LEMMA SampleOf ==
  ASSUME NEW seq \in Seq(Record), NEW k \in 1..Len(seq)
  PROVE  /\ seq[k] \in Record /\ seq[k].r \in Int /\ seq[k].y \in Int
         /\ seq[k].dt \in Nat /\ seq[k].dt > 0
<1>1. seq[k] \in Record
  OBVIOUS
<1>2. QED
  BY <1>1 DEF Record

(* A history with one sample more. *)
LEMMA Appended ==
  ASSUME NEW seq \in Seq(Record), NEW s \in Record
  PROVE  /\ Append(seq, s) \in Seq(Record)
         /\ Len(seq) \in Nat /\ Len(Append(seq, s)) = Len(seq) + 1
         /\ Append(seq, s)[Len(seq) + 1] = s
         /\ \A k \in 1..Len(seq) : Append(seq, s)[k] = seq[k]
  OBVIOUS

(* The time of Span, as a sum. *)
LEMMA SpanIsTotal ==
  ASSUME NEW seq \in Seq(Record), NEW a \in Int, NEW b \in Int, a >= 1, b <= Len(seq)
  PROVE  /\ Span(seq, a, b) = Total(Periods(seq), a..b)
         /\ Span(seq, a, b) \in Nat
<1> DEFINE S == a..b
           w == Periods(seq)
           step(iter) ==
             [T \in SUBSET S |->
                IF T = {} THEN 0
                ELSE seq[CHOOSE x \in T : TRUE].dt + iter[T \ {CHOOSE x \in T : TRUE}]]
           f == CHOOSE iter : iter = step(iter)
<1>1. IsFiniteSet(S)
  BY FS_Interval
<1>2. ASSUME NEW k \in S PROVE w[k] = seq[k].dt /\ w[k] \in Nat
  <2>1. k \in 1..Len(seq)
    OBVIOUS
  <2>2. QED
    BY <2>1, SampleOf DEF Periods
<1>3. ASSUME NEW iter PROVE step(iter) = Unfolded(w, S, iter)
  <2> HIDE DEF S, w
  <2>1. ASSUME NEW T \in SUBSET S, T # {}
        PROVE  seq[CHOOSE x \in T : TRUE].dt = w[CHOOSE x \in T : TRUE]
    BY <1>2, <2>1
  <2>2. QED
    BY <2>1 DEF Unfolded
<1>4. \E iter : iter = step(iter)
  <2>1. \E iter : iter = Unfolded(w, S, iter)
    <3> HIDE DEF S, w
    <3> QED BY <1>1, <1>2, FoldExists
  <2> HIDE DEF step, S, w
  <2>2. QED
    BY <1>3, <2>1
<1>5. f = step(f)
  <2> HIDE DEF step
  <2> QED BY <1>4
<1>6. MapThenSumSet(LAMBDA k : seq[k].dt, S) = f[S]
  <2> HIDE DEF S
  <2> QED BY DEF MapThenSumSet, MapThenFoldSet
<1>7. Span(seq, a, b) = MapThenSumSet(LAMBDA k : seq[k].dt, S)
  BY DEF Span
<1> HIDE DEF f, step, S, w
<1>8. f[S] = Total(w, S)
  BY <1>1, <1>2, <1>3, <1>5, FoldIsTotal
<1>9. Total(w, S) \in Nat
  BY <1>1, <1>2, UnitsFinite
<1>10. QED
  BY <1>6, <1>7, <1>8, <1>9 DEF S, w

(* No samples take no time. *)
LEMMA SpanEmpty ==
  ASSUME NEW seq \in Seq(Record), NEW a \in Int, NEW b \in Int, a >= 1, b <= Len(seq), a > b
  PROVE  Span(seq, a, b) = 0
<1>1. a..b = {}
  OBVIOUS
<1>2. QED
  BY <1>1, SpanIsTotal, TotalEmpty

(* One more sample adds its period. *)
LEMMA SpanNext ==
  ASSUME NEW seq \in Seq(Record), NEW a \in Int, NEW b \in Int, a >= 1, a <= b, b <= Len(seq)
  PROVE  Span(seq, a, b) = Span(seq, a, b - 1) + seq[b].dt
<1> DEFINE S == a..b - 1
           w == Periods(seq)
<1>1. a..b = S \union {b} /\ b \notin S
  OBVIOUS
<1>2. IsFiniteSet(S)
  BY FS_Interval
<1>3. ASSUME NEW k \in a..b PROVE w[k] \in Nat
  <2>1. k \in 1..Len(seq)
    OBVIOUS
  <2>2. QED
    BY <2>1, SampleOf DEF Periods
<1>4. w[b] = seq[b].dt
  BY DEF Periods
<1>5. Span(seq, a, b) = Total(w, a..b) /\ Span(seq, a, b - 1) = Total(w, S)
  BY SpanIsTotal
<1>6. Total(w, S \union {b}) = Total(w, S) + w[b]
  <2>1. b \in a..b
    OBVIOUS
  <2> HIDE DEF S, w
  <2>2. QED
    BY <1>1, <1>2, <1>3, <2>1, TotalAdd
<1>7. QED
  BY <1>1, <1>4, <1>5, <1>6

(* A new sample does not change the time of the earlier ones. *)
LEMMA SpanKept ==
  ASSUME NEW seq \in Seq(Record), NEW s \in Record,
         NEW a \in Int, NEW b \in Int, a >= 1, b <= Len(seq)
  PROVE  Span(Append(seq, s), a, b) = Span(seq, a, b)
<1>1. Append(seq, s) \in Seq(Record) /\ b <= Len(Append(seq, s))
  OBVIOUS
<1>2. \A k \in a..b : Periods(Append(seq, s))[k] = Periods(seq)[k]
  BY DEF Periods
<1>3. Total(Periods(Append(seq, s)), a..b) = Total(Periods(seq), a..b)
  BY <1>2, TotalLocal
<1>4. Span(Append(seq, s), a, b) = Total(Periods(Append(seq, s)), a..b)
  BY <1>1, SpanIsTotal
<1>5. Span(seq, a, b) = Total(Periods(seq), a..b)
  BY SpanIsTotal
<1>6. QED
  BY <1>3, <1>4, <1>5
-----------------------------------------------------------------------------
(***************************************************************************)
(* The health monitor.                                                     *)
(***************************************************************************)
(* The last member of a set of samples. *)
LEMMA LastOfFacts ==
  ASSUME NEW n \in Nat, NEW S, S \subseteq 1..n
  PROVE  /\ LastOf(S, 0) \in 0..n
         /\ n \in S => LastOf(S, 0) = n
<1>1. CASE S = {}
  BY <1>1 DEF LastOf
<1>2. CASE S # {}
  <2>1. S \subseteq 0..n /\ S \subseteq Int
    OBVIOUS
  <2>2. Max(S) \in S
    BY <1>2, <2>1, MaxOfBounded
  <2>3. n \in S => Max(S) = n
    <3>1. \A y \in S : y <= n
      OBVIOUS
    <3>2. QED
      BY <2>1, <3>1, MaxIs
  <2>4. LastOf(S, 0) = Max(S)
    BY <1>2 DEF LastOf
  <2>5. Max(S) \in 0..n
    BY <2>1, <2>2
  <2>6. QED
    BY <2>3, <2>4, <2>5
<1>3. QED
  BY <1>1, <1>2

(* The time, at the n-th sample, since the last of the changes C. *)
Quiet(seq, C, n) == Span(seq, LastOf({k \in 2..n : k \in C}, 0) + 1, n)

LEMMA QuietKept ==
  ASSUME NEW seq \in Seq(Record), NEW s \in Record, NEW C, NEW D,
         \A k \in 2..Len(seq) : k \in D <=> k \in C, NEW n \in 0..Len(seq)
  PROVE  Quiet(Append(seq, s), D, n) = Quiet(seq, C, n) /\ Quiet(seq, C, n) \in Nat
<1> DEFINE Past(E) == {j \in 2..n : j \in E}
           a == LastOf(Past(C), 0) + 1
<1>1. Len(seq) \in Nat /\ n \in Nat /\ n \in Int /\ n <= Len(seq)
  OBVIOUS
<1>2. Past(D) = Past(C) /\ Past(C) \subseteq 1..n
  BY <1>1
<1>3. LastOf(Past(C), 0) \in 0..n
  <2> HIDE DEF Past
  <2> QED BY <1>1, <1>2, LastOfFacts
<1>4. a \in Int /\ a >= 1
  BY <1>1, <1>3
<1>5. /\ Quiet(Append(seq, s), D, n) = Span(Append(seq, s), a, n)
      /\ Quiet(seq, C, n) = Span(seq, a, n)
  BY <1>2 DEF Quiet
<1> HIDE DEF a
<1>6. Span(Append(seq, s), a, n) = Span(seq, a, n) /\ Span(seq, a, n) \in Nat
  BY <1>1, <1>4, SpanKept, SpanIsTotal
<1>7. QED
  BY <1>5, <1>6

(* How one more sample changes it. *)
LEMMA QuietNext ==
  ASSUME NEW seq \in Seq(Record), NEW s \in Record, NEW C, NEW D,
         \A k \in 2..Len(seq) : k \in D <=> k \in C
  PROVE  /\ Quiet(Append(seq, s), D, Len(seq) + 1) =
              IF Len(seq) > 0 /\ Len(seq) + 1 \in D THEN 0
              ELSE Quiet(seq, C, Len(seq)) + s.dt
         /\ Quiet(seq, C, Len(seq)) \in Nat
<1> DEFINE n == Len(seq)
           new == Append(seq, s)
           Past(E, k) == {j \in 2..k : j \in E}
<1>1. /\ new \in Seq(Record) /\ n \in Nat /\ Len(new) = n + 1
      /\ new[n + 1] = s /\ s.dt \in Nat
  BY Appended DEF Record
<1>2. n \in 0..n
  BY <1>1
<1>3. LastOf(Past(C, n), 0) \in 0..n
  <2>1. Past(C, n) \subseteq 1..n
    BY <1>1
  <2> HIDE DEF Past, n
  <2>2. QED
    BY <1>1, <2>1, LastOfFacts
<1>4. Quiet(seq, C, n) \in Nat
  <2> HIDE DEF n
  <2> QED BY <1>2, QuietKept DEF n
<1>5. CASE n > 0 /\ n + 1 \in D
  <2>1. Past(D, n + 1) \subseteq 1..n + 1 /\ n + 1 \in Past(D, n + 1) /\ n + 1 \in Nat
    BY <1>1, <1>5
  <2>2. LastOf(Past(D, n + 1), 0) = n + 1
    <3> HIDE DEF Past, n
    <3> QED BY <2>1, LastOfFacts
  <2>3. Quiet(new, D, n + 1) = Span(new, n + 2, n + 1)
    BY <1>1, <2>2 DEF Quiet
  <2>4. n + 2 \in Int /\ n + 1 \in Int /\ n + 2 >= 1 /\ n + 1 <= Len(new) /\ n + 2 > n + 1
    BY <1>1
  <2>5. Span(new, n + 2, n + 1) = 0
    <3> HIDE DEF new, n
    <3> QED BY <1>1, <2>4, SpanEmpty
  <2>6. QED
    <3> HIDE DEF new, n
    <3> QED BY <1>4, <1>5, <2>3, <2>5 DEF new, n
<1>6. CASE ~(n > 0 /\ n + 1 \in D)
  <2> DEFINE a == LastOf(Past(C, n), 0) + 1
  <2>1. Past(D, n + 1) = Past(C, n)
    BY <1>1, <1>6
  <2>3. LastOf(Past(C, n), 0) \in 0..n
    BY <1>3
  <2>4. a \in Int /\ n + 1 \in Int /\ a >= 1 /\ a <= n + 1 /\ n + 1 <= Len(new)
    BY <1>1, <2>3
  <2>5. Quiet(new, D, n + 1) = Span(new, a, n + 1)
    BY <2>1 DEF Quiet
  <2>6. Span(new, a, n + 1) = Span(new, a, n + 1 - 1) + new[n + 1].dt
    <3> HIDE DEF a, new, n
    <3> QED BY <1>1, <2>4, SpanNext
  <2>7. n + 1 - 1 = n
    BY <1>1
  <2>8. Span(new, a, n) = Span(seq, a, n)
    <3>1. n \in Int /\ n <= Len(seq)
      BY <1>1
    <3> HIDE DEF a, n
    <3>2. QED
      BY <2>4, <3>1, SpanKept
  <2>9. Quiet(seq, C, n) = Span(seq, a, n)
    BY DEF Quiet
  <2>10. Quiet(new, D, n + 1) = Quiet(seq, C, n) + s.dt
    <3> HIDE DEF a, new, n
    <3> QED BY <1>1, <2>5, <2>6, <2>7, <2>8, <2>9
  <2>11. QED
    <3> HIDE DEF new, n
    <3> QED BY <1>4, <1>6, <2>10 DEF new, n
<1>7. QED
  BY <1>5, <1>6

(* What one sample leaves in the instance. *)
Watched(x, b, r, y, u, dt) ==
  /\ b \in HealthInstance
  /\ b.cfg = x.cfg /\ b.status = x.status /\ b.is_initialised = x.is_initialised
  /\ b.e_prev = r - y /\ b.y_prev = y /\ b.u_prev = u /\ b.prev_valid
  /\ b.t_saturated = IF x.prev_valid /\ u # x.u_prev THEN 0 ELSE x.t_saturated + dt
  /\ b.t_dropout = IF x.prev_valid /\ Abs(y - x.y_prev) >= x.cfg.dead_band
                   THEN 0 ELSE x.t_dropout + dt
  /\ b.t_since_step = IF x.prev_valid /\ r # x.e_prev + x.y_prev
                      THEN 0 ELSE x.t_since_step + dt
  /\ b.osc_idx = (x.osc_idx + 1) % OscWindow
  /\ b.osc_window = [x.osc_window EXCEPT ![x.osc_idx] = IF r - y >= 0 THEN 1 ELSE -1]

LEMMA SlotOf ==
  ASSUME NEW a \in Int
  PROVE  a % OscWindow \in 0..OscWindow - 1
  BY HealthAssumption

LEMMA ObservedHealth ==
  ASSUME NEW x \in HealthInstance, NEW r \in Int, NEW y \in Int, NEW u \in Int, NEW dt \in Nat
  PROVE  Watched(x, Observed(x, r, y, u, dt).health, r, y, u, dt)
<1> DEFINE b == Observed(x, r, y, u, dt).health
           sign == IF r - y >= 0 THEN 1 ELSE -1
           window == [x.osc_window EXCEPT ![x.osc_idx] = sign]
           idx == (x.osc_idx + 1) % OscWindow
           saturated == IF x.prev_valid /\ u # x.u_prev THEN 0 ELSE x.t_saturated + dt
           dropout == IF x.prev_valid /\ Abs(y - x.y_prev) >= x.cfg.dead_band
                      THEN 0 ELSE x.t_dropout + dt
           since == IF x.prev_valid /\ r # x.e_prev + x.y_prev
                    THEN 0 ELSE x.t_since_step + dt
           e == r - y
<1>1. /\ x.osc_idx \in 0..OscWindow - 1
      /\ x.osc_window \in [0..OscWindow - 1 -> {-1, 0, 1}]
      /\ x.t_saturated \in Nat /\ x.t_dropout \in Nat /\ x.t_since_step \in Nat
  BY DEF HealthInstance
<1>2. window \in [0..OscWindow - 1 -> {-1, 0, 1}]
  BY <1>1
<1>3. idx \in 0..OscWindow - 1
  <2>1. x.osc_idx + 1 \in Int
    BY <1>1, HealthAssumption
  <2>2. QED
    BY <2>1, SlotOf
<1>4. saturated \in Nat /\ dropout \in Nat /\ since \in Nat /\ e \in Int
  BY <1>1
<1>5. b = [x EXCEPT !.osc_window = window, !.osc_idx = idx, !.t_saturated = saturated,
                    !.t_dropout = dropout, !.t_since_step = since,
                    !.e_prev = e, !.y_prev = y, !.u_prev = u, !.prev_valid = TRUE]
  BY DEF Observed, PushSign, HealthInstance
<1> HIDE DEF b, window, idx, saturated, dropout, since, e
<1>6. b \in HealthInstance
  BY <1>2, <1>3, <1>4, <1>5 DEF HealthInstance
<1>7. /\ b.cfg = x.cfg /\ b.status = x.status /\ b.is_initialised = x.is_initialised
      /\ b.e_prev = e /\ b.y_prev = y /\ b.u_prev = u /\ b.prev_valid
      /\ b.t_saturated = saturated /\ b.t_dropout = dropout /\ b.t_since_step = since
      /\ b.osc_idx = idx /\ b.osc_window = window
  BY <1>5 DEF HealthInstance
<1>8. QED
  BY <1>6, <1>7 DEF Watched, b, window, idx, saturated, dropout, since, e

(* The product of an error and its growth is positive if it grows away     *)
(* from 0.                                                                 *)
LEMMA Grows ==
  ASSUME NEW e \in Int, NEW before \in Int, e # 0
  PROVE  e * (e - before) > 0 <=> IF e > 0 THEN before < e ELSE e < before
<1> DEFINE d == e - before
<1>1. e > 0 /\ d > 0 => e * d > 0
  BY PositiveProduct
<1>2. e > 0 /\ d < 0 => e * d < 0
  <2>1. ASSUME e > 0, d < 0 PROVE e * d < 0
    <3>1. e * (-d) > 0 /\ -d \in Int
      BY <2>1, PositiveProduct
    <3>2. e * (-d) = -(e * d)
      OBVIOUS
    <3>3. QED
      BY <3>1, <3>2
  <2>2. QED
    BY <2>1
<1>3. e < 0 /\ d < 0 => e * d > 0
  <2>1. ASSUME e < 0, d < 0 PROVE e * d > 0
    <3>1. (-e) * (-d) > 0
      BY <2>1, PositiveProduct
    <3>2. (-e) * (-d) = e * d
      OBVIOUS
    <3>3. QED
      BY <3>1, <3>2
  <2>2. QED
    BY <2>1
<1>4. e < 0 /\ d > 0 => e * d < 0
  <2>1. ASSUME e < 0, d > 0 PROVE e * d < 0
    <3>1. (-e) * d > 0
      BY <2>1, PositiveProduct
    <3>2. (-e) * d = -(e * d)
      OBVIOUS
    <3>3. QED
      BY <3>1, <3>2
  <2>2. QED
    BY <2>1
<1>5. d = 0 => e * d = 0
  OBVIOUS
<1>6. d \in Int
  OBVIOUS
<1> HIDE DEF d
<1>7. e * d > 0 <=> (e > 0 /\ d > 0) \/ (e < 0 /\ d < 0)
  BY <1>1, <1>2, <1>3, <1>4, <1>5, <1>6
<1>8. QED
  BY <1>7 DEF d

(* Where the output, the measurement and the setpoint change. *)
OutputMoves(seq) == {k \in 2..Len(seq) : seq[k].u # seq[k - 1].u}
SensorMoves(seq, band) == {k \in 2..Len(seq) : Abs(seq[k].y - seq[k - 1].y) >= band}
SetpointMoves(seq) == {k \in 2..Len(seq) : seq[k].r # seq[k - 1].r}

(* The sign of the error of the k-th sample, 0 if there is none. *)
SignAt(seq, k) ==
  IF k \in 1..Len(seq) THEN IF seq[k].r - seq[k].y >= 0 THEN 1 ELSE -1 ELSE 0

(***************************************************************************)
(* What the instance remembers of the samples it has seen: the inductive   *)
(* part of StatusIsHistory.  The slot osc_idx is the oldest of the ring.   *)
(***************************************************************************)
RingRemembers(x, seq) ==
  \A k \in 0..OscWindow - 1 :
    x.osc_window[(x.osc_idx + k) % OscWindow] = SignAt(seq, Len(seq) - OscWindow + 1 + k)

Remembers(x, seq) ==
  LET n == Len(seq)
  IN  /\ x.prev_valid <=> n > 0
      /\ n = 0 => x.e_prev = 0
      /\ n > 0 => /\ x.e_prev = seq[n].r - seq[n].y
                  /\ x.y_prev = seq[n].y /\ x.u_prev = seq[n].u
      /\ x.t_saturated = Quiet(seq, OutputMoves(seq), n)
      /\ x.t_dropout = Quiet(seq, SensorMoves(seq, x.cfg.dead_band), n)
      /\ x.t_since_step = Quiet(seq, SetpointMoves(seq), n)
      /\ RingRemembers(x, seq)

(* The index of a slot wraps at most once. *)
LEMMA Wraps ==
  ASSUME NEW a \in 0..OscWindow - 1, NEW k \in 0..OscWindow
  PROVE  (a + k) % OscWindow = IF a + k < OscWindow THEN a + k ELSE a + k - OscWindow
  BY HealthAssumption

(* A push moves every sign by one slot. *)
LEMMA RingNext ==
  ASSUME NEW x \in HealthInstance, NEW seq \in Seq(Record), RingRemembers(x, seq),
         NEW s \in Record, NEW b \in HealthInstance,
         b.osc_idx = (x.osc_idx + 1) % OscWindow,
         b.osc_window = [x.osc_window EXCEPT ![x.osc_idx] = IF s.r - s.y >= 0 THEN 1 ELSE -1]
  PROVE  RingRemembers(b, Append(seq, s))
<1> DEFINE n == Len(seq)
           new == Append(seq, s)
           W == OscWindow
           i == x.osc_idx
<1>1. /\ W \in Nat /\ W >= 4 /\ i \in 0..W - 1 /\ n \in Nat
      /\ x.osc_window \in [0..W - 1 -> {-1, 0, 1}]
      /\ new \in Seq(Record) /\ Len(new) = n + 1 /\ new[n + 1] = s
      /\ \A k \in 1..n : new[k] = seq[k]
  <2>1. W \in Nat /\ W >= 4
    BY HealthAssumption
  <2>2. i \in 0..W - 1 /\ x.osc_window \in [0..W - 1 -> {-1, 0, 1}]
    BY DEF HealthInstance
  <2>3. /\ new \in Seq(Record) /\ n \in Nat /\ Len(new) = n + 1 /\ new[n + 1] = s
        /\ \A k \in 1..n : new[k] = seq[k]
    BY Appended
  <2>4. QED
    BY <2>1, <2>2, <2>3
<1>2. SUFFICES ASSUME NEW k \in 0..W - 1
               PROVE  b.osc_window[(b.osc_idx + k) % W] = SignAt(new, n + 1 - W + 1 + k)
  BY <1>1 DEF RingRemembers
<1>3. b.osc_idx = IF i + 1 < W THEN i + 1 ELSE i + 1 - W
  <2>1. i \in 0..OscWindow - 1 /\ 1 \in 0..OscWindow
    BY <1>1
  <2>2. (i + 1) % OscWindow = IF i + 1 < OscWindow THEN i + 1 ELSE i + 1 - OscWindow
    <3> HIDE DEF i
    <3> QED BY <2>1, Wraps
  <2>3. QED
    BY <2>2
<1>4. (b.osc_idx + k) % W =
        IF i + 1 + k < W THEN i + 1 + k
        ELSE IF i + 1 + k < W + W THEN i + 1 + k - W ELSE i + 1 + k - W - W
  <2>1. b.osc_idx \in 0..W - 1 /\ k \in 0..W
    <3> HIDE DEF i, W
    <3>1. CASE i + 1 < W
      BY <1>1, <1>3, <3>1
    <3>2. CASE ~(i + 1 < W)
      <4>1. b.osc_idx = 0
        BY <1>1, <1>3, <3>2
      <4>2. QED
        BY <1>1, <4>1
    <3>3. QED
      BY <3>1, <3>2
  <2> DEFINE j == b.osc_idx
  <2>2. (j + k) % W = IF j + k < W THEN j + k ELSE j + k - W
    <3> HIDE DEF i, j
    <3> QED BY <2>1, Wraps DEF j
  <2>3. j = IF i + 1 < W THEN i + 1 ELSE i + 1 - W
    BY <1>3
  <2>4. k \in 0..W - 1
    OBVIOUS
  <2>5. QED
    <3> HIDE DEF i, j, W
    <3>1. (j + k) % W =
            IF i + 1 + k < W THEN i + 1 + k
            ELSE IF i + 1 + k < W + W THEN i + 1 + k - W ELSE i + 1 + k - W - W
      BY <1>1, <2>2, <2>3, <2>4
    <3>2. QED
      BY <3>1 DEF j
<1>5. CASE k = W - 1
  <2>1. (b.osc_idx + k) % W = i
    <3> HIDE DEF W, i
    <3> QED BY <1>1, <1>4, <1>5
  <2>2. b.osc_window[i] = IF s.r - s.y >= 0 THEN 1 ELSE -1
    BY <1>1
  <2>3. n + 1 - W + 1 + k = n + 1
    BY <1>1, <1>5
  <2>4. SignAt(new, n + 1) = IF s.r - s.y >= 0 THEN 1 ELSE -1
    BY <1>1 DEF SignAt
  <2>5. QED
    BY <2>1, <2>2, <2>3, <2>4
<1>6. CASE k < W - 1
  <2> DEFINE j == n - W + 1 + (k + 1)
  <2>1. k + 1 \in 0..W - 1 /\ k + 1 \in 0..W
    BY <1>1, <1>6
  <2>2. (i + (k + 1)) % W = IF i + (k + 1) < W THEN i + (k + 1) ELSE i + (k + 1) - W
    <3> HIDE DEF W
    <3> QED BY <1>1, <2>1, Wraps DEF W
  <2>3. (b.osc_idx + k) % W = (i + (k + 1)) % W /\ (b.osc_idx + k) % W # i
        /\ (b.osc_idx + k) % W \in 0..W - 1
    <3> DEFINE slot == (b.osc_idx + k) % W
    <3>1. k \in 0..W - 1
      OBVIOUS
    <3> HIDE DEF W, i, slot
    <3>2. slot = IF i + 1 + k < W THEN i + 1 + k
              ELSE IF i + 1 + k < W + W THEN i + 1 + k - W ELSE i + 1 + k - W - W
      BY <1>4 DEF slot
    <3>3. slot = (i + (k + 1)) % W /\ slot # i /\ slot \in 0..W - 1
      BY <1>1, <1>6, <2>2, <3>1, <3>2
    <3>4. QED
      BY <3>3 DEF slot
  <2>4. b.osc_window[(b.osc_idx + k) % W] = x.osc_window[(b.osc_idx + k) % W]
    <3> HIDE DEF W, i
    <3> QED BY <1>1, <2>3 DEF W, i
  <2>5. x.osc_window[(i + (k + 1)) % W] = SignAt(seq, j)
    BY <2>1 DEF RingRemembers
  <2>6. j = n + 1 - W + 1 + k /\ j \in Int /\ j < n + 1
    BY <1>1, <1>6
  <2>7. SignAt(new, j) = SignAt(seq, j)
    BY <1>1, <2>6 DEF SignAt
  <2>8. QED
    BY <2>3, <2>4, <2>5, <2>6, <2>7
<1>7. QED
  BY <1>1, <1>5, <1>6

(* The sign changes among the last samples, up to the n-th. *)
Flips(seq, n) ==
  {k \in (IF n > OscWindow THEN n - OscWindow + 1 ELSE 1)..n - 1 :
     (Err(seq, k) >= 0) # (Err(seq, k + 1) >= 0)}

(* The walk around the ring counts them. *)
LEMMA WalkCountsFlips ==
  ASSUME NEW x \in HealthInstance, NEW seq \in Seq(Record), RingRemembers(x, seq)
  PROVE  SignChanges(x) = Cardinality(Flips(seq, Len(seq)))
<1> DEFINE n == Len(seq)
           W == OscWindow
           slot(k) == x.osc_window[(x.osc_idx + k) % W]
           S == {k \in 0..W - 2 : slot(k) # 0 /\ slot(k) # slot(k + 1)}
           F == Flips(seq, n)
           f == [k \in S |-> n - W + 1 + k]
<1>1. W \in Nat /\ W >= 4 /\ n \in Nat
  BY HealthAssumption
<1>2. \A k \in 0..W - 1 : slot(k) = SignAt(seq, n - W + 1 + k)
  BY DEF RingRemembers
<1>3. ASSUME NEW k \in 0..W - 2
      PROVE  k \in S <=> n - W + 1 + k \in F
  <2> DEFINE j == n - W + 1 + k
  <2>1. j \in Int /\ j + 1 <= n /\ n - W + 1 + (k + 1) = j + 1 /\ k \in 0..W - 1 /\ k + 1 \in 0..W - 1
    BY <1>1
  <2>2. slot(k) = SignAt(seq, j) /\ slot(k + 1) = SignAt(seq, j + 1)
    BY <1>2, <2>1
  <2>3. k \in S <=> SignAt(seq, j) # 0 /\ SignAt(seq, j) # SignAt(seq, j + 1)
    BY <2>2
  <2>4. CASE j < 1
    <3>1. SignAt(seq, j) = 0
      BY <2>1, <2>4 DEF SignAt
    <3>2. j \notin F
      BY <1>1, <2>1, <2>4 DEF Flips
    <3>3. QED
      BY <2>3, <3>1, <3>2
  <2>5. CASE j >= 1
    <3>1. j \in 1..n /\ j + 1 \in 1..n
      BY <1>1, <2>1, <2>5
    <3>2. /\ SignAt(seq, j) = IF Err(seq, j) >= 0 THEN 1 ELSE -1
          /\ SignAt(seq, j + 1) = IF Err(seq, j + 1) >= 0 THEN 1 ELSE -1
      BY <3>1 DEF SignAt, Err
    <3>3. k \in S <=> (Err(seq, j) >= 0) # (Err(seq, j + 1) >= 0)
      BY <2>3, <3>2
    <3>4. j \in (IF n > W THEN n - W + 1 ELSE 1)..n - 1
      BY <1>1, <2>1, <2>5
    <3>5. QED
      BY <3>3, <3>4 DEF Flips
  <2>6. QED
    BY <2>1, <2>4, <2>5
<1>4. f \in Bijection(S, F)
  <2>1. f \in [S -> F]
    BY <1>3
  <2>2. \A k, j \in S : f[k] = f[j] => k = j
    BY <1>1
  <2>3. ASSUME NEW j \in F PROVE \E k \in S : f[k] = j
    <3> DEFINE k == j - n + W - 1
    <3>1. j \in Int /\ j <= n - 1 /\ j >= n - W + 1
      BY <1>1 DEF Flips
    <3>2. k \in 0..W - 2 /\ n - W + 1 + k = j
      BY <1>1, <3>1
    <3>3. k \in S
      <4> HIDE DEF k, S, F
      <4> QED BY <1>3, <3>2
    <3>4. QED
      BY <3>2, <3>3
  <2> HIDE DEF f, S, F
  <2>4. QED
    BY <2>1, <2>2, <2>3 DEF Bijection, Injection, Surjection, IsInjective
<1>5. IsFiniteSet(S)
  <2>1. IsFiniteSet(0..W - 2) /\ S \subseteq 0..W - 2
    BY <1>1, FS_Interval
  <2>2. QED
    BY <2>1, FS_Subset
<1>6. Cardinality(F) = Cardinality(S)
  <2> HIDE DEF f, S, F
  <2>1. ExistsBijection(S, F)
    BY <1>4 DEF ExistsBijection
  <2>2. QED
    BY <1>5, <2>1, FS_Bijection
<1>7. SignChanges(x) = Cardinality(S)
  BY DEF SignChanges
<1>8. QED
  BY <1>6, <1>7

(* The error is beyond the threshold and still grows. *)
Diverges(seq, c, n) ==
  /\ Abs(Err(seq, n)) > c.err_diverge_thresh
  /\ LET before == IF n = 1 THEN 0 ELSE Err(seq, n - 1)
     IN  IF Err(seq, n) > 0 THEN before < Err(seq, n) ELSE Err(seq, n) < before

LEMMA DivergesFor ==
  ASSUME NEW seq, NEW c, NEW n, NEW e \in Int, NEW before \in Int,
         Err(seq, n) = e, before = IF n = 1 THEN 0 ELSE Err(seq, n - 1)
  PROVE  Diverges(seq, c, n) <=>
           Abs(e) > c.err_diverge_thresh /\ IF e > 0 THEN before < e ELSE e < before
<1>1. (IF n = 1 THEN 0 ELSE Err(seq, n - 1)) = before
  OBVIOUS
<1>2. CASE e > 0
  BY <1>1, <1>2 DEF Diverges
<1>3. CASE ~(e > 0)
  BY <1>1, <1>3 DEF Diverges
<1>4. QED
  BY <1>2, <1>3

(* What ConditionMet says, for any history. *)
MetAt(seq, bit, c, n) ==
  \/ /\ bit = "OUTPUT_STUCK"
     /\ DurationReached(Quiet(seq, OutputMoves(seq), n), seq[n].dt, c.t_sat_max)
  \/ /\ bit = "SENSOR_DROPOUT"
     /\ DurationReached(Quiet(seq, SensorMoves(seq, c.dead_band), n), seq[n].dt, c.dropout_time)
  \/ /\ bit = "SP_UNREACHABLE"
     /\ Abs(Err(seq, n)) > c.ss_err_thresh
     /\ DurationReached(Quiet(seq, SetpointMoves(seq), n), seq[n].dt, c.settling_time)
  \/ bit = "DIVERGING" /\ Diverges(seq, c, n)
  \/ /\ bit = "OSCILLATING"
     /\ Cardinality(Flips(seq, n)) > c.osc_count_thresh

LEMMA ConditionIsMet ==
  ASSUME NEW c, NEW n \in 1..Len(hs), NEW bit \in Condition, hs \in Seq(Record)
  PROVE  ConditionMet(bit, c, n) <=> MetAt(hs, bit, c, n)
<1>1. /\ {k \in 2..n : hs[k].u # hs[k - 1].u} = {k \in 2..n : k \in OutputMoves(hs)}
      /\ {k \in 2..n : Abs(hs[k].y - hs[k - 1].y) >= c.dead_band}
           = {k \in 2..n : k \in SensorMoves(hs, c.dead_band)}
      /\ {k \in 2..n : hs[k].r # hs[k - 1].r} = {k \in 2..n : k \in SetpointMoves(hs)}
  BY DEF OutputMoves, SensorMoves, SetpointMoves
<1>2. CASE bit = "OUTPUT_STUCK"
  BY <1>1, <1>2 DEF ConditionMet, MetAt, Quiet, DurationReached
<1>3. CASE bit = "SENSOR_DROPOUT"
  BY <1>1, <1>3 DEF ConditionMet, MetAt, Quiet, DurationReached
<1>4. CASE bit = "SP_UNREACHABLE"
  BY <1>1, <1>4 DEF ConditionMet, MetAt, Quiet, DurationReached
<1>5. CASE bit = "DIVERGING"
  BY <1>5 DEF ConditionMet, MetAt, Diverges
<1>6. CASE bit = "OSCILLATING"
  BY <1>6 DEF ConditionMet, MetAt, Flips
<1>7. QED
  BY <1>2, <1>3, <1>4, <1>5, <1>6 DEF Condition

(* What was met stays met: earlier conditions do not depend on a new       *)
(* sample.                                                                 *)
LEMMA MetKept ==
  ASSUME NEW seq \in Seq(Record), NEW s \in Record, NEW c, NEW n \in 1..Len(seq), NEW bit
  PROVE  MetAt(Append(seq, s), bit, c, n) <=> MetAt(seq, bit, c, n)
<1> DEFINE new == Append(seq, s)
<1>1. /\ new \in Seq(Record) /\ Len(seq) \in Nat /\ Len(new) = Len(seq) + 1
      /\ \A k \in 1..Len(seq) : new[k] = seq[k]
  BY Appended
<1>2. /\ \A k \in 2..Len(seq) : k \in OutputMoves(new) <=> k \in OutputMoves(seq)
      /\ \A k \in 2..Len(seq) : k \in SensorMoves(new, c.dead_band) <=> k \in SensorMoves(seq, c.dead_band)
      /\ \A k \in 2..Len(seq) : k \in SetpointMoves(new) <=> k \in SetpointMoves(seq)
  BY <1>1 DEF OutputMoves, SensorMoves, SetpointMoves
<1>3. n \in 0..Len(seq) /\ new[n] = seq[n]
  BY <1>1
<1>4. /\ Quiet(new, OutputMoves(new), n) = Quiet(seq, OutputMoves(seq), n)
      /\ Quiet(new, SensorMoves(new, c.dead_band), n) = Quiet(seq, SensorMoves(seq, c.dead_band), n)
      /\ Quiet(new, SetpointMoves(new), n) = Quiet(seq, SetpointMoves(seq), n)
  <2>1. ASSUME NEW C, NEW D, \A k \in 2..Len(seq) : k \in D <=> k \in C
        PROVE  Quiet(new, D, n) = Quiet(seq, C, n)
    BY <1>3, <2>1, QuietKept
  <2> HIDE DEF new
  <2>2. QED
    BY <1>2, <2>1
<1>5. Err(new, n) = Err(seq, n) /\ (n # 1 => Err(new, n - 1) = Err(seq, n - 1))
  BY <1>1 DEF Err
<1>6. Flips(new, n) = Flips(seq, n)
  <2> DEFINE from == IF n > OscWindow THEN n - OscWindow + 1 ELSE 1
  <2>1. from \in Int /\ from >= 1
    BY HealthAssumption
  <2> HIDE DEF from
  <2>2. ASSUME NEW k \in from..n - 1
        PROVE  Err(new, k) = Err(seq, k) /\ Err(new, k + 1) = Err(seq, k + 1)
    <3>1. k \in 1..Len(seq) /\ k + 1 \in 1..Len(seq)
      BY <1>1, <2>1
    <3>2. QED
      BY <1>1, <3>1 DEF Err
  <2>3. {k \in from..n - 1 : (Err(new, k) >= 0) # (Err(new, k + 1) >= 0)}
          = {k \in from..n - 1 : (Err(seq, k) >= 0) # (Err(seq, k + 1) >= 0)}
    BY <2>2
  <2>4. QED
    BY <2>3 DEF Flips, from
<1> HIDE DEF new
<1>7. QED
  BY <1>3, <1>4, <1>5, <1>6 DEF MetAt, Diverges, new

(* What an instance remembers of one sample more. *)
LEMMA RemembersNext ==
  ASSUME NEW x \in HealthInstance, NEW seq \in Seq(Record), Remembers(x, seq),
         NEW s \in Record, s.u \in Int
  PROVE  Remembers(Observed(x, s.r, s.y, s.u, s.dt).health, Append(seq, s))
<1> DEFINE n == Len(seq)
           new == Append(seq, s)
           b == Observed(x, s.r, s.y, s.u, s.dt).health
           band == x.cfg.dead_band
<1>1. /\ new \in Seq(Record) /\ n \in Nat /\ Len(new) = n + 1 /\ new[n + 1] = s
      /\ \A k \in 1..n : new[k] = seq[k]
      /\ s.r \in Int /\ s.y \in Int /\ s.dt \in Nat
  BY Appended DEF Record
<1>2. /\ b \in HealthInstance /\ b.cfg = x.cfg
      /\ b.t_saturated = IF x.prev_valid /\ s.u # x.u_prev THEN 0 ELSE x.t_saturated + s.dt
      /\ b.t_dropout = IF x.prev_valid /\ Abs(s.y - x.y_prev) >= band
                       THEN 0 ELSE x.t_dropout + s.dt
      /\ b.t_since_step = IF x.prev_valid /\ s.r # x.e_prev + x.y_prev
                          THEN 0 ELSE x.t_since_step + s.dt
      /\ b.e_prev = s.r - s.y /\ b.y_prev = s.y /\ b.u_prev = s.u /\ b.prev_valid
      /\ b.osc_idx = (x.osc_idx + 1) % OscWindow
      /\ b.osc_window = [x.osc_window EXCEPT ![x.osc_idx] = IF s.r - s.y >= 0 THEN 1 ELSE -1]
  <2>1. Watched(x, b, s.r, s.y, s.u, s.dt)
    BY <1>1, ObservedHealth
  <2> HIDE DEF b
  <2>2. QED
    BY <2>1 DEF Watched
<1>3. /\ x.prev_valid <=> n > 0
      /\ n > 0 => /\ x.e_prev = seq[n].r - seq[n].y
                  /\ x.y_prev = seq[n].y /\ x.u_prev = seq[n].u
      /\ x.t_saturated = Quiet(seq, OutputMoves(seq), n)
      /\ x.t_dropout = Quiet(seq, SensorMoves(seq, band), n)
      /\ x.t_since_step = Quiet(seq, SetpointMoves(seq), n)
      /\ RingRemembers(x, seq)
  BY DEF Remembers
<1> HIDE DEF b
<1>4. /\ \A k \in 2..n : k \in OutputMoves(new) <=> k \in OutputMoves(seq)
      /\ \A k \in 2..n : k \in SensorMoves(new, band) <=> k \in SensorMoves(seq, band)
      /\ \A k \in 2..n : k \in SetpointMoves(new) <=> k \in SetpointMoves(seq)
  BY <1>1 DEF OutputMoves, SensorMoves, SetpointMoves
<1>5. n > 0 => /\ n + 1 \in OutputMoves(new) <=> s.u # x.u_prev
               /\ n + 1 \in SensorMoves(new, band) <=> Abs(s.y - x.y_prev) >= band
               /\ n + 1 \in SetpointMoves(new) <=> s.r # x.e_prev + x.y_prev
  <2> SUFFICES ASSUME n > 0
               PROVE  /\ n + 1 \in OutputMoves(new) <=> s.u # x.u_prev
                      /\ n + 1 \in SensorMoves(new, band) <=> Abs(s.y - x.y_prev) >= band
                      /\ n + 1 \in SetpointMoves(new) <=> s.r # x.e_prev + x.y_prev
    OBVIOUS
  <2>1. n \in 1..Len(seq) /\ n + 1 \in 2..Len(new) /\ n + 1 - 1 = n
    BY <1>1
  <2>2. new[n + 1] = s /\ new[n] = seq[n] /\ seq[n].r \in Int /\ seq[n].y \in Int
    BY <1>1, <2>1, SampleOf
  <2>3. seq[n].r = x.e_prev + x.y_prev
    BY <1>3, <2>2
  <2>4. n + 1 \in OutputMoves(new) <=> s.u # x.u_prev
    BY <1>3, <2>1, <2>2 DEF OutputMoves
  <2>5. n + 1 \in SensorMoves(new, band) <=> Abs(s.y - x.y_prev) >= band
    BY <1>3, <2>1, <2>2 DEF SensorMoves
  <2>6. n + 1 \in SetpointMoves(new) <=> s.r # x.e_prev + x.y_prev
    BY <2>1, <2>2, <2>3 DEF SetpointMoves
  <2>7. QED
    BY <2>4, <2>5, <2>6
<1> HIDE DEF new, n, band
<1>6. b.t_saturated = Quiet(new, OutputMoves(new), n + 1)
  <2>1. Quiet(new, OutputMoves(new), n + 1) =
          IF n > 0 /\ n + 1 \in OutputMoves(new) THEN 0 ELSE Quiet(seq, OutputMoves(seq), n) + s.dt
    BY <1>4, QuietNext DEF n, new
  <2>2. QED
    BY <1>2, <1>3, <1>5, <2>1
<1>7. b.t_dropout = Quiet(new, SensorMoves(new, band), n + 1)
  <2>1. Quiet(new, SensorMoves(new, band), n + 1) =
          IF n > 0 /\ n + 1 \in SensorMoves(new, band) THEN 0
          ELSE Quiet(seq, SensorMoves(seq, band), n) + s.dt
    BY <1>4, QuietNext DEF n, new
  <2>2. QED
    BY <1>2, <1>3, <1>5, <2>1
<1>8. b.t_since_step = Quiet(new, SetpointMoves(new), n + 1)
  <2>1. Quiet(new, SetpointMoves(new), n + 1) =
          IF n > 0 /\ n + 1 \in SetpointMoves(new) THEN 0
          ELSE Quiet(seq, SetpointMoves(seq), n) + s.dt
    BY <1>4, QuietNext DEF n, new
  <2>2. QED
    BY <1>2, <1>3, <1>5, <2>1
<1>9. RingRemembers(b, new)
  BY <1>2, <1>3, RingNext DEF new
<1>10. n + 1 > 0 /\ n + 1 # 0
  BY <1>1
<1>11. Remembers(b, new)
  BY <1>1, <1>2, <1>6, <1>7, <1>8, <1>9, <1>10 DEF Remembers, band
<1>12. QED
  BY <1>11 DEF b, new

(* The conditions found at a sample are those that are met there. *)
LEMMA ActiveIsMet ==
  ASSUME NEW x \in HealthInstance, ValidHealthConfig(x.cfg),
         NEW seq \in Seq(Record), Remembers(x, seq), NEW s \in Record, s.u \in Int
  PROVE  Observed(x, s.r, s.y, s.u, s.dt).active =
           {bit \in Condition : MetAt(Append(seq, s), bit, x.cfg, Len(seq) + 1)}
<1> DEFINE n == Len(seq)
           new == Append(seq, s)
           o == Observed(x, s.r, s.y, s.u, s.dt)
           b == o.health
           e == s.r - s.y
           c == x.cfg
<1>1. /\ new \in Seq(Record) /\ n \in Nat /\ Len(new) = n + 1 /\ new[n + 1] = s
      /\ \A k \in 1..n : new[k] = seq[k]
      /\ s.r \in Int /\ s.y \in Int /\ s.dt \in Nat /\ e \in Int
  BY Appended DEF Record
<1>2. Remembers(b, new) /\ b.cfg = c /\ b \in HealthInstance
  <2>1. Watched(x, b, s.r, s.y, s.u, s.dt)
    BY <1>1, ObservedHealth
  <2>2. Remembers(b, new)
    BY RemembersNext
  <2> HIDE DEF b, new
  <2>3. QED
    BY <2>1, <2>2 DEF Watched
<1>3. \A bit \in Condition : bit \in o.active <=>
        CASE bit = "OUTPUT_STUCK"   -> DurationReached(b.t_saturated, s.dt, c.t_sat_max)
          [] bit = "DIVERGING"      -> Abs(e) > c.err_diverge_thresh /\ e * (e - x.e_prev) > 0
          [] bit = "OSCILLATING"    -> SignChanges(b) > c.osc_count_thresh
          [] bit = "SENSOR_DROPOUT" -> DurationReached(b.t_dropout, s.dt, c.dropout_time)
          [] bit = "SP_UNREACHABLE" -> /\ Abs(e) > c.ss_err_thresh
                                       /\ DurationReached(b.t_since_step, s.dt, c.settling_time)
  BY DEF Observed
<1>4. o.active \subseteq Condition
  BY DEF Observed
<1> HIDE DEF o
<1>5. /\ b.t_saturated = Quiet(new, OutputMoves(new), n + 1)
      /\ b.t_dropout = Quiet(new, SensorMoves(new, c.dead_band), n + 1)
      /\ b.t_since_step = Quiet(new, SetpointMoves(new), n + 1)
      /\ RingRemembers(b, new)
  BY <1>1, <1>2 DEF Remembers
<1>6. SignChanges(b) = Cardinality(Flips(new, n + 1))
  BY <1>1, <1>2, <1>5, WalkCountsFlips
<1>7. Err(new, n + 1) = e
  BY <1>1 DEF Err
<1>8. x.e_prev = IF n + 1 = 1 THEN 0 ELSE Err(new, n + 1 - 1)
  <2>1. n = 0 => x.e_prev = 0
    BY DEF Remembers
  <2>2. n > 0 => x.e_prev = seq[n].r - seq[n].y
    BY DEF Remembers
  <2>3. n > 0 => Err(new, n + 1 - 1) = seq[n].r - seq[n].y
    BY <1>1 DEF Err
  <2>4. QED
    BY <1>1, <2>1, <2>2, <2>3
<1>9. x.e_prev \in Int /\ c.err_diverge_thresh \in Int /\ c.err_diverge_thresh >= 0
  BY FiniteIsInt DEF HealthInstance, ValidHealthConfig
<1>10. Abs(e) > c.err_diverge_thresh /\ e * (e - x.e_prev) > 0
       <=> /\ Abs(e) > c.err_diverge_thresh
           /\ IF e > 0 THEN x.e_prev < e ELSE e < x.e_prev
  <2>1. Abs(e) > c.err_diverge_thresh => e # 0
    BY <1>1, <1>9 DEF Abs
  <2> HIDE DEF e
  <2>2. e # 0 => (e * (e - x.e_prev) > 0 <=> IF e > 0 THEN x.e_prev < e ELSE e < x.e_prev)
    BY <1>1, <1>9, Grows
  <2>3. QED
    BY <2>1, <2>2
<1> HIDE DEF b, c, new, n, e
<1>11. ASSUME NEW bit \in Condition PROVE bit \in o.active <=> MetAt(new, bit, c, n + 1)
  <2>1. CASE bit = "OUTPUT_STUCK"
    BY <1>1, <1>3, <1>5, <2>1 DEF MetAt
  <2>2. CASE bit = "DIVERGING"
    <3>1. bit \in o.active <=> Abs(e) > c.err_diverge_thresh /\ e * (e - x.e_prev) > 0
      BY <1>3, <2>2
    <3>2. MetAt(new, bit, c, n + 1) <=> Diverges(new, c, n + 1)
      BY <2>2, Zenon DEF MetAt
    <3>3. Diverges(new, c, n + 1) <=> /\ Abs(e) > c.err_diverge_thresh
                                      /\ IF e > 0 THEN x.e_prev < e ELSE e < x.e_prev
      <4> DEFINE p == n + 1
      <4>1. Err(new, p) = e
        BY <1>7
      <4>11. x.e_prev = IF p = 1 THEN 0 ELSE Err(new, p - 1)
        BY <1>1, <1>8
      <4> HIDE DEF p
      <4>2. Diverges(new, c, p) <=> /\ Abs(e) > c.err_diverge_thresh
                                    /\ IF e > 0 THEN x.e_prev < e ELSE e < x.e_prev
        BY <1>1, <1>9, <4>1, <4>11, DivergesFor
      <4>3. QED
        BY <4>2 DEF p
    <3>4. QED
      BY <1>10, <3>1, <3>2, <3>3
  <2>3. CASE bit = "OSCILLATING"
    BY <1>1, <1>3, <1>6, <2>3 DEF MetAt
  <2>4. CASE bit = "SENSOR_DROPOUT"
    BY <1>1, <1>3, <1>5, <2>4 DEF MetAt
  <2>5. CASE bit = "SP_UNREACHABLE"
    BY <1>1, <1>3, <1>5, <1>7, <2>5 DEF MetAt
  <2>6. QED
    BY <2>1, <2>2, <2>3, <2>4, <2>5 DEF Condition
<1>12. QED
  BY <1>4, <1>11 DEF o, new, n, c

(* The status a history asks for. *)
StatusOf(seq, c) == {bit \in Condition : \E k \in 1..Len(seq) : MetAt(seq, bit, c, k)}

(***************************************************************************)
(* The inductive invariant of the health monitor: the status is that of    *)
(* the history, because the instance remembers enough of it.               *)
(***************************************************************************)
SoundHealth(x, seq) ==
  /\ x \in HealthInstance /\ seq \in Seq(Record)
  /\ x.is_initialised => ValidHealthConfig(x.cfg)
  /\ ~x.is_initialised => seq = <<>>
  /\ Remembers(x, seq)
  /\ x.status = StatusOf(seq, x.cfg)

(* A seeded instance has seen nothing. *)
LEMMA HealthSeed ==
  ASSUME NEW c \in HealthConfig, NEW init \in BOOLEAN, init => ValidHealthConfig(c)
  PROVE  SoundHealth(HealthSeeded(c, init), <<>>)
<1> DEFINE x == HealthSeeded(c, init)
<1>1. x \in HealthInstance /\ <<>> \in Seq(Record) /\ Len(<<>>) = 0
  BY HealthAssumption DEF HealthSeeded, HealthInstance
<1>2. x.status = StatusOf(<<>>, x.cfg)
  BY DEF HealthSeeded, StatusOf
<1>3. ASSUME NEW C PROVE Quiet(<<>>, C, 0) = 0
  <2>1. {k \in 2..0 : k \in C} = {}
    OBVIOUS
  <2>2. Quiet(<<>>, C, 0) = Span(<<>>, 1, 0)
    BY <2>1 DEF Quiet, LastOf
  <2>3. 1 \in Int /\ 0 \in Int /\ 0 <= Len(<<>>)
    OBVIOUS
  <2>4. ASSUME NEW seq \in Seq(Record), Len(seq) = 0
        PROVE  Span(seq, 1, 0) = 0
    <3>1. \A a \in Int, b \in Int : a >= 1 /\ b <= Len(seq) /\ a > b => Span(seq, a, b) = 0
      BY <2>4, SpanEmpty
    <3>2. QED
      BY <2>3, <2>4, <3>1
  <2>5. QED
    BY <1>1, <2>2, <2>4
<1>4. RingRemembers(x, <<>>)
  <2>1. ASSUME NEW k \in 0..OscWindow - 1
        PROVE  x.osc_window[(x.osc_idx + k) % OscWindow] = 0
    <3>1. x.osc_idx \in 0..OscWindow - 1 /\ k \in 0..OscWindow
      BY HealthAssumption DEF HealthSeeded
    <3>2. (x.osc_idx + k) % OscWindow \in 0..OscWindow - 1
      BY <3>1, HealthAssumption
    <3>3. QED
      BY <3>2 DEF HealthSeeded
  <2>2. ASSUME NEW k PROVE SignAt(<<>>, k) = 0
    BY DEF SignAt
  <2>3. QED
    BY <2>1, <2>2 DEF RingRemembers
<1>5. Remembers(x, <<>>)
  BY <1>1, <1>3, <1>4 DEF Remembers, HealthSeeded
<1>6. x.cfg = c /\ x.is_initialised = init
  BY DEF HealthSeeded
<1> HIDE DEF x
<1>7. SoundHealth(x, <<>>)
  BY <1>1, <1>2, <1>5, <1>6 DEF SoundHealth
<1>8. QED
  BY <1>7 DEF x

(* A sample takes a sound instance to a sound one, and the callback hears  *)
(* of the conditions that are new.                                         *)
LEMMA HealthStepSound ==
  ASSUME NEW x, NEW seq, SoundHealth(x, seq), x.is_initialised, NEW s \in Record, s.u \in Int
  PROVE  LET res == HealthStep(x, s.r, s.y, s.u, s.dt)
         IN  /\ SoundHealth(res.health, Append(seq, s))
             /\ res.health.cfg = x.cfg /\ x.status \subseteq res.health.status
             /\ res.fired = IF x.cfg.cb THEN res.health.status \ x.status ELSE {}
<1> DEFINE n == Len(seq)
           new == Append(seq, s)
           o == Observed(x, s.r, s.y, s.u, s.dt)
           b == o.health
           h_new == HealthStep(x, s.r, s.y, s.u, s.dt).health
<1>1. /\ x \in HealthInstance /\ seq \in Seq(Record) /\ ValidHealthConfig(x.cfg)
      /\ Remembers(x, seq) /\ x.status = StatusOf(seq, x.cfg)
  BY DEF SoundHealth
<1>2. /\ new \in Seq(Record) /\ n \in Nat /\ Len(new) = n + 1
      /\ s.r \in Int /\ s.y \in Int /\ s.dt \in Nat
  BY <1>1, Appended DEF Record
<1>3. /\ b \in HealthInstance /\ b.cfg = x.cfg /\ b.status = x.status
      /\ b.is_initialised = x.is_initialised
  <2>1. Watched(x, b, s.r, s.y, s.u, s.dt)
    BY <1>1, <1>2, ObservedHealth
  <2> HIDE DEF b
  <2>2. QED
    BY <2>1 DEF Watched
<1>4. o.active = {bit \in Condition : MetAt(new, bit, x.cfg, n + 1)}
  BY <1>1, ActiveIsMet
<1>5. Remembers(b, new)
  BY <1>1, RemembersNext
<1>6. /\ h_new = [b EXCEPT !.status = @ \union o.active]
      /\ HealthStep(x, s.r, s.y, s.u, s.dt).fired = IF x.cfg.cb THEN o.active \ x.status ELSE {}
  BY DEF HealthStep
<1> HIDE DEF h_new, o
<1>7. /\ h_new \in HealthInstance /\ h_new.status = x.status \union o.active
      /\ h_new.cfg = x.cfg /\ h_new.is_initialised
  BY <1>3, <1>4, <1>6 DEF HealthInstance
<1>8. Remembers(h_new, new)
  BY <1>3, <1>5, <1>6 DEF Remembers, RingRemembers, HealthInstance
<1>9. h_new.status = StatusOf(new, x.cfg)
  <2> HIDE DEF new, n
  <2>1. ASSUME NEW bit \in Condition
        PROVE  (\E k \in 1..n + 1 : MetAt(new, bit, x.cfg, k))
                 <=> (\E k \in 1..n : MetAt(seq, bit, x.cfg, k)) \/ MetAt(new, bit, x.cfg, n + 1)
    <3>1. \A k \in 1..n : MetAt(new, bit, x.cfg, k) <=> MetAt(seq, bit, x.cfg, k)
      BY <1>1, MetKept DEF new, n
    <3>2. 1..n + 1 = 1..n \union {n + 1}
      BY <1>2
    <3>3. QED
      BY <3>1, <3>2
  <2>2. StatusOf(new, x.cfg) = {bit \in Condition : \E k \in 1..n + 1 : MetAt(new, bit, x.cfg, k)}
    BY <1>2 DEF StatusOf
  <2>3. StatusOf(seq, x.cfg) = {bit \in Condition : \E k \in 1..n : MetAt(seq, bit, x.cfg, k)}
    BY DEF StatusOf, n
  <2>4. QED
    BY <1>1, <1>4, <1>7, <2>1, <2>2, <2>3
<1>10. SoundHealth(h_new, new)
  BY <1>1, <1>2, <1>7, <1>8, <1>9 DEF SoundHealth
<1>11. QED
  BY <1>6, <1>7, <1>10 DEF h_new

(* A sample the monitors accept. *)
LEMMA GoodRecord ==
  ASSUME NEW s \in Samples, GoodSample(s)
  PROVE  s \in Record /\ (IsFinite(s.u) => s.u \in Int)
<1>1. s \in [r: Float, y: Float, u: Float, dt: Float]
  BY MonitorsAssumption
<1>2. s.r \in Int /\ s.y \in Int /\ s.dt \in Int /\ s.dt > 0
  BY FiniteIsInt DEF GoodSample, GoodDt
<1>3. QED
  BY <1>1, <1>2, FiniteIsInt DEF Record

(* What a call does to the health monitor. *)
HealthCalled ==
  /\ SoundHealth(h', hs')
  /\ fired' = IF h.cfg.cb THEN h'.status \ h.status ELSE {}
  /\ h.status \subseteq h'.status \/ h' = HealthSeeded(h'.cfg, TRUE)

LEMMA HealthCalls == SoundHealth(h, hs) /\ MonitorsNext => HealthCalled
<1> SUFFICES ASSUME SoundHealth(h, hs), MonitorsNext PROVE HealthCalled
  OBVIOUS
<1>1. ASSUME NEW c \in HealthConfig, ValidHealthConfig(c), HealthCall(HealthSeeded(c, TRUE))
      PROVE  HealthCalled
  <2>1. h' = HealthSeeded(c, TRUE) /\ hs' = <<>> /\ fired' = {}
    BY <1>1 DEF HealthCall
  <2>2. h'.status = {} /\ h'.cfg = c
    BY <2>1 DEF HealthSeeded
  <2>3. SoundHealth(h', hs')
    BY <1>1, <2>1, HealthSeed
  <2>4. QED
    BY <2>1, <2>2, <2>3 DEF HealthCalled
<1>2. ASSUME UNCHANGED healthVars, fired' = {} PROVE HealthCalled
  BY <1>2 DEF HealthCalled, healthVars
<1>3. CASE InitHealth
  BY <1>1, <1>3, MonitorsAssumption DEF InitHealth
<1>4. CASE ClearHealth
  <2>1. h.cfg \in HealthConfig /\ ValidHealthConfig(h.cfg)
    BY <1>4 DEF ClearHealth, SoundHealth, HealthInstance
  <2>2. QED
    BY <1>1, <1>4, <2>1 DEF ClearHealth, HealthClear
<1>5. CASE InitMetrics \/ ResetMetrics \/ EnableMetrics
  BY <1>2, <1>5 DEF InitMetrics, ResetMetrics, EnableMetrics, MetricsCall
<1>6. CASE Sample
  <2>1. PICK s \in Samples :
          IF "health" \in attached THEN SampleHealth(s) ELSE fired' = {} /\ UNCHANGED healthVars
    BY <1>6 DEF Sample
  <2>2. CASE "health" \in attached /\ h.is_initialised /\ GoodSample(s) /\ IsFinite(s.u)
    <3> DEFINE res == HealthStep(h, s.r, s.y, s.u, s.dt)
    <3>1. h' = res.health /\ fired' = res.fired /\ hs' = Append(hs, s)
      BY <2>1, <2>2 DEF SampleHealth
    <3>2. s \in Record /\ s.u \in Int
      BY <2>2, GoodRecord
    <3>3. /\ SoundHealth(res.health, Append(hs, s))
          /\ res.health.cfg = h.cfg /\ h.status \subseteq res.health.status
          /\ res.fired = IF h.cfg.cb THEN res.health.status \ h.status ELSE {}
      BY <2>2, <3>2, HealthStepSound
    <3> HIDE DEF res
    <3>4. QED
      BY <3>1, <3>3 DEF HealthCalled
  <2>3. CASE ~("health" \in attached /\ h.is_initialised /\ GoodSample(s) /\ IsFinite(s.u))
    BY <1>2, <2>1, <2>3 DEF SampleHealth
  <2>4. QED
    BY <2>2, <2>3
<1>7. QED
  BY <1>3, <1>4, <1>5, <1>6 DEF MonitorsNext

LEMMA HealthInit == MonitorsInit => SoundHealth(h, hs)
<1>1. ZeroHealthConfig \in HealthConfig
  BY RonUtilAssumption DEF ZeroHealthConfig, HealthConfig, Float
<1>2. QED
  BY <1>1, HealthSeed DEF MonitorsInit, ZeroHealth

LEMMA HealthInvariance == MonitorsSpec => []SoundHealth(h, hs)
<1>1. SoundHealth(h, hs) /\ [MonitorsNext]_monitorsVars => SoundHealth(h, hs)'
  <2> SUFFICES ASSUME SoundHealth(h, hs), [MonitorsNext]_monitorsVars PROVE SoundHealth(h, hs)'
    OBVIOUS
  <2>1. CASE MonitorsNext
    BY <2>1, HealthCalls DEF HealthCalled
  <2>2. CASE UNCHANGED monitorsVars
    BY <2>2 DEF monitorsVars
  <2>3. QED
    BY <2>1, <2>2
<1>2. QED
  BY <1>1, HealthInit, PTL DEF MonitorsSpec

(* RON-FR-901: a bit of the status word is set exactly if its condition    *)
(* was met at a sample since the monitor was last zeroed, for every        *)
(* configuration, window size and sequence of samples.                     *)
THEOREM HealthStatus == MonitorsSpec => []StatusIsHistory
<1>1. SoundHealth(h, hs) => StatusIsHistory
  <2> SUFFICES ASSUME SoundHealth(h, hs) PROVE StatusIsHistory
    OBVIOUS
  <2>1. h \in HealthInstance /\ hs \in Seq(Record) /\ h.status = StatusOf(hs, h.cfg)
    BY DEF SoundHealth
  <2>2. \A bit \in Condition, n \in 1..Len(hs) :
          ConditionMet(bit, h.cfg, n) <=> MetAt(hs, bit, h.cfg, n)
    BY <2>1, ConditionIsMet
  <2>3. StatusOf(hs, h.cfg) = {bit \in Condition : \E n \in 1..Len(hs) : ConditionMet(bit, h.cfg, n)}
    BY <2>2 DEF StatusOf
  <2>4. QED
    BY <2>1, <2>3 DEF StatusIsHistory
<1>2. QED
  BY <1>1, HealthInvariance, PTL

(* RON-FR-904: a condition, once latched, stays until the monitor is       *)
(* cleared, and a registered callback hears of it in the call that latches *)
(* it and in no other.                                                     *)
THEOREM HealthLatch == MonitorsSpec => ConditionsLatch
<1>1. SoundHealth(h, hs) /\ [MonitorsNext]_monitorsVars =>
        [/\ fired' = IF h.cfg.cb THEN h'.status \ h.status ELSE {}
         /\ h.status \subseteq h'.status \/ h' = HealthSeeded(h'.cfg, TRUE)]_monitorsVars
  BY HealthCalls DEF HealthCalled
<1>2. QED
  BY <1>1, HealthInvariance, PTL DEF MonitorsSpec, ConditionsLatch
-----------------------------------------------------------------------------
(***************************************************************************)
(* The metrics.                                                            *)
(***************************************************************************)
(* Where they start again, of a history and a configuration. *)
IsStep(seq, c, k) == k = 1 \/ Abs(seq[k].r - seq[k - 1].r) >= c.step_thresh

IsWindow(c, k) == IF c.mode = "WINDOWED" THEN (k - 1) % c.window_steps = 0 ELSE k = 1

StepOf(seq, c, n) == LastOf({k \in 1..n : IsStep(seq, c, k)}, 0)
WindowOf(c, n) == LastOf({k \in 1..n : IsWindow(c, k)}, 0)
RestartOf(seq, c, n) == LastOf({k \in 1..n : IsStep(seq, c, k) \/ IsWindow(c, k)}, 0)

(* The last of a set that has one more candidate. *)
LEMMA LastOfNext ==
  ASSUME NEW n \in Nat, NEW S, S \subseteq 1..n, NEW T, T \subseteq 1..n + 1,
         \A k \in 1..n : k \in T <=> k \in S
  PROVE  LastOf(T, 0) = IF n + 1 \in T THEN n + 1 ELSE LastOf(S, 0)
<1>1. n + 1 \in Nat
  OBVIOUS
<1>2. CASE n + 1 \in T
  BY <1>1, <1>2, LastOfFacts
<1>3. CASE n + 1 \notin T
  <2>1. ASSUME NEW k \in T PROVE k \in 1..n
    BY <1>3
  <2>2. ASSUME NEW k \in S PROVE k \in T
    OBVIOUS
  <2>3. T = S
    BY <2>1, <2>2
  <2>4. QED
    BY <1>3, <2>3
<1>4. QED
  BY <1>2, <1>3

(* One more sample: the last step, window and restart. *)
LEMMA RestartNext ==
  ASSUME NEW seq \in Seq(Record), NEW s \in Record, NEW c
  PROVE  LET n == Len(seq)
             new == Append(seq, s)
         IN  /\ StepOf(new, c, n + 1) = IF IsStep(new, c, n + 1) THEN n + 1 ELSE StepOf(seq, c, n)
             /\ WindowOf(c, n + 1) = IF IsWindow(c, n + 1) THEN n + 1 ELSE WindowOf(c, n)
             /\ RestartOf(new, c, n + 1)
                  = IF IsStep(new, c, n + 1) \/ IsWindow(c, n + 1) THEN n + 1
                    ELSE RestartOf(seq, c, n)
<1> DEFINE n == Len(seq)
           new == Append(seq, s)
<1>1. n \in Nat /\ \A k \in 1..n : new[k] = seq[k]
  BY Appended
<1> HIDE DEF n, new
<1>2. ASSUME NEW k \in 1..n PROVE IsStep(new, c, k) <=> IsStep(seq, c, k)
  <2>1. k # 1 => k - 1 \in 1..n
    BY <1>1
  <2>2. QED
    BY <1>1, <2>1 DEF IsStep
<1> DEFINE S1 == {k \in 1..n : IsStep(seq, c, k)}
           T1 == {k \in 1..n + 1 : IsStep(new, c, k)}
           S2 == {k \in 1..n : IsWindow(c, k)}
           T2 == {k \in 1..n + 1 : IsWindow(c, k)}
           S3 == {k \in 1..n : IsStep(seq, c, k) \/ IsWindow(c, k)}
           T3 == {k \in 1..n + 1 : IsStep(new, c, k) \/ IsWindow(c, k)}
<1>3. n + 1 \in 1..n + 1 /\ \A k \in 1..n : k \in 1..n + 1
  BY <1>1
<1>4. /\ S1 \subseteq 1..n /\ T1 \subseteq 1..n + 1 /\ (\A k \in 1..n : k \in T1 <=> k \in S1)
      /\ n + 1 \in T1 <=> IsStep(new, c, n + 1)
  BY <1>2, <1>3
<1>5. /\ S2 \subseteq 1..n /\ T2 \subseteq 1..n + 1 /\ (\A k \in 1..n : k \in T2 <=> k \in S2)
      /\ n + 1 \in T2 <=> IsWindow(c, n + 1)
  BY <1>3
<1>6. /\ S3 \subseteq 1..n /\ T3 \subseteq 1..n + 1 /\ (\A k \in 1..n : k \in T3 <=> k \in S3)
      /\ n + 1 \in T3 <=> IsStep(new, c, n + 1) \/ IsWindow(c, n + 1)
  BY <1>2, <1>3
<1>7. /\ StepOf(new, c, n + 1) = LastOf(T1, 0) /\ StepOf(seq, c, n) = LastOf(S1, 0)
      /\ WindowOf(c, n + 1) = LastOf(T2, 0) /\ WindowOf(c, n) = LastOf(S2, 0)
      /\ RestartOf(new, c, n + 1) = LastOf(T3, 0) /\ RestartOf(seq, c, n) = LastOf(S3, 0)
  BY DEF StepOf, WindowOf, RestartOf
<1> HIDE DEF S1, T1, S2, T2, S3, T3
<1>8. LastOf(T1, 0) = IF n + 1 \in T1 THEN n + 1 ELSE LastOf(S1, 0)
  BY <1>1, <1>4, LastOfNext
<1>9. LastOf(T2, 0) = IF n + 1 \in T2 THEN n + 1 ELSE LastOf(S2, 0)
  BY <1>1, <1>5, LastOfNext
<1>10. LastOf(T3, 0) = IF n + 1 \in T3 THEN n + 1 ELSE LastOf(S3, 0)
  BY <1>1, <1>6, LastOfNext
<1>11. QED
  BY <1>4, <1>5, <1>6, <1>7, <1>8, <1>9, <1>10 DEF n, new

(* They are samples, the last restart is the later of the other two. *)
LEMMA RestartFacts ==
  ASSUME NEW seq, NEW c, NEW n \in Nat \ {0}, c.mode = "WINDOWED" => c.window_steps \in Nat \ {0}
  PROVE  /\ StepOf(seq, c, n) \in 1..n /\ WindowOf(c, n) \in 1..n /\ RestartOf(seq, c, n) \in 1..n
<1>1. ASSUME NEW S, S \subseteq 1..n, 1 \in S PROVE LastOf(S, 0) \in 1..n
  <2>1. S \subseteq 0..n /\ S # {}
    BY <1>1
  <2>2. Max(S) \in S
    BY <2>1, MaxOfBounded
  <2>3. QED
    BY <1>1, <2>1, <2>2 DEF LastOf
<1>2. IsStep(seq, c, 1) /\ 1 \in 1..n
  BY DEF IsStep
<1>3. IsWindow(c, 1)
  BY DEF IsWindow
<1>4. StepOf(seq, c, n) \in 1..n
  BY <1>1, <1>2 DEF StepOf
<1>5. WindowOf(c, n) \in 1..n
  BY <1>1, <1>2, <1>3 DEF WindowOf
<1>6. RestartOf(seq, c, n) \in 1..n
  BY <1>1, <1>2 DEF RestartOf
<1>7. QED
  BY <1>4, <1>5, <1>6

(* A number of samples that fills whole windows of b. *)
Whole(a, b) == a % b = 0

(* A window is over when its samples are. *)
LEMMA WindowWraps ==
  ASSUME NEW b \in Nat \ {0}, NEW a \in Nat, Whole(a, b), NEW i \in 1..b
  PROVE  Whole(a + i, b) <=> i = b
<1>1. PICK q \in Nat : a = b * q
  <2> DEFINE q == a \div b
  <2>1. a = b * q + (a % b) /\ q \in Nat
    OBVIOUS
  <2> HIDE DEF q
  <2>2. a = b * q
    BY <2>1 DEF Whole
  <2>3. QED
    BY <2>1, <2>2
<1> DEFINE z == (a + i) \div b
<1>2. a + i = b * z + ((a + i) % b) /\ z \in Nat /\ (a + i) % b \in 0..b - 1
  OBVIOUS
<1> HIDE DEF z
<1>3. ASSUME (a + i) % b = 0 PROVE i = b
  <2>1. i = b * (z - q)
    BY <1>1, <1>2, <1>3
  <2>2. z - q \in Int
    BY <1>2
  <2>3. CASE z - q <= 0
    <3>1. b * (z - q) <= 0
      BY <2>2, <2>3
    <3>2. QED
      BY <2>1, <3>1
  <2>4. CASE z - q >= 2
    <3>1. b * (z - q) >= b * 2
      BY <2>2, <2>4
    <3>2. QED
      BY <2>1, <3>1
  <2>5. CASE z - q = 1
    BY <2>1, <2>5
  <2>6. QED
    BY <2>2, <2>3, <2>4, <2>5
<1>4. ASSUME i = b PROVE (a + i) % b = 0
  <2>1. a + b = b * (q + 1)
    BY <1>1
  <2>2. b * (q + 1 - z) = (a + i) % b
    BY <1>1, <1>2, <1>4
  <2>3. q + 1 - z \in Int /\ 0 <= b * (q + 1 - z) /\ b * (q + 1 - z) < b
    BY <1>2, <2>2
  <2>4. CASE q + 1 - z >= 1
    BY <2>3, <2>4
  <2>5. CASE q + 1 - z <= -1
    BY <2>3, <2>5
  <2>6. CASE q + 1 - z = 0
    BY <2>2, <2>6
  <2>7. QED
    BY <2>3, <2>4, <2>5, <2>6
<1>5. QED
  BY <1>3, <1>4 DEF Whole
-----------------------------------------------------------------------------
(***************************************************************************)
(* The response to the setpoint step at sample p, as the samples from..n   *)
(* show it.                                                                *)
(***************************************************************************)
StepSize(seq, p) == seq[p].r - seq[p].y

Level(seq, p, k, num) ==
  10 * (seq[k].y - seq[p].y) * Sign(StepSize(seq, p)) >= num * Abs(StepSize(seq, p))

Low(seq, p, from, n) == {k \in from..n : Level(seq, p, k, 1)}

High(seq, p, from, n) ==
  {k \in from..n : Level(seq, p, k, 9) /\ \E j \in Low(seq, p, from, n) : j <= k}

Overshoot(seq, p, k) ==
  Quot(100 * (seq[k].y - seq[p].r) * Sign(StepSize(seq, p)), Abs(StepSize(seq, p)))

OutOfBand(seq, p, c, k) == 100 * Abs(Err(seq, k)) > Abs(StepSize(seq, p)) * c.band_pct

(* The samples outside the band, and the last of them before b. *)
Out(seq, p, c, from, n) == {k \in from..n : OutOfBand(seq, p, c, k)}

LastOut(seq, p, c, from, n, b) == LastOf({j \in Out(seq, p, c, from, n) : j < b}, from - 1)

InSettled(seq, p, c, from, n) ==
  {k \in from..n \ Out(seq, p, c, from, n) :
     2 * Span(seq, LastOut(seq, p, c, from, n, k) + 1, k) + seq[k].dt >= 2 * c.settle_confirm}

(* What the instance x remembers of it. *)
Rises(x, seq, p, from, n) ==
  /\ x.rise_10pct_crossed = (Low(seq, p, from, n) # {})
  /\ Low(seq, p, from, n) # {} =>
       x.t_rise_start + Span(seq, Min(Low(seq, p, from, n)) + 1, n) = x.t_elapsed
  /\ x.rise_time = IF High(seq, p, from, n) = {} THEN UNSET
                   ELSE Span(seq, Min(Low(seq, p, from, n)) + 1, Min(High(seq, p, from, n)))

Overshoots(x, seq, p, from, n) ==
  /\ x.peak_overshoot \in {Overshoot(seq, p, k) : k \in from..n} \union {0}
  /\ \A k \in from..n : Overshoot(seq, p, k) <= x.peak_overshoot

Settles(x, seq, p, from, n) ==
  /\ x.in_band_time = Span(seq, LastOut(seq, p, x.cfg, from, n, n + 1) + 1, n)
  /\ x.settling_time = IF InSettled(seq, p, x.cfg, from, n) = {} THEN UNSET
                       ELSE Span(seq, from, Min(InSettled(seq, p, x.cfg, from, n)))

Response(x, seq, p, from, n) ==
  /\ x.step_ref = seq[p].y /\ x.step_target = seq[p].r /\ x.step_size = StepSize(seq, p)
  /\ x.t_elapsed = Span(seq, from, n)
  /\ IF x.step_size # 0
     THEN /\ Rises(x, seq, p, from, n) /\ Overshoots(x, seq, p, from, n)
          /\ Settles(x, seq, p, from, n)
     ELSE x.rise_time = UNSET /\ x.settling_time = UNSET /\ x.peak_overshoot = 0

(* The sample before a dwell. *)
LEMMA LastOutIs ==
  ASSUME NEW seq, NEW p, NEW c, NEW from \in Nat \ {0}, NEW n \in Nat, NEW b
  PROVE  LastOut(seq, p, c, from, n, b) \in from - 1..n \union {from - 1}
<1> DEFINE S == {j \in Out(seq, p, c, from, n) : j < b}
<1>1. S \subseteq from..n
  BY DEF Out
<1>2. S # {} => Max(S) \in S
  <2>1. S \subseteq 0..n
    BY <1>1
  <2> HIDE DEF S
  <2>2. QED
    BY <2>1, MaxOfBounded
<1>3. LastOut(seq, p, c, from, n, b) = LastOf(S, from - 1)
  BY DEF LastOut
<1> HIDE DEF S
<1>4. CASE S = {}
  BY <1>3, <1>4 DEF LastOf
<1>5. CASE S # {}
  <2>1. LastOf(S, from - 1) = Max(S)
    BY <1>5 DEF LastOf
  <2>2. Max(S) \in from..n
    BY <1>1, <1>2, <1>5
  <2> DEFINE top == Max(S)
  <2>3. top \in from..n
    BY <2>2
  <2> HIDE DEF top
  <2>4. top \in from - 1..n
    BY <2>3
  <2>5. QED
    BY <1>3, <2>1, <2>4 DEF top
<1>6. QED
  BY <1>4, <1>5

(* A new sample does not change the response that came before it. *)
LEMMA ResponseKept ==
  ASSUME NEW x \in MetricsInstance, NEW seq \in Seq(Record), NEW s \in Record,
         NEW n, n = Len(seq), NEW p \in 1..n, NEW from \in 1..n, Response(x, seq, p, from, n)
  PROVE  Response(x, Append(seq, s), p, from, n)
<1> DEFINE new == Append(seq, s)
           c == x.cfg
<1>1. /\ n \in Nat /\ n \in Int /\ from \in Nat \ {0} /\ from \in Int /\ from >= 1
      /\ new \in Seq(Record) /\ \A k \in 1..n : new[k] = seq[k]
  BY Appended
<1>2. new[p] = seq[p] /\ \A k \in from..n : k \in 1..n /\ new[k] = seq[k]
  BY <1>1
<1>3. ASSUME NEW a \in Int, NEW b \in Int, a >= 1, b <= n PROVE Span(new, a, b) = Span(seq, a, b)
  BY <1>3, SpanKept
<1> HIDE DEF new
<1>4. StepSize(new, p) = StepSize(seq, p)
  BY <1>2 DEF StepSize
<1>5. /\ Low(new, p, from, n) = Low(seq, p, from, n)
      /\ High(new, p, from, n) = High(seq, p, from, n)
  <2>1. \A k \in from..n : Level(new, p, k, 1) <=> Level(seq, p, k, 1)
    BY <1>2, <1>4 DEF Level
  <2>2. \A k \in from..n : Level(new, p, k, 9) <=> Level(seq, p, k, 9)
    BY <1>2, <1>4 DEF Level
  <2>3. Low(new, p, from, n) = Low(seq, p, from, n)
    BY <2>1 DEF Low
  <2>4. QED
    BY <2>2, <2>3 DEF High
<1>6. Rises(x, seq, p, from, n) => Rises(x, new, p, from, n)
  <2> DEFINE L == Low(seq, p, from, n)
             H == High(seq, p, from, n)
  <2>1. L \subseteq Nat /\ L \subseteq from..n /\ H \subseteq Nat /\ H \subseteq from..n
        /\ (H # {} => L # {})
    BY <1>1 DEF Low, High
  <2>2. (L # {} => Min(L) \in from..n) /\ (H # {} => Min(H) \in from..n)
    <3> HIDE DEF L, H
    <3> QED BY <2>1, MinOfNumbers
  <2> HIDE DEF L, H
  <2>3. L # {} => Span(new, Min(L) + 1, n) = Span(seq, Min(L) + 1, n)
    BY <1>1, <1>3, <2>2
  <2>4. H # {} => Span(new, Min(L) + 1, Min(H)) = Span(seq, Min(L) + 1, Min(H))
    BY <1>1, <1>3, <2>1, <2>2
  <2>5. QED
    BY <1>5, <2>3, <2>4 DEF Rises, L, H
<1>7. Overshoots(x, seq, p, from, n) => Overshoots(x, new, p, from, n)
  <2>1. \A k \in from..n : Overshoot(new, p, k) = Overshoot(seq, p, k)
    BY <1>2, <1>4 DEF Overshoot
  <2>2. QED
    BY <2>1 DEF Overshoots
<1>8. Settles(x, seq, p, from, n) => Settles(x, new, p, from, n)
  <2>1. Out(new, p, c, from, n) = Out(seq, p, c, from, n)
    <3>1. \A k \in from..n : OutOfBand(new, p, c, k) <=> OutOfBand(seq, p, c, k)
      BY <1>2, <1>4 DEF OutOfBand, Err
    <3>2. QED
      BY <3>1 DEF Out
  <2>2. ASSUME NEW b PROVE LastOut(new, p, c, from, n, b) = LastOut(seq, p, c, from, n, b)
    BY <2>1 DEF LastOut
  <2>3. ASSUME NEW b, NEW k \in Int, k <= n
        PROVE  Span(new, LastOut(new, p, c, from, n, b) + 1, k)
                 = Span(seq, LastOut(seq, p, c, from, n, b) + 1, k)
    <3> DEFINE a == LastOut(seq, p, c, from, n, b)
    <3>1. a \in from - 1..n \union {from - 1}
      BY <1>1, LastOutIs
    <3>2. a + 1 \in Int /\ a + 1 >= 1
      <4> HIDE DEF a
      <4> QED BY <1>1, <3>1
    <3> HIDE DEF a
    <3>3. Span(new, a + 1, k) = Span(seq, a + 1, k)
      BY <1>3, <2>3, <3>2
    <3>4. QED
      BY <2>2, <3>3 DEF a
  <2>4. InSettled(new, p, c, from, n) = InSettled(seq, p, c, from, n)
    <3>1. ASSUME NEW k \in from..n
          PROVE  Span(new, LastOut(new, p, c, from, n, k) + 1, k)
                   = Span(seq, LastOut(seq, p, c, from, n, k) + 1, k)
      BY <1>1, <2>3
    <3>2. QED
      BY <1>2, <2>1, <3>1 DEF InSettled
  <2> DEFINE T == InSettled(seq, p, c, from, n)
  <2>5. T # {} => Min(T) \in from..n
    <3>1. T \subseteq Nat /\ T \subseteq from..n
      BY <1>1 DEF InSettled
    <3> HIDE DEF T
    <3>2. QED
      BY <3>1, MinOfNumbers
  <2> HIDE DEF T
  <2>6. T # {} => Span(new, from, Min(T)) = Span(seq, from, Min(T))
    BY <1>1, <1>3, <2>5
  <2>7. n \in Int /\ n <= n
    BY <1>1
  <2>8. QED
    BY <2>3, <2>4, <2>6, <2>7 DEF Settles, T
<1>9. Span(new, from, n) = Span(seq, from, n)
  BY <1>1, <1>3
<1>10. QED
  BY <1>2, <1>4, <1>6, <1>7, <1>8, <1>9 DEF Response, new

(* A response that starts with the next sample. *)
LEMMA ResponseFresh ==
  ASSUME NEW x \in MetricsInstance, NEW seq \in Seq(Record), NEW n \in Nat, n < Len(seq),
         NEW p \in 1..n + 1,
         x.step_ref = seq[p].y, x.step_target = seq[p].r, x.step_size = StepSize(seq, p),
         x.peak_overshoot = 0, x.rise_time = UNSET, x.settling_time = UNSET, x.t_elapsed = 0,
         x.in_band_time = 0, ~x.rise_10pct_crossed
  PROVE  Response(x, seq, p, n + 1, n)
<1>1. n + 1..n = {}
  OBVIOUS
<1>2. Span(seq, n + 1, n) = 0
  <2> DEFINE a == n + 1
  <2>1. a \in Int /\ n \in Int /\ a >= 1 /\ n <= Len(seq) /\ a > n
    OBVIOUS
  <2> HIDE DEF a
  <2>2. Span(seq, a, n) = 0
    BY <2>1, SpanEmpty
  <2>3. QED
    BY <2>2 DEF a
<1>3. /\ Low(seq, p, n + 1, n) = {} /\ High(seq, p, n + 1, n) = {}
      /\ Out(seq, p, x.cfg, n + 1, n) = {} /\ InSettled(seq, p, x.cfg, n + 1, n) = {}
  BY <1>1 DEF Low, High, Out, InSettled
<1>4. LastOut(seq, p, x.cfg, n + 1, n, n + 1) = n
  BY <1>3 DEF LastOut, LastOf
<1>5. x.rise_10pct_crossed = FALSE
  BY DEF MetricsInstance
<1>6. Rises(x, seq, p, n + 1, n)
  BY <1>3, <1>5 DEF Rises
<1>7. Overshoots(x, seq, p, n + 1, n)
  BY <1>1 DEF Overshoots
<1>8. Settles(x, seq, p, n + 1, n)
  BY <1>2, <1>3, <1>4 DEF Settles
<1>9. QED
  BY <1>2, <1>6, <1>7, <1>8 DEF Response
-----------------------------------------------------------------------------
(***************************************************************************)
(* What a sample makes of an instance q that has restarted where it must:  *)
(* the fields of x.                                                        *)
(***************************************************************************)
Crosses(q, y) == q.rise_10pct_crossed \/ FractionReached(q, y, q.step_ref, 1, 10)

RiseStart(q, y, now) ==
  IF Crosses(q, y) /\ ~q.rise_10pct_crossed THEN now ELSE q.t_rise_start

MeasuresRise(q, x, y) ==
  /\ x.rise_10pct_crossed = Crosses(q, y)
  /\ x.t_rise_start = RiseStart(q, y, x.t_elapsed)
  /\ x.rise_time = IF /\ Crosses(q, y) /\ q.rise_time = UNSET
                      /\ FractionReached(q, y, q.step_ref, 9, 10)
                   THEN x.t_elapsed - RiseStart(q, y, x.t_elapsed) ELSE q.rise_time

Percent(q, y) == Quot(100 * (y - q.step_target) * Sign(q.step_size), Abs(q.step_size))

MeasuresOvershoot(q, x, y) ==
  x.peak_overshoot = IF Percent(q, y) > q.peak_overshoot THEN Percent(q, y) ELSE q.peak_overshoot

InBand(q, e) == 100 * Abs(e) <= Abs(q.step_size) * q.cfg.band_pct

MeasuresSettling(q, x, e, dt) ==
  /\ x.in_band_time = IF InBand(q, e) THEN q.in_band_time + dt ELSE 0
  /\ x.settling_time = IF /\ InBand(q, e) /\ q.settling_time = UNSET
                          /\ 2 * (q.in_band_time + dt) + dt >= 2 * q.cfg.settle_confirm
                       THEN x.t_elapsed ELSE q.settling_time

Measured(q, x, r, y, dt) ==
  /\ x.cfg = q.cfg /\ x.enabled = q.enabled /\ x.is_initialised = q.is_initialised
  /\ x.step_ref = q.step_ref /\ x.step_target = q.step_target /\ x.step_size = q.step_size
  /\ x.prev_valid = q.prev_valid /\ x.r_prev = r
  /\ x.t_elapsed = q.t_elapsed + dt /\ x.window_counter = q.window_counter + 1
  /\ x.iae = q.iae + Abs(r - y) * dt
  /\ x.ise = q.ise + (r - y) * (r - y) * dt
  /\ x.itae = q.itae + x.t_elapsed * Abs(r - y) * dt
  /\ IF q.step_size # 0
     THEN MeasuresRise(q, x, y) /\ MeasuresOvershoot(q, x, y) /\ MeasuresSettling(q, x, r - y, dt)
     ELSE /\ x.rise_10pct_crossed = q.rise_10pct_crossed /\ x.t_rise_start = q.t_rise_start
          /\ x.rise_time = q.rise_time /\ x.peak_overshoot = q.peak_overshoot
          /\ x.in_band_time = q.in_band_time /\ x.settling_time = q.settling_time

(* A metrics instance, whatever its values. *)
MetricsFields ==
  {"cfg", "iae", "ise", "itae", "peak_overshoot", "rise_time", "settling_time",
   "step_ref", "step_target", "step_size", "t_elapsed", "t_rise_start", "in_band_time", "r_prev",
   "window_counter", "rise_10pct_crossed", "prev_valid", "enabled", "is_initialised"}

IsMetrics(x) == x = [f \in MetricsFields |-> x[f]]

(* MetricsStep does to each field what Measured says, and to no other. *)
LEMMA StepMeasures ==
  ASSUME NEW x, NEW r, NEW y, NEW dt,
         NEW q, q = TransientRestart(WindowRestart(x), r, y), q \in MetricsInstance
  PROVE  /\ IsMetrics(MetricsStep(x, r, y, dt))
         /\ Measured(q, MetricsStep(x, r, y, dt), r, y, dt)
<1> DEFINE q1 == [q EXCEPT !.r_prev = r, !.t_elapsed = @ + dt, !.window_counter = @ + 1]
           a  == Accumulate(q1, r - y, dt)
           b  == UpdateRise(a, y)
           c  == UpdateOvershoot(b, y)
           d  == UpdateSettling(c, r - y, dt)
           z  == MetricsStep(x, r, y, dt)
<1>1. z = IF a.step_size = 0 THEN a ELSE d
  BY DEF MetricsStep
<1>2. q = [f \in MetricsFields |-> q[f]]
  BY DEF MetricsInstance, MetricsFields
<1>3. /\ q1 = [f \in MetricsFields |-> q1[f]]
      /\ q1.r_prev = r /\ q1.t_elapsed = q.t_elapsed + dt
      /\ q1.window_counter = q.window_counter + 1
      /\ \A f \in MetricsFields \ {"r_prev", "t_elapsed", "window_counter"} : q1[f] = q[f]
  BY <1>2 DEF MetricsFields
<1> HIDE DEF q1
<1>4. /\ a = [f \in MetricsFields |-> a[f]]
      /\ a.iae = q1.iae + Abs(r - y) * dt /\ a.ise = q1.ise + (r - y) * (r - y) * dt
      /\ a.itae = q1.itae + q1.t_elapsed * Abs(r - y) * dt
      /\ \A f \in MetricsFields \ {"iae", "ise", "itae"} : a[f] = q1[f]
  BY <1>3 DEF Accumulate, MetricsFields
<1> HIDE DEF a
<1>5. /\ b = [f \in MetricsFields |-> b[f]]
      /\ MeasuresRise(a, b, y)
      /\ \A f \in MetricsFields \ {"rise_10pct_crossed", "t_rise_start", "rise_time"} : b[f] = a[f]
  BY <1>4 DEF UpdateRise, MeasuresRise, RiseStart, Crosses, MetricsFields
<1> HIDE DEF b
<1>6. /\ c = [f \in MetricsFields |-> c[f]]
      /\ MeasuresOvershoot(b, c, y)
      /\ \A f \in MetricsFields \ {"peak_overshoot"} : c[f] = b[f]
  BY <1>5 DEF UpdateOvershoot, MeasuresOvershoot, Percent, MetricsFields
<1> HIDE DEF c
<1>7. /\ d = [f \in MetricsFields |-> d[f]]
      /\ MeasuresSettling(c, d, r - y, dt)
      /\ \A f \in MetricsFields \ {"in_band_time", "settling_time"} : d[f] = c[f]
  <2>1. CASE InBand(c, r - y)
    BY <1>6, <2>1 DEF UpdateSettling, MeasuresSettling, InBand, MetricsFields
  <2>2. CASE ~InBand(c, r - y)
    BY <1>6, <2>2 DEF UpdateSettling, MeasuresSettling, InBand, MetricsFields
  <2>3. QED
    BY <2>1, <2>2
<1> HIDE DEF d, z
<1>8. IsMetrics(z)
  BY <1>1, <1>4, <1>7 DEF IsMetrics
<1>9. CASE q.step_size = 0
  <2>1. z = a
    BY <1>1, <1>3, <1>4, <1>9 DEF MetricsFields
  <2>2. QED
    BY <1>3, <1>4, <1>8, <1>9, <2>1 DEF Measured, MetricsFields, z
<1>10. CASE q.step_size # 0
  <2>1. z = d
    BY <1>1, <1>3, <1>4, <1>10 DEF MetricsFields
  <2>2. MeasuresRise(q, z, y)
    <3>1. /\ a.rise_10pct_crossed = q.rise_10pct_crossed /\ a.t_rise_start = q.t_rise_start
          /\ a.rise_time = q.rise_time /\ a.step_ref = q.step_ref /\ a.step_size = q.step_size
          /\ a.t_elapsed = q1.t_elapsed
      BY <1>3, <1>4 DEF MetricsFields
    <3>2. /\ z.rise_10pct_crossed = b.rise_10pct_crossed /\ z.t_rise_start = b.t_rise_start
          /\ z.rise_time = b.rise_time /\ z.t_elapsed = b.t_elapsed
      BY <1>6, <1>7, <2>1 DEF MetricsFields
    <3>3. MeasuresRise(a, b, y)
      BY <1>5
    <3>4. ASSUME NEW num, NEW den
          PROVE  FractionReached(a, y, a.step_ref, num, den)
                   <=> FractionReached(q, y, q.step_ref, num, den)
      BY <3>1 DEF FractionReached
    <3>5. Crosses(a, y) = Crosses(q, y)
      BY <3>1, <3>4 DEF Crosses
    <3>6. \A now : RiseStart(a, y, now) = RiseStart(q, y, now)
      BY <3>1, <3>5 DEF RiseStart
    <3>7. QED
      BY <3>1, <3>2, <3>3, <3>4, <3>5, <3>6 DEF MeasuresRise
  <2>3. MeasuresOvershoot(q, z, y)
    BY <1>3, <1>4, <1>5, <1>6, <1>7, <2>1 DEF MeasuresOvershoot, Percent, MetricsFields
  <2>4. MeasuresSettling(q, z, r - y, dt)
    <3>1. /\ c.in_band_time = q.in_band_time /\ c.settling_time = q.settling_time
          /\ c.cfg = q.cfg /\ c.step_size = q.step_size
      BY <1>3, <1>4, <1>5, <1>6 DEF MetricsFields
    <3>2. InBand(c, r - y) <=> InBand(q, r - y)
      BY <3>1 DEF InBand
    <3>3. MeasuresSettling(c, z, r - y, dt)
      BY <1>7, <2>1
    <3>4. QED
      BY <3>1, <3>2, <3>3 DEF MeasuresSettling
  <2>5. /\ z.cfg = q.cfg /\ z.enabled = q.enabled /\ z.is_initialised = q.is_initialised
        /\ z.step_ref = q.step_ref /\ z.step_target = q.step_target /\ z.step_size = q.step_size
        /\ z.prev_valid = q.prev_valid /\ z.r_prev = r
        /\ z.t_elapsed = q.t_elapsed + dt /\ z.window_counter = q.window_counter + 1
    BY <1>3, <1>4, <1>5, <1>6, <1>7, <2>1 DEF MetricsFields
  <2>6. /\ z.iae = q.iae + Abs(r - y) * dt
        /\ z.ise = q.ise + (r - y) * (r - y) * dt
        /\ z.itae = q.itae + z.t_elapsed * Abs(r - y) * dt
    BY <1>3, <1>4, <1>5, <1>6, <1>7, <2>1 DEF MetricsFields
  <2>7. QED
    BY <1>8, <1>10, <2>2, <2>3, <2>4, <2>5, <2>6 DEF Measured, z
<1>11. QED
  BY <1>9, <1>10 DEF z

(* A set of samples with one more, later one. *)
LEMMA MinKept ==
  ASSUME NEW from \in Nat, NEW n \in Nat, NEW S, S \subseteq from..n, S # {}
  PROVE  Min(S \union {n + 1}) = Min(S) /\ Min(S) \in from..n
<1> DEFINE i == Min(S)
           T == S \union {n + 1}
<1>1. S \subseteq Nat
  OBVIOUS
<1>2. i \in S /\ \A y \in S : i <= y
  BY <1>1, MinOfNumbers
<1> HIDE DEF i
<1>3. i \in from..n /\ i \in T /\ T \subseteq Int
  BY <1>1, <1>2
<1>4. \A y \in T : i <= y
  BY <1>2, <1>3
<1> HIDE DEF T
<1>5. Min(T) = i
  BY <1>3, <1>4, MinIs
<1>6. QED
  BY <1>3, <1>5 DEF i, T

(* A first member. *)
LEMMA MinFirst == ASSUME NEW n \in Nat PROVE Min({n + 1}) = n + 1
<1>1. {n + 1} \subseteq Int /\ n + 1 \in {n + 1} /\ \A y \in {n + 1} : n + 1 <= y
  OBVIOUS
<1>2. QED
  BY <1>1, MinIs

(* One more sample, of the rise. *)
LEMMA RisesNext ==
  ASSUME NEW seq \in Seq(Record), NEW n \in Nat, n + 1 <= Len(seq),
         NEW p, NEW from \in 1..n + 1, NEW q, NEW x,
         q.step_ref = seq[p].y, q.step_size = StepSize(seq, p),
         q.t_elapsed \in Nat, q.t_rise_start \in Nat, q.rise_time \in Nat \union {UNSET},
         x.t_elapsed = q.t_elapsed + seq[n + 1].dt, Rises(q, seq, p, from, n),
         q.t_elapsed = Span(seq, from, n),
         MeasuresRise(q, x, seq[n + 1].y)
  PROVE  Rises(x, seq, p, from, n + 1)
<1> DEFINE L == Low(seq, p, from, n)
           M == Low(seq, p, from, n + 1)
           H == High(seq, p, from, n)
           I == High(seq, p, from, n + 1)
           y == seq[n + 1].y
           dt == seq[n + 1].dt
<1>1. /\ from \in Nat /\ from \in Int /\ n + 1 \in Nat /\ n + 1 \in 1..Len(seq)
      /\ from..n + 1 = (from..n) \union {n + 1} /\ n + 1 \notin from..n
  OBVIOUS
<1>2. dt \in Nat
  BY <1>1, SampleOf
<1>3. ASSUME NEW num
      PROVE  FractionReached(q, y, q.step_ref, num, 10) <=> Level(seq, p, n + 1, num)
  BY DEF FractionReached, Level
<1>4. /\ M = IF Level(seq, p, n + 1, 1) THEN L \union {n + 1} ELSE L
      /\ L \subseteq from..n
  BY <1>1 DEF Low
<1>5. /\ I = IF Level(seq, p, n + 1, 9) /\ M # {} THEN H \union {n + 1} ELSE H
      /\ H \subseteq from..n
  <2>1. ASSUME NEW k \in from..n PROVE (\E j \in M : j <= k) <=> (\E j \in L : j <= k)
    <3>1. k \in Int /\ k <= n /\ n \in Int
      OBVIOUS
    <3>2. ~(n + 1 <= k)
      BY <3>1
    <3> HIDE DEF L, M
    <3>3. QED
      BY <1>4, <3>2
  <2>2. (\E j \in M : j <= n + 1) <=> M # {}
    BY <1>1, <1>4
  <2>3. M = Low(seq, p, from, n + 1) /\ L = Low(seq, p, from, n)
    OBVIOUS
  <2> HIDE DEF L, M
  <2>4. QED
    BY <1>1, <2>1, <2>2, <2>3 DEF High
<1>6. /\ q.rise_10pct_crossed = (L # {})
      /\ L # {} => q.t_rise_start + Span(seq, Min(L) + 1, n) = q.t_elapsed
      /\ q.rise_time = IF H = {} THEN UNSET ELSE Span(seq, Min(L) + 1, Min(H))
  BY DEF Rises
<1>7. H # {} => L # {}
  BY DEF High
<1> HIDE DEF L, M, H, I
<1>8. Crosses(q, y) = (M # {})
  BY <1>3, <1>4, <1>6 DEF Crosses
<1>9. ASSUME NEW i \in from..n
      PROVE  /\ Span(seq, i + 1, n + 1) = Span(seq, i + 1, n) + dt
             /\ Span(seq, i + 1, n) \in Nat
  <2> DEFINE last == n + 1
  <2>1. i + 1 \in Int /\ i + 1 >= 1 /\ last \in Int /\ i + 1 <= last /\ last <= Len(seq) /\ n = last - 1
    OBVIOUS
  <2> HIDE DEF last
  <2>2. Span(seq, i + 1, last) = Span(seq, i + 1, last - 1) + seq[last].dt
    BY <2>1, SpanNext
  <2>3. Span(seq, i + 1, n) \in Nat
    <3>1. n \in Int /\ n <= Len(seq)
      OBVIOUS
    <3>2. QED
      BY <2>1, <3>1, SpanIsTotal
  <2>4. QED
    BY <2>1, <2>2, <2>3 DEF last
<1>10. Span(seq, n + 2, n + 1) = 0
  <2>1. n + 2 \in Int /\ n + 1 \in Int /\ n + 2 >= 1 /\ n + 2 > n + 1
    OBVIOUS
  <2>2. QED
    BY <2>1, SpanEmpty
<1>11. /\ L # {} => Min(M) = Min(L) /\ Min(L) \in from..n
       /\ L = {} /\ M # {} => Min(M) = n + 1
  <2>1. from \in Nat /\ n \in Nat /\ L \subseteq from..n /\ (M = L \/ M = L \union {n + 1})
    BY <1>1, <1>4
  <2>2. ASSUME L # {} PROVE Min(M) = Min(L) /\ Min(L) \in from..n
    <3>1. Min(L \union {n + 1}) = Min(L) /\ Min(L) \in from..n
      BY <2>1, <2>2, MinKept
    <3>2. QED
      BY <2>1, <3>1
  <2>3. ASSUME L = {}, M # {} PROVE Min(M) = n + 1
    <3>1. M = {n + 1}
      BY <2>1, <2>3
    <3>2. QED
      BY <3>1, MinFirst
  <2>4. QED
    BY <2>2, <2>3
<1>12. /\ H # {} => Min(I) = Min(H) /\ Min(H) \in from..n
       /\ H = {} /\ I # {} => Min(I) = n + 1
  <2>1. from \in Nat /\ n \in Nat /\ H \subseteq from..n /\ (I = H \/ I = H \union {n + 1})
    BY <1>1, <1>5
  <2>2. ASSUME H # {} PROVE Min(I) = Min(H) /\ Min(H) \in from..n
    <3>1. Min(H \union {n + 1}) = Min(H) /\ Min(H) \in from..n
      BY <2>1, <2>2, MinKept
    <3>2. QED
      BY <2>1, <3>1
  <2>3. ASSUME H = {}, I # {} PROVE Min(I) = n + 1
    <3>1. I = {n + 1}
      BY <2>1, <2>3
    <3>2. QED
      BY <3>1, MinFirst
  <2>4. QED
    BY <2>2, <2>3
<1> DEFINE start == RiseStart(q, y, x.t_elapsed)
<1>13. M # {} => /\ start + Span(seq, Min(M) + 1, n + 1) = x.t_elapsed
                 /\ Span(seq, Min(M) + 1, n + 1) \in Nat /\ start \in Nat
  <2>1. CASE L # {}
    <3>1. start = q.t_rise_start
      BY <1>6, <2>1 DEF RiseStart
    <3>2. /\ Span(seq, Min(M) + 1, n + 1) = Span(seq, Min(L) + 1, n) + dt
          /\ Span(seq, Min(L) + 1, n) \in Nat
      <4>1. Min(M) = Min(L) /\ Min(L) \in from..n
        BY <1>11, <2>1
      <4> DEFINE i == Min(L)
      <4>2. i \in from..n
        BY <4>1
      <4> HIDE DEF i
      <4>3. Span(seq, i + 1, n + 1) = Span(seq, i + 1, n) + dt /\ Span(seq, i + 1, n) \in Nat
        BY <1>9, <4>2
      <4>4. QED
        BY <4>1, <4>3 DEF i
    <3>3. q.t_rise_start + Span(seq, Min(L) + 1, n) = q.t_elapsed
      BY <1>6, <2>1
    <3> HIDE DEF start
    <3>4. QED
      BY <1>2, <3>1, <3>2, <3>3
  <2>2. CASE L = {} /\ M # {}
    <3>1. start = x.t_elapsed
      BY <1>6, <1>8, <2>2 DEF RiseStart
    <3>2. Min(M) + 1 = n + 2
      BY <1>11, <2>2
    <3>3. Span(seq, Min(M) + 1, n + 1) = 0
      BY <1>10, <3>2
    <3>4. x.t_elapsed \in Nat
      BY <1>2
    <3> HIDE DEF start
    <3>5. QED
      BY <3>1, <3>3, <3>4
  <2>3. QED
    BY <1>4, <2>1, <2>2
<1>14. /\ x.rise_10pct_crossed = (M # {})
       /\ x.t_rise_start = start
       /\ x.rise_time = IF M # {} /\ q.rise_time = UNSET /\ Level(seq, p, n + 1, 9)
                        THEN x.t_elapsed - start ELSE q.rise_time
  BY <1>3, <1>8 DEF MeasuresRise
<1> HIDE DEF start
<1>15. x.rise_time = IF I = {} THEN UNSET ELSE Span(seq, Min(M) + 1, Min(I))
  <2>1. CASE H # {}
    <3>1. Min(I) = Min(H) /\ Min(M) = Min(L) /\ I # {}
      BY <1>5, <1>7, <1>11, <1>12, <2>1
    <3>2. q.rise_time # UNSET
      <4> DEFINE i == Min(L)
                 j == Min(H)
      <4>1. i \in from..n /\ j \in from..n
        BY <1>7, <1>11, <1>12, <2>1
      <4> HIDE DEF i, j
      <4>2. i + 1 \in Int /\ i + 1 >= 1 /\ j \in Int /\ j <= Len(seq)
        BY <4>1
      <4>3. Span(seq, i + 1, j) \in Nat
        BY <4>2, SpanIsTotal
      <4>4. q.rise_time = Span(seq, i + 1, j)
        BY <1>6, <2>1 DEF i, j
      <4>5. QED
        BY <4>3, <4>4 DEF UNSET
    <3>3. QED
      BY <1>6, <1>14, <2>1, <3>1, <3>2
  <2>2. CASE H = {} /\ I # {}
    <3>1. Level(seq, p, n + 1, 9) /\ M # {} /\ q.rise_time = UNSET /\ Min(I) = n + 1
      BY <1>5, <1>6, <1>12, <2>2
    <3>2. x.rise_time = x.t_elapsed - start
      BY <1>14, <3>1
    <3>3. x.t_elapsed - start = Span(seq, Min(M) + 1, n + 1)
      BY <1>13, <3>1
    <3>4. QED
      BY <2>2, <3>1, <3>2, <3>3
  <2>3. CASE I = {}
    <3>1. H = {} /\ ~(Level(seq, p, n + 1, 9) /\ M # {})
      BY <1>5, <2>3
    <3>2. QED
      BY <1>6, <1>14, <2>3, <3>1
  <2>4. QED
    BY <2>1, <2>2, <2>3
<1>16. M # {} => x.t_rise_start + Span(seq, Min(M) + 1, n + 1) = x.t_elapsed
  BY <1>13, <1>14
<1>17. QED
  BY <1>14, <1>15, <1>16 DEF Rises, M, I

(* One more sample, of the overshoot. *)
LEMMA OvershootsNext ==
  ASSUME NEW seq \in Seq(Record), NEW n \in Nat, n + 1 <= Len(seq),
         NEW p \in 1..Len(seq), NEW from \in 1..n + 1, NEW q, NEW x,
         q.step_target = seq[p].r, q.step_size = StepSize(seq, p), q.step_size # 0,
         q.peak_overshoot \in Nat, Overshoots(q, seq, p, from, n),
         MeasuresOvershoot(q, x, seq[n + 1].y)
  PROVE  Overshoots(x, seq, p, from, n + 1) /\ x.peak_overshoot \in Nat
<1> DEFINE o(k) == Overshoot(seq, p, k)
<1>1. /\ from..n + 1 = (from..n) \union {n + 1} /\ n + 1 \in 1..Len(seq)
      /\ \A k \in from..n : k \in 1..Len(seq)
  OBVIOUS
<1>2. ASSUME NEW k \in 1..Len(seq) PROVE o(k) \in Int
  <2>1. /\ seq[k].y \in Int /\ seq[p].r \in Int /\ seq[p].y \in Int
    BY SampleOf
  <2>2. StepSize(seq, p) \in Int /\ StepSize(seq, p) # 0
    BY <2>1 DEF StepSize
  <2> DEFINE a == 100 * (seq[k].y - seq[p].r) * Sign(StepSize(seq, p))
             b == Abs(StepSize(seq, p))
  <2>3. a \in Int /\ b \in Int /\ b > 0
    <3>1. Sign(StepSize(seq, p)) \in Int /\ 100 * (seq[k].y - seq[p].r) \in Int
      BY <2>1, <2>2 DEF Sign
    <3>2. a \in Int
      BY <3>1, ProductIsInt
    <3>3. b \in Int /\ b > 0
      BY <2>2 DEF Abs
    <3>4. QED
      BY <3>2, <3>3
  <2> HIDE DEF a, b
  <2>4. Quot(a, b) \in Int
    BY <2>3, QuotIsInt
  <2>5. QED
    BY <2>4 DEF Overshoot, a, b
<1>3. Percent(q, seq[n + 1].y) = o(n + 1)
  BY DEF Percent, Overshoot
<1>4. x.peak_overshoot = IF o(n + 1) > q.peak_overshoot THEN o(n + 1) ELSE q.peak_overshoot
  BY <1>3 DEF MeasuresOvershoot
<1>5. /\ q.peak_overshoot \in {o(k) : k \in from..n} \union {0}
      /\ \A k \in from..n : o(k) <= q.peak_overshoot
  BY DEF Overshoots
<1>6. o(n + 1) \in Int /\ \A k \in from..n : o(k) \in Int
  BY <1>1, <1>2
<1> HIDE DEF o
<1>7. /\ x.peak_overshoot \in {o(k) : k \in from..n + 1} \union {0}
      /\ \A k \in from..n + 1 : o(k) <= x.peak_overshoot
      /\ x.peak_overshoot \in Nat
  BY <1>1, <1>4, <1>5, <1>6
<1>8. QED
  BY <1>7 DEF Overshoots, o

(* One more sample, of the settling. *)
LEMMA SettlesNext ==
  ASSUME NEW seq \in Seq(Record), NEW n \in Nat, n + 1 <= Len(seq),
         NEW p \in 1..Len(seq), NEW from \in 1..n + 1, NEW q, NEW x,
         q.step_size = StepSize(seq, p), x.cfg = q.cfg, q.cfg.band_pct \in Int,
         q.t_elapsed = Span(seq, from, n), x.t_elapsed = q.t_elapsed + seq[n + 1].dt,
         Settles(q, seq, p, from, n),
         MeasuresSettling(q, x, Err(seq, n + 1), seq[n + 1].dt)
  PROVE  Settles(x, seq, p, from, n + 1)
<1> DEFINE c == q.cfg
           e == Err(seq, n + 1)
           dt == seq[n + 1].dt
           O == Out(seq, p, c, from, n)
           P == Out(seq, p, c, from, n + 1)
           S == InSettled(seq, p, c, from, n)
           T == InSettled(seq, p, c, from, n + 1)
           a == LastOut(seq, p, c, from, n, n + 1)
           confirmed == 2 * (q.in_band_time + dt) + dt >= 2 * c.settle_confirm
           in == InBand(q, e)
<1>1. /\ from \in Nat \ {0} /\ from \in Nat /\ from \in Int /\ from >= 1
      /\ n + 1 \in 1..Len(seq) /\ n + 1 \in Nat
      /\ from..n + 1 = (from..n) \union {n + 1} /\ n + 1 \notin from..n
      /\ n \in Int /\ n <= Len(seq)
  OBVIOUS
<1>2. dt \in Nat
  BY <1>1, SampleOf
<1>3. in <=> ~OutOfBand(seq, p, c, n + 1)
  <2>1. /\ seq[n + 1].r \in Int /\ seq[n + 1].y \in Int /\ seq[p].r \in Int /\ seq[p].y \in Int
    BY <1>1, SampleOf
  <2> DEFINE u == 100 * Abs(e)
             v == Abs(q.step_size) * c.band_pct
  <2>2. u \in Int
    BY <2>1 DEF Err, Abs
  <2>3. v \in Int
    <3>1. Abs(q.step_size) \in Int
      BY <2>1 DEF StepSize, Abs
    <3>2. QED
      BY <3>1, ProductIsInt
  <2>4. in <=> u <= v
    BY DEF InBand
  <2>5. OutOfBand(seq, p, c, n + 1) <=> u > v
    BY DEF OutOfBand
  <2> HIDE DEF u, v, in
  <2>6. QED
    BY <2>2, <2>3, <2>4, <2>5
<1>4. P = (IF in THEN O ELSE O \union {n + 1}) /\ O \subseteq from..n
  <2>1. P = IF OutOfBand(seq, p, c, n + 1) THEN O \union {n + 1} ELSE O
    BY <1>1 DEF Out
  <2>2. O \subseteq from..n
    BY DEF Out
  <2> HIDE DEF O, P, in
  <2>3. QED
    BY <1>3, <2>1, <2>2
<1>5. ASSUME NEW k \in from..n + 1
      PROVE  LastOut(seq, p, c, from, n + 1, k) = LastOut(seq, p, c, from, n, k)
  <2>1. ~(n + 1 < k)
    OBVIOUS
  <2>2. {j \in P : j < k} = {j \in O : j < k}
    <3> HIDE DEF O, P, in
    <3> QED BY <1>4, <2>1
  <2>3. QED
    BY <2>2 DEF LastOut
<1>6. a \in Int /\ a + 1 >= 1 /\ a <= n
  <2>1. a \in from - 1..n \union {from - 1}
    BY <1>1, LastOutIs
  <2> HIDE DEF a
  <2>2. QED
    BY <1>1, <2>1
<1>7. q.in_band_time = Span(seq, a + 1, n)
  BY DEF Settles
<1>8. Span(seq, a + 1, n + 1) = q.in_band_time + dt
  <2> DEFINE b == n + 1
             a1 == a + 1
  <2>1. a1 \in Int /\ a1 >= 1 /\ a1 <= b /\ b \in Int /\ b <= Len(seq) /\ b - 1 = n
    <3> HIDE DEF a
    <3> QED BY <1>1, <1>6
  <2> HIDE DEF a1, b, a
  <2>2. Span(seq, a1, b) = Span(seq, a1, b - 1) + seq[b].dt
    BY <2>1, SpanNext
  <2>3. QED
    BY <1>7, <2>1, <2>2 DEF a1, b
<1>9. Span(seq, n + 2, n + 1) = 0
  <2>1. n + 2 \in Int /\ n + 1 \in Int /\ n + 2 >= 1 /\ n + 2 > n + 1
    OBVIOUS
  <2>2. QED
    BY <2>1, SpanEmpty
<1>10. x.in_band_time = Span(seq, LastOut(seq, p, c, from, n + 1, n + 2) + 1, n + 1)
  <2>1. CASE in
    <3>1. {j \in P : j < n + 2} = {j \in O : j < n + 1}
      <4>1. P = O
        <5> HIDE DEF O, P, in
        <5> QED BY <1>4, <2>1
      <4>2. \A j \in O : j < n + 2 /\ j < n + 1
        <5> HIDE DEF O
        <5> QED BY <1>1, <1>4
      <4> HIDE DEF O, P
      <4>3. QED
        BY <4>1, <4>2
    <3>2. LastOut(seq, p, c, from, n + 1, n + 2) = a
      BY <3>1 DEF LastOut
    <3>3. x.in_band_time = q.in_band_time + dt
      BY <2>1 DEF MeasuresSettling
    <3> HIDE DEF a
    <3>4. QED
      BY <1>8, <3>2, <3>3
  <2>2. CASE ~in
    <3> DEFINE B == {j \in P : j < n + 2}
    <3>1. n + 1 \in B /\ B \subseteq Int /\ \A j \in B : j <= n + 1
      <4>1. P = O \union {n + 1}
        <5> HIDE DEF O, P, in
        <5> QED BY <1>4, <2>2
      <4>2. \A j \in O : j \in Int /\ j <= n + 1
        <5> HIDE DEF O
        <5> QED BY <1>1, <1>4
      <4> HIDE DEF O, P
      <4>3. \A j \in P : j \in Int /\ j <= n + 1
        BY <4>1, <4>2
      <4>4. n + 1 \in P /\ n + 1 < n + 2
        BY <4>1
      <4>5. QED
        BY <4>3, <4>4
    <3>2. LastOut(seq, p, c, from, n + 1, n + 2) = LastOf(B, from - 1)
      BY DEF LastOut
    <3> HIDE DEF B
    <3>3. LastOf(B, from - 1) = n + 1
      BY <1>1, <3>1, MaxIs DEF LastOf
    <3>4. x.in_band_time = 0
      BY <2>2 DEF MeasuresSettling
    <3>5. LastOut(seq, p, c, from, n + 1, n + 2) + 1 = n + 2
      BY <3>2, <3>3
    <3>6. QED
      BY <1>9, <3>4, <3>5
  <2>3. QED
    BY <2>1, <2>2
<1>11. T = (IF in /\ confirmed THEN S \union {n + 1} ELSE S) /\ S \subseteq from..n
  <2> DEFINE ok(k) ==
               2 * Span(seq, LastOut(seq, p, c, from, n, k) + 1, k) + seq[k].dt
                 >= 2 * c.settle_confirm
  <2>1. S = {k \in from..n \ O : ok(k)}
    BY DEF InSettled
  <2>2. T = {k \in from..n + 1 \ P : ok(k)}
    BY <1>5 DEF InSettled
  <2>3. ok(n + 1) <=> confirmed
    BY <1>8
  <2> HIDE DEF ok, O, P, confirmed, in, S, T
  <2>4. QED
    BY <1>1, <1>4, <2>1, <2>2, <2>3
<1>12. /\ q.settling_time = IF S = {} THEN UNSET ELSE Span(seq, from, Min(S))
       /\ x.settling_time = IF in /\ q.settling_time = UNSET /\ confirmed
                            THEN x.t_elapsed ELSE q.settling_time
  BY DEF Settles, MeasuresSettling
<1>13. x.t_elapsed = Span(seq, from, n + 1)
  <2> DEFINE b == n + 1
  <2>1. from <= b /\ b \in Int /\ b <= Len(seq) /\ b - 1 = n
    OBVIOUS
  <2> HIDE DEF b
  <2>2. Span(seq, from, b) = Span(seq, from, b - 1) + seq[b].dt
    BY <1>1, <2>1, SpanNext
  <2>3. QED
    BY <2>1, <2>2 DEF b
<1> HIDE DEF S, T, in, confirmed, a, O, P
<1>14. x.settling_time = IF T = {} THEN UNSET ELSE Span(seq, from, Min(T))
  <2>1. CASE S # {}
    <3>1. Min(S \union {n + 1}) = Min(S) /\ Min(S) \in from..n
      BY <1>1, <1>11, <2>1, MinKept
    <3>2. Min(T) = Min(S) /\ T # {}
      BY <1>11, <2>1, <3>1
    <3>3. q.settling_time # UNSET
      <4> DEFINE i == Min(S)
      <4>1. i \in Int /\ i <= Len(seq)
        BY <1>1, <3>1
      <4> HIDE DEF i
      <4>2. Span(seq, from, i) \in Nat
        BY <1>1, <4>1, SpanIsTotal
      <4>3. QED
        BY <1>12, <2>1, <4>2 DEF i, UNSET
    <3>4. QED
      BY <1>12, <2>1, <3>2, <3>3
  <2>2. CASE S = {} /\ in /\ confirmed
    <3>1. T = {n + 1}
      BY <1>11, <2>2
    <3>2. Min(T) = n + 1
      BY <3>1, MinFirst
    <3>3. QED
      BY <1>12, <1>13, <2>2, <3>1, <3>2
  <2>3. CASE S = {} /\ ~(in /\ confirmed)
    BY <1>11, <1>12, <2>3
  <2>4. QED
    BY <2>1, <2>2, <2>3
<1>15. (n + 1) + 1 = n + 2
  OBVIOUS
<1>16. QED
  BY <1>10, <1>14, <1>15 DEF Settles, T

(* One more sample, of the whole response. *)
LEMMA ResponseNext ==
  ASSUME NEW seq \in Seq(Record), NEW n \in Nat, n + 1 <= Len(seq),
         NEW p \in 1..Len(seq), NEW from \in 1..n + 1, NEW q \in MetricsInstance, NEW x,
         q.cfg.band_pct \in Int, Response(q, seq, p, from, n),
         Measured(q, x, seq[n + 1].r, seq[n + 1].y, seq[n + 1].dt)
  PROVE  /\ Response(x, seq, p, from, n + 1)
         /\ q.step_size # 0 => x.peak_overshoot \in Nat
<1>1. /\ q.t_elapsed \in Nat /\ q.t_rise_start \in Nat /\ q.rise_time \in Nat \union {UNSET}
      /\ q.peak_overshoot \in Nat
  BY DEF MetricsInstance
<1>2. /\ q.step_ref = seq[p].y /\ q.step_target = seq[p].r /\ q.step_size = StepSize(seq, p)
      /\ q.t_elapsed = Span(seq, from, n)
  BY DEF Response
<1>3. /\ x.step_ref = q.step_ref /\ x.step_target = q.step_target /\ x.step_size = q.step_size
      /\ x.t_elapsed = q.t_elapsed + seq[n + 1].dt /\ x.cfg = q.cfg
  BY DEF Measured
<1>4. x.t_elapsed = Span(seq, from, n + 1)
  <2> DEFINE b == n + 1
  <2>1. from \in Int /\ from >= 1 /\ from <= b /\ b \in Int /\ b <= Len(seq) /\ b - 1 = n
    OBVIOUS
  <2> HIDE DEF b
  <2>2. Span(seq, from, b) = Span(seq, from, b - 1) + seq[b].dt
    BY <2>1, SpanNext
  <2>3. QED
    BY <1>2, <1>3, <2>1, <2>2 DEF b
<1>5. CASE q.step_size = 0
  BY <1>2, <1>3, <1>4, <1>5 DEF Response, Measured
<1>6. CASE q.step_size # 0
  <2>1. Rises(q, seq, p, from, n) /\ Overshoots(q, seq, p, from, n) /\ Settles(q, seq, p, from, n)
    BY <1>6 DEF Response
  <2>2. /\ MeasuresRise(q, x, seq[n + 1].y) /\ MeasuresOvershoot(q, x, seq[n + 1].y)
        /\ MeasuresSettling(q, x, Err(seq, n + 1), seq[n + 1].dt)
    BY <1>6 DEF Measured, Err
  <2>3. Rises(x, seq, p, from, n + 1)
    BY <1>1, <1>2, <1>3, <2>1, <2>2, RisesNext
  <2>4. Overshoots(x, seq, p, from, n + 1) /\ x.peak_overshoot \in Nat
    BY <1>1, <1>2, <1>6, <2>1, <2>2, OvershootsNext
  <2>5. Settles(x, seq, p, from, n + 1)
    BY <1>2, <1>3, <2>1, <2>2, SettlesNext
  <2>6. QED
    BY <1>2, <1>3, <1>4, <1>6, <2>3, <2>4, <2>5 DEF Response
<1>7. QED
  BY <1>5, <1>6

(* A square is no negative number. *)
LEMMA SquareNat == ASSUME NEW e \in Int PROVE e * e \in Nat
<1>1. CASE e >= 0
  BY <1>1
<1>2. CASE e < 0
  BY <1>2
<1>3. QED
  BY <1>1, <1>2
-----------------------------------------------------------------------------
(***************************************************************************)
(* The error integrals, as sums over the samples of the window.            *)
(***************************************************************************)
AbsPart(seq) == [k \in 1..Len(seq) |-> Abs(Err(seq, k)) * seq[k].dt]

SquarePart(seq) == [k \in 1..Len(seq) |-> (Err(seq, k) * Err(seq, k)) * seq[k].dt]

TimePart(seq, c) ==
  [k \in 1..Len(seq) |-> (Abs(Err(seq, k)) * Span(seq, RestartOf(seq, c, k), k)) * seq[k].dt]

Integrals(x, seq, w, n) ==
  /\ x.iae = Total(AbsPart(seq), w..n)
  /\ x.ise = Total(SquarePart(seq), w..n)
  /\ x.itae = Total(TimePart(seq, x.cfg), w..n)

WindowOk(c) == c.mode = "WINDOWED" => c.window_steps \in Nat \ {0}

(* A sample's share of each is a number. *)
LEMMA PartFacts ==
  ASSUME NEW seq \in Seq(Record), NEW c, WindowOk(c), NEW k \in 1..Len(seq)
  PROVE  /\ AbsPart(seq)[k] \in Nat /\ SquarePart(seq)[k] \in Nat /\ TimePart(seq, c)[k] \in Nat
         /\ Err(seq, k) \in Int /\ Abs(Err(seq, k)) \in Nat
<1>1. seq[k].r \in Int /\ seq[k].y \in Int /\ seq[k].dt \in Nat
  BY SampleOf
<1>2. Err(seq, k) \in Int
  BY <1>1 DEF Err
<1> DEFINE e == Err(seq, k)
           a == Abs(e)
           dt == seq[k].dt
           span == Span(seq, RestartOf(seq, c, k), k)
<1>3. a \in Nat
  BY <1>2 DEF Abs
<1>4. e * e \in Nat
  BY <1>2, SquareNat
<1>5. span \in Nat
  <2>1. k \in Nat \ {0}
    OBVIOUS
  <2>2. RestartOf(seq, c, k) \in 1..k
    BY <2>1, RestartFacts DEF WindowOk
  <2> DEFINE from == RestartOf(seq, c, k)
  <2>3. from \in Int /\ from >= 1 /\ k \in Int /\ k <= Len(seq)
    BY <2>2
  <2> HIDE DEF from
  <2>4. Span(seq, from, k) \in Nat
    BY <2>3, SpanIsTotal
  <2>5. QED
    BY <2>4 DEF from
<1>6. AbsPart(seq)[k] = a * dt /\ SquarePart(seq)[k] = (e * e) * dt
      /\ TimePart(seq, c)[k] = (a * span) * dt
  BY DEF AbsPart, SquarePart, TimePart
<1>7. dt \in Nat
  BY <1>1
<1>8. \A i, j \in Nat : i * j \in Nat
  OBVIOUS
<1>9. a \in Nat /\ e \in Int
  BY <1>2, <1>3
<1> HIDE DEF e, a, dt, span
<1>10. a * dt \in Nat /\ (e * e) * dt \in Nat /\ (a * span) * dt \in Nat
  BY <1>4, <1>5, <1>7, <1>8, <1>9
<1>11. QED
  BY <1>6, <1>9, <1>10 DEF e, a

(* A new sample does not change the shares of the earlier ones. *)
LEMMA PartKept ==
  ASSUME NEW seq \in Seq(Record), NEW s \in Record, NEW c, WindowOk(c),
         NEW new, new = Append(seq, s), NEW k \in 1..Len(seq)
  PROVE  /\ AbsPart(new)[k] = AbsPart(seq)[k] /\ SquarePart(new)[k] = SquarePart(seq)[k]
         /\ TimePart(new, c)[k] = TimePart(seq, c)[k]
<1>1. /\ Len(seq) \in Nat /\ Len(new) = Len(seq) + 1
      /\ \A j \in 1..Len(seq) : new[j] = seq[j]
  BY Appended
<1>2. k \in 1..Len(new) /\ k \in Nat \ {0} /\ new[k] = seq[k] /\ Err(new, k) = Err(seq, k)
  BY <1>1 DEF Err
<1>3. RestartOf(new, c, k) = RestartOf(seq, c, k)
  <2>1. ASSUME NEW j \in 1..k PROVE IsStep(new, c, j) <=> IsStep(seq, c, j)
    <3>1. j \in 1..Len(seq) /\ (j # 1 => j - 1 \in 1..Len(seq))
      BY <1>1
    <3>2. QED
      BY <1>1, <3>1 DEF IsStep
  <2>2. {j \in 1..k : IsStep(new, c, j) \/ IsWindow(c, j)}
          = {j \in 1..k : IsStep(seq, c, j) \/ IsWindow(c, j)}
    BY <2>1
  <2>3. QED
    BY <2>2 DEF RestartOf
<1> DEFINE from == RestartOf(seq, c, k)
<1>4. from \in 1..k
  BY <1>2, RestartFacts DEF WindowOk
<1>5. from \in Int /\ from >= 1 /\ k \in Int /\ k <= Len(seq)
  BY <1>1, <1>4
<1> HIDE DEF from
<1>6. Span(new, from, k) = Span(seq, from, k)
  BY <1>5, SpanKept
<1>7. Span(new, RestartOf(new, c, k), k) = Span(seq, RestartOf(seq, c, k), k)
  BY <1>3, <1>6 DEF from
<1>8. QED
  BY <1>2, <1>7 DEF AbsPart, SquarePart, TimePart

(* The integrals of the earlier samples are those of the longer history. *)
LEMMA IntegralsKept ==
  ASSUME NEW x, NEW seq \in Seq(Record), NEW s \in Record, WindowOk(x.cfg),
         NEW new, new = Append(seq, s), NEW n, n = Len(seq), NEW w \in 1..n,
         Integrals(x, seq, w, n)
  PROVE  Integrals(x, new, w, n)
<1>1. \A k \in w..n : k \in 1..Len(seq)
  BY Appended
<1>2. \A k \in w..n : AbsPart(new)[k] = AbsPart(seq)[k]
  BY <1>1, PartKept
<1>3. \A k \in w..n : SquarePart(new)[k] = SquarePart(seq)[k]
  BY <1>1, PartKept
<1>4. \A k \in w..n : TimePart(new, x.cfg)[k] = TimePart(seq, x.cfg)[k]
  <2>1. ASSUME NEW c, WindowOk(c), NEW k \in 1..Len(seq)
        PROVE  TimePart(new, c)[k] = TimePart(seq, c)[k]
    BY <2>1, PartKept
  <2>2. QED
    BY <1>1, <2>1
<1>5. /\ Total(AbsPart(new), w..n) = Total(AbsPart(seq), w..n)
      /\ Total(SquarePart(new), w..n) = Total(SquarePart(seq), w..n)
      /\ Total(TimePart(new, x.cfg), w..n) = Total(TimePart(seq, x.cfg), w..n)
  BY <1>2, <1>3, <1>4, TotalLocal
<1>6. QED
  BY <1>5 DEF Integrals

(* Integrals that start with the next sample. *)
LEMMA IntegralsFresh ==
  ASSUME NEW x, NEW seq, NEW n \in Nat, x.iae = 0, x.ise = 0, x.itae = 0
  PROVE  Integrals(x, seq, n + 1, n)
<1>1. n + 1..n = {}
  OBVIOUS
<1>2. QED
  BY <1>1, TotalEmpty DEF Integrals

(* A sum over one sample more. *)
LEMMA TotalNext ==
  ASSUME NEW part, NEW n \in Nat, NEW w \in 1..n + 1, \A k \in 1..n + 1 : part[k] \in Nat
  PROVE  /\ Total(part, w..n + 1) = Total(part, w..n) + part[n + 1]
         /\ Total(part, w..n + 1) \in Nat
<1>1. w..n + 1 = (w..n) \union {n + 1} /\ n + 1 \notin w..n
  OBVIOUS
<1>2. IsFiniteSet(w..n) /\ IsFiniteSet(w..n + 1)
  BY FS_Interval
<1>3. (\A k \in w..n : part[k] \in Nat) /\ part[n + 1] \in Nat
      /\ \A k \in w..n + 1 : part[k] \in Nat
  OBVIOUS
<1>4. Total(part, w..n + 1) \in Nat
  BY <1>2, <1>3, UnitsFinite
<1> DEFINE T == w..n
           z == n + 1
<1>5. Total(part, T \union {z}) = Total(part, T) + part[z]
  <2>1. IsFiniteSet(T) /\ z \notin T /\ part[z] \in Nat /\ \A k \in T : part[k] \in Nat
    BY <1>1, <1>2, <1>3
  <2> HIDE DEF T, z
  <2>2. QED
    BY <2>1, TotalAdd
<1>6. QED
  BY <1>1, <1>4, <1>5

(* A sample adds its share. *)
LEMMA IntegralsNext ==
  ASSUME NEW seq \in Seq(Record), NEW n \in Nat, n + 1 <= Len(seq), NEW w \in 1..n + 1,
         NEW q, NEW x, WindowOk(q.cfg), Integrals(q, seq, w, n),
         Measured(q, x, seq[n + 1].r, seq[n + 1].y, seq[n + 1].dt),
         x.t_elapsed = Span(seq, RestartOf(seq, q.cfg, n + 1), n + 1)
  PROVE  Integrals(x, seq, w, n + 1) /\ x.iae \in Nat /\ x.ise \in Nat /\ x.itae \in Nat
<1> DEFINE c == q.cfg
           e == Err(seq, n + 1)
           a == Abs(e)
           dt == seq[n + 1].dt
           span == Span(seq, RestartOf(seq, c, n + 1), n + 1)
<1>1. n + 1 \in 1..Len(seq) /\ \A k \in 1..n + 1 : k \in 1..Len(seq)
  OBVIOUS
<1>2. \A k \in 1..n + 1 : AbsPart(seq)[k] \in Nat
  BY <1>1, PartFacts
<1>3. \A k \in 1..n + 1 : SquarePart(seq)[k] \in Nat
  BY <1>1, PartFacts
<1>4. \A k \in 1..n + 1 : TimePart(seq, c)[k] \in Nat
  BY <1>1, PartFacts
<1>5. /\ AbsPart(seq)[n + 1] = a * dt
      /\ SquarePart(seq)[n + 1] = (e * e) * dt
      /\ TimePart(seq, c)[n + 1] = (a * span) * dt
  BY <1>1 DEF AbsPart, SquarePart, TimePart
<1>6. /\ x.cfg = c /\ x.iae = q.iae + a * dt /\ x.ise = q.ise + (e * e) * dt
      /\ x.itae = q.itae + span * a * dt
  BY DEF Measured, Err
<1>7. a \in Nat /\ span \in Nat
  <2>1. a \in Nat
    BY <1>1, PartFacts
  <2>2. n + 1 \in Nat \ {0}
    OBVIOUS
  <2>3. RestartOf(seq, c, n + 1) \in 1..n + 1
    BY <2>2, RestartFacts DEF WindowOk
  <2> DEFINE from == RestartOf(seq, c, n + 1)
             b == n + 1
  <2>4. from \in Int /\ from >= 1 /\ b \in Int /\ b <= Len(seq)
    BY <2>3
  <2> HIDE DEF from, b
  <2>5. Span(seq, from, b) \in Nat
    BY <2>4, SpanIsTotal
  <2>6. QED
    BY <2>1, <2>5 DEF from, b
<1>8. dt \in Nat
  BY <1>1, SampleOf
<1> HIDE DEF a, span, dt, c, e
<1>9. span * a * dt = (a * span) * dt
  BY <1>7, <1>8
<1>10. /\ q.iae = Total(AbsPart(seq), w..n) /\ q.ise = Total(SquarePart(seq), w..n)
       /\ q.itae = Total(TimePart(seq, c), w..n)
  BY DEF Integrals, c
<1>11. /\ Total(AbsPart(seq), w..n + 1) = Total(AbsPart(seq), w..n) + AbsPart(seq)[n + 1]
       /\ Total(AbsPart(seq), w..n + 1) \in Nat
  BY <1>2, TotalNext
<1>12. /\ Total(SquarePart(seq), w..n + 1) = Total(SquarePart(seq), w..n) + SquarePart(seq)[n + 1]
       /\ Total(SquarePart(seq), w..n + 1) \in Nat
  BY <1>3, TotalNext
<1>13. /\ Total(TimePart(seq, c), w..n + 1)
            = Total(TimePart(seq, c), w..n) + TimePart(seq, c)[n + 1]
       /\ Total(TimePart(seq, c), w..n + 1) \in Nat
  BY <1>4, TotalNext
<1>14. /\ x.iae = Total(AbsPart(seq), w..n + 1) /\ x.ise = Total(SquarePart(seq), w..n + 1)
       /\ x.itae = Total(TimePart(seq, c), w..n + 1)
  BY <1>5, <1>6, <1>9, <1>10, <1>11, <1>12, <1>13
<1>15. QED
  BY <1>6, <1>11, <1>12, <1>13, <1>14 DEF Integrals

(* IAE, as the property sums it. *)
LEMMA AbsTotal ==
  ASSUME ms \in Seq(Record), WindowOk(m.cfg),
         NEW a \in Int, NEW b \in Int, a >= 1, b <= Len(ms)
  PROVE  MapThenSumSet(LAMBDA k : Abs(Err(ms, k)) * ms[k].dt, a..b)
           = Total(AbsPart(ms), a..b)
<1> DEFINE S == a..b
           w == AbsPart(ms)
           term(k) == Abs(Err(ms, k)) * ms[k].dt
           step(iter) ==
             [T \in SUBSET S |->
                IF T = {} THEN 0
                ELSE term(CHOOSE x \in T : TRUE) + iter[T \ {CHOOSE x \in T : TRUE}]]
           f == CHOOSE iter : iter = step(iter)
<1>1. IsFiniteSet(S)
  BY FS_Interval
<1>2. ASSUME NEW k \in S PROVE w[k] = term(k) /\ w[k] \in Nat
  <2>1. k \in 1..Len(ms)
    OBVIOUS
  <2>2. w[k] \in Nat
    BY <2>1, PartFacts
  <2>3. w[k] = term(k)
    BY <2>1 DEF AbsPart
  <2>4. QED
    BY <2>2, <2>3
<1>3. MapThenSumSet(LAMBDA k : Abs(Err(ms, k)) * ms[k].dt, S) = f[S]
  <2> HIDE DEF S
  <2> QED BY DEF MapThenSumSet, MapThenFoldSet
<1> HIDE DEF term
<1>4. ASSUME NEW iter PROVE step(iter) = Unfolded(w, S, iter)
  <2> HIDE DEF S, w
  <2>1. ASSUME NEW T \in SUBSET S, T # {}
        PROVE  term(CHOOSE x \in T : TRUE) = w[CHOOSE x \in T : TRUE]
    BY <1>2, <2>1
  <2>2. QED
    BY <2>1 DEF Unfolded
<1>5. \E iter : iter = step(iter)
  <2>1. \E iter : iter = Unfolded(w, S, iter)
    <3> HIDE DEF S, w
    <3> QED BY <1>1, <1>2, FoldExists
  <2> HIDE DEF step, S, w
  <2>2. QED
    BY <1>4, <2>1
<1>6. f = step(f)
  <2> HIDE DEF step
  <2> QED BY <1>5
<1> HIDE DEF f, step, S, w
<1>7. f[S] = Total(w, S)
  BY <1>1, <1>2, <1>4, <1>6, FoldIsTotal
<1>8. QED
  BY <1>3, <1>7 DEF S, w

(* ISE. *)
LEMMA SquareTotal ==
  ASSUME ms \in Seq(Record), WindowOk(m.cfg),
         NEW a \in Int, NEW b \in Int, a >= 1, b <= Len(ms)
  PROVE  MapThenSumSet(LAMBDA k : (Err(ms, k) * Err(ms, k)) * ms[k].dt, a..b)
           = Total(SquarePart(ms), a..b)
<1> DEFINE S == a..b
           w == SquarePart(ms)
           term(k) == (Err(ms, k) * Err(ms, k)) * ms[k].dt
           step(iter) ==
             [T \in SUBSET S |->
                IF T = {} THEN 0
                ELSE term(CHOOSE x \in T : TRUE) + iter[T \ {CHOOSE x \in T : TRUE}]]
           f == CHOOSE iter : iter = step(iter)
<1>1. IsFiniteSet(S)
  BY FS_Interval
<1>2. ASSUME NEW k \in S PROVE w[k] = term(k) /\ w[k] \in Nat
  <2>1. k \in 1..Len(ms)
    OBVIOUS
  <2>2. w[k] \in Nat
    BY <2>1, PartFacts
  <2>3. w[k] = term(k)
    BY <2>1 DEF SquarePart
  <2>4. QED
    BY <2>2, <2>3
<1>3. MapThenSumSet(LAMBDA k : (Err(ms, k) * Err(ms, k)) * ms[k].dt, S) = f[S]
  <2> HIDE DEF S
  <2> QED BY DEF MapThenSumSet, MapThenFoldSet
<1> HIDE DEF term
<1>4. ASSUME NEW iter PROVE step(iter) = Unfolded(w, S, iter)
  <2> HIDE DEF S, w
  <2>1. ASSUME NEW T \in SUBSET S, T # {}
        PROVE  term(CHOOSE x \in T : TRUE) = w[CHOOSE x \in T : TRUE]
    BY <1>2, <2>1
  <2>2. QED
    BY <2>1 DEF Unfolded
<1>5. \E iter : iter = step(iter)
  <2>1. \E iter : iter = Unfolded(w, S, iter)
    <3> HIDE DEF S, w
    <3> QED BY <1>1, <1>2, FoldExists
  <2> HIDE DEF step, S, w
  <2>2. QED
    BY <1>4, <2>1
<1>6. f = step(f)
  <2> HIDE DEF step
  <2> QED BY <1>5
<1> HIDE DEF f, step, S, w
<1>7. f[S] = Total(w, S)
  BY <1>1, <1>2, <1>4, <1>6, FoldIsTotal
<1>8. QED
  BY <1>3, <1>7 DEF S, w

(* ITAE. *)
LEMMA TimeTotal ==
  ASSUME ms \in Seq(Record), WindowOk(m.cfg),
         NEW a \in Int, NEW b \in Int, a >= 1, b <= Len(ms)
  PROVE  MapThenSumSet(LAMBDA k : (Abs(Err(ms, k)) * Span(ms, LastRestart(k), k)) * ms[k].dt, a..b)
           = Total(TimePart(ms, m.cfg), a..b)
<1> DEFINE S == a..b
           w == TimePart(ms, m.cfg)
           term(k) == (Abs(Err(ms, k)) * Span(ms, LastRestart(k), k)) * ms[k].dt
           step(iter) ==
             [T \in SUBSET S |->
                IF T = {} THEN 0
                ELSE term(CHOOSE x \in T : TRUE) + iter[T \ {CHOOSE x \in T : TRUE}]]
           f == CHOOSE iter : iter = step(iter)
<1>1. IsFiniteSet(S)
  BY FS_Interval
<1>2. ASSUME NEW k \in S PROVE w[k] = term(k) /\ w[k] \in Nat
  <2>1. k \in 1..Len(ms)
    OBVIOUS
  <2>2. w[k] \in Nat
    BY <2>1, PartFacts
  <2>3. w[k] = term(k)
    <3>1. LastRestart(k) = RestartOf(ms, m.cfg, k)
      BY DEF LastRestart, RestartOf, StepAt, IsStep, WindowAt, IsWindow
    <3>2. QED
      BY <2>1, <3>1 DEF TimePart
  <2>4. QED
    BY <2>2, <2>3
<1>3. MapThenSumSet(LAMBDA k : (Abs(Err(ms, k)) * Span(ms, LastRestart(k), k)) * ms[k].dt, S) = f[S]
  <2> HIDE DEF S
  <2> QED BY DEF MapThenSumSet, MapThenFoldSet
<1> HIDE DEF term
<1>4. ASSUME NEW iter PROVE step(iter) = Unfolded(w, S, iter)
  <2> HIDE DEF S, w
  <2>1. ASSUME NEW T \in SUBSET S, T # {}
        PROVE  term(CHOOSE x \in T : TRUE) = w[CHOOSE x \in T : TRUE]
    BY <1>2, <2>1
  <2>2. QED
    BY <2>1 DEF Unfolded
<1>5. \E iter : iter = step(iter)
  <2>1. \E iter : iter = Unfolded(w, S, iter)
    <3> HIDE DEF S, w
    <3> QED BY <1>1, <1>2, FoldExists
  <2> HIDE DEF step, S, w
  <2>2. QED
    BY <1>4, <2>1
<1>6. f = step(f)
  <2> HIDE DEF step
  <2> QED BY <1>5
<1> HIDE DEF f, step, S, w
<1>7. f[S] = Total(w, S)
  BY <1>1, <1>2, <1>4, <1>6, FoldIsTotal
<1>8. QED
  BY <1>3, <1>7 DEF S, w

(***************************************************************************)
(* The instance holds what the samples since its last reset make of it.    *)
(***************************************************************************)
WindowTurn(x, n) ==
  x.cfg.mode = "WINDOWED" =>
    /\ x.window_counter \in 1..x.cfg.window_steps /\ x.window_counter <= n
    /\ (n - x.window_counter) % x.cfg.window_steps = 0

SoundMetrics(x, seq) ==
  /\ x \in MetricsInstance /\ seq \in Seq(Record)
  /\ x.is_initialised => ValidMetricsConfig(x.cfg)
  /\ ~x.is_initialised => Len(seq) = 0
  /\ x.prev_valid <=> Len(seq) # 0
  /\ Len(seq) = 0 => x = MetricsSeeded(x.cfg, x.enabled, x.is_initialised)
  /\ Len(seq) # 0 =>
       /\ x.r_prev = seq[Len(seq)].r
       /\ Response(x, seq, StepOf(seq, x.cfg, Len(seq)), RestartOf(seq, x.cfg, Len(seq)), Len(seq))
       /\ Integrals(x, seq, WindowOf(x.cfg, Len(seq)), Len(seq))
       /\ WindowTurn(x, Len(seq))

Cleared(x) ==
  /\ x.peak_overshoot = 0 /\ x.rise_time = UNSET /\ x.settling_time = UNSET
  /\ x.t_elapsed = 0 /\ x.in_band_time = 0 /\ ~x.rise_10pct_crossed

(* What neither restart changes. *)
Lasting(x, q) == x.cfg = q.cfg /\ x.enabled = q.enabled /\ x.is_initialised = q.is_initialised

(* What a configuration that passes the validation holds. *)
LEMMA ValidMetricsFacts ==
  ASSUME NEW c \in MetricsConfig, ValidMetricsConfig(c)
  PROVE  /\ WindowOk(c) /\ c.mode \in MetricsMode
         /\ c.band_pct \in Int /\ c.settle_confirm \in Int
         /\ c.step_thresh \in Int
<1>1. c.window_steps \in Nat
  BY DEF MetricsConfig
<1>2. IsFinite(c.band_pct) /\ IsFinite(c.settle_confirm) /\ IsFinite(c.step_thresh)
  BY DEF ValidMetricsConfig
<1>3. QED
  BY <1>1, <1>2, FiniteIsInt DEF ValidMetricsConfig, WindowOk

(* Clearing the response leaves the rest alone. *)
LEMMA ClearTransientFacts ==
  ASSUME NEW x \in MetricsInstance
  PROVE  /\ ClearTransient(x) \in MetricsInstance /\ Cleared(ClearTransient(x))
         /\ Lasting(ClearTransient(x), x)
         /\ ClearTransient(x).iae = x.iae /\ ClearTransient(x).ise = x.ise
         /\ ClearTransient(x).itae = x.itae
         /\ ClearTransient(x).step_ref = x.step_ref /\ ClearTransient(x).step_size = x.step_size
         /\ ClearTransient(x).step_target = x.step_target
         /\ ClearTransient(x).window_counter = x.window_counter
         /\ ClearTransient(x).r_prev = x.r_prev
         /\ ClearTransient(x).prev_valid = x.prev_valid
  BY DEF ClearTransient, MetricsInstance, Cleared, Lasting

(* A window that is over clears the integrals and the response. *)
LEMMA WindowRestartFacts ==
  ASSUME NEW x \in MetricsInstance, NEW q, q = WindowRestart(x),
         x.cfg.mode = "WINDOWED" /\ x.window_counter >= x.cfg.window_steps
  PROVE  /\ q \in MetricsInstance /\ Cleared(q) /\ Lasting(q, x)
         /\ q.iae = 0 /\ q.ise = 0 /\ q.itae = 0 /\ q.window_counter = 0
         /\ q.step_ref = x.step_ref /\ q.step_size = x.step_size
         /\ q.step_target = x.step_target
         /\ q.r_prev = x.r_prev /\ q.prev_valid = x.prev_valid
<1> DEFINE a == ClearTransient(x)
<1>1. q = [a EXCEPT !.iae = 0, !.ise = 0, !.itae = 0, !.window_counter = 0]
  BY DEF WindowRestart
<1>2. /\ a \in MetricsInstance /\ Cleared(a) /\ Lasting(a, x)
      /\ a.step_ref = x.step_ref /\ a.step_size = x.step_size
      /\ a.step_target = x.step_target
      /\ a.r_prev = x.r_prev /\ a.prev_valid = x.prev_valid
  BY ClearTransientFacts
<1> HIDE DEF a
<1>3. QED
  BY <1>1, <1>2 DEF MetricsInstance, Cleared, Lasting

(* A setpoint step clears the response. *)
LEMMA TransientRestartFacts ==
  ASSUME NEW x \in MetricsInstance, NEW r \in Int, NEW y \in Int,
         NEW q, q = TransientRestart(x, r, y),
         ~x.prev_valid \/ Abs(r - x.r_prev) >= x.cfg.step_thresh
  PROVE  /\ q \in MetricsInstance /\ Cleared(q) /\ Lasting(q, x)
         /\ q.iae = x.iae /\ q.ise = x.ise /\ q.itae = x.itae
         /\ q.window_counter = x.window_counter
         /\ q.step_ref = y /\ q.step_size = r - y /\ q.step_target = r /\ q.prev_valid
<1> DEFINE a == ClearTransient(x)
<1>1. q = [a EXCEPT !.step_target = r, !.step_ref = y, !.step_size = r - y, !.prev_valid = TRUE]
  BY DEF TransientRestart
<1>2. /\ a \in MetricsInstance /\ Cleared(a) /\ Lasting(a, x)
      /\ a.iae = x.iae /\ a.ise = x.ise /\ a.itae = x.itae
      /\ a.window_counter = x.window_counter
  BY ClearTransientFacts
<1> HIDE DEF a
<1>3. r - y \in Int
  OBVIOUS
<1>4. q \in MetricsInstance
  BY <1>1, <1>2, <1>3 DEF MetricsInstance
<1>5. /\ Cleared(q) /\ Lasting(q, x)
      /\ q.iae = x.iae /\ q.ise = x.ise /\ q.itae = x.itae
      /\ q.window_counter = x.window_counter
  BY <1>1, <1>2 DEF MetricsInstance, Cleared, Lasting
<1>6. q.step_ref = y /\ q.step_size = r - y /\ q.step_target = r /\ q.prev_valid
  BY <1>1, <1>2 DEF MetricsInstance
<1>7. QED
  BY <1>4, <1>5, <1>6

(* What a sample's restarts leave: the response and the integrals of the   *)
(* samples before it, counted from where they start with it.               *)
Restarted(q, seq, c, n) ==
  /\ q \in MetricsInstance /\ q.prev_valid
  /\ Response(q, seq, StepOf(seq, c, n + 1), RestartOf(seq, c, n + 1), n)
  /\ Integrals(q, seq, WindowOf(c, n + 1), n)
  /\ c.mode = "WINDOWED" =>
       /\ q.window_counter + 1 \in 1..c.window_steps /\ q.window_counter <= n
       /\ (n - q.window_counter) % c.window_steps = 0

(* The first sample. *)
LEMMA FirstRestart ==
  ASSUME NEW x, NEW seq, SoundMetrics(x, seq), x.is_initialised, Len(seq) = 0,
         NEW s \in Record, NEW new, new = Append(seq, s), NEW c, c = x.cfg,
         NEW q, q = TransientRestart(WindowRestart(x), s.r, s.y)
  PROVE  Restarted(q, new, c, 0) /\ Lasting(q, x)
<1>1. /\ x \in MetricsInstance /\ seq \in Seq(Record) /\ ValidMetricsConfig(c) /\ ~x.prev_valid
      /\ x = MetricsSeeded(x.cfg, x.enabled, x.is_initialised) /\ s.r \in Int /\ s.y \in Int
      /\ c \in MetricsConfig
  BY DEF SoundMetrics, Record, MetricsInstance
<1>2. WindowOk(c)
  BY <1>1, ValidMetricsFacts
<1>3. x.window_counter = 0 /\ x.iae = 0 /\ x.ise = 0 /\ x.itae = 0
  BY <1>1 DEF MetricsSeeded
<1>4. WindowRestart(x) = x
  BY <1>2, <1>3 DEF WindowRestart, WindowOk
<1>5. q = TransientRestart(x, s.r, s.y)
  BY <1>4
<1>6. /\ q \in MetricsInstance /\ Cleared(q) /\ Lasting(q, x)
      /\ q.iae = 0 /\ q.ise = 0 /\ q.itae = 0 /\ q.window_counter = 0
      /\ q.step_ref = s.y /\ q.step_size = s.r - s.y /\ q.step_target = s.r /\ q.prev_valid
  BY <1>1, <1>3, <1>5, TransientRestartFacts
<1>7. new \in Seq(Record) /\ Len(new) = 1 /\ new[1] = s
  BY <1>1, Appended
<1>8. StepOf(new, c, 1) \in 1..1 /\ WindowOf(c, 1) \in 1..1 /\ RestartOf(new, c, 1) \in 1..1
  BY <1>2, RestartFacts DEF WindowOk
<1>9. StepOf(new, c, 1) = 1 /\ WindowOf(c, 1) = 1 /\ RestartOf(new, c, 1) = 1
  BY <1>8
<1>10. Response(q, new, 1, 1, 0)
  <2>1. /\ q.step_ref = new[1].y /\ q.step_target = new[1].r /\ q.step_size = StepSize(new, 1)
        /\ q.peak_overshoot = 0 /\ q.rise_time = UNSET /\ q.settling_time = UNSET
        /\ q.t_elapsed = 0 /\ q.in_band_time = 0 /\ ~q.rise_10pct_crossed
    BY <1>6, <1>7 DEF Cleared, StepSize
  <2>2. 0 \in Nat /\ 0 < Len(new) /\ 1 \in 1..0 + 1 /\ 0 + 1 = 1
    BY <1>7
  <2>3. Response(q, new, 1, 0 + 1, 0)
    BY <1>6, <1>7, <2>1, <2>2, ResponseFresh
  <2>4. QED
    BY <2>2, <2>3
<1>11. Integrals(q, new, 1, 0)
  <2>1. 0 \in Nat /\ 0 + 1 = 1
    OBVIOUS
  <2>2. Integrals(q, new, 0 + 1, 0)
    BY <1>6, <2>1, IntegralsFresh
  <2>3. QED
    BY <2>1, <2>2
<1>12. c.mode = "WINDOWED" =>
         /\ q.window_counter + 1 \in 1..c.window_steps /\ q.window_counter <= 0
         /\ (0 - q.window_counter) % c.window_steps = 0
  BY <1>2, <1>6 DEF WindowOk
<1>13. 0 + 1 = 1
  OBVIOUS
<1>14. QED
  BY <1>6, <1>9, <1>10, <1>11, <1>12, <1>13 DEF Restarted

(* When a window is over, in the instance and in the history. *)
LEMMA WindowOver ==
  ASSUME NEW x \in MetricsInstance, WindowOk(x.cfg), x.cfg.mode \in MetricsMode,
         NEW n \in Nat \ {0}, WindowTurn(x, n)
  PROVE  IsWindow(x.cfg, n + 1)
           <=> x.cfg.mode = "WINDOWED" /\ x.window_counter >= x.cfg.window_steps
<1>1. CASE x.cfg.mode = "WINDOWED"
  <2> DEFINE b == x.cfg.window_steps
             i == x.window_counter
             a == n - i
  <2>1. b \in Nat \ {0} /\ i \in 1..b /\ i <= n /\ a % b = 0
    BY <1>1 DEF WindowOk, WindowTurn
  <2>2. a \in Nat /\ a + i = n /\ (n + 1) - 1 = n
    BY <2>1
  <2>3. IsWindow(x.cfg, n + 1) <=> n % b = 0
    BY <1>1, <2>2 DEF IsWindow
  <2> HIDE DEF a, b, i
  <2>4. (a + i) % b = 0 <=> i = b
    <3>1. b \in Nat \ {0} /\ a \in Nat /\ a % b = 0 /\ i \in 1..b
      BY <2>1, <2>2
    <3>2. Whole(a, b)
      BY <3>1 DEF Whole
    <3>3. Whole(a + i, b) <=> i = b
      BY <3>1, <3>2, WindowWraps
    <3>4. QED
      BY <3>3 DEF Whole
  <2>5. i = b <=> i >= b
    BY <2>1
  <2>6. QED
    BY <1>1, <2>2, <2>3, <2>4, <2>5 DEF b, i
<1>2. CASE x.cfg.mode # "WINDOWED"
  BY <1>2 DEF IsWindow
<1>3. QED
  BY <1>1, <1>2

(* A later sample. *)
LEMMA LaterRestart ==
  ASSUME NEW x, NEW seq, SoundMetrics(x, seq), x.is_initialised, NEW n \in Nat \ {0}, n = Len(seq),
         NEW s \in Record, NEW new, new = Append(seq, s), NEW c, c = x.cfg,
         NEW q, q = TransientRestart(WindowRestart(x), s.r, s.y)
  PROVE  Restarted(q, new, c, n) /\ Lasting(q, x)
<1> DEFINE w == WindowRestart(x)
           p == StepOf(seq, c, n)
           from == RestartOf(seq, c, n)
           win == WindowOf(c, n)
<1>1. /\ x \in MetricsInstance /\ seq \in Seq(Record) /\ ValidMetricsConfig(c) /\ x.prev_valid
      /\ s.r \in Int /\ s.y \in Int /\ c \in MetricsConfig
      /\ x.r_prev = seq[n].r /\ Response(x, seq, p, from, n) /\ Integrals(x, seq, win, n)
      /\ WindowTurn(x, n)
  BY DEF SoundMetrics, Record, MetricsInstance
<1>2. WindowOk(c) /\ c.mode \in MetricsMode
  BY <1>1, ValidMetricsFacts
<1>3. p \in 1..n /\ win \in 1..n /\ from \in 1..n
  BY <1>2, RestartFacts DEF WindowOk
<1>4. /\ new \in Seq(Record) /\ Len(new) = n + 1 /\ new[n + 1] = s
      /\ \A k \in 1..n : new[k] = seq[k]
  BY <1>1, Appended
<1>5. n + 1 \in Nat /\ n + 1 # 1 /\ (n + 1) - 1 = n /\ n \in 1..n /\ n + 1 \in 1..n + 1
      /\ n < n + 1 /\ n \in Nat
  OBVIOUS
<1> DEFINE isW == IsWindow(c, n + 1)
           isS == IsStep(new, c, n + 1)
<1>6. isW <=> c.mode = "WINDOWED" /\ x.window_counter >= c.window_steps
  BY <1>1, <1>2, WindowOver
<1>7. isS <=> Abs(s.r - x.r_prev) >= c.step_thresh
  BY <1>1, <1>4, <1>5 DEF IsStep
<1>8. /\ StepOf(new, c, n + 1) = IF isS THEN n + 1 ELSE p
      /\ WindowOf(c, n + 1) = IF isW THEN n + 1 ELSE win
      /\ RestartOf(new, c, n + 1) = IF isS \/ isW THEN n + 1 ELSE from
  <2>1. seq \in Seq(Record) /\ n = Len(seq) /\ new = Append(seq, s)
    BY <1>1
  <2>2. StepOf(new, c, n + 1) = IF isS THEN n + 1 ELSE p
    BY <2>1, RestartNext
  <2>3. WindowOf(c, n + 1) = IF isW THEN n + 1 ELSE win
    BY <2>1, RestartNext
  <2>4. RestartOf(new, c, n + 1) = IF isS \/ isW THEN n + 1 ELSE from
    BY <2>1, RestartNext
  <2>5. QED
    BY <2>2, <2>3, <2>4
<1>9. /\ w \in MetricsInstance /\ Lasting(w, x)
      /\ w.r_prev = x.r_prev /\ w.prev_valid
      /\ w.step_ref = x.step_ref /\ w.step_size = x.step_size /\ w.step_target = x.step_target
  <2>1. CASE isW
    BY <1>1, <1>6, <2>1, WindowRestartFacts
  <2>2. CASE ~isW
    BY <1>1, <1>6, <2>2 DEF WindowRestart, Lasting
  <2>3. QED
    BY <2>1, <2>2
<1>10. isW => Cleared(w) /\ w.iae = 0 /\ w.ise = 0 /\ w.itae = 0 /\ w.window_counter = 0
  BY <1>1, <1>6, WindowRestartFacts
<1>11. ~isW => w = x
  BY <1>6 DEF WindowRestart
<1>12. q = TransientRestart(w, s.r, s.y)
  OBVIOUS
<1> HIDE DEF w
<1>13. /\ q \in MetricsInstance /\ Lasting(q, w)
       /\ q.iae = w.iae /\ q.ise = w.ise /\ q.itae = w.itae
       /\ q.window_counter = w.window_counter /\ q.prev_valid
  <2>1. CASE isS
    <3>1. ~w.prev_valid \/ Abs(s.r - w.r_prev) >= w.cfg.step_thresh
      BY <1>7, <1>9, <2>1 DEF Lasting
    <3>2. QED
      BY <1>1, <1>9, <1>12, <3>1, TransientRestartFacts
  <2>2. CASE ~isS
    BY <1>7, <1>9, <1>12, <2>2 DEF TransientRestart, Lasting
  <2>3. QED
    BY <2>1, <2>2
<1>14. isS => /\ Cleared(q) /\ q.step_ref = s.y /\ q.step_size = s.r - s.y /\ q.step_target = s.r
  <2> HAVE isS
  <2>1. ~w.prev_valid \/ Abs(s.r - w.r_prev) >= w.cfg.step_thresh
    BY <1>7, <1>9 DEF Lasting
  <2>2. QED
    BY <1>1, <1>9, <1>12, <2>1, TransientRestartFacts
<1>15. ~isS => q = w
  BY <1>7, <1>9, <1>12 DEF TransientRestart, Lasting
<1> HIDE DEF isW, isS, p, from, win
<1>16. Lasting(q, x)
  BY <1>9, <1>13 DEF Lasting
<1>17. ASSUME isS
       PROVE  Response(q, new, StepOf(new, c, n + 1), RestartOf(new, c, n + 1), n)
  <2>1. Response(q, new, n + 1, n + 1, n)
    <3>1. /\ q.step_ref = new[n + 1].y /\ q.step_target = new[n + 1].r
          /\ q.step_size = StepSize(new, n + 1)
          /\ q.peak_overshoot = 0 /\ q.rise_time = UNSET /\ q.settling_time = UNSET
          /\ q.t_elapsed = 0 /\ q.in_band_time = 0 /\ ~q.rise_10pct_crossed
      BY <1>4, <1>14, <1>17 DEF Cleared, StepSize
    <3> DEFINE z == n + 1
    <3>2. z \in 1..n + 1
      BY <1>5
    <3> HIDE DEF z
    <3>3. Response(q, new, z, n + 1, n)
      BY <1>4, <1>5, <1>13, <3>1, <3>2, ResponseFresh DEF z
    <3>4. QED
      BY <3>3 DEF z
  <2>2. QED
    BY <1>8, <1>17, <2>1
<1>18. ASSUME ~isS /\ isW
       PROVE  Response(q, new, StepOf(new, c, n + 1), RestartOf(new, c, n + 1), n)
  <2>1. q = w /\ Cleared(q)
    BY <1>10, <1>15, <1>18
  <2>2. new[p] = seq[p]
    BY <1>3, <1>4
  <2>3. q.step_ref = new[p].y /\ q.step_target = new[p].r /\ q.step_size = StepSize(new, p)
    BY <1>1, <1>9, <2>1, <2>2 DEF Response, StepSize
  <2>4. /\ q.peak_overshoot = 0 /\ q.rise_time = UNSET /\ q.settling_time = UNSET
        /\ q.t_elapsed = 0 /\ q.in_band_time = 0 /\ ~q.rise_10pct_crossed
    BY <2>1 DEF Cleared
  <2>5. p \in 1..n + 1 /\ n < Len(new)
    BY <1>3, <1>4, <1>5
  <2>6. Response(q, new, p, n + 1, n)
    BY <1>4, <1>5, <1>13, <2>3, <2>4, <2>5, ResponseFresh
  <2>7. QED
    BY <1>8, <1>18, <2>6
<1>19. ASSUME ~isS /\ ~isW
       PROVE  Response(q, new, StepOf(new, c, n + 1), RestartOf(new, c, n + 1), n)
  <2>1. q = x
    BY <1>11, <1>15, <1>19
  <2>2. Response(x, new, p, from, n)
    BY <1>1, <1>3, ResponseKept
  <2>3. QED
    BY <1>8, <1>19, <2>1, <2>2
<1>20. Response(q, new, StepOf(new, c, n + 1), RestartOf(new, c, n + 1), n)
  BY <1>17, <1>18, <1>19
<1>21. Integrals(q, new, WindowOf(c, n + 1), n)
  <2>1. CASE isW
    <3>1. Integrals(q, new, n + 1, n)
      BY <1>5, <1>10, <1>13, <2>1, IntegralsFresh
    <3>2. QED
      BY <1>8, <2>1, <3>1
  <2>2. CASE ~isW
    <3>1. Integrals(x, new, win, n)
      BY <1>1, <1>2, <1>3, IntegralsKept
    <3>2. q.iae = x.iae /\ q.ise = x.ise /\ q.itae = x.itae /\ q.cfg = x.cfg
      BY <1>11, <1>13, <1>16, <2>2 DEF Lasting
    <3>3. Integrals(q, new, win, n)
      BY <3>1, <3>2 DEF Integrals
    <3>4. QED
      BY <1>8, <2>2, <3>3
  <2>3. QED
    BY <2>1, <2>2
<1>22. ASSUME c.mode = "WINDOWED"
       PROVE  /\ q.window_counter + 1 \in 1..c.window_steps /\ q.window_counter <= n
              /\ (n - q.window_counter) % c.window_steps = 0
  <2> DEFINE b == c.window_steps
             i == x.window_counter
  <2>1. b \in Nat \ {0} /\ i \in 1..b /\ i <= n /\ (n - i) % b = 0
    BY <1>1, <1>2, <1>22 DEF WindowOk, WindowTurn
  <2>2. CASE isW
    <3>1. i = b
      BY <1>6, <1>22, <2>1, <2>2
    <3>2. q.window_counter = 0
      BY <1>10, <1>13, <2>2
    <3>3. n % b = 0
      <4> HIDE DEF b, i
      <4> DEFINE a == n - i
      <4>1. a \in Nat /\ a + i = n /\ Whole(a, b)
        BY <2>1 DEF Whole
      <4> HIDE DEF a
      <4>2. Whole(a + i, b)
        BY <2>1, <3>1, <4>1, WindowWraps
      <4>3. QED
        BY <4>1, <4>2 DEF Whole
    <3>4. n - 0 = n /\ 0 + 1 \in 1..b /\ 0 <= n
      BY <2>1
    <3>5. QED
      BY <3>2, <3>3, <3>4
  <2>3. CASE ~isW
    <3>1. q.window_counter = i
      BY <1>11, <1>13, <2>3
    <3>2. i < b
      BY <1>6, <1>22, <2>1, <2>3
    <3>3. i + 1 \in 1..b
      BY <2>1, <3>2
    <3>4. QED
      BY <2>1, <3>1, <3>3
  <2>4. QED
    BY <2>2, <2>3
<1>23. QED
  BY <1>13, <1>16, <1>20, <1>21, <1>22 DEF Restarted

(* The results of a response have their types. *)
LEMMA ResponseTypes ==
  ASSUME NEW x, NEW seq \in Seq(Record), NEW n \in Nat, n <= Len(seq), NEW p \in 1..Len(seq),
         NEW from \in 1..n + 1, Response(x, seq, p, from, n)
  PROVE  /\ x.rise_time \in Nat \union {UNSET} /\ x.settling_time \in Nat \union {UNSET}
         /\ x.t_elapsed \in Nat /\ (x.step_size = 0 => x.peak_overshoot \in Nat)
         /\ x.step_ref \in Int /\ x.step_target \in Int /\ x.step_size \in Int
<1>1. n \in Int /\ from \in Int /\ from >= 1 /\ from \in Nat /\ seq[p].r \in Int /\ seq[p].y \in Int
  BY SampleOf
<1>2. ASSUME NEW a \in Int, NEW b \in Int, a >= 1, b <= n PROVE Span(seq, a, b) \in Nat
  <2>1. b <= Len(seq)
    BY <1>1, <1>2
  <2>2. QED
    BY <1>2, <2>1, SpanIsTotal
<1>3. x.t_elapsed \in Nat
  BY <1>1, <1>2 DEF Response
<1>4. x.step_ref \in Int /\ x.step_target \in Int /\ x.step_size \in Int
  BY <1>1 DEF Response, StepSize
<1>5. CASE x.step_size = 0
  BY <1>3, <1>4, <1>5 DEF Response
<1>6. CASE x.step_size # 0
  <2> DEFINE L == Low(seq, p, from, n)
             H == High(seq, p, from, n)
             T == InSettled(seq, p, x.cfg, from, n)
  <2>1. /\ x.rise_time = IF H = {} THEN UNSET ELSE Span(seq, Min(L) + 1, Min(H))
        /\ x.settling_time = IF T = {} THEN UNSET ELSE Span(seq, from, Min(T))
    BY <1>6 DEF Response, Rises, Settles
  <2>2. L \subseteq from..n /\ H \subseteq from..n /\ T \subseteq from..n /\ (H # {} => L # {})
    BY DEF Low, High, InSettled
  <2> HIDE DEF L, H, T
  <2>3. ASSUME NEW S, S \subseteq from..n, S # {} PROVE Min(S) \in from..n
    <3>1. S \subseteq Nat
      BY <1>1, <2>3
    <3>2. Min(S) \in S
      BY <2>3, <3>1, MinOfNumbers
    <3>3. QED
      BY <2>3, <3>2
  <2>4. H # {} => Span(seq, Min(L) + 1, Min(H)) \in Nat
    <3> HAVE H # {}
    <3>1. Min(L) \in from..n /\ Min(H) \in from..n
      BY <2>2, <2>3
    <3> DEFINE a == Min(L) + 1
               b == Min(H)
    <3>2. a \in Int /\ a >= 1 /\ b \in Int /\ b <= n
      BY <1>1, <3>1
    <3> HIDE DEF a, b
    <3>3. Span(seq, a, b) \in Nat
      BY <1>2, <3>2
    <3>4. QED
      BY <3>3 DEF a, b
  <2>5. T # {} => Span(seq, from, Min(T)) \in Nat
    <3> HAVE T # {}
    <3>1. Min(T) \in from..n
      BY <2>2, <2>3
    <3> DEFINE b == Min(T)
    <3>2. b \in Int /\ b <= n
      BY <1>1, <3>1
    <3> HIDE DEF b
    <3>3. Span(seq, from, b) \in Nat
      BY <1>1, <1>2, <3>2
    <3>4. QED
      BY <3>3 DEF b
  <2>6. QED
    BY <1>3, <1>4, <1>6, <2>1, <2>4, <2>5
<1>7. QED
  BY <1>5, <1>6

(* A sample takes a sound instance to a sound one. *)
LEMMA MetricsStepSound ==
  ASSUME NEW x, NEW seq, SoundMetrics(x, seq), x.is_initialised, NEW s \in Record
  PROVE  SoundMetrics(MetricsStep(x, s.r, s.y, s.dt), Append(seq, s))
<1> DEFINE n == Len(seq)
           new == Append(seq, s)
           c == x.cfg
           q == TransientRestart(WindowRestart(x), s.r, s.y)
           z == MetricsStep(x, s.r, s.y, s.dt)
           p == StepOf(new, c, n + 1)
           from == RestartOf(new, c, n + 1)
           win == WindowOf(c, n + 1)
<1>1. /\ x \in MetricsInstance /\ seq \in Seq(Record) /\ ValidMetricsConfig(c)
      /\ c \in MetricsConfig /\ s.r \in Int /\ s.y \in Int /\ s.dt \in Nat
  BY DEF SoundMetrics, Record, MetricsInstance
<1>2. WindowOk(c) /\ c.mode \in MetricsMode /\ c.band_pct \in Int
  BY <1>1, ValidMetricsFacts
<1>3. /\ new \in Seq(Record) /\ n \in Nat /\ Len(new) = n + 1 /\ new[n + 1] = s
  BY <1>1, Appended
<1>4. Restarted(q, new, c, n) /\ Lasting(q, x)
  <2>1. CASE n = 0
    <3>1. Restarted(q, new, c, 0) /\ Lasting(q, x)
      <4> HIDE DEF q, new, c
      <4>1. q = TransientRestart(WindowRestart(x), s.r, s.y) /\ new = Append(seq, s) /\ c = x.cfg
        BY DEF q, new, c
      <4>2. QED
        BY <2>1, <4>1, FirstRestart
    <3> HIDE DEF n
    <3>2. QED
      BY <2>1, <3>1
  <2>2. CASE n # 0
    <3> HIDE DEF q, new, c, n
    <3>1. q = TransientRestart(WindowRestart(x), s.r, s.y) /\ new = Append(seq, s) /\ c = x.cfg
          /\ n = Len(seq) /\ n \in Nat \ {0}
      BY <1>3, <2>2 DEF q, new, c, n
    <3>2. QED
      BY <3>1, LaterRestart
  <2>3. QED
    BY <2>1, <2>2
<1>5. /\ q \in MetricsInstance /\ q.prev_valid /\ q.cfg = c /\ q.enabled = x.enabled
      /\ q.is_initialised = x.is_initialised
      /\ Response(q, new, p, from, n) /\ Integrals(q, new, win, n)
      /\ c.mode = "WINDOWED" =>
           /\ q.window_counter + 1 \in 1..c.window_steps /\ q.window_counter <= n
           /\ (n - q.window_counter) % c.window_steps = 0
  BY <1>4 DEF Restarted, Lasting
<1>6. IsMetrics(z) /\ Measured(q, z, s.r, s.y, s.dt)
  <2> HIDE DEF q
  <2>1. q = TransientRestart(WindowRestart(x), s.r, s.y)
    BY DEF q
  <2>2. QED
    BY <1>5, <2>1, StepMeasures
<1> HIDE DEF q, z, new, n, c
<1>7. n + 1 \in Nat \ {0} /\ n + 1 <= Len(new) /\ n + 1 \in Int
  BY <1>3
<1>8. p \in 1..n + 1 /\ win \in 1..n + 1 /\ from \in 1..n + 1
  BY <1>2, <1>7, RestartFacts DEF WindowOk
<1> HIDE DEF p, win
<1>9. Measured(q, z, new[n + 1].r, new[n + 1].y, new[n + 1].dt)
  BY <1>3, <1>6
<1>10. Response(z, new, p, from, n + 1) /\ (q.step_size # 0 => z.peak_overshoot \in Nat)
  <2> HIDE DEF from
  <2>1. /\ new \in Seq(Record) /\ n \in Nat /\ n + 1 <= Len(new) /\ p \in 1..Len(new)
        /\ from \in 1..n + 1 /\ q \in MetricsInstance /\ q.cfg.band_pct \in Int
        /\ Response(q, new, p, from, n)
    BY <1>2, <1>3, <1>5, <1>7, <1>8
  <2>2. QED
    BY <1>9, <2>1, ResponseNext
<1>11. Integrals(z, new, win, n + 1) /\ z.iae \in Nat /\ z.ise \in Nat /\ z.itae \in Nat
  <2>1. z.t_elapsed = Span(new, RestartOf(new, q.cfg, n + 1), n + 1)
    BY <1>5, <1>10 DEF Response
  <2>2. WindowOk(q.cfg)
    BY <1>2, <1>5
  <2>3. QED
    BY <1>3, <1>5, <1>7, <1>8, <1>9, <2>1, <2>2, IntegralsNext
<1>12. /\ z.cfg = c /\ z.enabled = x.enabled /\ z.is_initialised = x.is_initialised
       /\ z.prev_valid = q.prev_valid /\ z.r_prev = s.r /\ z.window_counter = q.window_counter + 1
       /\ z.step_size = q.step_size
  BY <1>5, <1>6 DEF Measured
<1>13. /\ z.rise_time \in Nat \union {UNSET} /\ z.settling_time \in Nat \union {UNSET}
       /\ z.t_elapsed \in Nat /\ (z.step_size = 0 => z.peak_overshoot \in Nat)
       /\ z.step_ref \in Int /\ z.step_target \in Int /\ z.step_size \in Int
  <2> HIDE DEF from
  <2> DEFINE b == n + 1
  <2>1. b \in Nat /\ b <= Len(new) /\ p \in 1..Len(new) /\ from \in 1..b + 1
        /\ Response(z, new, p, from, b)
    BY <1>3, <1>7, <1>8, <1>10
  <2> HIDE DEF b
  <2>2. QED
    BY <1>3, <2>1, ResponseTypes
<1>14. z.rise_10pct_crossed \in BOOLEAN /\ z.t_rise_start \in Nat /\ z.in_band_time \in Nat
  <2>1. q.rise_10pct_crossed \in BOOLEAN /\ q.t_rise_start \in Nat /\ q.in_band_time \in Nat
    BY <1>5 DEF MetricsInstance
  <2>2. CASE q.step_size = 0
    BY <1>6, <2>1, <2>2 DEF Measured
  <2>3. CASE q.step_size # 0
    <3>1. MeasuresRise(q, z, s.y) /\ MeasuresSettling(q, z, s.r - s.y, s.dt)
      BY <1>6, <2>3 DEF Measured
    <3>2. Crosses(q, s.y) \in BOOLEAN
      BY <2>1 DEF Crosses, FractionReached
    <3>3. z.rise_10pct_crossed \in BOOLEAN
      BY <3>1, <3>2 DEF MeasuresRise
    <3>4. z.t_rise_start \in Nat
      BY <1>13, <2>1, <3>1 DEF MeasuresRise, RiseStart
    <3>5. z.in_band_time \in Nat
      BY <1>1, <2>1, <3>1 DEF MeasuresSettling
    <3>6. QED
      BY <3>3, <3>4, <3>5
  <2>4. QED
    BY <2>2, <2>3
<1>15. z \in MetricsInstance
  <2>1. /\ z.cfg \in MetricsConfig /\ z.peak_overshoot \in Nat /\ z.r_prev \in Int
        /\ z.window_counter \in Nat /\ z.prev_valid \in BOOLEAN
        /\ z.enabled \in BOOLEAN /\ z.is_initialised \in BOOLEAN
    <3>1. q.window_counter \in Nat /\ q.prev_valid \in BOOLEAN
      BY <1>5 DEF MetricsInstance
    <3>2. x.enabled \in BOOLEAN /\ x.is_initialised \in BOOLEAN
      BY <1>1 DEF MetricsInstance
    <3>3. z.window_counter \in Nat
      BY <1>12, <3>1
    <3>4. z.peak_overshoot \in Nat
      BY <1>10, <1>12, <1>13
    <3>5. QED
      BY <1>1, <1>12, <3>1, <3>2, <3>3, <3>4
  <2>2. z = [f \in MetricsFields |-> z[f]]
    BY <1>6 DEF IsMetrics
  <2>3. QED
    BY <1>11, <1>13, <1>14, <2>1, <2>2 DEF MetricsInstance, MetricsFields
<1>16. WindowTurn(z, n + 1)
  <2>1. ASSUME c.mode = "WINDOWED"
        PROVE  /\ z.window_counter \in 1..c.window_steps /\ z.window_counter <= n + 1
               /\ ((n + 1) - z.window_counter) % c.window_steps = 0
    <3>1. /\ q.window_counter + 1 \in 1..c.window_steps /\ q.window_counter <= n
          /\ (n - q.window_counter) % c.window_steps = 0
      BY <1>5, <2>1
    <3>2. q.window_counter \in Nat
      BY <1>5 DEF MetricsInstance
    <3>3. (n + 1) - z.window_counter = n - q.window_counter /\ z.window_counter <= n + 1
      BY <1>3, <1>12, <3>1, <3>2
    <3>4. QED
      BY <1>12, <3>1, <3>3
  <2>2. z.cfg = c
    BY <1>12
  <2>3. QED
    BY <2>1, <2>2 DEF WindowTurn
<1>17. Len(new) # 0 /\ Len(new) = n + 1
  BY <1>3
<1>18. z.r_prev = new[Len(new)].r
  BY <1>3, <1>12
<1>19. SoundMetrics(z, new)
  BY <1>1, <1>3, <1>5, <1>10, <1>11, <1>12, <1>15, <1>16, <1>17, <1>18
     DEF SoundMetrics, p, from, win
<1>20. QED
  BY <1>19 DEF z, new

(* An instance that was just initialised or reset has seen nothing. *)
LEMMA MetricsSeed ==
  ASSUME NEW c \in MetricsConfig, NEW on \in BOOLEAN, NEW init \in BOOLEAN,
         init => ValidMetricsConfig(c)
  PROVE  SoundMetrics(MetricsSeeded(c, on, init), <<>>)
<1> DEFINE x == MetricsSeeded(c, on, init)
<1>1. x \in MetricsInstance /\ x.cfg = c /\ x.enabled = on /\ x.is_initialised = init
      /\ ~x.prev_valid
  BY DEF MetricsSeeded, MetricsInstance
<1>2. <<>> \in Seq(Record) /\ Len(<<>>) = 0
  OBVIOUS
<1>3. x = MetricsSeeded(x.cfg, x.enabled, x.is_initialised)
  BY <1>1
<1> HIDE DEF x
<1>4. SoundMetrics(x, <<>>)
  BY <1>1, <1>2, <1>3 DEF SoundMetrics
<1>5. QED
  BY <1>4 DEF x

(* The flag is the only difference. *)
LEMMA SeededEnabled ==
  ASSUME NEW c, NEW e, NEW i, NEW on
  PROVE  [MetricsSeeded(c, e, i) EXCEPT !.enabled = on] = MetricsSeeded(c, on, i)
<1> DEFINE x == MetricsSeeded(c, e, i)
           z == [x EXCEPT !.enabled = on]
           y == MetricsSeeded(c, on, i)
<1>1. x = [f \in MetricsFields |-> x[f]] /\ y = [f \in MetricsFields |-> y[f]]
  BY DEF MetricsSeeded, MetricsFields
<1>2. /\ x.cfg = y.cfg /\ x.iae = y.iae /\ x.ise = y.ise /\ x.itae = y.itae
      /\ x.peak_overshoot = y.peak_overshoot /\ x.rise_time = y.rise_time
      /\ x.settling_time = y.settling_time /\ x.step_ref = y.step_ref
      /\ x.step_target = y.step_target /\ x.step_size = y.step_size
      /\ x.t_elapsed = y.t_elapsed /\ x.t_rise_start = y.t_rise_start
      /\ x.in_band_time = y.in_band_time /\ x.r_prev = y.r_prev
      /\ x.window_counter = y.window_counter
      /\ x.rise_10pct_crossed = y.rise_10pct_crossed /\ x.prev_valid = y.prev_valid
      /\ x.is_initialised = y.is_initialised
  BY DEF MetricsSeeded
<1>3. y.enabled = on
  BY DEF MetricsSeeded
<1> HIDE DEF x, y
<1>4. z = [f \in MetricsFields |-> z[f]]
  BY <1>1
<1>5. \A f \in MetricsFields : z[f] = y[f]
  BY <1>1, <1>2, <1>3 DEF MetricsFields
<1> HIDE DEF z
<1>6. QED
  BY <1>1, <1>4, <1>5, Zenon DEF x, y, z

(* Enabling or disabling changes nothing else. *)
LEMMA EnableSound ==
  ASSUME NEW x, NEW seq, SoundMetrics(x, seq), NEW on \in BOOLEAN
  PROVE  SoundMetrics([x EXCEPT !.enabled = on], seq)
<1> DEFINE z == [x EXCEPT !.enabled = on]
<1>1. x \in MetricsInstance
  BY DEF SoundMetrics
<1>2. /\ z \in MetricsInstance /\ z.enabled = on
      /\ z.cfg = x.cfg /\ z.iae = x.iae /\ z.ise = x.ise /\ z.itae = x.itae
      /\ z.peak_overshoot = x.peak_overshoot /\ z.rise_time = x.rise_time
      /\ z.settling_time = x.settling_time /\ z.step_ref = x.step_ref
      /\ z.step_target = x.step_target /\ z.step_size = x.step_size
      /\ z.t_elapsed = x.t_elapsed /\ z.t_rise_start = x.t_rise_start
      /\ z.in_band_time = x.in_band_time /\ z.r_prev = x.r_prev
      /\ z.window_counter = x.window_counter
      /\ z.rise_10pct_crossed = x.rise_10pct_crossed /\ z.prev_valid = x.prev_valid
      /\ z.is_initialised = x.is_initialised
  BY <1>1 DEF MetricsInstance
<1>3. ASSUME x = MetricsSeeded(x.cfg, x.enabled, x.is_initialised)
      PROVE  z = MetricsSeeded(z.cfg, z.enabled, z.is_initialised)
  <2> DEFINE c == x.cfg
             e == x.enabled
             i == x.is_initialised
  <2> HIDE DEF c, e, i
  <2>1. [MetricsSeeded(c, e, i) EXCEPT !.enabled = on] = MetricsSeeded(c, on, i)
    BY SeededEnabled
  <2>2. z = MetricsSeeded(c, on, i)
    BY <1>3, <2>1 DEF c, e, i
  <2>3. QED
    BY <1>2, <2>2 DEF c, i
<1> HIDE DEF z
<1>4. ASSUME NEW p, NEW from, NEW n, Response(x, seq, p, from, n)
      PROVE  Response(z, seq, p, from, n)
  BY <1>2, <1>4 DEF Response, Rises, Overshoots, Settles
<1>5. ASSUME NEW w, NEW n, Integrals(x, seq, w, n) PROVE Integrals(z, seq, w, n)
  BY <1>2, <1>5 DEF Integrals
<1>6. ASSUME NEW n, WindowTurn(x, n) PROVE WindowTurn(z, n)
  BY <1>2, <1>6 DEF WindowTurn
<1>7. SoundMetrics(z, seq)
  BY <1>2, <1>3, <1>4, <1>5, <1>6 DEF SoundMetrics
<1>8. QED
  BY <1>7 DEF z

(* The metrics in a step of the loop. *)
LEMMA MetricsCalls ==
  ASSUME SoundMetrics(m, ms), MonitorsNext
  PROVE  SoundMetrics(m, ms)'
<1>1. m \in MetricsInstance /\ (m.is_initialised => ValidMetricsConfig(m.cfg))
  BY DEF SoundMetrics
<1>2. m.cfg \in MetricsConfig /\ m.enabled \in BOOLEAN /\ m.is_initialised \in BOOLEAN
  BY <1>1 DEF MetricsInstance
<1>3. ASSUME m' = m, ms' = ms PROVE SoundMetrics(m, ms)'
  BY <1>3
<1>4. CASE InitHealth \/ ClearHealth
  BY <1>3, <1>4 DEF InitHealth, ClearHealth, HealthCall, metricsVars
<1>5. CASE InitMetrics
  <2>1. PICK c \in MetricsConfigs :
          ValidMetricsConfig(c) /\ MetricsCall(MetricsSeeded(c, FALSE, TRUE), <<>>)
    BY <1>5 DEF InitMetrics
  <2>2. c \in MetricsConfig
    BY MonitorsAssumption
  <2>3. SoundMetrics(MetricsSeeded(c, FALSE, TRUE), <<>>)
    BY <2>1, <2>2, MetricsSeed
  <2>4. QED
    BY <2>1, <2>3 DEF MetricsCall
<1>6. CASE ResetMetrics
  <2>1. m' = MetricsSeeded(m.cfg, m.enabled, TRUE) /\ ms' = <<>> /\ m.is_initialised
    BY <1>6 DEF ResetMetrics, MetricsCall
  <2>2. SoundMetrics(MetricsSeeded(m.cfg, m.enabled, TRUE), <<>>)
    BY <1>1, <1>2, <2>1, MetricsSeed
  <2>3. QED
    BY <2>1, <2>2
<1>7. CASE EnableMetrics
  <2>1. PICK enable \in BOOLEAN : m' = [m EXCEPT !.enabled = enable] /\ ms' = ms
    BY <1>7 DEF EnableMetrics, MetricsCall
  <2>2. SoundMetrics([m EXCEPT !.enabled = enable], ms)
    BY EnableSound
  <2>3. QED
    BY <2>1, <2>2
<1>8. CASE Sample
  <2>1. PICK s \in Samples :
          IF "metrics" \in attached THEN SampleMetrics(s) ELSE UNCHANGED metricsVars
    BY <1>8 DEF Sample
  <2>2. CASE "metrics" \in attached /\ m.is_initialised /\ m.enabled /\ GoodSample(s)
    <3>1. m' = MetricsStep(m, s.r, s.y, s.dt) /\ ms' = Append(ms, s)
      BY <2>1, <2>2 DEF SampleMetrics
    <3>2. s \in Record
      BY <2>2, GoodRecord
    <3>3. SoundMetrics(MetricsStep(m, s.r, s.y, s.dt), Append(ms, s))
      BY <2>2, <3>2, MetricsStepSound
    <3>4. QED
      BY <3>1, <3>3
  <2>3. CASE ~("metrics" \in attached /\ m.is_initialised /\ m.enabled /\ GoodSample(s))
    BY <1>3, <2>1, <2>3 DEF SampleMetrics, metricsVars
  <2>4. QED
    BY <2>2, <2>3
<1>9. QED
  BY <1>4, <1>5, <1>6, <1>7, <1>8 DEF MonitorsNext

(* The metrics' inductive invariant. *)
LEMMA MetricsInvariance == MonitorsSpec => []SoundMetrics(m, ms)
<1>1. MonitorsInit => SoundMetrics(m, ms)
  <2> SUFFICES ASSUME MonitorsInit PROVE SoundMetrics(m, ms)
    OBVIOUS
  <2> DEFINE c == [mode |-> "CUMULATIVE", window_steps |-> 0, band_pct |-> 0,
                   settle_confirm |-> 0, step_thresh |-> 0]
  <2>1. c \in MetricsConfig
    BY DEF MetricsConfig, MetricsMode, Float
  <2>2. m = MetricsSeeded(c, FALSE, FALSE) /\ ms = <<>>
    BY DEF MonitorsInit, ZeroMetrics
  <2> HIDE DEF c
  <2>3. QED
    BY <2>1, <2>2, MetricsSeed
<1>2. SoundMetrics(m, ms) /\ [MonitorsNext]_monitorsVars => SoundMetrics(m, ms)'
  <2> SUFFICES ASSUME SoundMetrics(m, ms), [MonitorsNext]_monitorsVars PROVE SoundMetrics(m, ms)'
    OBVIOUS
  <2>1. CASE MonitorsNext
    BY <2>1, MetricsCalls
  <2>2. CASE UNCHANGED monitorsVars
    BY <2>2 DEF monitorsVars, metricsVars
  <2>3. QED
    BY <2>1, <2>2
<1>3. QED
  BY <1>1, <1>2, PTL DEF MonitorsSpec

(* The invariant says what the results are. *)
LEMMA SoundIsHistory == SoundMetrics(m, ms) => MetricsAreHistory
<1> SUFFICES ASSUME SoundMetrics(m, ms) PROVE MetricsAreHistory
  OBVIOUS
<1> DEFINE n     == Len(ms)
           c     == m.cfg
           from  == LastRestart(n)
           p     == LastStep(n)
           ref   == ms[LastStep(n)]
           size  == ref.r - ref.y
           now   == from..n
           level(k, num) == 10 * (ms[k].y - ref.y) * Sign(size) >= num * Abs(size)
           low   == {k \in now : level(k, 1)}
           high  == {k \in now : level(k, 9) /\ \E j \in low : j <= k}
           over  == {Quot(100 * (ms[k].y - ref.r) * Sign(size), Abs(size)) : k \in now}
           out   == {k \in now : 100 * Abs(Err(ms, k)) > Abs(size) * m.cfg.band_pct}
           settled ==
             {k \in now \ out :
                2 * Span(ms, LastOf({j \in out : j < k}, from - 1) + 1, k) + ms[k].dt
                  >= 2 * m.cfg.settle_confirm}
<1>1. /\ m \in MetricsInstance /\ ms \in Seq(Record)
      /\ (m.is_initialised => ValidMetricsConfig(c)) /\ (~m.is_initialised => n = 0)
      /\ n # 0 =>
           /\ Response(m, ms, StepOf(ms, c, n), RestartOf(ms, c, n), n)
           /\ Integrals(m, ms, WindowOf(c, n), n)
  BY DEF SoundMetrics
<1>2. ASSUME n > 0
      PROVE  /\ m.iae = MapThenSumSet(LAMBDA k : Abs(Err(ms, k)) * ms[k].dt, LastWindow(n)..n)
             /\ m.ise = MapThenSumSet(LAMBDA k : (Err(ms, k) * Err(ms, k)) * ms[k].dt,
                                      LastWindow(n)..n)
             /\ m.itae = MapThenSumSet(LAMBDA k : (Abs(Err(ms, k)) * Span(ms, LastRestart(k), k))
                                                    * ms[k].dt, LastWindow(n)..n)
             /\ size # 0 =>
                  /\ m.rise_time = IF high = {} THEN UNSET
                                   ELSE Span(ms, Min(low) + 1, Min(high))
                  /\ m.peak_overshoot = Max(over \union {0})
                  /\ m.settling_time = TimeOfFirst(settled, from)
             /\ size = 0 => m.rise_time = UNSET /\ m.settling_time = UNSET /\ m.peak_overshoot = 0
  <2>1. /\ n \in Nat \ {0} /\ n \in Nat /\ n # 0 /\ m.is_initialised /\ ValidMetricsConfig(c)
        /\ c \in MetricsConfig
    BY <1>1, <1>2 DEF MetricsInstance
  <2>2. WindowOk(c)
    BY <2>1, ValidMetricsFacts
  <2>3. p = StepOf(ms, c, n)
    BY DEF LastStep, StepOf, StepAt, IsStep
  <2>4. from = RestartOf(ms, c, n)
    BY DEF LastRestart, RestartOf, StepAt, IsStep, WindowAt, IsWindow
  <2>5. LastWindow(n) = WindowOf(c, n)
    BY DEF LastWindow, WindowOf, WindowAt, IsWindow
  <2>6. p \in 1..n /\ LastWindow(n) \in 1..n /\ from \in 1..n
    BY <2>1, <2>2, <2>3, <2>4, <2>5, RestartFacts DEF WindowOk
  <2>7. Response(m, ms, p, from, n) /\ Integrals(m, ms, LastWindow(n), n)
    BY <1>1, <2>1, <2>3, <2>4, <2>5
  <2>8. size = StepSize(ms, p)
    BY DEF StepSize
  <2>9. low = Low(ms, p, from, n) /\ high = High(ms, p, from, n)
    <3>1. low = Low(ms, p, from, n)
      BY DEF Low, Level, StepSize
    <3>2. high = High(ms, p, from, n)
      BY DEF High, Low, Level, StepSize
    <3>3. QED
      BY <3>1, <3>2
  <2>10. over = {Overshoot(ms, p, k) : k \in now}
    BY DEF Overshoot, StepSize
  <2>11. settled = InSettled(ms, p, c, from, n)
    BY DEF InSettled, LastOut, Out, OutOfBand, StepSize
  <2>12. /\ m.iae = MapThenSumSet(LAMBDA k : Abs(Err(ms, k)) * ms[k].dt, LastWindow(n)..n)
         /\ m.ise = MapThenSumSet(LAMBDA k : (Err(ms, k) * Err(ms, k)) * ms[k].dt,
                                  LastWindow(n)..n)
         /\ m.itae = MapThenSumSet(LAMBDA k : (Abs(Err(ms, k)) * Span(ms, LastRestart(k), k))
                                                * ms[k].dt, LastWindow(n)..n)
    <3> DEFINE w == LastWindow(n)
               b == n
    <3>1. w \in Int /\ w >= 1 /\ b \in Int /\ b <= Len(ms)
      BY <2>1, <2>6
    <3>2. ms \in Seq(Record) /\ WindowOk(m.cfg)
      BY <1>1, <2>2
    <3> HIDE DEF w, b
    <3>3. MapThenSumSet(LAMBDA k : Abs(Err(ms, k)) * ms[k].dt, w..b) = Total(AbsPart(ms), w..b)
      BY <3>1, <3>2, AbsTotal
    <3>4. MapThenSumSet(LAMBDA k : (Err(ms, k) * Err(ms, k)) * ms[k].dt, w..b)
            = Total(SquarePart(ms), w..b)
      BY <3>1, <3>2, SquareTotal
    <3>5. MapThenSumSet(LAMBDA k : (Abs(Err(ms, k)) * Span(ms, LastRestart(k), k)) * ms[k].dt, w..b)
            = Total(TimePart(ms, m.cfg), w..b)
      BY <3>1, <3>2, TimeTotal
    <3>6. QED
      BY <2>7, <3>3, <3>4, <3>5 DEF Integrals, w, b
  <2>13. m.step_size = size
    BY <2>7, <2>8 DEF Response
  <2> HIDE DEF low, high, over, settled, size, p, from, n, c
  <2>14. ASSUME size # 0
         PROVE  /\ m.rise_time = IF high = {} THEN UNSET ELSE Span(ms, Min(low) + 1, Min(high))
                /\ m.peak_overshoot = Max(over \union {0})
                /\ m.settling_time = TimeOfFirst(settled, from)
    <3>1. Rises(m, ms, p, from, n) /\ Overshoots(m, ms, p, from, n) /\ Settles(m, ms, p, from, n)
      BY <2>7, <2>13, <2>14 DEF Response
    <3>2. m.rise_time = IF high = {} THEN UNSET ELSE Span(ms, Min(low) + 1, Min(high))
      BY <2>9, <3>1 DEF Rises
    <3>3. m.settling_time = TimeOfFirst(settled, from)
      BY <2>11, <3>1 DEF Settles, TimeOfFirst, c
    <3>4. m.peak_overshoot = Max(over \union {0})
      <4>1. ASSUME NEW k \in now PROVE Overshoot(ms, p, k) \in Int
        <5>1. k \in 1..Len(ms) /\ p \in 1..Len(ms)
          BY <2>1, <2>6, <4>1 DEF n
        <5>2. ms[k].y \in Int /\ ms[p].r \in Int /\ ms[p].y \in Int
          BY <1>1, <5>1, SampleOf
        <5> DEFINE a == 100 * (ms[k].y - ms[p].r) * Sign(StepSize(ms, p))
                   b == Abs(StepSize(ms, p))
        <5>3. StepSize(ms, p) \in Int /\ StepSize(ms, p) # 0
          BY <2>8, <2>14, <5>2 DEF StepSize
        <5>4. a \in Int /\ b \in Nat \ {0}
          BY <5>2, <5>3 DEF Sign, Abs
        <5>5. Overshoot(ms, p, k) = Quot(a, b)
          BY DEF Overshoot
        <5> HIDE DEF a, b
        <5>6. Quot(a, b) \in Int
          BY <5>4 DEF Quot
        <5>7. QED
          BY <5>5, <5>6
      <4> DEFINE S == over \union {0}
      <4>2. S \subseteq Int
        BY <2>10, <4>1
      <4>3. m.peak_overshoot \in S
        BY <2>10, <3>1 DEF Overshoots
      <4>4. \A y \in S : y <= m.peak_overshoot
        <5>1. m.peak_overshoot >= 0
          BY <1>1 DEF MetricsInstance
        <5>2. QED
          BY <1>1, <2>10, <3>1, <5>1 DEF Overshoots, MetricsInstance
      <4> HIDE DEF S
      <4>5. Max(S) = m.peak_overshoot
        BY <4>2, <4>3, <4>4, MaxIs
      <4>6. QED
        BY <4>5 DEF S
    <3>5. QED
      BY <3>2, <3>3, <3>4
  <2>15. ASSUME size = 0
         PROVE  m.rise_time = UNSET /\ m.settling_time = UNSET /\ m.peak_overshoot = 0
    BY <2>7, <2>13, <2>15 DEF Response
  <2>16. QED
    BY <2>12, <2>14, <2>15 DEF n
<1>3. QED
  BY <1>1, <1>2 DEF MetricsAreHistory

(* RON-FR-951, RON-FR-952, RON-FR-954: the error integrals are those of    *)
(* the samples of the current window, and rise, overshoot and settling     *)
(* those of the response since the last setpoint step or window boundary,  *)
(* for every configuration, window size and sequence of samples.           *)
THEOREM MetricsHistory == MonitorsSpec => []MetricsAreHistory
  BY MetricsInvariance, SoundIsHistory, PTL
-----------------------------------------------------------------------------
(***************************************************************************)
(* Gain scheduling.                                                        *)
(***************************************************************************)
(* What a table that passes the validation holds. *)
LEMMA TableFacts ==
  ASSUME NEW t \in Tables, ValidTable(t)
  PROVE  /\ t.n_points \in Nat /\ t.n_points >= 1 /\ t.mode \in GsMode
         /\ \A k \in 1..t.n_points :
              /\ t.points[k] \in Breakpoint /\ t.points[k].sigma \in Int
              /\ t.points[k].cfg \in Config /\ ValidConfig(t.points[k].cfg)
<1>1. t \in Table /\ t.n_points \in 1..MaxBreakpoints /\ MaxBreakpoints \in Nat
  <2>1. t \in Table /\ MaxBreakpoints \in 1..255
    BY GainSchedAssumption
  <2>2. t.n_points \in 1..MaxBreakpoints
    BY DEF ValidTable
  <2>3. QED
    BY <2>1, <2>2
<1>2. t.points \in Seq(Breakpoint) /\ t.n_points <= Len(t.points) /\ t.n_points \in Nat
  BY <1>1, GainSchedAssumption DEF Table
<1>3. ASSUME NEW k \in 1..t.n_points
      PROVE  /\ t.points[k] \in Breakpoint /\ t.points[k].sigma \in Int
             /\ t.points[k].cfg \in Config /\ ValidConfig(t.points[k].cfg)
  <2>1. k \in 1..Len(t.points)
    BY <1>2
  <2>2. t.points[k] \in Breakpoint
    BY <1>2, <2>1
  <2>3. IsFinite(t.points[k].sigma) /\ ValidConfig(t.points[k].cfg)
    BY DEF ValidTable
  <2>4. QED
    BY <2>2, <2>3, FiniteIsInt DEF Breakpoint
<1>4. QED
  BY <1>1, <1>2, <1>3 DEF ValidTable

(* The breakpoints are in order, not only each with its neighbour. *)
LEMMA InOrder ==
  ASSUME NEW t \in Tables, ValidTable(t)
  PROVE  \A j, k \in 1..t.n_points : j < k => t.points[j].sigma < t.points[k].sigma
<1> DEFINE n == t.n_points
           at(k) == t.points[k].sigma
           Bad == {d \in Nat : \E j, k \in 1..n : k - j = d /\ j < k /\ ~(at(j) < at(k))}
<1>1. n \in Nat /\ \A k \in 1..n : at(k) \in Int
  BY TableFacts
<1>2. \A k \in 2..n : at(k - 1) < at(k)
  <2>1. \A k \in 2..n : at(k) > at(k - 1)
    BY DEF ValidTable
  <2>2. \A k \in 2..n : k - 1 \in 1..n /\ k \in 1..n
    BY <1>1
  <2> HIDE DEF at
  <2>3. QED
    BY <1>1, <2>1, <2>2
<1> HIDE DEF n, at
<1>3. Bad = {}
  <2>1. SUFFICES ASSUME Bad # {} PROVE FALSE
    OBVIOUS
  <2>2. PICK d \in Bad : \A e \in Bad : d <= e
    BY <2>1, LeastNumber
  <2>3. PICK j \in 1..n, k \in 1..n : k - j = d /\ j < k /\ ~(at(j) < at(k))
    BY <2>2
  <2>4. CASE k = j + 1
    <3>1. k \in 2..n /\ k - 1 = j
      BY <1>1, <2>3, <2>4
    <3>2. QED
      BY <1>2, <2>3, <3>1
  <2>5. CASE k # j + 1
    <3>1. k - 1 \in 1..n /\ k \in 2..n /\ (k - 1) - j \in Nat /\ (k - 1) - j < d /\ j < k - 1
      BY <1>1, <2>3, <2>5
    <3>2. (k - 1) - j \notin Bad
      <4>1. d \in Nat
        BY <2>2
      <4> HIDE DEF Bad
      <4>2. QED
        BY <2>2, <3>1, <4>1
    <3>3. at(j) < at(k - 1)
      BY <3>1, <3>2
    <3>4. at(k - 1) < at(k)
      BY <1>2, <3>1
    <3>5. QED
      BY <1>1, <2>3, <3>1, <3>3, <3>4
  <2>6. QED
    BY <2>4, <2>5
<1>4. ASSUME NEW j \in 1..n, NEW k \in 1..n, j < k PROVE at(j) < at(k)
  <2>1. k - j \in Nat
    BY <1>1, <1>4
  <2>2. QED
    BY <1>3, <1>4, <2>1
<1>5. QED
  BY <1>4 DEF n, at

(* A bisection of 1..n for the last index that is at most K. *)
Bisection(n, K) ==
  [i \in (1..n) \X (1..n) |->
     IF i[2] - i[1] <= 1 \/ K <= i[1] THEN i[1]
     ELSE IF K >= i[2] THEN i[2] - 1 ELSE K]

(* The lookup finds the breakpoint that brackets the operating point. *)
LEMMA LookupBrackets ==
  ASSUME NEW t \in Tables, ValidTable(t), NEW sigma \in Int
  PROVE  /\ LowerIndex(t, sigma) \in 1..t.n_points
         /\ IsBracket(t, LowerIndex(t, sigma), sigma)
<1> DEFINE n == t.n_points
           at(k) == t.points[k].sigma
           step(f) ==
             [i \in (1..n) \X (1..n) |->
                LET low  == i[1]
                    high == i[2]
                    mid  == low + (high - low) \div 2
                IN  IF high - low <= 1 THEN low
                    ELSE IF sigma < at(mid) THEN f[<<low, mid>>]
                    ELSE f[<<mid, high>>]]
           bisect == CHOOSE f : f = step(f)
<1>1. n \in Nat /\ n >= 1 /\ \A k \in 1..n : at(k) \in Int
  BY TableFacts
<1>2. \A j, k \in 1..n : j < k => at(j) < at(k)
  BY InOrder
<1>3. LowerIndex(t, sigma) =
        IF n = 1 \/ sigma <= at(1) THEN 1
        ELSE IF sigma >= at(n) THEN n ELSE bisect[<<1, n>>]
  BY DEF LowerIndex
<1> HIDE DEF n, at
<1>4. CASE sigma <= at(1)
  <2>1. LowerIndex(t, sigma) = 1
    BY <1>3, <1>4
  <2>2. sigma < at(1) \/ (at(1) = sigma /\ \A j \in 2..n : sigma < at(j))
    <3>1. \A j \in 2..n : j \in 1..n /\ 1 < j /\ 1 \in 1..n
      BY <1>1
    <3>2. QED
      BY <1>1, <1>2, <1>4, <3>1
  <2>3. 1 \in 1..n /\ 1 + 1 = 2 /\ (at(1) = sigma => at(1) <= sigma)
    BY <1>1
  <2>4. QED
    BY <2>1, <2>2, <2>3 DEF IsBracket, n, at
<1>5. CASE sigma >= at(n)
  <2>1. LowerIndex(t, sigma) = n
    <3>1. n = 1 \/ sigma <= at(1) => n = 1
      <4>1. 1 \in 1..n /\ n \in 1..n
        BY <1>1
      <4>2. QED
        BY <1>1, <1>2, <1>5, <4>1
    <3>2. QED
      BY <1>3, <1>5, <3>1
  <2>2. n \in 1..n /\ 1 \in 1..n /\ \A j \in n + 1..n : FALSE
    BY <1>1
  <2>3. at(n) <= sigma /\ ~(sigma < at(1))
    BY <1>1, <1>2, <1>5, <2>2
  <2>4. QED
    BY <2>1, <2>2, <2>3 DEF IsBracket, n, at
<1>6. CASE at(1) < sigma /\ sigma < at(n)
  <2> DEFINE B == {k \in 1..n : at(k) <= sigma}
             K == Max(B)
  <2>1. K \in 1..n /\ K < n /\ at(K) <= sigma /\ \A j \in 1..n : j > K => sigma < at(j)
    <3>1. 1 \in B /\ B \subseteq 0..n
      BY <1>1, <1>6
    <3>2. K \in B /\ \A y \in B : y <= K
      <4> HIDE DEF B
      <4> QED BY <1>1, <3>1, MaxOfBounded
    <3> HIDE DEF K
    <3>3. K \in 1..n /\ at(K) <= sigma
      BY <3>2
    <3>4. ASSUME NEW j \in 1..n, j > K PROVE sigma < at(j)
      BY <1>1, <3>2, <3>4
    <3>5. K # n
      BY <1>1, <1>6, <3>3
    <3>6. QED
      BY <1>1, <3>3, <3>4, <3>5
  <2> HIDE DEF K, B
  <2>2. ASSUME NEW k \in 1..n PROVE sigma < at(k) <=> K < k
    <3>1. k <= K => at(k) <= sigma
      <4>1. k < K => at(k) < at(K)
        BY <1>2, <2>1
      <4>2. QED
        BY <1>1, <2>1, <4>1
    <3>2. QED
      BY <1>1, <2>1, <3>1
  <2>3. \E f : f = step(f)
    <3> DEFINE g == Bisection(n, K)
    <3>1. ASSUME NEW i \in (1..n) \X (1..n)
          PROVE  g[i] = step(g)[i]
      <4>1. PICK low \in 1..n, high \in 1..n : i = <<low, high>>
        OBVIOUS
      <4> DEFINE mid == low + (high - low) \div 2
      <4>2. CASE high - low <= 1
        BY <4>1, <4>2 DEF Bisection
      <4>3. CASE high - low > 1
        <5>1. mid \in Int /\ low < mid /\ mid < high /\ mid \in 1..n
          BY <1>1, <4>3
        <5>2. step(g)[i] = IF sigma < at(mid) THEN g[<<low, mid>>] ELSE g[<<mid, high>>]
          BY <1>1, <4>1, <4>3
        <5> HIDE DEF mid, step
        <5>3. /\ <<low, mid>> \in (1..n) \X (1..n) /\ <<mid, high>> \in (1..n) \X (1..n)
              /\ <<low, high>> \in (1..n) \X (1..n)
          BY <5>1
        <5>4. /\ g[<<low, high>>] = IF high - low <= 1 \/ K <= low THEN low
                                    ELSE IF K >= high THEN high - 1 ELSE K
              /\ g[<<low, mid>>] = IF mid - low <= 1 \/ K <= low THEN low
                                   ELSE IF K >= mid THEN mid - 1 ELSE K
              /\ g[<<mid, high>>] = IF high - mid <= 1 \/ K <= mid THEN mid
                                    ELSE IF K >= high THEN high - 1 ELSE K
          BY <5>3 DEF Bisection
        <5> HIDE DEF g
        <5>5. low \in Int /\ high \in Int /\ K \in Int
          BY <1>1, <2>1
        <5>6. CASE K < mid
          BY <2>2, <4>1, <4>3, <5>1, <5>2, <5>4, <5>5, <5>6
        <5>7. CASE ~(K < mid)
          BY <2>2, <4>1, <4>3, <5>1, <5>2, <5>4, <5>5, <5>7
        <5>8. QED
          BY <5>6, <5>7
      <4>4. QED
        BY <1>1, <4>2, <4>3
    <3>2. g = [i \in (1..n) \X (1..n) |-> g[i]]
      BY DEF Bisection
    <3>3. step(g) = [i \in (1..n) \X (1..n) |-> step(g)[i]]
      OBVIOUS
    <3> HIDE DEF g, step
    <3>4. g = step(g)
      BY <3>1, <3>2, <3>3
    <3>5. QED
      BY <3>4
  <2>4. bisect = step(bisect)
    <3> HIDE DEF step
    <3> QED BY <2>3
  <2> HIDE DEF bisect
  <2>5. ASSUME NEW low \in 1..n, NEW high \in 1..n
        PROVE  bisect[<<low, high>>] =
                 IF high - low <= 1 THEN low
                 ELSE IF sigma < at(low + (high - low) \div 2)
                      THEN bisect[<<low, low + (high - low) \div 2>>]
                      ELSE bisect[<<low + (high - low) \div 2, high>>]
    <3>1. bisect[<<low, high>>] = step(bisect)[<<low, high>>]
      BY <2>4
    <3>2. QED
      BY <3>1
  <2> DEFINE Bad == {d \in Nat : \E low, high \in 1..n :
                       high - low = d /\ low <= K /\ K < high /\ bisect[<<low, high>>] # K}
  <2>6. Bad = {}
    <3>1. SUFFICES ASSUME Bad # {} PROVE FALSE
      OBVIOUS
    <3>2. PICK d \in Bad : \A e \in Bad : d <= e
      BY <3>1, LeastNumber
    <3>3. PICK low \in 1..n, high \in 1..n :
            high - low = d /\ low <= K /\ K < high /\ bisect[<<low, high>>] # K
      BY <3>2
    <3>4. CASE d <= 1
      <4>1. low = K
        BY <1>1, <2>1, <3>3, <3>4
      <4>2. QED
        BY <2>5, <3>3, <3>4, <4>1
    <3>5. CASE d > 1
      <4> DEFINE mid == low + (high - low) \div 2
      <4>1. mid \in 1..n /\ low < mid /\ mid < high
        BY <1>1, <3>3, <3>5
      <4>2. bisect[<<low, high>>] =
              IF sigma < at(mid) THEN bisect[<<low, mid>>] ELSE bisect[<<mid, high>>]
        BY <2>5, <3>3, <3>5
      <4> HIDE DEF mid
      <4>3. mid - low \in Nat /\ mid - low < d /\ high - mid \in Nat /\ high - mid < d
        BY <1>1, <3>3, <4>1
      <4>4. mid - low \notin Bad /\ high - mid \notin Bad
        <5>1. d \in Nat
          BY <3>2
        <5> HIDE DEF Bad
        <5>2. QED
          BY <3>2, <4>3, <5>1
      <4>5. CASE K < mid
        BY <2>2, <3>3, <4>1, <4>2, <4>3, <4>4, <4>5
      <4>6. CASE ~(K < mid)
        <5>1. mid <= K
          BY <1>1, <2>1, <4>1, <4>6
        <5>2. QED
          BY <2>2, <3>3, <4>1, <4>2, <4>3, <4>4, <4>6, <5>1
      <4>7. QED
        BY <4>5, <4>6
    <3>6. QED
      BY <3>4, <3>5
  <2>7. bisect[<<1, n>>] = K
    <3>1. 1 \in 1..n /\ n \in 1..n /\ n - 1 \in Nat /\ 1 <= K
      BY <1>1, <2>1
    <3>2. QED
      BY <2>1, <2>6, <3>1
  <2>8. LowerIndex(t, sigma) = K
    <3>1. n # 1 /\ ~(sigma <= at(1)) /\ ~(sigma >= at(n))
      <4>1. 1 \in 1..n /\ n \in 1..n
        BY <1>1
      <4>2. at(1) \in Int /\ at(n) \in Int
        BY <1>1, <4>1
      <4>3. QED
        BY <1>6, <4>2
    <3>2. QED
      BY <1>3, <2>7, <3>1
  <2>9. ~(sigma < at(1)) /\ at(K) <= sigma /\ \A j \in K + 1..n : sigma < at(j)
    <3>1. \A j \in K + 1..n : j \in 1..n /\ j > K
      BY <1>1, <2>1
    <3>2. 1 \in 1..n
      BY <1>1
    <3>3. QED
      BY <1>1, <1>6, <2>1, <3>1, <3>2
  <2>10. QED
    BY <2>1, <2>8, <2>9 DEF IsBracket, n, at
<1>7. QED
  <2>1. 1 \in 1..n /\ n \in 1..n
    BY <1>1
  <2>2. at(1) \in Int /\ at(n) \in Int
    BY <1>1, <2>1
  <2>3. QED
    BY <1>4, <1>5, <1>6, <2>2

(* No two breakpoints bracket the same operating point. *)
LEMMA OneBracket ==
  ASSUME NEW t \in Tables, ValidTable(t), NEW sigma \in Int,
         NEW j \in 1..t.n_points, NEW k \in 1..t.n_points,
         IsBracket(t, j, sigma), IsBracket(t, k, sigma)
  PROVE  j = k
<1>1. t.n_points \in Nat /\ t.points[j].sigma \in Int /\ t.points[k].sigma \in Int
  BY TableFacts
<1>2. CASE sigma < t.points[1].sigma
  BY <1>2 DEF IsBracket
<1>3. CASE ~(sigma < t.points[1].sigma)
  <2>1. /\ t.points[j].sigma <= sigma /\ t.points[k].sigma <= sigma
        /\ \A i \in j + 1..t.n_points : sigma < t.points[i].sigma
        /\ \A i \in k + 1..t.n_points : sigma < t.points[i].sigma
    BY <1>3 DEF IsBracket
  <2>2. ~(j < k) /\ ~(k < j)
    BY <1>1, <2>1
  <2>3. QED
    BY <1>1, <2>2
<1>4. QED
  BY <1>2, <1>3

(* A value interpolated over a finite span lies on the segment. *)
LEMMA LerpOnSegment ==
  ASSUME NEW a \in Int, NEW b \in Int, NEW o \in Int, NEW s \in Int, 0 <= o, o < s
  PROVE  OnSegment(a + Quot((b - a) * o, s), a, b, o, s)
<1> DEFINE d == b - a
           q == Quot(d * o, s)
<1>1. d * o \in Int /\ d * s \in Int /\ s > 0
  BY ProductIsInt
<1>2. q \in Int /\ q * s <= d * o /\ d * o < (q + 1) * s
  <2> DEFINE p == d * o
  <2>1. p \in Int
    BY <1>1
  <2> HIDE DEF p
  <2>2. Quot(p, s) \in Int /\ Quot(p, s) * s <= p /\ p < (Quot(p, s) + 1) * s
    BY <1>1, <2>1 DEF Quot
  <2>3. QED
    BY <2>2 DEF p
<1> HIDE DEF q
<1>3. d \in Int /\ q * s \in Int /\ (q + 1) * s = q * s + s
  BY <1>2
<1>4. Abs(((a + q) - a) * s - d * o) < s
  <2>1. (a + q) - a = q
    BY <1>2
  <2> DEFINE l == q * s
             p == d * o
  <2>2. l \in Int /\ p \in Int /\ l <= p /\ p < l + s
    BY <1>1, <1>2, <1>3
  <2> HIDE DEF l, p
  <2>3. Abs(l - p) < s
    BY <2>2 DEF Abs
  <2>4. QED
    BY <2>1, <2>3 DEF l, p
<1>5. CASE d >= 0
  <2>1. d * o >= 0 /\ d * o <= d * s
    BY <1>5
  <2>2. q >= 0 /\ q <= d
    <3>1. q * s <= d * s
      BY <1>1, <1>2, <1>3, <2>1
    <3>2. 0 < (q + 1) * s
      BY <1>1, <1>2, <1>3, <2>1
    <3> HIDE DEF d
    <3>3. q <= d /\ q + 1 > 0
      BY <1>2, <1>3, <3>1, <3>2
    <3>4. QED
      BY <1>2, <3>3
  <2>3. a + q \in a..b
    BY <1>2, <2>2
  <2>4. OnSegment(a + q, a, b, o, s)
    <3> DEFINE v == a + q
    <3>1. v \in a..b \union b..a
      BY <2>3
    <3>2. Abs((v - a) * s - (b - a) * o) < s
      BY <1>4
    <3> HIDE DEF v
    <3>3. OnSegment(v, a, b, o, s)
      BY <3>1, <3>2 DEF OnSegment
    <3>4. QED
      BY <3>3 DEF v
  <2>5. QED
    BY <2>4 DEF q
<1>6. CASE d < 0
  <2>1. d * o <= 0 /\ d * s <= d * o
    BY <1>6
  <2>2. q <= 0 /\ d <= q
    <3>1. q * s <= 0
      BY <1>1, <1>2, <1>3, <2>1
    <3>2. d * s < (q + 1) * s
      BY <1>1, <1>2, <1>3, <2>1
    <3> HIDE DEF d
    <3>3. q <= 0 /\ d < q + 1
      BY <1>2, <1>3, <3>1, <3>2
    <3>4. QED
      BY <1>2, <1>3, <3>3
  <2>3. a + q \in b..a
    BY <1>2, <2>2
  <2>4. OnSegment(a + q, a, b, o, s)
    <3> DEFINE v == a + q
    <3>1. v \in a..b \union b..a
      BY <2>3
    <3>2. Abs((v - a) * s - (b - a) * o) < s
      BY <1>4
    <3> HIDE DEF v
    <3>3. OnSegment(v, a, b, o, s)
      BY <3>1, <3>2 DEF OnSegment
    <3>4. QED
      BY <3>3 DEF v
  <2>5. QED
    BY <2>4 DEF q
<1>7. QED
  BY <1>3, <1>5, <1>6

(* Being equal but for the gains is an equivalence. *)
LEMMA Compatible ==
  ASSUME NEW c1 \in Config, NEW c2 \in Config
  PROVE  InterpCompatible(c1, c2) <=>
           /\ c1.N = c2.N /\ c1.b = c2.b /\ c1.c = c2.c /\ c1.u_min = c2.u_min
           /\ c1.u_max = c2.u_max /\ c1.du_max = c2.du_max /\ c1.I_min = c2.I_min
           /\ c1.I_max = c2.I_max /\ c1.aw_mode = c2.aw_mode /\ c1.T_aw = c2.T_aw
           /\ c1.integ_method = c2.integ_method /\ c1.deriv_mode = c2.deriv_mode
           /\ c1.tau_sp = c2.tau_sp /\ c1.normalise = c2.normalise
           /\ c1.in_min = c2.in_min /\ c1.in_max = c2.in_max
           /\ c1.out_min = c2.out_min /\ c1.out_max = c2.out_max
           /\ c1.safe_policy = c2.safe_policy /\ c1.safe_value = c2.safe_value
           /\ c1.I_overflow_thresh = c2.I_overflow_thresh
           /\ c1.sp_reset_threshold = c2.sp_reset_threshold
           /\ c1.feedforward = c2.feedforward /\ c1.fault_cb = c2.fault_cb
<1> DEFINE c == [c2 EXCEPT !.Kp = c1.Kp, !.Ki = c1.Ki, !.Kd = c1.Kd]
<1>1. c \in Config
  BY DEF Config
<1>2. /\ c.Kp = c1.Kp /\ c.Ki = c1.Ki /\ c.Kd = c1.Kd
      /\ c.N = c2.N /\ c.b = c2.b /\ c.c = c2.c /\ c.u_min = c2.u_min
      /\ c.u_max = c2.u_max /\ c.du_max = c2.du_max /\ c.I_min = c2.I_min
      /\ c.I_max = c2.I_max /\ c.aw_mode = c2.aw_mode /\ c.T_aw = c2.T_aw
      /\ c.integ_method = c2.integ_method /\ c.deriv_mode = c2.deriv_mode
      /\ c.tau_sp = c2.tau_sp /\ c.normalise = c2.normalise
      /\ c.in_min = c2.in_min /\ c.in_max = c2.in_max
      /\ c.out_min = c2.out_min /\ c.out_max = c2.out_max
      /\ c.safe_policy = c2.safe_policy /\ c.safe_value = c2.safe_value
      /\ c.I_overflow_thresh = c2.I_overflow_thresh
      /\ c.sp_reset_threshold = c2.sp_reset_threshold
      /\ c.feedforward = c2.feedforward /\ c.fault_cb = c2.fault_cb
  BY DEF Config
<1>3. InterpCompatible(c1, c2) <=> c1 = c
  BY DEF InterpCompatible
<1> HIDE DEF c
<1>4. QED
  BY <1>1, <1>2, <1>3 DEF Config

LEMMA CompatibleAlways ==
  ASSUME NEW c1 \in Config, NEW c2 \in Config, NEW c3 \in Config, InterpCompatible(c1, c2)
  PROVE  /\ InterpCompatible(c1, c1) /\ InterpCompatible(c2, c1)
         /\ InterpCompatible(c2, c3) => InterpCompatible(c1, c3)
  BY Compatible

(* All entries of a table for interpolation are equal but for the gains.   *)
LEMMA AllCompatible ==
  ASSUME NEW t \in Tables, ValidTable(t), t.mode = "LINEAR_INTERP"
  PROVE  \A j, k \in 1..t.n_points : InterpCompatible(t.points[j].cfg, t.points[k].cfg)
<1> DEFINE n == t.n_points
           c(k) == t.points[k].cfg
           Bad == {k \in Nat : k \in 1..n /\ ~InterpCompatible(c(1), c(k))}
<1>1. n \in Nat /\ n >= 1 /\ \A k \in 1..n : c(k) \in Config
  BY TableFacts
<1>2. \A k \in 2..n : InterpCompatible(c(k - 1), c(k))
  BY DEF ValidTable
<1> HIDE DEF n, c
<1>3. Bad = {}
  <2>1. SUFFICES ASSUME Bad # {} PROVE FALSE
    OBVIOUS
  <2>2. PICK k \in Bad : \A e \in Bad : k <= e
    BY <2>1, LeastNumber
  <2>3. k \in 1..n /\ k \in Nat /\ ~InterpCompatible(c(1), c(k))
    BY <2>2
  <2>4. CASE k = 1
    BY <1>1, <2>3, <2>4, Compatible
  <2>5. CASE k # 1
    <3>1. k \in 2..n /\ k - 1 \in 1..n /\ k - 1 \in Nat /\ k - 1 < k /\ 1 \in 1..n
      BY <1>1, <2>3, <2>5
    <3>2. k - 1 \notin Bad
      <4> HIDE DEF Bad
      <4> QED BY <2>2, <2>3, <3>1
    <3>3. InterpCompatible(c(1), c(k - 1)) /\ InterpCompatible(c(k - 1), c(k))
      BY <1>2, <3>1, <3>2
    <3>4. c(1) \in Config /\ c(k - 1) \in Config /\ c(k) \in Config
      BY <1>1, <2>3, <3>1
    <3>5. QED
      BY <2>3, <3>3, <3>4, CompatibleAlways
  <2>6. QED
    BY <2>4, <2>5
<1>4. ASSUME NEW j \in 1..n, NEW k \in 1..n PROVE InterpCompatible(c(j), c(k))
  <2>1. 1 \in 1..n /\ j \in Nat /\ k \in Nat
    BY <1>1
  <2>2. InterpCompatible(c(1), c(j)) /\ InterpCompatible(c(1), c(k))
    BY <1>3, <2>1
  <2>3. c(1) \in Config /\ c(j) \in Config /\ c(k) \in Config
    BY <1>1, <2>1
  <2>4. QED
    BY <2>2, <2>3, CompatibleAlways
<1>5. QED
  BY <1>4 DEF n, c

(* No breakpoint is further from the one before it than a float reaches.   *)
SpansAreFinite(t) == \A k \in 2..t.n_points : IsFinite(t.points[k].sigma - t.points[k - 1].sigma)

(* What the lookup yields is what the property asks for, and is valid.     *)
Defined(t, cfg, k, sigma) ==
  LET lo == t.points[k]
      hi == t.points[k + 1]
      on(x, a, b) == OnSegment(x, a, b, sigma - lo.sigma, hi.sigma - lo.sigma)
  IN  /\ IsBracket(t, k, sigma)
      /\ IF t.mode = "HARD_SWITCH" \/ k = t.n_points \/ sigma <= lo.sigma
         THEN cfg = lo.cfg
         ELSE /\ \A j \in 1..t.n_points : InterpCompatible(t.points[j].cfg, cfg)
              /\ on(cfg.Kp, lo.cfg.Kp, hi.cfg.Kp)
              /\ on(cfg.Ki, lo.cfg.Ki, hi.cfg.Ki)
              /\ on(cfg.Kd, lo.cfg.Kd, hi.cfg.Kd)

(* A valid configuration with other gains, each between valid ones.        *)
LEMMA GainsBetween ==
  ASSUME NEW c \in Config, NEW d \in Config, ValidConfig(c), ValidConfig(d),
         NEW e \in Config, InterpCompatible(c, e),
         e.Kp \in c.Kp..d.Kp \union d.Kp..c.Kp,
         e.Ki \in c.Ki..d.Ki \union d.Ki..c.Ki,
         e.Kd \in c.Kd..d.Kd \union d.Kd..c.Kd
  PROVE  ValidConfig(e)
<1>1. /\ c.Kp \in Int /\ c.Ki \in Int /\ c.Kd \in Int
      /\ d.Kp \in Int /\ d.Ki \in Int /\ d.Kd \in Int
  BY ValidConfigTypes
<1>2. /\ NonNegative(c.Kp) /\ NonNegative(c.Ki) /\ NonNegative(c.Kd) /\ NonNegative(c.N)
      /\ NonNegative(d.Kp) /\ NonNegative(d.Ki) /\ NonNegative(d.Kd)
  BY DEF ValidConfig, ValidGains
<1>3. ASSUME NEW x \in Int, NEW y \in Int, NonNegative(x), NonNegative(y),
             NEW z \in x..y \union y..x
      PROVE  NonNegative(z)
  BY <1>3, RonUtilAssumption DEF NonNegative, IsFinite
<1>4. NonNegative(e.Kp) /\ NonNegative(e.Ki) /\ NonNegative(e.Kd)
  BY <1>1, <1>2, <1>3
<1>5. /\ e.N = c.N /\ e.b = c.b /\ e.c = c.c /\ e.u_min = c.u_min
      /\ e.u_max = c.u_max /\ e.du_max = c.du_max /\ e.I_min = c.I_min
      /\ e.I_max = c.I_max /\ e.aw_mode = c.aw_mode /\ e.T_aw = c.T_aw
      /\ e.integ_method = c.integ_method /\ e.deriv_mode = c.deriv_mode
      /\ e.tau_sp = c.tau_sp /\ e.normalise = c.normalise
      /\ e.in_min = c.in_min /\ e.in_max = c.in_max
      /\ e.out_min = c.out_min /\ e.out_max = c.out_max
      /\ e.safe_policy = c.safe_policy /\ e.safe_value = c.safe_value
      /\ e.I_overflow_thresh = c.I_overflow_thresh
      /\ e.sp_reset_threshold = c.sp_reset_threshold
      /\ e.feedforward = c.feedforward
  BY Compatible
<1>6. ValidGains(e)
  BY <1>2, <1>4, <1>5 DEF ValidGains
<1>7. QED
  BY <1>5, <1>6
  DEF ValidConfig, ValidWeights, ValidLimits, ValidEnums, ValidNormalisation, ValidThresholds

(* The neighbours of a breakpoint that is not the last, as the lookup      *)
(* meets them.                                                             *)
LEMMA SegmentFacts ==
  ASSUME NEW t \in Tables, ValidTable(t), NEW sigma \in Int, NEW k \in 1..t.n_points,
         IsBracket(t, k, sigma), k < t.n_points, t.points[1].sigma < sigma
  PROVE  /\ k + 1 \in 1..t.n_points
         /\ sigma - t.points[k].sigma \in Int /\ sigma - t.points[k].sigma >= 0
         /\ t.points[k + 1].sigma - t.points[k].sigma \in Int
         /\ sigma - t.points[k].sigma < t.points[k + 1].sigma - t.points[k].sigma
<1>1. t.n_points \in Nat /\ k + 1 \in 1..t.n_points /\ k + 1 \in k + 1..t.n_points /\ 1 \in 1..t.n_points
  BY TableFacts
<1>2. /\ t.points[k].sigma \in Int /\ t.points[k + 1].sigma \in Int
      /\ t.points[1].sigma \in Int
  BY <1>1, TableFacts
<1>3. t.points[k].sigma <= sigma /\ sigma < t.points[k + 1].sigma
  BY <1>1, <1>2 DEF IsBracket
<1>4. QED
  BY <1>1, <1>2, <1>3

(* Where the lookup takes an entry whole. *)
TakesEntry(t, k, sigma) ==
  t.mode = "HARD_SWITCH" \/ t.n_points = 1 \/ sigma <= t.points[1].sigma \/ k >= t.n_points

(* Where it interpolates. *)
LEMMA Interpolates ==
  ASSUME NEW t \in Tables, ValidTable(t), NEW sigma \in Int, NEW k \in 1..t.n_points,
         IsBracket(t, k, sigma), ~TakesEntry(t, k, sigma)
  PROVE  LET lo == t.points[k].cfg
             hi == t.points[k + 1].cfg
             o  == sigma - t.points[k].sigma
             s  == t.points[k + 1].sigma - t.points[k].sigma
         IN  /\ lo \in Config /\ hi \in Config /\ ValidConfig(lo) /\ ValidConfig(hi)
             /\ o \in Int /\ s \in Int /\ 0 <= o /\ o < s
             /\ Candidate(t, k, sigma) =
                  [lo EXCEPT !.Kp = Lerp(lo.Kp, hi.Kp, o, s),
                             !.Ki = Lerp(lo.Ki, hi.Ki, o, s),
                             !.Kd = Lerp(lo.Kd, hi.Kd, o, s)]
<1>1. t.n_points \in Nat /\ 1 \in 1..t.n_points
  BY TableFacts
<1>2. t.points[1].sigma \in Int
  BY <1>1, TableFacts
<1>3. k < t.n_points /\ t.points[1].sigma < sigma
  BY <1>1, <1>2 DEF TakesEntry
<1>4. k + 1 \in 1..t.n_points
  BY <1>1, <1>3
<1>5. /\ t.points[k].cfg \in Config /\ ValidConfig(t.points[k].cfg)
      /\ t.points[k + 1].cfg \in Config /\ ValidConfig(t.points[k + 1].cfg)
  BY <1>4, TableFacts
<1>6. Candidate(t, k, sigma) =
        [t.points[k].cfg EXCEPT
           !.Kp = Lerp(t.points[k].cfg.Kp, t.points[k + 1].cfg.Kp, sigma - t.points[k].sigma,
                       t.points[k + 1].sigma - t.points[k].sigma),
           !.Ki = Lerp(t.points[k].cfg.Ki, t.points[k + 1].cfg.Ki, sigma - t.points[k].sigma,
                       t.points[k + 1].sigma - t.points[k].sigma),
           !.Kd = Lerp(t.points[k].cfg.Kd, t.points[k + 1].cfg.Kd, sigma - t.points[k].sigma,
                       t.points[k + 1].sigma - t.points[k].sigma)]
  BY <1>5 DEF Candidate, TakesEntry, Config
<1>7. QED
  BY <1>3, <1>5, <1>6, SegmentFacts

(* What is handed to the controller is a configuration. *)
LEMMA CandidateTypes ==
  ASSUME NEW t \in Tables, ValidTable(t), NEW sigma \in Int, NEW k \in 1..t.n_points,
         IsBracket(t, k, sigma)
  PROVE  /\ Candidate(t, k, sigma) \in Config
         /\ TakesEntry(t, k, sigma) =>
              /\ Candidate(t, k, sigma) = t.points[k].cfg
              /\ ValidConfig(Candidate(t, k, sigma))
<1>1. t.points[k].cfg \in Config /\ ValidConfig(t.points[k].cfg)
  BY TableFacts
<1>2. CASE TakesEntry(t, k, sigma)
  BY <1>1, <1>2 DEF Candidate, TakesEntry
<1>3. CASE ~TakesEntry(t, k, sigma)
  <2> DEFINE lo == t.points[k].cfg
             hi == t.points[k + 1].cfg
             o  == sigma - t.points[k].sigma
             s  == t.points[k + 1].sigma - t.points[k].sigma
  <2>1. /\ lo \in Config /\ hi \in Config /\ ValidConfig(lo) /\ ValidConfig(hi)
        /\ o \in Int /\ s \in Int /\ 0 <= o /\ o < s
        /\ Candidate(t, k, sigma) = [lo EXCEPT !.Kp = Lerp(lo.Kp, hi.Kp, o, s),
                                               !.Ki = Lerp(lo.Ki, hi.Ki, o, s),
                                               !.Kd = Lerp(lo.Kd, hi.Kd, o, s)]
    BY <1>3, Interpolates
  <2> HIDE DEF lo, hi, o, s
  <2>2. /\ lo.Kp \in Int /\ lo.Ki \in Int /\ lo.Kd \in Int
        /\ hi.Kp \in Int /\ hi.Ki \in Int /\ hi.Kd \in Int
    BY <2>1, ValidConfigTypes
  <2>3. ASSUME NEW a \in Int, NEW b \in Int PROVE Lerp(a, b, o, s) \in Float
    <3>1. (b - a) * o \in Int /\ s > 0
      BY <2>1, ProductIsInt
    <3>2. Quot((b - a) * o, s) \in Int
      BY <2>1, <3>1, QuotIsInt
    <3> DEFINE q == Quot((b - a) * o, s)
    <3>3. Lerp(a, b, o, s) = IF IsFinite(s) THEN a + q ELSE IF IsFinite(o) THEN a ELSE NaN
      BY DEF Lerp
    <3>4. q \in Int
      BY <3>2
    <3> HIDE DEF q
    <3>5. QED
      BY <3>3, <3>4 DEF Float
  <2>5. /\ Lerp(lo.Kp, hi.Kp, o, s) \in Float /\ Lerp(lo.Ki, hi.Ki, o, s) \in Float
        /\ Lerp(lo.Kd, hi.Kd, o, s) \in Float
    BY <2>2, <2>3
  <2>6. Candidate(t, k, sigma) \in Config
    <3> DEFINE Kp == Lerp(lo.Kp, hi.Kp, o, s)
               Ki == Lerp(lo.Ki, hi.Ki, o, s)
               Kd == Lerp(lo.Kd, hi.Kd, o, s)
    <3>1. Candidate(t, k, sigma) = [lo EXCEPT !.Kp = Kp, !.Ki = Ki, !.Kd = Kd]
      BY <2>1
    <3>2. Kp \in Float /\ Ki \in Float /\ Kd \in Float
      BY <2>5
    <3> HIDE DEF Kp, Ki, Kd
    <3>3. QED
      <4>1. lo \in Config
        BY <2>1
      <4>2. [lo EXCEPT !.Kp = Kp, !.Ki = Ki, !.Kd = Kd] \in Config
        BY <3>2, <4>1 DEF Config
      <4>3. QED
        BY <3>1, <4>2
  <2>7. QED
    BY <1>3, <2>6
<1>4. QED
  BY <1>2, <1>3

(* Over finite spans it is valid, and the one the table defines.           *)
LEMMA CandidateDefined ==
  ASSUME NEW t \in Tables, ValidTable(t), SpansAreFinite(t), NEW sigma \in Int,
         NEW k \in 1..t.n_points, IsBracket(t, k, sigma)
  PROVE  ValidConfig(Candidate(t, k, sigma)) /\ Defined(t, Candidate(t, k, sigma), k, sigma)
<1>1. t.n_points \in Nat /\ 1 \in 1..t.n_points /\ k \in Int
  BY TableFacts
<1>2. t.points[k].sigma \in Int /\ t.points[1].sigma \in Int /\ t.mode \in GsMode
  BY <1>1, TableFacts
<1>3. CASE TakesEntry(t, k, sigma)
  <2>1. Candidate(t, k, sigma) = t.points[k].cfg /\ ValidConfig(Candidate(t, k, sigma))
    BY <1>3, CandidateTypes
  <2>2. t.mode = "HARD_SWITCH" \/ k = t.n_points \/ sigma <= t.points[k].sigma
    <3>1. t.n_points = 1 \/ k >= t.n_points => k = t.n_points
      BY <1>1
    <3>2. CASE sigma <= t.points[1].sigma
      <4>1. sigma < t.points[1].sigma => k = 1
        BY DEF IsBracket
      <4>2. CASE sigma = t.points[1].sigma /\ k # 1
        <5>1. 1 < k
          BY <1>1, <4>2
        <5>2. t.points[1].sigma < t.points[k].sigma
          BY <1>1, <5>1, InOrder
        <5>3. QED
          BY <1>2, <4>2, <5>2
      <4>3. k = 1 => sigma <= t.points[k].sigma
        BY <3>2
      <4>4. QED
        BY <1>2, <3>2, <4>1, <4>2, <4>3
    <3>3. QED
      BY <1>3, <3>1, <3>2 DEF TakesEntry
  <2>3. QED
    BY <2>1, <2>2 DEF Defined
<1>4. CASE ~TakesEntry(t, k, sigma)
  <2> DEFINE lo == t.points[k].cfg
             hi == t.points[k + 1].cfg
             o  == sigma - t.points[k].sigma
             s  == t.points[k + 1].sigma - t.points[k].sigma
             c  == Candidate(t, k, sigma)
             g(a, b) == a + Quot((b - a) * o, s)
  <2>1. /\ lo \in Config /\ hi \in Config /\ ValidConfig(lo) /\ ValidConfig(hi)
        /\ o \in Int /\ s \in Int /\ 0 <= o /\ o < s
        /\ c = [lo EXCEPT !.Kp = Lerp(lo.Kp, hi.Kp, o, s),
                          !.Ki = Lerp(lo.Ki, hi.Ki, o, s),
                          !.Kd = Lerp(lo.Kd, hi.Kd, o, s)]
    BY <1>4, Interpolates
  <2>2. /\ lo.Kp \in Int /\ lo.Ki \in Int /\ lo.Kd \in Int
        /\ hi.Kp \in Int /\ hi.Ki \in Int /\ hi.Kd \in Int
    BY <2>1, ValidConfigTypes
  <2>3. IsFinite(s)
    <3>1. k + 1 \in 2..t.n_points /\ (k + 1) - 1 = k
      BY <1>1, <1>4 DEF TakesEntry
    <3>2. QED
      BY <3>1 DEF SpansAreFinite
  <2>4. /\ c = [lo EXCEPT !.Kp = g(lo.Kp, hi.Kp), !.Ki = g(lo.Ki, hi.Ki), !.Kd = g(lo.Kd, hi.Kd)]
        /\ OnSegment(g(lo.Kp, hi.Kp), lo.Kp, hi.Kp, o, s)
        /\ OnSegment(g(lo.Ki, hi.Ki), lo.Ki, hi.Ki, o, s)
        /\ OnSegment(g(lo.Kd, hi.Kd), lo.Kd, hi.Kd, o, s)
    <3> HIDE DEF lo, hi, o, s, c
    <3>1. \A a, b \in Int : OnSegment(g(a, b), a, b, o, s)
      BY <2>1, LerpOnSegment
    <3>2. \A a, b \in Int : Lerp(a, b, o, s) = g(a, b)
      BY <2>3 DEF Lerp
    <3> HIDE DEF g
    <3>3. QED
      BY <2>1, <2>2, <3>1, <3>2
  <2>5. /\ c \in Config /\ ValidConfig(c) /\ InterpCompatible(lo, c)
        /\ OnSegment(c.Kp, lo.Kp, hi.Kp, o, s) /\ OnSegment(c.Ki, lo.Ki, hi.Ki, o, s)
        /\ OnSegment(c.Kd, lo.Kd, hi.Kd, o, s)
    <3> HIDE DEF lo, hi, o, s, c, g
    <3>1. /\ g(lo.Kp, hi.Kp) \in lo.Kp..hi.Kp \union hi.Kp..lo.Kp
          /\ g(lo.Ki, hi.Ki) \in lo.Ki..hi.Ki \union hi.Ki..lo.Ki
          /\ g(lo.Kd, hi.Kd) \in lo.Kd..hi.Kd \union hi.Kd..lo.Kd
      BY <2>4 DEF OnSegment
    <3>2. /\ c \in Config /\ ValidConfig(c) /\ InterpCompatible(lo, c)
          /\ c.Kp = g(lo.Kp, hi.Kp) /\ c.Ki = g(lo.Ki, hi.Ki) /\ c.Kd = g(lo.Kd, hi.Kd)
      <4> DEFINE Kp == g(lo.Kp, hi.Kp)
                 Ki == g(lo.Ki, hi.Ki)
                 Kd == g(lo.Kd, hi.Kd)
      <4>1. c = [lo EXCEPT !.Kp = Kp, !.Ki = Ki, !.Kd = Kd]
        BY <2>4
      <4>2. /\ Kp \in lo.Kp..hi.Kp \union hi.Kp..lo.Kp
            /\ Ki \in lo.Ki..hi.Ki \union hi.Ki..lo.Ki
            /\ Kd \in lo.Kd..hi.Kd \union hi.Kd..lo.Kd
        BY <3>1
      <4> HIDE DEF Kp, Ki, Kd
      <4>3. /\ c \in Config /\ ValidConfig(c) /\ InterpCompatible(lo, c)
            /\ c.Kp = Kp /\ c.Ki = Ki /\ c.Kd = Kd
        <5>1. Kp \in Float /\ Ki \in Float /\ Kd \in Float
          BY <2>2, <4>2 DEF Float
        <5> DEFINE e == [lo EXCEPT !.Kp = Kp, !.Ki = Ki, !.Kd = Kd]
        <5>11. lo \in Config
          BY <2>1
        <5>12. e \in Config /\ e.Kp = Kp /\ e.Ki = Ki /\ e.Kd = Kd
          BY <5>1, <5>11 DEF Config
        <5>13. lo = [e EXCEPT !.Kp = lo.Kp, !.Ki = lo.Ki, !.Kd = lo.Kd]
          BY <5>11 DEF Config
        <5> HIDE DEF e
        <5>14. c = e
          BY <4>1 DEF e
        <5>2. c \in Config /\ c.Kp = Kp /\ c.Ki = Ki /\ c.Kd = Kd
          BY <5>12, <5>14
        <5>3. lo = [c EXCEPT !.Kp = lo.Kp, !.Ki = lo.Ki, !.Kd = lo.Kd]
          BY <5>13, <5>14
        <5>4. InterpCompatible(lo, c)
          BY <5>3 DEF InterpCompatible
        <5>5. QED
          BY <2>1, <4>2, <5>2, <5>4, GainsBetween
      <4>4. QED
        BY <4>3 DEF Kp, Ki, Kd
    <3>3. QED
      BY <2>4, <3>2
  <2>6. \A j \in 1..t.n_points : InterpCompatible(t.points[j].cfg, c)
    <3>1. t.mode = "LINEAR_INTERP"
      BY <1>2, <1>4 DEF TakesEntry, GsMode
    <3>2. ASSUME NEW j \in 1..t.n_points PROVE InterpCompatible(t.points[j].cfg, c)
      <4>1. InterpCompatible(t.points[j].cfg, lo) /\ t.points[j].cfg \in Config
        BY <3>1, AllCompatible, TableFacts
      <4> HIDE DEF c, lo
      <4>2. QED
        BY <2>1, <2>5, <4>1, CompatibleAlways
    <3>3. QED
      BY <3>2
  <2>7. ~(t.mode = "HARD_SWITCH" \/ k = t.n_points \/ sigma <= t.points[k].sigma)
        => Defined(t, c, k, sigma)
    <3> HIDE DEF c
    <3> QED BY <2>5, <2>6 DEF Defined
  <2>8. CASE sigma <= t.points[k].sigma
    <3>1. o = 0
      BY <1>2, <2>1, <2>8
    <3>2. ASSUME NEW a \in Int, NEW b \in Int, OnSegment(a + Quot((b - a) * o, s), a, b, o, s)
          PROVE  g(a, b) = a
      <4>1. (b - a) * o = 0
        BY <3>1
      <4>2. Quot(0, s) = 0
        BY <2>1 DEF Quot
      <4>3. g(a, b) = a + 0
        BY <4>1, <4>2
      <4>4. QED
        BY <4>3
    <3>3. c = lo
      <4> HIDE DEF lo, hi, o, s, c
      <4>1. g(lo.Kp, hi.Kp) = lo.Kp /\ g(lo.Ki, hi.Ki) = lo.Ki /\ g(lo.Kd, hi.Kd) = lo.Kd
        BY <2>2, <2>4, <3>2
      <4> HIDE DEF g
      <4>2. c = [lo EXCEPT !.Kp = lo.Kp, !.Ki = lo.Ki, !.Kd = lo.Kd]
        BY <2>4, <4>1
      <4>3. QED
        BY <2>1, <4>2 DEF Config
    <3> HIDE DEF c
    <3>4. QED
      BY <2>5, <2>8, <3>3 DEF Defined, c
  <2>9. ~(t.mode = "HARD_SWITCH" \/ k = t.n_points)
    BY <1>1, <1>4 DEF TakesEntry
  <2>10. ValidConfig(c) /\ Defined(t, c, k, sigma)
    <3> HIDE DEF c, lo, hi, o, s, g
    <3> QED BY <2>5, <2>7, <2>8, <2>9 DEF c
  <2>11. QED
    BY <2>10
<1>5. QED
  BY <1>3, <1>4

(* An update by table t to candidate c turns p into q: nothing but the     *)
(* configuration and the integral changes, and the integral only by a hard *)
(* switch to another configuration whose table clears it.                  *)
OnlySchedules(p, q, t, c) ==
  /\ q = [p EXCEPT !.cfg = q.cfg, !.integral = q.integral]
  /\ q.integral # p.integral =>
       t.mode = "HARD_SWITCH" /\ t.reset_integral_on_switch /\ p.cfg # c

(* What an update does to the controller.                                  *)
LEMMA Applied ==
  ASSUME NEW p, Sound(p, -FloatMax, FloatMax), p.is_initialised,
         NEW t, NEW c \in Config
  PROVE  /\ Sound(Apply(p, t, c), -FloatMax, FloatMax)
         /\ ValidConfig(c) => Apply(p, t, c).cfg = c
         /\ OnlySchedules(p, Apply(p, t, c), t, c)
<1> DEFINE lo == -FloatMax
           hi == FloatMax
           o == [u |-> 0, status |-> {}]
           q == PidSetConfig(p, o, c).pid
           i == Clamp(0, q.cfg.I_min, q.cfg.I_max)
<1>1. lo \in Int /\ hi \in Int /\ lo <= 0 /\ 0 <= hi
  BY RonUtilAssumption
<1>2. ValidConfig(c) => lo <= c.u_min /\ c.u_max <= hi
  BY DEF ValidConfig, ValidLimits, StrictRange, IsFinite
<1>3. p \in PidInstance /\ p.cfg \in Config
  BY DEF Sound, PidInstance
<1>4. Sound(q, lo, hi)
  <2> HIDE DEF lo, hi, o
  <2>1. Sound(p, lo, hi)
    BY DEF lo, hi
  <2>2. Good(p, o, PidSetConfig(p, o, c), lo, hi)
    BY <1>1, <1>2, <2>1, SetConfigGood
  <2>3. QED
    BY <2>2 DEF Good
<1>5. q = IF ValidConfig(c) THEN [p EXCEPT !.cfg = c] ELSE p
  BY DEF PidSetConfig, Done, Rejected
<1>6. /\ q.is_initialised /\ q = [p EXCEPT !.cfg = q.cfg] /\ q \in PidInstance
      /\ ValidConfig(c) => q.cfg = c
  <2>1. CASE ValidConfig(c)
    BY <1>3, <1>5, <2>1 DEF PidInstance
  <2>2. CASE ~ValidConfig(c)
    BY <1>3, <1>5, <2>2 DEF PidInstance
  <2>3. QED
    BY <2>1, <2>2
<1>7. Apply(p, t, c) = IF t.mode = "HARD_SWITCH" /\ t.reset_integral_on_switch /\ p.cfg # c
                       THEN [q EXCEPT !.integral = i] ELSE q
  BY DEF Apply
<1> HIDE DEF q, i
<1>8. i \in Finite
  <2>1. q.cfg \in Config /\ ValidConfig(q.cfg)
    BY <1>4, <1>6 DEF Sound, InForce, PidInstance
  <2>2. q.cfg.I_min \in Finite /\ q.cfg.I_max \in Finite
    BY <2>1, LimitsAreFinite
  <2> DEFINE low  == q.cfg.I_min
             high == q.cfg.I_max
  <2>3. low <= high /\ low \in Int /\ high \in Int
    BY <2>1, ValidConfigTypes
  <2>4. i \in low..high
    <3> HIDE DEF low, high
    <3>1. Clamp(0, low, high) \in low..high
      BY <2>3, ClampInRange
    <3>2. QED
      BY <3>1 DEF i, low, high
  <2>5. QED
    BY <2>2, <2>4, RangeIsFinite
<1>9. /\ [q EXCEPT !.integral = i] \in PidInstance
      /\ [q EXCEPT !.integral = i].cfg = q.cfg
      /\ [q EXCEPT !.integral = i].u_sat_prev = q.u_sat_prev
      /\ [q EXCEPT !.integral = i].fault_code = q.fault_code
      /\ [q EXCEPT !.integral = i].is_initialised = q.is_initialised
  BY <1>6, <1>8 DEF PidInstance
<1>10. Sound([q EXCEPT !.integral = i], lo, hi)
  BY <1>4, <1>9 DEF Sound
<1>11. Sound(Apply(p, t, c), lo, hi) /\ Apply(p, t, c).cfg = q.cfg
  BY <1>4, <1>7, <1>9, <1>10
<1>12. OnlySchedules(p, Apply(p, t, c), t, c)
  <2>1. q = [p EXCEPT !.cfg = q.cfg, !.integral = q.integral] /\ q.integral = p.integral
    BY <1>3, <1>6 DEF PidInstance
  <2>2. CASE Apply(p, t, c) = q /\ ~(t.mode = "HARD_SWITCH" /\ t.reset_integral_on_switch /\ p.cfg # c)
    BY <2>1, <2>2 DEF OnlySchedules
  <2>3. CASE /\ Apply(p, t, c) = [q EXCEPT !.integral = i]
             /\ t.mode = "HARD_SWITCH" /\ t.reset_integral_on_switch /\ p.cfg # c
    <3> DEFINE a == [q EXCEPT !.integral = i]
    <3>1. a = [p EXCEPT !.cfg = a.cfg, !.integral = a.integral]
      BY <1>3, <1>6 DEF PidInstance
    <3>2. QED
      BY <2>3, <3>1 DEF OnlySchedules
  <2>4. QED
    BY <1>7, <2>2, <2>3
<1>13. QED
  BY <1>6, <1>11, <1>12

(***************************************************************************)
(* The inductive invariant: the controller is sound, and as long as no     *)
(* other configuration was applied the one in force is the last lookup's,  *)
(* if that one was valid.                                                  *)
(***************************************************************************)
LookedUp(s) == Candidate(s.tbl, LowerIndex(s.tbl, s.sigma), s.sigma)

ScheduleSound ==
  /\ Sound(pid, -FloatMax, FloatMax)
  /\ \A s \in scheduled :
       /\ s.tbl \in Tables /\ ValidTable(s.tbl) /\ s.sigma \in Int
       /\ ValidConfig(LookedUp(s)) => pid.cfg = LookedUp(s)

(* An update by a valid table. *)
LEMMA UpdateSound ==
  ASSUME NEW p, Sound(p, -FloatMax, FloatMax), p.is_initialised,
         NEW t \in Tables, ValidTable(t), NEW sigma, IsFinite(sigma)
  PROVE  LET s == [tbl |-> t, sigma |-> sigma]
         IN  /\ LookedUp(s) \in Config
             /\ Sound(Apply(p, t, LookedUp(s)), -FloatMax, FloatMax)
             /\ ValidConfig(LookedUp(s)) => Apply(p, t, LookedUp(s)).cfg = LookedUp(s)
             /\ OnlySchedules(p, Apply(p, t, LookedUp(s)), t, LookedUp(s))
<1> DEFINE s == [tbl |-> t, sigma |-> sigma]
<1>1. sigma \in Int
  BY FiniteIsInt
<1>2. LookedUp(s) \in Config
  BY <1>1, LookupBrackets, CandidateTypes DEF LookedUp
<1> HIDE DEF s
<1>3. QED
  BY <1>2, Applied DEF s

(* A call of the application's own, which keeps the configuration or       *)
(* forgets the schedule.                                                   *)
LEMMA DirectSound ==
  ASSUME ScheduleSound, NEW res, Good(pid, NoOutput, res, -FloatMax, FloatMax), Direct(res)
  PROVE  ScheduleSound'
<1>1. pid' = res.pid /\ Sound(pid', -FloatMax, FloatMax)
  BY DEF Direct, Good
<1>2. CASE res.pid.cfg = pid.cfg
  BY <1>1, <1>2 DEF Direct, ScheduleSound, LookedUp
<1>3. CASE res.pid.cfg # pid.cfg
  BY <1>1, <1>3 DEF Direct, ScheduleSound
<1>4. QED
  BY <1>2, <1>3

(* What an accepted update leaves behind. *)
LEMMA UpdateStep ==
  ASSUME ScheduleSound, Update
  PROVE  /\ ScheduleSound'
         /\ updated' => \E t \in Tables, sigma \in Int :
              LET s == [tbl |-> t, sigma |-> sigma]
              IN  /\ ValidTable(t) /\ scheduled' = {s}
                  /\ ValidConfig(LookedUp(s)) => pid'.cfg = LookedUp(s)
                  /\ OnlySchedules(pid, pid', t, LookedUp(s))
<1>1. PICK t \in Tables, sigma \in Sigmas :
        IF pid.is_initialised /\ IsFinite(sigma) /\ ValidTable(t)
        THEN /\ pid' = Apply(pid, t, Candidate(t, LowerIndex(t, sigma), sigma))
             /\ scheduled' = {[tbl |-> t, sigma |-> sigma]}
             /\ ret' = {} /\ updated' = TRUE
        ELSE ret' = {"CONFIG_INVALID"} /\ updated' = FALSE /\ UNCHANGED <<pid, scheduled>>
  BY DEF Update
<1>2. CASE pid.is_initialised /\ IsFinite(sigma) /\ ValidTable(t)
  <2> DEFINE s == [tbl |-> t, sigma |-> sigma]
  <2>1. /\ pid' = Apply(pid, t, LookedUp(s)) /\ scheduled' = {s}
        /\ s.tbl = t /\ s.sigma = sigma /\ sigma \in Int
    BY <1>1, <1>2, FiniteIsInt DEF LookedUp
  <2>2. /\ Sound(pid', -FloatMax, FloatMax)
        /\ ValidConfig(LookedUp(s)) => pid'.cfg = LookedUp(s)
        /\ OnlySchedules(pid, pid', t, LookedUp(s))
    <3>1. Sound(pid, -FloatMax, FloatMax)
      BY DEF ScheduleSound
    <3>2. QED
      BY <1>2, <2>1, <3>1, UpdateSound
  <2>3. LookedUp(s)' = LookedUp(s)
    BY DEF LookedUp
  <2>4. ScheduleSound'
    <3> HIDE DEF s
    <3> QED BY <1>2, <2>1, <2>2, <2>3 DEF ScheduleSound
  <2>5. QED
    BY <1>2, <2>1, <2>2, <2>4
<1>3. CASE ~(pid.is_initialised /\ IsFinite(sigma) /\ ValidTable(t))
  BY <1>1, <1>3 DEF ScheduleSound
<1>4. QED
  BY <1>2, <1>3

LEMMA ScheduleInit == Init => ScheduleSound
<1>1. Sound(ZeroPid, -FloatMax, FloatMax)
  BY ZeroPidSound, RonUtilAssumption
<1>2. QED
  BY <1>1 DEF Init, ScheduleSound

LEMMA ScheduleInvariance == Spec => []ScheduleSound
<1>1. ScheduleSound /\ [Next]_vars => ScheduleSound'
  <2> SUFFICES ASSUME ScheduleSound, [Next]_vars PROVE ScheduleSound'
    OBVIOUS
  <2> DEFINE lo == -FloatMax
             hi == FloatMax
  <2>1. lo \in Int /\ hi \in Int /\ lo <= 0 /\ 0 <= hi /\ Sound(pid, lo, hi)
    BY RonUtilAssumption DEF ScheduleSound
  <2>2. CASE Update
    BY <2>2, UpdateStep
  <2>3. CASE Initialise
    <3>1. PICK cfg \in InitialConfigs : Direct(PidInit(pid, NoOutput, cfg))
      BY <2>3 DEF Initialise
    <3>2. cfg \in Config /\ (ValidConfig(cfg) => lo <= cfg.u_min /\ cfg.u_max <= hi)
      BY GainSchedAssumption DEF ValidConfig, ValidLimits, StrictRange, IsFinite
    <3> HIDE DEF lo, hi
    <3>3. Good(pid, NoOutput, PidInit(pid, NoOutput, cfg), lo, hi)
      BY <2>1, <3>2, InitGood
    <3>4. QED
      BY <3>1, <3>3, DirectSound DEF lo, hi
  <2>4. CASE SetGains
    <3>1. PICK g \in GainSets : Direct(PidSetGains(pid, NoOutput, g[1], g[2], g[3]))
      BY <2>4 DEF SetGains
    <3>2. g[1] \in Float /\ g[2] \in Float /\ g[3] \in Float
      BY GainSchedAssumption
    <3> HIDE DEF lo, hi
    <3>3. Good(pid, NoOutput, PidSetGains(pid, NoOutput, g[1], g[2], g[3]), lo, hi)
      BY <2>1, <3>2, SettersGood
    <3>4. QED
      BY <3>1, <3>3, DirectSound DEF lo, hi
  <2>5. CASE Step
    <3>1. PICK r \in Inputs, y \in Inputs : Direct(PidStep(pid, NoOutput, r, y, 1))
      BY <2>5 DEF Step
    <3> HIDE DEF lo, hi
    <3>2. Good(pid, NoOutput, PidStep(pid, NoOutput, r, y, 1), lo, hi)
      BY <2>1, StepGood
    <3>3. QED
      BY <3>1, <3>2, DirectSound DEF lo, hi
  <2>6. CASE UNCHANGED vars
    BY <2>6 DEF vars, ScheduleSound, LookedUp
  <2>7. QED
    BY <2>2, <2>3, <2>4, <2>5, <2>6 DEF Next
<1>2. QED
  BY <1>1, ScheduleInit, PTL DEF Spec

(* RON-FR-300, 302, 303: after an update the configuration in force is the *)
(* one the table defines at the operating point, whole or interpolated,    *)
(* for every table whose spans are finite floats.  Over an infinite span   *)
(* the fraction underflows and the gains are the lower breakpoint's.       *)
THEOREM ScheduleInForce ==
  ASSUME \A t \in Tables : ValidTable(t) => SpansAreFinite(t)
  PROVE  Spec => []InForceIsScheduled
<1>1. ScheduleSound => InForceIsScheduled
  <2> SUFFICES ASSUME ScheduleSound, NEW s \in scheduled
               PROVE  \E k \in 1..s.tbl.n_points : Defined(s.tbl, pid.cfg, k, s.sigma)
    BY DEF InForceIsScheduled, Defined
  <2> DEFINE k == LowerIndex(s.tbl, s.sigma)
  <2>1. s.tbl \in Tables /\ ValidTable(s.tbl) /\ s.sigma \in Int /\ SpansAreFinite(s.tbl)
    BY DEF ScheduleSound
  <2>2. k \in 1..s.tbl.n_points /\ IsBracket(s.tbl, k, s.sigma)
    BY <2>1, LookupBrackets
  <2> HIDE DEF k
  <2>3. ValidConfig(Candidate(s.tbl, k, s.sigma)) /\ Defined(s.tbl, Candidate(s.tbl, k, s.sigma), k, s.sigma)
    BY <2>1, <2>2, CandidateDefined
  <2>4. pid.cfg = Candidate(s.tbl, k, s.sigma)
    BY <2>3 DEF ScheduleSound, LookedUp, k
  <2>5. QED
    BY <2>2, <2>3, <2>4
<1>2. QED
  BY <1>1, ScheduleInvariance, PTL

(* The entry a hard switch looks up is a valid configuration. *)
LEMMA HardSwitchTakes ==
  ASSUME NEW t \in Tables, ValidTable(t), t.mode = "HARD_SWITCH", NEW sigma \in Int
  PROVE  LET k == LowerIndex(t, sigma)
         IN  /\ k \in 1..t.n_points /\ IsBracket(t, k, sigma)
             /\ Candidate(t, k, sigma) = t.points[k].cfg
             /\ ValidConfig(Candidate(t, k, sigma))
  BY LookupBrackets, CandidateTypes DEF TakesEntry

(* Between the same two breakpoints a hard switch finds the configuration  *)
(* that is in force already.                                               *)
LEMMA SameEntry ==
  ASSUME NEW t \in Tables, ValidTable(t), t.mode = "HARD_SWITCH",
         NEW s1 \in Int, NEW s2 \in Int, SameSegment(t, s1, s2)
  PROVE  Candidate(t, LowerIndex(t, s1), s1) = Candidate(t, LowerIndex(t, s2), s2)
<1> DEFINE j == LowerIndex(t, s1)
           k == LowerIndex(t, s2)
<1>1. PICK i \in 1..t.n_points : IsBracket(t, i, s1) /\ IsBracket(t, i, s2)
  BY DEF SameSegment
<1>2. /\ j \in 1..t.n_points /\ IsBracket(t, j, s1) /\ Candidate(t, j, s1) = t.points[j].cfg
      /\ k \in 1..t.n_points /\ IsBracket(t, k, s2) /\ Candidate(t, k, s2) = t.points[k].cfg
  BY HardSwitchTakes
<1> HIDE DEF j, k
<1>3. j = i
  BY <1>1, <1>2, OneBracket
<1>4. k = i
  BY <1>1, <1>2, OneBracket
<1>5. QED
  BY <1>2, <1>3, <1>4 DEF j, k

(* RON-FR-304: an update writes nothing but the configuration and, by a    *)
(* hard switch to another one whose table says so, the integral; consulted *)
(* again between the same two breakpoints, and under interpolation, it     *)
(* keeps the integral.                                                     *)
THEOREM SegmentKeepsIntegral == Spec => IntegralKeptInSegment
<1>1. ASSUME ScheduleSound, Next, updated'
      PROVE  /\ pid' = [pid EXCEPT !.cfg = pid'.cfg, !.integral = pid'.integral]
             /\ pid'.integral # pid.integral =>
                  /\ pid'.cfg # pid.cfg
                  /\ \A n \in scheduled' :
                       n.tbl.mode = "HARD_SWITCH" /\ n.tbl.reset_integral_on_switch
             /\ \A s \in scheduled, n \in scheduled' :
                  /\ s.tbl = n.tbl
                  /\ n.tbl.mode = "LINEAR_INTERP" \/ SameSegment(s.tbl, s.sigma, n.sigma)
                  => pid'.integral = pid.integral
  <2>1. Update
    BY <1>1 DEF Next, Initialise, SetGains, Step, Direct
  <2>2. PICK t \in Tables, sigma \in Int :
          LET n == [tbl |-> t, sigma |-> sigma]
          IN  /\ ValidTable(t) /\ scheduled' = {n}
              /\ ValidConfig(LookedUp(n)) => pid'.cfg = LookedUp(n)
              /\ OnlySchedules(pid, pid', t, LookedUp(n))
    BY <1>1, <2>1, UpdateStep
  <2> DEFINE n == [tbl |-> t, sigma |-> sigma]
  <2>3. /\ LookedUp(n) = Candidate(t, LowerIndex(t, sigma), sigma)
        /\ n.tbl = t /\ n.sigma = sigma
    BY DEF LookedUp
  <2>4. /\ pid' = [pid EXCEPT !.cfg = pid'.cfg, !.integral = pid'.integral]
        /\ pid'.integral # pid.integral =>
             t.mode = "HARD_SWITCH" /\ t.reset_integral_on_switch /\ pid.cfg # LookedUp(n)
    BY <2>2 DEF OnlySchedules
  <2>5. ASSUME pid'.integral # pid.integral
        PROVE  /\ pid'.cfg # pid.cfg
               /\ t.mode = "HARD_SWITCH" /\ t.reset_integral_on_switch
    <3>1. ValidConfig(LookedUp(n))
      BY <2>2, <2>3, <2>4, <2>5, HardSwitchTakes
    <3>2. QED
      BY <2>2, <2>4, <2>5, <3>1
  <2>6. ASSUME NEW s \in scheduled, s.tbl = t,
               t.mode = "LINEAR_INTERP" \/ SameSegment(t, s.sigma, sigma)
        PROVE  pid'.integral = pid.integral
    <3>1. CASE t.mode # "HARD_SWITCH"
      BY <2>4, <3>1
    <3>2. CASE t.mode = "HARD_SWITCH"
      <4>1. /\ s.sigma \in Int /\ (ValidConfig(LookedUp(s)) => pid.cfg = LookedUp(s))
            /\ LookedUp(s) = Candidate(t, LowerIndex(t, s.sigma), s.sigma)
        BY <1>1, <2>6 DEF ScheduleSound, LookedUp
      <4>2. SameSegment(t, s.sigma, sigma)
        BY <2>6, <3>2
      <4>3. LookedUp(s) = LookedUp(n)
        BY <2>2, <2>3, <3>2, <4>1, <4>2, SameEntry
      <4>4. ValidConfig(LookedUp(s))
        BY <2>2, <3>2, <4>1, HardSwitchTakes
      <4>5. QED
        BY <2>4, <4>1, <4>3, <4>4
    <3>3. QED
      BY <3>1, <3>2
  <2> HIDE DEF n
  <2>7. \A o \in scheduled' : o.tbl = t /\ o.sigma = sigma
    BY <2>2, <2>3 DEF n
  <2>8. QED
    BY <2>4, <2>5, <2>6, <2>7
<1>2. ScheduleSound /\ [Next]_vars =>
        [updated' =>
           /\ pid' = [pid EXCEPT !.cfg = pid'.cfg, !.integral = pid'.integral]
           /\ pid'.integral # pid.integral =>
                /\ pid'.cfg # pid.cfg
                /\ \A n \in scheduled' :
                     n.tbl.mode = "HARD_SWITCH" /\ n.tbl.reset_integral_on_switch
           /\ \A s \in scheduled, n \in scheduled' :
                /\ s.tbl = n.tbl
                /\ n.tbl.mode = "LINEAR_INTERP" \/ SameSegment(s.tbl, s.sigma, n.sigma)
                => pid'.integral = pid.integral]_vars
  BY <1>1
<1>3. QED
  BY <1>2, ScheduleInvariance, PTL DEF Spec, IntegralKeptInSegment
=============================================================================
