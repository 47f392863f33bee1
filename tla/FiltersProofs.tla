---------------------------- MODULE FiltersProofs ----------------------------
(***************************************************************************)
(* Proofs about Filters, for every configuration, sample and period: the   *)
(* types of a filter of any kind, that it implements the fault latch, that *)
(* the moving average is the mean of the last M samples, and the range of  *)
(* the low-pass and the rate limiter.  The difference equation of a biquad *)
(* is left to TLC: it holds only on a grid where its divisions are exact.  *)
(***************************************************************************)
EXTENDS Filters, RonLemmas

Statuses == {"OK", "FAULT", "RATE_LIMITED"}

(* A filter structure, whatever its configuration and memory. *)
IsFilter(g) ==
  g \in [cfg : {g.cfg}, mem : {g.mem}, y_prev : Finite, fault_code : FilterFault,
         status : Statuses, is_initialised : BOOLEAN]

(* A configuration with a cascade of sections. *)
IsCascade(cfg) == \E S : cfg \in [sections : Seq(S)]

(* The delay lines of a biquad. *)
DelayLines(mem) ==
  /\ mem \in Memory("BIQUAD")
  /\ \A k \in 1..MaxSections : IsFinite(mem.w1[k]) /\ IsFinite(mem.w2[k])

(* The memory between calls. *)
SoundMemory(k, mem) ==
  /\ mem \in Memory(k)
  /\ k = "MA" => IsFinite(mem.sum)
  /\ k = "BIQUAD" => DelayLines(mem)

(* The samples accepted since the last restart, and the rest value. *)
Seen == Range(hist) \union {0}

(* A value between two of the samples that bound them all. *)
WithinSeen(y, seen) ==
  \E lo, hi \in seen : (\A s \in seen : lo <= s /\ s <= hi) /\ lo <= y /\ y <= hi

(***************************************************************************)
(* The moving average over the last M samples of h, and 0 before the first *)
(* of them: the ring holds them oldest first from the index on, wrapping   *)
(* at M, and the running sum is theirs.                                    *)
(***************************************************************************)
Sample(h, j) == IF j \in 1..Len(h) THEN h[j] ELSE 0

Oldest(h, M) == IF Len(h) > M THEN Len(h) - M + 1 ELSE 1

Recent(h, M) == Net(h, Oldest(h, M)..Len(h))

Slot(M, j) == IF j < M THEN j ELSE j - M

Ring(M, mem, h) ==
  /\ mem.idx \in 0..M - 1
  /\ \A k \in 0..M - 1 : mem.buf[Slot(M, mem.idx + k)] = Sample(h, Len(h) - M + 1 + k)

RunningMean(M, mem, y, h) ==
  /\ Ring(M, mem, h)
  /\ mem.sum = Recent(h, M)
  /\ h # <<>> => y = Quot(Recent(h, M), M)

SoundFilter ==
  /\ kind \in Kind /\ retuned \in BOOLEAN
  /\ IsFilter(f) /\ out \in Finite /\ ret \in FilterFault
  /\ retuned => kind = "BIQUAD"
  /\ f.is_initialised /\ ~retuned => ValidFilterConfig(kind, f.cfg)
  /\ kind = "BIQUAD" /\ f.is_initialised => IsCascade(f.cfg)
  /\ SoundMemory(kind, f.mem)

SoundHistory ==
  /\ hist \in Seq(Inputs) /\ Seen \subseteq Finite
  /\ f.is_initialised /\ hist # <<>> => out = f.y_prev
  /\ kind \in {"LP1", "RATELIM"} => WithinSeen(f.y_prev, Seen)
  /\ kind = "MA" /\ f.is_initialised => RunningMean(f.cfg.M, f.mem, f.y_prev, hist)

Inv == SoundFilter /\ SoundHistory
-----------------------------------------------------------------------------
(* The rest state is sound. *)
LEMMA EmptyMemorySound == ASSUME NEW k \in Kind PROVE SoundMemory(k, EmptyMemory(k))
<1>1. 0 \in Float /\ IsFinite(0)
  BY FiniteFacts, FiniteMember
<1>2. CASE k = "MA"
  <2> DEFINE buf == [i \in 0..MaxWindow - 1 |-> 0]
  <2>1. buf \in [0..MaxWindow - 1 -> Float] /\ 0 \in 0..MaxWindow - 1 /\ 0 \in 0..MaxWindow
    BY <1>1, FilterAssumption
  <2>2. EmptyMemory(k) = [buf |-> buf, sum |-> 0, idx |-> 0, count |-> 0]
    BY <1>2 DEF EmptyMemory
  <2> HIDE DEF buf
  <2>3. QED
    BY <1>1, <1>2, <2>1, <2>2 DEF SoundMemory, Memory
<1>3. CASE k = "BIQUAD"
  <2> DEFINE w == [i \in 1..MaxSections |-> 0]
  <2>1. w \in [1..MaxSections -> Float] /\ \A i \in 1..MaxSections : IsFinite(w[i])
    BY <1>1
  <2>2. EmptyMemory(k) = [w1 |-> w, w2 |-> w]
    BY <1>3 DEF EmptyMemory
  <2> HIDE DEF w
  <2>3. QED
    <3>1. [w1 |-> w, w2 |-> w] \in Memory("BIQUAD")
      BY <2>1 DEF Memory
    <3>2. DelayLines([w1 |-> w, w2 |-> w])
      BY <2>1, <3>1 DEF DelayLines
    <3>3. QED
      BY <1>3, <2>2, <3>1, <3>2 DEF SoundMemory
<1>4. CASE k \in {"LP1", "RATELIM"}
  BY <1>4 DEF SoundMemory, Memory, EmptyMemory
<1>5. QED
  BY <1>2, <1>3, <1>4 DEF Kind

(* init and reset leave a filter at rest. *)
LEMMA SeededSound ==
  ASSUME NEW k \in Kind, NEW cfg, NEW ready \in BOOLEAN
  PROVE  LET g == Seeded(k, cfg, ready)
         IN  /\ IsFilter(g) /\ SoundMemory(k, g.mem)
             /\ g.cfg = cfg /\ g.y_prev = 0 /\ g.fault_code = "NONE" /\ g.is_initialised = ready
  BY EmptyMemorySound, FiniteFacts DEF Seeded, IsFilter, FilterFault, Statuses

(* With no sample seen, the rest value bounds everything. *)
LEMMA NothingSeen ==
  ASSUME hist' = <<>> PROVE Seen' = {0} /\ WithinSeen(0, Seen')
  BY DEF Seen, WithinSeen, Range

(* A further sample keeps the bounds, and lets the output move up to it.   *)
LEMMA SeenGrows ==
  ASSUME NEW seen, seen \subseteq Int, NEW y \in Int, WithinSeen(y, seen),
         NEW x \in Int, NEW z \in Int, \/ y <= z /\ z <= x
                                       \/ x <= z /\ z <= y
  PROVE  WithinSeen(z, seen \union {x})
<1>1. PICK lo \in seen, hi \in seen : (\A s \in seen : lo <= s /\ s <= hi) /\ lo <= y /\ y <= hi
  BY DEF WithinSeen
<1>2. lo \in Int /\ hi \in Int
  BY <1>1
<1> DEFINE low == IF x < lo THEN x ELSE lo
           high == IF x > hi THEN x ELSE hi
<1>3. low \in seen \union {x} /\ high \in seen \union {x}
  BY <1>1
<1>4. \A s \in seen \union {x} : low <= s /\ s <= high
  BY <1>1, <1>2
<1>5. low <= z /\ z <= high
  BY <1>1, <1>2
<1> HIDE DEF low, high
<1>6. QED
  BY <1>3, <1>4, <1>5 DEF WithinSeen

(* Min and Max of what was seen are its bounds. *)
LEMMA WithinMinMax ==
  ASSUME NEW seen, seen \subseteq Int, NEW y \in Int, WithinSeen(y, seen)
  PROVE  y \in Min(seen)..Max(seen)
<1>1. PICK lo \in seen, hi \in seen : (\A s \in seen : lo <= s /\ s <= hi) /\ lo <= y /\ y <= hi
  BY DEF WithinSeen
<1>2. Min(seen) \in seen /\ \A s \in seen : Min(seen) <= s
  BY <1>1 DEF Min
<1>3. Max(seen) \in seen /\ \A s \in seen : Max(seen) >= s
  BY <1>1 DEF Max
<1>4. Min(seen) <= lo /\ hi <= Max(seen) /\ {lo, hi, Min(seen), Max(seen)} \subseteq Int
  BY <1>1, <1>2, <1>3
<1>5. QED
  BY <1>1, <1>4
-----------------------------------------------------------------------------
(* A quotient is at most k if k divisors hold the dividend. *)
LEMMA QuotAtMost ==
  ASSUME NEW a \in Int, NEW b \in Int, b > 0, NEW k \in Int, a <= k * b
  PROVE  Quot(a, b) <= k
<1> DEFINE q == Quot(a, b)
<1>1. q \in Int /\ q * b <= a
  BY DEF Quot
<1> HIDE DEF q
<1>2. q * b < (k + 1) * b
  BY <1>1, ProductIsInt
<1>3. q < k + 1
  BY <1>1, <1>2
<1>4. QED
  BY <1>1, <1>3 DEF q

(* The product of two natural numbers is one. *)
LEMMA NaturalProduct == ASSUME NEW a \in Nat, NEW b \in Nat PROVE a * b \in Int /\ a * b >= 0
  OBVIOUS

(* A weighted mean lies between the two values. *)
LEMMA MeanBetween ==
  ASSUME NEW a \in Int, NEW n \in Int, 0 < a, a <= n, NEW x \in Int, NEW y \in Int
  PROVE  LET m == Quot(a * x + (n - a) * y, n)
         IN  /\ m \in Int
             /\ \/ y <= m /\ m <= x
                \/ x <= m /\ m <= y
<1> DEFINE s == a * x + (n - a) * y
           m == Quot(s, n)
<1>1. s \in Int
  BY ProductIsInt
<1>2. x <= y => x * n <= s /\ s <= y * n
  <2> SUFFICES ASSUME x <= y PROVE x * n <= s /\ s <= y * n
    OBVIOUS
  <2>1. a * (y - x) >= 0 /\ (n - a) * (y - x) >= 0
    BY NaturalProduct
  <2>2. s = x * n + (n - a) * (y - x) /\ s = y * n - a * (y - x)
    OBVIOUS
  <2>3. QED
    BY <2>1, <2>2, ProductIsInt
<1>3. y <= x => y * n <= s /\ s <= x * n
  <2> SUFFICES ASSUME y <= x PROVE y * n <= s /\ s <= x * n
    OBVIOUS
  <2>1. a * (x - y) >= 0 /\ (n - a) * (x - y) >= 0
    BY NaturalProduct
  <2>2. s = y * n + a * (x - y) /\ s = x * n - (n - a) * (x - y)
    OBVIOUS
  <2>3. QED
    BY <2>1, <2>2, ProductIsInt
<1> HIDE DEF s
<1>4. m \in Int
  BY <1>1, QuotIsInt
<1>5. x <= y => x <= m /\ m <= y
  BY <1>1, <1>2, QuotAtLeast, QuotAtMost
<1>6. y <= x => y <= m /\ m <= x
  BY <1>1, <1>3, QuotAtLeast, QuotAtMost
<1> HIDE DEF m
<1>7. \/ y <= m /\ m <= x
      \/ x <= m /\ m <= y
  BY <1>5, <1>6
<1>8. QED
  BY <1>4, <1>7 DEF m, s

(* The rate limiter moves towards the sample. *)
LEMMA LimitBetween ==
  ASSUME NEW x \in Int, NEW y \in Int, NEW fall \in Int, NEW rise \in Int, fall > 0, rise > 0
  PROVE  LET z == Clamp(x, y - fall, y + rise)
         IN  /\ z \in Int
             /\ \/ y <= z /\ z <= x
                \/ x <= z /\ z <= y
  BY DEF Clamp

(* The moving average's ring and counters stay within its buffer.          *)
LEMMA MaCommitSound ==
  ASSUME NEW g, SoundMemory("MA", g.mem), ValidFilterConfig("MA", g.cfg),
         NEW x \in Finite, NEW sum_next, IsFinite(sum_next)
  PROVE  SoundMemory("MA", MaCommit(g, x, sum_next))
<1>1. /\ g.mem.buf \in [0..MaxWindow - 1 -> Float]
      /\ g.mem.idx \in 0..MaxWindow - 1 /\ g.mem.count \in 0..MaxWindow
  BY DEF SoundMemory, Memory
<1>2. g.cfg.M \in 1..MaxWindow /\ MaxWindow \in Int
  BY FilterAssumption DEF ValidFilterConfig
<1> DEFINE buf == [g.mem.buf EXCEPT ![g.mem.idx] = x]
           idx == IF g.mem.idx + 1 >= g.cfg.M THEN 0 ELSE g.mem.idx + 1
           count == IF g.mem.count < g.cfg.M THEN g.mem.count + 1 ELSE g.mem.count
<1>3. buf \in [0..MaxWindow - 1 -> Float]
  BY <1>1, FiniteFacts
<1>4. idx \in 0..MaxWindow - 1 /\ count \in 0..MaxWindow
  BY <1>1, <1>2
<1>5. sum_next \in Float
  BY FiniteFacts, FiniteMember
<1>6. MaCommit(g, x, sum_next) = [buf |-> buf, sum |-> sum_next, idx |-> idx, count |-> count]
  BY DEF MaCommit
<1> HIDE DEF buf, idx, count
<1>7. QED
  BY <1>3, <1>4, <1>5, <1>6 DEF SoundMemory, Memory
-----------------------------------------------------------------------------
(* What a further sample makes of a history of finite ones. *)
LEMMA SampleNext ==
  ASSUME NEW h \in Seq(Finite), NEW x \in Finite
  PROVE  LET next == Append(h, x)
         IN  /\ next \in Seq(Finite) /\ next # <<>> /\ Len(h) \in Nat /\ Len(next) = Len(h) + 1
             /\ Sample(next, Len(h) + 1) = x
             /\ \A j \in Int : j <= Len(h) => Sample(next, j) = Sample(h, j)
             /\ \A j \in 1..Len(h) : next[j] = h[j]
             /\ next[Len(h) + 1] = x
<1> DEFINE next == Append(h, x)
<1>1. next \in Seq(Finite) /\ next # <<>> /\ Len(h) \in Nat /\ Len(next) = Len(h) + 1
  OBVIOUS
<1>2. next[Len(h) + 1] = x /\ \A j \in 1..Len(h) : next[j] = h[j]
  OBVIOUS
<1> HIDE DEF next
<1>3. Sample(next, Len(h) + 1) = x
  BY <1>1, <1>2 DEF Sample
<1>4. ASSUME NEW j \in Int, j <= Len(h) PROVE Sample(next, j) = Sample(h, j)
  BY <1>1, <1>2, <1>4 DEF Sample
<1>5. QED
  BY <1>1, <1>2, <1>3, <1>4 DEF next

(* The samples of a history, and their sums, are integers. *)
LEMMA RecentIsInt ==
  ASSUME NEW h \in Seq(Finite), NEW a \in Int, a >= 1, NEW b \in Int, b <= Len(h)
  PROVE  IsFiniteSet(a..b) /\ (\A k \in a..b : h[k] \in Int) /\ Net(h, a..b) \in Int
<1>1. IsFiniteSet(a..b)
  BY FS_Interval
<1>2. \A k \in a..b : h[k] \in Int
  <2>1. ASSUME NEW k \in a..b PROVE h[k] \in Int
    <3>1. k \in 1..Len(h)
      OBVIOUS
    <3>2. h[k] \in Finite
      BY <3>1
    <3>3. QED
      BY <3>2, FiniteFacts
  <2>2. QED
    BY <2>1
<1>3. QED
  BY <1>1, <1>2, NetIsInt

(* The sum of the last M samples gains the new one and loses the one that  *)
(* was the oldest of M.                                                    *)
LEMMA RecentNext ==
  ASSUME NEW h \in Seq(Finite), NEW x \in Finite, NEW M \in Nat, M >= 1
  PROVE  /\ Recent(h, M) \in Int
         /\ Recent(Append(h, x), M) = Recent(h, M) + x - Sample(h, Len(h) - M + 1)
<1> DEFINE n == Len(h)
           next == Append(h, x)
<1>1. /\ next \in Seq(Finite) /\ n \in Nat /\ Len(next) = n + 1
      /\ \A j \in 1..n : next[j] = h[j]
      /\ next[n + 1] = x /\ x \in Int
  BY SampleNext, FiniteFacts
<1> HIDE DEF n, next
<1>2. Oldest(h, M) \in Int /\ Oldest(h, M) >= 1
  BY <1>1 DEF Oldest, n
<1>3. Recent(h, M) \in Int
  BY <1>1, <1>2, RecentIsInt DEF Recent, n
<1>4. ASSUME NEW a \in Int, a >= 1, a <= n + 1
      PROVE  Net(next, a..n + 1) = Net(h, a..n) + x /\ Net(h, a..n) \in Int
  <2>1. a..n + 1 = (a..n) \union {n + 1} /\ n + 1 \notin a..n
    BY <1>1, <1>4
  <2>2. IsFiniteSet(a..n) /\ Net(h, a..n) \in Int
    BY <1>1, <1>4, RecentIsInt DEF n
  <2>3. \A k \in a..n + 1 : next[k] \in Int
    BY <1>1, <1>4, RecentIsInt
  <2>4. Net(next, (a..n) \union {n + 1}) = Net(next, a..n) + next[n + 1]
    <3> DEFINE T == a..n
               last == n + 1
    <3>1. IsFiniteSet(T) /\ last \notin T /\ \A k \in T \union {last} : next[k] \in Int
      BY <2>1, <2>2, <2>3
    <3> HIDE DEF T, last
    <3>2. Net(next, T \union {last}) = Net(next, T) + next[last]
      BY <3>1, NetAdd
    <3>3. QED
      BY <3>2 DEF T, last
  <2>5. Net(next, a..n) = Net(h, a..n)
    <3>1. \A k \in a..n : next[k] = h[k]
      BY <1>1, <1>4
    <3>2. QED
      BY <3>1, NetLocal
  <2>6. QED
    BY <1>1, <2>1, <2>2, <2>4, <2>5
<1>5. Recent(h, M) = Net(h, Oldest(h, M)..n) /\ Recent(next, M) = Net(next, Oldest(next, M)..n + 1)
  BY <1>1 DEF Recent, n
<1>6. CASE n < M
  <2>1. Oldest(h, M) = 1 /\ Oldest(next, M) = 1
    BY <1>1, <1>6 DEF Oldest, n
  <2>2. Sample(h, n - M + 1) = 0
    BY <1>1, <1>6 DEF Sample, n
  <2>3. Net(next, 1..n + 1) = Net(h, 1..n) + x /\ Net(h, 1..n) \in Int
    BY <1>1, <1>4
  <2>4. Recent(next, M) = Recent(h, M) + x /\ x \in Int
    BY <1>1, <1>5, <2>1, <2>3
  <2>5. Recent(next, M) = Recent(h, M) + x - Sample(h, n - M + 1)
    BY <1>3, <2>2, <2>4
  <2>6. QED
    BY <1>3, <2>5 DEF n, next
<1>7. CASE ~(n < M)
  <2> DEFINE a == n - M + 1
  <2>1. /\ Oldest(h, M) = a /\ Oldest(next, M) = a + 1
        /\ a \in Int /\ a >= 1 /\ a <= n
    BY <1>1, <1>7 DEF Oldest, n
  <2>2. Sample(h, a) = h[a] /\ h[a] \in Int
    <3> HIDE DEF a
    <3>1. a \in 1..Len(h)
      BY <1>1, <2>1 DEF n
    <3>2. h[a] \in Finite
      BY <3>1
    <3>3. QED
      BY <3>1, <3>2, FiniteFacts DEF Sample
  <2> HIDE DEF a
  <2>3. Net(next, a + 1..n + 1) = Net(h, a + 1..n) + x /\ Net(h, a + 1..n) \in Int
    BY <1>1, <1>4, <2>1
  <2>4. Net(h, a..n) = h[a] + Net(h, (a..n) \ {a})
    <3> DEFINE S == a..n
    <3>1. IsFiniteSet(S) /\ a \in S /\ \A k \in S : h[k] \in Int
      BY <1>1, <2>1, RecentIsInt DEF n
    <3> HIDE DEF S
    <3>2. Net(h, S) = h[a] + Net(h, S \ {a})
      BY <3>1, NetRemove
    <3>3. QED
      BY <3>2 DEF S
  <2>5. (a..n) \ {a} = a + 1..n
    BY <1>1, <2>1
  <2> DEFINE mid == Net(h, a + 1..n)
  <2>6. mid \in Int /\ Recent(h, M) = h[a] + mid /\ Recent(next, M) = mid + x
    BY <1>5, <2>1, <2>3, <2>4, <2>5
  <2> HIDE DEF mid
  <2>7. Recent(next, M) = Recent(h, M) + x - Sample(h, a)
    BY <1>1, <2>2, <2>6
  <2>8. QED
    BY <1>3, <2>7 DEF a, n, next
<1>8. QED
  BY <1>6, <1>7

(* The new sample takes the place of the oldest, which the index names.    *)
LEMMA RingNext ==
  ASSUME NEW M \in 1..MaxWindow, NEW mem, mem.buf \in [0..MaxWindow - 1 -> Float],
         NEW h \in Seq(Finite), Ring(M, mem, h), NEW x \in Finite,
         NEW new, new.buf = [mem.buf EXCEPT ![mem.idx] = x], new.idx = Slot(M, mem.idx + 1)
  PROVE  /\ mem.buf[mem.idx] = Sample(h, Len(h) - M + 1)
         /\ Ring(M, new, Append(h, x))
<1> DEFINE n == Len(h)
           next == Append(h, x)
           i == mem.idx
<1>1. /\ M \in Nat /\ M >= 1 /\ M <= MaxWindow /\ MaxWindow \in Int /\ n \in Nat
      /\ Len(next) = n + 1 /\ Sample(next, n + 1) = x
      /\ \A j \in Int : j <= n => Sample(next, j) = Sample(h, j)
  BY SampleNext, FilterAssumption
<1>2. i \in 0..M - 1 /\ \A k \in 0..M - 1 : mem.buf[Slot(M, i + k)] = Sample(h, n - M + 1 + k)
  BY DEF Ring
<1> HIDE DEF n, next, i
<1>3. mem.buf[i] = Sample(h, n - M + 1)
  <2>1. 0 \in 0..M - 1 /\ Slot(M, i + 0) = i /\ n - M + 1 + 0 = n - M + 1
    BY <1>1, <1>2 DEF Slot
  <2>2. QED
    BY <1>2, <2>1
<1>4. new.idx = Slot(M, i + 1) /\ new.idx \in 0..M - 1
  <2>1. new.idx = Slot(M, i + 1)
    BY DEF i
  <2>2. Slot(M, i + 1) \in 0..M - 1
    BY <1>1, <1>2 DEF Slot
  <2>3. QED
    BY <2>1, <2>2
<1>5. /\ new.buf[i] = x
      /\ \A j \in 0..M - 1 : j # i => new.buf[j] = mem.buf[j]
  <2>1. i \in 0..MaxWindow - 1 /\ 0..M - 1 \subseteq 0..MaxWindow - 1
    BY <1>1, <1>2
  <2>2. new.buf = [mem.buf EXCEPT ![i] = x]
    BY DEF i
  <2>3. QED
    BY <2>1, <2>2
<1>6. ASSUME NEW k \in 0..M - 1
      PROVE  new.buf[Slot(M, new.idx + k)] = Sample(next, n + 1 - M + 1 + k)
  <2>1. CASE k = M - 1
    <3>1. Slot(M, new.idx + k) = i
      BY <1>1, <1>2, <1>4, <2>1 DEF Slot
    <3>2. n + 1 - M + 1 + k = n + 1
      BY <1>1, <2>1
    <3>3. QED
      BY <1>1, <1>5, <3>1, <3>2
  <2>2. CASE k # M - 1
    <3> DEFINE j == Slot(M, i + (k + 1))
    <3>1. k + 1 \in 0..M - 1
      BY <1>1, <2>2
    <3>2. Slot(M, new.idx + k) = j /\ j \in 0..M - 1 /\ j # i
      BY <1>1, <1>2, <1>4, <3>1 DEF Slot
    <3>3. mem.buf[j] = Sample(h, n - M + 1 + (k + 1))
      BY <1>2, <3>1
    <3> HIDE DEF j
    <3>4. n - M + 1 + (k + 1) = n + 1 - M + 1 + k /\ n + 1 - M + 1 + k \in Int
          /\ n + 1 - M + 1 + k <= n
      BY <1>1, <3>1
    <3>5. Sample(next, n + 1 - M + 1 + k) = Sample(h, n + 1 - M + 1 + k)
      BY <1>1, <3>4
    <3>6. QED
      BY <1>5, <3>2, <3>3, <3>4, <3>5
  <2>3. QED
    BY <2>1, <2>2
<1>7. Ring(M, new, next)
  BY <1>1, <1>4, <1>6 DEF Ring
<1>8. QED
  BY <1>3, <1>7 DEF i, n, next

(* The moving average before the first sample. *)
LEMMA RunningMeanEmpty ==
  ASSUME NEW M \in 1..MaxWindow PROVE RunningMean(M, EmptyMemory("MA"), 0, <<>>)
<1> DEFINE mem == EmptyMemory("MA")
<1>1. M \in Nat /\ M >= 1 /\ M <= MaxWindow /\ MaxWindow \in Int
  BY FilterAssumption
<1>2. mem.buf = [k \in 0..MaxWindow - 1 |-> 0] /\ mem.sum = 0 /\ mem.idx = 0
  BY DEF EmptyMemory
<1> HIDE DEF mem
<1>3. ASSUME NEW k \in 0..M - 1
      PROVE  mem.buf[Slot(M, mem.idx + k)] = Sample(<<>>, Len(<<>>) - M + 1 + k)
  <2>1. Slot(M, mem.idx + k) \in 0..MaxWindow - 1
    BY <1>1, <1>2 DEF Slot
  <2>2. \A j : Sample(<<>>, j) = 0
    BY DEF Sample
  <2>3. QED
    BY <1>2, <2>1, <2>2
<1>4. Ring(M, mem, <<>>)
  BY <1>1, <1>2, <1>3 DEF Ring
<1>5. Recent(<<>>, M) = 0
  <2>1. Oldest(<<>>, M)..Len(<<>>) = {}
    BY <1>1 DEF Oldest
  <2>2. QED
    BY <2>1, NetEmpty DEF Recent
<1>6. QED
  BY <1>2, <1>4, <1>5 DEF RunningMean, mem

(* A sample that is accepted moves the window on by one. *)
LEMMA RunningMeanNext ==
  ASSUME NEW g, SoundMemory("MA", g.mem), NEW M, M = g.cfg.M, M \in 1..MaxWindow,
         NEW y, NEW h \in Seq(Finite), RunningMean(M, g.mem, y, h),
         NEW x \in Finite, IsFinite(MaApply(g, x).y)
  PROVE  RunningMean(M, MaApply(g, x).mem, MaApply(g, x).y, Append(h, x))
<1> DEFINE oldest == g.mem.buf[g.mem.idx]
           sum_next == Minus(Plus(g.mem.sum, x), oldest)
           new == MaApply(g, x).mem
           next == Append(h, x)
<1>1. M \in Nat /\ M >= 1 /\ M \in Int /\ M > 0
  BY FilterAssumption
<1>2. MaApply(g, x) = [y |-> Scaled(sum_next, 1, M), mem |-> MaCommit(g, x, sum_next)]
  BY DEF MaApply
<1>3. /\ g.mem.buf \in [0..MaxWindow - 1 -> Float]
      /\ Ring(M, g.mem, h) /\ g.mem.sum = Recent(h, M)
  BY DEF SoundMemory, Memory, RunningMean
<1>4. /\ new.buf = [g.mem.buf EXCEPT ![g.mem.idx] = x] /\ new.sum = sum_next
      /\ new.idx = IF g.mem.idx + 1 >= M THEN 0 ELSE g.mem.idx + 1
  BY <1>2 DEF MaCommit
<1> HIDE DEF sum_next, new
<1>5. new.idx = Slot(M, g.mem.idx + 1)
  <2>1. g.mem.idx \in 0..M - 1
    BY <1>3 DEF Ring
  <2>2. QED
    BY <1>1, <1>4, <2>1 DEF Slot
<1>6. oldest = Sample(h, Len(h) - M + 1) /\ Ring(M, new, next)
  BY <1>3, <1>4, <1>5, RingNext
<1>7. IsFinite(sum_next) /\ MaApply(g, x).y = Scaled(sum_next, 1, M)
  BY <1>2, ScaledFinite, FiniteMember
<1>8. /\ Recent(h, M) \in Int
      /\ Recent(next, M) = Recent(h, M) + x - Sample(h, Len(h) - M + 1)
  BY <1>1, RecentNext
<1> HIDE DEF oldest
<1>9. sum_next = Recent(next, M)
  <2> DEFINE partial == Plus(g.mem.sum, x)
  <2>1. partial \in Finite /\ oldest \in Finite /\ sum_next = partial - oldest
    BY <1>7, MinusFinite DEF sum_next
  <2>2. g.mem.sum \in Finite /\ partial = g.mem.sum + x
    BY <2>1, PlusFinite, FiniteMember
  <2> HIDE DEF partial
  <2>3. sum_next = g.mem.sum + x - oldest
    <3>1. partial \in Int /\ oldest \in Int /\ g.mem.sum \in Int /\ x \in Int
      BY <2>1, <2>2, FiniteFacts
    <3>2. QED
      BY <2>1, <2>2, <3>1
  <2>4. sum_next = Recent(h, M) + x - Sample(h, Len(h) - M + 1)
    BY <1>3, <1>6, <2>3
  <2>5. Recent(next, M) = Recent(h, M) + x - Sample(h, Len(h) - M + 1)
    BY <1>8
  <2>6. QED
    BY <2>4, <2>5
<1>10. MaApply(g, x).y = Quot(Recent(next, M), M)
  <2>1. sum_next \in Int
    BY <1>7, FiniteIsInt
  <2>2. sum_next * 1 = sum_next
    BY <2>1
  <2>3. Scaled(sum_next, 1, M) = Fin(Quot(sum_next * 1, M))
    BY <1>7, ScaledFinite, FiniteMember DEF Scaled
  <2> DEFINE mean == Quot(sum_next, M)
  <2>4. mean \in Int
    BY <1>1, <2>1, QuotIsInt
  <2>5. MaApply(g, x).y = Fin(mean)
    BY <1>7, <2>2, <2>3
  <2>6. MaApply(g, x).y = mean
    <3> HIDE DEF mean
    <3>1. IsFinite(Fin(mean))
      BY <2>5
    <3>2. QED
      BY <2>4, <2>5, <3>1, FinFinite
  <2>7. QED
    BY <1>9, <2>6
<1>11. QED
  BY <1>4, <1>6, <1>9, <1>10 DEF RunningMean, new, next

(* The fold of OutputIsHistory is the sum of the last samples. *)
LEMMA LastSumIsRecent ==
  ASSUME hist \in Seq(Finite), NEW M \in Nat, M >= 1 PROVE LastSum(M) = Recent(hist, M)
<1> DEFINE S == Oldest(hist, M)..Len(hist)
           step(iter) ==
             [T \in SUBSET S |->
                IF T = {} THEN 0
                ELSE hist[CHOOSE x \in T : TRUE] + iter[T \ {CHOOSE x \in T : TRUE}]]
           fold == CHOOSE iter : iter = step(iter)
<1>1. Oldest(hist, M) \in Int /\ Oldest(hist, M) >= 1 /\ Len(hist) \in Int
  BY DEF Oldest
<1>2. IsFiniteSet(S) /\ \A k \in S : hist[k] \in Int
  BY <1>1, RecentIsInt
<1>3. ASSUME NEW iter PROVE step(iter) = Unfolded(hist, S, iter)
  BY DEF Unfolded
<1>4. \E iter : iter = step(iter)
  <2>1. \E iter : iter = Unfolded(hist, S, iter)
    <3> HIDE DEF S
    <3> QED BY <1>2, FoldExists
  <2> HIDE DEF step, S
  <2>2. QED
    BY <1>3, <2>1
<1>5. fold = step(fold)
  <2> HIDE DEF step
  <2> QED BY <1>4
<1>6. MapThenSumSet(LAMBDA k : hist[k], S) = fold[S]
  <2> HIDE DEF S
  <2> QED BY DEF MapThenSumSet, MapThenFoldSet
<1>7. LastSum(M) = MapThenSumSet(LAMBDA k : hist[k], S)
  BY DEF LastSum, Oldest
<1> HIDE DEF fold, step, S
<1>8. fold[S] = Net(hist, S)
  BY <1>2, <1>3, <1>5, FoldIsNet
<1>9. QED
  BY <1>6, <1>7, <1>8 DEF S, Recent
-----------------------------------------------------------------------------
(***************************************************************************)
(* The signal through section k of a biquad g, and what it adds to the     *)
(* delay lines: BiquadApply folds this over the sections.                  *)
(***************************************************************************)
Through(g, acc, k) ==
  LET r == SectionStep(g.cfg.sections[k], g.mem.w1[k], g.mem.w2[k], acc.y)
  IN  [y |-> r.output, w0 |-> Append(acc.w0, r.w0)]

Entry(x) == [y |-> x, w0 |-> <<>>]

Passed(g, x, n, iter) ==
  [T \in SUBSET (1..n) |->
     IF T = {} THEN Entry(x) ELSE Through(g, iter[T \ {Max(T)}], Max(T))]

(* The sets of at most m sections. *)
Few(n, m) == {T \in SUBSET (1..n) : Cardinality(T) <= m}

LEMMA LessOne ==
  ASSUME NEW n \in Nat, NEW m \in Nat, NEW T \in Few(n, m), T # {}
  PROVE  /\ Max(T) \in T /\ T \ {Max(T)} \in SUBSET (1..n) /\ m > 0
         /\ T \ {Max(T)} \in Few(n, m - 1) /\ T \ {Max(T)} \in Few(n, m)
<1>1. T \subseteq 1..n /\ Cardinality(T) <= m
  BY DEF Few
<1>2. IsFiniteSet(T)
  <2>1. IsFiniteSet(1..n)
    BY FS_Interval
  <2>2. QED
    BY <1>1, <2>1, FS_Subset
<1>3. Max(T) \in T
  <2>1. T \subseteq 0..n
    BY <1>1
  <2>2. QED
    BY <2>1, MaxOfBounded
<1> DEFINE R == T \ {Max(T)}
<1>4. Cardinality(R) = Cardinality(T) - 1 /\ IsFiniteSet(R)
  BY <1>2, <1>3, FS_RemoveElement
<1>5. Cardinality(R) \in Nat /\ Cardinality(T) \in Nat
  BY <1>2, <1>4, FS_CardinalityType
<1>6. R \in SUBSET (1..n)
  BY <1>1
<1> HIDE DEF R
<1>7. m > 0 /\ Cardinality(R) <= m - 1 /\ Cardinality(R) <= m
  BY <1>1, <1>4, <1>5
<1>8. QED
  BY <1>3, <1>6, <1>7 DEF Few, R

(* There is such an iteration. *)
LEMMA PassExists ==
  ASSUME NEW g, NEW x, NEW n \in Nat
  PROVE  \E iter : iter = Passed(g, x, n, iter)
<1> DEFINE e(iter, T) == IF T = {} THEN Entry(x) ELSE Through(g, iter[T \ {Max(T)}], Max(T))
           Agrees(m) == \E iter : \A T \in Few(n, m) : iter[T] = e(iter, T)
           Wrong == {m \in Nat : ~Agrees(m)}
<1>1. ASSUME NEW m \in Nat, m > 0, Agrees(m - 1) PROVE Agrees(m)
  <2>1. PICK old : \A T \in Few(n, m - 1) : old[T] = e(old, T)
    BY <1>1
  <2> DEFINE new == [T \in SUBSET (1..n) |-> e(old, T)]
  <2>2. ASSUME NEW T \in Few(n, m - 1) PROVE new[T] = old[T]
    <3>1. T \in SUBSET (1..n)
      BY DEF Few
    <3>2. new[T] = e(old, T)
      BY <3>1
    <3>3. QED
      BY <2>1, <3>2
  <2>3. ASSUME NEW T \in Few(n, m) PROVE new[T] = e(new, T)
    <3>1. T \in SUBSET (1..n)
      BY DEF Few
    <3>2. new[T] = e(old, T)
      BY <3>1
    <3>3. CASE T = {}
      BY <3>2, <3>3
    <3>4. CASE T # {}
      <4>1. T \ {Max(T)} \in Few(n, m - 1)
        BY <3>4, LessOne
      <4>2. new[T \ {Max(T)}] = old[T \ {Max(T)}]
        <5> HIDE DEF new
        <5> QED BY <2>2, <4>1
      <4> HIDE DEF new
      <4>3. QED
        BY <3>2, <3>4, <4>2
    <3>5. QED
      BY <3>3, <3>4
  <2> HIDE DEF new, e
  <2>4. QED
    BY <2>3
<1>2. Agrees(0)
  <2> DEFINE new == [T \in SUBSET (1..n) |-> Entry(x)]
  <2>1. ASSUME NEW T \in Few(n, 0) PROVE new[T] = e(new, T)
    <3>1. T \in SUBSET (1..n)
      BY DEF Few
    <3>2. T = {}
      <4>1. ASSUME T # {} PROVE FALSE
        <5>1. 0 \in Nat /\ ~(0 > 0)
          OBVIOUS
        <5>2. 0 > 0
          BY <4>1, <5>1, LessOne
        <5>3. QED
          BY <5>1, <5>2
      <4>2. QED
        BY <4>1
    <3>3. QED
      BY <3>1, <3>2
  <2> HIDE DEF new, e
  <2>2. QED
    BY <2>1
<1>3. Agrees(n)
  <2> HIDE DEF Agrees
  <2>1. ASSUME Wrong # {} PROVE FALSE
    <3>1. PICK m \in Wrong : \A k \in Wrong : m <= k
      BY <2>1, LeastNumber
    <3>2. m # 0 /\ m \in Nat
      BY <1>2
    <3>3. m > 0 /\ m - 1 \in Nat
      BY <3>2
    <3>4. m - 1 \notin Wrong
      BY <3>1, <3>2
    <3>5. Agrees(m - 1)
      BY <3>3, <3>4
    <3>6. Agrees(m)
      BY <1>1, <3>2, <3>3, <3>5
    <3>7. QED
      BY <3>1, <3>6
  <2>2. QED
    BY <2>1
<1>4. PICK iter : \A T \in Few(n, n) : iter[T] = e(iter, T)
  BY <1>3
<1> DEFINE pass == [T \in SUBSET (1..n) |-> iter[T]]
<1>5. ASSUME NEW T \in SUBSET (1..n) PROVE T \in Few(n, n)
  <2>1. IsFiniteSet(1..n) /\ Cardinality(1..n) = n
    BY FS_Interval
  <2>2. Cardinality(T) <= Cardinality(1..n)
    BY <2>1, FS_Subset
  <2>3. QED
    BY <2>1, <2>2 DEF Few
<1>6. ASSUME NEW T \in SUBSET (1..n) PROVE pass[T] = e(pass, T)
  <2>1. pass[T] = e(iter, T)
    BY <1>4, <1>5
  <2>2. CASE T = {}
    BY <2>1, <2>2
  <2>3. CASE T # {}
    <3>1. pass[T \ {Max(T)}] = iter[T \ {Max(T)}]
      OBVIOUS
    <3>2. QED
      BY <2>1, <2>3, <3>1
  <2>4. QED
    BY <2>2, <2>3
<1>7. Passed(g, x, n, pass) = [T \in SUBSET (1..n) |-> e(pass, T)]
  BY DEF Passed
<1>8. pass = Passed(g, x, n, pass)
  <2> HIDE DEF e
  <2> QED BY <1>6, <1>7
<1>9. QED
  BY <1>8

(* A section computes floats, and a finite output only from finite values. *)
LEMMA SectionFacts ==
  ASSUME NEW s, NEW w1, NEW w2, NEW input
  PROVE  LET r == SectionStep(s, w1, w2, input)
         IN  /\ r.w0 \in Float
             /\ IsFinite(r.output) => IsFinite(r.w0) /\ IsFinite(input)
<1> DEFINE r == SectionStep(s, w1, w2, input)
           q(c, w) == Scaled(c, w, One)
           fed == Minus(input, q(s.a1, w1))
           w0 == Minus(fed, q(s.a2, w2))
           part == Plus(q(s.b0, w0), q(s.b1, w1))
<1>1. r.w0 = w0 /\ r.output = Plus(part, q(s.b2, w2))
  BY DEF SectionStep
<1>2. w0 \in Float
  <2> HIDE DEF fed, q
  <2>1. w0 = NaN \/ w0 \in Finite
    BY RonUtilAssumption, FiniteMember DEF Minus, Fin
  <2>2. QED
    BY <2>1, FiniteFacts DEF Float
<1>3. ASSUME IsFinite(r.output) PROVE IsFinite(w0) /\ IsFinite(input)
  <2>1. part \in Finite
    <3> HIDE DEF part, q
    <3> QED BY <1>1, <1>3, PlusFinite
  <2>2. q(s.b0, w0) \in Finite
    <3> HIDE DEF w0, q
    <3> QED BY <2>1, PlusFinite, FiniteMember
  <2>3. w0 \in Finite
    <3> HIDE DEF w0
    <3> QED BY <2>2, ScaledFinite, FiniteMember
  <2>4. fed \in Finite
    <3> HIDE DEF fed, q
    <3> QED BY <2>3, MinusFinite, FiniteMember
  <2>5. input \in Finite
    <3> HIDE DEF q
    <3> QED BY <2>4, MinusFinite, FiniteMember
  <2> HIDE DEF w0
  <2>6. QED
    BY <2>3, <2>5, FiniteMember
<1> HIDE DEF w0
<1>4. QED
  BY <1>1, <1>2, <1>3

(* What has passed the first k sections. *)
Left(acc, k) ==
  /\ acc.w0 \in Seq(Float) /\ Len(acc.w0) = k
  /\ IsFinite(acc.y) => \A j \in 1..k : IsFinite(acc.w0[j])

LEMMA ThroughOne ==
  ASSUME NEW g, NEW k \in Nat, NEW acc, Left(acc, k) PROVE Left(Through(g, acc, k + 1), k + 1)
<1> DEFINE r == SectionStep(g.cfg.sections[k + 1], g.mem.w1[k + 1], g.mem.w2[k + 1], acc.y)
           next == Through(g, acc, k + 1)
<1>1. r.w0 \in Float /\ (IsFinite(r.output) => IsFinite(r.w0) /\ IsFinite(acc.y))
  BY SectionFacts
<1>2. next.y = r.output /\ next.w0 = Append(acc.w0, r.w0)
  BY DEF Through
<1> HIDE DEF r, next
<1>3. /\ next.w0 \in Seq(Float) /\ Len(next.w0) = k + 1
      /\ next.w0[k + 1] = r.w0
      /\ \A j \in 1..k : next.w0[j] = acc.w0[j]
  BY <1>1, <1>2 DEF Left
<1>4. ASSUME IsFinite(next.y), NEW j \in 1..k + 1 PROVE IsFinite(next.w0[j])
  <2>1. CASE j = k + 1
    BY <1>1, <1>2, <1>3, <1>4, <2>1
  <2>2. CASE j # k + 1
    <3>1. j \in 1..k
      BY <2>2
    <3>2. QED
      BY <1>1, <1>2, <1>3, <1>4, <3>1 DEF Left
  <2>3. QED
    BY <2>1, <2>2
<1>5. QED
  BY <1>3, <1>4 DEF Left, next

(* After all the sections. *)
LEMMA PassedAll ==
  ASSUME NEW g, NEW x, NEW n \in Nat, NEW iter, iter = Passed(g, x, n, iter)
  PROVE  Left(iter[1..n], n)
<1> DEFINE Wrong == {k \in Nat : k <= n /\ ~Left(iter[1..k], k)}
<1>1. Left(iter[1..0], 0)
  <2>1. 1..0 = {} /\ {} \in SUBSET (1..n)
    OBVIOUS
  <2>2. iter[{}] = Entry(x)
    BY <2>1 DEF Passed
  <2>3. Left(Entry(x), 0)
    <3>1. Entry(x).w0 = <<>>
      BY DEF Entry
    <3>2. <<>> \in Seq(Float) /\ Len(<<>>) = 0 /\ \A j \in 1..0 : FALSE
      OBVIOUS
    <3>3. QED
      BY <3>1, <3>2 DEF Left
  <2>4. QED
    BY <2>1, <2>2, <2>3
<1>2. ASSUME NEW k \in Nat, k + 1 <= n, Left(iter[1..k], k) PROVE Left(iter[1..k + 1], k + 1)
  <2> DEFINE T == 1..k + 1
  <2>1. T \in SUBSET (1..n) /\ T # {} /\ T \subseteq Int /\ k + 1 \in T /\ \A y \in T : y <= k + 1
    <3>1. k + 1 \in T /\ T \subseteq Int /\ \A y \in T : y <= k + 1
      OBVIOUS
    <3>2. T \subseteq 1..n
      BY <1>2
    <3> HIDE DEF T
    <3>3. QED
      BY <3>1, <3>2
  <2>2. T \ {k + 1} = 1..k
    OBVIOUS
  <2> HIDE DEF T
  <2>3. Max(T) = k + 1
    BY <2>1, MaxIs
  <2>4. iter[T] = Through(g, iter[T \ {Max(T)}], Max(T))
    BY <2>1 DEF Passed
  <2>5. iter[T] = Through(g, iter[1..k], k + 1)
    BY <2>2, <2>3, <2>4
  <2>6. QED
    BY <1>2, <2>5, ThroughOne DEF T
<1>3. ASSUME Wrong # {} PROVE FALSE
  <2>1. PICK m \in Wrong : \A k \in Wrong : m <= k
    BY <1>3, LeastNumber
  <2>2. m \in Nat /\ m <= n /\ m # 0
    BY <1>1
  <2>3. m - 1 \in Nat /\ m - 1 <= n /\ m - 1 + 1 = m
    BY <2>2
  <2>4. m - 1 \notin Wrong
    BY <2>1, <2>2
  <2>5. Left(iter[1..m - 1], m - 1)
    BY <2>3, <2>4
  <2>6. Left(iter[1..m - 1 + 1], m - 1 + 1)
    BY <1>2, <2>2, <2>3, <2>5
  <2>7. QED
    BY <2>1, <2>3, <2>6
<1>4. QED
  BY <1>3

(* A sample a biquad accepts leaves finite values in them. *)
LEMMA BiquadAccepted ==
  ASSUME NEW g, IsCascade(g.cfg), DelayLines(g.mem), NEW x, IsFinite(BiquadApply(g, x).y)
  PROVE  DelayLines(BiquadApply(g, x).mem)
<1> DEFINE n == Len(g.cfg.sections)
           order == [k \in 1..n |-> k]
           step(iter) ==
             [T \in SUBSET (DOMAIN order) |->
                IF T = {} THEN Entry(x) ELSE Through(g, iter[T \ {Max(T)}], order[Max(T)])]
           fold == CHOOSE iter : iter = step(iter)
           run == fold[DOMAIN order]
           shifted(new, w) == [k \in 1..MaxSections |-> IF k <= n THEN new[k] ELSE w[k]]
<1>1. n \in Nat
  BY DEF IsCascade
<1>2. BiquadApply(g, x) =
        [y |-> run.y, mem |-> [w1 |-> shifted(run.w0, g.mem.w1),
                               w2 |-> shifted(g.mem.w1, g.mem.w2)]]
  BY DEF BiquadApply, FoldLeft, MapThenFoldSet, Through, Entry
<1> HIDE DEF n
<1>3. ASSUME NEW iter PROVE step(iter) = Passed(g, x, n, iter)
  <2>1. ASSUME NEW T \in SUBSET (1..n), T # {} PROVE [k \in 1..n |-> k][Max(T)] = Max(T)
    <3>1. T \subseteq 0..n
      BY <1>1
    <3>2. Max(T) \in T
      BY <1>1, <2>1, <3>1, MaxOfBounded
    <3>3. QED
      BY <3>2
  <2>2. QED
    BY <2>1 DEF Passed
<1>4. fold = step(fold)
  <2>1. \E iter : iter = Passed(g, x, n, iter)
    BY <1>1, PassExists
  <2> HIDE DEF step
  <2>2. \E iter : iter = step(iter)
    BY <1>3, <2>1
  <2>3. QED
    BY <2>2
<1>5. Left(run, n)
  <2> HIDE DEF fold, step
  <2>1. fold = Passed(g, x, n, fold)
    BY <1>3, <1>4
  <2>2. QED
    BY <1>1, <2>1, PassedAll
<1> HIDE DEF run
<1>6. \A j \in 1..n : run.w0[j] \in Finite
  BY <1>2, <1>5, FiniteMember DEF Left
<1>7. /\ g.mem.w1 \in [1..MaxSections -> Float] /\ g.mem.w2 \in [1..MaxSections -> Float]
      /\ \A k \in 1..MaxSections : g.mem.w1[k] \in Finite /\ g.mem.w2[k] \in Finite
  BY FiniteMember DEF DelayLines, Memory
<1>8. ASSUME NEW k \in 1..MaxSections
      PROVE  shifted(run.w0, g.mem.w1)[k] \in Finite /\ shifted(g.mem.w1, g.mem.w2)[k] \in Finite
  <2>1. CASE k <= n
    <3>1. k \in 1..n
      BY <1>1, <2>1, FilterAssumption
    <3>2. QED
      BY <1>6, <1>7, <2>1, <3>1
  <2>2. CASE ~(k <= n)
    BY <1>7, <2>2
  <2>3. QED
    BY <2>1, <2>2
<1> DEFINE a == shifted(run.w0, g.mem.w1)
           b == shifted(g.mem.w1, g.mem.w2)
<1>9. a \in [1..MaxSections -> Finite] /\ b \in [1..MaxSections -> Finite]
  BY <1>8
<1>10. BiquadApply(g, x).mem = [w1 |-> a, w2 |-> b]
  BY <1>2
<1> HIDE DEF a, b
<1>11. a \in [1..MaxSections -> Float] /\ b \in [1..MaxSections -> Float]
  BY <1>9, FiniteFacts
<1>12. QED
  BY <1>9, <1>10, <1>11, FiniteMember DEF DelayLines, Memory
-----------------------------------------------------------------------------
(* z is on the way from y to x. *)
Between(y, z, x) == \/ y <= z /\ z <= x
                    \/ x <= z /\ z <= y

(* What an accepted sample makes of a filter g. *)
AcceptedSample(k, g, x, res) ==
  /\ g.fault_code = "NONE" /\ x \in Finite
  /\ \E y \in Finite, status \in Statuses : \E mem :
       /\ res = Accept(g, y, mem, status)
       /\ SoundMemory(k, mem)
       /\ k \in {"LP1", "RATELIM"} => Between(g.y_prev, y, x)
       /\ k = "MA" => y = MaApply(g, x).y /\ mem = MaApply(g, x).mem

(* What a fault makes of it: the output it held, and a code that is new    *)
(* only if none was latched.                                               *)
Faulted(g, res) ==
  \E code \in FilterFault \ {"NONE"} :
    /\ g.fault_code # "NONE" => code = g.fault_code
    /\ res = HoldOutput(g, code)

(* A sample is accepted with a finite output and a sound memory. *)
LEMMA AcceptedBy ==
  ASSUME NEW k, NEW g, g.fault_code = "NONE", NEW x \in Finite, NEW y \in Finite,
         NEW mem, SoundMemory(k, mem), NEW status \in Statuses,
         k \in {"LP1", "RATELIM"} => Between(g.y_prev, y, x),
         k = "MA" => y = MaApply(g, x).y /\ mem = MaApply(g, x).mem
  PROVE  AcceptedSample(k, g, x, Accept(g, y, mem, status))
  BY DEF AcceptedSample

(* A sample the low-pass accepts. *)
LEMMA Lp1Accepted ==
  ASSUME NEW g, IsFilter(g), ValidFilterConfig("LP1", g.cfg), SoundMemory("LP1", g.mem),
         g.fault_code = "NONE", NEW x \in Finite, IsFinite(Lp1Apply(g, x).y)
  PROVE  AcceptedSample("LP1", g, x, Accept(g, Lp1Apply(g, x).y, Lp1Apply(g, x).mem, "OK"))
<1> DEFINE m == Quot(g.cfg.alpha * x + (One - g.cfg.alpha) * g.y_prev, One)
<1>1. /\ g.cfg.alpha \in Int /\ 0 < g.cfg.alpha /\ g.cfg.alpha <= One /\ One \in Int
      /\ x \in Int /\ g.y_prev \in Int
  BY FilterAssumption, FiniteIsInt, FiniteFacts DEF ValidFilterConfig, FilterPositive, IsFilter
<1>2. m \in Int /\ Between(g.y_prev, m, x)
  BY <1>1, MeanBetween DEF Between
<1>3. Lp1Apply(g, x).y = Fin(m) /\ Lp1Apply(g, x).mem = g.mem
  BY DEF Lp1Apply
<1> HIDE DEF m
<1>4. m \in Finite /\ Fin(m) = m
  BY <1>2, <1>3, FinFinite
<1>5. Lp1Apply(g, x).y \in Finite /\ Between(g.y_prev, Lp1Apply(g, x).y, x)
  BY <1>2, <1>3, <1>4
<1>6. SoundMemory("LP1", Lp1Apply(g, x).mem) /\ "OK" \in Statuses
  BY <1>3 DEF Statuses
<1>7. QED
  BY <1>5, <1>6, AcceptedBy

(* A sample the moving average accepts: its sum is finite. *)
LEMMA MaAccepted ==
  ASSUME NEW g, ValidFilterConfig("MA", g.cfg), SoundMemory("MA", g.mem),
         g.fault_code = "NONE", NEW x \in Finite, IsFinite(MaApply(g, x).y)
  PROVE  AcceptedSample("MA", g, x, Accept(g, MaApply(g, x).y, MaApply(g, x).mem, "OK"))
<1> DEFINE sum_next == Minus(Plus(g.mem.sum, x), g.mem.buf[g.mem.idx])
<1>1. MaApply(g, x) = [y |-> Scaled(sum_next, 1, g.cfg.M), mem |-> MaCommit(g, x, sum_next)]
  BY DEF MaApply
<1> HIDE DEF sum_next
<1>2. IsFinite(sum_next)
  BY <1>1, ScaledFinite, FiniteMember
<1>3. SoundMemory("MA", MaApply(g, x).mem)
  BY <1>1, <1>2, MaCommitSound
<1>4. MaApply(g, x).y \in Finite
  BY FiniteMember
<1>5. "OK" \in Statuses
  BY DEF Statuses
<1>6. QED
  BY <1>3, <1>4, <1>5, AcceptedBy

(* ron_lp1_step, ron_ma_step and ron_biquad_step. *)
LEMMA FilterStepOutcome ==
  ASSUME NEW k \in Kind \ {"RATELIM"}, NEW g, IsFilter(g), NEW u, NEW x,
         g.is_initialised /\ k # "BIQUAD" => ValidFilterConfig(k, g.cfg),
         g.is_initialised /\ k = "BIQUAD" => IsCascade(g.cfg),
         SoundMemory(k, g.mem)
  PROVE  LET res == FilterStep(k, g, u, x)
         IN  \/ ~g.is_initialised /\ res = Refused(g, u)
             \/ g.is_initialised /\ Faulted(g, res)
             \/ g.is_initialised /\ AcceptedSample(k, g, x, res)
<1>1. CASE ~g.is_initialised
  BY <1>1 DEF FilterStep
<1>2. CASE g.is_initialised /\ g.fault_code # "NONE"
  BY <1>2 DEF FilterStep, Faulted, IsFilter
<1>3. CASE g.is_initialised /\ g.fault_code = "NONE" /\ ~IsFinite(x)
  BY <1>3 DEF FilterStep, Faulted, FilterFault
<1>4. CASE g.is_initialised /\ g.fault_code = "NONE" /\ IsFinite(x)
  <2>1. x \in Finite
    BY <1>4, FiniteMember
  <2>2. CASE k = "LP1"
    <3>1. FilterStep(k, g, u, x) =
            IF IsFinite(Lp1Apply(g, x).y)
            THEN Accept(g, Lp1Apply(g, x).y, Lp1Apply(g, x).mem, "OK")
            ELSE HoldOutput(g, "OUTPUT_NAN")
      BY <1>4, <2>2 DEF FilterStep
    <3>2. QED
      BY <1>4, <2>1, <2>2, <3>1, Lp1Accepted DEF Faulted, FilterFault
  <2>3. CASE k = "MA"
    <3>1. FilterStep(k, g, u, x) =
            IF IsFinite(MaApply(g, x).y)
            THEN Accept(g, MaApply(g, x).y, MaApply(g, x).mem, "OK")
            ELSE HoldOutput(g, "OUTPUT_NAN")
      BY <1>4, <2>3 DEF FilterStep
    <3>2. QED
      BY <1>4, <2>1, <2>3, <3>1, MaAccepted DEF Faulted, FilterFault
  <2>4. CASE k = "BIQUAD"
    <3>1. FilterStep(k, g, u, x) =
            IF IsFinite(BiquadApply(g, x).y)
            THEN Accept(g, BiquadApply(g, x).y, BiquadApply(g, x).mem, "OK")
            ELSE HoldOutput(g, "OUTPUT_NAN")
      BY <1>4, <2>4 DEF FilterStep
    <3>2. CASE IsFinite(BiquadApply(g, x).y)
      <4>1. SoundMemory(k, BiquadApply(g, x).mem)
        BY <1>4, <2>4, <3>2, BiquadAccepted DEF SoundMemory, DelayLines
      <4>2. BiquadApply(g, x).y \in Finite /\ "OK" \in Statuses
        BY <3>2, FiniteMember DEF Statuses
      <4>3. AcceptedSample(k, g, x, Accept(g, BiquadApply(g, x).y, BiquadApply(g, x).mem, "OK"))
        BY <1>4, <2>1, <2>4, <4>1, <4>2, AcceptedBy
      <4>4. QED
        BY <1>4, <3>1, <3>2, <4>3
    <3>3. CASE ~IsFinite(BiquadApply(g, x).y)
      BY <1>4, <3>1, <3>3 DEF Faulted, FilterFault
    <3>4. QED
      BY <3>2, <3>3
  <2>5. QED
    BY <2>2, <2>3, <2>4 DEF Kind
<1>5. QED
  BY <1>1, <1>2, <1>3, <1>4

(* ron_ratelim_step. *)
LEMMA RatelimStepOutcome ==
  ASSUME NEW g, IsFilter(g), NEW u, NEW x, NEW dt,
         g.is_initialised => ValidFilterConfig("RATELIM", g.cfg),
         SoundMemory("RATELIM", g.mem)
  PROVE  LET res == RatelimStep(g, u, x, dt)
         IN  \/ ~g.is_initialised /\ res = Refused(g, u)
             \/ g.is_initialised /\ Faulted(g, res)
             \/ g.is_initialised /\ AcceptedSample("RATELIM", g, x, res)
<1>1. CASE ~g.is_initialised
  BY <1>1 DEF RatelimStep
<1>2. CASE g.is_initialised /\ g.fault_code # "NONE"
  BY <1>2 DEF RatelimStep, Faulted, IsFilter
<1>3. CASE g.is_initialised /\ g.fault_code = "NONE" /\ ~(IsFinite(x) /\ GoodDt(dt))
  <2>1. \/ RatelimStep(g, u, x, dt) = HoldOutput(g, "INPUT_NAN")
        \/ RatelimStep(g, u, x, dt) = HoldOutput(g, "CONFIG_INVALID")
    <3>1. CASE ~IsFinite(x) \/ ~IsFinite(dt)
      BY <1>3, <3>1 DEF RatelimStep
    <3>2. CASE IsFinite(x) /\ IsFinite(dt)
      <4>1. dt \in Int /\ dt <= 0
        BY <1>3, <3>2, FiniteIsInt DEF GoodDt
      <4>2. QED
        BY <1>3, <3>2, <4>1 DEF RatelimStep
    <3>3. QED
      BY <3>1, <3>2
  <2>2. QED
    BY <1>3, <2>1 DEF Faulted, FilterFault
<1>4. CASE g.is_initialised /\ g.fault_code = "NONE" /\ IsFinite(x) /\ GoodDt(dt)
  <2> DEFINE fall == g.cfg.rate_fall * dt
             rise == g.cfg.rate_rise * dt
             y == Clamp(x, g.y_prev - fall, g.y_prev + rise)
  <2>1. x \in Finite /\ x \in Int /\ g.y_prev \in Finite /\ g.y_prev \in Int
    BY <1>4, FiniteIsInt, FiniteMember, FiniteFacts DEF IsFilter
  <2>2. dt \in Int /\ dt > 0 /\ IsFinite(dt)
    BY <1>4, GoodDtIsInt DEF GoodDt
  <2>3. fall \in Int /\ rise \in Int /\ fall > 0 /\ rise > 0
    BY <1>4, <2>2, FiniteIsInt, PositiveProduct DEF ValidFilterConfig, FilterPositive
  <2>4. RatelimStep(g, u, x, dt) =
          Accept(g, y, g.mem, IF y = x THEN "OK" ELSE "RATE_LIMITED")
    BY <1>4, <2>2 DEF RatelimStep
  <2> HIDE DEF fall, rise
  <2>5. y \in Int /\ Between(g.y_prev, y, x)
    BY <2>1, <2>3, LimitBetween DEF Between
  <2> HIDE DEF y
  <2>6. y \in Finite
    BY <2>1, <2>5, FiniteBetween DEF Between
  <2> DEFINE status == IF y = x THEN "OK" ELSE "RATE_LIMITED"
  <2>7. status \in Statuses
    BY DEF Statuses
  <2>8. RatelimStep(g, u, x, dt) = Accept(g, y, g.mem, status)
    BY <2>4
  <2> HIDE DEF status
  <2>9. AcceptedSample("RATELIM", g, x, Accept(g, y, g.mem, status))
    BY <1>4, <2>1, <2>5, <2>6, <2>7, AcceptedBy
  <2>10. QED
    BY <1>4, <2>8, <2>9
<1>5. QED
  BY <1>1, <1>2, <1>3, <1>4
-----------------------------------------------------------------------------
(* A fault keeps the filter, and gives back the output it held. *)
LEMMA FaultedSound ==
  ASSUME NEW g, IsFilter(g), NEW res, Faulted(g, res)
  PROVE  /\ IsFilter(res.f) /\ res.f.cfg = g.cfg /\ res.f.mem = g.mem
         /\ res.f.y_prev = g.y_prev /\ res.f.is_initialised = g.is_initialised
         /\ res.f.fault_code \in FilterFault \ {"NONE"}
         /\ g.fault_code # "NONE" => res.f.fault_code = g.fault_code
         /\ res.out = g.y_prev /\ res.ret \in FilterFault \ {"NONE"}
<1>1. PICK code \in FilterFault \ {"NONE"} :
        (g.fault_code # "NONE" => code = g.fault_code) /\ res = HoldOutput(g, code)
  BY DEF Faulted
<1>2. res.f = [g EXCEPT !.fault_code = code, !.status = "FAULT"]
      /\ res.out = g.y_prev /\ res.ret = code
  BY <1>1 DEF HoldOutput
<1>3. QED
  BY <1>1, <1>2 DEF IsFilter, Statuses

(* An accepted sample replaces its output and its memory. *)
LEMMA AcceptedSound ==
  ASSUME NEW k, NEW g, IsFilter(g), NEW x, NEW res, AcceptedSample(k, g, x, res)
  PROVE  /\ IsFilter(res.f) /\ res.f.cfg = g.cfg /\ SoundMemory(k, res.f.mem)
         /\ res.f.is_initialised = g.is_initialised /\ res.f.fault_code = "NONE"
         /\ res.out = res.f.y_prev /\ res.out \in Finite /\ res.ret = "NONE"
         /\ k \in {"LP1", "RATELIM"} => Between(g.y_prev, res.f.y_prev, x)
         /\ k = "MA" => res.f.y_prev = MaApply(g, x).y /\ res.f.mem = MaApply(g, x).mem
<1>1. PICK y \in Finite, status \in Statuses : \E mem :
        /\ res = Accept(g, y, mem, status)
        /\ SoundMemory(k, mem)
        /\ k \in {"LP1", "RATELIM"} => Between(g.y_prev, y, x)
        /\ k = "MA" => y = MaApply(g, x).y /\ mem = MaApply(g, x).mem
  BY DEF AcceptedSample
<1>2. PICK mem :
        /\ res = Accept(g, y, mem, status)
        /\ SoundMemory(k, mem)
        /\ k \in {"LP1", "RATELIM"} => Between(g.y_prev, y, x)
        /\ k = "MA" => y = MaApply(g, x).y /\ mem = MaApply(g, x).mem
  BY <1>1
<1>3. res.f = [g EXCEPT !.y_prev = y, !.mem = mem, !.status = status]
      /\ res.out = y /\ res.ret = "NONE"
  BY <1>2 DEF Accept
<1>4. g.fault_code = "NONE"
  BY DEF AcceptedSample
<1>5. QED
  BY <1>2, <1>3, <1>4 DEF IsFilter

(* The invariant holds before the first call. *)
LEMMA InitInv == Init => Inv
<1> SUFFICES ASSUME Init PROVE Inv
  OBVIOUS
<1>1. SoundFilter
  BY SeededSound, FiniteFacts DEF Init, SoundFilter, FilterFault
<1>2. f.y_prev = 0 /\ hist = <<>>
  BY SeededSound DEF Init
<1>3. Seen = {0} /\ WithinSeen(0, Seen)
  BY <1>2 DEF Seen, WithinSeen, Range
<1>4. hist \in Seq(Inputs) /\ Seen \subseteq Finite
  BY <1>2, <1>3, FiniteFacts
<1>5. QED
  <2>1. ~f.is_initialised
    BY SeededSound DEF Init, Seeded
  <2>2. SoundHistory
    BY <1>2, <1>3, <1>4, <2>1 DEF SoundHistory
  <2>3. QED
    BY <1>1, <2>2 DEF Inv

(* A restart, by init or reset, forgets the history; the caller's y stays. *)
LEMMA RestartedInv ==
  ASSUME Inv, NEW cfg, ValidFilterConfig(kind, cfg), kind = "BIQUAD" => IsCascade(cfg),
         Call(Restarted(cfg)), hist' = <<>>,
         retuned' \in BOOLEAN, retuned' => kind = "BIQUAD"
  PROVE  Inv'
<1>1. kind' = kind /\ kind \in Kind /\ f' = Seeded(kind, cfg, TRUE) /\ out' = out /\ ret' = "NONE"
  BY DEF Call, Restarted, Inv, SoundFilter
<1>2. /\ IsFilter(f') /\ SoundMemory(kind, f'.mem) /\ f'.cfg = cfg /\ f'.y_prev = 0
  BY <1>1, SeededSound
<1>3. SoundFilter'
  BY <1>1, <1>2 DEF Inv, SoundFilter, FilterFault
<1>4. Seen' = {0} /\ WithinSeen(0, Seen')
  BY NothingSeen
<1>5. hist' \in Seq(Inputs) /\ Seen' \subseteq Finite
  BY <1>4, FiniteFacts
<1>6. kind = "MA" => RunningMean(f'.cfg.M, f'.mem, f'.y_prev, hist')
  <2> SUFFICES ASSUME kind = "MA" PROVE RunningMean(f'.cfg.M, f'.mem, f'.y_prev, hist')
    OBVIOUS
  <2>1. cfg.M \in 1..MaxWindow
    BY DEF ValidFilterConfig
  <2>2. f'.cfg = cfg /\ f'.mem = EmptyMemory("MA") /\ f'.y_prev = 0
    BY <1>1 DEF Seeded
  <2>3. QED
    BY <2>1, <2>2, RunningMeanEmpty
<1>7. SoundHistory'
  BY <1>1, <1>2, <1>4, <1>5, <1>6 DEF SoundHistory
<1>8. QED
  BY <1>3, <1>7 DEF Inv

(* A refused call changes nothing but its answer. *)
LEMMA RefusedInv ==
  ASSUME Inv, Call(Refused(f, out)), UNCHANGED <<hist, retuned>>
  PROVE  Inv'
<1>1. kind' = kind /\ f' = f /\ out' = out /\ ret' = "CONFIG_INVALID"
  BY DEF Call, Refused
<1>2. SoundFilter'
  BY <1>1 DEF Inv, SoundFilter, FilterFault
<1>3. SoundHistory'
  BY <1>1 DEF Inv, SoundHistory, Seen
<1>4. QED
  BY <1>2, <1>3 DEF Inv

(* Initialisation, with a configuration or a cutoff frequency. *)
LEMMA InitWithInv ==
  ASSUME Inv, NEW cfg, kind = "BIQUAD" => cfg \in FilterConfigs["BIQUAD"], InitWith(cfg)
  PROVE  Inv'
<1>1. CASE ValidFilterConfig(kind, cfg)
  <2>1. kind = "BIQUAD" => IsCascade(cfg)
    BY FiltersAssumption DEF IsCascade
  <2>2. Call(Restarted(cfg)) /\ hist' = <<>> /\ retuned' = FALSE
    BY <1>1 DEF InitWith
  <2>3. QED
    BY <1>1, <2>1, <2>2, RestartedInv
<1>2. CASE ~ValidFilterConfig(kind, cfg)
  BY <1>2, RefusedInv DEF InitWith
<1>3. QED
  BY <1>1, <1>2

(* Reset keeps the configuration, and with it what retuning did.           *)
LEMMA ResetInv == ASSUME Inv, Reset PROVE Inv'
<1>1. CASE ~f.is_initialised
  BY <1>1, RefusedInv DEF Reset
<1>2. CASE f.is_initialised
  <2>1. Call(Restarted(f.cfg)) /\ hist' = <<>> /\ retuned' = retuned
    BY <1>2 DEF Reset
  <2>2. CASE ~retuned
    BY <1>2, <2>1, <2>2, RestartedInv DEF Inv, SoundFilter
  <2>3. CASE retuned
    <3>1. kind' = kind /\ kind = "BIQUAD" /\ kind \in Kind
      BY <2>1, <2>3 DEF Call, Inv, SoundFilter
    <3>2. f' = Seeded(kind, f.cfg, TRUE) /\ out' = out /\ ret' = "NONE"
      BY <2>1 DEF Call, Restarted
    <3>3. /\ IsFilter(f') /\ SoundMemory(kind, f'.mem) /\ f'.y_prev = 0 /\ f'.cfg = f.cfg
      BY <3>1, <3>2, SeededSound
    <3>4. SoundFilter'
      BY <1>2, <2>1, <2>3, <3>1, <3>2, <3>3 DEF Inv, SoundFilter, FilterFault
    <3>5. Seen' = {0} /\ hist' \in Seq(Inputs) /\ Seen' \subseteq Finite
      BY <2>1, NothingSeen, FiniteFacts
    <3>6. QED
      BY <2>1, <3>1, <3>4, <3>5 DEF Inv, SoundHistory
  <2>4. QED
    BY <2>2, <2>3 DEF Inv, SoundFilter
<1>3. QED
  BY <1>1, <1>2
-----------------------------------------------------------------------------
(* Whatever is done to its configuration, a filter stays one. *)
LEMMA Reconfigured ==
  ASSUME NEW g, IsFilter(g), NEW cfg
  PROVE  LET h == [g EXCEPT !.cfg = cfg]
         IN  /\ IsFilter(h) /\ h.mem = g.mem /\ h.y_prev = g.y_prev
             /\ h.fault_code = g.fault_code /\ h.is_initialised = g.is_initialised
  BY DEF IsFilter

(* A cascade stays one, whatever section is designed. *)
LEMMA Redesigned ==
  ASSUME NEW cfg, IsCascade(cfg), NEW i, NEW d
  PROVE  IsCascade([cfg EXCEPT !.sections[i] = d])
<1>1. PICK S : cfg \in [sections : Seq(S)]
  BY DEF IsCascade
<1> DEFINE new == [cfg.sections EXCEPT ![i] = d]
<1>2. [cfg EXCEPT !.sections[i] = d] = [sections |-> new]
  BY <1>1
<1>3. new \in Seq(S \union {d})
  <2>1. cfg.sections \in Seq(S)
    BY <1>1
  <2> DEFINE T == S \union {d}
             n == Len(cfg.sections)
  <2>2. n \in Nat /\ cfg.sections \in [1..n -> T]
    BY <2>1
  <2>3. new \in [1..n -> T]
    <3> HIDE DEF n
    <3> QED BY <2>2
  <2>4. new \in Seq(T)
    <3> HIDE DEF n, new, T
    <3> QED BY <2>2, <2>3
  <2>5. QED
    BY <2>4
<1> HIDE DEF new
<1>4. QED
  BY <1>2, <1>3 DEF IsCascade

(* What retuning does to a biquad: its output and its fault register stay. *)
LEMMA RetuneOutcome ==
  ASSUME IsFilter(f), Retune
  PROVE  /\ kind = "BIQUAD" /\ UNCHANGED <<kind, out, hist>>
         /\ IsFilter(f') /\ f'.mem = f.mem /\ f'.y_prev = f.y_prev
         /\ f'.fault_code = f.fault_code /\ f'.is_initialised = f.is_initialised
         /\ ret' \in FilterFault /\ retuned' \in BOOLEAN
         /\ ~retuned' => f'.cfg = f.cfg /\ ~retuned
         /\ IsCascade(f.cfg) => IsCascade(f'.cfg)
<1>1. PICK t \in Retunes :
        /\ Call(UpdateNotch(f, out, t[1], t[2], t[3], t[4]))
        /\ retuned' = (retuned \/ UpdateNotch(f, out, t[1], t[2], t[3], t[4]).ret = "NONE")
        /\ UNCHANGED hist
  BY DEF Retune
<1> DEFINE res == UpdateNotch(f, out, t[1], t[2], t[3], t[4])
           cfg == [f.cfg EXCEPT !.sections[t[1]] = Design("NOTCH", t[2], t[3], t[4])]
<1>2. /\ kind = "BIQUAD" /\ kind' = kind /\ hist' = hist
      /\ f' = res.f /\ out' = res.out /\ ret' = res.ret
      /\ retuned' = (retuned \/ res.ret = "NONE")
  BY <1>1 DEF Retune, Call
<1>3. \/ res = Refused(f, out)
      \/ /\ f.fault_code # "NONE"
         /\ res = [f |-> [f EXCEPT !.status = "FAULT"], out |-> out, ret |-> f.fault_code]
      \/ res = [f |-> [f EXCEPT !.cfg = cfg], out |-> out, ret |-> "NONE"]
  BY DEF UpdateNotch
<1> HIDE DEF res, cfg
<1>4. CASE res = Refused(f, out)
  BY <1>2, <1>4 DEF Refused, FilterFault
<1>5. CASE /\ f.fault_code # "NONE"
           /\ res = [f |-> [f EXCEPT !.status = "FAULT"], out |-> out, ret |-> f.fault_code]
  <2>1. f' = [f EXCEPT !.status = "FAULT"] /\ out' = out /\ ret' = f.fault_code
    BY <1>2, <1>5
  <2>2. /\ IsFilter(f') /\ f'.cfg = f.cfg /\ f'.mem = f.mem /\ f'.y_prev = f.y_prev
        /\ f'.fault_code = f.fault_code /\ f'.is_initialised = f.is_initialised
        /\ f.fault_code \in FilterFault
    BY <2>1 DEF IsFilter, Statuses
  <2>3. QED
    BY <1>2, <1>5, <2>1, <2>2
<1>6. CASE res = [f |-> [f EXCEPT !.cfg = cfg], out |-> out, ret |-> "NONE"]
  <2>1. f' = [f EXCEPT !.cfg = cfg] /\ out' = out /\ ret' = "NONE" /\ retuned' = TRUE
    BY <1>2, <1>6
  <2>2. IsCascade(f.cfg) => IsCascade(cfg)
    BY Redesigned DEF cfg
  <2>3. f'.cfg = cfg
    BY <2>1 DEF IsFilter
  <2>4. QED
    BY <1>2, <2>1, <2>2, <2>3, Reconfigured DEF FilterFault
<1>7. QED
  BY <1>3, <1>4, <1>5, <1>6

(* Retuning. *)
LEMMA RetuneInv == ASSUME Inv, Retune PROVE Inv'
<1>1. IsFilter(f)
  BY DEF Inv, SoundFilter
<1>2. /\ kind = "BIQUAD" /\ UNCHANGED <<kind, out, hist>>
      /\ IsFilter(f') /\ f'.mem = f.mem /\ f'.y_prev = f.y_prev
      /\ f'.is_initialised = f.is_initialised
      /\ ret' \in FilterFault /\ retuned' \in BOOLEAN
      /\ ~retuned' => f'.cfg = f.cfg /\ ~retuned
      /\ IsCascade(f.cfg) => IsCascade(f'.cfg)
  BY <1>1, RetuneOutcome
<1>3. SoundFilter'
  BY <1>2 DEF Inv, SoundFilter
<1>4. SoundHistory'
  BY <1>2 DEF Inv, SoundHistory, Seen
<1>5. QED
  BY <1>3, <1>4 DEF Inv

(* A sample, whatever the kind: the call is refused, faults or is          *)
(* accepted.                                                               *)
LEMMA StepOutcome ==
  ASSUME Inv, Step
  PROVE  \E x \in Inputs : \E res :
           /\ Call(res) /\ UNCHANGED retuned
           /\ hist' = IF res.ret = "NONE" THEN Append(hist, x) ELSE hist
           /\ \/ ~f.is_initialised /\ res = Refused(f, out)
              \/ f.is_initialised /\ Faulted(f, res)
              \/ f.is_initialised /\ AcceptedSample(kind, f, x, res)
<1>1. PICK x \in Inputs, dt \in Periods :
        LET res == IF kind = "RATELIM" THEN RatelimStep(f, out, x, dt)
                   ELSE FilterStep(kind, f, out, x)
        IN  /\ Call(res)
            /\ hist' = IF res.ret = "NONE" THEN Append(hist, x) ELSE hist
            /\ UNCHANGED retuned
  BY DEF Step
<1> DEFINE res == IF kind = "RATELIM" THEN RatelimStep(f, out, x, dt)
                  ELSE FilterStep(kind, f, out, x)
<1>2. /\ Call(res) /\ UNCHANGED retuned
      /\ hist' = IF res.ret = "NONE" THEN Append(hist, x) ELSE hist
  BY <1>1
<1>3. /\ kind \in Kind /\ IsFilter(f) /\ SoundMemory(kind, f.mem)
      /\ f.is_initialised /\ kind # "BIQUAD" => ValidFilterConfig(kind, f.cfg)
      /\ f.is_initialised /\ kind = "BIQUAD" => IsCascade(f.cfg)
  BY DEF Inv, SoundFilter
<1>4. \/ ~f.is_initialised /\ res = Refused(f, out)
      \/ f.is_initialised /\ Faulted(f, res)
      \/ f.is_initialised /\ AcceptedSample(kind, f, x, res)
  <2>1. CASE kind = "RATELIM"
    BY <1>3, <2>1, RatelimStepOutcome
  <2>2. CASE kind # "RATELIM"
    BY <1>3, <2>2, FilterStepOutcome
  <2>3. QED
    BY <2>1, <2>2
<1> HIDE DEF res
<1>5. QED
  BY <1>2, <1>4

(* The samples of the history are finite. *)
LEMMA HistoryIsFinite == ASSUME SoundHistory PROVE hist \in Seq(Finite)
<1>1. hist \in Seq(Inputs) /\ Range(hist) \subseteq Finite
  BY DEF SoundHistory, Seen
<1>2. \A k \in 1..Len(hist) : hist[k] \in Finite
  BY <1>1 DEF Range
<1>3. QED
  BY <1>1, <1>2

(* A further sample is in the history, and seen. *)
LEMMA HistoryGrows ==
  ASSUME hist \in Seq(Inputs), NEW x \in Inputs, hist' = Append(hist, x)
  PROVE  hist' \in Seq(Inputs) /\ Seen' = Seen \union {x}
<1>1. hist' \in Seq(Inputs) /\ Len(hist') = Len(hist) + 1 /\ Len(hist) \in Nat
  OBVIOUS
<1>2. \A k \in 1..Len(hist) : hist'[k] = hist[k]
  OBVIOUS
<1>3. hist'[Len(hist) + 1] = x
  OBVIOUS
<1>4. DOMAIN hist = 1..Len(hist) /\ DOMAIN hist' = 1..Len(hist) + 1
  BY <1>1
<1>5. DOMAIN hist' = DOMAIN hist \union {Len(hist) + 1}
  BY <1>1, <1>4
<1>6. Range(hist') = Range(hist) \union {x}
  BY <1>2, <1>3, <1>4, <1>5 DEF Range
<1>7. QED
  BY <1>1, <1>6 DEF Seen
-----------------------------------------------------------------------------
(* A sample keeps the invariant. *)
LEMMA StepInv == ASSUME Inv, Step PROVE Inv'
<1>1. PICK x \in Inputs : \E res :
        /\ Call(res) /\ UNCHANGED retuned
        /\ hist' = IF res.ret = "NONE" THEN Append(hist, x) ELSE hist
        /\ \/ ~f.is_initialised /\ res = Refused(f, out)
           \/ f.is_initialised /\ Faulted(f, res)
           \/ f.is_initialised /\ AcceptedSample(kind, f, x, res)
  BY StepOutcome
<1>2. PICK res :
        /\ Call(res) /\ UNCHANGED retuned
        /\ hist' = IF res.ret = "NONE" THEN Append(hist, x) ELSE hist
        /\ \/ ~f.is_initialised /\ res = Refused(f, out)
           \/ f.is_initialised /\ Faulted(f, res)
           \/ f.is_initialised /\ AcceptedSample(kind, f, x, res)
  BY <1>1
<1>3. /\ kind' = kind /\ f' = res.f /\ out' = res.out /\ ret' = res.ret
      /\ retuned' = retuned
  BY <1>2 DEF Call
<1>4. IsFilter(f) /\ f.y_prev \in Finite
  BY DEF Inv, SoundFilter, IsFilter
<1>5. CASE res = Refused(f, out)
  <2>1. hist' = hist
    BY <1>2, <1>5 DEF Refused
  <2>2. QED
    BY <1>2, <1>3, <1>5, <2>1, RefusedInv
<1>6. CASE f.is_initialised /\ Faulted(f, res)
  <2>1. /\ IsFilter(f') /\ f'.cfg = f.cfg /\ f'.mem = f.mem /\ f'.y_prev = f.y_prev
        /\ f'.is_initialised = f.is_initialised
        /\ out' = f.y_prev /\ ret' \in FilterFault \ {"NONE"}
    BY <1>3, <1>4, <1>6, FaultedSound
  <2>2. hist' = hist
    BY <1>2, <1>3, <2>1
  <2>3. SoundFilter'
    BY <1>3, <1>4, <2>1 DEF Inv, SoundFilter
  <2>4. SoundHistory'
    BY <1>3, <2>1, <2>2 DEF Inv, SoundHistory, Seen
  <2>5. QED
    BY <2>3, <2>4 DEF Inv
<1>7. CASE f.is_initialised /\ AcceptedSample(kind, f, x, res)
  <2>1. /\ IsFilter(f') /\ f'.cfg = f.cfg /\ SoundMemory(kind, f'.mem)
        /\ f'.is_initialised = f.is_initialised
        /\ out' = f'.y_prev /\ out' \in Finite /\ ret' = "NONE"
        /\ kind \in {"LP1", "RATELIM"} => Between(f.y_prev, f'.y_prev, x)
        /\ kind = "MA" => f'.y_prev = MaApply(f, x).y /\ f'.mem = MaApply(f, x).mem
    <3>1. /\ IsFilter(res.f) /\ res.f.cfg = f.cfg /\ SoundMemory(kind, res.f.mem)
          /\ res.f.is_initialised = f.is_initialised
          /\ res.out = res.f.y_prev /\ res.out \in Finite /\ res.ret = "NONE"
          /\ kind \in {"LP1", "RATELIM"} => Between(f.y_prev, res.f.y_prev, x)
          /\ kind = "MA" => res.f.y_prev = MaApply(f, x).y /\ res.f.mem = MaApply(f, x).mem
      <4>1. IsFilter(f) /\ AcceptedSample(kind, f, x, res)
        BY <1>4, <1>7
      <4>2. IsFilter(res.f) /\ res.f.cfg = f.cfg
        BY <4>1, AcceptedSound
      <4>3. SoundMemory(kind, res.f.mem)
        BY <4>1, AcceptedSound
      <4>4. res.f.is_initialised = f.is_initialised
        BY <4>1, AcceptedSound
      <4>5. res.out = res.f.y_prev /\ res.out \in Finite /\ res.ret = "NONE"
        BY <4>1, AcceptedSound
      <4>6. kind \in {"LP1", "RATELIM"} => Between(f.y_prev, res.f.y_prev, x)
        BY <4>1, AcceptedSound
      <4>7. kind = "MA" => res.f.y_prev = MaApply(f, x).y /\ res.f.mem = MaApply(f, x).mem
        BY <4>1, AcceptedSound
      <4>8. QED
        BY <4>2, <4>3, <4>4, <4>5, <4>6, <4>7
    <3>2. QED
      BY <1>3, <3>1
  <2>2. hist' = Append(hist, x) /\ x \in Finite
    BY <1>2, <1>3, <1>7, <2>1 DEF AcceptedSample
  <2>3. hist' \in Seq(Inputs) /\ Seen' = Seen \union {x}
    BY <2>2, HistoryGrows DEF Inv, SoundHistory
  <2>4. SoundFilter'
    BY <1>3, <2>1 DEF Inv, SoundFilter, FilterFault
  <2>5. ASSUME kind \in {"LP1", "RATELIM"} PROVE WithinSeen(f'.y_prev, Seen')
    <3>1. Seen \subseteq Int /\ WithinSeen(f.y_prev, Seen)
      BY <2>5, FiniteFacts DEF Inv, SoundHistory
    <3>2. f.y_prev \in Int /\ f'.y_prev \in Int /\ x \in Int
      BY <1>4, <2>1, <2>2, FiniteFacts
    <3>3. QED
      BY <2>1, <2>3, <2>5, <3>1, <3>2, SeenGrows DEF Between
  <2>6. ASSUME kind = "MA" PROVE RunningMean(f'.cfg.M, f'.mem, f'.y_prev, hist')
    <3> DEFINE M == f.cfg.M
    <3>1. M \in 1..MaxWindow /\ SoundMemory("MA", f.mem) /\ RunningMean(M, f.mem, f.y_prev, hist)
      BY <1>7, <2>6 DEF Inv, SoundFilter, SoundHistory, ValidFilterConfig
    <3>2. hist \in Seq(Finite)
      BY HistoryIsFinite DEF Inv
    <3>3. IsFinite(MaApply(f, x).y)
      BY <2>1, <2>6, FiniteMember
    <3> HIDE DEF M
    <3>4. RunningMean(M, MaApply(f, x).mem, MaApply(f, x).y, Append(hist, x))
      BY <2>2, <3>1, <3>2, <3>3, RunningMeanNext DEF M
    <3>5. QED
      BY <2>1, <2>2, <2>6, <3>4 DEF M
  <2>7. SoundHistory'
    BY <1>3, <2>1, <2>2, <2>3, <2>5, <2>6 DEF Inv, SoundHistory
  <2>8. QED
    BY <2>4, <2>7 DEF Inv
<1>8. QED
  BY <1>2, <1>5, <1>6, <1>7

(* Every call preserves the invariant. *)
LEMMA NextInv == Inv /\ [Next]_vars => Inv'
<1> SUFFICES ASSUME Inv, [Next]_vars PROVE Inv'
  OBVIOUS
<1>1. CASE Initialise
  BY <1>1, InitWithInv DEF Initialise
<1>2. CASE InitFc
  <2>1. \/ \E cfg : InitWith(cfg)
        \/ Call(Refused(f, out)) /\ UNCHANGED <<hist, retuned>>
    BY <1>2 DEF InitFc
  <2>2. kind = "LP1"
    BY <1>2 DEF InitFc
  <2>3. QED
    BY <2>1, <2>2, InitWithInv, RefusedInv
<1>3. CASE Reset
  BY <1>3, ResetInv
<1>4. CASE Step
  BY <1>4, StepInv
<1>5. CASE Retune
  BY <1>5, RetuneInv
<1>6. CASE UNCHANGED vars
  BY <1>6 DEF vars, Inv, SoundFilter, SoundHistory, Seen
<1>7. QED
  BY <1>1, <1>2, <1>3, <1>4, <1>5, <1>6 DEF Next

(* The invariant the theorems below rest on. *)
THEOREM Invariance == Spec => []Inv
  BY InitInv, NextInv, PTL DEF Spec

(* TypeOK, of a filter of any kind: nothing that is not finite is stored,  *)
(* in the ring's sum or a biquad's delay lines included, and the ring's    *)
(* index and count stay within its buffer.                                 *)
THEOREM TypeCorrectness == Spec => []TypeOK
<1>1. Inv => TypeOK
  <2> SUFFICES ASSUME Inv PROVE TypeOK
    OBVIOUS
  <2>1. IsFinite(f.y_prev) /\ IsFinite(out)
    BY FiniteMember DEF Inv, SoundFilter, IsFilter
  <2>2. f.fault_code \in FilterFault /\ f.status \in Statuses /\ f.is_initialised \in BOOLEAN
    BY DEF Inv, SoundFilter, IsFilter
  <2>3. f.mem \in Memory(kind) /\ (kind = "MA" => IsFinite(f.mem.sum))
        /\ (kind = "BIQUAD" => DelayLines(f.mem))
    BY DEF Inv, SoundFilter, SoundMemory
  <2>4. QED
    BY <2>1, <2>2, <2>3 DEF Inv, SoundFilter, SoundHistory, DelayLines, TypeOK, Statuses
<1>2. QED
  BY <1>1, Invariance, PTL

(* OutputIsHistory of every kind but the biquad: the output of the moving  *)
(* average is the mean of the last M samples accepted since the last       *)
(* restart, and the outputs of the low-pass and the rate limiter stay      *)
(* between those samples and the rest value, whatever the window, the      *)
(* coefficients, the rates and the periods.                                *)
THEOREM OutputHistory == Spec => [](kind # "BIQUAD" => OutputIsHistory)
<1>1. Inv => (kind # "BIQUAD" => OutputIsHistory)
  <2> SUFFICES ASSUME Inv, kind # "BIQUAD", f.is_initialised, hist # <<>>
               PROVE  /\ out = f.y_prev
                      /\ kind = "MA" => out = Quot(LastSum(f.cfg.M), f.cfg.M)
                      /\ kind # "MA" => out \in Min(Seen)..Max(Seen)
    BY DEF OutputIsHistory, Seen
  <2>1. out = f.y_prev /\ Seen \subseteq Int /\ out \in Int
    BY FiniteFacts DEF Inv, SoundFilter, SoundHistory
  <2>2. ASSUME kind = "MA" PROVE out = Quot(LastSum(f.cfg.M), f.cfg.M)
    <3>1. f.cfg.M \in 1..MaxWindow /\ RunningMean(f.cfg.M, f.mem, f.y_prev, hist)
      BY <2>2 DEF Inv, SoundFilter, SoundHistory, ValidFilterConfig
    <3>2. f.cfg.M \in Nat /\ f.cfg.M >= 1
      BY <3>1, FilterAssumption
    <3>3. LastSum(f.cfg.M) = Recent(hist, f.cfg.M)
      BY <3>2, HistoryIsFinite, LastSumIsRecent DEF Inv
    <3>4. QED
      BY <2>1, <3>1, <3>3 DEF RunningMean
  <2>3. ASSUME kind # "MA" PROVE out \in Min(Seen)..Max(Seen)
    <3>1. WithinSeen(out, Seen)
      BY <2>1, <2>3 DEF Inv, SoundFilter, SoundHistory, Kind
    <3>2. QED
      BY <2>1, <3>1, WithinMinMax
  <2>4. QED
    BY <2>1, <2>2, <2>3
<1>2. QED
  BY <1>1, Invariance, PTL

(* ImplementsFaultLatch: a filter of any kind, refused calls, restarts and *)
(* retuning included, is a fault latch.                                    *)
THEOREM FaultLatchRefinement == Spec => ImplementsFaultLatch
<1> DEFINE register == {f.fault_code} \ {"NONE"}
<1>1. Init => Latch!Init
  <2> SUFFICES ASSUME Init PROVE Latch!Init
    OBVIOUS
  <2>1. f.fault_code = "NONE" /\ out = 0
    BY DEF Init, Seeded
  <2>2. QED
    BY <2>1, FiniteFacts DEF Latch!Init, Finite
<1>2. Inv /\ [Next]_vars => [Latch!Next]_<<register, out>>
  <2> SUFFICES ASSUME Inv, [Next]_vars PROVE [Latch!Next]_<<register, out>>
    OBVIOUS
  <2>1. /\ out \in -FloatMax..FloatMax /\ out' \in -FloatMax..FloatMax
        /\ IsFilter(f) /\ kind \in Kind
    BY NextInv DEF Inv, SoundFilter, Finite
  <2>2. CASE Call(Refused(f, out))
    BY <2>2 DEF Call, Refused
  <2>3. CASE \E cfg : Call(Restarted(cfg))
    <3>1. f'.fault_code = "NONE" /\ out' = out
      BY <2>3 DEF Call, Restarted, Seeded
    <3>2. QED
      BY <2>1, <3>1 DEF Latch!Next, Latch!Compute, Latch!Clear
  <2>4. CASE Step
    <3>1. PICK x \in Inputs : \E res :
            /\ Call(res)
            /\ \/ res = Refused(f, out)
               \/ Faulted(f, res)
               \/ AcceptedSample(kind, f, x, res)
      BY <2>4, StepOutcome
    <3>2. PICK res :
            /\ Call(res)
            /\ \/ res = Refused(f, out)
               \/ Faulted(f, res)
               \/ AcceptedSample(kind, f, x, res)
      BY <3>1
    <3>3. f' = res.f
      BY <3>2 DEF Call
    <3>4. CASE Faulted(f, res)
      <4>1. /\ f'.fault_code \in FilterFault \ {"NONE"}
            /\ f.fault_code # "NONE" => f'.fault_code = f.fault_code
        BY <2>1, <3>3, <3>4, FaultedSound
      <4>2. QED
        BY <2>1, <4>1 DEF Latch!Next, Latch!Trip, Latch!Hold
    <3>5. CASE AcceptedSample(kind, f, x, res)
      <4>1. f.fault_code = "NONE"
        BY <3>5 DEF AcceptedSample
      <4>2. f'.fault_code = "NONE"
        BY <2>1, <3>3, <3>5, AcceptedSound
      <4>3. QED
        BY <2>1, <4>1, <4>2 DEF Latch!Next, Latch!Compute
    <3>6. QED
      BY <2>2, <3>2, <3>4, <3>5
  <2>5. CASE Retune
    BY <2>1, <2>5, RetuneOutcome
  <2>6. CASE UNCHANGED vars
    BY <2>6 DEF vars
  <2>7. CASE Initialise \/ InitFc \/ Reset
    <3>1. Call(Refused(f, out)) \/ \E cfg : Call(Restarted(cfg))
      BY <2>7 DEF Initialise, InitFc, Reset, InitWith
    <3>2. QED
      BY <2>2, <2>3, <3>1
  <2>8. QED
    BY <2>4, <2>5, <2>6, <2>7 DEF Next
<1>3. QED
  BY <1>1, <1>2, Invariance, PTL DEF Spec, ImplementsFaultLatch, Latch!Spec
=============================================================================
