----------------------------- MODULE RonLemmas -----------------------------
(***************************************************************************)
(* The lemmas the components' proofs rest on.  First what the scalar       *)
(* helpers of RonUtil and the arithmetic of FloatOps return, for every     *)
(* argument; then what the sum over a finite set is, for the models that   *)
(* fold one; then what every function of the PID controller does to a      *)
(* sound instance, for any configuration, input and actuator range lo..hi: *)
(* the controllers that own PID instances (Pid, Cascade, Autotune,         *)
(* GainSched) cite these.                                                  *)
(*                                                                         *)
(* An instance is Sound if its fields have their types, the configuration  *)
(* in force is valid with limits inside the range, and the last output     *)
(* lies in the range.  Every operation yields a Good result; a step that   *)
(* is not refused yields an Accepted one.                                  *)
(***************************************************************************)
EXTENDS PidOps, FloatOps, FiniteSetsExt, FiniteSetTheorems, WellFoundedInduction, TLAPS

(* Finite values are integers. *)
LEMMA FiniteIsInt == ASSUME NEW x, IsFinite(x) PROVE x \in Int
  BY RonUtilAssumption DEF IsFinite

(* Integers are closed under multiplication, stated once for nested terms. *)
LEMMA ProductIsInt == \A a, b \in Int : a * b \in Int
  OBVIOUS

(* The product of two positive integers is positive. *)
LEMMA PositiveProduct ==
  ASSUME NEW a \in Int, NEW b \in Int, a > 0, b > 0
  PROVE  a * b \in Int /\ a * b > 0
  OBVIOUS

(* A quotient by a positive integer is an integer. *)
LEMMA QuotIsInt == ASSUME NEW a \in Int, NEW b \in Int, b > 0 PROVE Quot(a, b) \in Int
  BY DEF Quot

(* The quotient of a natural number is one, and does not round up. *)
LEMMA QuotBounds ==
  ASSUME NEW a \in Nat, NEW b \in Int, b > 0
  PROVE  Quot(a, b) \in Nat /\ b * Quot(a, b) <= a
  BY DEF Quot

(* A quotient is at least k if the dividend holds k divisors. *)
LEMMA QuotAtLeast ==
  ASSUME NEW a \in Int, NEW b \in Int, b > 0, NEW k \in Int, k * b <= a
  PROVE  k <= Quot(a, b)
<1> DEFINE q == Quot(a, b)
<1>1. q \in Int /\ a < (q + 1) * b
  BY DEF Quot
<1> HIDE DEF q
<1>2. k * b < (q + 1) * b
  BY <1>1, ProductIsInt
<1>3. k < q + 1
  BY <1>1, <1>2
<1>4. QED
  BY <1>1, <1>3 DEF q

(* ron_clamp returns a value of a proper range. *)
LEMMA ClampInRange ==
  ASSUME NEW x \in Int, NEW lo \in Int, NEW hi \in Int, lo <= hi
  PROVE  Clamp(x, lo, hi) \in lo..hi
  BY DEF Clamp

(* ron_clamp returns an integer, whatever the bounds. *)
LEMMA ClampIsInt ==
  ASSUME NEW x \in Int, NEW lo \in Int, NEW hi \in Int PROVE Clamp(x, lo, hi) \in Int
  BY DEF Clamp

(* The rate limiter returns a value between the old output and the new. *)
LEMMA RateLimitBetween ==
  ASSUME NEW u_sat \in Int, NEW u_prev \in Int, NEW du \in Int, NEW dt \in Int, dt > 0
  PROVE  /\ RateLimit(u_sat, u_prev, du, dt) \in Int
         /\ \/ /\ u_sat <= RateLimit(u_sat, u_prev, du, dt)
               /\ RateLimit(u_sat, u_prev, du, dt) <= u_prev
            \/ /\ u_prev <= RateLimit(u_sat, u_prev, du, dt)
               /\ RateLimit(u_sat, u_prev, du, dt) <= u_sat
<1> DEFINE d == du * dt
<1>1. d \in Int /\ (du > 0 => d > 0)
  BY ProductIsInt, PositiveProduct
<1>2. QED
  BY <1>1 DEF RateLimit, RateLimited, Abs, Sign

(* A finite sample period is a positive integer. *)
LEMMA GoodDtIsInt == ASSUME NEW dt, GoodDt(dt) PROVE dt \in Int /\ dt > 0
  BY FiniteIsInt DEF GoodDt

(* ron_clamp leaves the values of the range alone, and only those. *)
LEMMA ClampFixed ==
  ASSUME NEW x \in Int, NEW lo \in Int, NEW hi \in Int, lo <= hi
  PROVE  Clamp(x, lo, hi) = x <=> lo <= x /\ x <= hi
  BY DEF Clamp

(* A limited output is at most du_max * dt away from the old one. *)
LEMMA RateLimitSlew ==
  ASSUME NEW u_sat \in Int, NEW u_prev \in Int, NEW du \in Int, NEW dt \in Int,
         du > 0, dt > 0, IsFinite(du * dt)
  PROVE  Abs(RateLimit(u_sat, u_prev, du, dt) - u_prev) <= du * dt
<1> DEFINE d == du * dt
<1>1. d \in Int /\ d > 0
  BY PositiveProduct
<1>2. QED
  BY <1>1 DEF RateLimit, RateLimited, Abs, Sign

(* A limited output has left the old one and stays short of the new one. *)
LEMMA RateLimitMoves ==
  ASSUME NEW u_sat \in Int, NEW u_prev \in Int, NEW du \in Int, NEW dt \in Int, dt > 0,
         RateLimited(u_sat, u_prev, du, dt)
  PROVE  LET u == RateLimit(u_sat, u_prev, du, dt)
         IN  \/ u_sat < u /\ u < u_prev
             \/ u_prev < u /\ u < u_sat
<1> DEFINE d == du * dt
<1>1. d \in Int /\ d > 0
  BY PositiveProduct DEF RateLimited
<1>2. QED
  BY <1>1 DEF RateLimit, RateLimited, Abs, Sign

(* ron_util_safe_output lies within the limits in force. *)
LEMMA SafeOutputBounded ==
  ASSUME NEW policy, NEW last \in Int, NEW safe_value \in Int,
         NEW lo \in Int, NEW hi \in Int, lo <= hi
  PROVE  SafeOutput(policy, last, safe_value, lo, hi) \in lo..hi
<1> DEFINE wanted == IF policy = "ZERO" THEN 0
                     ELSE IF policy = "CONSTANT" THEN safe_value ELSE last
<1>1. wanted \in Int
  OBVIOUS
<1>2. SafeOutput(policy, last, safe_value, lo, hi) = Clamp(wanted, lo, hi)
  BY DEF SafeOutput
<1> HIDE DEF wanted
<1>3. QED
  BY <1>1, <1>2, ClampInRange
-----------------------------------------------------------------------------
(* A non-empty set of natural numbers has a least member: what stands for  *)
(* induction in the proofs below.                                          *)
LEMMA LeastNumber ==
  ASSUME NEW S, S \subseteq Nat, S # {}
  PROVE  \E n \in S : \A k \in S : n <= k
<1> DEFINE R == {ss \in Nat \X Nat : ss[1] < ss[2]}
<1>1. IsWellFoundedOn(R, Nat)
  BY NatLessThanWellFounded DEF OpToRel
<1>2. PICK n \in S : \A k \in S : ~(<<k, n>> \in R)
  BY <1>1, WFMin
<1>3. ASSUME NEW k \in S PROVE n <= k
  <2>1. ~(<<k, n>> \in R)
    BY <1>2
  <2>2. n \in Nat /\ k \in Nat
    OBVIOUS
  <2>3. QED
    BY <2>1, <2>2
<1>4. QED
  BY <1>3

(* The maximum and the minimum of a set are what they should be. *)
LEMMA MaxIs ==
  ASSUME NEW S, S \subseteq Int, NEW x \in S, \A y \in S : y <= x PROVE Max(S) = x
<1>1. \A y \in S : x >= y
  OBVIOUS
<1>2. Max(S) \in S /\ \A y \in S : Max(S) >= y
  BY <1>1 DEF Max
<1> DEFINE top == Max(S)
<1>3. top \in Int /\ x \in Int /\ top >= x /\ top <= x
  BY <1>2
<1> HIDE DEF top
<1>4. top = x
  BY <1>3
<1>5. QED
  BY <1>4 DEF top

LEMMA MinIs ==
  ASSUME NEW S, S \subseteq Int, NEW x \in S, \A y \in S : x <= y PROVE Min(S) = x
<1>1. Min(S) \in S /\ \A y \in S : Min(S) <= y
  BY DEF Min
<1> DEFINE bottom == Min(S)
<1>2. bottom \in Int /\ x \in Int /\ bottom >= x /\ bottom <= x
  BY <1>1
<1> HIDE DEF bottom
<1>3. bottom = x
  BY <1>2
<1>4. QED
  BY <1>3 DEF bottom

(* A non-empty set of natural numbers has a minimum, and a maximum if it   *)
(* has a bound.                                                            *)
LEMMA MinOfNumbers ==
  ASSUME NEW S, S \subseteq Nat, S # {}
  PROVE  Min(S) \in S /\ \A y \in S : Min(S) <= y
  BY LeastNumber DEF Min

LEMMA MaxOfBounded ==
  ASSUME NEW n \in Nat, NEW S, S \subseteq 0..n, S # {}
  PROVE  Max(S) \in S /\ \A y \in S : y <= Max(S)
<1> DEFINE T == {k \in Nat : \E x \in S : k = n - x}
<1>1. T # {}
  <2>1. PICK x \in S : TRUE
    OBVIOUS
  <2>2. n - x \in T
    BY <2>1
  <2>3. QED
    BY <2>2
<1>2. PICK m \in T : \A y \in T : m <= y
  <2>1. T \subseteq Nat
    OBVIOUS
  <2> HIDE DEF T
  <2>2. QED
    BY <1>1, <2>1, LeastNumber
<1>3. PICK x \in S : m = n - x
  BY <1>2
<1>4. ASSUME NEW y \in S PROVE y <= x
  <2>1. n - y \in T /\ m \in Nat
    BY <1>2
  <2>2. m <= n - y
    BY <1>2, <2>1
  <2>3. QED
    BY <1>3, <2>1, <2>2
<1>5. Max(S) = x
  <2>1. S \subseteq Int
    OBVIOUS
  <2>2. QED
    BY <1>4, <2>1, MaxIs
<1>6. QED
  BY <1>4, <1>5

(***************************************************************************)
(* The sum of the natural numbers w[k] over a finite set T of indices, as  *)
(* the number of its units: a definition without recursion.                *)
(***************************************************************************)
Units(w, T) == {p \in T \X Nat : p[2] < w[p[1]]}
Total(w, T) == Cardinality(Units(w, T))

(* There are finitely many units. *)
LEMMA UnitsFinite ==
  ASSUME NEW T, IsFiniteSet(T), NEW w, \A k \in T : w[k] \in Nat
  PROVE  IsFiniteSet(Units(w, T)) /\ Total(w, T) \in Nat
<1> DEFINE Column(k) == {k} \X (0..w[k] - 1)
<1> DEFINE Columns == {Column(k) : k \in T}
<1>1. IsFiniteSet(Columns)
  <2> DEFINE f == [k \in T |-> Column(k)]
  <2>1. f \in Surjection(T, Columns)
    BY DEF Surjection
  <2> HIDE DEF f, Columns
  <2>2. QED
    BY <2>1, FS_Surjection
<1>2. ASSUME NEW C \in Columns PROVE IsFiniteSet(C)
  <2>1. PICK k \in T : C = Column(k)
    OBVIOUS
  <2>2. IsFiniteSet({k}) /\ IsFiniteSet(0..w[k] - 1)
    <3>1. 0 \in Int /\ w[k] - 1 \in Int
      OBVIOUS
    <3>2. IsFiniteSet(0..w[k] - 1)
      BY <3>1, FS_Interval
    <3>3. QED
      BY <3>2, FS_Singleton
  <2>3. QED
    BY <2>1, <2>2, FS_Product
<1>3. Units(w, T) = UNION Columns
  BY DEF Units
<1>4. IsFiniteSet(UNION Columns)
  <2> HIDE DEF Columns
  <2> QED BY <1>1, <1>2, FS_UNION
<1>5. QED
  BY <1>3, <1>4, FS_CardinalityType DEF Total

LEMMA TotalEmpty == ASSUME NEW w PROVE Total(w, {}) = 0
  BY FS_EmptySet DEF Total, Units

(* One more index. *)
LEMMA TotalAdd ==
  ASSUME NEW T, IsFiniteSet(T), NEW w, \A k \in T : w[k] \in Nat, NEW x, x \notin T, w[x] \in Nat
  PROVE  Total(w, T \union {x}) = Total(w, T) + w[x]
<1> DEFINE Column == {x} \X (0..w[x] - 1)
<1>1. /\ IsFiniteSet({x}) /\ Cardinality({x}) = 1
      /\ IsFiniteSet(0..w[x] - 1) /\ Cardinality(0..w[x] - 1) = w[x]
  <2>1. 0 \in Int /\ w[x] - 1 \in Int /\ w[x] \in Nat
    OBVIOUS
  <2>2. IsFiniteSet(0..w[x] - 1) /\ Cardinality(0..w[x] - 1) = IF 0 > w[x] - 1 THEN 0 ELSE w[x] - 1 - 0 + 1
    BY <2>1, FS_Interval
  <2>3. (IF 0 > w[x] - 1 THEN 0 ELSE w[x] - 1 - 0 + 1) = w[x]
    BY <2>1
  <2>4. IsFiniteSet({x}) /\ Cardinality({x}) = 1
    BY FS_Singleton
  <2>5. QED
    BY <2>2, <2>3, <2>4
<1>2. IsFiniteSet(Column) /\ Cardinality(Column) = w[x]
  <2>1. IsFiniteSet(Column) /\ Cardinality(Column) = 1 * w[x]
    BY <1>1, FS_Product
  <2>2. QED
    BY <2>1
<1>3. Units(w, T \union {x}) = Units(w, T) \union Column
  BY DEF Units
<1>4. Units(w, T) \intersect Column = {}
  BY DEF Units
<1>5. IsFiniteSet(Units(w, T)) /\ Total(w, T) \in Nat
  BY UnitsFinite
<1>6. Cardinality(Units(w, T) \union Column) = Cardinality(Units(w, T)) + Cardinality(Column) - Cardinality({})
  <2> HIDE DEF Column
  <2> QED BY <1>2, <1>4, <1>5, FS_Union
<1>7. Cardinality({}) = 0
  BY FS_EmptySet
<1>8. QED
  <2> HIDE DEF Column
  <2>1. Total(w, T \union {x}) = Total(w, T) + w[x] - 0
    BY <1>2, <1>3, <1>6, <1>7 DEF Total
  <2>2. QED
    BY <1>5, <2>1

(* It depends on the weights of T alone. *)
LEMMA TotalLocal ==
  ASSUME NEW T, NEW v, NEW w, \A k \in T : v[k] = w[k]
  PROVE  Total(v, T) = Total(w, T)
<1>1. Units(v, T) = Units(w, T)
  BY DEF Units
<1>2. QED
  BY <1>1 DEF Total

(***************************************************************************)
(* The sum of the integers w[k] over a finite set T: what the positive     *)
(* ones add, less what the negative ones take.                             *)
(***************************************************************************)
Gains(w, T) == [k \in T |-> IF w[k] > 0 THEN w[k] ELSE 0]
Losses(w, T) == [k \in T |-> IF w[k] < 0 THEN -w[k] ELSE 0]
Net(w, T) == Total(Gains(w, T), T) - Total(Losses(w, T), T)

LEMMA NetIsInt ==
  ASSUME NEW T, IsFiniteSet(T), NEW w, \A k \in T : w[k] \in Int
  PROVE  /\ \A k \in T : Gains(w, T)[k] \in Nat /\ Losses(w, T)[k] \in Nat
         /\ Total(Gains(w, T), T) \in Nat /\ Total(Losses(w, T), T) \in Nat
         /\ Net(w, T) \in Int
<1>1. \A k \in T : Gains(w, T)[k] \in Nat /\ Losses(w, T)[k] \in Nat
  BY DEF Gains, Losses
<1>2. Total(Gains(w, T), T) \in Nat
  BY <1>1, UnitsFinite
<1>3. Total(Losses(w, T), T) \in Nat
  BY <1>1, UnitsFinite
<1>4. QED
  BY <1>1, <1>2, <1>3 DEF Net

LEMMA NetEmpty == ASSUME NEW w PROVE Net(w, {}) = 0
  BY TotalEmpty DEF Net

(* One more index. *)
LEMMA NetAdd ==
  ASSUME NEW T, IsFiniteSet(T), NEW w, NEW x, x \notin T,
         \A k \in T \union {x} : w[k] \in Int
  PROVE  Net(w, T \union {x}) = Net(w, T) + w[x]
<1> DEFINE S == T \union {x}
           g == Gains(w, S)
           l == Losses(w, S)
<1>1. \A k \in S : g[k] \in Nat /\ l[k] \in Nat
  BY DEF Gains, Losses
<1>2. /\ \A k \in T : g[k] = Gains(w, T)[k]
      /\ \A k \in T : l[k] = Losses(w, T)[k]
  BY DEF Gains, Losses
<1>3. g[x] - l[x] = w[x] /\ g[x] \in Nat /\ l[x] \in Nat
  BY DEF Gains, Losses
<1> HIDE DEF g, l
<1>4. Total(g, T) = Total(Gains(w, T), T) /\ Total(l, T) = Total(Losses(w, T), T)
  BY <1>2, TotalLocal
<1>5. Total(g, S) = Total(g, T) + g[x]
  BY <1>1, TotalAdd
<1>6. Total(l, S) = Total(l, T) + l[x]
  BY <1>1, TotalAdd
<1>7. Total(Gains(w, T), T) \in Nat /\ Total(Losses(w, T), T) \in Nat
  BY NetIsInt
<1>8. w[x] \in Int
  OBVIOUS
<1> HIDE DEF S
<1>9. Net(w, S) = Total(g, S) - Total(l, S)
  BY DEF Net, g, l
<1>10. Net(w, S) = Total(Gains(w, T), T) - Total(Losses(w, T), T) + w[x]
  BY <1>3, <1>4, <1>5, <1>6, <1>7, <1>8, <1>9
<1>11. QED
  BY <1>10 DEF Net, S

(* One less. *)
LEMMA NetRemove ==
  ASSUME NEW S, IsFiniteSet(S), NEW w, \A k \in S : w[k] \in Int,
         NEW T \in SUBSET S, NEW x \in T
  PROVE  Net(w, T) = w[x] + Net(w, T \ {x})
<1> DEFINE R == T \ {x}
<1>1. IsFiniteSet(R) /\ R \subseteq S
  BY FS_Subset
<1>2. x \notin R /\ R \union {x} = T
  OBVIOUS
<1>3. Net(w, R) \in Int /\ w[x] \in Int
  <2> HIDE DEF R
  <2> QED BY <1>1, NetIsInt
<1>4. Net(w, R \union {x}) = Net(w, R) + w[x]
  <2>1. \A k \in R \union {x} : w[k] \in Int
    BY <1>2
  <2> HIDE DEF R
  <2>2. QED
    BY <1>1, <1>2, <2>1, NetAdd
<1> HIDE DEF R
<1>5. Net(w, T) = Net(w, R) + w[x]
  BY <1>2, <1>4
<1>6. Net(w, T) = w[x] + Net(w, R)
  BY <1>3, <1>5
<1>7. QED
  BY <1>6 DEF R

(* It depends on the weights of T alone. *)
LEMMA NetLocal ==
  ASSUME NEW T, NEW v, NEW w, \A k \in T : v[k] = w[k] PROVE Net(v, T) = Net(w, T)
<1>1. Gains(v, T) = Gains(w, T) /\ Losses(v, T) = Losses(w, T)
  BY DEF Gains, Losses
<1>2. QED
  BY <1>1 DEF Net

(* The sum of natural numbers is their total. *)
LEMMA NetOfNaturals ==
  ASSUME NEW T, IsFiniteSet(T), NEW w, \A k \in T : w[k] \in Nat PROVE Net(w, T) = Total(w, T)
<1>1. \A k \in T : Gains(w, T)[k] = w[k] /\ Losses(w, T)[k] = 0
  BY DEF Gains, Losses
<1>2. Total(Gains(w, T), T) = Total(w, T)
  BY <1>1, TotalLocal
<1>3. Total(Losses(w, T), T) = 0
  <2>1. Units(Losses(w, T), T) = {}
    BY <1>1 DEF Units
  <2>2. QED
    BY <2>1, FS_EmptySet DEF Total
<1>4. Total(w, T) \in Nat
  BY UnitsFinite
<1>5. QED
  BY <1>2, <1>3, <1>4 DEF Net

(***************************************************************************)
(* The iteration that folds + over the subsets of S with the weights w:    *)
(* what MapThenSumSet evaluates.                                           *)
(***************************************************************************)
Unfolded(w, S, iter) ==
  [T \in SUBSET S |->
     IF T = {} THEN 0
     ELSE LET x == CHOOSE x \in T : TRUE IN w[x] + iter[T \ {x}]]

(* There is one: it computes the sums. *)
LEMMA FoldExists ==
  ASSUME NEW S, IsFiniteSet(S), NEW w, \A k \in S : w[k] \in Int
  PROVE  \E iter : iter = Unfolded(w, S, iter)
<1> DEFINE tot == [T \in SUBSET S |-> Net(w, T)]
<1>1. tot = Unfolded(w, S, tot)
  <2> DEFINE e(T) == IF T = {} THEN 0 ELSE LET x == CHOOSE x \in T : TRUE IN w[x] + tot[T \ {x}]
  <2>1. ASSUME NEW T \in SUBSET S PROVE Net(w, T) = e(T)
    <3>1. CASE T = {}
      BY <3>1, NetEmpty
    <3>2. CASE T # {}
      <4> DEFINE x == CHOOSE x \in T : TRUE
      <4>1. x \in T
        BY <3>2
      <4>2. Net(w, T) = w[x] + Net(w, T \ {x})
        <5> HIDE DEF x
        <5> QED BY <3>2, <4>1, NetRemove
      <4>3. e(T) = w[x] + tot[T \ {x}]
        BY <3>2
      <4>4. tot[T \ {x}] = Net(w, T \ {x})
        OBVIOUS
      <4>5. QED
        BY <4>2, <4>3, <4>4
    <3>3. QED
      BY <3>1, <3>2
  <2>2. Unfolded(w, S, tot) = [T \in SUBSET S |-> e(T)]
    BY DEF Unfolded
  <2> HIDE DEF e
  <2>3. QED
    BY <2>1, <2>2
<1>2. QED
  BY <1>1

(* And it computes nothing else. *)
LEMMA FoldIsNet ==
  ASSUME NEW S, IsFiniteSet(S), NEW w, \A k \in S : w[k] \in Int,
         NEW f, f = Unfolded(w, S, f)
  PROVE  f[S] = Net(w, S)
<1> DEFINE Wrong == {n \in Nat : \E T \in SUBSET S : Cardinality(T) = n /\ f[T] # Net(w, T)}
<1>1. ASSUME Wrong # {} PROVE FALSE
  <2>1. PICK n \in Wrong : \A k \in Wrong : n <= k
    BY <1>1, LeastNumber
  <2>2. PICK T \in SUBSET S : Cardinality(T) = n /\ f[T] # Net(w, T)
    BY <2>1
  <2>3. IsFiniteSet(T)
    BY FS_Subset
  <2>4. CASE T = {}
    <3>1. f[T] = 0
      BY <2>4 DEF Unfolded
    <3>2. QED
      BY <2>2, <2>4, <3>1, NetEmpty
  <2>5. CASE T # {}
    <3> DEFINE x == CHOOSE x \in T : TRUE
    <3>1. x \in T
      BY <2>5
    <3>2. f[T] = w[x] + f[T \ {x}]
      BY <2>5 DEF Unfolded
    <3> HIDE DEF x
    <3>3. Cardinality(T \ {x}) = n - 1 /\ Cardinality(T \ {x}) \in Nat
      <4>1. Cardinality(T \ {x}) = n - 1
        BY <2>2, <2>3, <3>1, FS_RemoveElement
      <4>2. IsFiniteSet(T \ {x})
        BY <2>3, FS_RemoveElement
      <4>3. QED
        BY <4>1, <4>2, FS_CardinalityType
    <3>4. n - 1 \notin Wrong
      BY <2>1
    <3>5. f[T \ {x}] = Net(w, T \ {x})
      BY <3>3, <3>4
    <3>6. QED
      BY <2>2, <2>5, <3>1, <3>2, <3>5, NetRemove
  <2>6. QED
    BY <2>4, <2>5
<1>2. Cardinality(S) \in Nat
  BY FS_CardinalityType
<1>3. QED
  BY <1>1, <1>2

LEMMA FoldIsTotal ==
  ASSUME NEW S, IsFiniteSet(S), NEW w, \A k \in S : w[k] \in Nat,
         NEW f, f = Unfolded(w, S, f)
  PROVE  f[S] = Total(w, S)
<1>1. \A k \in S : w[k] \in Int
  OBVIOUS
<1>2. QED
  BY <1>1, FoldIsNet, NetOfNaturals
-----------------------------------------------------------------------------
(* The finite values as a set. *)
LEMMA FiniteMember == ASSUME NEW x PROVE IsFinite(x) <=> x \in Finite
  BY DEF IsFinite, Finite

(* They are integers and floats, and the rest value is one of them. *)
LEMMA FiniteFacts == Finite \subseteq Int /\ Finite \subseteq Float /\ 0 \in Finite /\ NaN \notin Finite
  BY RonUtilAssumption DEF Finite, Float

(* A finite result is the exact one. *)
LEMMA FinFinite ==
  ASSUME NEW x \in Int, IsFinite(Fin(x)) PROVE x \in Finite /\ Fin(x) = x
  BY RonUtilAssumption DEF Fin, IsFinite, Finite

(* Finite results of the arithmetic have finite operands. *)
LEMMA PlusFinite ==
  ASSUME NEW a, NEW b, IsFinite(Plus(a, b))
  PROVE  a \in Finite /\ b \in Finite /\ Plus(a, b) = a + b
  BY RonUtilAssumption DEF Plus, Fin, IsFinite, Finite

(* The same for products. *)
LEMMA TimesFinite ==
  ASSUME NEW a, NEW b, IsFinite(Times(a, b))
  PROVE  a \in Finite /\ b \in Finite /\ Times(a, b) = a * b
  BY RonUtilAssumption DEF Times, Fin, IsFinite, Finite

(* The same for differences. *)
LEMMA MinusFinite ==
  ASSUME NEW a, NEW b, IsFinite(Minus(a, b))
  PROVE  a \in Finite /\ b \in Finite /\ Minus(a, b) = a - b
  BY RonUtilAssumption DEF Minus, Fin, IsFinite, Finite

(* The same for products with a coefficient. *)
LEMMA ScaledFinite ==
  ASSUME NEW a, NEW b, NEW scale, IsFinite(Scaled(a, b, scale))
  PROVE  a \in Finite /\ b \in Finite
  BY RonUtilAssumption DEF Scaled, IsFinite, Finite

(* The values between two finite ones are finite. *)
LEMMA FiniteBetween ==
  ASSUME NEW a \in Finite, NEW b \in Finite, NEW x \in Int, a <= x, x <= b PROVE x \in Finite
  BY RonUtilAssumption DEF Finite
-----------------------------------------------------------------------------

InForce(c, lo, hi) == ValidConfig(c) /\ lo <= c.u_min /\ c.u_max <= hi

(* Why u_sat_prev is part of it: HOLD_LAST, manual steps and the rate      *)
(* limiter all give the old output back to the actuator.                   *)
Sound(p, lo, hi) ==
  /\ p \in PidInstance
  /\ p.u_sat_prev \in lo..hi
  /\ p.fault_code \subseteq Detected
  /\ p.is_initialised => InForce(p.cfg, lo, hi)

GoodOutput(o, lo, hi) == o \in Output /\ o.u \in lo..hi

(* What a step may do to the fault register. *)
KeepsLatch(p, q) ==
  \/ p.fault_code = {} /\ q.fault_code = {}
  \/ p.fault_code = {} /\ \E f \in Detected : q.fault_code = {f}
  \/ p.fault_code # {} /\ q.fault_code = p.fault_code

(* Any other operation may clear it, without touching the output. *)
GoodLatch(p, o, res) ==
  \/ KeepsLatch(p, res.pid)
  \/ res.pid.fault_code = {} /\ res.out.u = o.u

Good(p, o, res, lo, hi) ==
  /\ Sound(res.pid, lo, hi)
  /\ res.out = o \/ GoodOutput(res.out, lo, hi)
  /\ res.ret \in SUBSET Fault
  /\ res.notified \in SUBSET Fault
  /\ GoodLatch(p, o, res)
  /\ res.ret = {"CONFIG_INVALID"} => res.pid = p /\ res.out = o
  /\ res.notified = IF p.cfg.fault_cb THEN res.pid.fault_code \ p.fault_code ELSE {}

(* What a step leaves alone. *)
Continues(p, q) ==
  /\ q.cfg = p.cfg /\ q.mode = p.mode /\ q.is_initialised = p.is_initialised
  /\ q.integral \in {p.integral, 0} \/ q.integral \in p.cfg.I_min..p.cfg.I_max
  /\ p.mode = "MANUAL" => /\ q.integral = p.integral
                          /\ q.status \subseteq p.status \union {"MANUAL_MODE", "FAULT"}

(* How a committed output comes about: the control law's value, clamped to *)
(* the limits in force and rate-limited from the last output, with a       *)
(* status that tells.                                                      *)
Commits(p, res, dt) ==
  LET u_raw == res.pid.u_prev
      u_sat == Clamp(u_raw, p.cfg.u_min, p.cfg.u_max)
  IN  /\ res.out.u = RateLimit(u_sat, p.u_sat_prev, p.cfg.du_max, dt)
      /\ res.pid.u_sat_prev = res.out.u
      /\ "SATURATED" \in res.out.status <=> u_sat # u_raw
      /\ "RATE_LIMITED" \in res.out.status
           <=> RateLimited(u_sat, p.u_sat_prev, p.cfg.du_max, dt)

(* What the actuator gets: the output history, or the safe value.          *)
Follows(p, res) ==
  /\ res.ret = {} => res.out.u = res.pid.u_sat_prev
  /\ res.ret # {} \/ p.mode = "MANUAL" => res.pid.u_sat_prev = p.u_sat_prev
  /\ res.ret # {} => res.out.u = PidSafeOutput(p)

Accepted(p, o, res, dt, lo, hi) ==
  /\ p.is_initialised
  /\ Good(p, o, res, lo, hi)
  /\ GoodOutput(res.out, lo, hi)
  /\ res.out.status = res.pid.status
  /\ res.ret # {"CONFIG_INVALID"}
  /\ KeepsLatch(p, res.pid)
  /\ Continues(p, res.pid)
  /\ Follows(p, res)
  /\ res.ret = {} /\ p.mode = "AUTOMATIC" => Commits(p, res, dt)
-----------------------------------------------------------------------------
(* A lag whose weights do not vanish is an integer. *)
LEMMA LagIsInt ==
  ASSUME NEW new \in Int, NEW w \in Int, NEW old \in Int, NEW v \in Int, w + v > 0
  PROVE  Lag(new, w, old, v) \in Int
<1>1. w * new + v * old \in Int
  BY ProductIsInt
<1>2. QED
  BY <1>1, QuotIsInt DEF Lag

(* The fields of a valid configuration the control law computes with. *)
LEMMA ValidConfigTypes ==
  ASSUME NEW c \in Config, ValidConfig(c)
  PROVE  /\ \A x \in {c.Kp, c.Ki, c.Kd, c.N, c.b, c.c, c.u_min, c.u_max, c.du_max,
                      c.I_min, c.I_max, c.tau_sp, c.safe_value, c.I_overflow_thresh,
                      c.sp_reset_threshold, c.feedforward.gain,
                      c.feedforward.N_ff} : x \in Int
         /\ c.u_min < c.u_max /\ c.I_min < c.I_max
         /\ c.N >= 0 /\ c.feedforward.N_ff >= 0
         /\ c.normalise => /\ c.in_min \in Int /\ c.in_max \in Int
                           /\ c.out_min \in Int /\ c.out_max \in Int
                           /\ c.in_min < c.in_max
         /\ c.aw_mode = "BACK_CALC" => c.T_aw \in Int /\ c.T_aw > 0
         /\ c.feedforward.mode \in FfMode
  BY RonUtilAssumption
  DEF Config, Feedforward, ValidConfig, ValidGains, ValidWeights, ValidLimits,
      ValidNormalisation, ValidThresholds, ValidFeedforward, NonNegative, Positive,
      UnitInterval, StrictRange, IsFinite

(* Its limits are finite. *)
LEMMA LimitsAreFinite ==
  ASSUME NEW c, ValidConfig(c)
  PROVE  c.u_min \in Finite /\ c.u_max \in Finite /\ c.I_min \in Finite /\ c.I_max \in Finite
  BY FiniteMember DEF ValidConfig, ValidLimits, StrictRange

(* A value of a finite range is finite. *)
LEMMA RangeIsFinite ==
  ASSUME NEW lo \in Finite, NEW hi \in Finite PROVE lo..hi \subseteq Finite
  BY RonUtilAssumption DEF Finite
-----------------------------------------------------------------------------
(***************************************************************************)
(* Fault handling.                                                         *)
(***************************************************************************)

(* The safe output of an initialised instance is a value of the actuator. *)
LEMMA SafeOutputInRange ==
  ASSUME NEW lo \in Int, NEW hi \in Int, lo <= 0, 0 <= hi,
         NEW p, Sound(p, lo, hi), p.is_initialised
  PROVE  PidSafeOutput(p) \in lo..hi /\ PidSafeOutput(p) \in Finite
<1> DEFINE c == p.cfg
<1>1. c \in Config /\ ValidConfig(c) /\ lo <= c.u_min /\ c.u_max <= hi
  BY DEF Sound, InForce, PidInstance
<1>2. c.u_min \in Int /\ c.u_max \in Int /\ c.safe_value \in Int /\ c.u_min <= c.u_max
  BY <1>1, ValidConfigTypes
<1>3. p.u_sat_prev \in Int
  BY DEF Sound, PidInstance
<1> HIDE DEF c
<1>4. PidSafeOutput(p) \in c.u_min..c.u_max
  BY <1>2, <1>3, SafeOutputBounded DEF PidSafeOutput, c
<1>5. PidSafeOutput(p) \in Finite
  BY <1>1, <1>4, LimitsAreFinite, RangeIsFinite
<1>6. QED
  BY <1>1, <1>2, <1>4, <1>5

(* Latching a fault keeps an instance sound. *)
LEMMA FaultSetSound ==
  ASSUME NEW lo \in Int, NEW hi \in Int, lo <= 0, 0 <= hi,
         NEW p, Sound(p, lo, hi), NEW code \in Detected
  PROVE  /\ Sound(FaultSet(p, code), lo, hi)
         /\ FaultSet(p, code).fault_code = p.fault_code \union {code}
         /\ FaultSet(p, code).is_initialised = p.is_initialised
         /\ Continues(p, FaultSet(p, code))
<1>1. FaultSet(p, code) \in PidInstance
  BY DEF Sound, PidInstance, FaultSet, Status, Fault, Detected
<1>2. /\ FaultSet(p, code).cfg = p.cfg
      /\ FaultSet(p, code).u_sat_prev = p.u_sat_prev
      /\ FaultSet(p, code).fault_code = p.fault_code \union {code}
      /\ FaultSet(p, code).is_initialised = p.is_initialised
  BY DEF Sound, PidInstance, FaultSet
<1>3. /\ FaultSet(p, code).mode = p.mode
      /\ FaultSet(p, code).integral = p.integral
      /\ FaultSet(p, code).status = p.status \union {"FAULT"}
  BY DEF Sound, PidInstance, FaultSet
<1>4. QED
  BY <1>1, <1>2, <1>3 DEF Sound, Continues

(* A step of a latched instance.         *)
LEMMA SafeStepGood ==
  ASSUME NEW lo \in Int, NEW hi \in Int, lo <= 0, 0 <= hi,
         NEW p, NEW o, Sound(p, lo, hi), p.is_initialised, p.fault_code # {}
  PROVE  \A dt : Accepted(p, o, SafeStep(p, o), dt, lo, hi)
<1>1. PidSafeOutput(p) \in lo..hi /\ PidSafeOutput(p) \in Finite
  BY SafeOutputInRange
<1>2. p.status \in SUBSET Status /\ p.fault_code \in SUBSET Fault
  BY DEF Sound, PidInstance
<1>3. GoodOutput(SafeStep(p, o).out, lo, hi)
  BY <1>1, <1>2 DEF GoodOutput, Output, SafeStep
<1>4. p.fault_code # {"CONFIG_INVALID"}
  BY DEF Sound, Detected
<1>5. Good(p, o, SafeStep(p, o), lo, hi)
  BY <1>2, <1>3, <1>4 DEF Good, GoodLatch, KeepsLatch, SafeStep
<1>6. /\ SafeStep(p, o).pid = p /\ SafeStep(p, o).ret = p.fault_code
      /\ SafeStep(p, o).out.status = p.status
      /\ SafeStep(p, o).out.u = PidSafeOutput(p)
  BY DEF SafeStep
<1>7. QED
  BY <1>3, <1>4, <1>5, <1>6 DEF Accepted, KeepsLatch, Continues, Follows

(* A step of an unlatched instance that detects a fault after it changed   *)
(* the instance to q.                                                      *)
LEMMA FailStepGood ==
  ASSUME NEW lo \in Int, NEW hi \in Int, lo <= 0, 0 <= hi,
         NEW p, NEW o, NEW q, NEW code \in Detected, Sound(q, lo, hi), q.is_initialised,
         p.fault_code = {}, q.fault_code = {}, Continues(p, q),
         q.u_sat_prev = p.u_sat_prev
  PROVE  \A dt : Accepted(p, o, FailStep(q, o, code), dt, lo, hi)
<1> DEFINE f == FaultSet(q, code)
           res == FailStep(q, o, code)
<1>1. /\ Sound(f, lo, hi) /\ f.is_initialised /\ f.fault_code = {code}
      /\ Continues(q, f)
  BY FaultSetSound
<1>2. GoodOutput(SafeStep(f, o).out, lo, hi)
  BY <1>1, SafeStepGood DEF Accepted
<1>3. /\ res.pid = f /\ res.out = SafeStep(f, o).out /\ res.ret = {code}
      /\ res.notified = FaultNotify(q, code) /\ res.out.status = f.status
  BY <1>1 DEF FailStep, SafeStep
<1>4. FaultNotify(q, code) = IF p.cfg.fault_cb THEN {code} ELSE {}
  BY DEF FaultNotify, Continues
<1>5. code \in Fault /\ code # "CONFIG_INVALID"
  BY DEF Detected
<1> HIDE DEF f, res
<1>6. GoodOutput(res.out, lo, hi)
  BY <1>2, <1>3
<1>7. Good(p, o, res, lo, hi)
  BY <1>1, <1>3, <1>4, <1>5, <1>6 DEF Good, GoodLatch, KeepsLatch
<1>8. Continues(p, res.pid)
  BY <1>1, <1>3 DEF Continues
<1>9. p.is_initialised /\ KeepsLatch(p, res.pid) /\ res.ret # {"CONFIG_INVALID"} /\ res.ret # {}
  BY <1>1, <1>3, <1>5 DEF KeepsLatch, Continues
<1>10. Follows(p, res)
  <2>1. f.u_sat_prev = q.u_sat_prev /\ f.cfg = q.cfg /\ q.cfg = p.cfg
    BY DEF Sound, PidInstance, FaultSet, Continues, f
  <2>2. res.out.u = PidSafeOutput(f)
    BY <1>3 DEF SafeStep
  <2>3. PidSafeOutput(f) = PidSafeOutput(p)
    BY <2>1 DEF PidSafeOutput
  <2>4. QED
    BY <1>3, <2>1, <2>2, <2>3 DEF Follows
<1>11. QED
  BY <1>3, <1>6, <1>7, <1>8, <1>9, <1>10 DEF Accepted, res
-----------------------------------------------------------------------------
(***************************************************************************)
(* The control law.                                                        *)
(***************************************************************************)

(* Scaling of an input and of the output. *)
LEMMA ScalingIsInt ==
  ASSUME NEW c \in Config, ValidConfig(c), NEW x \in Int
  PROVE  Normalise(c, x) \in Int /\ Denormalise(c, x) \in Int
<1>1. CASE c.normalise
  <2>1. /\ c.in_min \in Int /\ c.in_max \in Int /\ c.in_min < c.in_max
        /\ c.out_min \in Int /\ c.out_max \in Int
    BY <1>1, ValidConfigTypes
  <2>2. Quot(x - c.in_min, c.in_max - c.in_min) \in Int /\ x - c.in_min \in Int
    BY <2>1, QuotIsInt
  <2>3. x * (c.out_max - c.out_min) \in Int
    BY <2>1, ProductIsInt
  <2>4. QED
    BY <1>1, <2>1, <2>2, <2>3 DEF Normalise, Denormalise
<1>2. CASE ~c.normalise
  BY <1>2 DEF Normalise, Denormalise
<1>3. QED
  BY <1>1, <1>2

(* The setpoint filter and the setpoint reset. *)
LEMMA PreparedInputs ==
  ASSUME NEW lo \in Int, NEW hi \in Int, lo <= 0, 0 <= hi,
         NEW p, Sound(p, lo, hi), p.is_initialised, NEW r_n \in Int, NEW dt \in Int, dt > 0
  PROVE  /\ SpFilter(p, r_n, dt) \in Int
         /\ Sound(SetpointReset(p, r_n), lo, hi)
         /\ SetpointReset(p, r_n).is_initialised
         /\ SetpointReset(p, r_n).cfg = p.cfg
         /\ SetpointReset(p, r_n).fault_code = p.fault_code
         /\ SetpointReset(p, r_n).u_sat_prev = p.u_sat_prev
         /\ p.mode = "AUTOMATIC" => Continues(p, SetpointReset(p, r_n))
<1>1. p.cfg \in Config /\ ValidConfig(p.cfg) /\ p \in PidInstance
  BY DEF Sound, InForce, PidInstance
<1>2. p.cfg.tau_sp \in Int /\ p.r_filt_prev \in Int
  BY <1>1, ValidConfigTypes DEF PidInstance, Finite
<1>3. p.cfg.tau_sp > 0 => Lag(r_n, dt, p.r_filt_prev, p.cfg.tau_sp) \in Int
  <2>1. p.cfg.tau_sp > 0 => dt + p.cfg.tau_sp > 0
    BY <1>2
  <2>2. QED
    BY <1>2, <2>1, LagIsInt
<1>4. SpFilter(p, r_n, dt) \in Int
  BY <1>3 DEF SpFilter
<1> DEFINE q == [p EXCEPT !.integral = 0]
<1>5. /\ q \in PidInstance /\ q.is_initialised = p.is_initialised /\ q.cfg = p.cfg
      /\ q.fault_code = p.fault_code /\ q.u_sat_prev = p.u_sat_prev
  <2>1. q \in PidInstance
    BY <1>1, FiniteFacts DEF PidInstance
  <2>2. q.is_initialised = p.is_initialised /\ q.cfg = p.cfg
    BY <1>1 DEF PidInstance
  <2>3. q.fault_code = p.fault_code /\ q.u_sat_prev = p.u_sat_prev
    BY <1>1 DEF PidInstance
  <2>4. QED
    BY <2>1, <2>2, <2>3
<1>6. Sound(q, lo, hi)
  BY <1>5 DEF Sound
<1>7. SetpointReset(p, r_n) \in {p, q}
  BY DEF SetpointReset
<1>8. q.mode = p.mode /\ q.integral = 0
  BY <1>1 DEF PidInstance
<1>9. p.mode = "AUTOMATIC" => Continues(p, q) /\ Continues(p, p)
  BY <1>5, <1>8 DEF Continues
<1> HIDE DEF q
<1>10. QED
  BY <1>4, <1>5, <1>6, <1>7, <1>9

(* The integral term is NaN or within the limits in force. *)
LEMMA IntegralTermRange ==
  ASSUME NEW lo \in Int, NEW hi \in Int, lo <= 0, 0 <= hi,
         NEW p, Sound(p, lo, hi), p.is_initialised, NEW e \in Int, NEW dt \in Int, dt > 0
  PROVE  IntegralTerm(p, e, dt) \in (p.cfg.I_min..p.cfg.I_max) \union {NaN}
<1> DEFINE c == p.cfg
           sum == IF c.integ_method = "TRAPEZOIDAL" THEN e + p.e_prev ELSE e
           area == IF c.integ_method = "TRAPEZOIDAL"
                   THEN Quot(c.Ki * dt * sum, 2) ELSE c.Ki * dt * sum
           gap == IF c.aw_mode = "BACK_CALC" THEN p.u_sat_prev - p.u_prev ELSE 0
           track == IF c.aw_mode = "BACK_CALC" THEN Quot(dt * gap, c.T_aw) ELSE 0
           i_new == p.integral + area + track
<1>1. c \in Config /\ ValidConfig(c) /\ p \in PidInstance
  BY DEF Sound, InForce, PidInstance
<1>2. /\ c.Ki \in Int /\ c.I_min \in Int /\ c.I_max \in Int /\ c.I_min <= c.I_max
      /\ c.aw_mode = "BACK_CALC" => c.T_aw \in Int /\ c.T_aw > 0
  BY <1>1, ValidConfigTypes
<1>3. /\ p.e_prev \in Int /\ p.integral \in Int
      /\ p.u_sat_prev \in Int /\ p.u_prev \in Int
  BY <1>1 DEF PidInstance, Finite
<1>4. area \in Int
  <2>1. c.Ki * dt \in Int /\ sum \in Int
    BY <1>2, <1>3, ProductIsInt
  <2> HIDE DEF sum
  <2>2. c.Ki * dt * sum \in Int
    BY <2>1, ProductIsInt
  <2>3. QED
    BY <2>2, QuotIsInt
<1>5. track \in Int
  <2>1. dt * gap \in Int
    BY <1>3, ProductIsInt
  <2>2. QED
    BY <1>2, <2>1, QuotIsInt
<1>6. IntegralTerm(p, e, dt)
        \in {Clamp(p.integral, c.I_min, c.I_max), Clamp(i_new, c.I_min, c.I_max),
             NaN, c.I_max, c.I_min}
  BY DEF IntegralTerm
<1> HIDE DEF area, track, c
<1>7. i_new \in Int
  BY <1>3, <1>4, <1>5
<1> HIDE DEF i_new
<1>8. \A x \in Int : Clamp(x, c.I_min, c.I_max) \in c.I_min..c.I_max
  BY <1>2, ClampInRange
<1>9. c.I_min \in c.I_min..c.I_max /\ c.I_max \in c.I_min..c.I_max
  BY <1>2
<1>10. QED
  BY <1>3, <1>6, <1>7, <1>8, <1>9 DEF c

(* A committed integral term lies within the limits in force. *)
LEMMA IntegralIsInt ==
  ASSUME NEW lo \in Int, NEW hi \in Int, lo <= 0, 0 <= hi,
         NEW p, Sound(p, lo, hi), p.is_initialised, NEW e \in Int, NEW dt \in Int, dt > 0,
         IsFinite(IntegralTerm(p, e, dt))
  PROVE  IntegralTerm(p, e, dt) \in p.cfg.I_min..p.cfg.I_max
<1>1. IntegralTerm(p, e, dt) # NaN
  BY FiniteMember, FiniteFacts
<1>2. QED
  BY <1>1, IntegralTermRange

(* A committing step leaves a sound instance whose last output is the      *)
(* actuator's: the limiter moves it from one value of the range towards    *)
(* another.  What it stores is what it tested.                             *)
LEMMA AutomaticStepGood ==
  ASSUME NEW lo \in Int, NEW hi \in Int, lo <= 0, 0 <= hi,
         NEW p, NEW o, Sound(p, lo, hi), p.is_initialised, p.fault_code = {},
         p.mode = "AUTOMATIC",
         NEW r \in Int, NEW y \in Int, NEW dt \in Int, dt > 0, NEW external_ff
  PROVE  Accepted(p, o, AutomaticStep(p, o, r, y, dt, external_ff), dt, lo, hi)
<1> DEFINE c      == p.cfg
           r_n    == Normalise(c, r)
           y_n    == Normalise(c, y)
           r_f    == SpFilter(p, r_n, dt)
           q      == SetpointReset(p, r_f)
           x      == Terms(q, r_n, y_n, r_f, dt, external_ff)
           sum    == x.p_term + x.i_term + x.d_term + x.ff.u_ff
           u_raw  == Denormalise(q.cfg, sum)
           finite == /\ AllFinite(x.seen \union {x.p_term, x.i_term, x.d_term})
                     /\ AllFinite({x.p_term + x.i_term, x.p_term + x.i_term + x.d_term})
                     /\ AllFinite({x.ff.u_ff, x.ff.r, x.ff.v, x.ff.a})
                     /\ AllFinite({sum, u_raw} \union DenormaliseSteps(q.cfg, sum))
           u_sat   == Clamp(u_raw, q.cfg.u_min, q.cfg.u_max)
           u_final == RateLimit(u_sat, q.u_sat_prev, q.cfg.du_max, dt)
           clipped == u_sat # u_raw
           status  == Flag(q.cfg.normalise, "NORMALISED")
                      \union Flag(q.cfg.tau_sp > 0, "SP_FILTER_ACTIVE")
                      \union Flag(x.ff.u_ff # 0, "FF_ACTIVE")
                      \union Flag(clipped, "SATURATED")
                      \union Flag(RateLimited(u_sat, q.u_sat_prev, q.cfg.du_max, dt),
                                  "RATE_LIMITED")
                      \union Flag(clipped /\ q.cfg.aw_mode # "NONE", "AW_ACTIVE")
           stored  == [q EXCEPT !.integral = x.i_term, !.y_prev = x.y_n, !.e_D_prev = x.e_d,
                                !.D_filt_prev = x.d_term, !.r_filt_prev = x.r_f,
                                !.u_sat_prev = u_final, !.u_prev = u_raw, !.e_prev = x.e,
                                !.ff_r_prev = x.ff.r, !.ff_v_prev = x.ff.v,
                                !.ff_a_prev = x.ff.a, !.u_ff_prev = x.ff.u_ff,
                                !.status = status]
           done    == Done(stored, [u |-> u_final, status |-> status])
<1> HIDE DEF x, q
<1>1. AutomaticStep(p, o, r, y, dt, external_ff) =
        IF ~finite THEN FailStep(q, o, "OUTPUT_NAN")
        ELSE IF q.cfg.I_overflow_thresh > 0 /\ Abs(x.i_term) > q.cfg.I_overflow_thresh
        THEN FailStep(q, o, "INTEGRAL_OVERFLOW")
        ELSE done
  <2>1. AutomaticStep(p, o, r, y, dt, external_ff) = LimitAndStore(q, o, x, dt)
    BY DEF AutomaticStep, q, x
  <2>2. QED
    BY <2>1 DEF LimitAndStore
<1> HIDE DEF r_n, y_n, r_f
<1>t. /\ x.r_f = r_f /\ x.y_n = y_n /\ x.e = r_f - y_n /\ x.e_d = q.cfg.c * r_f - y_n
      /\ x.i_term = IntegralTerm(q, x.e, dt)
      /\ {r_f, y_n} \subseteq x.seen
  BY DEF Terms, x
<1> HIDE DEF u_raw, sum
<1>2. finite => /\ x.seen \union {x.p_term, x.i_term, x.d_term} \subseteq Finite
                /\ {x.ff.u_ff, x.ff.r, x.ff.v, x.ff.a, u_raw} \subseteq Finite
  <2>1. \A S : AllFinite(S) => S \subseteq Finite
    BY FiniteMember DEF AllFinite
  <2>2. QED
    BY <2>1
<1> HIDE DEF finite, done
<1>3. /\ c \in Config /\ ValidConfig(c) /\ lo <= c.u_min /\ c.u_max <= hi
      /\ p \in PidInstance
  BY DEF Sound, InForce, PidInstance
<1>4. /\ c.b \in Int /\ c.c \in Int /\ c.du_max \in Int
      /\ c.u_min \in Int /\ c.u_max \in Int /\ c.u_min <= c.u_max
  BY <1>3, ValidConfigTypes
<1>5. y_n \in Int /\ r_n \in Int
  BY <1>3, ScalingIsInt DEF y_n, r_n
<1>6. r_f \in Int
  BY <1>5, PreparedInputs DEF r_f
<1>7. /\ Sound(q, lo, hi) /\ q.is_initialised /\ q.cfg = c /\ q.fault_code = {}
      /\ q.u_sat_prev = p.u_sat_prev /\ Continues(p, q)
  BY <1>6, PreparedInputs DEF q
<1>8. x.e \in Int /\ x.e_d \in Int
  <2>1. c.c * r_f \in Int
    BY <1>4, <1>6, ProductIsInt
  <2>2. QED
    BY <1>5, <1>6, <1>7, <1>t, <2>1
<1>9. IsFinite(x.i_term) => x.i_term \in c.I_min..c.I_max
  BY <1>7, <1>8, <1>t, IntegralIsInt
<1>10. ASSUME finite PROVE Accepted(p, o, done, dt, lo, hi)
  <2>1. /\ x.y_n \in Finite /\ x.r_f \in Finite /\ x.d_term \in Finite
        /\ x.i_term \in Finite /\ x.ff.u_ff \in Finite /\ x.ff.r \in Finite
        /\ x.ff.v \in Finite /\ x.ff.a \in Finite /\ u_raw \in Finite
    BY <1>2, <1>10, <1>t
  <2>2. u_raw \in Int /\ q.u_sat_prev \in Int /\ q.u_sat_prev \in lo..hi
    BY <1>7, <2>1, FiniteFacts DEF Sound
  <2>3. u_sat \in c.u_min..c.u_max
    <3> HIDE DEF c, u_sat
    <3>1. Clamp(u_raw, c.u_min, c.u_max) \in c.u_min..c.u_max
      BY <1>4, <2>2, ClampInRange
    <3>2. QED
      BY <1>7, <3>1 DEF u_sat
  <2>4. u_sat \in Int /\ u_sat \in lo..hi
    BY <1>3, <1>4, <2>3
  <2> HIDE DEF u_sat
  <2>5. /\ u_final \in Int
        /\ \/ u_sat <= u_final /\ u_final <= q.u_sat_prev
           \/ q.u_sat_prev <= u_final /\ u_final <= u_sat
    <3> HIDE DEF c
    <3>1. QED
      BY <1>4, <1>7, <2>2, <2>4, RateLimitBetween
  <2>6. u_final \in lo..hi
    <3> HIDE DEF u_final, c
    <3>1. QED
      BY <2>2, <2>4, <2>5
  <2>7. u_final \in Finite
    <3>1. c.u_min \in Finite /\ c.u_max \in Finite
      BY <1>3, FiniteMember DEF ValidConfig, ValidLimits, StrictRange
    <3>2. q.u_sat_prev \in Finite
      BY <1>7 DEF Sound, PidInstance
    <3> HIDE DEF u_final, c
    <3>3. u_sat \in Finite
      BY <2>3, <2>4, <3>1, FiniteBetween
    <3>4. QED
      BY <2>5, <3>2, <3>3, FiniteBetween
  <2>8. /\ status \in SUBSET Status
        /\ "SATURATED" \in status <=> u_sat # u_raw
        /\ "RATE_LIMITED" \in status <=> RateLimited(u_sat, q.u_sat_prev, q.cfg.du_max, dt)
    BY DEF Flag, Status
  <2>u. /\ u_sat = Clamp(u_raw, c.u_min, c.u_max)
        /\ u_final = RateLimit(u_sat, q.u_sat_prev, q.cfg.du_max, dt)
    BY <1>7 DEF u_sat
  <2> HIDE DEF u_final, status
  <2>9. stored \in PidInstance
    <3>1. q \in PidInstance
      BY <1>7 DEF Sound
    <3>2. QED
      BY <1>8, <2>1, <2>7, <2>8, <3>1 DEF PidInstance
  <2>10. /\ stored.u_sat_prev = u_final /\ stored.fault_code = {}
         /\ stored.is_initialised = q.is_initialised /\ stored.cfg = q.cfg
    BY <1>7 DEF Sound, PidInstance
  <2>11. /\ stored.mode = q.mode /\ stored.integral = x.i_term /\ stored.u_prev = u_raw
         /\ stored.status = status
    BY <1>7 DEF Sound, PidInstance
  <2>12. Sound(stored, lo, hi)
    BY <1>7, <2>6, <2>9, <2>10 DEF Sound
  <2> HIDE DEF stored
  <2>13. GoodOutput([u |-> u_final, status |-> status], lo, hi)
    BY <2>6, <2>7, <2>8 DEF GoodOutput, Output
  <2>14. /\ done.pid = stored /\ done.out = [u |-> u_final, status |-> status]
         /\ done.ret = {} /\ done.notified = {}
    BY DEF Done, done, stored
  <2>15. Good(p, o, done, lo, hi)
    BY <2>10, <2>12, <2>13, <2>14 DEF Good, GoodLatch, KeepsLatch
  <2>16. x.i_term \in c.I_min..c.I_max
    BY <1>9, <2>1, FiniteMember
  <2>17. Continues(p, stored)
    BY <1>7, <2>10, <2>11, <2>16 DEF Continues, c
  <2>18. Commits(p, done, dt)
    BY <1>7, <2>8, <2>10, <2>11, <2>14, <2>u DEF Commits, c
  <2>19. Follows(p, done)
    BY <2>10, <2>14 DEF Follows
  <2>20. QED
    BY <2>10, <2>11, <2>13, <2>14, <2>15, <2>17, <2>18, <2>19 DEF Accepted, KeepsLatch
<1>11. \A code \in Detected : Accepted(p, o, FailStep(q, o, code), dt, lo, hi)
  BY <1>7, FailStepGood
<1>12. "OUTPUT_NAN" \in Detected /\ "INTEGRAL_OVERFLOW" \in Detected
  BY DEF Detected, Fault
<1>13. QED
  BY <1>1, <1>10, <1>11, <1>12

(* A manual step returns the handoff value. *)
LEMMA ManualStepGood ==
  ASSUME NEW lo \in Int, NEW hi \in Int, lo <= 0, 0 <= hi,
         NEW p, NEW o, Sound(p, lo, hi), p.is_initialised, p.fault_code = {},
         p.mode = "MANUAL"
  PROVE  \A dt : Accepted(p, o, ManualStep(p, o), dt, lo, hi)
<1> DEFINE m == [p EXCEPT !.status = {"MANUAL_MODE"}]
<1>1. m \in PidInstance
  BY DEF Sound, PidInstance, Status
<1>2. /\ m.cfg = p.cfg /\ m.u_sat_prev = p.u_sat_prev /\ m.fault_code = {}
      /\ m.is_initialised = p.is_initialised /\ m.status = {"MANUAL_MODE"}
  BY DEF Sound, PidInstance
<1>3. Sound(m, lo, hi)
  BY <1>1, <1>2 DEF Sound
<1>4. ManualStep(p, o) = Done(m, [u |-> m.u_sat_prev, status |-> m.status])
  BY DEF ManualStep
<1> HIDE DEF m
<1>5. GoodOutput([u |-> m.u_sat_prev, status |-> m.status], lo, hi)
  BY <1>2, <1>3 DEF GoodOutput, Output, Sound, Status, PidInstance
<1>6. Good(p, o, Done(m, [u |-> m.u_sat_prev, status |-> m.status]), lo, hi)
  BY <1>2, <1>3, <1>5 DEF Good, GoodLatch, KeepsLatch, Done
<1>7. m.mode = p.mode /\ m.integral = p.integral
  BY DEF Sound, PidInstance, m
<1> DEFINE res == ManualStep(p, o)
<1>8. res.pid = m /\ res.out = [u |-> m.u_sat_prev, status |-> m.status] /\ res.ret = {}
  BY <1>4 DEF Done
<1>9. KeepsLatch(p, m) /\ Continues(p, m)
  BY <1>2, <1>7 DEF KeepsLatch, Continues
<1>10. Good(p, o, res, lo, hi)
  BY <1>4, <1>6
<1>11. Follows(p, res)
  BY <1>2, <1>8 DEF Follows
<1> HIDE DEF res
<1>12. QED
  BY <1>5, <1>8, <1>9, <1>10, <1>11 DEF Accepted, res

(* A step of the control law, with any inputs. *)
LEMMA CoreStepGood ==
  ASSUME NEW lo \in Int, NEW hi \in Int, lo <= 0, 0 <= hi,
         NEW p, NEW o, Sound(p, lo, hi), p.is_initialised, p.fault_code = {},
         NEW r, NEW y, NEW dt \in Int, dt > 0, NEW external_ff
  PROVE  Accepted(p, o, CoreStep(p, o, r, y, dt, external_ff), dt, lo, hi)
<1>1. CASE ~IsFinite(r) \/ ~IsFinite(y)
  <2>1. "INPUT_NAN" \in Detected
    BY DEF Detected, Fault
  <2>2. Continues(p, p)
    BY DEF Continues
  <2>3. Accepted(p, o, FailStep(p, o, "INPUT_NAN"), dt, lo, hi)
    BY <2>1, <2>2, FailStepGood
  <2>4. QED
    BY <1>1, <2>3 DEF CoreStep
<1>2. CASE IsFinite(r) /\ IsFinite(y) /\ p.mode = "MANUAL"
  BY <1>2, ManualStepGood DEF CoreStep
<1>3. CASE IsFinite(r) /\ IsFinite(y) /\ p.mode # "MANUAL"
  <2>1. r \in Int /\ y \in Int
    BY <1>3, FiniteIsInt
  <2>2. p.mode = "AUTOMATIC"
    BY <1>3 DEF Sound, PidInstance, OpMode
  <2>3. Accepted(p, o, AutomaticStep(p, o, r, y, dt, external_ff), dt, lo, hi)
    BY <2>1, <2>2, AutomaticStepGood
  <2>4. QED
    BY <1>3, <2>3 DEF CoreStep
<1>4. QED
  BY <1>1, <1>2, <1>3
-----------------------------------------------------------------------------
(***************************************************************************)
(* The API.                                                                *)
(***************************************************************************)

(* A zero-initialised instance. *)
LEMMA ZeroPidSound ==
  ASSUME NEW lo \in Int, NEW hi \in Int, lo <= 0, 0 <= hi PROVE Sound(ZeroPid, lo, hi)
<1>1. ZeroConfig \in Config
  BY DEF ZeroConfig, Config, Feedforward, Float, AwMode, IntegMethod, DerivMode,
         SafePolicy, FfMode
<1>2. ZeroPid \in PidInstance
  BY <1>1, FiniteFacts DEF ZeroPid, PidInstance, OpMode
<1>3. ZeroPid.u_sat_prev = 0 /\ ZeroPid.fault_code = {} /\ ~ZeroPid.is_initialised
  BY DEF ZeroPid
<1>4. QED
  BY <1>2, <1>3 DEF Sound

(* A refused call. *)
LEMMA RejectedGood ==
  ASSUME NEW lo \in Int, NEW hi \in Int, lo <= 0, 0 <= hi,
         NEW p, NEW o, Sound(p, lo, hi)
  PROVE  Good(p, o, Rejected(p, o), lo, hi)
  BY DEF Good, GoodLatch, KeepsLatch, Rejected, Fault

(* A call that changes the instance and leaves the outputs alone. *)
LEMMA DoneGood ==
  ASSUME NEW lo \in Int, NEW hi \in Int, lo <= 0, 0 <= hi,
         NEW p, NEW o, NEW q, Sound(p, lo, hi), Sound(q, lo, hi),
         q.fault_code \in {p.fault_code, {}}
  PROVE  Good(p, o, Done(q, o), lo, hi)
  BY DEF Good, GoodLatch, KeepsLatch, Done

(* A step that is not refused: ron_pid_step refuses an instance that was   *)
(* not initialised, a bad period unless a fault is latched, and a          *)
(* configuration with external feed-forward.                               *)
LEMMA StepAccepted ==
  ASSUME NEW lo \in Int, NEW hi \in Int, lo <= 0, 0 <= hi,
         NEW p, NEW o, Sound(p, lo, hi), NEW r, NEW y, NEW dt, NEW external_ff
  PROVE  /\ \/ PidStep(p, o, r, y, dt) = Rejected(p, o)
            \/ Accepted(p, o, PidStep(p, o, r, y, dt), dt, lo, hi)
         /\ \/ PidStepFeedforward(p, o, r, y, dt, external_ff) = Rejected(p, o)
            \/ Accepted(p, o, PidStepFeedforward(p, o, r, y, dt, external_ff), dt, lo, hi)
         /\ p.is_initialised /\ GoodDt(dt) /\ p.cfg.feedforward.mode # "EXTERNAL"
              => Accepted(p, o, PidStep(p, o, r, y, dt), dt, lo, hi)
<1>1. p.is_initialised /\ p.fault_code # {} => Accepted(p, o, SafeStep(p, o), dt, lo, hi)
  BY SafeStepGood
<1>2. ASSUME p.is_initialised, p.fault_code = {}, GoodDt(dt), NEW ext
      PROVE  Accepted(p, o, CoreStep(p, o, r, y, dt, ext), dt, lo, hi)
  <2>1. dt \in Int /\ dt > 0
    BY <1>2, GoodDtIsInt
  <2>2. QED
    BY <1>2, <2>1, CoreStepGood
<1>3. QED
  BY <1>1, <1>2 DEF PidStep, PidStepFeedforward

(* ron_pid_step and ron_pid_step_feedforward, refused or not. *)
LEMMA StepGood ==
  ASSUME NEW lo \in Int, NEW hi \in Int, lo <= 0, 0 <= hi,
         NEW p, NEW o, Sound(p, lo, hi), NEW r, NEW y, NEW dt, NEW external_ff
  PROVE  /\ Good(p, o, PidStep(p, o, r, y, dt), lo, hi)
         /\ Good(p, o, PidStepFeedforward(p, o, r, y, dt, external_ff), lo, hi)
  BY StepAccepted, RejectedGood DEF Accepted

(* pid_reset_state keeps the configuration and puts the output to rest. *)
LEMMA ResetStateFields ==
  ASSUME NEW p \in PidInstance
  PROVE  /\ ResetState(p) \in PidInstance
         /\ ResetState(p).cfg = p.cfg
         /\ ResetState(p).u_sat_prev = 0
         /\ ResetState(p).fault_code = {}
         /\ ResetState(p).is_initialised = p.is_initialised
<1>1. ResetState(p) \in PidInstance
  BY FiniteFacts, 0 \in Int, {} \in SUBSET Fault DEF ResetState, PidInstance
<1>2. ResetState(p).cfg = p.cfg /\ ResetState(p).is_initialised = p.is_initialised
  BY DEF ResetState, PidInstance
<1>3. ResetState(p).u_sat_prev = 0 /\ ResetState(p).fault_code = {}
  BY DEF ResetState, PidInstance
<1>4. QED
  BY <1>1, <1>2, <1>3

(* ron_pid_init with a configuration of this application. *)
LEMMA InitGood ==
  ASSUME NEW lo \in Int, NEW hi \in Int, lo <= 0, 0 <= hi,
         NEW p, NEW o, Sound(p, lo, hi), NEW cfg \in Config,
         ValidConfig(cfg) => lo <= cfg.u_min /\ cfg.u_max <= hi
  PROVE  Good(p, o, PidInit(p, o, cfg), lo, hi)
<1> DEFINE s == ResetState(p)
           q == [s EXCEPT !.cfg = cfg, !.status = {}, !.mode = "AUTOMATIC",
                          !.is_initialised = TRUE]
<1>1. CASE ValidConfig(cfg)
  <2>1. s \in PidInstance /\ s.u_sat_prev = 0 /\ s.fault_code = {}
    BY ResetStateFields DEF Sound
  <2>2. PidInit(p, o, cfg) = Done(q, o)
    BY <1>1 DEF PidInit
  <2>3. InForce(cfg, lo, hi)
    BY <1>1 DEF InForce
  <2> HIDE DEF s
  <2>4. q \in PidInstance
    BY <2>1, <2>3 DEF PidInstance, OpMode, Status
  <2>5. q.cfg = cfg /\ q.u_sat_prev = 0 /\ q.fault_code = {}
    BY <2>1 DEF PidInstance
  <2> HIDE DEF q
  <2>6. Sound(q, lo, hi)
    BY <2>3, <2>4, <2>5 DEF Sound
  <2>7. QED
    BY <2>2, <2>5, <2>6, DoneGood
<1>2. CASE ~ValidConfig(cfg)
  BY <1>2, RejectedGood DEF PidInit
<1>3. QED
  BY <1>1, <1>2

(* ron_pid_reset. *)
LEMMA ResetGood ==
  ASSUME NEW lo \in Int, NEW hi \in Int, lo <= 0, 0 <= hi,
         NEW p, NEW o, Sound(p, lo, hi)
  PROVE  Good(p, o, PidReset(p, o), lo, hi)
<1> DEFINE s == ResetState(p)
           q == [s EXCEPT !.status = ModeStatus(p.mode)]
<1>1. CASE p.is_initialised
  <2>1. /\ s \in PidInstance /\ s.cfg = p.cfg /\ s.u_sat_prev = 0 /\ s.fault_code = {}
        /\ s.is_initialised = p.is_initialised
    BY ResetStateFields DEF Sound
  <2>2. PidReset(p, o) = Done(q, o)
    BY <1>1 DEF PidReset
  <2> HIDE DEF s
  <2>3. q \in PidInstance
    BY <2>1 DEF PidInstance, Status, ModeStatus, Flag
  <2>4. /\ q.cfg = p.cfg /\ q.u_sat_prev = 0 /\ q.fault_code = {}
        /\ q.is_initialised = p.is_initialised
    BY <2>1 DEF PidInstance
  <2> HIDE DEF q
  <2>5. Sound(q, lo, hi)
    BY <2>3, <2>4 DEF Sound
  <2>6. QED
    BY <2>2, <2>4, <2>5, DoneGood
<1>2. CASE ~p.is_initialised
  BY <1>2, RejectedGood DEF PidReset
<1>3. QED
  BY <1>1, <1>2

(* ron_pid_set_config, and with it every setter, given a configuration     *)
(* whose limits, if it is accepted, lie within the actuator's range.       *)
LEMMA SetConfigGood ==
  ASSUME NEW lo \in Int, NEW hi \in Int, lo <= 0, 0 <= hi,
         NEW p, NEW o, Sound(p, lo, hi), NEW cfg \in Config,
         p.is_initialised /\ ValidConfig(cfg) => lo <= cfg.u_min /\ cfg.u_max <= hi
  PROVE  Good(p, o, PidSetConfig(p, o, cfg), lo, hi)
<1> DEFINE q == [p EXCEPT !.cfg = cfg]
<1>1. CASE p.is_initialised /\ ValidConfig(cfg)
  <2>1. q \in PidInstance
    BY DEF Sound, PidInstance
  <2>2. /\ q.cfg = cfg /\ q.u_sat_prev = p.u_sat_prev /\ q.fault_code = p.fault_code
        /\ q.is_initialised = p.is_initialised
    BY DEF Sound, PidInstance
  <2>3. PidSetConfig(p, o, cfg) = Done(q, o)
    BY <1>1 DEF PidSetConfig
  <2> HIDE DEF q
  <2>4. Sound(q, lo, hi)
    BY <1>1, <2>1, <2>2 DEF Sound, InForce
  <2>5. QED
    BY <2>2, <2>3, <2>4, DoneGood
<1>2. CASE ~(p.is_initialised /\ ValidConfig(cfg))
  BY <1>2, RejectedGood DEF PidSetConfig
<1>3. QED
  BY <1>1, <1>2

(* The setters that keep the output limits. *)
LEMMA SettersGood ==
  ASSUME NEW lo \in Int, NEW hi \in Int, lo <= 0, 0 <= hi,
         NEW p, NEW o, Sound(p, lo, hi)
  PROVE  /\ \A Kp, Ki, Kd \in Float : Good(p, o, PidSetGains(p, o, Kp, Ki, Kd), lo, hi)
         /\ \A N \in Float : Good(p, o, PidSetFilter(p, o, N), lo, hi)
         /\ \A aw_mode \in AwMode \union {IllegalEnum}, T_aw \in Float :
              Good(p, o, PidSetAntiwindup(p, o, aw_mode, T_aw), lo, hi)
<1>1. p.cfg \in Config /\ (p.is_initialised => lo <= p.cfg.u_min /\ p.cfg.u_max <= hi)
  BY DEF Sound, InForce, PidInstance
<1>2. ASSUME NEW cfg \in Config, cfg.u_min = p.cfg.u_min, cfg.u_max = p.cfg.u_max
      PROVE  Good(p, o, PidSetConfig(p, o, cfg), lo, hi)
  <2>1. p.is_initialised /\ ValidConfig(cfg) => lo <= cfg.u_min /\ cfg.u_max <= hi
    BY <1>1, <1>2
  <2>2. QED
    BY <2>1, SetConfigGood
<1>3. ASSUME NEW Kp \in Float, NEW Ki \in Float, NEW Kd \in Float
      PROVE  Good(p, o, PidSetGains(p, o, Kp, Ki, Kd), lo, hi)
  <2> DEFINE cfg == [p.cfg EXCEPT !.Kp = Kp, !.Ki = Ki, !.Kd = Kd]
  <2>1. cfg \in Config
    BY <1>1 DEF Config
  <2>2. cfg.u_min = p.cfg.u_min /\ cfg.u_max = p.cfg.u_max
    BY <1>1 DEF Config
  <2>3. PidSetGains(p, o, Kp, Ki, Kd) = PidSetConfig(p, o, cfg)
    BY DEF PidSetGains
  <2> HIDE DEF cfg
  <2>4. QED
    BY <1>2, <2>1, <2>2, <2>3
<1>4. ASSUME NEW N \in Float
      PROVE  Good(p, o, PidSetFilter(p, o, N), lo, hi)
  <2> DEFINE cfg == [p.cfg EXCEPT !.N = N]
  <2>1. cfg \in Config
    BY <1>1 DEF Config
  <2>2. cfg.u_min = p.cfg.u_min /\ cfg.u_max = p.cfg.u_max
    BY <1>1 DEF Config
  <2>3. PidSetFilter(p, o, N) = PidSetConfig(p, o, cfg)
    BY DEF PidSetFilter
  <2> HIDE DEF cfg
  <2>4. QED
    BY <1>2, <2>1, <2>2, <2>3
<1>5. ASSUME NEW aw_mode \in AwMode \union {IllegalEnum}, NEW T_aw \in Float
      PROVE  Good(p, o, PidSetAntiwindup(p, o, aw_mode, T_aw), lo, hi)
  <2> DEFINE cfg == [p.cfg EXCEPT !.aw_mode = aw_mode, !.T_aw = T_aw]
  <2>1. cfg \in Config
    BY <1>1 DEF Config
  <2>2. cfg.u_min = p.cfg.u_min /\ cfg.u_max = p.cfg.u_max
    BY <1>1 DEF Config
  <2>3. PidSetAntiwindup(p, o, aw_mode, T_aw) = PidSetConfig(p, o, cfg)
    BY DEF PidSetAntiwindup
  <2> HIDE DEF cfg
  <2>4. QED
    BY <1>2, <2>1, <2>2, <2>3
<1>6. QED
  BY <1>3, <1>4, <1>5

(* ron_pid_set_limits, with limits of the actuator. *)
LEMMA SetLimitsGood ==
  ASSUME NEW lo \in Int, NEW hi \in Int, lo <= 0, 0 <= hi,
         NEW p, NEW o, Sound(p, lo, hi), NEW u_min \in Float, NEW u_max \in Float,
         StrictRange(u_min, u_max) => lo <= u_min /\ u_max <= hi
  PROVE  Good(p, o, PidSetLimits(p, o, u_min, u_max), lo, hi)
<1> DEFINE cfg == [p.cfg EXCEPT !.u_min = u_min, !.u_max = u_max]
<1>1. p.cfg \in Config
  BY DEF Sound, PidInstance
<1>2. cfg \in Config
  BY <1>1 DEF Config
<1>3. cfg.u_min = u_min /\ cfg.u_max = u_max
  BY <1>1 DEF Config
<1>4. PidSetLimits(p, o, u_min, u_max) = PidSetConfig(p, o, cfg)
  BY DEF PidSetLimits
<1> HIDE DEF cfg
<1>5. ValidConfig(cfg) => lo <= cfg.u_min /\ cfg.u_max <= hi
  BY <1>3 DEF ValidConfig, ValidLimits
<1>6. QED
  BY <1>2, <1>4, <1>5, SetConfigGood
(* ron_pid_set_feedforward. *)
LEMMA SetFeedforwardGood ==
  ASSUME NEW lo \in Int, NEW hi \in Int, lo <= 0, 0 <= hi,
         NEW p, NEW o, Sound(p, lo, hi), NEW f \in Feedforward
  PROVE  Good(p, o, PidSetFeedforward(p, o, f), lo, hi)
<1> DEFINE c == [p.cfg EXCEPT !.feedforward = f]
           k == [p EXCEPT !.cfg = c]
           q == [k EXCEPT !.ff_r_prev = 0, !.ff_v_prev = 0, !.ff_a_prev = 0,
                          !.u_ff_prev = 0, !.status = @ \ {"FF_ACTIVE"}]
           r == [p EXCEPT !.cfg.feedforward = f, !.ff_r_prev = 0, !.ff_v_prev = 0,
                          !.ff_a_prev = 0, !.u_ff_prev = 0,
                          !.status = @ \ {"FF_ACTIVE"}]
<1>1. CASE p.is_initialised /\ ValidFeedforward(f)
  <2>1. p \in PidInstance /\ p.cfg \in Config /\ InForce(p.cfg, lo, hi)
    BY <1>1 DEF Sound, PidInstance
  <2>2. c \in Config
    BY <2>1 DEF Config
  <2>3. InForce(c, lo, hi)
    BY <1>1, <2>1 DEF Config, InForce, ValidConfig, ValidGains, ValidWeights, ValidLimits,
                      ValidEnums, ValidNormalisation, ValidThresholds
  <2>4. k.status = p.status
    BY <2>1 DEF PidInstance
  <2>5. r = q
    BY <2>4
  <2>6. PidSetFeedforward(p, o, f) = Done(r, o)
    BY <1>1 DEF PidSetFeedforward
  <2> HIDE DEF c, q, r
  <2>7. k \in PidInstance
    BY <2>1, <2>2 DEF PidInstance
  <2>8. /\ k.cfg = c /\ k.u_sat_prev = p.u_sat_prev /\ k.fault_code = p.fault_code
        /\ k.is_initialised = p.is_initialised
    <3>1. k.cfg = c
      BY <2>1 DEF PidInstance
    <3>2. k.u_sat_prev = p.u_sat_prev /\ k.fault_code = p.fault_code
      BY <2>1 DEF PidInstance
    <3>3. k.is_initialised = p.is_initialised
      BY <2>1 DEF PidInstance
    <3>4. QED
      BY <3>1, <3>2, <3>3
  <2> HIDE DEF k
  <2>9. q \in PidInstance
    <3>1. k.status \ {"FF_ACTIVE"} \in SUBSET Status
      BY <2>7 DEF PidInstance
    <3>2. QED
      BY <2>7, <3>1, FiniteFacts DEF PidInstance, q
  <2>10. /\ q.cfg = k.cfg /\ q.u_sat_prev = k.u_sat_prev /\ q.fault_code = k.fault_code
         /\ q.is_initialised = k.is_initialised
    BY <2>7 DEF PidInstance, q
  <2>11. Sound(q, lo, hi)
    BY <2>3, <2>8, <2>9, <2>10 DEF Sound
  <2>12. QED
    BY <2>5, <2>6, <2>8, <2>10, <2>11, DoneGood
<1>2. CASE ~(p.is_initialised /\ ValidFeedforward(f))
  BY <1>2, RejectedGood DEF PidSetFeedforward
<1>3. QED
  BY <1>1, <1>2

(* ron_pid_set_mode: the handoff value is a value of the actuator. *)
LEMMA SetModeGood ==
  ASSUME NEW lo \in Int, NEW hi \in Int, lo <= 0, 0 <= hi,
         NEW p, NEW o, Sound(p, lo, hi), NEW mode \in OpMode, NEW manual_out
  PROVE  Good(p, o, PidSetMode(p, o, mode, manual_out), lo, hi)
<1> DEFINE u == Clamp(manual_out, p.cfg.u_min, p.cfg.u_max)
           i == Clamp(u, p.cfg.I_min, p.cfg.I_max)
           h == Handoff(p, mode, u)
           q == [h EXCEPT !.mode = mode, !.status = ModeStatus(mode)]
<1>1. CASE p.is_initialised /\ IsFinite(manual_out)
  <2>1. /\ p \in PidInstance /\ p.cfg \in Config /\ ValidConfig(p.cfg)
        /\ lo <= p.cfg.u_min /\ p.cfg.u_max <= hi
    BY <1>1 DEF Sound, InForce, PidInstance
  <2>2. /\ p.cfg.u_min \in Int /\ p.cfg.u_max \in Int /\ p.cfg.u_min <= p.cfg.u_max
        /\ p.cfg.I_min \in Int /\ p.cfg.I_max \in Int
    BY <2>1, ValidConfigTypes
  <2>3. manual_out \in Int
    BY <1>1, FiniteIsInt
  <2>4. u \in p.cfg.u_min..p.cfg.u_max
    BY <2>2, <2>3, ClampInRange
  <2> HIDE DEF u
  <2>5. u \in Int /\ u \in lo..hi /\ u \in Finite
    BY <2>1, <2>2, <2>4, LimitsAreFinite, RangeIsFinite
  <2>6. i \in Finite
    <3>1. p.cfg.I_min <= p.cfg.I_max
      BY <2>1, ValidConfigTypes
    <3>2. i \in p.cfg.I_min..p.cfg.I_max
      BY <2>2, <2>5, <3>1, ClampInRange
    <3>3. QED
      BY <2>1, <3>2, LimitsAreFinite, RangeIsFinite
  <2> HIDE DEF i
  <2>7. h \in PidInstance
    BY <2>1, <2>5, <2>6 DEF PidInstance, Handoff, i
  <2>8. /\ h.cfg = p.cfg /\ h.u_sat_prev \in {p.u_sat_prev, u}
        /\ h.fault_code = p.fault_code /\ h.is_initialised = p.is_initialised
    BY <2>1 DEF PidInstance, Handoff
  <2> HIDE DEF h
  <2>9. q \in PidInstance
    BY <2>7 DEF PidInstance, ModeStatus, Flag, Status
  <2>10. /\ q.cfg = h.cfg /\ q.u_sat_prev = h.u_sat_prev /\ q.fault_code = h.fault_code
         /\ q.is_initialised = h.is_initialised
    BY <2>7 DEF PidInstance
  <2>11. PidSetMode(p, o, mode, manual_out) = Done(q, o)
    BY <1>1 DEF PidSetMode, q, h, u
  <2> HIDE DEF q
  <2>12. Sound(q, lo, hi)
    BY <2>5, <2>8, <2>9, <2>10 DEF Sound
  <2>13. QED
    BY <2>8, <2>10, <2>11, <2>12, DoneGood
<1>2. CASE ~(p.is_initialised /\ IsFinite(manual_out))
  BY <1>2, RejectedGood DEF PidSetMode
<1>3. QED
  BY <1>1, <1>2

(* ron_pid_set_integral. *)
LEMMA SetIntegralGood ==
  ASSUME NEW lo \in Int, NEW hi \in Int, lo <= 0, 0 <= hi,
         NEW p, NEW o, Sound(p, lo, hi), NEW value
  PROVE  Good(p, o, PidSetIntegral(p, o, value), lo, hi)
<1> DEFINE i == Clamp(value, p.cfg.I_min, p.cfg.I_max)
           q == [p EXCEPT !.integral = i]
<1>1. CASE p.is_initialised /\ IsFinite(value)
  <2>1. p \in PidInstance /\ p.cfg \in Config /\ ValidConfig(p.cfg)
    BY <1>1 DEF Sound, InForce, PidInstance
  <2>2. i \in Finite
    <3>1. value \in Int /\ p.cfg.I_min \in Int /\ p.cfg.I_max \in Int /\ p.cfg.I_min <= p.cfg.I_max
      BY <1>1, <2>1, ValidConfigTypes, FiniteIsInt
    <3>2. i \in p.cfg.I_min..p.cfg.I_max
      BY <3>1, ClampInRange
    <3>3. QED
      BY <2>1, <3>2, LimitsAreFinite, RangeIsFinite
  <2>3. PidSetIntegral(p, o, value) = Done(q, o)
    BY <1>1 DEF PidSetIntegral
  <2> HIDE DEF i
  <2>4. q \in PidInstance
    BY <2>1, <2>2 DEF PidInstance
  <2>5. /\ q.cfg = p.cfg /\ q.u_sat_prev = p.u_sat_prev /\ q.fault_code = p.fault_code
        /\ q.is_initialised = p.is_initialised
    BY <2>1 DEF PidInstance
  <2> HIDE DEF q
  <2>6. Sound(q, lo, hi)
    BY <2>4, <2>5 DEF Sound
  <2>7. QED
    BY <2>3, <2>5, <2>6, DoneGood
<1>2. CASE ~(p.is_initialised /\ IsFinite(value))
  BY <1>2, RejectedGood DEF PidSetIntegral
<1>3. QED
  BY <1>1, <1>2

(* ron_pid_fault_clear, on an instance in any state. *)
LEMMA FaultClearGood ==
  ASSUME NEW lo \in Int, NEW hi \in Int, lo <= 0, 0 <= hi,
         NEW p, NEW o, Sound(p, lo, hi)
  PROVE  Good(p, o, PidFaultClear(p, o), lo, hi)
<1> DEFINE q == [p EXCEPT !.fault_code = {}, !.status = @ \ {"FAULT"}]
<1>1. q \in PidInstance
  BY DEF Sound, PidInstance
<1>2. /\ q.cfg = p.cfg /\ q.u_sat_prev = p.u_sat_prev /\ q.fault_code = {}
      /\ q.is_initialised = p.is_initialised
  BY DEF Sound, PidInstance
<1>3. PidFaultClear(p, o) = Done(q, o)
  BY DEF PidFaultClear
<1> HIDE DEF q
<1>4. Sound(q, lo, hi)
  BY <1>1, <1>2 DEF Sound
<1>5. QED
  BY <1>2, <1>3, <1>4, DoneGood
-----------------------------------------------------------------------------
(***************************************************************************)
(* Bumpless transfer.                                                      *)
(***************************************************************************)

(* An instance that automatic operation takes over from manual operation   *)
(* at the output u: a plain PI law whose integral and history are at u.    *)
AtHandoff(p, u) ==
  /\ p.is_initialised /\ p.fault_code = {} /\ p.mode = "AUTOMATIC"
  /\ PlainPi(p.cfg)
  /\ p.integral = u /\ p.u_sat_prev = u /\ p.u_prev = u
  /\ u \in p.cfg.I_min..p.cfg.I_max /\ u \in p.cfg.u_min..p.cfg.u_max

(* At zero error its integral term is the handoff value: the area is zero, *)
(* and so is what back-calculation tracks.                                 *)
LEMMA IntegralAtHandoff ==
  ASSUME NEW lo \in Int, NEW hi \in Int, lo <= 0, 0 <= hi,
         NEW p, Sound(p, lo, hi), NEW u, AtHandoff(p, u), NEW dt \in Int, dt > 0
  PROVE  IntegralTerm(p, 0, dt) \in {u, NaN}
<1> DEFINE c == p.cfg
           k     == c.Ki * dt
           area  == k * 0
           gap   == IF c.aw_mode = "BACK_CALC" THEN p.u_sat_prev - p.u_prev ELSE 0
           track == IF c.aw_mode = "BACK_CALC" THEN Quot(dt * gap, c.T_aw) ELSE 0
           signs == ({Infinity(x) : x \in {0} \union {0, area, gap, track, area + track}}
                       \union {Sign(0) * Infinity(k)}) \ {0}
           i_new == p.integral + area + track
<1>1. c \in Config /\ ValidConfig(c) /\ c.integ_method = "EULER"
  BY DEF Sound, InForce, PidInstance, AtHandoff, PlainPi
<1>2. /\ c.Ki \in Int /\ c.I_min \in Int /\ c.I_max \in Int /\ c.I_min <= c.I_max
      /\ c.aw_mode = "BACK_CALC" => c.T_aw \in Int /\ c.T_aw > 0
  BY <1>1, ValidConfigTypes
<1>3. /\ u \in Int /\ c.I_min <= u /\ u <= c.I_max
      /\ p.integral = u /\ p.u_sat_prev = u /\ p.u_prev = u
  BY <1>2 DEF AtHandoff, c
<1>4. k \in Int
  BY <1>2, ProductIsInt
<1>5. area = 0 /\ gap = 0
  <2> HIDE DEF k, c
  <2>1. QED
    BY <1>3, <1>4
<1> HIDE DEF area, gap
<1>6. track = 0
  BY <1>2, <1>5 DEF Quot
<1> HIDE DEF track
<1>7. signs = {}
  <2>1. Infinity(0) = 0
    BY FiniteMember, FiniteFacts DEF Infinity
  <2>2. Infinity(k) \in {-1, 0, 1}
    BY DEF Infinity, Sign
  <2>3. Sign(0) * Infinity(k) = 0
    <3> HIDE DEF k
    <3>1. QED
      BY <2>2 DEF Sign
  <2>4. area + track = 0
    BY <1>5, <1>6
  <2>5. \A x \in {0} \union {0, area, gap, track, area + track} : x = 0
    BY <1>5, <1>6, <2>4
  <2>6. QED
    BY <2>1, <2>3, <2>5
<1>8. IntegralTerm(p, 0, dt) \in
        {Clamp(p.integral, c.I_min, c.I_max), NaN, Clamp(i_new, c.I_min, c.I_max)}
  <2>1. IntegralTerm(p, 0, dt) =
          LET errors == {0}
              nan == \/ {-1, 1} \subseteq signs
                     \/ k = 0 /\ ~AllFinite(errors \union {0})
                     \/ 0 = 0 /\ ~IsFinite(k)
          IN  IF Frozen(p, 0) THEN Clamp(p.integral, c.I_min, c.I_max)
              ELSE IF nan THEN NaN
              ELSE IF 1 \in signs THEN c.I_max
              ELSE IF -1 \in signs THEN c.I_min
              ELSE Clamp(i_new, c.I_min, c.I_max)
    BY <1>1 DEF IntegralTerm, area, gap, track
  <2> HIDE DEF signs, i_new, k
  <2>2. QED
    BY <1>7, <2>1
<1> HIDE DEF c
<1>9. i_new = u
  BY <1>3, <1>5, <1>6
<1> HIDE DEF i_new
<1>10. Clamp(u, c.I_min, c.I_max) = u
  BY <1>2, <1>3, ClampFixed
<1>11. QED
  BY <1>3, <1>8, <1>9, <1>10

(* A step at zero error that reports no fault outputs the handoff value    *)
(* again, unsaturated.                                                     *)
LEMMA StepAtHandoff ==
  ASSUME NEW lo \in Int, NEW hi \in Int, lo <= 0, 0 <= hi,
         NEW p, NEW o, Sound(p, lo, hi), NEW u, AtHandoff(p, u),
         NEW y, NEW dt, GoodDt(dt),
         PidStep(p, o, y, y, dt).ret = {}
  PROVE  /\ PidStep(p, o, y, y, dt).out.u = u
         /\ "SATURATED" \notin PidStep(p, o, y, y, dt).out.status
<1> DEFINE res == PidStep(p, o, y, y, dt)
           c == p.cfg
<1>1. /\ p \in PidInstance /\ c \in Config /\ ValidConfig(c) /\ PlainPi(c)
      /\ p.is_initialised /\ p.fault_code = {} /\ p.mode = "AUTOMATIC"
      /\ p.u_sat_prev = u
  BY DEF Sound, InForce, PidInstance, AtHandoff
<1>2. /\ c.Kp \in Int /\ c.c \in Int /\ c.du_max \in Int
      /\ c.u_min \in Int /\ c.u_max \in Int /\ c.u_min <= c.u_max
  BY <1>1, ValidConfigTypes
<1>3. u \in Int /\ c.u_min <= u /\ u <= c.u_max
  BY <1>2 DEF AtHandoff, c
<1>4. dt \in Int /\ dt > 0
  BY GoodDtIsInt
<1>5. c.feedforward.mode # "EXTERNAL"
  BY <1>1 DEF PlainPi
<1>6. res = CoreStep(p, o, y, y, dt, 0)
  BY <1>1, <1>5 DEF PidStep, c
<1>7. Accepted(p, o, res, dt, lo, hi)
  BY <1>1, <1>5, StepAccepted DEF c
<1>8. Commits(p, res, dt)
  BY <1>1, <1>7 DEF Accepted
<1>9. \A code \in Detected : FailStep(p, o, code).ret # {}
  <2>1. \A code \in Detected : FaultSet(p, code).fault_code = p.fault_code \union {code}
    BY FaultSetSound
  <2>2. QED
    BY <2>1 DEF FailStep, SafeStep
<1>10. y \in Int
  <2>1. "INPUT_NAN" \in Detected
    BY DEF Detected, Fault
  <2>2. IsFinite(y)
    BY <1>6, <1>9, <2>1 DEF CoreStep
  <2>3. QED
    BY <2>2, FiniteIsInt
<1>11. res = AutomaticStep(p, o, y, y, dt, 0)
  <2>1. "INPUT_NAN" \in Detected
    BY DEF Detected, Fault
  <2>2. QED
    BY <1>1, <1>6, <1>9, <2>1 DEF CoreStep
<1>12. res.pid.u_prev = u
  <2> DEFINE e_d    == c.c * y - y
             d_term == Derivative(p, y, e_d, dt)
             i_term == IntegralTerm(p, 0, dt)
             ff     == FeedforwardUpdate(p, y, dt, 0)
             u_raw  == c.Kp * 0 + i_term + d_term + ff.u_ff
  <2>1. /\ Normalise(c, y) = y /\ SpFilter(p, y, dt) = y /\ SetpointReset(p, y) = p
        /\ \A x : Denormalise(c, x) = x
    BY <1>1 DEF PlainPi, Normalise, SpFilter, SetpointReset, Denormalise
  <2>2. y - y = 0 /\ c.b * y - y = 0
    BY <1>1, <1>10 DEF PlainPi
  <2>3. e_d \in Int
    BY <1>2, <1>10, ProductIsInt
  <2>4. d_term = 0
    <3> HIDE DEF e_d
    <3>1. c.Kd = 0 /\ c.N = 0
      BY <1>1 DEF PlainPi
    <3>2. Delta(p, y, e_d) \in Int
      BY <1>1, <1>10, <2>3 DEF Delta, PidInstance, Finite
    <3>3. QED
      BY <1>4, <3>1, <3>2 DEF Derivative, Quot
  <2>5. i_term \in {u, NaN}
    BY <1>4, IntegralAtHandoff
  <2>6. ff.u_ff = 0
    BY <1>1 DEF FeedforwardUpdate, PlainPi
  <2> HIDE DEF d_term, i_term, ff, e_d
  <2>7. IsFinite(i_term) => u_raw = u
    <3>1. IsFinite(i_term) => i_term = u
      BY <2>5, FiniteMember, FiniteFacts
    <3>2. QED
      BY <1>2, <1>3, <2>4, <2>6, <3>1
  <2>8. IsFinite(i_term) /\ res.pid.u_prev = Denormalise(c, u_raw)
    <3>1. "OUTPUT_NAN" \in Detected /\ "INTEGRAL_OVERFLOW" \in Detected
      BY DEF Detected, Fault
    <3> DEFINE x == Terms(p, y, y, y, dt, 0)
    <3>2. res = LimitAndStore(p, o, x, dt)
      BY <1>11, <2>1 DEF AutomaticStep, c
    <3>3. /\ x.p_term = c.Kp * 0 /\ x.i_term = i_term
          /\ x.d_term = d_term /\ x.ff = ff
      BY <2>2 DEF Terms, i_term, d_term, ff, e_d, c
    <3> HIDE DEF x
    <3>4. /\ IsFinite(x.i_term)
          /\ res.pid.u_prev
               = Denormalise(p.cfg, x.p_term + x.i_term + x.d_term + x.ff.u_ff)
      BY <1>1, <1>9, <3>1, <3>2 DEF LimitAndStore, AllFinite, Done, PidInstance
    <3>5. QED
      BY <3>3, <3>4 DEF c
  <2>9. QED
    BY <2>1, <2>7, <2>8
<1> HIDE DEF res, c
<1>13. Clamp(u, c.u_min, c.u_max) = u
  BY <1>2, <1>3, ClampFixed
<1>14. RateLimit(u, u, c.du_max, dt) = u
  <2>1. c.du_max > 0 => c.du_max * dt > 0
    BY <1>2, <1>4, PositiveProduct
  <2>2. QED
    BY <1>2, <1>3, <1>4, <2>1 DEF RateLimit, RateLimited, Abs
<1>15. QED
  BY <1>1, <1>8, <1>12, <1>13, <1>14 DEF Commits, res, c

(* ron_pid_set_mode hands over to automatic operation at the manual output.*)
LEMMA TransferAtHandoff ==
  ASSUME NEW lo \in Int, NEW hi \in Int, lo <= 0, 0 <= hi,
         NEW p, NEW o, Sound(p, lo, hi), p.is_initialised, p.mode = "MANUAL",
         p.fault_code = {}, PlainPi(p.cfg),
         p.u_sat_prev \in p.cfg.I_min..p.cfg.I_max,
         p.u_sat_prev \in p.cfg.u_min..p.cfg.u_max
  PROVE  LET h == PidSetMode(p, o, "AUTOMATIC", p.u_sat_prev)
         IN  Sound(h.pid, lo, hi) /\ AtHandoff(h.pid, p.u_sat_prev) /\ h.pid.cfg = p.cfg
<1> DEFINE u == p.u_sat_prev
           h == PidSetMode(p, o, "AUTOMATIC", u)
           c == p.cfg
           q == [p EXCEPT !.integral = Clamp(u, c.I_min, c.I_max),
                          !.u_sat_prev = u, !.u_prev = u]
           t == [q EXCEPT !.mode = "AUTOMATIC", !.status = ModeStatus("AUTOMATIC")]
<1>1. p \in PidInstance /\ c \in Config /\ ValidConfig(c)
  BY DEF Sound, InForce, PidInstance
<1>2. /\ c.u_min \in Int /\ c.u_max \in Int /\ c.u_min <= c.u_max
      /\ c.I_min \in Int /\ c.I_max \in Int /\ c.I_min <= c.I_max
  BY <1>1, ValidConfigTypes
<1>3. /\ u \in Int /\ c.u_min <= u /\ u <= c.u_max /\ c.I_min <= u /\ u <= c.I_max
  BY <1>2
<1>4. IsFinite(u)
  <2>1. c.u_min \in -FloatMax..FloatMax /\ c.u_max \in -FloatMax..FloatMax
    BY <1>1 DEF ValidConfig, ValidLimits, StrictRange, IsFinite
  <2>2. QED
    BY <1>3, <2>1, RonUtilAssumption DEF IsFinite
<1>5. Clamp(u, c.u_min, c.u_max) = u /\ Clamp(u, c.I_min, c.I_max) = u
  BY <1>2, <1>3, ClampFixed
<1>6. h = Done(t, o)
  BY <1>4, <1>5 DEF PidSetMode, Handoff
<1>7. Sound(h.pid, lo, hi)
  <2>1. "AUTOMATIC" \in OpMode
    BY DEF OpMode
  <2>2. QED
    BY <2>1, SetModeGood DEF Good
<1> HIDE DEF u, c
<1>8. q \in PidInstance /\ q.cfg = c /\ q.is_initialised /\ q.fault_code = {}
  <2>1. p.u_sat_prev \in Finite
    BY <1>1 DEF PidInstance
  <2>2. QED
    BY <1>1, <1>5, <2>1 DEF PidInstance, c, u
<1>9. q.integral = u /\ q.u_sat_prev = u /\ q.u_prev = u
  BY <1>1, <1>5 DEF PidInstance
<1> HIDE DEF q
<1>10. t.cfg = c /\ t.is_initialised /\ t.fault_code = {} /\ t.mode = "AUTOMATIC"
  BY <1>8 DEF PidInstance
<1>11. t.integral = u /\ t.u_sat_prev = u /\ t.u_prev = u
  BY <1>8, <1>9 DEF PidInstance
<1> HIDE DEF t
<1>12. h.pid = t
  BY <1>6 DEF Done
<1> HIDE DEF h
<1>13. QED
  BY <1>7, <1>10, <1>11, <1>12 DEF AtHandoff, h, u, c
-----------------------------------------------------------------------------
(***************************************************************************)
(* What the owner of an instance relies on between two calls.              *)
(***************************************************************************)

(* The integral lies within its limits, or is the 0 that init, reset and a *)
(* setpoint reset assign; and manual operation reports no saturation.      *)
Settled(p) ==
  /\ p.integral = 0 \/ p.integral \in p.cfg.I_min..p.cfg.I_max
  /\ p.mode = "MANUAL" => "SATURATED" \notin p.status

(* A call on a settled instance that leaves its feed-forward alone.        *)
StaysSettled(p, q) ==
  /\ Settled(q)
  /\ q.cfg.feedforward = p.cfg.feedforward
  /\ q.is_initialised = p.is_initialised

(* A refused call and an accepted step.                                    *)
LEMMA StepSettles ==
  ASSUME NEW p, NEW o, NEW res, NEW dt, NEW lo, NEW hi, Settled(p),
         res = Rejected(p, o) \/ Accepted(p, o, res, dt, lo, hi)
  PROVE  StaysSettled(p, res.pid)
<1>1. CASE res = Rejected(p, o)
  BY <1>1 DEF Rejected, StaysSettled
<1>2. CASE Accepted(p, o, res, dt, lo, hi)
  <2>1. Continues(p, res.pid)
    BY <1>2 DEF Accepted
  <2>2. QED
    BY <2>1 DEF Continues, Settled, StaysSettled
<1>3. QED
  BY <1>1, <1>2

(* ron_pid_init gives a settled instance with the new configuration.       *)
LEMMA InitSettles ==
  ASSUME NEW p \in PidInstance, NEW o, NEW cfg, Settled(p)
  PROVE  LET res == PidInit(p, o, cfg)
         IN  /\ Settled(res.pid)
             /\ \/ res = Rejected(p, o)
                \/ /\ res.pid.cfg = cfg /\ res.pid.is_initialised
                   /\ res.pid.fault_code = {} /\ res.ret = {}
<1> DEFINE s == ResetState(p)
           q == [s EXCEPT !.cfg = cfg, !.status = {}, !.mode = "AUTOMATIC",
                          !.is_initialised = TRUE]
<1>1. PidInit(p, o, cfg) \in {Rejected(p, o), Done(q, o)}
  BY DEF PidInit
<1>2. s \in PidInstance /\ s.fault_code = {}
  BY ResetStateFields
<1>3. s.integral = 0
  BY DEF ResetState, PidInstance
<1> HIDE DEF s
<1>4. q.cfg = cfg /\ q.is_initialised /\ q.fault_code = {} /\ q.integral = 0
  BY <1>2, <1>3 DEF PidInstance
<1>5. q.mode = "AUTOMATIC"
  BY <1>2 DEF PidInstance
<1> HIDE DEF q
<1>6. QED
  BY <1>1, <1>4, <1>5 DEF Rejected, Done, Settled

(* The other functions.                                                    *)
LEMMA CallsSettle ==
  ASSUME NEW lo \in Int, NEW hi \in Int, lo <= 0, 0 <= hi,
         NEW p, NEW o, Sound(p, lo, hi), Settled(p)
  PROVE  /\ StaysSettled(p, PidReset(p, o).pid)
         /\ \A mode, u : StaysSettled(p, PidSetMode(p, o, mode, u).pid)
         /\ \A value : StaysSettled(p, PidSetIntegral(p, o, value).pid)
         /\ \A u_min, u_max : StaysSettled(p, PidSetLimits(p, o, u_min, u_max).pid)
         /\ StaysSettled(p, PidFaultClear(p, o).pid)
<1>1. p \in PidInstance /\ p.cfg \in Config /\ (p.is_initialised => ValidConfig(p.cfg))
  BY DEF Sound, InForce, PidInstance
<1>2. StaysSettled(p, Rejected(p, o).pid)
  BY DEF Rejected, StaysSettled
<1>3. StaysSettled(p, PidReset(p, o).pid)
  <2> DEFINE s == ResetState(p)
             q == [s EXCEPT !.status = ModeStatus(p.mode)]
  <2>1. s \in PidInstance /\ s.cfg = p.cfg /\ s.is_initialised = p.is_initialised
    BY <1>1, ResetStateFields
  <2>2. s.integral = 0
    BY <1>1 DEF ResetState, PidInstance
  <2>3. PidReset(p, o) \in {Rejected(p, o), Done(q, o)}
    BY DEF PidReset
  <2> HIDE DEF s
  <2>4. q.integral = 0 /\ q.cfg = p.cfg /\ q.is_initialised = p.is_initialised
    BY <2>1, <2>2 DEF PidInstance
  <2>5. "SATURATED" \notin q.status
    BY <2>1 DEF PidInstance, ModeStatus, Flag
  <2> HIDE DEF q
  <2>6. QED
    BY <1>2, <2>3, <2>4, <2>5 DEF Done, Settled, StaysSettled
<1>4. ASSUME NEW mode, NEW u PROVE StaysSettled(p, PidSetMode(p, o, mode, u).pid)
  <2> DEFINE v == Clamp(u, p.cfg.u_min, p.cfg.u_max)
             i == Clamp(v, p.cfg.I_min, p.cfg.I_max)
             h == Handoff(p, mode, v)
             q == [h EXCEPT !.mode = mode, !.status = ModeStatus(mode)]
  <2>1. CASE p.is_initialised /\ IsFinite(u)
    <3>1. /\ p.cfg.u_min \in Int /\ p.cfg.u_max \in Int /\ u \in Int
          /\ p.cfg.I_min \in Int /\ p.cfg.I_max \in Int /\ p.cfg.I_min <= p.cfg.I_max
      BY <1>1, <2>1, ValidConfigTypes, FiniteIsInt
    <3>2. v \in Int /\ v \in Finite
      <4>1. p.cfg.u_min <= p.cfg.u_max
        BY <1>1, <2>1, ValidConfigTypes
      <4>2. v \in p.cfg.u_min..p.cfg.u_max
        BY <3>1, <4>1, ClampInRange
      <4>3. QED
        BY <1>1, <2>1, <3>1, <4>2, LimitsAreFinite, RangeIsFinite
    <3> HIDE DEF v
    <3>3. i \in p.cfg.I_min..p.cfg.I_max
      BY <3>1, <3>2, ClampInRange
    <3>4. i \in Finite
      BY <1>1, <2>1, <3>3, LimitsAreFinite, RangeIsFinite
    <3> HIDE DEF i
    <3>5. h \in PidInstance
      BY <1>1, <3>2, <3>4 DEF PidInstance, Handoff, i
    <3>6. h.cfg = p.cfg /\ h.is_initialised = p.is_initialised /\ h.integral \in {p.integral, i}
      BY <1>1 DEF PidInstance, Handoff, i
    <3>7. PidSetMode(p, o, mode, u) = Done(q, o)
      BY <2>1 DEF PidSetMode, v
    <3> HIDE DEF h
    <3>8. q.cfg = h.cfg /\ q.is_initialised = h.is_initialised /\ q.integral = h.integral
      BY <3>5 DEF PidInstance
    <3>9. "SATURATED" \notin q.status
      BY <3>5 DEF PidInstance, ModeStatus, Flag
    <3> HIDE DEF q
    <3>10. QED
      BY <3>3, <3>6, <3>7, <3>8, <3>9 DEF Done, Settled, StaysSettled
  <2>2. CASE ~(p.is_initialised /\ IsFinite(u))
    BY <1>2, <2>2 DEF PidSetMode
  <2>3. QED
    BY <2>1, <2>2
<1>5. ASSUME NEW value PROVE StaysSettled(p, PidSetIntegral(p, o, value).pid)
  <2> DEFINE i == Clamp(value, p.cfg.I_min, p.cfg.I_max)
             q == [p EXCEPT !.integral = i]
  <2>1. CASE p.is_initialised /\ IsFinite(value)
    <3>1. /\ p.cfg.I_min \in Int /\ p.cfg.I_max \in Int /\ p.cfg.I_min <= p.cfg.I_max
          /\ value \in Int
      BY <1>1, <2>1, ValidConfigTypes, FiniteIsInt
    <3>2. i \in p.cfg.I_min..p.cfg.I_max
      BY <3>1, ClampInRange
    <3>3. PidSetIntegral(p, o, value) = Done(q, o)
      BY <2>1 DEF PidSetIntegral
    <3> HIDE DEF i
    <3>4. /\ q.cfg = p.cfg /\ q.is_initialised = p.is_initialised /\ q.integral = i
          /\ q.mode = p.mode /\ q.status = p.status
      BY <1>1 DEF PidInstance
    <3> HIDE DEF q
    <3>5. QED
      BY <3>2, <3>3, <3>4 DEF Done, Settled, StaysSettled
  <2>2. CASE ~(p.is_initialised /\ IsFinite(value))
    BY <1>2, <2>2 DEF PidSetIntegral
  <2>3. QED
    BY <2>1, <2>2
<1>6. ASSUME NEW u_min, NEW u_max PROVE StaysSettled(p, PidSetLimits(p, o, u_min, u_max).pid)
  <2> DEFINE c == [p.cfg EXCEPT !.u_min = u_min, !.u_max = u_max]
             q == [p EXCEPT !.cfg = c]
  <2>1. PidSetLimits(p, o, u_min, u_max) \in {Rejected(p, o), Done(q, o)}
    BY DEF PidSetLimits, PidSetConfig
  <2>2. c.feedforward = p.cfg.feedforward /\ c.I_min = p.cfg.I_min /\ c.I_max = p.cfg.I_max
    BY <1>1 DEF Config
  <2> HIDE DEF c
  <2>3. /\ q.cfg = c /\ q.is_initialised = p.is_initialised /\ q.integral = p.integral
        /\ q.mode = p.mode /\ q.status = p.status
    BY <1>1 DEF PidInstance
  <2> HIDE DEF q
  <2>4. QED
    BY <1>2, <2>1, <2>2, <2>3 DEF Done, Settled, StaysSettled
<1>7. StaysSettled(p, PidFaultClear(p, o).pid)
  <2> DEFINE q == [p EXCEPT !.fault_code = {}, !.status = @ \ {"FAULT"}]
  <2>1. /\ q.cfg = p.cfg /\ q.is_initialised = p.is_initialised /\ q.integral = p.integral
        /\ q.mode = p.mode /\ q.status = p.status \ {"FAULT"}
    BY <1>1 DEF PidInstance
  <2>2. PidFaultClear(p, o) = Done(q, o)
    BY DEF PidFaultClear
  <2> HIDE DEF q
  <2>3. QED
    BY <2>1, <2>2 DEF Done, Settled, StaysSettled
<1>8. QED
  BY <1>3, <1>4, <1>5, <1>6, <1>7
=============================================================================
