----------------------------- MODULE ClmmProofs -----------------------------
(***************************************************************************)
(* Theorems about one concentrated pool, for any tier, any table of tick   *)
(* prices, any positions and any swaps.                                    *)
(***************************************************************************)
EXTENDS Clmm, SumTheorems

-----------------------------------------------------------------------------
(* Arithmetic.                                                             *)

LEMMA Parameters ==
  /\ Q64 \in Nat /\ Q64 > 0 /\ FeeDenom \in Nat /\ FeePips \in Nat /\ FeePips < FeeDenom
  /\ FeeDenom - FeePips \in Nat
  /\ GrowthMod \in Nat /\ GrowthMod > 0
  /\ TickSpacing \in Nat /\ TickSpacing > 0 /\ TickArraySize \in Nat /\ TickArraySize > 0
  /\ MaxCrossings \in Nat /\ U64Max \in Nat /\ MaxChanges \in Nat /\ MaxSwaps \in Nat
  /\ IsFiniteSet(Positions)
BY ClmmMathAssumption, ClmmAssumption

LEMMA QuotientFacts ==
  ASSUME NEW x \in Int, NEW y \in Nat, y > 0
  PROVE  /\ x \div y \in Int
         /\ y * (x \div y) <= x
         /\ x < y * (x \div y) + y
         /\ x >= 0 => x \div y \in Nat
  BY Z3

LEMMA ProductFacts ==
  ASSUME NEW x \in Nat, NEW y \in Nat
  PROVE  /\ x * y \in Nat
         /\ x > 0 /\ y > 0 => x * y > 0
  BY Z3

LEMMA Ordered ==
  ASSUME NEW a \in Int, NEW b \in Int, NEW c \in Nat
  PROVE  /\ a <= b => c * a <= c * b
         /\ c > 0 /\ c * a <= c * b => a <= b
         /\ c > 0 /\ c * a < c * b => a < b
  BY Z3

LEMMA CeilingFacts ==
  ASSUME NEW x \in Nat, NEW y \in Nat, y > 0
  PROVE  /\ CeilDiv(x, y) \in Nat
         /\ x <= y * CeilDiv(x, y)
         /\ y * CeilDiv(x, y) < x + y
<1>1. x + y - 1 \in Int /\ x + y - 1 >= 0
  OBVIOUS
<1>2. /\ CeilDiv(x, y) \in Nat
      /\ y * CeilDiv(x, y) <= x + y - 1
      /\ x + y - 1 < y * CeilDiv(x, y) + y
  BY <1>1, QuotientFacts DEF CeilDiv
<1>3. y * CeilDiv(x, y) \in Nat
  BY <1>2, ProductFacts
<1> QED BY <1>2, <1>3

\* A ceiling is the least number that is large enough.
LEMMA CeilingLeast ==
  ASSUME NEW x \in Nat, NEW y \in Nat, y > 0, NEW z \in Nat
  PROVE  /\ x <= y * z => CeilDiv(x, y) <= z
         /\ z < CeilDiv(x, y) => y * z < x
<1> DEFINE c == CeilDiv(x, y)
<1>1. c \in Nat /\ y * c < x + y
  BY CeilingFacts
<1> HIDE DEF c
<1>2. ASSUME z < c PROVE y * z < x
  <2>1. z + 1 <= c
    BY <1>1, <1>2
  <2>2. y * (z + 1) <= y * c
    BY <1>1, <2>1, Ordered
  <2>3. y * (z + 1) = y * z + y /\ y * z \in Nat /\ y * c \in Nat
    BY <1>1, ProductFacts
  <2> QED BY <1>1, <2>2, <2>3
<1>3. y * z \in Nat
  BY ProductFacts
<1> QED BY <1>1, <1>2, <1>3 DEF c

\* x % y, with y the modulus of the growth.
LEMMA WrappedTyped ==
  ASSUME NEW x \in Int
  PROVE  Wrapped(x) \in 0 .. GrowthMod - 1
<1>1. GrowthMod \in Nat /\ GrowthMod > 0
  BY ClmmMathAssumption
<1>2. \A m \in Nat : m > 0 => x % m \in 0 .. m - 1
  BY Z3
<1> QED BY <1>1, <1>2 DEF Wrapped

-----------------------------------------------------------------------------
(* The extremes of a finite set of integers.                               *)

LEMMA ExtremesExist ==
  ASSUME NEW S, IsFiniteSet(S)
  PROVE  S \subseteq Int /\ S # {} =>
           /\ \E x \in S : \A y \in S : x >= y
           /\ \E x \in S : \A y \in S : x <= y
<1> DEFINE Has(s) == /\ \E x \in s : \A y \in s : x >= y
                     /\ \E x \in s : \A y \in s : x <= y
           Bad == { s \in SUBSET S : s # {} /\ ~ Has(s) }
<1>0. Bad # {} => \E T \in Bad : \A u \in Bad : u \subseteq T => u = T
  <2> HIDE DEF Has
  <2>1. Bad \in SUBSET SUBSET S OBVIOUS
  <2> HIDE DEF Bad
  <2> QED BY <2>1, MinimalSubset
<1> SUFFICES ASSUME S \subseteq Int, S # {}, Bad # {} PROVE FALSE
  OBVIOUS
<1>1. PICK T \in Bad : \A u \in Bad : u \subseteq T => u = T
  BY <1>0
<1>2. T \in SUBSET S /\ T # {} /\ ~ Has(T)
  OBVIOUS
<1>3. PICK e \in T : TRUE
  BY <1>2
<1> DEFINE U == T \ {e}
<1>4. CASE U = {}
  <2>1. T = {e} /\ e \in Int
    BY <1>2, <1>4
  <2> QED BY <1>2, <2>1
<1>5. CASE U # {}
  <2>1. U \in SUBSET S /\ U \subseteq T /\ U # T
    BY <1>2, <1>3
  <2>2. Has(U)
    BY <1>1, <1>5, <2>1
  <2>3. PICK h \in U : \A y \in U : h >= y
    BY <2>2
  <2>4. PICK l \in U : \A y \in U : l <= y
    BY <2>2
  <2>5. h \in Int /\ l \in Int /\ e \in Int /\ \A y \in T : y \in Int /\ (y = e \/ y \in U)
    BY <1>2, <2>1
  <2>6. \E x \in T : \A y \in T : x >= y
    <3>1. CASE h >= e BY <3>1, <2>3, <2>5
    <3>2. CASE e > h BY <3>2, <2>3, <2>5
    <3> QED BY <3>1, <3>2, <2>5
  <2>7. \E x \in T : \A y \in T : x <= y
    <3>1. CASE l <= e BY <3>1, <2>4, <2>5
    <3>2. CASE e < l BY <3>2, <2>4, <2>5
    <3> QED BY <3>1, <3>2, <2>5
  <2> QED BY <1>2, <2>6, <2>7
<1> QED BY <1>4, <1>5

LEMMA ExtremeFacts ==
  ASSUME NEW S, S \subseteq Int, IsFiniteSet(S), S # {}
  PROVE  /\ Max(S) \in S /\ \A y \in S : y <= Max(S)
         /\ Min(S) \in S /\ \A y \in S : Min(S) <= y
<1>1. Max(S) \in S /\ \A y \in S : Max(S) >= y
  BY ExtremesExist DEF Max
<1>2. Min(S) \in S /\ \A y \in S : Min(S) <= y
  BY ExtremesExist DEF Min
<1> QED BY <1>1, <1>2

-----------------------------------------------------------------------------
(* Tick prices.                                                            *)

LEMMA PriceRange ==
  /\ MinTick \in Int /\ MaxTick \in Int /\ MinTick < 0 /\ MaxTick > 0
  /\ \A t \in MinTick .. MaxTick : SqrtPrice[t] \in Nat /\ SqrtPrice[t] > 0
<1>1. SqrtPrice \in [MinTick .. MaxTick -> Nat \ {0}]
  BY ClmmMathAssumption
<1> HIDE DEF SqrtPrice
<1>2. \A t \in MinTick .. MaxTick : SqrtPrice[t] \in Nat \ {0}
  BY <1>1
<1> QED BY <1>2, ClmmMathAssumption

\* Prices grow with the tick.
LEMMA PriceGrows ==
  ASSUME NEW a \in MinTick .. MaxTick, NEW b \in MinTick .. MaxTick, a < b
  PROVE  SqrtPrice[a] < SqrtPrice[b]
<1> DEFINE Bad == { t \in a + 1 .. MaxTick : ~ (SqrtPrice[a] < SqrtPrice[t]) }
<1>1. /\ MinTick \in Int /\ MaxTick \in Int /\ a \in Int /\ b \in Int
      /\ \A t \in MinTick .. MaxTick : SqrtPrice[t] \in Nat
  BY PriceRange
<1>2. \A t \in MinTick .. MaxTick - 1 : SqrtPrice[t] < SqrtPrice[t + 1]
  BY ClmmMathAssumption
<1> HIDE DEF SqrtPrice
<1> SUFFICES ASSUME Bad # {} PROVE FALSE
  BY <1>1
<1>3. IsFiniteSet(a + 1 .. MaxTick) /\ a + 1 .. MaxTick \subseteq Int
  BY <1>1, FS_Interval
<1>4. Bad \subseteq Int /\ IsFiniteSet(Bad)
  BY <1>3, FS_Subset
<1>5. PICK m \in Bad : \A t \in Bad : m <= t
  BY <1>4, ExtremesExist
<1>6. m \in a + 1 .. MaxTick /\ m \in MinTick .. MaxTick /\ m - 1 \in MinTick .. MaxTick - 1
  BY <1>1, <1>5
<1>7. SqrtPrice[m - 1] < SqrtPrice[m]
  <2>1. (m - 1) + 1 = m BY <1>1, <1>6
  <2> QED BY <1>2, <1>6, <2>1
<1>8. CASE m - 1 = a
  BY <1>5, <1>7, <1>8
<1>9. CASE m - 1 # a
  <2>1. m - 1 \in a + 1 .. MaxTick /\ ~ (m <= m - 1)
    BY <1>1, <1>6, <1>9
  <2>2. SqrtPrice[a] < SqrtPrice[m - 1]
    BY <1>5, <2>1
  <2>3. SqrtPrice[a] \in Nat /\ SqrtPrice[m - 1] \in Nat /\ SqrtPrice[m] \in Nat
    BY <1>1, <1>6
  <2> QED BY <1>5, <1>7, <2>2, <2>3
<1> QED BY <1>8, <1>9

LEMMA PriceOrder ==
  ASSUME NEW a \in MinTick .. MaxTick, NEW b \in MinTick .. MaxTick
  PROVE  /\ a <= b => SqrtPrice[a] <= SqrtPrice[b]
         /\ SqrtPrice[a] <= SqrtPrice[b] => a <= b
         /\ SqrtPrice[a] = SqrtPrice[b] => a = b
<1>1. /\ MinTick \in Int /\ MaxTick \in Int
      /\ SqrtPrice[a] \in Nat /\ SqrtPrice[b] \in Nat
  BY PriceRange
<1>2. a < b => SqrtPrice[a] < SqrtPrice[b]
  BY PriceGrows
<1>3. b < a => SqrtPrice[b] < SqrtPrice[a]
  BY PriceGrows
<1> HIDE DEF SqrtPrice
<1> QED BY <1>1, <1>2, <1>3

LEMMA PricesTyped ==
  /\ MinSqrtPrice \in Nat /\ MinSqrtPrice > 0 /\ MaxSqrtPrice \in Nat
  /\ \A p \in Prices : p \in Nat /\ p > 0 /\ MinSqrtPrice <= p /\ p <= MaxSqrtPrice
  /\ \A t \in MinTick .. MaxTick : SqrtPrice[t] \in Prices
<1>1. MinTick \in MinTick .. MaxTick /\ MaxTick \in MinTick .. MaxTick
  BY PriceRange
<1>2. /\ MinSqrtPrice \in Nat /\ MinSqrtPrice > 0 /\ MaxSqrtPrice \in Nat
  BY <1>1, PriceRange DEF MinSqrtPrice, MaxSqrtPrice
<1>3. \A p \in Prices : p \in Nat /\ p > 0 /\ MinSqrtPrice <= p /\ p <= MaxSqrtPrice
  BY <1>2 DEF Prices
<1>4. ASSUME NEW t \in MinTick .. MaxTick PROVE SqrtPrice[t] \in Prices
  <2>1. /\ MinTick <= t /\ t <= MaxTick
    BY <1>1, PriceRange
  <2>2. SqrtPrice[MinTick] <= SqrtPrice[t] /\ SqrtPrice[t] <= SqrtPrice[MaxTick]
    BY <1>1, <2>1, PriceOrder
  <2>3. SqrtPrice[t] \in Nat
    BY PriceRange
  <2> HIDE DEF SqrtPrice
  <2> QED BY <1>2, <2>2, <2>3 DEF Prices, MinSqrtPrice, MaxSqrtPrice
<1> QED BY <1>2, <1>3, <1>4

\* A tick is at most the tick of a price just when its price is at most it.
LEMMA TickOfPrice ==
  ASSUME NEW price \in Prices
  PROVE  /\ TickAtSqrtPrice(price) \in MinTick .. MaxTick
         /\ \A t \in MinTick .. MaxTick : t <= TickAtSqrtPrice(price) <=> SqrtPrice[t] <= price
<1> DEFINE Below == { t \in MinTick .. MaxTick : SqrtPrice[t] <= price }
           Fits(t) == /\ SqrtPrice[t] <= price
                      /\ t < MaxTick => price < SqrtPrice[t + 1]
           u == TickAtSqrtPrice(price)
<1>1. /\ MinTick \in Int /\ MaxTick \in Int /\ MinTick < 0 /\ MaxTick > 0
      /\ \A t \in MinTick .. MaxTick : SqrtPrice[t] \in Nat
      /\ SqrtPrice[MinTick] <= price /\ price \in Nat
  BY PriceRange, PricesTyped DEF MinSqrtPrice
<1>2. u = CHOOSE t \in MinTick .. MaxTick : Fits(t)
  BY DEF TickAtSqrtPrice
<1> HIDE DEF SqrtPrice, u
<1>3. \E t \in MinTick .. MaxTick : Fits(t)
  <2>1. Below \subseteq Int /\ IsFiniteSet(Below) /\ MinTick \in Below
    <3>1. MinTick .. MaxTick \subseteq Int /\ IsFiniteSet(MinTick .. MaxTick)
      BY <1>1, FS_Interval
    <3>2. Below \in SUBSET (MinTick .. MaxTick) /\ MinTick \in Below
      BY <1>1
    <3>3. IsFiniteSet(Below)
      BY <3>1, <3>2, FS_Subset
    <3> QED BY <3>1, <3>2, <3>3
  <2>2. PICK t \in Below : \A x \in Below : t >= x
    BY <2>1, ExtremesExist
  <2>3. ASSUME t < MaxTick PROVE price < SqrtPrice[t + 1]
    <3>1. t + 1 \in MinTick .. MaxTick /\ ~ (t >= t + 1)
      BY <1>1, <2>2, <2>3
    <3> QED BY <1>1, <2>2, <3>1
  <2> QED BY <2>2, <2>3
<1>4. u \in MinTick .. MaxTick /\ Fits(u)
  BY <1>2, <1>3
<1>5. ASSUME NEW t \in MinTick .. MaxTick, t <= u PROVE SqrtPrice[t] <= price
  <2>1. SqrtPrice[t] <= SqrtPrice[u]
    BY <1>4, <1>5, PriceOrder
  <2> QED BY <1>1, <1>4, <2>1
<1>6. ASSUME NEW t \in MinTick .. MaxTick, SqrtPrice[t] <= price, ~ (t <= u) PROVE FALSE
  <2>1. u < MaxTick /\ u + 1 \in MinTick .. MaxTick /\ u + 1 <= t
    BY <1>1, <1>4, <1>6
  <2>2. SqrtPrice[u + 1] <= SqrtPrice[t]
    BY <2>1, PriceOrder
  <2> QED BY <1>1, <1>4, <1>6, <2>1, <2>2
<1> QED BY <1>4, <1>5, <1>6 DEF u

LEMMA TickOfTickPrice ==
  ASSUME NEW t \in MinTick .. MaxTick
  PROVE  TickAtSqrtPrice(SqrtPrice[t]) = t
<1> DEFINE u == TickAtSqrtPrice(SqrtPrice[t])
<1>1. u \in MinTick .. MaxTick /\ \A x \in MinTick .. MaxTick : x <= u <=> SqrtPrice[x] <= SqrtPrice[t]
  BY PricesTyped, TickOfPrice
<1>2. MinTick \in Int /\ MaxTick \in Int
  BY PriceRange
<1>3. t <= u
  BY <1>1, PriceOrder, <1>2
<1>4. u <= t
  BY <1>1, PriceOrder, <1>2
<1> HIDE DEF u
<1>5. u = t
  BY <1>1, <1>2, <1>3, <1>4
<1> QED BY <1>5 DEF u

LEMMA TicksMonotone ==
  ASSUME NEW p \in Prices, NEW q \in Prices, p <= q
  PROVE  TickAtSqrtPrice(p) <= TickAtSqrtPrice(q)
<1> DEFINE t == TickAtSqrtPrice(p)
<1>1. t \in MinTick .. MaxTick /\ (t <= t => SqrtPrice[t] <= p)
  BY TickOfPrice
<1>2. SqrtPrice[t] \in Nat /\ p \in Nat /\ q \in Nat /\ t \in Int
  BY <1>1, PriceRange, PricesTyped
<1> HIDE DEF t, SqrtPrice
<1>3. SqrtPrice[t] <= q
  BY <1>1, <1>2
<1> QED BY <1>1, <1>3, TickOfPrice DEF t

LEMMA ClampFacts ==
  ASSUME NEW x \in Int
  PROVE  /\ Clamp(x) \in MinTick .. MaxTick
         /\ x < MinTick => Clamp(x) = MinTick
         /\ x > MaxTick => Clamp(x) = MaxTick
         /\ x \in MinTick .. MaxTick => Clamp(x) = x
  BY PriceRange DEF Clamp, MaxOf, MinOf

-----------------------------------------------------------------------------
(* One step of a swap.                                                     *)

\* Token 0 in: what is left of the input, less than the target costs, moves the
\* price down, but not to the target, and pays for the move.
LEMMA NextPriceDown ==
  ASSUME NEW l \in Nat, NEW p \in Nat, NEW t \in Nat, NEW a \in Nat,
         l > 0, p > 0, t > 0, t <= p,
         a < CeilDiv(l * Q64 * (p - t), t * p)
  PROVE  LET n == NextPriceFrom0In(p, l, a)
         IN  /\ n \in Nat /\ t < n /\ n <= p
             /\ CeilDiv(l * Q64 * (p - n), n * p) <= a
<1> DEFINE k == l * Q64
           n == NextPriceFrom0In(p, l, a)
           den == k + a * p
<1>0. /\ k \in Nat /\ k > 0
      /\ n = CeilDiv(k * p, den)
      /\ a < CeilDiv(k * (p - t), t * p)
  BY Parameters, ProductFacts DEF NextPriceFrom0In
<1> SUFFICES /\ n \in Nat /\ t < n /\ n <= p
             /\ CeilDiv(k * (p - n), n * p) <= a
  OBVIOUS
<1> HIDE DEF k, n
<1>1. /\ k * p \in Nat /\ a * p \in Nat /\ t * p \in Nat /\ t * p > 0
      /\ den \in Nat /\ den > 0 /\ p - t \in Nat /\ k * (p - t) \in Nat
  <2>1. p - t \in Nat
    OBVIOUS
  <2> QED BY <1>0, <2>1, ProductFacts
<1>2. den * p \in Nat /\ k * p <= den * p
  <2>1. k <= den
    BY <1>0, <1>1
  <2>2. p * k <= p * den
    BY <1>0, <1>1, <2>1, Ordered
  <2>3. p * k = k * p /\ p * den = den * p /\ den * p \in Nat
    BY <1>0, <1>1, ProductFacts
  <2> QED BY <1>0, <2>2, <2>3
<1>3. n \in Nat /\ k * p <= den * n /\ n <= p
  BY <1>0, <1>1, <1>2, CeilingFacts, CeilingLeast
<1>4. (t * p) * a < k * (p - t)
  BY <1>0, <1>1, CeilingLeast
<1>5. den * t < den * n
  <2>1. den * t = k * t + (t * p) * a
    BY <1>0, Z3
  <2>2. k * (p - t) = k * p - k * t
    BY <1>0, Z3
  <2>3. /\ k * t \in Nat /\ (t * p) * a \in Nat /\ den * n \in Nat /\ den * t \in Nat
    BY <1>0, <1>1, <1>3, ProductFacts
  <2> HIDE DEF den
  <2> QED BY <1>0, <1>1, <1>3, <1>4, <2>1, <2>2, <2>3
<1>6. t < n
  BY <1>0, <1>1, <1>3, <1>5, Ordered
<1>7. k * (p - n) <= (n * p) * a
  <2>1. den * n = k * n + (n * p) * a
    BY <1>0, <1>3, Z3
  <2>2. k * (p - n) = k * p - k * n
    BY <1>0, <1>3, Z3
  <2>3. k * n \in Nat /\ (n * p) * a \in Nat /\ n * p \in Nat
    BY <1>0, <1>3, ProductFacts
  <2> HIDE DEF den
  <2> QED BY <1>0, <1>1, <1>3, <2>1, <2>2, <2>3
<1>8. p - n \in Nat /\ k * (p - n) \in Nat /\ n * p \in Nat /\ n * p > 0
  <2>1. p - n \in Nat /\ n > 0
    BY <1>0, <1>3, <1>6
  <2> QED BY <1>0, <1>3, <2>1, ProductFacts
<1>9. CeilDiv(k * (p - n), n * p) <= a
  BY <1>0, <1>7, <1>8, CeilingLeast
<1> QED BY <1>0, <1>3, <1>6, <1>9

\* Token 1 in: likewise upwards.
LEMMA NextPriceUp ==
  ASSUME NEW l \in Nat, NEW q \in Nat, NEW p \in Nat, NEW t \in Nat, NEW a \in Nat,
         l > 0, q > 0, p <= t,
         a < CeilDiv(l * (t - p), q),
         NEW m, m = (a * q) \div l
  PROVE  /\ m \in Nat /\ p + m < t
         /\ CeilDiv(l * m, q) <= a
<1>1. t - p \in Nat /\ l * (t - p) \in Nat /\ a * q \in Nat
  <2>1. t - p \in Nat
    OBVIOUS
  <2> QED BY <2>1, ProductFacts
<1>2. m \in Nat /\ l * m <= a * q
  BY <1>1, QuotientFacts
<1>3. q * a < l * (t - p)
  BY <1>1, CeilingLeast
<1>4. q * a = a * q /\ l * m \in Nat
  BY <1>2, ProductFacts
<1>5. m < t - p
  <2>1. l * m < l * (t - p)
    BY <1>1, <1>2, <1>3, <1>4
  <2> QED BY <1>1, <1>2, <2>1, Ordered
<1>6. l * m <= q * a
  BY <1>2, <1>4
<1>7. CeilDiv(l * m, q) <= a
  BY <1>2, <1>4, <1>6, CeilingLeast
<1> QED BY <1>2, <1>5, <1>7

\* The fee on an input that was reached is within what is left.
LEMMA FeeFits ==
  ASSUME NEW rem \in Nat, NEW d \in Nat, NEW f \in Nat, f < d, NEW in \in Nat,
         in <= (rem * (d - f)) \div d
  PROVE  /\ CeilDiv(in * f, d - f) \in Nat
         /\ in + CeilDiv(in * f, d - f) <= rem
<1>1. d - f \in Nat /\ d - f > 0 /\ d > 0
  OBVIOUS
<1>2. rem * (d - f) \in Nat /\ in * f \in Nat
  BY <1>1, ProductFacts
<1>3. d * ((rem * (d - f)) \div d) <= rem * (d - f) /\ (rem * (d - f)) \div d \in Nat
  BY <1>1, <1>2, QuotientFacts
<1>4. d * in <= d * ((rem * (d - f)) \div d)
  BY <1>1, <1>3, Ordered
<1>5. d * in \in Nat /\ d * ((rem * (d - f)) \div d) \in Nat
  BY <1>3, ProductFacts
<1>6. d * in <= rem * (d - f)
  BY <1>2, <1>3, <1>4, <1>5
<1>7. in <= rem
  <2>1. rem * (d - f) <= d * rem
    <3>1. rem * (d - f) <= rem * d
      BY <1>1, Ordered
    <3>2. rem * d = d * rem
      BY Z3
    <3> QED BY <3>1, <3>2
  <2>2. d * in <= d * rem
    BY <1>2, <1>5, <1>6, <2>1, ProductFacts
  <2> QED BY <1>1, <2>2, Ordered
<1>8. in * f <= (d - f) * (rem - in)
  <2>1. (d - f) * (rem - in) = rem * (d - f) - (d * in - in * f)
    BY Z3
  <2> QED BY <1>2, <1>5, <1>6, <2>1
<1>9. rem - in \in Nat
  BY <1>7
<1>10. /\ CeilDiv(in * f, d - f) \in Nat
       /\ CeilDiv(in * f, d - f) <= rem - in
  BY <1>1, <1>2, <1>8, <1>9, CeilingFacts, CeilingLeast
<1> QED BY <1>9, <1>10

LEMMA Amount0Facts ==
  ASSUME NEW a \in Nat, NEW b \in Nat, a > 0, b > 0, NEW l \in Nat, NEW up \in BOOLEAN
  PROVE  /\ Amount0Delta(a, b, l, up) \in Nat
         /\ a <= b => Amount0Delta(a, b, l, TRUE) = CeilDiv(l * Q64 * (b - a), a * b)
<1>1. PICK lo \in Nat, hi \in Nat :
        /\ lo = MinOf(a, b) /\ hi = MaxOf(a, b) /\ lo > 0 /\ lo <= hi
        /\ a <= b => lo = a /\ hi = b
  BY DEF MinOf, MaxOf
<1>2. hi - lo \in Nat /\ hi > 0
  BY <1>1
<1>3. l * Q64 \in Nat /\ l * Q64 * (hi - lo) \in Nat /\ lo * hi \in Nat /\ lo * hi > 0
  BY <1>1, <1>2, Parameters, ProductFacts
<1>4. /\ CeilDiv(l * Q64 * (hi - lo), lo * hi) \in Nat
      /\ (l * Q64 * (hi - lo)) \div (lo * hi) \in Nat
  <2> DEFINE x == l * Q64 * (hi - lo)
             y == lo * hi
  <2>1. x \in Nat /\ y \in Nat /\ y > 0
    BY <1>3
  <2> HIDE DEF x, y
  <2>2. CeilDiv(x, y) \in Nat
    BY <2>1, CeilingFacts
  <2>3. x \div y \in Nat
    BY <2>1, QuotientFacts
  <2> QED BY <2>2, <2>3 DEF x, y
<1>5. Amount0Delta(a, b, l, up) = Divide(l * Q64 * (hi - lo), lo * hi, up)
  BY <1>1 DEF Amount0Delta
<1>6. Amount0Delta(a, b, l, TRUE) = CeilDiv(l * Q64 * (hi - lo), lo * hi)
  BY <1>1 DEF Amount0Delta, Divide
<1> QED BY <1>1, <1>4, <1>5, <1>6 DEF Divide

LEMMA Amount1Facts ==
  ASSUME NEW a \in Nat, NEW b \in Nat, NEW l \in Nat, NEW up \in BOOLEAN
  PROVE  /\ Amount1Delta(a, b, l, up) \in Nat
         /\ a <= b => Amount1Delta(a, b, l, TRUE) = CeilDiv(l * (b - a), Q64)
<1>1. PICK d \in Nat : d = MaxOf(a, b) - MinOf(a, b) /\ (a <= b => d = b - a)
  BY DEF MinOf, MaxOf
<1>2. l * d \in Nat
  BY ProductFacts
<1>3. CeilDiv(l * d, Q64) \in Nat /\ (l * d) \div Q64 \in Nat
  <2> DEFINE x == l * d
  <2>1. x \in Nat /\ Q64 \in Nat /\ Q64 > 0
    BY <1>2, Parameters
  <2> HIDE DEF x
  <2>2. CeilDiv(x, Q64) \in Nat
    BY <2>1, CeilingFacts
  <2>3. x \div Q64 \in Nat
    BY <2>1, QuotientFacts
  <2> QED BY <2>2, <2>3 DEF x
<1>4. Amount1Delta(a, b, l, up) = Divide(l * d, Q64, up)
  BY <1>1 DEF Amount1Delta
<1>5. Amount1Delta(a, b, l, TRUE) = CeilDiv(l * d, Q64)
  BY <1>1 DEF Amount1Delta, Divide
<1> QED BY <1>1, <1>3, <1>4, <1>5 DEF Divide

\* A step stays between its start and its target, spends no more than is left,
\* and all that is left if it stops short.
LEMMA SwapStepFacts ==
  ASSUME NEW p \in Nat, NEW t \in Nat, p > 0, t > 0,
         NEW l \in Nat, l > 0, NEW rem \in Nat
  PROVE  LET s == SwapStep(p, t, l, rem, FeePips)
         IN  /\ s.price \in Nat /\ s.in \in Nat /\ s.out \in Nat /\ s.fee \in Nat
             /\ s.in + s.fee <= rem
             /\ t <= p => t <= s.price /\ s.price <= p
             /\ p <= t => p <= s.price /\ s.price <= t
             /\ s.price # t => s.in + s.fee = rem
<1> DEFINE s == SwapStep(p, t, l, rem, FeePips)
           down == p >= t
           a == (rem * (FeeDenom - FeePips)) \div FeeDenom
           toTarget == AmountIn(p, t, l)
           reached == a >= toTarget
           next == IF reached THEN t
                   ELSE IF down THEN NextPriceFrom0In(p, l, a) ELSE NextPriceFrom1In(p, l, a)
           in == IF reached THEN toTarget
                 ELSE IF down THEN Amount0Delta(next, p, l, TRUE)
                 ELSE Amount1Delta(p, next, l, TRUE)
           fee == IF reached THEN CeilDiv(in * FeePips, FeeDenom - FeePips) ELSE rem - in
<1>1. /\ s.price = next /\ s.in = in /\ s.fee = fee
      /\ s.out = AmountOut(down, p, next, l)
  BY DEF SwapStep
<1> HIDE DEF s
<1> SUFFICES /\ s.price \in Nat /\ s.in \in Nat /\ s.out \in Nat /\ s.fee \in Nat
             /\ s.in + s.fee <= rem
             /\ t <= p => t <= s.price /\ s.price <= p
             /\ p <= t => p <= s.price /\ s.price <= t
             /\ s.price # t => s.in + s.fee = rem
  BY DEF s
<1>2. a \in Nat /\ a <= rem
  <2>1. rem * (FeeDenom - FeePips) \in Nat /\ rem * (FeeDenom - FeePips) <= FeeDenom * rem
    <3>1. rem * (FeeDenom - FeePips) <= rem * FeeDenom
      BY Parameters, Ordered
    <3>2. rem * FeeDenom = FeeDenom * rem
      BY Parameters, Z3
    <3> QED BY <3>1, <3>2, Parameters, ProductFacts
  <2>2. /\ a \in Nat /\ FeeDenom * a <= rem * (FeeDenom - FeePips)
    BY <2>1, Parameters, QuotientFacts
  <2> HIDE DEF a
  <2>3. FeeDenom * a <= FeeDenom * rem
    BY <2>1, <2>2, Parameters, ProductFacts
  <2> QED BY <2>2, <2>3, Parameters, Ordered
<1>3. /\ toTarget \in Nat
      /\ down => toTarget = CeilDiv(l * Q64 * (p - t), t * p)
      /\ ~ down => toTarget = CeilDiv(l * (t - p), Q64)
  <2>1. CASE down
    <3>1. toTarget = Amount0Delta(t, p, l, TRUE) /\ t <= p
      BY <2>1 DEF AmountIn
    <3>2. /\ Amount0Delta(t, p, l, TRUE) \in Nat
          /\ Amount0Delta(t, p, l, TRUE) = CeilDiv(l * Q64 * (p - t), t * p)
      BY <3>1, Amount0Facts
    <3> HIDE DEF toTarget
    <3> QED BY <2>1, <3>1, <3>2
  <2>2. CASE ~ down
    <3>1. toTarget = Amount1Delta(p, t, l, TRUE) /\ p <= t
      BY <2>2 DEF AmountIn
    <3>2. /\ Amount1Delta(p, t, l, TRUE) \in Nat
          /\ Amount1Delta(p, t, l, TRUE) = CeilDiv(l * (t - p), Q64)
      BY <3>1, Amount1Facts
    <3> HIDE DEF toTarget
    <3> QED BY <2>2, <3>1, <3>2
  <2> QED BY <2>1, <2>2
<1>4. CASE reached
  <2>1. next = t /\ in = toTarget
    BY <1>4
  <2>2. fee = CeilDiv(in * FeePips, FeeDenom - FeePips)
    BY <1>4
  <2>3. in \in Nat /\ in <= a
    BY <1>2, <1>3, <1>4, <2>1
  <2> HIDE DEF in, next, fee, toTarget, reached
  <2>4. fee \in Nat /\ in + fee <= rem
    BY <2>2, <2>3, FeeFits, Parameters
  <2>5. AmountOut(down, p, next, l) \in Nat
    BY <2>1, Amount0Facts, Amount1Facts DEF AmountOut
  <2> QED BY <1>1, <2>1, <2>3, <2>4, <2>5
<1>5. CASE ~ reached /\ down
  <2>1. next = NextPriceFrom0In(p, l, a) /\ in = Amount0Delta(next, p, l, TRUE) /\ fee = rem - in
    BY <1>5
  <2>2. l * Q64 \in Nat /\ l * Q64 > 0
    BY Parameters, ProductFacts
  <2>3. a < CeilDiv(l * Q64 * (p - t), t * p)
    <3> HIDE DEF a, toTarget
    <3> QED BY <1>2, <1>3, <1>5
  <2> HIDE DEF in, next, fee, toTarget, reached, a
  <2>5. /\ next \in Nat /\ t < next /\ next <= p
        /\ CeilDiv(l * Q64 * (p - next), next * p) <= a
    BY <1>2, <1>5, <2>1, <2>3, NextPriceDown
  <2>6. in \in Nat /\ in <= a
    <3>1. next > 0 /\ in = Amount0Delta(next, p, l, TRUE)
      BY <2>1, <2>5
    <3>2. /\ Amount0Delta(next, p, l, TRUE) \in Nat
          /\ Amount0Delta(next, p, l, TRUE) = CeilDiv(l * Q64 * (p - next), next * p)
      BY <2>5, <3>1, Amount0Facts
    <3> QED BY <2>5, <3>1, <3>2
  <2>7. AmountOut(down, p, next, l) \in Nat
    BY <1>5, <2>5, Amount1Facts DEF AmountOut
  <2>8. fee \in Nat /\ in + fee = rem
    <3>1. fee = rem - in
      BY <2>1
    <3>2. in \in Nat /\ in <= rem
      BY <1>2, <2>6
    <3> QED BY <3>1, <3>2
  <2> QED BY <1>1, <1>5, <2>5, <2>6, <2>7, <2>8
<1>6. CASE ~ reached /\ ~ down
  <2>1. next = NextPriceFrom1In(p, l, a) /\ in = Amount1Delta(p, next, l, TRUE) /\ fee = rem - in
    BY <1>6
  <2>2. a < CeilDiv(l * (t - p), Q64)
    <3> HIDE DEF a, toTarget
    <3> QED BY <1>2, <1>3, <1>6
  <2> HIDE DEF in, next, fee, toTarget, reached, a
  <2>3. next = p + (a * Q64) \div l
    BY <2>1 DEF NextPriceFrom1In
  <2>4. p <= t
    BY <1>6
  <2>5. /\ next \in Nat /\ p <= next /\ next < t
        /\ CeilDiv(l * (next - p), Q64) <= a
    <3> DEFINE m == (a * Q64) \div l
    <3>1. Q64 \in Nat /\ Q64 > 0 /\ a \in Nat
      BY <1>2, Parameters
    <3>2. /\ m \in Nat /\ p + m < t
          /\ CeilDiv(l * m, Q64) <= a
      BY <2>2, <2>4, <3>1, NextPriceUp
    <3> HIDE DEF m
    <3>3. next = p + m /\ next - p = m
      BY <2>3, <3>2 DEF m
    <3> QED BY <3>2, <3>3
  <2>6. in \in Nat /\ in <= a
    BY <2>1, <2>5, Amount1Facts
  <2>7. AmountOut(down, p, next, l) \in Nat
    <3>1. next > 0
      BY <2>5
    <3> QED BY <1>6, <2>5, <3>1, Amount0Facts DEF AmountOut
  <2>8. fee \in Nat /\ in + fee = rem
    <3>1. fee = rem - in
      BY <2>1
    <3>2. in \in Nat /\ in <= rem
      BY <1>2, <2>6
    <3> QED BY <3>1, <3>2
  <2> QED BY <1>1, <1>6, <2>5, <2>6, <2>7, <2>8
<1> QED BY <1>4, <1>5, <1>6

-----------------------------------------------------------------------------
(* Ticks and arrays.                                                       *)

LEMMA MultipleAligned ==
  ASSUME NEW k \in Int, NEW s \in Nat, s > 0
  PROVE  (k * s) % s = 0
  BY Z3

LEMMA AlignedPlus ==
  ASSUME NEW a \in Int, NEW k \in Int, NEW s \in Nat, s > 0, a % s = 0
  PROVE  (a + k * s) % s = 0
<1> DEFINE q == a \div s
<1>1. q \in Int /\ a = q * s
  BY Z3
<1> HIDE DEF q
<1>2. a + k * s = (q + k) * s /\ q + k \in Int
  BY <1>1, Z3
<1>3. ((q + k) * s) % s = 0
  BY <1>2, MultipleAligned
<1> QED BY <1>2, <1>3

LEMMA ArrayFacts ==
  ASSUME NEW t \in Int
  PROVE  /\ Span \in Nat /\ Span > 0
         /\ ArrayStart(t) \in Int /\ ArrayStart(t) <= t /\ t < ArrayStart(t) + Span
         /\ ArrayStart(t) % TickSpacing = 0
<1>1. Span \in Nat /\ Span > 0
  BY Parameters, ProductFacts DEF Span
<1> DEFINE d == t \div Span
<1>2. d \in Int /\ Span * d <= t /\ t < Span * d + Span
  BY <1>1, QuotientFacts
<1>3. ArrayStart(t) = d * Span
  BY DEF ArrayStart
<1> HIDE DEF d
<1>4. d * Span = Span * d /\ d * Span \in Int
  BY <1>1, <1>2
<1>5. d * Span = (d * TickArraySize) * TickSpacing /\ d * TickArraySize \in Int
  BY <1>2, Parameters, Z3 DEF Span
<1>6. (d * Span) % TickSpacing = 0
  BY <1>5, Parameters, MultipleAligned
<1> QED BY <1>1, <1>2, <1>3, <1>4, <1>6

\* Every bound of a position has a slot, and none is the lowest tick.
LEMMA BoundFacts ==
  ASSUME NEW t, IsTickBound(t)
  PROVE  t \in Int /\ t \in Slots /\ MinTick < t /\ t <= MaxTick /\ Clamp(t) = t
<1>1. t \in MinTick .. MaxTick /\ t % TickSpacing = 0 /\ t \in Int
  BY PriceRange DEF IsTickBound
<1>2. MinTick % TickSpacing # 0
  BY ClmmAssumption
<1>3. t # MinTick
  BY <1>1, <1>2
<1>4. ArrayStart(MinTick) \in Int /\ ArrayStart(MinTick) <= MinTick
  BY PriceRange, ArrayFacts
<1>5. ArrayStart(MaxTick) \in Int /\ MaxTick < ArrayStart(MaxTick) + Span /\ Span \in Nat
  BY PriceRange, ArrayFacts
<1>6. t \in ArrayStart(MinTick) .. ArrayStart(MaxTick) + Span - 1
  BY <1>1, <1>4, <1>5, PriceRange
<1>7. t \in Slots
  BY <1>1, <1>6 DEF Slots
<1>8. Clamp(t) = t
  BY <1>1, ClampFacts
<1> QED BY <1>1, <1>3, <1>7, <1>8, PriceRange

LEMMA SlotsFinite ==
  /\ Slots \subseteq Int /\ IsFiniteSet(Slots)
  /\ \A S \in SUBSET Slots : IsFiniteSet(S)
<1> DEFINE a == ArrayStart(MinTick)
           b == ArrayStart(MaxTick) + Span - 1
<1>1. a \in Int /\ b \in Int
  BY PriceRange, ArrayFacts
<1>2. Slots \in SUBSET (a .. b)
  BY DEF Slots
<1> HIDE DEF a, b
<1>3. IsFiniteSet(a .. b)
  BY <1>1, FS_Interval
<1>4. IsFiniteSet(Slots)
  BY <1>2, <1>3, FS_Subset
<1>5. \A S \in SUBSET Slots : IsFiniteSet(S)
  BY <1>4, FS_Subset
<1>6. Slots \subseteq Int
  BY <1>1, <1>2
<1> QED BY <1>4, <1>5, <1>6

\* The window a swap is given is a run of existing arrays around the tick.
LEMMA WindowFacts ==
  ASSUME NEW tick \in Int, tick = pool.tick, NEW down \in BOOLEAN, NEW n \in 1 .. 3,
         arrays \subseteq Starts, Window(down, n) \subseteq arrays
  PROVE  LET low == Min(Window(down, n))
             high == Max(Window(down, n)) + Span
         IN  /\ low \in Int /\ high \in Int
             /\ low % TickSpacing = 0 /\ high % TickSpacing = 0
             /\ low <= tick /\ tick < high
<1> DEFINE W == Window(down, n)
           start == ArrayStart(tick)
           Offset(i) == start + (IF down THEN -i ELSE i) * Span
<1>1. start \in Int /\ start <= tick /\ tick < start + Span /\ Span \in Nat
  BY ArrayFacts
<1>2. start \in W
  <2>1. 0 \in 0 .. n - 1 /\ Offset(0) = start
    BY <1>1
  <2> QED BY <2>1 DEF Window
<1>3. W \subseteq Starts /\ Starts \subseteq Int
  <2>1. ArrayStart(MinTick) \in Int /\ MaxTick \in Int
    BY PriceRange, ArrayFacts
  <2>2. Starts \subseteq Int
    BY <2>1 DEF Starts
  <2>3. W \subseteq Starts
    OBVIOUS
  <2> QED BY <2>2, <2>3
<1>4. IsFiniteSet(W)
  <2>1. ArrayStart(MinTick) \in Int /\ MaxTick \in Int
    BY PriceRange, ArrayFacts
  <2>2. IsFiniteSet(ArrayStart(MinTick) .. MaxTick)
    BY <2>1, FS_Interval
  <2>3. W \in SUBSET (ArrayStart(MinTick) .. MaxTick)
    BY <1>3 DEF Starts
  <2> QED BY <2>2, <2>3, FS_Subset
<1> HIDE DEF W, start
<1>5. W \subseteq Int /\ W # {}
  BY <1>2, <1>3
<1>6. /\ Max(W) \in W /\ start <= Max(W)
      /\ Min(W) \in W /\ Min(W) <= start
  BY <1>2, <1>4, <1>5, ExtremeFacts
<1>7. Min(W) \in Int /\ Max(W) \in Int /\ ArrayStart(Min(W)) = Min(W)
  BY <1>3, <1>5, <1>6 DEF Starts
<1>8. Min(W) % TickSpacing = 0
  BY <1>7, ArrayFacts
<1> HIDE DEF Offset
<1>9. Max(W) + Span \in Int /\ Min(W) <= tick /\ tick < Max(W) + Span
  BY <1>1, <1>6, <1>7
<1>10. (Max(W) + Span) % TickSpacing = 0
  <2>1. ArrayStart(Max(W)) = Max(W)
    BY <1>3, <1>6 DEF Starts
  <2>2. Max(W) % TickSpacing = 0
    BY <1>7, <2>1, ArrayFacts
  <2>3. /\ Max(W) \in Int /\ TickArraySize \in Int
        /\ TickSpacing \in Nat /\ TickSpacing > 0
    BY <1>7, Parameters
  <2>4. (Max(W) + TickArraySize * TickSpacing) % TickSpacing = 0
    BY <2>2, <2>3, AlignedPlus
  <2> QED BY <2>4 DEF Span
<1> QED BY <1>7, <1>8, <1>9, <1>10 DEF W

LEMMA ClampMonotone ==
  ASSUME NEW a \in Int, NEW b \in Int, a <= b
  PROVE  Clamp(a) <= Clamp(b)
  BY PriceRange DEF Clamp, MaxOf, MinOf

-----------------------------------------------------------------------------
(* The invariant.                                                          *)

\* What a position adds to the ticks at its two ends.
Share(r) == IF position[r].open THEN position[r].liquidity ELSE 0
GrossAt(t) ==
  SumFunctionOnSet([r \in Positions |-> IF t \in {r.lower, r.upper} THEN Share(r) ELSE 0],
                   Positions)
NetAt(t) ==
  SumFunctionOnSet([r \in Positions |-> IF t = r.lower THEN Share(r)
                                        ELSE IF t = r.upper THEN -Share(r) ELSE 0],
                   Positions)

Ranges ==
  \A r \in Positions :
    position[r].open => IsTickBound(r.lower) /\ IsTickBound(r.upper) /\ r.lower < r.upper
Books == \A t \in Slots : ticks[t].gross = GrossAt(t) /\ ticks[t].net = NetAt(t)

\* A swap in progress crosses ticks but changes none, and has left neither its
\* start nor its limit behind.
OnItsWay ==
  walk.active =>
    /\ \A t \in Slots : /\ walk.ticks[t].gross = ticks[t].gross
                        /\ walk.ticks[t].net = ticks[t].net
    /\ walk.low % TickSpacing = 0
    /\ walk.down => walk.limit <= walk.price /\ walk.price <= pool.price
    /\ ~ walk.down => /\ pool.price <= walk.price /\ walk.price <= walk.limit
                      /\ MinTick <= walk.tick /\ walk.low <= Clamp(walk.tick)
    /\ walk.down /\ ~ walk.stalled => Clamp(walk.tick) < walk.high

IInv == TypeOK /\ Ranges /\ Books /\ OnItsWay /\ TickTracksPrice /\ LiquidityInStep

LEMMA WalkFacts ==
  ASSUME TypeOK, walk.active
  PROVE  /\ walk \in Walk
         /\ walk.down \in BOOLEAN /\ walk.stalled \in BOOLEAN
         /\ walk.limit \in Prices /\ walk.price \in Prices
         /\ walk.low \in Int /\ walk.high \in Int /\ walk.tick \in Int
         /\ walk.remaining \in Nat /\ walk.liquidity \in Nat /\ walk.crossings \in Nat
         /\ walk.in \in Nat /\ walk.out \in Nat /\ walk.fee \in Nat
         /\ walk.growth \in Growth /\ walk.ticks \in [Slots -> TickState]
<1>1. walk \in Walk
  BY DEF TypeOK, Idle
<1> QED BY <1>1 DEF Walk

LEMMA PoolFacts ==
  ASSUME TypeOK
  PROVE  /\ pool.price \in Prices /\ pool.tick \in MinTick .. MaxTick /\ pool.tick \in Int
         /\ pool.liquidity \in Nat /\ pool.growth \in Growth
<1>1. pool \in [price : Prices, tick : MinTick .. MaxTick, liquidity : Nat, growth : Growth]
  BY DEF TypeOK
<1>2. pool.tick \in MinTick .. MaxTick
  BY <1>1
<1>3. pool.tick \in Int
  BY <1>2, PriceRange
<1> QED BY <1>1, <1>2, <1>3

LEMMA PositionFacts ==
  ASSUME TypeOK, NEW r \in Positions
  PROVE  /\ position[r].open \in BOOLEAN
         /\ position[r].open =>
              /\ position[r] \in [open : {TRUE}, liquidity : Nat, last : Growth, owed : Amounts]
              /\ position[r].liquidity \in Nat
              /\ position[r].last \in Growth /\ position[r].owed \in Amounts
         /\ ~ position[r].open => position[r] = NoPosition
         /\ Share(r) \in Nat
         /\ r \in Live <=> Share(r) > 0
<1>1. \/ position[r] \in [open : {TRUE}, liquidity : Nat, last : Growth, owed : Amounts]
      \/ position[r] = NoPosition
  BY DEF TypeOK
<1>2. CASE position[r] = NoPosition
  BY <1>2 DEF NoPosition, Share, Live
<1>3. CASE position[r] \in [open : {TRUE}, liquidity : Nat, last : Growth, owed : Amounts]
  BY <1>3 DEF Share, Live
<1> QED BY <1>1, <1>2, <1>3

-----------------------------------------------------------------------------
(* Where a round heads for.                                                *)

LEMMA TargetFacts ==
  ASSUME TypeOK, walk.active, NEW target \in NextTargets
  PROVE  /\ target \in Int
         /\ walk.down => target <= walk.tick
         /\ ~ walk.down => walk.tick < target
         /\ target \in InitializedAhead => target \in Slots /\ Initialized(walk.ticks[target])
         /\ target \notin InitializedAhead =>
              /\ InitializedAhead = {}
              /\ target = IF walk.down THEN walk.low ELSE walk.high
         /\ \A x \in InitializedAhead : IF walk.down THEN x <= target ELSE target <= x
<1>1. InitializedAhead \subseteq Slots /\ Ahead \subseteq Slots /\ InitializedAhead \subseteq Ahead
  BY DEF InitializedAhead, Ahead
<1>2. InitializedAhead \subseteq Int /\ IsFiniteSet(InitializedAhead) /\ Slots \subseteq Int
  <2>1. IsFiniteSet(InitializedAhead)
    BY <1>1, SlotsFinite
  <2>2. InitializedAhead \subseteq Int /\ Slots \subseteq Int
    BY <1>1, SlotsFinite
  <2> QED BY <2>1, <2>2
<1>3. CASE InitializedAhead # {}
  <2>1. /\ Max(InitializedAhead) \in InitializedAhead
        /\ \A y \in InitializedAhead : y <= Max(InitializedAhead)
        /\ Min(InitializedAhead) \in InitializedAhead
        /\ \A y \in InitializedAhead : Min(InitializedAhead) <= y
    BY <1>2, <1>3, ExtremeFacts
  <2>2. target = IF walk.down THEN Max(InitializedAhead) ELSE Min(InitializedAhead)
    BY <1>3 DEF NextTargets
  <2>3. /\ target \in InitializedAhead
        /\ \A x \in InitializedAhead : IF walk.down THEN x <= target ELSE target <= x
    BY <2>1, <2>2
  <2>4. target \in Ahead /\ Initialized(walk.ticks[target])
    BY <2>3 DEF InitializedAhead
  <2>5. /\ target \in Slots
        /\ IF walk.down THEN target <= walk.tick ELSE target > walk.tick
    BY <2>4 DEF Ahead
  <2>6. target \in Int /\ walk.tick \in Int
    BY <1>2, <2>5, WalkFacts
  <2> QED BY <2>3, <2>4, <2>5, <2>6
<1>4. CASE InitializedAhead = {}
  <2>1. walk.low \in Int /\ walk.high \in Int /\ walk.tick \in Int
    BY WalkFacts
  <2>2. CASE walk.down
    <3>1. target = walk.low /\ target <= walk.tick
      BY <1>4, <2>2 DEF NextTargets
    <3> QED BY <1>4, <2>1, <2>2, <3>1
  <2>3. CASE ~ walk.down
    <3>1. target = walk.high /\ walk.tick < target
      BY <1>4, <2>3 DEF NextTargets
    <3> QED BY <1>4, <2>1, <2>3, <3>1
  <2> QED BY <2>2, <2>3
<1> QED BY <1>3, <1>4

\* What the tick says of the price.
LEMMA MatchFacts ==
  ASSUME NEW t \in MinTick .. MaxTick, NEW p \in Prices, TickMatches(t, p)
  PROVE  /\ SqrtPrice[t] <= p
         /\ t <= TickAtSqrtPrice(p) /\ TickAtSqrtPrice(p) <= t + 1
         /\ \A x \in MinTick .. MaxTick : t < x => p <= SqrtPrice[x]
         /\ \A q \in Prices : q < p => TickAtSqrtPrice(q) <= t
<1> DEFINE u == TickAtSqrtPrice(p)
<1>1. /\ MinTick \in Int /\ MaxTick \in Int /\ t \in Int /\ p \in Nat
      /\ u \in MinTick .. MaxTick /\ u \in Int
      /\ \A x \in MinTick .. MaxTick : SqrtPrice[x] \in Nat
  BY PriceRange, PricesTyped, TickOfPrice
<1>2. \A x \in MinTick .. MaxTick : x <= u <=> SqrtPrice[x] <= p
  BY TickOfPrice
<1>3. u = t \/ (u = t + 1 /\ p = SqrtPrice[t + 1])
  BY DEF TickMatches
<1> HIDE DEF u, SqrtPrice
<1>4. t <= u /\ u <= t + 1
  BY <1>1, <1>3
<1>5. SqrtPrice[t] <= p
  BY <1>2, <1>4
<1>6. ASSUME NEW x \in MinTick .. MaxTick, t < x PROVE p <= SqrtPrice[x]
  <2>1. CASE u = t
    BY <1>1, <1>2, <1>6, <2>1
  <2>2. CASE u = t + 1 /\ p = SqrtPrice[t + 1]
    <3>1. t + 1 <= x /\ t + 1 \in MinTick .. MaxTick
      BY <1>1, <1>6, <2>2
    <3> QED BY <2>2, <3>1, PriceOrder
  <2> QED BY <1>3, <2>1, <2>2
<1>7. ASSUME NEW q \in Prices, q < p PROVE TickAtSqrtPrice(q) <= t
  <2> DEFINE v == TickAtSqrtPrice(q)
  <2>1. v \in MinTick .. MaxTick /\ (v <= v => SqrtPrice[v] <= q) /\ q \in Nat
    BY TickOfPrice, PricesTyped
  <2> HIDE DEF v
  <2>2. SqrtPrice[v] <= q /\ v \in Int
    BY <1>1, <2>1
  <2>3. ASSUME t < v PROVE FALSE
    <3>1. p <= SqrtPrice[v]
      BY <1>6, <2>1, <2>3
    <3> QED BY <1>1, <1>7, <2>1, <2>2, <3>1
  <2>4. v <= t
    BY <1>1, <2>2, <2>3
  <2> QED BY <2>4 DEF v
<1> QED BY <1>4, <1>5, <1>6, <1>7 DEF u

LEMMA BoundAhead ==
  ASSUME IInv, walk.active, NEW target \in NextTargets
  PROVE  /\ target \in Int /\ Bound(target) \in Prices
         /\ walk.down => Bound(target) <= walk.price
         /\ ~ walk.down => walk.price <= Bound(target)
<1> DEFINE c == Clamp(target)
           t == Clamp(walk.tick)
<1>1. TypeOK /\ OnItsWay /\ TickMatches(t, walk.price)
  BY DEF IInv, TickTracksPrice
<1>2. /\ target \in Int /\ walk.tick \in Int /\ walk.price \in Prices
      /\ walk.down => target <= walk.tick
      /\ ~ walk.down => walk.tick < target /\ MinTick <= walk.tick
  BY <1>1, TargetFacts, WalkFacts DEF OnItsWay
<1>3. c \in MinTick .. MaxTick /\ t \in MinTick .. MaxTick
  BY <1>2, ClampFacts
<1>4. Bound(target) = SqrtPrice[c] /\ SqrtPrice[c] \in Prices
  BY <1>3, PricesTyped DEF Bound
<1>5. /\ SqrtPrice[t] <= walk.price
      /\ \A x \in MinTick .. MaxTick : t < x => walk.price <= SqrtPrice[x]
  BY <1>1, <1>2, <1>3, MatchFacts
<1>6. ASSUME walk.down PROVE SqrtPrice[c] <= walk.price
  <2>1. c <= t
    BY <1>2, <1>6, ClampMonotone
  <2>2. SqrtPrice[c] <= SqrtPrice[t]
    BY <1>3, <2>1, PriceOrder
  <2>3. SqrtPrice[c] \in Nat /\ SqrtPrice[t] \in Nat /\ walk.price \in Nat
    BY <1>2, <1>3, PriceRange, PricesTyped
  <2> HIDE DEF c, t, SqrtPrice
  <2> QED BY <1>5, <2>2, <2>3
<1>7. ASSUME ~ walk.down PROVE walk.price <= SqrtPrice[c]
  <2>1. t < c \/ c = MaxTick
    BY <1>2, <1>7, PriceRange DEF Clamp, MaxOf, MinOf
  <2>2. walk.price <= MaxSqrtPrice
    BY <1>2, PricesTyped
  <2> HIDE DEF c, t
  <2> QED BY <1>3, <1>5, <2>1, <2>2 DEF MaxSqrtPrice
<1> QED BY <1>2, <1>4, <1>6, <1>7

\* A round stays between the price and what it heads for, within the limit and
\* within what is left; short of its target it ends the loop.
LEMMA RoundFacts ==
  ASSUME IInv, walk.active, NEW target \in NextTargets,
         NEW s, s = Step(target), NEW b, b = Bound(target)
  PROVE  /\ s.price \in Prices /\ s.in \in Nat /\ s.out \in Nat /\ s.fee \in Nat
         /\ s.in + s.fee <= walk.remaining
         /\ walk.down => b <= s.price /\ walk.limit <= s.price /\ s.price <= walk.price
         /\ ~ walk.down => walk.price <= s.price /\ s.price <= walk.limit /\ s.price <= b
         /\ s.price # b => s.price = walk.limit \/ s.in + s.fee = walk.remaining
         /\ s.fee > 0 => walk.liquidity > 0
<1> DEFINE goal == IF walk.down THEN MaxOf(b, walk.limit) ELSE MinOf(b, walk.limit)
           p == walk.price
<1>1. TypeOK /\ OnItsWay
  BY DEF IInv
<1>2. /\ p \in Prices /\ walk.limit \in Prices /\ walk.liquidity \in Nat
      /\ walk.remaining \in Nat /\ walk.down \in BOOLEAN
      /\ walk.down => walk.limit <= p
      /\ ~ walk.down => p <= walk.limit
  BY <1>1, WalkFacts DEF OnItsWay
<1>3. /\ b \in Prices
      /\ walk.down => b <= p
      /\ ~ walk.down => p <= b
  BY BoundAhead
<1>4. /\ p \in Nat /\ p > 0 /\ walk.limit \in Nat /\ b \in Nat
  BY <1>2, <1>3, PricesTyped
<1>5. /\ goal = b \/ goal = walk.limit
      /\ walk.down => b <= goal /\ walk.limit <= goal /\ goal <= p
      /\ ~ walk.down => p <= goal /\ goal <= walk.limit /\ goal <= b
  BY <1>2, <1>3, <1>4 DEF MaxOf, MinOf
<1>6. goal \in Prices /\ goal \in Nat /\ goal > 0
  BY <1>2, <1>3, <1>5, PricesTyped
<1>7. s = StepTowards(goal)
  BY DEF Step
<1> HIDE DEF goal
<1>8. CASE walk.liquidity = 0
  <2>1. s = [price |-> goal, in |-> 0, out |-> 0, fee |-> 0]
    BY <1>7, <1>8 DEF StepTowards
  <2>2. s.price = goal /\ s.in = 0 /\ s.out = 0 /\ s.fee = 0
    BY <2>1
  <2> QED BY <1>2, <1>5, <1>6, <2>2
<1>9. CASE walk.liquidity # 0
  <2>1. s = SwapStep(p, goal, walk.liquidity, walk.remaining, FeePips)
    BY <1>7, <1>9 DEF StepTowards
  <2>2. walk.liquidity \in Nat /\ walk.liquidity > 0
    BY <1>2, <1>9
  <2>3. /\ s.price \in Nat /\ s.in \in Nat /\ s.out \in Nat /\ s.fee \in Nat
        /\ s.in + s.fee <= walk.remaining
        /\ goal <= p => goal <= s.price /\ s.price <= p
        /\ p <= goal => p <= s.price /\ s.price <= goal
        /\ s.price # goal => s.in + s.fee = walk.remaining
    <3> DEFINE l == walk.liquidity
               rem == walk.remaining
    <3>1. rem \in Nat /\ l \in Nat /\ l > 0 /\ s = SwapStep(p, goal, l, rem, FeePips)
      BY <1>2, <2>1, <2>2
    <3> HIDE DEF p, l, rem
    <3>2. /\ s.price \in Nat /\ s.in \in Nat /\ s.out \in Nat /\ s.fee \in Nat
          /\ s.in + s.fee <= rem
          /\ goal <= p => goal <= s.price /\ s.price <= p
          /\ p <= goal => p <= s.price /\ s.price <= goal
          /\ s.price # goal => s.in + s.fee = rem
      <4>1. p \in Nat /\ p > 0 /\ goal \in Nat /\ goal > 0
        BY <1>4, <1>6
      <4> QED BY ONLY <3>1, <4>1, SwapStepFacts
    <3> QED BY <3>2 DEF rem
  <2>4. s.price \in Prices
    <3>1. \A q \in Prices : MinSqrtPrice <= q /\ q <= MaxSqrtPrice /\ q \in Nat
      BY PricesTyped
    <3>2. MinSqrtPrice \in Nat /\ MaxSqrtPrice \in Nat
      BY PricesTyped
    <3>3. /\ MinSqrtPrice <= goal /\ goal <= MaxSqrtPrice
          /\ MinSqrtPrice <= p /\ p <= MaxSqrtPrice
      BY <1>2, <1>6, <3>1
    <3>4. goal <= p \/ p <= goal
      BY <1>4, <1>6
    <3> HIDE DEF p
    <3>5. MinSqrtPrice <= s.price /\ s.price <= MaxSqrtPrice
      BY <1>4, <1>6, <2>3, <3>2, <3>3, <3>4
    <3> QED BY <2>3, <3>2, <3>5 DEF Prices
  <2> QED BY <1>2, <1>4, <1>5, <1>6, <2>2, <2>3, <2>4
<1> QED BY <1>8, <1>9

-----------------------------------------------------------------------------
(* What a round leaves behind.                                             *)

LEMMA GrowthFacts ==
  ASSUME NEW g \in Growth, NEW t \in Token
  PROVE  g[t] \in Nat /\ g[t] \in 0 .. GrowthMod - 1
<1>1. g[t] \in 0 .. GrowthMod - 1
  BY DEF Growth
<1>2. GrowthMod \in Nat
  BY Parameters
<1> QED BY <1>1, <1>2

LEMMA GrowthAfterTyped ==
  ASSUME TypeOK, walk.active, NEW fee \in Nat, fee > 0 => walk.liquidity > 0
  PROVE  GrowthAfter(fee) \in Growth
<1> DEFINE l == walk.liquidity
           d == GrowthDelta(fee, l)
           new == Wrapped(walk.growth[InToken] + d)
<1>1. walk.growth \in Growth /\ l \in Nat /\ InToken \in Token
  BY WalkFacts DEF InToken, Token
<1>2. CASE fee = 0
  BY <1>1, <1>2 DEF GrowthAfter
<1>3. CASE fee # 0
  <2>1. fee * Q64 \in Nat /\ l > 0
    BY <1>3, Parameters, ProductFacts
  <2> HIDE DEF l
  <2>2. d \in Nat
    BY <1>1, <2>1, QuotientFacts DEF GrowthDelta
  <2>3. walk.growth[InToken] \in Nat
    BY <1>1, GrowthFacts
  <2> HIDE DEF d
  <2>4. walk.growth[InToken] + d \in Int
    BY <2>2, <2>3
  <2>5. new \in 0 .. GrowthMod - 1
    BY <2>4, WrappedTyped
  <2>6. GrowthAfter(fee) = [walk.growth EXCEPT ![InToken] = new]
    BY <1>3 DEF GrowthAfter, d, l
  <2> HIDE DEF new
  <2> QED BY <1>1, <2>5, <2>6 DEF Growth
<1> QED BY <1>2, <1>3

LEMMA CrossedTyped ==
  ASSUME NEW tick \in TickState, NEW growth \in Growth
  PROVE  /\ Crossed(tick, growth) \in TickState
         /\ Crossed(tick, growth).gross = tick.gross /\ Crossed(tick, growth).net = tick.net
<1> DEFINE out == [t \in Token |-> Wrapped(growth[t] - tick.outside[t])]
<1>1. tick.gross \in Nat /\ tick.net \in Int /\ tick.outside \in Growth
  BY DEF TickState
<1>2. \A t \in Token : Wrapped(growth[t] - tick.outside[t]) \in 0 .. GrowthMod - 1
  <2> SUFFICES ASSUME NEW t \in Token
               PROVE  Wrapped(growth[t] - tick.outside[t]) \in 0 .. GrowthMod - 1
    OBVIOUS
  <2>1. growth[t] \in Nat /\ tick.outside[t] \in Nat
    BY <1>1, GrowthFacts
  <2>2. growth[t] - tick.outside[t] \in Int
    BY <2>1
  <2> QED BY <2>2, WrappedTyped
<1>3. out \in Growth
  BY <1>2 DEF Growth
<1>4. Crossed(tick, growth) = [tick EXCEPT !.outside = out]
  BY DEF Crossed
<1> HIDE DEF out
<1> QED BY <1>1, <1>3, <1>4 DEF TickState

LEMMA LiquidityAfterFacts ==
  ASSUME TypeOK, walk.active, NEW target \in NextTargets
  PROVE  /\ Crosses(target) => target \in Slots /\ walk.ticks[target].net \in Int
         /\ LiquidityAfter(target) \in Int
<1>1. Crosses(target) => target \in Slots
  BY TargetFacts DEF Crosses
<1>2. \A t \in Slots : walk.ticks[t].net \in Int
  BY WalkFacts DEF TickState
<1>3. walk.liquidity \in Nat
  BY WalkFacts
<1> QED BY <1>1, <1>2, <1>3 DEF LiquidityAfter

LEMMA TickAfterFacts ==
  ASSUME IInv, walk.active, NEW target \in NextTargets
  PROVE  /\ TickAfter(target) \in Int
         /\ Arrives(target) => TickAfter(target) = IF walk.down THEN target - 1 ELSE target
         /\ ~ Arrives(target) => \/ TickAfter(target) = TickAtSqrtPrice(Step(target).price)
                                 \/ /\ TickAfter(target) = walk.tick
                                    /\ Step(target).price = pool.price
<1>1. TypeOK
  BY DEF IInv
<1>2. target \in Int /\ walk.tick \in Int
  BY <1>1, TargetFacts, WalkFacts
<1>3. Step(target).price \in Prices
  BY RoundFacts
<1>4. TickAtSqrtPrice(Step(target).price) \in Int
  BY <1>3, TickOfPrice, PriceRange
<1> QED BY <1>2, <1>4 DEF TickAfter

LEMMA RoundEffect ==
  ASSUME IInv, Advance
  PROVE  \E target \in NextTargets :
           LET s == Step(target) IN
           /\ walk.active /\ Running /\ ~ Refused(target)
           /\ walk' \in Walk /\ walk'.active
           /\ walk'.down = walk.down /\ walk'.limit = walk.limit
           /\ walk'.low = walk.low /\ walk'.high = walk.high
           /\ walk'.remaining = walk.remaining - s.in - s.fee
           /\ walk'.in = walk.in + s.in /\ walk'.out = walk.out + s.out
           /\ walk'.fee = walk.fee + s.fee
           /\ walk'.price = s.price
           /\ walk'.tick = TickAfter(target)
           /\ walk'.liquidity = LiquidityAfter(target)
           /\ walk'.growth = GrowthAfter(s.fee)
           /\ walk'.ticks = TicksAfter(target, GrowthAfter(s.fee))
           /\ walk'.stalled = (walk.stalled \/ Stalls(target))
           /\ walk'.crossings = (IF Crosses(target) THEN walk.crossings + 1 ELSE walk.crossings)
           /\ UNCHANGED <<pool, arrays, ticks, position, vault, stalled, changes, swaps>>
<1>1. PICK target \in NextTargets : ~ Refused(target) /\ walk' = Walked(target)
  BY DEF Advance
<1>2. /\ walk.active /\ Running
      /\ UNCHANGED <<pool, arrays, ticks, position, vault, stalled, changes, swaps>>
  BY DEF Advance
<1>3. TypeOK
  BY DEF IInv
<1> DEFINE s == Step(target)
           growth == GrowthAfter(s.fee)
           crossed == TicksAfter(target, growth)
           b == Bound(target)
<1>4. walk \in Walk
  BY <1>2, <1>3, WalkFacts
<1>5. /\ s.price \in Prices /\ s.in \in Nat /\ s.out \in Nat /\ s.fee \in Nat
      /\ s.in + s.fee <= walk.remaining
      /\ s.fee > 0 => walk.liquidity > 0
  BY <1>2, RoundFacts
<1>6. walk.remaining \in Nat /\ walk.in \in Nat /\ walk.out \in Nat /\ walk.fee \in Nat
      /\ walk.crossings \in Nat /\ walk.stalled \in BOOLEAN
  BY <1>2, <1>3, WalkFacts
<1>7. walk' = [walk EXCEPT
         !.remaining = walk.remaining - s.in - s.fee,
         !.in = walk.in + s.in, !.out = walk.out + s.out, !.fee = walk.fee + s.fee,
         !.price = s.price,
         !.tick = TickAfter(target),
         !.liquidity = LiquidityAfter(target),
         !.growth = growth,
         !.ticks = crossed,
         !.crossings = IF Crosses(target) THEN walk.crossings + 1 ELSE walk.crossings,
         !.stalled = walk.stalled \/ Stalls(target)]
  BY <1>1 DEF Walked
<1>8. growth \in Growth
  BY <1>2, <1>3, <1>5, GrowthAfterTyped
<1>9. LiquidityAfter(target) \in Nat /\ TickAfter(target) \in Int
  <2>1. LiquidityAfter(target) \in Int /\ TickAfter(target) \in Int
    BY <1>2, <1>3, LiquidityAfterFacts, TickAfterFacts
  <2>2. ~ (LiquidityAfter(target) < 0)
    BY <1>1 DEF Refused
  <2> QED BY <2>1, <2>2
<1> HIDE DEF s, growth
<1>10. crossed \in [Slots -> TickState]
  <2>1. walk.ticks \in [Slots -> TickState]
    BY <1>2, <1>3, WalkFacts
  <2>2. CASE Crosses(target)
    <3>1. target \in Slots
      BY <1>2, <1>3, <2>2, LiquidityAfterFacts
    <3>2. Crossed(walk.ticks[target], growth) \in TickState
      BY <1>8, <2>1, <3>1, CrossedTyped
    <3>3. crossed = [walk.ticks EXCEPT ![target] = Crossed(walk.ticks[target], growth)]
      BY <2>2 DEF TicksAfter
    <3> HIDE DEF crossed
    <3> QED BY <2>1, <3>1, <3>2, <3>3
  <2>3. CASE ~ Crosses(target)
    BY <2>1, <2>3 DEF TicksAfter
  <2> QED BY <2>2, <2>3
<1>11. /\ walk.remaining - s.in - s.fee \in Nat
       /\ walk.in + s.in \in Nat /\ walk.out + s.out \in Nat /\ walk.fee + s.fee \in Nat
       /\ (IF Crosses(target) THEN walk.crossings + 1 ELSE walk.crossings) \in Nat
       /\ (walk.stalled \/ Stalls(target)) \in BOOLEAN
  BY <1>5, <1>6
<1> HIDE DEF crossed
<1>12. walk' \in Walk
  BY <1>4, <1>5, <1>7, <1>8, <1>9, <1>10, <1>11 DEF Walk
<1>13. /\ walk'.active
       /\ walk'.down = walk.down /\ walk'.limit = walk.limit
       /\ walk'.low = walk.low /\ walk'.high = walk.high
       /\ walk'.remaining = walk.remaining - s.in - s.fee
       /\ walk'.in = walk.in + s.in /\ walk'.out = walk.out + s.out
       /\ walk'.fee = walk.fee + s.fee
       /\ walk'.price = s.price
       /\ walk'.tick = TickAfter(target)
       /\ walk'.liquidity = LiquidityAfter(target)
       /\ walk'.growth = growth
       /\ walk'.ticks = crossed
       /\ walk'.stalled = (walk.stalled \/ Stalls(target))
       /\ walk'.crossings = (IF Crosses(target) THEN walk.crossings + 1 ELSE walk.crossings)
  BY <1>2, <1>4, <1>7 DEF Walk
<1> QED BY <1>1, <1>2, <1>12, <1>13 DEF s, growth, crossed

-----------------------------------------------------------------------------
(* What a change of a position leaves behind.                              *)

LEMMA UpdatedTickFacts ==
  ASSUME TypeOK, NEW at \in Slots, NEW delta \in Int, NEW isUpper \in BOOLEAN
  PROVE  LET new == UpdatedTick(at, delta, isUpper) IN
         /\ new.gross = ticks[at].gross + delta /\ new.gross \in Int
         /\ new.net = (IF isUpper THEN ticks[at].net - delta ELSE ticks[at].net + delta)
         /\ new.outside \in Growth
         /\ Initialized(ticks[at]) => new.outside = ticks[at].outside
         /\ new.gross >= 0 => new \in TickState /\ Cleared(at, new) \in TickState
         /\ Cleared(at, new).gross = new.gross /\ Cleared(at, new).net = new.net
         /\ Initialized(new) => Cleared(at, new).outside = new.outside
<1> DEFINE new == UpdatedTick(at, delta, isUpper)
           out == IF ~Initialized(ticks[at]) /\ at <= pool.tick THEN pool.growth
                  ELSE ticks[at].outside
           net == IF isUpper THEN ticks[at].net - delta ELSE ticks[at].net + delta
<1>1. ticks[at] \in TickState /\ pool.growth \in Growth
  BY PoolFacts DEF TypeOK
<1>2. ticks[at].gross \in Nat /\ ticks[at].net \in Int /\ ticks[at].outside \in Growth
  BY <1>1 DEF TickState
<1>3. out \in Growth /\ (Initialized(ticks[at]) => out = ticks[at].outside)
  BY <1>1, <1>2
<1>4. net \in Int /\ ticks[at].gross + delta \in Int
  BY <1>2
<1>5. new = [gross |-> ticks[at].gross + delta, net |-> net, outside |-> out]
  BY DEF UpdatedTick
<1>6. EmptyTick.outside \in Growth
  <2>1. 0 \in 0 .. GrowthMod - 1
    BY Parameters
  <2> QED BY <2>1 DEF EmptyTick, Growth
<1> DEFINE e == EmptyTick.outside
<1>7. Cleared(at, new) = new \/ Cleared(at, new) = [new EXCEPT !.outside = e]
  BY DEF Cleared
<1>8. Initialized(new) => Cleared(at, new) = new
  BY DEF Cleared
<1> HIDE DEF out, net, e, new
<1>9. /\ new.gross = ticks[at].gross + delta /\ new.gross \in Int
      /\ new.net = net /\ new.outside = out
      /\ new.gross >= 0 => new \in TickState
  BY <1>3, <1>4, <1>5 DEF TickState
<1>10. /\ Cleared(at, new).gross = new.gross /\ Cleared(at, new).net = new.net
       /\ new.gross >= 0 => Cleared(at, new) \in TickState
  <2>1. e \in Growth
    BY <1>6 DEF e
  <2>2. [new EXCEPT !.outside = e] = [gross |-> ticks[at].gross + delta, net |-> net, outside |-> e]
    BY <1>5
  <2> QED BY <1>4, <1>7, <1>9, <2>1, <2>2 DEF TickState
<1> QED BY <1>3, <1>8, <1>9, <1>10 DEF net, new

LEMMA OwedTyped ==
  ASSUME TypeOK, NEW r \in Positions, position[r].open, NEW inside \in Growth
  PROVE  OwedSince(position[r], inside) \in Amounts
<1> DEFINE p == position[r]
<1>1. p.liquidity \in Nat /\ p.last \in Growth
  BY PositionFacts
<1>2. ASSUME NEW t \in Token PROVE FeesOwed(p.liquidity, inside[t], p.last[t]) \in Nat
  <2>1. inside[t] \in Nat /\ p.last[t] \in Nat
    BY <1>1, GrowthFacts
  <2>2. inside[t] - p.last[t] \in Int
    BY <2>1
  <2> DEFINE w == Wrapped(inside[t] - p.last[t])
  <2>3. w \in Nat
    <3>1. w \in 0 .. GrowthMod - 1
      BY <2>2, WrappedTyped
    <3> HIDE DEF w
    <3> QED BY <3>1, Parameters
  <2> HIDE DEF w, p
  <2>4. p.liquidity * w \in Nat
    BY <1>1, <2>3, ProductFacts
  <2>5. (p.liquidity * w) \div Q64 \in Nat
    BY <2>4, Parameters, QuotientFacts
  <2> QED BY <2>5 DEF FeesOwed, w, p
<1> QED BY <1>2 DEF OwedSince, Amounts

LEMMA InsideTyped ==
  ASSUME NEW r, NEW lower, NEW upper, NEW tick, NEW growth \in Growth,
         lower.outside \in Growth, upper.outside \in Growth
  PROVE  InsideGrowth(r, lower, upper, tick, growth) \in Growth
<1>1. ASSUME NEW t \in Token
      PROVE  GrowthInside(r.lower, r.upper, tick, growth[t], lower.outside[t], upper.outside[t])
               \in 0 .. GrowthMod - 1
  <2> DEFINE below == IF tick >= r.lower THEN lower.outside[t] ELSE growth[t] - lower.outside[t]
             above == IF tick < r.upper THEN upper.outside[t] ELSE growth[t] - upper.outside[t]
  <2>1. growth[t] \in Nat /\ lower.outside[t] \in Nat /\ upper.outside[t] \in Nat
    BY GrowthFacts
  <2>2. below \in Int /\ above \in Int
    BY <2>1
  <2> HIDE DEF below, above
  <2>3. growth[t] - below - above \in Int
    BY <2>1, <2>2
  <2>4. GrowthInside(r.lower, r.upper, tick, growth[t], lower.outside[t], upper.outside[t])
          = Wrapped(growth[t] - below - above)
    BY DEF GrowthInside, below, above
  <2> QED BY <2>3, <2>4, WrappedTyped
<1> QED BY <1>1 DEF InsideGrowth, Growth

LEMMA ModifyEffect ==
  ASSUME TypeOK, Ranges, NEW r \in Positions, NEW delta \in Int, NEW amounts,
         Modify(r, delta, amounts)
  PROVE  LET p == position[r]
             lower == UpdatedTick(r.lower, delta, FALSE)
             upper == UpdatedTick(r.upper, delta, TRUE)
             inside == InsideGrowth(r, lower, upper, pool.tick, pool.growth)
             owed == [t \in Token |-> p.owed[t] + OwedSince(p, inside)[t]]
         IN  /\ p.open /\ ~ walk.active
             /\ IsTickBound(r.lower) /\ IsTickBound(r.upper) /\ r.lower < r.upper
             /\ r.lower \in Slots /\ r.upper \in Slots /\ r.lower # r.upper
             /\ p.liquidity + delta \in Nat /\ lower.gross >= 0 /\ upper.gross >= 0
             /\ (IF Holds(r, pool.tick) THEN pool.liquidity + delta ELSE pool.liquidity) \in Nat
             /\ inside \in Growth /\ owed \in Amounts
             /\ position' = [position EXCEPT ![r] =
                  [open |-> TRUE, liquidity |-> p.liquidity + delta,
                   last |-> inside, owed |-> owed]]
             /\ pool' = [pool EXCEPT !.liquidity =
                  IF Holds(r, pool.tick) THEN pool.liquidity + delta ELSE pool.liquidity]
             /\ ticks' = [ticks EXCEPT ![r.lower] = Cleared(r.lower, lower),
                                       ![r.upper] = Cleared(r.upper, upper)]
             /\ changes' = changes + 1
             /\ UNCHANGED <<arrays, walk, stalled, swaps>>
<1> DEFINE p == position[r]
           lower == UpdatedTick(r.lower, delta, FALSE)
           upper == UpdatedTick(r.upper, delta, TRUE)
           inside == InsideGrowth(r, lower, upper, pool.tick, pool.growth)
           owed == [t \in Token |-> p.owed[t] + OwedSince(p, inside)[t]]
           active == IF Holds(r, pool.tick) THEN pool.liquidity + delta ELSE pool.liquidity
<1>1. /\ p.open /\ ~ walk.active
      /\ \A sum \in {p.liquidity + delta, lower.gross, upper.gross, active} : sum >= 0
      /\ position' = [position EXCEPT ![r] =
           [open |-> TRUE, liquidity |-> p.liquidity + delta, last |-> inside, owed |-> owed]]
      /\ pool' = [pool EXCEPT !.liquidity = active]
      /\ ticks' = [ticks EXCEPT ![r.lower] = Cleared(r.lower, lower),
                                ![r.upper] = Cleared(r.upper, upper)]
      /\ changes' = changes + 1
      /\ UNCHANGED <<arrays, walk, stalled, swaps>>
  BY DEF Modify
<1>2. IsTickBound(r.lower) /\ IsTickBound(r.upper) /\ r.lower < r.upper
  BY <1>1 DEF Ranges
<1>3. /\ r.lower \in Slots /\ r.upper \in Slots /\ r.lower # r.upper
  <2>1. r.lower \in Slots /\ r.upper \in Slots /\ r.lower \in Int /\ r.upper \in Int
    BY <1>2, BoundFacts
  <2> QED BY <1>2, <2>1
<1>4. p.liquidity \in Nat /\ p.owed \in Amounts
  BY <1>1, PositionFacts
<1>5. pool.liquidity \in Nat /\ pool.growth \in Growth
  BY PoolFacts
<1>6. lower.outside \in Growth /\ upper.outside \in Growth
  BY <1>3, UpdatedTickFacts
<1>7. inside \in Growth
  BY <1>5, <1>6, InsideTyped
<1> DEFINE since == OwedSince(p, inside)
<1>8. since \in Amounts
  BY <1>1, <1>7, OwedTyped
<1>9. owed \in Amounts
  <2>1. \A t \in Token : p.owed[t] \in Nat /\ since[t] \in Nat
    <3> HIDE DEF since, p
    <3> QED BY <1>4, <1>8 DEF Amounts
  <2>2. \A t \in Token : p.owed[t] + since[t] \in Nat
    <3> HIDE DEF since, p
    <3> QED BY <2>1
  <2> QED BY <2>2 DEF Amounts
<1>10. p.liquidity + delta \in Nat /\ active \in Nat /\ lower.gross >= 0 /\ upper.gross >= 0
  <2>1. p.liquidity + delta >= 0 /\ active >= 0 /\ lower.gross >= 0 /\ upper.gross >= 0
    BY <1>1
  <2>2. p.liquidity + delta \in Int /\ active \in Int
    BY <1>4, <1>5
  <2> HIDE DEF p, lower, upper, active
  <2> QED BY <2>1, <2>2
<1> HIDE DEF since, p, lower, upper, inside, owed, active
<1>11. /\ p.open /\ ~ walk.active
       /\ IsTickBound(r.lower) /\ IsTickBound(r.upper) /\ r.lower < r.upper
       /\ r.lower \in Slots /\ r.upper \in Slots /\ r.lower # r.upper
       /\ p.liquidity + delta \in Nat /\ lower.gross >= 0 /\ upper.gross >= 0
       /\ active \in Nat
       /\ inside \in Growth /\ owed \in Amounts
       /\ position' = [position EXCEPT ![r] =
            [open |-> TRUE, liquidity |-> p.liquidity + delta, last |-> inside, owed |-> owed]]
       /\ pool' = [pool EXCEPT !.liquidity = active]
       /\ ticks' = [ticks EXCEPT ![r.lower] = Cleared(r.lower, lower),
                                 ![r.upper] = Cleared(r.upper, upper)]
       /\ changes' = changes + 1
       /\ UNCHANGED <<arrays, walk, stalled, swaps>>
  BY <1>1, <1>2, <1>3, <1>7, <1>9, <1>10
<1> QED BY <1>11, Zenon DEF p, lower, upper, inside, owed, active

-----------------------------------------------------------------------------
(* Types.                                                                  *)

LEMMA AmountsTyped ==
  ASSUME NEW price \in Prices, NEW tick, NEW r, IsTickBound(r.lower), IsTickBound(r.upper),
         NEW liquidity \in Nat, NEW roundUp \in BOOLEAN
  PROVE  AmountsForLiquidity(price, tick, r, liquidity, roundUp) \in Amounts
<1> DEFINE lower == SqrtPrice[r.lower]
           upper == SqrtPrice[r.upper]
           from == IF tick < r.lower THEN lower ELSE IF tick < r.upper THEN price ELSE upper
<1>1. lower \in Nat /\ lower > 0 /\ upper \in Nat /\ upper > 0
  BY PriceRange DEF IsTickBound
<1>2. price \in Nat /\ price > 0
  BY PricesTyped
<1> HIDE DEF lower, upper
<1>3. from \in Nat /\ from > 0
  BY <1>1, <1>2
<1> HIDE DEF from
<1>4. /\ Amount0Delta(from, upper, liquidity, roundUp) \in Nat
      /\ Amount1Delta(lower, from, liquidity, roundUp) \in Nat
  BY <1>1, <1>3, Amount0Facts, Amount1Facts
<1>5. AmountsForLiquidity(price, tick, r, liquidity, roundUp)
        = [t \in Token |-> IF t = 0 THEN Amount0Delta(from, upper, liquidity, roundUp)
                           ELSE Amount1Delta(lower, from, liquidity, roundUp)]
  BY DEF AmountsForLiquidity, from, lower, upper
<1> QED BY <1>4, <1>5 DEF Amounts

LEMMA ModifyTyped ==
  ASSUME TypeOK, Ranges, NEW r \in Positions, NEW delta \in Int, NEW amounts,
         Modify(r, delta, amounts), vault' \in Amounts
  PROVE  TypeOK'
<1> DEFINE p == position[r]
           lower == UpdatedTick(r.lower, delta, FALSE)
           upper == UpdatedTick(r.upper, delta, TRUE)
           inside == InsideGrowth(r, lower, upper, pool.tick, pool.growth)
           owed == [t \in Token |-> p.owed[t] + OwedSince(p, inside)[t]]
           active == IF Holds(r, pool.tick) THEN pool.liquidity + delta ELSE pool.liquidity
           liquidity == p.liquidity + delta
           low == Cleared(r.lower, lower)
           high == Cleared(r.upper, upper)
<1>1. /\ r.lower \in Slots /\ r.upper \in Slots
      /\ liquidity \in Nat /\ lower.gross >= 0 /\ upper.gross >= 0
      /\ active \in Nat /\ inside \in Growth /\ owed \in Amounts
      /\ position' = [position EXCEPT ![r] =
           [open |-> TRUE, liquidity |-> liquidity, last |-> inside, owed |-> owed]]
      /\ pool' = [pool EXCEPT !.liquidity = active]
      /\ ticks' = [ticks EXCEPT ![r.lower] = low, ![r.upper] = high]
      /\ changes' = changes + 1
      /\ UNCHANGED <<arrays, walk, stalled, swaps>>
  BY ModifyEffect
<1>2. low \in TickState /\ high \in TickState
  BY <1>1, UpdatedTickFacts
<1> HIDE DEF inside, owed, active, low, high, liquidity
<1>3. pool' \in [price : Prices, tick : MinTick .. MaxTick, liquidity : Nat, growth : Growth]
  BY <1>1 DEF TypeOK
<1>4. ticks' \in [Slots -> TickState]
  BY <1>1, <1>2 DEF TypeOK
<1>5. position' \in [Positions ->
        [open : {TRUE}, liquidity : Nat, last : Growth, owed : Amounts] \cup {NoPosition}]
  BY <1>1 DEF TypeOK
<1>6. changes' \in Nat /\ arrays' \subseteq Starts /\ walk' \in Walk \cup {Idle}
      /\ stalled' \in BOOLEAN /\ swaps' \in Nat
  BY <1>1 DEF TypeOK
<1> QED BY <1>3, <1>4, <1>5, <1>6 DEF TypeOK

LEMMA LiquidityTyped ==
  ASSUME TypeOK, Ranges, NEW r \in Positions, NEW l \in Liquidities,
         IncreaseLiquidity(r, l) \/ DecreaseLiquidity(r, l)
  PROVE  TypeOK'
<1>1. l \in Nat /\ l \in Int /\ -l \in Int
  BY ClmmAssumption
<1>2. pool.price \in Prices /\ vault \in Amounts
  BY PoolFacts DEF TypeOK
<1>3. CASE IncreaseLiquidity(r, l)
  <2> DEFINE amounts == AmountsForLiquidity(pool.price, pool.tick, r, l, TRUE)
  <2>1. Modify(r, l, amounts) /\ vault' = [t \in Token |-> vault[t] + amounts[t]]
    BY <1>3 DEF IncreaseLiquidity
  <2>2. IsTickBound(r.lower) /\ IsTickBound(r.upper)
    BY <1>1, <2>1, ModifyEffect
  <2>3. amounts \in Amounts
    BY <1>1, <1>2, <2>2, AmountsTyped
  <2> HIDE DEF amounts
  <2>4. vault' \in Amounts
    BY <1>2, <2>1, <2>3 DEF Amounts
  <2> QED BY <1>1, <2>1, <2>4, ModifyTyped
<1>4. CASE DecreaseLiquidity(r, l)
  <2> DEFINE amounts == AmountsForLiquidity(pool.price, pool.tick, r, l, FALSE)
  <2>1. /\ Modify(r, -l, amounts) /\ vault' = [t \in Token |-> vault[t] - amounts[t]]
        /\ \A t \in Token : amounts[t] <= vault[t]
    BY <1>4 DEF DecreaseLiquidity
  <2>2. IsTickBound(r.lower) /\ IsTickBound(r.upper)
    BY <1>1, <2>1, ModifyEffect
  <2>3. amounts \in Amounts
    BY <1>1, <1>2, <2>2, AmountsTyped
  <2> HIDE DEF amounts
  <2>4. vault' \in Amounts
    BY <1>2, <2>1, <2>3 DEF Amounts
  <2> QED BY <1>1, <2>1, <2>4, ModifyTyped
<1> QED BY <1>3, <1>4

LEMMA PositionTyped ==
  ASSUME TypeOK, NEW r \in Positions, OpenPosition(r) \/ ClosePosition(r) \/ Collect(r)
  PROVE  TypeOK'
<1>0. 0 \in 0 .. GrowthMod - 1
  BY Parameters
<1>1. EmptyPosition \in [open : {TRUE}, liquidity : Nat, last : Growth, owed : Amounts]
  BY <1>0 DEF EmptyPosition, Growth, Amounts
<1>2. CASE OpenPosition(r)
  BY <1>1, <1>2 DEF OpenPosition, TypeOK
<1>3. CASE ClosePosition(r)
  BY <1>3 DEF ClosePosition, TypeOK
<1>4. CASE Collect(r)
  <2> DEFINE p == position[r]
             none == [t \in Token |-> 0]
  <2>1. /\ p.open
        /\ \A t \in Token : p.owed[t] <= vault[t]
        /\ vault' = [t \in Token |-> vault[t] - p.owed[t]]
        /\ position' = [position EXCEPT ![r].owed = none]
        /\ UNCHANGED <<pool, arrays, ticks, walk, stalled, changes, swaps>>
    BY <1>4 DEF Collect
  <2>2. p.owed \in Amounts /\ vault \in Amounts
    BY <2>1, PositionFacts DEF TypeOK
  <2>3. p \in [open : {TRUE}, liquidity : Nat, last : Growth, owed : Amounts]
    BY <2>1, PositionFacts
  <2>4. none \in Amounts
    BY DEF Amounts
  <2>5. vault' \in Amounts
    <3> HIDE DEF p
    <3> QED BY <2>1, <2>2 DEF Amounts
  <2>6. [p EXCEPT !.owed = none] \in [open : {TRUE}, liquidity : Nat, last : Growth, owed : Amounts]
    <3> HIDE DEF p, none
    <3> QED BY <2>3, <2>4
  <2>7. position' = [position EXCEPT ![r] = [p EXCEPT !.owed = none]]
    BY <2>1
  <2> HIDE DEF p, none
  <2>8. position' \in [Positions ->
          [open : {TRUE}, liquidity : Nat, last : Growth, owed : Amounts] \cup {NoPosition}]
    BY <2>6, <2>7 DEF TypeOK
  <2> QED BY <2>1, <2>5, <2>8 DEF TypeOK
<1> QED BY <1>2, <1>3, <1>4

-----------------------------------------------------------------------------
(* Swaps: start, round and end.                                            *)

LEMMA SamePositions ==
  ASSUME UNCHANGED position
  PROVE  /\ Ranges => Ranges'
         /\ \A t : GrossAt(t)' = GrossAt(t) /\ NetAt(t)' = NetAt(t)
                   /\ LiquidityAt(t)' = LiquidityAt(t)
<1>1. \A t : GrossAt(t)' = GrossAt(t) /\ NetAt(t)' = NetAt(t)
  BY DEF GrossAt, NetAt, Share
<1>2. \A t : LiquidityAt(t)' = LiquidityAt(t)
  BY DEF LiquidityAt, Live
<1>3. Ranges => Ranges'
  BY DEF Ranges
<1> QED BY <1>1, <1>2, <1>3

LEMMA StartInv ==
  ASSUME IInv, NEW down \in BOOLEAN, NEW amount \in SwapAmounts, NEW given \in PriceLimits,
         NEW n \in 1 .. 3, StartSwap(down, amount, given, n)
  PROVE  IInv'
<1> DEFINE limit == DefaultLimit(down, given)
           window == Window(down, n)
           low == Min(window)
           high == Max(window) + Span
<1>1. /\ ~ walk.active /\ ValidLimit(down, limit) /\ window \subseteq arrays
      /\ walk' = [active |-> TRUE, down |-> down, limit |-> limit, low |-> low, high |-> high,
                  remaining |-> amount, price |-> pool.price, tick |-> pool.tick,
                  liquidity |-> pool.liquidity, growth |-> pool.growth,
                  ticks |-> ticks, in |-> 0, out |-> 0, fee |-> 0,
                  crossings |-> 0, stalled |-> FALSE]
      /\ UNCHANGED <<pool, arrays, ticks, position, vault, stalled, changes, swaps>>
  BY DEF StartSwap
<1>2. /\ TypeOK /\ Ranges /\ Books /\ TickMatches(pool.tick, pool.price)
      /\ ~ stalled => pool.liquidity = LiquidityAt(pool.tick)
  BY DEF IInv, TickTracksPrice, LiquidityInStep
<1>3. /\ pool.price \in Prices /\ pool.tick \in MinTick .. MaxTick /\ pool.tick \in Int
      /\ pool.liquidity \in Nat /\ pool.growth \in Growth
      /\ ticks \in [Slots -> TickState] /\ arrays \subseteq Starts
  BY <1>2, PoolFacts DEF TypeOK
<1>4. /\ low \in Int /\ high \in Int /\ low % TickSpacing = 0
      /\ low <= pool.tick /\ pool.tick < high
  BY <1>1, <1>3, WindowFacts
<1>5. /\ limit \in Prices
      /\ down => limit <= pool.price
      /\ ~ down => pool.price <= limit
  <2>1. /\ MinSqrtPrice \in Nat /\ MaxSqrtPrice \in Nat /\ pool.price \in Nat
        /\ MinSqrtPrice <= pool.price /\ pool.price <= MaxSqrtPrice
    BY <1>3, PricesTyped
  <2>2. given \in Nat
    BY ClmmAssumption
  <2>3. limit \in Nat
    BY <2>1, <2>2 DEF DefaultLimit
  <2> HIDE DEF limit
  <2>4. CASE down
    BY <1>1, <2>1, <2>3, <2>4 DEF ValidLimit, Prices
  <2>5. CASE ~ down
    BY <1>1, <2>1, <2>3, <2>5 DEF ValidLimit, Prices
  <2> QED BY <2>4, <2>5
<1>6. amount \in Nat
  BY ClmmAssumption
<1> HIDE DEF limit, window, low, high
<1>7. walk' \in Walk
  BY <1>1, <1>3, <1>4, <1>5, <1>6 DEF Walk
<1>8. TypeOK'
  BY <1>1, <1>2, <1>7 DEF TypeOK
<1>9. /\ walk'.active /\ walk'.down = down /\ walk'.limit = limit /\ walk'.low = low
      /\ walk'.high = high /\ walk'.price = pool.price /\ walk'.tick = pool.tick
      /\ walk'.liquidity = pool.liquidity /\ walk'.ticks = ticks /\ ~ walk'.stalled
  BY <1>1
<1>10. Clamp(pool.tick) = pool.tick /\ MinTick <= pool.tick
  BY <1>3, ClampFacts, PriceRange
<1>11. Ranges' /\ Books'
  BY <1>1, <1>2, SamePositions DEF Books
<1>12. OnItsWay'
  <2>1. pool.price <= pool.price
    BY <1>3, PricesTyped
  <2> QED BY <1>1, <1>4, <1>5, <1>9, <1>10, <2>1 DEF OnItsWay
<1>13. TickTracksPrice'
  <2>1. TickMatches(Clamp(walk'.tick), walk'.price)
    BY <1>2, <1>9, <1>10
  <2> QED BY <1>1, <1>2, <2>1 DEF TickTracksPrice, TickMatches
<1>14. LiquidityInStep'
  BY <1>1, <1>2, <1>9, SamePositions DEF LiquidityInStep
<1> QED BY <1>8, <1>11, <1>12, <1>13, <1>14 DEF IInv

\* Where no live position begins or ends between two ticks, the same positions
\* hold both.
LEMMA SameHolders ==
  ASSUME TypeOK, Ranges, NEW a \in Int, NEW b \in Int, a <= b,
         \A r \in Live : \A x \in {r.lower, r.upper} : x <= a \/ b < x
  PROVE  LiquidityAt(a) = LiquidityAt(b)
<1> DEFINE f == [r \in Positions |-> IF r \in Live /\ Holds(r, a) THEN position[r].liquidity ELSE 0]
           g == [r \in Positions |-> IF r \in Live /\ Holds(r, b) THEN position[r].liquidity ELSE 0]
<1>1. \A r \in Positions : f[r] \in Int /\ g[r] = f[r]
  <2> SUFFICES ASSUME NEW r \in Positions PROVE f[r] \in Int /\ g[r] = f[r]
    OBVIOUS
  <2>1. r \in Live => position[r].liquidity \in Int
    <3> SUFFICES ASSUME r \in Live PROVE position[r].liquidity \in Int
      OBVIOUS
    <3>1. position[r].open
      BY DEF Live
    <3>2. position[r].liquidity \in Nat
      BY <3>1, PositionFacts
    <3> QED BY <3>2
  <2>2. r \in Live => (Holds(r, a) <=> Holds(r, b))
    <3> SUFFICES ASSUME r \in Live PROVE Holds(r, a) <=> Holds(r, b)
      OBVIOUS
    <3>1. IsTickBound(r.lower) /\ IsTickBound(r.upper)
      BY DEF Ranges, Live
    <3>2. r.lower \in Int /\ r.upper \in Int
      BY <3>1, BoundFacts
    <3>3. (r.lower <= a \/ b < r.lower) /\ (r.upper <= a \/ b < r.upper)
      OBVIOUS
    <3> QED BY <3>2, <3>3 DEF Holds
  <2> QED BY <2>1, <2>2
<1> HIDE DEF f, g
<1>2. IsFiniteSet(Positions)
  BY Parameters
<1>3. SumFunctionOnSet(g, Positions) = SumFunctionOnSet(f, Positions)
  BY <1>1, <1>2, SumSame
<1> QED BY <1>3 DEF LiquidityAt, f, g

\* Past the lowest and the highest tick nothing changes.
LEMMA SameWhenClamped ==
  ASSUME TypeOK, Ranges, NEW t \in Int
  PROVE  LiquidityAt(Clamp(t)) = LiquidityAt(t)
<1>1. Clamp(t) \in Int /\ MinTick \in Int /\ MaxTick \in Int
  BY ClampFacts, PriceRange
<1>2. \A r \in Live : \A x \in {r.lower, r.upper} : x \in Int /\ MinTick < x /\ x <= MaxTick
  <2> SUFFICES ASSUME NEW r \in Live, NEW x \in {r.lower, r.upper}
               PROVE  x \in Int /\ MinTick < x /\ x <= MaxTick
    OBVIOUS
  <2>1. IsTickBound(x)
    BY DEF Ranges, Live
  <2> QED BY <2>1, BoundFacts
<1>3. CASE t < MinTick
  <2>1. Clamp(t) = MinTick /\ t <= MinTick
    BY <1>1, <1>3, ClampFacts
  <2>2. \A r \in Live : \A x \in {r.lower, r.upper} : x <= t \/ MinTick < x
    BY <1>2
  <2> QED BY <1>1, <2>1, <2>2, SameHolders
<1>4. CASE t > MaxTick
  <2>1. Clamp(t) = MaxTick /\ MaxTick <= t
    BY <1>1, <1>4, ClampFacts
  <2>2. \A r \in Live : \A x \in {r.lower, r.upper} : x <= MaxTick \/ t < x
    BY <1>2
  <2> QED BY <1>1, <2>1, <2>2, SameHolders
<1>5. CASE t \in MinTick .. MaxTick
  BY <1>5, ClampFacts
<1> QED BY <1>1, <1>3, <1>4, <1>5

\* The two ends of a live position are initialized ticks.
LEMMA LiveBounds ==
  ASSUME TypeOK, Ranges, Books, NEW r \in Live, NEW x \in {r.lower, r.upper}
  PROVE  /\ IsTickBound(x) /\ x \in Int /\ x \in Slots
         /\ MinTick < x /\ x <= MaxTick /\ Clamp(x) = x
         /\ ticks[x].gross \in Nat /\ ticks[x].gross > 0
<1>1. r \in Positions /\ position[r].open
  BY DEF Live
<1>2. IsTickBound(x)
  BY <1>1 DEF Ranges
<1>3. x \in Int /\ x \in Slots /\ MinTick < x /\ x <= MaxTick /\ Clamp(x) = x
  BY <1>2, BoundFacts
<1> DEFINE f == [q \in Positions |-> IF x \in {q.lower, q.upper} THEN Share(q) ELSE 0]
<1>4. \A q \in Positions : f[q] \in Nat
  <2> SUFFICES ASSUME NEW q \in Positions PROVE f[q] \in Nat
    OBVIOUS
  <2>1. Share(q) \in Nat
    BY PositionFacts
  <2> QED BY <2>1
<1>5. f[r] = Share(r) /\ Share(r) > 0 /\ Share(r) \in Nat
  BY <1>1, PositionFacts
<1>6. ticks[x].gross = SumFunctionOnSet(f, Positions)
  BY <1>3 DEF Books, GrossAt
<1>7. IsFiniteSet(Positions)
  BY Parameters
<1> HIDE DEF f
<1>8. f[r] <= SumFunctionOnSet(f, Positions) /\ SumFunctionOnSet(f, Positions) \in Nat
  BY <1>1, <1>4, <1>7, TermBelowSum, SumIsNat
<1>9. ticks[x].gross \in Nat /\ ticks[x].gross > 0
  BY <1>5, <1>6, <1>8
<1> QED BY <1>2, <1>3, <1>9

\* Upwards across a tick exactly its net liquidity joins.
LEMMA CrossingAdds ==
  ASSUME TypeOK, Ranges, NEW t \in Int
  PROVE  LiquidityAt(t) = LiquidityAt(t - 1) + NetAt(t)
<1> DEFINE f == [r \in Positions |-> IF r \in Live /\ Holds(r, t - 1) THEN position[r].liquidity ELSE 0]
           g == [r \in Positions |-> IF t = r.lower THEN Share(r)
                                     ELSE IF t = r.upper THEN -Share(r) ELSE 0]
           h == [r \in Positions |-> IF r \in Live /\ Holds(r, t) THEN position[r].liquidity ELSE 0]
<1>1. \A r \in Positions : f[r] \in Int /\ g[r] \in Int /\ h[r] = f[r] + 1 * g[r]
  <2> SUFFICES ASSUME NEW r \in Positions
               PROVE  f[r] \in Int /\ g[r] \in Int /\ h[r] = f[r] + 1 * g[r]
    OBVIOUS
  <2>1. Share(r) \in Nat /\ (r \in Live <=> Share(r) > 0)
    BY PositionFacts
  <2>2. f[r] = (IF r \in Live /\ Holds(r, t - 1) THEN position[r].liquidity ELSE 0)
    OBVIOUS
  <2>3. g[r] = (IF t = r.lower THEN Share(r) ELSE IF t = r.upper THEN -Share(r) ELSE 0)
    OBVIOUS
  <2>4. h[r] = (IF r \in Live /\ Holds(r, t) THEN position[r].liquidity ELSE 0)
    OBVIOUS
  <2> HIDE DEF f, g, h
  <2>5. CASE r \notin Live
    BY <2>1, <2>2, <2>3, <2>4, <2>5
  <2>6. CASE r \in Live
    <3>1. position[r].open /\ position[r].liquidity = Share(r)
      BY <2>6 DEF Live, Share
    <3>2. r.lower \in Int /\ r.upper \in Int /\ r.lower < r.upper
      BY <3>1, BoundFacts DEF Ranges
    <3> QED BY <2>1, <2>2, <2>3, <2>4, <3>1, <3>2, <2>6 DEF Holds
  <2> QED BY <2>5, <2>6
<1>2. IsFiniteSet(Positions)
  BY Parameters
<1> HIDE DEF f, g, h
<1>3. SumFunctionOnSet(h, Positions) = SumFunctionOnSet(f, Positions) + 1 * SumFunctionOnSet(g, Positions)
  BY <1>1, <1>2, SumLinear
<1>4. SumFunctionOnSet(g, Positions) \in Int
  BY <1>1, <1>2, SumIsInt
<1> DEFINE F == SumFunctionOnSet(f, Positions)
           G == SumFunctionOnSet(g, Positions)
           H == SumFunctionOnSet(h, Positions)
<1>5. LiquidityAt(t - 1) = F /\ LiquidityAt(t) = H
  BY DEF LiquidityAt, f, h
<1>6. NetAt(t) = G
  BY DEF NetAt, g
<1>7. H = F + G
  BY <1>3, <1>4
<1> QED BY <1>5, <1>6, <1>7

LEMMA SumsTyped ==
  ASSUME TypeOK, NEW t
  PROVE  LiquidityAt(t) \in Int /\ NetAt(t) \in Int
<1>1. \A r \in Positions : Share(r) \in Nat /\ (r \in Live => position[r].liquidity = Share(r))
  BY PositionFacts DEF Live, Share
<1>2. IsFiniteSet(Positions)
  BY Parameters
<1> DEFINE f == [r \in Positions |-> IF r \in Live /\ Holds(r, t) THEN position[r].liquidity ELSE 0]
           g == [r \in Positions |-> IF t = r.lower THEN Share(r)
                                     ELSE IF t = r.upper THEN -Share(r) ELSE 0]
<1>3. \A r \in Positions : f[r] \in Int /\ g[r] \in Int
  BY <1>1
<1> HIDE DEF f, g
<1>4. SumFunctionOnSet(f, Positions) \in Int /\ SumFunctionOnSet(g, Positions) \in Int
  BY <1>2, <1>3, SumIsInt
<1> QED BY <1>4 DEF f, g, LiquidityAt, NetAt

LEMMA GrossTyped ==
  ASSUME TypeOK, NEW t
  PROVE  GrossAt(t) \in Int
<1>1. \A r \in Positions : Share(r) \in Nat
  BY PositionFacts
<1>2. IsFiniteSet(Positions)
  BY Parameters
<1> DEFINE f == [r \in Positions |-> IF t \in {r.lower, r.upper} THEN Share(r) ELSE 0]
<1>3. \A r \in Positions : f[r] \in Int
  BY <1>1
<1> HIDE DEF f
<1>4. SumFunctionOnSet(f, Positions) \in Int
  BY <1>2, <1>3, SumIsInt
<1> QED BY <1>4 DEF f, GrossAt

\* A round heads for the first end of a live position on its way, or for the
\* end of the window where none is left.
LEMMA AheadBounds ==
  ASSUME IInv, walk.active, ~ walk.stalled, NEW target \in NextTargets,
         NEW r \in Live, NEW x \in {r.lower, r.upper}
  PROVE  /\ x \in Int
         /\ walk.down => /\ x <= target \/ walk.tick < x
                         /\ target \notin InitializedAhead => x < target \/ walk.tick < x
         /\ ~ walk.down => /\ x <= walk.tick \/ target <= x
                           /\ target \notin InitializedAhead =>
                                target = walk.high /\ (x <= walk.tick \/ walk.high <= x)
<1>1. TypeOK /\ Ranges /\ Books /\ OnItsWay
  BY DEF IInv
<1>2. x \in Int /\ x \in Slots /\ Clamp(x) = x /\ ticks[x].gross \in Nat /\ ticks[x].gross > 0
  BY <1>1, LiveBounds
<1>3. Initialized(walk.ticks[x])
  BY <1>1, <1>2 DEF OnItsWay, Initialized
<1>4. walk.tick \in Int /\ walk.low \in Int /\ walk.high \in Int /\ walk.down \in BOOLEAN
  BY <1>1, WalkFacts
<1>5. Clamp(walk.tick) \in Int
  BY <1>4, ClampFacts, PriceRange
<1>6. /\ target \in Int
      /\ target \notin InitializedAhead =>
           InitializedAhead = {} /\ target = (IF walk.down THEN walk.low ELSE walk.high)
      /\ \A y \in InitializedAhead : IF walk.down THEN y <= target ELSE target <= y
      /\ target \in InitializedAhead => walk.low <= target /\ target < walk.high
  <2>1. target \in InitializedAhead => walk.low <= target /\ target < walk.high
    BY DEF InitializedAhead, Ahead
  <2> QED BY <1>1, <2>1, TargetFacts
<1>7. ASSUME walk.low <= x, x < walk.high, IF walk.down THEN x <= walk.tick ELSE x > walk.tick
      PROVE  x \in InitializedAhead
  BY <1>2, <1>3, <1>7 DEF InitializedAhead, Ahead
<1>8. ASSUME walk.down
      PROVE  /\ x <= target \/ walk.tick < x
             /\ target \notin InitializedAhead => x < target \/ walk.tick < x
  <2> SUFFICES ASSUME x <= walk.tick
               PROVE  x <= target /\ (target \notin InitializedAhead => x < target)
    BY <1>2, <1>4
  <2>1. Clamp(x) <= Clamp(walk.tick)
    BY <1>2, <1>4, ClampMonotone
  <2>2. Clamp(walk.tick) < walk.high
    BY <1>1, <1>8 DEF OnItsWay
  <2>3. x < walk.high
    BY <1>2, <1>4, <1>5, <2>1, <2>2
  <2>4. CASE x < walk.low
    BY <1>2, <1>4, <1>6, <1>8, <2>4
  <2>5. CASE walk.low <= x
    <3>1. x \in InitializedAhead
      BY <1>7, <1>8, <2>3, <2>5
    <3> QED BY <1>6, <1>8, <3>1
  <2> QED BY <1>2, <1>4, <2>4, <2>5
<1>9. ASSUME ~ walk.down
      PROVE  /\ x <= walk.tick \/ target <= x
             /\ target \notin InitializedAhead =>
                  target = walk.high /\ (x <= walk.tick \/ walk.high <= x)
  <2> SUFFICES ASSUME x > walk.tick
               PROVE  /\ target <= x
                      /\ target \notin InitializedAhead => target = walk.high /\ walk.high <= x
    BY <1>2, <1>4, <1>6, <1>9
  <2>1. Clamp(walk.tick) <= Clamp(x)
    BY <1>2, <1>4, ClampMonotone
  <2>2. walk.low <= Clamp(walk.tick)
    BY <1>1, <1>9 DEF OnItsWay
  <2>3. walk.low <= x
    BY <1>2, <1>4, <1>5, <2>1, <2>2
  <2>4. CASE walk.high <= x
    BY <1>2, <1>4, <1>6, <1>9, <2>4
  <2>5. CASE x < walk.high
    <3>1. x \in InitializedAhead
      BY <1>7, <1>9, <2>3, <2>5
    <3> QED BY <1>6, <1>9, <3>1
  <2> QED BY <1>2, <1>4, <2>4, <2>5
<1> QED BY <1>2, <1>8, <1>9

-----------------------------------------------------------------------------
(* A round of a swap.                                                      *)

\* Where a round leaves the tick, its price matches it.
LEMMA RoundTracks ==
  ASSUME IInv, walk.active, NEW target \in NextTargets
  PROVE  TickMatches(Clamp(TickAfter(target)), Step(target).price)
<1>1. TypeOK /\ OnItsWay /\ TickTracksPrice
  BY DEF IInv
<1>2. target \in Int /\ walk.down \in BOOLEAN /\ walk.low \in Int
  BY <1>1, TargetFacts, WalkFacts
<1>3. PICK s : s = Step(target)
  OBVIOUS
<1>4. PICK b : b = Bound(target)
  OBVIOUS
<1>5. /\ s.price \in Prices
      /\ walk.down => s.price <= walk.price
      /\ ~ walk.down => walk.price <= s.price
  BY <1>3, <1>4, RoundFacts
<1>6. ASSUME Arrives(target) PROVE TickMatches(Clamp(TickAfter(target)), s.price)
  <2>1. s.price = SqrtPrice[Clamp(target)]
    BY <1>3, <1>6 DEF Arrives, Bound
  <2>2. Clamp(target) \in MinTick .. MaxTick /\ Clamp(target - 1) \in MinTick .. MaxTick
    BY <1>2, ClampFacts
  <2>3. TickAtSqrtPrice(s.price) = Clamp(target)
    BY <2>1, <2>2, TickOfTickPrice
  <2>4. TickAfter(target) = IF walk.down THEN target - 1 ELSE target
    BY <1>6, TickAfterFacts
  <2>5. CASE ~ walk.down
    BY <2>3, <2>4, <2>5 DEF TickMatches
  <2>6. CASE walk.down
    <3>1. target % TickSpacing = 0
      <4>1. target \in Slots \/ target = walk.low
        BY <1>1, <2>6, TargetFacts
      <4>2. walk.low % TickSpacing = 0
        BY <1>1 DEF OnItsWay
      <4> QED BY <4>1, <4>2 DEF Slots
    <3>2. target # MinTick
      BY <3>1, ClmmAssumption
    <3>3. MinTick \in Int /\ MaxTick \in Int /\ MinTick < MaxTick
      BY PriceRange
    <3>4. CASE target < MinTick \/ target > MaxTick
      <4>1. Clamp(target - 1) = Clamp(target)
        BY <1>2, <3>3, <3>4 DEF Clamp, MaxOf, MinOf
      <4> QED BY <2>3, <2>4, <2>6, <4>1 DEF TickMatches
    <3>5. CASE MinTick < target /\ target <= MaxTick
      <4>1. Clamp(target) = target /\ Clamp(target - 1) = target - 1
        BY <1>2, <3>3, <3>5 DEF Clamp, MaxOf, MinOf
      <4>2. target - 1 + 1 = target
        BY <1>2
      <4> QED BY <2>1, <2>3, <2>4, <2>6, <3>1, <4>1, <4>2 DEF TickMatches
    <3> QED BY <1>2, <3>2, <3>3, <3>4, <3>5
  <2> QED BY <1>2, <2>5, <2>6
<1>7. ASSUME ~ Arrives(target) PROVE TickMatches(Clamp(TickAfter(target)), s.price)
  <2>1. CASE TickAfter(target) = TickAtSqrtPrice(s.price)
    <3>1. TickAtSqrtPrice(s.price) \in MinTick .. MaxTick
      BY <1>5, TickOfPrice
    <3>2. Clamp(TickAtSqrtPrice(s.price)) = TickAtSqrtPrice(s.price)
      BY <3>1, ClampFacts, PriceRange
    <3> QED BY <2>1, <3>2 DEF TickMatches
  <2>2. CASE TickAfter(target) = walk.tick /\ s.price = pool.price
    <3>1. pool.price \in Nat /\ walk.price \in Nat
      BY <1>1, PoolFacts, WalkFacts, PricesTyped
    <3>2. walk.price = s.price
      BY <1>1, <1>2, <1>5, <2>2, <3>1 DEF OnItsWay
    <3> QED BY <1>1, <2>2, <3>2 DEF TickTracksPrice
  <2> QED BY <1>3, <1>7, <2>1, <2>2, TickAfterFacts
<1> QED BY <1>3, <1>6, <1>7

\* A round that does not stall moves the tick only the way of the swap.
LEMMA RoundMoves ==
  ASSUME IInv, walk.active, NEW target \in NextTargets
  PROVE  /\ ~ walk.down => Clamp(walk.tick) <= Clamp(TickAfter(target))
                           /\ (MinTick <= TickAfter(target))
         /\ walk.down /\ ~ Stalls(target) => Clamp(TickAfter(target)) <= Clamp(walk.tick)
<1>1. TypeOK /\ OnItsWay /\ TickTracksPrice
  BY DEF IInv
<1>2. /\ target \in Int /\ walk.down \in BOOLEAN /\ walk.tick \in Int /\ walk.price \in Prices
      /\ walk.down => target <= walk.tick
      /\ ~ walk.down => walk.tick < target
  BY <1>1, TargetFacts, WalkFacts
<1>3. PICK s : s = Step(target)
  OBVIOUS
<1>4. PICK b : b = Bound(target)
  OBVIOUS
<1>5. /\ s.price \in Prices
      /\ walk.down => s.price <= walk.price
      /\ ~ walk.down => walk.price <= s.price
  BY <1>3, <1>4, RoundFacts
<1>6. MinTick \in Int /\ MaxTick \in Int /\ Clamp(walk.tick) \in MinTick .. MaxTick
      /\ TickMatches(Clamp(walk.tick), walk.price)
      /\ (~ walk.down => MinTick <= walk.tick)
  BY <1>1, <1>2, ClampFacts, PriceRange DEF OnItsWay, TickTracksPrice
<1>7. TickAtSqrtPrice(s.price) \in MinTick .. MaxTick
  BY <1>5, TickOfPrice
<1>8. Clamp(TickAtSqrtPrice(s.price)) = TickAtSqrtPrice(s.price)
      /\ TickAtSqrtPrice(s.price) \in Int
  BY <1>6, <1>7, ClampFacts
<1>9. Clamp(walk.tick) <= TickAtSqrtPrice(walk.price)
      /\ TickAtSqrtPrice(walk.price) \in MinTick .. MaxTick
  BY <1>2, <1>6, MatchFacts, TickOfPrice
<1>10. CASE Arrives(target)
  <2>1. TickAfter(target) = IF walk.down THEN target - 1 ELSE target
    BY <1>10, TickAfterFacts
  <2>2. CASE walk.down
    <3>1. Clamp(target - 1) <= Clamp(walk.tick)
      BY <1>2, <2>2, ClampMonotone
    <3> QED BY <2>1, <2>2, <3>1
  <2>3. CASE ~ walk.down
    <3>1. Clamp(walk.tick) <= Clamp(target)
      BY <1>2, <2>3, ClampMonotone
    <3> QED BY <1>2, <1>6, <2>1, <2>3, <3>1
  <2> QED BY <1>2, <2>2, <2>3
<1>11. CASE ~ Arrives(target) /\ TickAfter(target) = walk.tick
  BY <1>6, <1>11
<1>12. CASE ~ Arrives(target) /\ TickAfter(target) # walk.tick
  <2>1. TickAfter(target) = TickAtSqrtPrice(s.price)
    BY <1>3, <1>12, TickAfterFacts
  <2>2. CASE walk.down
    <3> SUFFICES ASSUME ~ Stalls(target)
                 PROVE  Clamp(TickAfter(target)) <= Clamp(walk.tick)
      BY <2>2
    <3>1. s.price # walk.price
      BY <1>3, <1>12 DEF Stalls
    <3>2. s.price \in Nat /\ walk.price \in Nat
      BY <1>2, <1>5, PricesTyped
    <3>3. s.price < walk.price
      BY <1>5, <2>2, <3>1, <3>2
    <3>4. TickAtSqrtPrice(s.price) <= Clamp(walk.tick)
      BY <1>2, <1>5, <1>6, <3>3, MatchFacts
    <3> QED BY <1>8, <2>1, <3>4
  <2>3. CASE ~ walk.down
    <3>1. TickAtSqrtPrice(walk.price) <= TickAtSqrtPrice(s.price)
      BY <1>2, <1>5, <2>3, TicksMonotone
    <3>2. TickAtSqrtPrice(walk.price) \in Int /\ Clamp(walk.tick) \in Int
      BY <1>6, <1>9
    <3>3. Clamp(walk.tick) <= TickAtSqrtPrice(s.price) /\ MinTick <= TickAtSqrtPrice(s.price)
      BY <1>7, <1>8, <1>9, <3>1, <3>2
    <3> QED BY <1>8, <2>1, <2>3, <3>3
  <2> QED BY <1>2, <2>2, <2>3
<1> QED BY <1>10, <1>11, <1>12

\* A round that arrives leaves the liquidity of the positions that hold the
\* tick it arrives at.
LEMMA ArrivalInStep ==
  ASSUME IInv, walk.active, ~ walk.stalled, walk.liquidity = LiquidityAt(walk.tick),
         NEW target \in NextTargets, Arrives(target), ~ Refused(target)
  PROVE  LiquidityAfter(target) = LiquidityAt(TickAfter(target))
<1>1. TypeOK /\ Ranges /\ Books /\ OnItsWay
  BY DEF IInv
<1>2. /\ target \in Int /\ walk.down \in BOOLEAN /\ walk.tick \in Int
      /\ walk.down => target <= walk.tick
      /\ ~ walk.down => walk.tick < target
      /\ target \notin InitializedAhead => target = IF walk.down THEN walk.low ELSE walk.high
  BY <1>1, TargetFacts, WalkFacts
<1>3. TickAfter(target) = IF walk.down THEN target - 1 ELSE target
  BY TickAfterFacts
<1>4. CASE target \in InitializedAhead
  <2>1. target \in Slots
    BY <1>1, <1>4, TargetFacts
  <2>2. walk.ticks[target].net = NetAt(target)
    BY <1>1, <2>1 DEF OnItsWay, Books
  <2>3. LiquidityAfter(target) =
          IF walk.down THEN walk.liquidity - NetAt(target) ELSE walk.liquidity + NetAt(target)
    BY <1>4, <2>2 DEF LiquidityAfter, Crosses
  <2>4. LiquidityAt(target) = LiquidityAt(target - 1) + NetAt(target)
    BY <1>1, <1>2, CrossingAdds
  <2>5. LiquidityAt(target) \in Int /\ LiquidityAt(target - 1) \in Int /\ NetAt(target) \in Int
    BY <1>1, SumsTyped
  <2>6. CASE walk.down
    <3>1. \A r \in Live : \A x \in {r.lower, r.upper} : x <= target \/ walk.tick < x
      BY <2>6, AheadBounds
    <3>2. LiquidityAt(target) = LiquidityAt(walk.tick)
      BY <1>1, <1>2, <2>6, <3>1, SameHolders
    <3> QED BY <1>3, <2>3, <2>4, <2>5, <2>6, <3>2
  <2>7. CASE ~ walk.down
    <3>1. \A r \in Live : \A x \in {r.lower, r.upper} : x <= walk.tick \/ target - 1 < x
      <4> SUFFICES ASSUME NEW r \in Live, NEW x \in {r.lower, r.upper}
                   PROVE  x <= walk.tick \/ target - 1 < x
        OBVIOUS
      <4>1. x \in Int /\ (x <= walk.tick \/ target <= x)
        BY <2>7, AheadBounds
      <4> QED BY <1>2, <4>1
    <3>2. walk.tick <= target - 1 /\ target - 1 \in Int
      BY <1>2, <2>7
    <3>3. LiquidityAt(walk.tick) = LiquidityAt(target - 1)
      BY <1>1, <1>2, <3>1, <3>2, SameHolders
    <3> QED BY <1>3, <2>3, <2>4, <2>5, <2>7, <3>3
  <2> QED BY <1>2, <2>6, <2>7
<1>5. CASE target \notin InitializedAhead
  <2>1. LiquidityAfter(target) = walk.liquidity
    BY <1>5 DEF LiquidityAfter, Crosses
  <2>2. CASE walk.down
    <3>1. \A r \in Live : \A x \in {r.lower, r.upper} : x <= target - 1 \/ walk.tick < x
      <4> SUFFICES ASSUME NEW r \in Live, NEW x \in {r.lower, r.upper}
                   PROVE  x <= target - 1 \/ walk.tick < x
        OBVIOUS
      <4>1. x \in Int /\ (x < target \/ walk.tick < x)
        BY <1>5, <2>2, AheadBounds
      <4> QED BY <1>2, <4>1
    <3>2. target - 1 <= walk.tick /\ target - 1 \in Int
      BY <1>2, <2>2
    <3>3. LiquidityAt(target - 1) = LiquidityAt(walk.tick)
      BY <1>1, <1>2, <3>1, <3>2, SameHolders
    <3> QED BY <1>3, <2>1, <2>2, <3>3
  <2>3. CASE ~ walk.down
    <3>1. target = walk.high /\ MaxTick \in Int
      BY <1>2, <1>5, <2>3, PriceRange
    <3>2. MaxTick < target
      BY <1>2, <3>1 DEF Refused, PastWindow
    <3>3. \A r \in Live : \A x \in {r.lower, r.upper} : x <= walk.tick \/ target < x
      <4> SUFFICES ASSUME NEW r \in Live, NEW x \in {r.lower, r.upper}
                   PROVE  x <= walk.tick \/ target < x
        OBVIOUS
      <4>1. x \in Int /\ (x <= walk.tick \/ target <= x)
        BY <2>3, AheadBounds
      <4>2. x <= MaxTick
        BY <1>1, LiveBounds
      <4> QED BY <1>2, <3>1, <3>2, <4>1, <4>2
    <3>4. walk.tick <= target
      BY <1>2, <2>3
    <3>5. LiquidityAt(walk.tick) = LiquidityAt(target)
      BY <1>1, <1>2, <3>3, <3>4, SameHolders
    <3> QED BY <1>3, <2>1, <2>3, <3>5
  <2> QED BY <1>2, <2>2, <2>3
<1> QED BY <1>4, <1>5

\* A round that stops between two ticks passes no end of a live position.
LEMMA StopSides ==
  ASSUME IInv, walk.active, ~ walk.stalled, NEW target \in NextTargets,
         ~ Arrives(target), ~ Stalls(target), NEW r \in Live, NEW x \in {r.lower, r.upper}
  PROVE  x <= walk.tick <=> x <= TickAfter(target)
<1>1. TypeOK /\ Ranges /\ Books /\ OnItsWay /\ TickTracksPrice
  BY DEF IInv
<1>2. /\ target \in Int /\ walk.down \in BOOLEAN /\ walk.tick \in Int /\ walk.price \in Prices
      /\ walk.down => target <= walk.tick
      /\ ~ walk.down => walk.tick < target
  BY <1>1, TargetFacts, WalkFacts
<1>4. PICK s : s = Step(target)
  OBVIOUS
<1>5. PICK b : b = Bound(target)
  OBVIOUS
<1>6. /\ s.price \in Prices
      /\ walk.down => b <= s.price /\ s.price <= walk.price
      /\ ~ walk.down => walk.price <= s.price /\ s.price <= b
  BY <1>4, <1>5, RoundFacts
<1>7. CASE TickAfter(target) = walk.tick
  BY <1>7
<1>8. CASE TickAfter(target) # walk.tick
  <2> DEFINE now == Clamp(walk.tick)
             end == Clamp(target)
             tick == TickAtSqrtPrice(s.price)
  <2>1. TickAfter(target) = tick
    BY <1>4, <1>8, TickAfterFacts
  <2>2. s.price # walk.price /\ s.price # b
    BY <1>4, <1>5, <1>8 DEF Stalls, Arrives
  <2>3. s.price \in Nat /\ walk.price \in Nat
    BY <1>2, <1>6, PricesTyped
  <2>4. now \in MinTick .. MaxTick /\ end \in MinTick .. MaxTick /\ tick \in MinTick .. MaxTick
    BY <1>2, <1>6, ClampFacts, TickOfPrice
  <2>5. now \in Int /\ end \in Int /\ tick \in Int
    BY <2>4, PriceRange
  <2>6. b = SqrtPrice[end] /\ b \in Nat
    BY <1>5, <2>4, PriceRange DEF Bound
  <2>7. TickMatches(now, walk.price)
    BY <1>1 DEF TickTracksPrice
  <2>8. end <= tick <=> b <= s.price
    BY <1>6, <2>4, <2>6, TickOfPrice
  <2>9. x \in Int /\ Clamp(x) = x /\ MinTick < x /\ x <= MaxTick
    BY <1>1, LiveBounds
  <2>10. x <= walk.tick <=> x <= now
    BY <1>2, <2>9, PriceRange DEF Clamp, MaxOf, MinOf
  <2>11. (x <= target => x <= end) /\ (target <= x => end <= x)
    BY <1>2, <2>9, ClampMonotone
  <2> HIDE DEF now, end, tick
  <2>12. CASE walk.down
    <3>1. s.price < walk.price /\ b <= s.price
      BY <1>6, <2>2, <2>3, <2>6, <2>12
    <3>2. end <= tick
      BY <2>8, <3>1
    <3>3. tick <= now
      BY <1>2, <1>6, <2>4, <2>7, <3>1, MatchFacts DEF tick
    <3>4. x <= target \/ walk.tick < x
      BY <2>12, AheadBounds
    <3>5. x <= end \/ ~ (x <= walk.tick)
      BY <1>2, <2>9, <2>11, <3>4
    <3> QED BY <2>1, <2>5, <2>9, <2>10, <3>2, <3>3, <3>5
  <2>13. CASE ~ walk.down
    <3>1. walk.price <= s.price /\ s.price < b
      BY <1>6, <2>2, <2>3, <2>6, <2>13
    <3>2. tick < end
      BY <2>3, <2>5, <2>6, <2>8, <3>1
    <3>3. now <= TickAtSqrtPrice(walk.price)
      BY <1>2, <2>4, <2>7, MatchFacts
    <3>4. TickAtSqrtPrice(walk.price) <= tick
      BY <1>2, <1>6, <3>1, TicksMonotone DEF tick
    <3>5. TickAtSqrtPrice(walk.price) \in Int
      BY <1>2, TickOfPrice, PriceRange
    <3>6. now <= tick
      BY <2>5, <3>3, <3>4, <3>5
    <3>7. x <= walk.tick \/ target <= x
      BY <2>13, AheadBounds
    <3>8. x <= walk.tick \/ end <= x
      BY <2>11, <3>7
    <3> QED BY <2>1, <2>5, <2>9, <2>10, <3>2, <3>6, <3>8
  <2> QED BY <1>2, <2>12, <2>13
<1> QED BY <1>7, <1>8

\* So it stays among the same positions.
LEMMA StopInStep ==
  ASSUME IInv, walk.active, ~ walk.stalled, walk.liquidity = LiquidityAt(walk.tick),
         NEW target \in NextTargets, ~ Arrives(target), ~ Stalls(target)
  PROVE  LiquidityAfter(target) = LiquidityAt(TickAfter(target))
<1>1. TypeOK /\ Ranges /\ Books
  BY DEF IInv
<1>2. walk.tick \in Int /\ TickAfter(target) \in Int
  BY <1>1, WalkFacts, TickAfterFacts
<1>3. LiquidityAfter(target) = walk.liquidity
  BY DEF LiquidityAfter, Crosses
<1>4. \A r \in Live : \A x \in {r.lower, r.upper} :
        x \in Int /\ (x <= walk.tick <=> x <= TickAfter(target))
  BY <1>1, LiveBounds, StopSides
<1>5. CASE walk.tick <= TickAfter(target)
  <2>1. \A r \in Live : \A x \in {r.lower, r.upper} : x <= walk.tick \/ TickAfter(target) < x
    BY <1>2, <1>4
  <2> QED BY <1>1, <1>2, <1>3, <1>5, <2>1, SameHolders
<1>6. CASE TickAfter(target) <= walk.tick
  <2>1. \A r \in Live : \A x \in {r.lower, r.upper} : x <= TickAfter(target) \/ walk.tick < x
    BY <1>2, <1>4
  <2> QED BY <1>1, <1>2, <1>3, <1>6, <2>1, SameHolders
<1> QED BY <1>2, <1>5, <1>6

LEMMA AdvanceInv ==
  ASSUME IInv, Advance
  PROVE  IInv'
<1>1. TypeOK /\ Ranges /\ Books /\ OnItsWay /\ TickTracksPrice /\ LiquidityInStep
  BY DEF IInv
<1>2. PICK target \in NextTargets :
           /\ walk.active /\ Running /\ ~ Refused(target)
           /\ walk' \in Walk /\ walk'.active
           /\ walk'.down = walk.down /\ walk'.limit = walk.limit
           /\ walk'.low = walk.low /\ walk'.high = walk.high
           /\ walk'.price = Step(target).price
           /\ walk'.tick = TickAfter(target)
           /\ walk'.liquidity = LiquidityAfter(target)
           /\ \E growth \in Growth : walk'.ticks = TicksAfter(target, growth)
           /\ walk'.stalled = (walk.stalled \/ Stalls(target))
           /\ UNCHANGED <<pool, arrays, ticks, position, vault, stalled, changes, swaps>>
  <2>1. PICK target \in NextTargets :
           LET s == Step(target) IN
           /\ walk.active /\ Running /\ ~ Refused(target)
           /\ walk' \in Walk /\ walk'.active
           /\ walk'.down = walk.down /\ walk'.limit = walk.limit
           /\ walk'.low = walk.low /\ walk'.high = walk.high
           /\ walk'.price = s.price
           /\ walk'.tick = TickAfter(target)
           /\ walk'.liquidity = LiquidityAfter(target)
           /\ walk'.ticks = TicksAfter(target, GrowthAfter(s.fee))
           /\ walk'.stalled = (walk.stalled \/ Stalls(target))
           /\ UNCHANGED <<pool, arrays, ticks, position, vault, stalled, changes, swaps>>
    BY RoundEffect
  <2>2. Step(target).fee \in Nat /\ (Step(target).fee > 0 => walk.liquidity > 0)
    BY <2>1, RoundFacts
  <2>3. GrowthAfter(Step(target).fee) \in Growth
    BY <1>1, <2>1, <2>2, GrowthAfterTyped
  <2> QED BY <2>1, <2>3
<1>3. /\ walk.down \in BOOLEAN /\ walk.stalled \in BOOLEAN /\ walk.tick \in Int
      /\ walk.price \in Prices /\ walk.limit \in Prices /\ pool.price \in Prices
      /\ walk.low \in Int /\ walk.high \in Int /\ target \in Int
      /\ walk.ticks \in [Slots -> TickState]
  BY <1>1, <1>2, WalkFacts, PoolFacts, TargetFacts
<1>4. TypeOK'
  BY <1>1, <1>2 DEF TypeOK
<1>5. Ranges' /\ Books'
  BY <1>1, <1>2, SamePositions DEF Books
<1>6. OnItsWay'
  <2>1. \A t \in Slots : walk'.ticks[t].gross = ticks'[t].gross /\ walk'.ticks[t].net = ticks'[t].net
    <3> SUFFICES ASSUME NEW t \in Slots
                 PROVE  walk'.ticks[t].gross = ticks[t].gross /\ walk'.ticks[t].net = ticks[t].net
      BY <1>2
    <3>1. walk.ticks[t].gross = ticks[t].gross /\ walk.ticks[t].net = ticks[t].net
      BY <1>1, <1>2 DEF OnItsWay
    <3>2. PICK growth \in Growth : walk'.ticks = TicksAfter(target, growth)
      BY <1>2
    <3>3. walk'.ticks[t] = walk.ticks[t] \/ walk'.ticks[t] = Crossed(walk.ticks[t], growth)
      BY <1>3, <3>2 DEF TicksAfter
    <3>4. walk.ticks[t] \in TickState
      BY <1>3
    <3> QED BY <3>1, <3>3, <3>4, CrossedTyped
  <2>2. walk'.low % TickSpacing = 0
    BY <1>1, <1>2 DEF OnItsWay
  <2>3. PICK s : s = Step(target)
    OBVIOUS
  <2>4. PICK b : b = Bound(target)
    OBVIOUS
  <2>5. /\ s.price \in Prices
        /\ walk.down => walk.limit <= s.price /\ s.price <= walk.price
        /\ ~ walk.down => walk.price <= s.price /\ s.price <= walk.limit
    BY <1>2, <2>3, <2>4, RoundFacts
  <2>6. s.price \in Nat /\ walk.price \in Nat /\ walk.limit \in Nat /\ pool.price \in Nat
    BY <1>3, <2>5, PricesTyped
  <2>7. /\ ~ walk.down => Clamp(walk.tick) <= Clamp(TickAfter(target))
                          /\ MinTick <= TickAfter(target)
        /\ walk.down /\ ~ Stalls(target) => Clamp(TickAfter(target)) <= Clamp(walk.tick)
    BY <1>2, RoundMoves
  <2>8. TickAfter(target) \in Int
    BY <1>2, TickAfterFacts
  <2>9. Clamp(walk.tick) \in Int /\ Clamp(TickAfter(target)) \in Int
    BY <1>3, <2>8, ClampFacts, PriceRange
  <2>10. ASSUME walk.down
         PROVE  walk'.limit <= walk'.price /\ walk'.price <= pool'.price
    BY <1>1, <1>2, <2>3, <2>5, <2>6, <2>10 DEF OnItsWay
  <2>11. ASSUME ~ walk.down
         PROVE  /\ pool'.price <= walk'.price /\ walk'.price <= walk'.limit
                /\ MinTick <= walk'.tick /\ walk'.low <= Clamp(walk'.tick)
    <3>1. pool.price <= walk.price /\ walk.low <= Clamp(walk.tick)
      BY <1>1, <1>2, <2>11 DEF OnItsWay
    <3> QED BY <1>2, <1>3, <2>3, <2>5, <2>6, <2>7, <2>9, <2>11, <3>1
  <2>12. ASSUME walk.down, ~ walk'.stalled
         PROVE  Clamp(walk'.tick) < walk'.high
    <3>1. Clamp(walk.tick) < walk.high
      BY <1>1, <1>2, <2>12 DEF OnItsWay
    <3>2. ~ Stalls(target)
      BY <1>2, <2>12
    <3>3. Clamp(TickAfter(target)) <= Clamp(walk.tick)
      BY <2>7, <2>12, <3>2
    <3>4. Clamp(TickAfter(target)) < walk.high
      BY <1>3, <2>9, <3>1, <3>3
    <3> QED BY <1>2, <3>4
  <2> QED BY <1>2, <2>1, <2>2, <2>10, <2>11, <2>12 DEF OnItsWay
<1>7. TickTracksPrice'
  <2>1. TickMatches(Clamp(walk'.tick), walk'.price)
    BY <1>2, RoundTracks
  <2>2. TickMatches(pool'.tick, pool'.price)
    BY <1>1, <1>2 DEF TickTracksPrice
  <2> QED BY <2>1, <2>2 DEF TickTracksPrice, TickMatches
<1>8. LiquidityInStep'
  <2>1. \A t : LiquidityAt(t)' = LiquidityAt(t)
    BY <1>2, SamePositions
  <2>2. ASSUME ~ stalled PROVE pool.liquidity = LiquidityAt(pool.tick)
    BY <1>1, <2>2 DEF LiquidityInStep
  <2>3. ASSUME ~ stalled, ~ walk'.stalled
        PROVE  walk'.liquidity = LiquidityAt(walk'.tick)
    <3>1. ~ walk.stalled /\ ~ Stalls(target)
      BY <1>2, <2>3
    <3>2. walk.liquidity = LiquidityAt(walk.tick)
      BY <1>1, <1>2, <2>3, <3>1 DEF LiquidityInStep
    <3> QED BY <1>2, <3>1, <3>2, ArrivalInStep, StopInStep
  <2> QED BY <1>2, <2>1, <2>2, <2>3 DEF LiquidityInStep
<1> QED BY <1>4, <1>5, <1>6, <1>7, <1>8 DEF IInv

-----------------------------------------------------------------------------
(* The other steps.                                                        *)

LEMMA SettleInv ==
  ASSUME IInv, SettleSwap
  PROVE  IInv'
<1>1. TypeOK /\ Ranges /\ Books /\ OnItsWay /\ TickTracksPrice /\ LiquidityInStep
  BY DEF IInv
<1>2. /\ walk.active /\ walk.out <= vault[1 - InToken]
      /\ pool' = [price |-> walk.price, tick |-> Clamp(walk.tick),
                  liquidity |-> walk.liquidity, growth |-> walk.growth]
      /\ ticks' = walk.ticks
      /\ vault' = [t \in Token |-> IF t = InToken THEN vault[t] + walk.in + walk.fee
                                   ELSE vault[t] - walk.out]
      /\ walk' = Idle /\ stalled' = (stalled \/ walk.stalled) /\ swaps' = swaps + 1
      /\ UNCHANGED <<arrays, position, changes>>
  BY DEF SettleSwap, EndTick
<1>3. /\ walk.price \in Prices /\ walk.tick \in Int /\ walk.liquidity \in Nat
      /\ walk.growth \in Growth /\ walk.ticks \in [Slots -> TickState]
      /\ walk.in \in Nat /\ walk.out \in Nat /\ walk.fee \in Nat /\ walk.stalled \in BOOLEAN
  BY <1>1, <1>2, WalkFacts
<1>4. Clamp(walk.tick) \in MinTick .. MaxTick
  BY <1>3, ClampFacts
<1>5. vault' \in Amounts
  <2> SUFFICES ASSUME NEW t \in Token
               PROVE  (IF t = InToken THEN vault[t] + walk.in + walk.fee
                       ELSE vault[t] - walk.out) \in Nat
    BY <1>2 DEF Amounts
  <2>1. vault[0] \in Nat /\ vault[1] \in Nat
    BY <1>1 DEF TypeOK, Amounts, Token
  <2>2. (t = 0 \/ t = 1) /\ (InToken = 0 \/ InToken = 1)
    BY DEF Token, InToken
  <2>3. CASE t = InToken
    BY <1>3, <2>1, <2>2, <2>3
  <2>4. CASE t # InToken
    <3>1. t = 1 - InToken
      BY <2>2, <2>4
    <3>2. walk.out <= vault[t] /\ vault[t] \in Nat
      BY <1>2, <2>1, <2>2, <3>1
    <3> QED BY <1>3, <2>4, <3>2
  <2> QED BY <2>3, <2>4
<1>6. pool' \in [price : Prices, tick : MinTick .. MaxTick, liquidity : Nat, growth : Growth]
  BY <1>2, <1>3, <1>4
<1>7. TypeOK'
  <2>1. walk' \in Walk \cup {Idle} /\ ticks' \in [Slots -> TickState]
    BY <1>2, <1>3
  <2>2. stalled' \in BOOLEAN /\ swaps' \in Nat
    BY <1>1, <1>2, <1>3 DEF TypeOK
  <2> QED BY <1>1, <1>2, <1>5, <1>6, <2>1, <2>2 DEF TypeOK
<1>8. Ranges' /\ Books'
  <2>1. Ranges' /\ \A t : GrossAt(t)' = GrossAt(t) /\ NetAt(t)' = NetAt(t)
    BY <1>1, <1>2, SamePositions
  <2>2. \A t \in Slots : ticks'[t].gross = ticks[t].gross /\ ticks'[t].net = ticks[t].net
    BY <1>1, <1>2 DEF OnItsWay
  <2> QED BY <1>1, <2>1, <2>2 DEF Books
<1>9. ~ walk'.active
  BY <1>2 DEF Idle
<1>10. OnItsWay' 
  BY <1>9 DEF OnItsWay
<1>11. TickTracksPrice'
  <2>1. TickMatches(Clamp(walk.tick), walk.price)
    BY <1>1, <1>2 DEF TickTracksPrice
  <2>2. pool'.tick = Clamp(walk.tick) /\ pool'.price = walk.price
    BY <1>2
  <2> QED BY <1>9, <2>1, <2>2 DEF TickTracksPrice, TickMatches
<1>12. LiquidityInStep'
  <2>1. \A t : LiquidityAt(t)' = LiquidityAt(t)
    BY <1>2, SamePositions
  <2>2. ASSUME ~ stalled' PROVE walk.liquidity = LiquidityAt(Clamp(walk.tick))
    <3>1. walk.liquidity = LiquidityAt(walk.tick)
      BY <1>1, <1>2, <2>2 DEF LiquidityInStep
    <3> QED BY <1>1, <1>3, <3>1, SameWhenClamped
  <2>3. pool'.tick = Clamp(walk.tick) /\ pool'.liquidity = walk.liquidity
    BY <1>2
  <2> QED BY <1>9, <2>1, <2>2, <2>3 DEF LiquidityInStep
<1> QED BY <1>7, <1>8, <1>10, <1>11, <1>12 DEF IInv

\* A swap thrown away, or an array added: the positions, the pool and the ticks
\* stay as they are.
LEMMA IdleInv ==
  ASSUME IInv, TypeOK', ~ walk'.active, UNCHANGED <<pool, ticks, position, stalled>>
  PROVE  IInv'
<1>1. TypeOK /\ Ranges /\ Books /\ TickTracksPrice /\ LiquidityInStep
  BY DEF IInv
<1>2. /\ Ranges'
      /\ \A t : GrossAt(t)' = GrossAt(t) /\ NetAt(t)' = NetAt(t)
                /\ LiquidityAt(t)' = LiquidityAt(t)
  BY <1>1, SamePositions
<1>3. Books'
  BY <1>1, <1>2 DEF Books
<1>4. TickTracksPrice'
  BY <1>1 DEF TickTracksPrice, TickMatches
<1>5. LiquidityInStep'
  BY <1>1, <1>2 DEF LiquidityInStep
<1> QED BY <1>2, <1>3, <1>4, <1>5 DEF IInv, OnItsWay

LEMMA SharesNext ==
  ASSUME TypeOK', NEW r \in Positions
  PROVE  /\ Share(r)' \in Nat
         /\ r \in Live' <=> Share(r)' > 0
         /\ r \in Live' => position'[r].liquidity = Share(r)'
<1>1. \/ position'[r] \in [open : {TRUE}, liquidity : Nat, last : Growth, owed : Amounts]
      \/ position'[r] = NoPosition
  BY DEF TypeOK
<1>2. CASE position'[r] = NoPosition
  BY <1>2 DEF NoPosition, Share, Live
<1>3. CASE position'[r] \in [open : {TRUE}, liquidity : Nat, last : Growth, owed : Amounts]
  BY <1>3 DEF Share, Live
<1> QED BY <1>1, <1>2, <1>3

\* When one position gains or loses liquidity, so do its two ticks and the
\* liquidity at every tick it holds.
LEMMA ShareMoves ==
  ASSUME TypeOK, TypeOK', NEW r \in Positions, NEW delta \in Int,
         Share(r)' = Share(r) + delta,
         \A q \in Positions \ {r} : Share(q)' = Share(q), NEW t
  PROVE  /\ GrossAt(t)' = GrossAt(t) + (IF t \in {r.lower, r.upper} THEN delta ELSE 0)
         /\ NetAt(t)' = NetAt(t) + (IF t = r.lower THEN delta
                                    ELSE IF t = r.upper THEN -delta ELSE 0)
         /\ LiquidityAt(t)' = LiquidityAt(t) + (IF Holds(r, t) THEN delta ELSE 0)
<1>1. \A q \in Positions : Share(q) \in Nat /\ Share(q)' \in Nat
  BY PositionFacts, SharesNext
<1>2. IsFiniteSet(Positions)
  BY Parameters
<1>3. \A q \in Positions : /\ q \in Live <=> Share(q) > 0
                           /\ q \in Live' <=> Share(q)' > 0
                           /\ q \in Live => position[q].liquidity = Share(q)
                           /\ q \in Live' => position'[q].liquidity = Share(q)'
  BY PositionFacts, SharesNext DEF Live, Share
<1>4. GrossAt(t)' = GrossAt(t) + (IF t \in {r.lower, r.upper} THEN delta ELSE 0)
  <2> DEFINE f == [q \in Positions |-> IF t \in {q.lower, q.upper} THEN Share(q) ELSE 0]
             g == [q \in Positions |-> IF t \in {q.lower, q.upper} THEN Share(q)' ELSE 0]
  <2>1. /\ \A q \in Positions : f[q] \in Int /\ g[q] \in Int
        /\ \A q \in Positions \ {r} : g[q] = f[q]
        /\ g[r] - f[r] = IF t \in {r.lower, r.upper} THEN delta ELSE 0
    BY <1>1
  <2> HIDE DEF f, g
  <2>2. SumFunctionOnSet(g, Positions) = SumFunctionOnSet(f, Positions) + (g[r] - f[r])
    BY <1>2, <2>1, SumChanged
  <2>3. GrossAt(t) = SumFunctionOnSet(f, Positions)
    BY DEF GrossAt, f
  <2>4. GrossAt(t)' = SumFunctionOnSet(g, Positions)
    BY DEF GrossAt, g
  <2> QED BY <2>1, <2>2, <2>3, <2>4
<1>5. NetAt(t)' = NetAt(t) + (IF t = r.lower THEN delta ELSE IF t = r.upper THEN -delta ELSE 0)
  <2> DEFINE f == [q \in Positions |-> IF t = q.lower THEN Share(q)
                                       ELSE IF t = q.upper THEN -Share(q) ELSE 0]
             g == [q \in Positions |-> IF t = q.lower THEN Share(q)'
                                       ELSE IF t = q.upper THEN -Share(q)' ELSE 0]
  <2>1. /\ \A q \in Positions : f[q] \in Int /\ g[q] \in Int
        /\ \A q \in Positions \ {r} : g[q] = f[q]
        /\ g[r] - f[r] = IF t = r.lower THEN delta ELSE IF t = r.upper THEN -delta ELSE 0
    BY <1>1
  <2> HIDE DEF f, g
  <2>2. SumFunctionOnSet(g, Positions) = SumFunctionOnSet(f, Positions) + (g[r] - f[r])
    BY <1>2, <2>1, SumChanged
  <2>3. NetAt(t) = SumFunctionOnSet(f, Positions)
    BY DEF NetAt, f
  <2>4. NetAt(t)' = SumFunctionOnSet(g, Positions)
    BY DEF NetAt, g
  <2> QED BY <2>1, <2>2, <2>3, <2>4
<1>6. LiquidityAt(t)' = LiquidityAt(t) + (IF Holds(r, t) THEN delta ELSE 0)
  <2> DEFINE f == [q \in Positions |-> IF q \in Live /\ Holds(q, t)
                                       THEN position[q].liquidity ELSE 0]
             g == [q \in Positions |-> IF q \in Live' /\ Holds(q, t)
                                       THEN position'[q].liquidity ELSE 0]
  <2>1. \A q \in Positions : /\ f[q] = IF Holds(q, t) THEN Share(q) ELSE 0
                             /\ g[q] = IF Holds(q, t) THEN Share(q)' ELSE 0
    <3> SUFFICES ASSUME NEW q \in Positions
                 PROVE  /\ f[q] = IF Holds(q, t) THEN Share(q) ELSE 0
                        /\ g[q] = IF Holds(q, t) THEN Share(q)' ELSE 0
      OBVIOUS
    <3>1. Share(q) \in Nat /\ Share(q)' \in Nat
      BY <1>1
    <3> QED BY <1>3, <3>1
  <2> HIDE DEF f, g
  <2>2. /\ \A q \in Positions : f[q] \in Int /\ g[q] \in Int
        /\ \A q \in Positions \ {r} : g[q] = f[q]
        /\ g[r] - f[r] = IF Holds(r, t) THEN delta ELSE 0
    BY <1>1, <2>1
  <2>3. SumFunctionOnSet(g, Positions) = SumFunctionOnSet(f, Positions) + (g[r] - f[r])
    BY <1>2, <2>2, SumChanged
  <2>4. LiquidityAt(t) = SumFunctionOnSet(f, Positions)
    BY DEF LiquidityAt, f
  <2>5. LiquidityAt(t)' = SumFunctionOnSet(g, Positions)
    BY DEF LiquidityAt, g, Holds
  <2> QED BY <2>2, <2>3, <2>4, <2>5
<1> QED BY <1>4, <1>5, <1>6

LEMMA PositionInv ==
  ASSUME IInv, NEW r \in Positions, OpenPosition(r) \/ ClosePosition(r) \/ Collect(r)
  PROVE  IInv'
<1>1. TypeOK /\ Ranges /\ Books /\ TickTracksPrice /\ LiquidityInStep
  BY DEF IInv
<1>2. TypeOK'
  BY <1>1, PositionTyped
<1>3. ~ walk.active /\ UNCHANGED <<pool, ticks, walk, stalled>>
  BY DEF OpenPosition, ClosePosition, Collect
<1>4. /\ position' = [position EXCEPT ![r] = position'[r]]
      /\ position'[r].open =>
           IsTickBound(r.lower) /\ IsTickBound(r.upper) /\ r.lower < r.upper
      /\ Share(r)' = Share(r)
  <2>0. position \in [Positions ->
          [open : {TRUE}, liquidity : Nat, last : Growth, owed : Amounts] \cup {NoPosition}]
    BY <1>1 DEF TypeOK
  <2>1. CASE OpenPosition(r)
    <3>1. position' = [position EXCEPT ![r] = EmptyPosition]
      BY <2>1 DEF OpenPosition
    <3>2. position'[r] = EmptyPosition
      BY <2>0, <3>1
    <3>3. Share(r) = 0 /\ Share(r)' = 0
      BY <2>1, <3>2 DEF OpenPosition, Share, EmptyPosition
    <3> QED BY <2>1, <3>1, <3>2, <3>3 DEF OpenPosition
  <2>2. CASE ClosePosition(r)
    <3>1. position' = [position EXCEPT ![r] = NoPosition]
      BY <2>2 DEF ClosePosition
    <3>2. position'[r] = NoPosition
      BY <2>0, <3>1
    <3>3. Share(r) = 0 /\ Share(r)' = 0 /\ ~ position'[r].open
      BY <2>2, <3>2 DEF ClosePosition, Share, NoPosition
    <3> QED BY <3>1, <3>2, <3>3
  <2>3. CASE Collect(r)
    <3>1. position' = [position EXCEPT ![r].owed = [t \in Token |-> 0]]
      BY <2>3 DEF Collect
    <3>2. position[r] \in [open : {TRUE}, liquidity : Nat, last : Growth, owed : Amounts]
      BY <1>1, <2>3, PositionFacts DEF Collect
    <3>3. position'[r] = [position[r] EXCEPT !.owed = [t \in Token |-> 0]]
      BY <2>0, <3>1
    <3>4. position'[r].open = position[r].open /\ position'[r].liquidity = position[r].liquidity
      BY <3>2, <3>3
    <3>5. position' = [position EXCEPT ![r] = position'[r]]
      BY <2>0, <3>1, <3>3
    <3> QED BY <1>1, <3>4, <3>5 DEF Ranges, Share
  <2> QED BY <2>1, <2>2, <2>3
<1>5. \A q \in Positions \ {r} : position'[q] = position[q]
  BY <1>1, <1>4 DEF TypeOK
<1>6. Ranges'
  BY <1>1, <1>4, <1>5 DEF Ranges, IsTickBound
<1>7. \A t : GrossAt(t)' = GrossAt(t) /\ NetAt(t)' = NetAt(t) /\ LiquidityAt(t)' = LiquidityAt(t)
  <2> SUFFICES ASSUME NEW t
               PROVE  /\ GrossAt(t)' = GrossAt(t) /\ NetAt(t)' = NetAt(t)
                      /\ LiquidityAt(t)' = LiquidityAt(t)
    OBVIOUS
  <2>1. Share(r) \in Nat /\ \A q \in Positions \ {r} : Share(q)' = Share(q)
    BY <1>1, <1>5, PositionFacts DEF Share
  <2>2. Share(r)' = Share(r) + 0
    BY <1>4, <2>1
  <2>3. /\ GrossAt(t)' = GrossAt(t) + (IF t \in {r.lower, r.upper} THEN 0 ELSE 0)
        /\ NetAt(t)' = NetAt(t) + (IF t = r.lower THEN 0 ELSE IF t = r.upper THEN -0 ELSE 0)
        /\ LiquidityAt(t)' = LiquidityAt(t) + (IF Holds(r, t) THEN 0 ELSE 0)
    BY <1>1, <1>2, <2>1, <2>2, ShareMoves
  <2>4. LiquidityAt(t) \in Int /\ NetAt(t) \in Int
    BY <1>1, SumsTyped
  <2>5. GrossAt(t) \in Int
    BY <1>1, GrossTyped
  <2> QED BY <2>3, <2>4, <2>5
<1>8. Books'
  BY <1>1, <1>3, <1>7 DEF Books
<1>9. TickTracksPrice'
  BY <1>1, <1>3 DEF TickTracksPrice, TickMatches
<1>10. LiquidityInStep'
  BY <1>1, <1>3, <1>7 DEF LiquidityInStep
<1> QED BY <1>2, <1>3, <1>6, <1>8, <1>9, <1>10 DEF IInv, OnItsWay

LEMMA ModifyInv ==
  ASSUME IInv, TypeOK', NEW r \in Positions, NEW delta \in Int, NEW amounts,
         Modify(r, delta, amounts)
  PROVE  IInv'
<1>1. TypeOK /\ Ranges /\ Books /\ TickTracksPrice /\ LiquidityInStep
  BY DEF IInv
<1> DEFINE p == position[r]
           lower == UpdatedTick(r.lower, delta, FALSE)
           upper == UpdatedTick(r.upper, delta, TRUE)
           inside == InsideGrowth(r, lower, upper, pool.tick, pool.growth)
           owed == [t \in Token |-> p.owed[t] + OwedSince(p, inside)[t]]
<1>2. /\ p.open /\ ~ walk.active
      /\ IsTickBound(r.lower) /\ IsTickBound(r.upper) /\ r.lower < r.upper
      /\ r.lower \in Slots /\ r.upper \in Slots /\ r.lower # r.upper
      /\ p.liquidity + delta \in Nat /\ lower.gross >= 0 /\ upper.gross >= 0
      /\ position' = [position EXCEPT ![r] =
           [open |-> TRUE, liquidity |-> p.liquidity + delta, last |-> inside, owed |-> owed]]
      /\ pool' = [pool EXCEPT !.liquidity =
           IF Holds(r, pool.tick) THEN pool.liquidity + delta ELSE pool.liquidity]
      /\ ticks' = [ticks EXCEPT ![r.lower] = Cleared(r.lower, lower),
                                ![r.upper] = Cleared(r.upper, upper)]
      /\ UNCHANGED <<arrays, walk, stalled, swaps>>
  BY <1>1, ModifyEffect
<1>3. /\ Cleared(r.lower, lower).gross = ticks[r.lower].gross + delta
      /\ Cleared(r.lower, lower).net = ticks[r.lower].net + delta
      /\ Cleared(r.upper, upper).gross = ticks[r.upper].gross + delta
      /\ Cleared(r.upper, upper).net = ticks[r.upper].net - delta
  <2>1. /\ lower.gross = ticks[r.lower].gross + delta /\ lower.net = ticks[r.lower].net + delta
        /\ Cleared(r.lower, lower).gross = lower.gross /\ Cleared(r.lower, lower).net = lower.net
    BY <1>1, <1>2, UpdatedTickFacts
  <2>2. /\ upper.gross = ticks[r.upper].gross + delta /\ upper.net = ticks[r.upper].net - delta
        /\ Cleared(r.upper, upper).gross = upper.gross /\ Cleared(r.upper, upper).net = upper.net
    BY <1>1, <1>2, UpdatedTickFacts
  <2> HIDE DEF lower, upper
  <2> QED BY <2>1, <2>2
<1> HIDE DEF p, lower, upper, inside, owed
<1>4. /\ position'[r].open /\ position'[r].liquidity = p.liquidity + delta
      /\ \A q \in Positions \ {r} : position'[q] = position[q]
  BY <1>1, <1>2 DEF TypeOK
<1>5. Ranges'
  BY <1>1, <1>2, <1>4 DEF Ranges, IsTickBound
<1>6. Share(r)' = Share(r) + delta /\ \A q \in Positions \ {r} : Share(q)' = Share(q)
  BY <1>2, <1>4 DEF Share, p
<1>7. \A t : /\ GrossAt(t)' = GrossAt(t) + (IF t \in {r.lower, r.upper} THEN delta ELSE 0)
             /\ NetAt(t)' = NetAt(t) + (IF t = r.lower THEN delta
                                        ELSE IF t = r.upper THEN -delta ELSE 0)
             /\ LiquidityAt(t)' = LiquidityAt(t) + (IF Holds(r, t) THEN delta ELSE 0)
  BY <1>1, <1>6, ShareMoves
<1>8. \A t : GrossAt(t) \in Int /\ NetAt(t) \in Int /\ LiquidityAt(t) \in Int
  BY <1>1, GrossTyped, SumsTyped
<1>9. Books'
  <2> SUFFICES ASSUME NEW t \in Slots
               PROVE  ticks'[t].gross = GrossAt(t)' /\ ticks'[t].net = NetAt(t)'
    BY DEF Books
  <2>1. ticks[t].gross = GrossAt(t) /\ ticks[t].net = NetAt(t)
    BY <1>1 DEF Books
  <2>2. ticks \in [Slots -> TickState]
    BY <1>1 DEF TypeOK
  <2>3. CASE t = r.lower
    <3>1. ticks'[t] = Cleared(r.lower, lower)
      BY <1>2, <2>2, <2>3
    <3> QED BY <1>3, <1>7, <2>1, <2>3, <3>1
  <2>4. CASE t = r.upper
    <3>1. ticks'[t] = Cleared(r.upper, upper)
      BY <1>2, <2>2, <2>4
    <3>2. NetAt(t)' = NetAt(t) + (-delta)
      BY <1>2, <1>7, <2>4
    <3>3. ticks'[t].net = NetAt(t) - delta
      BY <1>3, <2>1, <2>4, <3>1
    <3>4. ticks'[t].gross = GrossAt(t)'
      BY <1>3, <1>7, <2>1, <2>4, <3>1
    <3> QED BY <1>8, <3>2, <3>3, <3>4
  <2>5. CASE t \notin {r.lower, r.upper}
    <3>1. ticks'[t] = ticks[t]
      BY <1>2, <2>2, <2>5
    <3>2. GrossAt(t)' = GrossAt(t) + 0 /\ NetAt(t)' = NetAt(t) + 0
      BY <1>7, <2>5
    <3> QED BY <1>8, <2>1, <3>1, <3>2
  <2> QED BY <2>3, <2>4, <2>5
<1>10. /\ pool'.tick = pool.tick /\ pool'.price = pool.price
       /\ pool'.liquidity = IF Holds(r, pool.tick) THEN pool.liquidity + delta ELSE pool.liquidity
  BY <1>1, <1>2 DEF TypeOK
<1>11. TickTracksPrice'
  BY <1>1, <1>2, <1>10 DEF TickTracksPrice, TickMatches
<1>12. LiquidityInStep'
  <2>1. ASSUME ~ stalled
        PROVE  pool'.liquidity = LiquidityAt(pool.tick) + (IF Holds(r, pool.tick) THEN delta ELSE 0)
    <3>1. pool.liquidity = LiquidityAt(pool.tick)
      BY <1>1, <2>1 DEF LiquidityInStep
    <3> QED BY <1>8, <1>10, <3>1
  <2>2. LiquidityAt(pool.tick)' = LiquidityAt(pool.tick) + (IF Holds(r, pool.tick) THEN delta ELSE 0)
    BY <1>7, <1>10
  <2> QED BY <1>2, <2>1, <2>2 DEF LiquidityInStep
<1> QED BY <1>2, <1>5, <1>9, <1>11, <1>12 DEF IInv, OnItsWay

LEMMA InitInv ==
  ASSUME Init
  PROVE  IInv
<1>1. PICK price \in OpeningPrices : pool = NewPool(price)
  BY DEF Init
<1>2. price \in Prices
  BY <1>1, ClmmAssumption DEF Prices
<1>3. 0 \in 0 .. GrowthMod - 1
  BY Parameters
<1>4. TickAtSqrtPrice(price) \in MinTick .. MaxTick
  BY <1>2, TickOfPrice
<1>5. /\ pool.price = price /\ pool.tick = TickAtSqrtPrice(price) /\ pool.liquidity = 0
      /\ pool \in [price : Prices, tick : MinTick .. MaxTick, liquidity : Nat, growth : Growth]
  BY <1>1, <1>2, <1>3, <1>4 DEF NewPool, Growth
<1>6. ticks = [t \in Slots |-> EmptyTick] /\ EmptyTick \in TickState
  BY <1>3 DEF Init, EmptyTick, TickState, Growth
<1>7. ~ walk.active /\ \A r \in Positions : ~ position[r].open
  BY DEF Init, Idle, NoPosition
<1>8. TypeOK
  BY <1>5, <1>6 DEF Init, TypeOK, Amounts
<1>9. \A r \in Positions : Share(r) = 0 /\ r \notin Live
  BY <1>7 DEF Share, Live
<1>10. IsFiniteSet(Positions)
  BY Parameters
<1>11. \A t : GrossAt(t) = 0
  <2> SUFFICES ASSUME NEW t PROVE GrossAt(t) = 0
    OBVIOUS
  <2> DEFINE f == [r \in Positions |-> IF t \in {r.lower, r.upper} THEN Share(r) ELSE 0]
  <2>1. \A r \in Positions : f[r] = 0
    BY <1>9
  <2> HIDE DEF f
  <2>2. SumFunctionOnSet(f, Positions) = 0
    BY <1>10, <2>1, SumOfZeros
  <2> QED BY <2>2 DEF f, GrossAt
<1>12. \A t : NetAt(t) = 0
  <2> SUFFICES ASSUME NEW t PROVE NetAt(t) = 0
    OBVIOUS
  <2> DEFINE f == [r \in Positions |-> IF t = r.lower THEN Share(r)
                                       ELSE IF t = r.upper THEN -Share(r) ELSE 0]
  <2>1. \A r \in Positions : f[r] = 0
    BY <1>9
  <2> HIDE DEF f
  <2>2. SumFunctionOnSet(f, Positions) = 0
    BY <1>10, <2>1, SumOfZeros
  <2> QED BY <2>2 DEF f, NetAt
<1>13. \A t : LiquidityAt(t) = 0
  <2> SUFFICES ASSUME NEW t PROVE LiquidityAt(t) = 0
    OBVIOUS
  <2> DEFINE f == [r \in Positions |-> IF r \in Live /\ Holds(r, t)
                                       THEN position[r].liquidity ELSE 0]
  <2>1. \A r \in Positions : f[r] = 0
    BY <1>9
  <2> HIDE DEF f
  <2>2. SumFunctionOnSet(f, Positions) = 0
    BY <1>10, <2>1, SumOfZeros
  <2> QED BY <2>2 DEF f, LiquidityAt
<1>14. Books
  BY <1>6, <1>11, <1>12 DEF Books, EmptyTick
<1> QED
  BY <1>5, <1>7, <1>8, <1>13, <1>14
  DEF IInv, Ranges, OnItsWay, TickTracksPrice, TickMatches, LiquidityInStep

LEMMA NextInv ==
  ASSUME IInv, [Next]_vars
  PROVE  IInv'
<1>1. TypeOK /\ Ranges
  BY DEF IInv
<1>2. ASSUME NEW s \in Starts, InitTickArray(s) PROVE IInv'
  <2>1. /\ ~ walk.active /\ arrays' = arrays \cup {s}
        /\ UNCHANGED <<pool, ticks, position, vault, walk, stalled, changes, swaps>>
    BY <1>2 DEF InitTickArray
  <2>2. TypeOK'
    BY <1>1, <2>1 DEF TypeOK
  <2> QED BY <2>1, <2>2, IdleInv
<1>3. ASSUME NEW r \in Positions, OpenPosition(r) \/ ClosePosition(r) \/ Collect(r)
      PROVE  IInv'
  BY <1>3, PositionInv
<1>4. ASSUME NEW r \in Positions, NEW l \in Liquidities,
             IncreaseLiquidity(r, l) \/ DecreaseLiquidity(r, l)
      PROVE  IInv'
  <2>1. TypeOK'
    BY <1>1, <1>4, LiquidityTyped
  <2>2. PICK delta \in Int : \E amounts : Modify(r, delta, amounts)
    <3>1. l \in Int /\ -l \in Int
      BY ClmmAssumption
    <3> QED BY <1>4, <3>1 DEF IncreaseLiquidity, DecreaseLiquidity
  <2> QED BY <2>1, <2>2, ModifyInv
<1>5. ASSUME NEW down \in BOOLEAN, NEW amount \in SwapAmounts, NEW limit \in PriceLimits,
             NEW n \in 1 .. 3, StartSwap(down, amount, limit, n)
      PROVE  IInv'
  BY <1>5, StartInv
<1>6. CASE Advance
  BY <1>6, AdvanceInv
<1>7. CASE SettleSwap
  BY <1>7, SettleInv
<1>8. CASE RevertSwap
  <2>1. walk' = Idle /\ UNCHANGED <<pool, arrays, ticks, position, vault, stalled, changes, swaps>>
    BY <1>8 DEF RevertSwap
  <2>2. TypeOK'
    BY <1>1, <2>1 DEF TypeOK
  <2>3. ~ walk'.active
    BY <2>1 DEF Idle
  <2> QED BY <2>1, <2>2, <2>3, IdleInv
<1>9. CASE UNCHANGED vars
  <2>1. /\ UNCHANGED <<pool, arrays, ticks, position, vault, walk, stalled, changes, swaps>>
    BY <1>9 DEF vars
  <2>2. TypeOK' /\ Ranges'
    BY <1>1, <2>1 DEF TypeOK, Ranges
  <2>3. \A t : GrossAt(t)' = GrossAt(t) /\ NetAt(t)' = NetAt(t) /\ LiquidityAt(t)' = LiquidityAt(t)
    BY <2>1, SamePositions
  <2>4. Books' /\ OnItsWay'
    BY <2>1, <2>3 DEF IInv, Books, OnItsWay
  <2>5. TickTracksPrice'
    BY <2>1 DEF IInv, TickTracksPrice, TickMatches
  <2>6. LiquidityInStep'
    BY <2>1, <2>3 DEF IInv, LiquidityInStep
  <2> QED BY <2>2, <2>4, <2>5, <2>6 DEF IInv
<1> QED BY <1>2, <1>3, <1>4, <1>5, <1>6, <1>7, <1>8, <1>9 DEF Next

\* Whatever the tier, the prices, the positions and the swaps, the invariant
\* above holds of every state of the pool and of every round of a swap.
THEOREM ClmmInvariant ==
  Spec => []IInv
<1>1. Init => IInv
  BY InitInv
<1>2. IInv /\ [Next]_vars => IInv'
  BY NextInv
<1> QED BY <1>1, <1>2, PTL DEF Spec

\* Every account keeps its type: the tick inside its range, the price between
\* the lowest and the highest, no liquidity and no balance below zero.
THEOREM ClmmTyped ==
  Spec => []TypeOK
<1>1. IInv => TypeOK
  BY DEF IInv
<1> QED BY <1>1, ClmmInvariant, PTL

\* Pool::current_tick is the tick of the price, or the one below it where a
\* falling price has just crossed a bound, in every round of a swap too.
THEOREM TickTracksPriceTheorem ==
  Spec => []TickTracksPrice
<1>1. IInv => TickTracksPrice
  BY DEF IInv
<1> QED BY <1>1, ClmmInvariant, PTL

\* Until a swap stalls, the pool trades with the liquidity of exactly the
\* positions that hold its tick, whichever ticks were crossed on the way.
THEOREM LiquidityInStepTheorem ==
  Spec => []LiquidityInStep
<1>1. IInv => LiquidityInStep
  BY DEF IInv
<1> QED BY <1>1, ClmmInvariant, PTL

-----------------------------------------------------------------------------
(* What a step may not do.                                                 *)

\* A round of execute_swap that is not the last moves the tick: the loop ends,
\* also over empty ranges and ticks at the price where it starts.
THEOREM RoundsProgressTheorem ==
  Spec => RoundsProgress
<1>1. ASSUME IInv, Next, walk.active, walk'.active
      PROVE  \/ ~ Running'
             \/ IF walk.down THEN walk'.tick < walk.tick ELSE walk.tick < walk'.tick
  <2>1. Advance
    <3>1. ~ Idle.active
      BY DEF Idle
    <3> QED
      BY <1>1, <3>1 DEF Next, InitTickArray, OpenPosition, ClosePosition, Collect,
         IncreaseLiquidity, DecreaseLiquidity, Modify, StartSwap, SettleSwap, RevertSwap
  <2>2. PICK target \in NextTargets :
          /\ walk'.remaining = walk.remaining - Step(target).in - Step(target).fee
          /\ walk'.price = Step(target).price /\ walk'.limit = walk.limit
          /\ walk'.tick = TickAfter(target)
    BY <1>1, <2>1, RoundEffect
  <2>3. TypeOK
    BY <1>1 DEF IInv
  <2>4. /\ target \in Int /\ walk.tick \in Int /\ walk.down \in BOOLEAN
        /\ walk.down => target <= walk.tick
        /\ ~ walk.down => walk.tick < target
    BY <1>1, <2>3, TargetFacts, WalkFacts
  <2>5. CASE Arrives(target)
    <3>1. TickAfter(target) = IF walk.down THEN target - 1 ELSE target
      BY <1>1, <2>5, TickAfterFacts
    <3> QED BY <2>2, <2>4, <3>1
  <2>6. CASE ~ Arrives(target)
    <3>1. PICK s : s = Step(target)
      OBVIOUS
    <3>2. PICK b : b = Bound(target)
      OBVIOUS
    <3>3. s.price = walk.limit \/ s.in + s.fee = walk.remaining
      BY <1>1, <2>6, <3>1, <3>2, RoundFacts DEF Arrives
    <3>4. s.in \in Nat /\ s.fee \in Nat /\ walk.remaining \in Nat
      BY <1>1, <2>3, <3>1, <3>2, RoundFacts, WalkFacts
    <3>5. walk'.remaining = 0 \/ walk'.price = walk'.limit
      BY <2>2, <3>1, <3>3, <3>4
    <3> QED BY <3>5 DEF Running
  <2> QED BY <2>5, <2>6
<1>2. IInv /\ [Next]_vars =>
        [ walk.active /\ walk'.active =>
            \/ ~ Running'
            \/ IF walk.down THEN walk'.tick < walk.tick ELSE walk.tick < walk'.tick ]_vars
  BY <1>1
<1> QED BY <1>2, ClmmInvariant, PTL DEF Spec, RoundsProgress

\* The two ends of a position with liquidity are initialized.
EndsInitialized ==
  \A r \in Live : \A x \in {r.lower, r.upper} : Initialized(ticks[x])

LEMMA SameInside ==
  ASSUME NEW r, NEW tick, NEW growth, NEW a, NEW b, NEW c, NEW d,
         a.outside = c.outside, b.outside = d.outside
  PROVE  InsideGrowth(r, a, b, tick, growth) = InsideGrowth(r, c, d, tick, growth)
BY DEF InsideGrowth

\* What has been paid into the debt is owed no longer.
LEMMA NothingOwedSince ==
  ASSUME NEW l \in Nat, NEW now \in Nat, NEW last \in Nat, l = 0 \/ now = last
  PROVE  FeesOwed(l, now, last) = 0
<1>1. Q64 \in Nat /\ Q64 > 0 /\ GrowthMod \in Nat /\ GrowthMod > 0
  BY Parameters
<1>2. Wrapped(now - last) \in Nat
  BY WrappedTyped
<1>3. CASE l = 0
  BY <1>1, <1>2, <1>3 DEF FeesOwed
<1>4. CASE now = last
  <2>1. Wrapped(now - last) = 0
    BY <1>1, <1>4 DEF Wrapped
  <2> QED BY <1>1, <2>1 DEF FeesOwed
<1> QED BY <1>3, <1>4

LEMMA TicksTyped ==
  ASSUME TypeOK, Ranges, NEW m \in Positions, NEW delta \in Int, NEW amounts,
         Modify(m, delta, amounts)
  PROVE  ticks' \in [Slots -> TickState]
<1> DEFINE lower == UpdatedTick(m.lower, delta, FALSE)
           upper == UpdatedTick(m.upper, delta, TRUE)
<1>1. /\ m.lower \in Slots /\ m.upper \in Slots /\ lower.gross >= 0 /\ upper.gross >= 0
      /\ ticks' = [ticks EXCEPT ![m.lower] = Cleared(m.lower, lower),
                                ![m.upper] = Cleared(m.upper, upper)]
  BY ModifyEffect
<1>2. Cleared(m.lower, lower) \in TickState /\ Cleared(m.upper, upper) \in TickState
  BY <1>1, UpdatedTickFacts
<1> HIDE DEF lower, upper
<1> QED BY <1>1, <1>2 DEF TypeOK

LEMMA OutsideKept ==
  ASSUME TypeOK, Ranges, NEW m \in Positions, NEW delta \in Int, NEW amounts,
         Modify(m, delta, amounts), NEW x \in Slots,
         Initialized(ticks[x]), Initialized(ticks'[x])
  PROVE  ticks'[x].outside = ticks[x].outside
<1> DEFINE lower == UpdatedTick(m.lower, delta, FALSE)
           upper == UpdatedTick(m.upper, delta, TRUE)
<1>1. /\ m.lower \in Slots /\ m.upper \in Slots /\ m.lower # m.upper
      /\ ticks' = [ticks EXCEPT ![m.lower] = Cleared(m.lower, lower),
                                ![m.upper] = Cleared(m.upper, upper)]
  BY ModifyEffect
<1>2. ticks \in [Slots -> TickState]
  BY DEF TypeOK
<1>3. CASE x \notin {m.lower, m.upper}
  <2> HIDE DEF lower, upper
  <2> QED BY <1>1, <1>2, <1>3
<1>4. CASE x = m.lower
  <2>1. /\ Initialized(ticks[x]) => lower.outside = ticks[x].outside
        /\ Cleared(x, lower).gross = lower.gross
        /\ Initialized(lower) => Cleared(x, lower).outside = lower.outside
    BY <1>1, <1>4, UpdatedTickFacts
  <2> HIDE DEF lower, upper
  <2>2. ticks'[x] = Cleared(x, lower)
    BY <1>1, <1>2, <1>4
  <2> QED BY <2>1, <2>2 DEF Initialized
<1>5. CASE x = m.upper
  <2>1. /\ Initialized(ticks[x]) => upper.outside = ticks[x].outside
        /\ Cleared(x, upper).gross = upper.gross
        /\ Initialized(upper) => Cleared(x, upper).outside = upper.outside
    BY <1>1, <1>5, UpdatedTickFacts
  <2> HIDE DEF lower, upper
  <2>2. ticks'[x] = Cleared(x, upper)
    BY <1>1, <1>2, <1>5
  <2> QED BY <2>1, <2>2 DEF Initialized
<1> QED BY <1>3, <1>4, <1>5

LEMMA ModifyPool ==
  ASSUME TypeOK, Ranges, NEW m \in Positions, NEW delta \in Int, NEW amounts,
         Modify(m, delta, amounts)
  PROVE  /\ ~ walk.active /\ ~ walk'.active
         /\ pool'.tick = pool.tick /\ pool'.growth = pool.growth
<1>1. ~ walk.active /\ walk' = walk
  BY ModifyEffect
<1>2. pool' = [pool EXCEPT !.liquidity =
         IF Holds(m, pool.tick) THEN pool.liquidity + delta ELSE pool.liquidity]
  BY ModifyEffect
<1>3. pool \in [price : Prices, tick : MinTick .. MaxTick, liquidity : Nat, growth : Growth]
  BY DEF TypeOK
<1> QED BY <1>1, <1>2, <1>3

LEMMA InsideKept ==
  ASSUME TypeOK, Ranges, Books, EndsInitialized, EndsInitialized', NEW m \in Positions,
         NEW delta \in Int, NEW amounts, Modify(m, delta, amounts),
         NEW r \in Live, r \in Live'
  PROVE  InsideGrowth(r, ticks'[r.lower], ticks'[r.upper], pool.tick, pool.growth) =
           InsideGrowth(r, ticks[r.lower], ticks[r.upper], pool.tick, pool.growth)
<1>1. r.lower \in Slots /\ r.upper \in Slots
      /\ Initialized(ticks[r.lower]) /\ Initialized(ticks[r.upper])
  BY LiveBounds DEF EndsInitialized
<1>2. Initialized(ticks'[r.lower]) /\ Initialized(ticks'[r.upper])
  BY DEF EndsInitialized, Initialized
<1>3. /\ ticks'[r.lower].outside = ticks[r.lower].outside
      /\ ticks'[r.upper].outside = ticks[r.upper].outside
  BY <1>1, <1>2, OutsideKept
<1> QED BY <1>3, SameInside

LEMMA ChangeKept ==
  ASSUME IInv, EndsInitialized, EndsInitialized', NEW m \in Positions, NEW delta \in Int,
         NEW amounts, Modify(m, delta, amounts), NEW r \in Live
  PROVE  FeeClaim(r)' = FeeClaim(r)
<1>1. TypeOK /\ Ranges /\ Books
  BY DEF IInv
<1> DEFINE p == position[m]
           lower == UpdatedTick(m.lower, delta, FALSE)
           upper == UpdatedTick(m.upper, delta, TRUE)
           inside == InsideGrowth(m, lower, upper, pool.tick, pool.growth)
           owed == [t \in Token |-> p.owed[t] + OwedSince(p, inside)[t]]
           before == InsideGrowth(r, ticks[r.lower], ticks[r.upper], pool.tick, pool.growth)
           after == InsideGrowth(r, ticks'[r.lower], ticks'[r.upper], pool.tick, pool.growth)
<1>2. /\ ~ walk.active /\ ~ walk'.active
      /\ pool'.tick = pool.tick /\ pool'.growth = pool.growth
  BY <1>1, ModifyPool
<1>3. /\ p.liquidity + delta \in Nat
      /\ inside \in Growth /\ owed \in Amounts
      /\ position' = [position EXCEPT ![m] =
           [open |-> TRUE, liquidity |-> p.liquidity + delta, last |-> inside, owed |-> owed]]
  BY <1>1, ModifyEffect
<1>4. InsideNow(r) = before /\ InsideNow(r)' = after
  BY <1>2 DEF InsideNow
<1>5. r \in Positions /\ r.lower \in Slots /\ r.upper \in Slots
      /\ Initialized(ticks[r.lower]) /\ Initialized(ticks[r.upper])
  BY <1>1, LiveBounds DEF EndsInitialized, Live
<1>6. ASSUME r \in Live' PROVE after = before
  BY <1>1, <1>6, InsideKept
<1>7. CASE r # m
  <2>1. position'[r] = position[r]
    BY <1>1, <1>3, <1>5, <1>7 DEF TypeOK
  <2>2. r \in Live'
    BY <2>1 DEF Live
  <2>3. InsideNow(r)' = InsideNow(r)
    BY <1>4, <1>6, <2>2
  <2> QED BY <2>1, <2>3 DEF FeeClaim, OwedSince
<1>8. CASE r = m
  <2>1. inside = before
    <3>1. /\ lower.outside = ticks[m.lower].outside /\ upper.outside = ticks[m.upper].outside
      BY <1>1, <1>5, <1>8, UpdatedTickFacts
    <3> HIDE DEF lower, upper
    <3> QED BY <1>8, <3>1, SameInside
  <2>2. position'[r] = [open |-> TRUE, liquidity |-> p.liquidity + delta,
                        last |-> inside, owed |-> owed]
    <3> HIDE DEF p, inside, owed
    <3> QED BY <1>1, <1>3, <1>8 DEF TypeOK
  <2>3. FeeClaim(r) = owed
    BY <1>4, <1>8, <2>1 DEF FeeClaim
  <2>4. after \in Growth
    <3>1. ticks' \in [Slots -> TickState]
      BY <1>1, TicksTyped
    <3>2. ticks'[r.lower].outside \in Growth /\ ticks'[r.upper].outside \in Growth
      BY <1>5, <3>1 DEF TickState
    <3>3. pool.growth \in Growth
      BY <1>1, PoolFacts
    <3> QED BY <3>2, <3>3, InsideTyped
  <2>5. p.liquidity + delta = 0 \/ after = inside
    <3>1. CASE p.liquidity + delta = 0
      BY <3>1
    <3>2. CASE p.liquidity + delta # 0
      <4>1. p.liquidity + delta > 0
        BY <1>3, <3>2
      <4>2. r \in Live'
        BY <1>5, <2>2, <4>1 DEF Live
      <4> QED BY <1>6, <2>1, <4>2
    <3> QED BY <3>1, <3>2
  <2>6. \A t \in Token : FeesOwed(p.liquidity + delta, after[t], inside[t]) = 0
    <3> SUFFICES ASSUME NEW t \in Token
                 PROVE  FeesOwed(p.liquidity + delta, after[t], inside[t]) = 0
      OBVIOUS
    <3>1. after[t] \in Nat /\ inside[t] \in Nat
      BY <1>3, <2>4, GrowthFacts
    <3> HIDE DEF after, inside, p
    <3>2. p.liquidity + delta = 0 \/ after[t] = inside[t]
      BY <2>5
    <3> QED BY <1>3, <3>1, <3>2, NothingOwedSince
  <2> HIDE DEF after, before, inside, p, owed
  <2>7. FeeClaim(r)' = [t \in Token |-> owed[t] + FeesOwed(p.liquidity + delta, after[t], inside[t])]
    BY <1>4, <2>2 DEF FeeClaim, OwedSince
  <2>8. owed = [t \in Token |-> owed[t]] /\ \A t \in Token : owed[t] \in Nat
    BY <1>3 DEF Amounts
  <2>9. FeeClaim(r)' = [t \in Token |-> owed[t]]
    <3>1. \A t \in Token : owed[t] + FeesOwed(p.liquidity + delta, after[t], inside[t]) = owed[t]
      BY <2>6, <2>8
    <3> QED BY <2>7, <3>1
  <2> QED BY <2>3, <2>8, <2>9
<1> QED BY <1>7, <1>8

\* A change of one position moves no fees: what it and every other position
\* has earned stays owed, whichever ticks the change seeds or clears.
THEOREM ChangeKeepsFeesTheorem ==
  Spec => ChangeKeepsFees
<1>1. IInv => EndsInitialized
  BY LiveBounds DEF IInv, EndsInitialized, Initialized
<1>2. ASSUME IInv, EndsInitialized, EndsInitialized', Next, changes' # changes
      PROVE  \A r \in Live : FeeClaim(r)' = FeeClaim(r)
  <2>1. PICK m \in Positions, l \in Liquidities :
          IncreaseLiquidity(m, l) \/ DecreaseLiquidity(m, l)
    BY <1>2 DEF Next, InitTickArray, OpenPosition, ClosePosition, Collect,
       StartSwap, Advance, SettleSwap, RevertSwap
  <2>2. l \in Int /\ -l \in Int
    BY ClmmAssumption
  <2>3. PICK delta \in Int : \E amounts : Modify(m, delta, amounts)
    BY <2>1, <2>2 DEF IncreaseLiquidity, DecreaseLiquidity
  <2> QED BY <1>2, <2>3, ChangeKept
<1>3. IInv /\ EndsInitialized /\ EndsInitialized' /\ [Next]_vars =>
        [ changes' # changes => \A r \in Live : FeeClaim(r)' = FeeClaim(r) ]_vars
  BY <1>2
<1> QED BY <1>1, <1>3, ClmmInvariant, PTL DEF Spec, ChangeKeepsFees

-----------------------------------------------------------------------------
(* Fees stay inside the range that earned them.  Growth wraps, so two       *)
(* values that differ by a multiple of GrowthMod are the same growth.       *)

SameGrowth(x, y) == \E k \in Int : x = y + GrowthMod * k

LEMMA Distributes ==
  ASSUME NEW m \in Nat, NEW a \in Int, NEW b \in Int
  PROVE  /\ m * a \in Int
         /\ m * (a + b) = m * a + m * b /\ m * (a - b) = m * a - m * b
         /\ m * 0 = 0 /\ m * (0 - a) = 0 - m * a
         /\ m > 0 /\ a >= 1 => m <= m * a
         /\ m > 0 /\ a <= 0 - 1 => m * a <= 0 - m
  BY Z3

LEMMA Remainder ==
  ASSUME NEW x \in Int, NEW m \in Nat, m > 0
  PROVE  /\ x % m \in Int /\ 0 <= x % m /\ x % m < m /\ x \div m \in Int
         /\ x = m * (x \div m) + (x % m)
  BY Z3

LEMMA SameIsReflexive ==
  ASSUME NEW x \in Int, NEW y \in Int, x = y
  PROVE  SameGrowth(x, y)
<1>1. GrowthMod \in Nat
  BY Parameters
<1>2. GrowthMod * 0 = 0
  BY <1>1, Distributes
<1>3. x = y + GrowthMod * 0 /\ 0 \in Int
  BY <1>2
<1> QED BY <1>3 DEF SameGrowth

LEMMA SameAddsUp ==
  ASSUME NEW a \in Int, NEW b \in Int, NEW c \in Int, NEW d \in Int,
         SameGrowth(a, b), SameGrowth(c, d)
  PROVE  SameGrowth(a + c, b + d) /\ SameGrowth(a - c, b - d)
<1>1. GrowthMod \in Nat
  BY Parameters
<1>2. PICK i \in Int : a = b + GrowthMod * i
  BY DEF SameGrowth
<1>3. PICK j \in Int : c = d + GrowthMod * j
  BY DEF SameGrowth
<1>4. /\ GrowthMod * i \in Int /\ GrowthMod * j \in Int
      /\ GrowthMod * (i + j) = GrowthMod * i + GrowthMod * j
      /\ GrowthMod * (i - j) = GrowthMod * i - GrowthMod * j
  BY <1>1, Distributes
<1>5. i + j \in Int /\ i - j \in Int
  OBVIOUS
<1> DEFINE I == GrowthMod * i
           J == GrowthMod * j
           S == GrowthMod * (i + j)
           D == GrowthMod * (i - j)
<1> HIDE DEF I, J, S, D
<1>6. I \in Int /\ J \in Int /\ S = I + J /\ D = I - J /\ a = b + I /\ c = d + J
  BY <1>2, <1>3, <1>4 DEF I, J, S, D
<1>7. a + c = (b + d) + S /\ a - c = (b - d) + D
  BY <1>6
<1>8. a + c = (b + d) + GrowthMod * (i + j) /\ a - c = (b - d) + GrowthMod * (i - j)
  BY <1>7 DEF S, D
<1> QED BY <1>5, <1>8 DEF SameGrowth

LEMMA WrappedIsSame ==
  ASSUME NEW x \in Int
  PROVE  Wrapped(x) \in Int /\ SameGrowth(Wrapped(x), x)
<1>1. GrowthMod \in Nat /\ GrowthMod > 0
  BY Parameters
<1>2. /\ Wrapped(x) \in Int /\ x \div GrowthMod \in Int
      /\ x = GrowthMod * (x \div GrowthMod) + Wrapped(x)
  BY <1>1, Remainder DEF Wrapped
<1>3. PICK q \in Int : q = x \div GrowthMod
  BY <1>2
<1>4. /\ GrowthMod * q \in Int /\ GrowthMod * (0 - q) = 0 - GrowthMod * q
      /\ x = GrowthMod * q + Wrapped(x)
  BY <1>1, <1>2, <1>3, Distributes
<1> DEFINE Q == GrowthMod * q
           N == GrowthMod * (0 - q)
<1> HIDE DEF Q, N
<1>5. Q \in Int /\ N = 0 - Q /\ x = Q + Wrapped(x)
  BY <1>4 DEF Q, N
<1>6. Wrapped(x) = x + N
  BY <1>2, <1>5
<1>7. 0 - q \in Int /\ Wrapped(x) = x + GrowthMod * (0 - q)
  BY <1>6 DEF N
<1> QED BY <1>2, <1>7 DEF SameGrowth

LEMMA SameWraps ==
  ASSUME NEW x \in Int, NEW y \in Int, SameGrowth(x, y)
  PROVE  Wrapped(x) = Wrapped(y)
<1>1. GrowthMod \in Nat /\ GrowthMod > 0
  BY Parameters
<1>2. /\ Wrapped(x) \in Int /\ 0 <= Wrapped(x) /\ Wrapped(x) < GrowthMod
      /\ Wrapped(y) \in Int /\ 0 <= Wrapped(y) /\ Wrapped(y) < GrowthMod
  BY <1>1, Remainder DEF Wrapped
<1>3. SameGrowth(Wrapped(x), x) /\ SameGrowth(Wrapped(y), y)
  BY WrappedIsSame
<1>4. SameGrowth(Wrapped(x) - Wrapped(y), x - y) /\ SameGrowth(x - y, y - y)
  <2>1. SameGrowth(y, y)
    BY SameIsReflexive
  <2> QED BY <1>2, <1>3, <2>1, SameAddsUp
<1>5. PICK i \in Int : Wrapped(x) - Wrapped(y) = (x - y) + GrowthMod * i
  BY <1>4 DEF SameGrowth
<1>6. PICK j \in Int : x - y = (y - y) + GrowthMod * j
  BY <1>4 DEF SameGrowth
<1>7. /\ GrowthMod * i \in Int /\ GrowthMod * j \in Int
      /\ GrowthMod * (i + j) = GrowthMod * i + GrowthMod * j
  BY <1>1, Distributes
<1>8. PICK k \in Int : k = i + j
  OBVIOUS
<1> DEFINE I == GrowthMod * i
           J == GrowthMod * j
           K == GrowthMod * k
<1> HIDE DEF I, J, K
<1>9. I \in Int /\ J \in Int /\ K = I + J /\ Wrapped(x) - Wrapped(y) = (x - y) + I
      /\ x - y = (y - y) + J
  BY <1>5, <1>6, <1>7, <1>8 DEF I, J, K
<1>10. Wrapped(x) - Wrapped(y) = K
  BY <1>2, <1>9
<1>11. /\ k >= 1 => GrowthMod <= K
       /\ k <= 0 - 1 => K <= 0 - GrowthMod
       /\ k = 0 => K = 0
  BY <1>1, Distributes DEF K
<1>12. k = 0
  BY <1>1, <1>2, <1>9, <1>10, <1>11
<1> QED BY <1>2, <1>10, <1>11, <1>12

\* A round passes an end of a live position only by crossing it.
LEMMA RoundSides ==
  ASSUME IInv, walk.active, ~ walk.stalled, NEW target \in NextTargets,
         ~ Refused(target), ~ Stalls(target), NEW r \in Live, NEW x \in {r.lower, r.upper}
  PROVE  /\ x = target /\ Crosses(target) =>
              IF walk.down THEN x <= walk.tick /\ TickAfter(target) < x
              ELSE walk.tick < x /\ x <= TickAfter(target)
         /\ ~ (x = target /\ Crosses(target)) => (x <= walk.tick <=> x <= TickAfter(target))
<1>1. TypeOK /\ Ranges /\ Books
  BY DEF IInv
<1>2. /\ target \in Int /\ walk.down \in BOOLEAN /\ walk.tick \in Int
      /\ walk.down => target <= walk.tick
      /\ ~ walk.down => walk.tick < target
      /\ target \notin InitializedAhead => target = IF walk.down THEN walk.low ELSE walk.high
  BY <1>1, TargetFacts, WalkFacts
<1>3. x \in Int /\ x <= MaxTick /\ MaxTick \in Int
  BY <1>1, LiveBounds, PriceRange
<1>4. CASE ~ Arrives(target)
  BY <1>4, StopSides DEF Crosses
<1>5. CASE Arrives(target)
  <2>1. TickAfter(target) = IF walk.down THEN target - 1 ELSE target
    BY <1>5, TickAfterFacts
  <2>2. Crosses(target) <=> target \in InitializedAhead
    BY <1>5 DEF Crosses
  <2>3. CASE walk.down
    <3>1. /\ x <= target \/ walk.tick < x
          /\ target \notin InitializedAhead => x < target \/ walk.tick < x
      BY <2>3, AheadBounds
    <3> QED BY <1>2, <1>3, <2>1, <2>2, <2>3, <3>1
  <2>4. CASE ~ walk.down
    <3>1. x <= walk.tick \/ target <= x
      BY <2>4, AheadBounds
    <3>2. target \notin InitializedAhead => MaxTick < target
      BY <1>2, <1>3, <1>5, <2>4 DEF Refused, PastWindow
    <3> QED BY <1>2, <1>3, <2>1, <2>2, <2>4, <3>1, <3>2
  <2> QED BY <1>2, <2>3, <2>4
<1> QED BY <1>4, <1>5

\* The growth below a tick, from the growth on its far side.
GrowthBelow(tick, x, global, outside) == IF tick >= x THEN outside ELSE global - outside

Between(below, upTo) == Wrapped(upTo - below)

\* How far the growth between two ticks moves, from how far that below each does.
LEMMA BetweenMoves ==
  ASSUME NEW a \in Int, NEW b \in Int, NEW c \in Int, NEW d \in Int,
         NEW da \in Int, NEW db \in Int, SameGrowth(c - a, da), SameGrowth(d - b, db)
  PROVE  Wrapped(Between(c, d) - Between(a, b)) = Wrapped(db - da)
<1>1. /\ Wrapped(d - c) \in Int /\ SameGrowth(Wrapped(d - c), d - c)
      /\ Wrapped(b - a) \in Int /\ SameGrowth(Wrapped(b - a), b - a)
  BY WrappedIsSame
<1>2. SameGrowth(Wrapped(d - c) - Wrapped(b - a), (d - c) - (b - a))
  BY <1>1, SameAddsUp
<1>3. SameGrowth((d - b) - (c - a), db - da)
  BY SameAddsUp
<1>4. (d - c) - (b - a) = (d - b) - (c - a)
  OBVIOUS
<1>5. Wrapped(Wrapped(d - c) - Wrapped(b - a)) = Wrapped((d - c) - (b - a))
  BY <1>1, <1>2, SameWraps
<1>6. Wrapped((d - b) - (c - a)) = Wrapped(db - da)
  BY <1>3, SameWraps
<1> QED BY <1>4, <1>5, <1>6 DEF Between

\* A round raises the growth below exactly the ends above its tick by what the
\* whole growth gains, and the crossing keeps it there.
LEMMA RoundBelow ==
  ASSUME IInv, walk.active, ~ walk.stalled, NEW target \in NextTargets,
         ~ Refused(target), ~ Stalls(target), NEW growth \in Growth,
         NEW r \in Live, NEW x \in {r.lower, r.upper}, NEW t \in Token
  PROVE  LET before == GrowthBelow(walk.tick, x, walk.growth[t], walk.ticks[x].outside[t])
             after == GrowthBelow(TickAfter(target), x, growth[t],
                                  TicksAfter(target, growth)[x].outside[t])
         IN  /\ before \in Int /\ after \in Int
             /\ SameGrowth(after - before,
                           IF walk.tick < x THEN growth[t] - walk.growth[t] ELSE 0)
<1>1. TypeOK /\ Ranges /\ Books
  BY DEF IInv
<1>2. /\ walk.down \in BOOLEAN /\ walk.tick \in Int /\ TickAfter(target) \in Int
      /\ walk.ticks \in [Slots -> TickState] /\ walk.growth \in Growth
  BY <1>1, WalkFacts, TickAfterFacts
<1>3. x \in Int /\ x \in Slots
  BY <1>1, LiveBounds
<1>4. PICK g \in Int : g = walk.growth[t]
  BY <1>2, GrowthFacts
<1>5. PICK h \in Int : h = growth[t]
  BY GrowthFacts
<1>6. PICK o \in Int : o = walk.ticks[x].outside[t]
  BY <1>2, <1>3, GrowthFacts DEF TickState
<1> DEFINE before == GrowthBelow(walk.tick, x, g, o)
<1>7. CASE x = target /\ Crosses(target)
  <2>1. TicksAfter(target, growth)[x] = Crossed(walk.ticks[x], growth)
    BY <1>2, <1>3, <1>7 DEF TicksAfter
  <2>2. Crossed(walk.ticks[x], growth).outside[t] = Wrapped(h - o)
    BY <1>2, <1>3, <1>5, <1>6 DEF Crossed, TickState
  <2>3. PICK w \in Int : w = Wrapped(h - o) /\ SameGrowth(w, h - o)
    BY WrappedIsSame
  <2> DEFINE after == GrowthBelow(TickAfter(target), x, h, w)
  <2>4. IF walk.down THEN x <= walk.tick /\ TickAfter(target) < x
        ELSE walk.tick < x /\ x <= TickAfter(target)
    BY <1>7, RoundSides
  <2>5. before \in Int /\ after \in Int
           /\ SameGrowth(after - before, IF walk.tick < x THEN h - g ELSE 0)
    <3>1. CASE walk.down
      <4>1. before = o /\ after = h - w /\ ~ (walk.tick < x)
        BY <1>2, <1>3, <2>4, <3>1 DEF GrowthBelow
      <4>2. SameGrowth(h - w, h - (h - o))
        <5>1. SameGrowth(h, h)
          BY SameIsReflexive
        <5> QED BY <2>3, <5>1, SameAddsUp
      <4>3. SameGrowth((h - w) - o, (h - (h - o)) - o)
        <5>1. SameGrowth(o, o)
          BY SameIsReflexive
        <5> QED BY <4>2, <5>1, SameAddsUp
      <4>4. (h - (h - o)) - o = 0
        OBVIOUS
      <4> QED BY <4>1, <4>3, <4>4
    <3>2. CASE ~ walk.down
      <4>1. before = g - o /\ after = w /\ walk.tick < x
        BY <1>2, <1>3, <2>4, <3>2 DEF GrowthBelow
      <4>2. SameGrowth(w - (g - o), (h - o) - (g - o))
        <5>1. SameGrowth(g - o, g - o)
          BY SameIsReflexive
        <5> QED BY <2>3, <5>1, SameAddsUp
      <4>3. (h - o) - (g - o) = h - g
        OBVIOUS
      <4> QED BY <4>1, <4>2, <4>3
    <3> QED BY <1>2, <3>1, <3>2
  <2> QED BY <1>4, <1>5, <1>6, <2>1, <2>2, <2>3, <2>5
<1>8. CASE ~ (x = target /\ Crosses(target))
  <2>1. TicksAfter(target, growth)[x] = walk.ticks[x]
    BY <1>2, <1>3, <1>8 DEF TicksAfter
  <2>2. x <= walk.tick <=> x <= TickAfter(target)
    BY <1>8, RoundSides
  <2> DEFINE after == GrowthBelow(TickAfter(target), x, h, o)
  <2>3. before \in Int /\ after \in Int
        /\ after - before = IF walk.tick < x THEN h - g ELSE 0
    BY <1>2, <1>3, <2>2 DEF GrowthBelow
  <2>4. SameGrowth(after - before, IF walk.tick < x THEN h - g ELSE 0)
    <3> HIDE DEF before, after
    <3>1. (IF walk.tick < x THEN h - g ELSE 0) \in Int /\ after - before \in Int
      BY <2>3
    <3> QED BY <2>3, <3>1, SameIsReflexive
  <2> QED BY <1>4, <1>5, <1>6, <2>1, <2>3, <2>4
<1> QED BY <1>7, <1>8

LEMMA InsideNowTyped ==
  ASSUME IInv, NEW r \in Live
  PROVE  InsideNow(r) \in Growth
<1>1. TypeOK /\ Ranges /\ Books
  BY DEF IInv
<1>2. r.lower \in Slots /\ r.upper \in Slots
  BY <1>1, LiveBounds
<1>3. CASE walk.active
  <2>1. walk.ticks \in [Slots -> TickState] /\ walk.growth \in Growth
    BY <1>1, <1>3, WalkFacts
  <2>2. walk.ticks[r.lower].outside \in Growth /\ walk.ticks[r.upper].outside \in Growth
    BY <1>2, <2>1 DEF TickState
  <2> QED BY <1>3, <2>1, <2>2, InsideTyped DEF InsideNow
<1>4. CASE ~ walk.active
  <2>1. ticks \in [Slots -> TickState] /\ pool.growth \in Growth
    BY <1>1, PoolFacts DEF TypeOK
  <2>2. ticks[r.lower].outside \in Growth /\ ticks[r.upper].outside \in Growth
    BY <1>2, <2>1 DEF TickState
  <2> QED BY <1>4, <2>1, <2>2, InsideTyped DEF InsideNow
<1> QED BY <1>3, <1>4

LEMMA NoGrowth ==
  ASSUME NEW x \in Int
  PROVE  Wrapped(x - x) = 0
<1>1. GrowthMod \in Nat /\ GrowthMod > 0 /\ x - x = 0
  BY Parameters
<1> QED BY <1>1 DEF Wrapped

LEMMA RoundFees ==
  ASSUME IInv, Advance, ~ walk'.stalled, NEW r \in Live, NEW t \in Token
  PROVE  Wrapped(InsideNow(r)'[t] - InsideNow(r)[t]) =
           IF Holds(r, walk.tick) THEN Wrapped(walk'.growth[t] - walk.growth[t]) ELSE 0
<1>1. TypeOK /\ Ranges /\ Books
  BY DEF IInv
<1>2. PICK target \in NextTargets :
        /\ walk.active /\ ~ Refused(target) /\ walk' \in Walk /\ walk'.active
        /\ walk'.tick = TickAfter(target)
        /\ walk'.ticks = TicksAfter(target, walk'.growth)
        /\ walk'.stalled = (walk.stalled \/ Stalls(target))
  BY RoundEffect
<1>3. walk'.growth \in Growth /\ walk.growth \in Growth
      /\ walk.tick \in Int /\ TickAfter(target) \in Int
      /\ walk.ticks \in [Slots -> TickState] /\ walk'.ticks \in [Slots -> TickState]
  BY <1>1, <1>2, WalkFacts, TickAfterFacts DEF Walk
<1>4. ~ walk.stalled /\ ~ Stalls(target)
  BY <1>2
<1>5. /\ r.lower \in Int /\ r.upper \in Int /\ r.lower < r.upper
      /\ r.lower \in Slots /\ r.upper \in Slots
  BY <1>1, LiveBounds DEF Ranges, Live
<1>6. PICK g \in Int : g = walk.growth[t]
  BY <1>3, GrowthFacts
<1>7. PICK h \in Int : h = walk'.growth[t]
  BY <1>3, GrowthFacts
<1> DEFINE Before(x) == GrowthBelow(walk.tick, x, g, walk.ticks[x].outside[t])
           After(x) == GrowthBelow(TickAfter(target), x, h, walk'.ticks[x].outside[t])
           Gain(x) == IF walk.tick < x THEN h - g ELSE 0
<1>8. \A x \in {r.lower, r.upper} :
        Before(x) \in Int /\ After(x) \in Int /\ SameGrowth(After(x) - Before(x), Gain(x))
  BY <1>2, <1>3, <1>4, <1>6, <1>7, RoundBelow
<1>9. \A x \in {r.lower, r.upper} :
        walk.ticks[x].outside[t] \in Int /\ walk'.ticks[x].outside[t] \in Int
  BY <1>3, <1>5, GrowthFacts DEF TickState
<1>10. InsideNow(r)[t] = Between(Before(r.lower), Before(r.upper))
  <2>1. InsideNow(r)[t] = GrowthInside(r.lower, r.upper, walk.tick, g,
                            walk.ticks[r.lower].outside[t], walk.ticks[r.upper].outside[t])
    BY <1>2, <1>6 DEF InsideNow, InsideGrowth
  <2>2. PICK o \in Int, q \in Int : o = walk.ticks[r.lower].outside[t] /\ q = walk.ticks[r.upper].outside[t]
    BY <1>9
  <2>3. GrowthInside(r.lower, r.upper, walk.tick, g, o, q) =
          Between(GrowthBelow(walk.tick, r.lower, g, o), GrowthBelow(walk.tick, r.upper, g, q))
    <3>1. /\ walk.tick \in Int /\ r.lower \in Int /\ r.upper \in Int
          /\ g \in Int /\ o \in Int /\ q \in Int
      BY <1>3, <1>5, <1>6, <2>2
    <3>2. g - (IF walk.tick >= r.lower THEN o ELSE g - o) - (IF walk.tick < r.upper THEN q ELSE g - q) =
            GrowthBelow(walk.tick, r.upper, g, q) - GrowthBelow(walk.tick, r.lower, g, o)
      BY <3>1 DEF GrowthBelow
    <3> QED BY <3>2 DEF GrowthInside, Between
  <2> QED BY <2>1, <2>2, <2>3
<1>11. InsideNow(r)'[t] = Between(After(r.lower), After(r.upper))
  <2>1. InsideNow(r)'[t] = GrowthInside(r.lower, r.upper, TickAfter(target), h,
                             walk'.ticks[r.lower].outside[t], walk'.ticks[r.upper].outside[t])
    BY <1>2, <1>7 DEF InsideNow, InsideGrowth
  <2>2. PICK o \in Int, q \in Int : o = walk'.ticks[r.lower].outside[t] /\ q = walk'.ticks[r.upper].outside[t]
    BY <1>9
  <2>3. GrowthInside(r.lower, r.upper, TickAfter(target), h, o, q) =
          Between(GrowthBelow(TickAfter(target), r.lower, h, o), GrowthBelow(TickAfter(target), r.upper, h, q))
    <3>1. /\ TickAfter(target) \in Int /\ r.lower \in Int /\ r.upper \in Int
          /\ h \in Int /\ o \in Int /\ q \in Int
      BY <1>3, <1>5, <1>7, <2>2
    <3>2. h - (IF TickAfter(target) >= r.lower THEN o ELSE h - o) - (IF TickAfter(target) < r.upper THEN q ELSE h - q) =
            GrowthBelow(TickAfter(target), r.upper, h, q) - GrowthBelow(TickAfter(target), r.lower, h, o)
      BY <3>1 DEF GrowthBelow
    <3> QED BY <3>2 DEF GrowthInside, Between
  <2> QED BY <2>1, <2>2, <2>3
<1>12. Gain(r.lower) \in Int /\ Gain(r.upper) \in Int
  OBVIOUS
<1>13. Gain(r.upper) - Gain(r.lower) = IF Holds(r, walk.tick) THEN h - g ELSE 0
  BY <1>3, <1>5 DEF Holds
<1> HIDE DEF Before, After, Gain
<1>14. PICK a \in Int, b \in Int, c \in Int, d \in Int :
         a = Before(r.lower) /\ b = Before(r.upper) /\ c = After(r.lower) /\ d = After(r.upper)
  BY <1>8
<1>15. PICK da \in Int, db \in Int : da = Gain(r.lower) /\ db = Gain(r.upper)
  BY <1>12
<1>16. SameGrowth(c - a, da) /\ SameGrowth(d - b, db)
  BY <1>8, <1>14, <1>15
<1>17. Wrapped(Between(c, d) - Between(a, b)) = Wrapped(db - da)
  BY <1>14, <1>15, <1>16, BetweenMoves
<1>18. Wrapped(InsideNow(r)'[t] - InsideNow(r)[t]) =
         Wrapped(IF Holds(r, walk.tick) THEN h - g ELSE 0)
  BY <1>10, <1>11, <1>13, <1>14, <1>15, <1>17
<1>19. Wrapped(0) = 0
  <2>1. 0 - 0 = 0
    OBVIOUS
  <2> QED BY <2>1, NoGrowth
<1> QED BY <1>6, <1>7, <1>18, <1>19

LEMMA SettledInside ==
  ASSUME IInv, SettleSwap, NEW r \in Live
  PROVE  InsideNow(r)' = InsideNow(r)
<1>1. TypeOK /\ Ranges /\ Books
  BY DEF IInv
<1>2. /\ walk.active /\ ~ walk'.active /\ ticks' = walk.ticks
      /\ pool'.tick = Clamp(walk.tick) /\ pool'.growth = walk.growth
  BY DEF SettleSwap, EndTick, Idle
<1>3. \A x \in {r.lower, r.upper} : x \in Int /\ MinTick < x /\ x <= MaxTick
  BY <1>1, LiveBounds
<1>4. walk.tick \in Int /\ MinTick \in Int /\ MaxTick \in Int
  BY <1>1, <1>2, WalkFacts, PriceRange
<1>5. \A x \in {r.lower, r.upper} : Clamp(walk.tick) >= x <=> walk.tick >= x
  BY <1>3, <1>4 DEF Clamp, MaxOf, MinOf
<1>6. Clamp(walk.tick) < r.upper <=> walk.tick < r.upper
  BY <1>3, <1>4 DEF Clamp, MaxOf, MinOf
<1>7. InsideGrowth(r, walk.ticks[r.lower], walk.ticks[r.upper], Clamp(walk.tick), walk.growth) =
        InsideGrowth(r, walk.ticks[r.lower], walk.ticks[r.upper], walk.tick, walk.growth)
  BY <1>5, <1>6 DEF InsideGrowth, GrowthInside
<1> QED BY <1>2, <1>7 DEF InsideNow

\* The fees of a round go to the ranges that hold its tick and to no other, and
\* nothing else moves the growth inside a range that has liquidity.
THEOREM FeesStayInRangeTheorem ==
  Spec => FeesStayInRange
<1>1. IInv => EndsInitialized
  BY LiveBounds DEF IInv, EndsInitialized, Initialized
<1>2. ASSUME IInv, EndsInitialized, EndsInitialized', Next, ~ Reverting, ~ OutOfStep',
             NEW r \in Live \cap Live', NEW t \in Token
      PROVE  Wrapped(InsideNow(r)'[t] - InsideNow(r)[t]) =
               IF walk.active /\ walk'.active /\ Holds(r, walk.tick)
               THEN Wrapped(walk'.growth[t] - walk.growth[t]) ELSE 0
  <2>1. CASE Advance
    <3>1. walk.active /\ walk'.active
      BY <1>2, <2>1, RoundEffect
    <3>2. ~ walk'.stalled
      BY <1>2, <3>1 DEF OutOfStep
    <3> QED BY <1>2, <2>1, <3>1, <3>2, RoundFees
  <2>2. ASSUME InsideNow(r)' = InsideNow(r), ~ (walk.active /\ walk'.active)
        PROVE  Wrapped(InsideNow(r)'[t] - InsideNow(r)[t]) =
               IF walk.active /\ walk'.active /\ Holds(r, walk.tick)
               THEN Wrapped(walk'.growth[t] - walk.growth[t]) ELSE 0
    <3>1. InsideNow(r)[t] \in Int
      BY <1>2, InsideNowTyped, GrowthFacts
    <3>2. Wrapped(InsideNow(r)[t] - InsideNow(r)[t]) = 0
      BY <3>1, NoGrowth
    <3> QED BY <2>2, <3>2
  <2>3. CASE SettleSwap
    <3>1. ~ walk'.active
      BY <2>3 DEF SettleSwap, Idle
    <3> QED BY <1>2, <2>2, <2>3, <3>1, SettledInside
  <2>4. ASSUME NEW down \in BOOLEAN, NEW amount \in SwapAmounts, NEW limit \in PriceLimits,
               NEW n \in 1 .. 3, StartSwap(down, amount, limit, n)
        PROVE  InsideNow(r)' = InsideNow(r) /\ ~ walk.active
    <3>1. /\ ~ walk.active /\ walk'.active /\ walk'.tick = pool.tick
          /\ walk'.growth = pool.growth /\ walk'.ticks = ticks
      BY <2>4 DEF StartSwap
    <3> QED BY <3>1 DEF InsideNow
  <2>5. ASSUME NEW m \in Positions, NEW l \in Liquidities,
               IncreaseLiquidity(m, l) \/ DecreaseLiquidity(m, l)
        PROVE  InsideNow(r)' = InsideNow(r) /\ ~ walk.active
    <3>1. l \in Int /\ -l \in Int
      BY ClmmAssumption
    <3>2. PICK delta \in Int : \E amounts : Modify(m, delta, amounts)
      BY <2>5, <3>1 DEF IncreaseLiquidity, DecreaseLiquidity
    <3>3. PICK amounts : Modify(m, delta, amounts)
      BY <3>2
    <3>4. TypeOK /\ Ranges /\ Books
      BY <1>2 DEF IInv
    <3>5. /\ ~ walk.active /\ ~ walk'.active
          /\ pool'.tick = pool.tick /\ pool'.growth = pool.growth
      BY <3>3, <3>4, ModifyPool
    <3>6. InsideGrowth(r, ticks'[r.lower], ticks'[r.upper], pool.tick, pool.growth) =
            InsideGrowth(r, ticks[r.lower], ticks[r.upper], pool.tick, pool.growth)
      BY <1>2, <3>3, <3>4, InsideKept
    <3> QED BY <3>5, <3>6 DEF InsideNow
  <2>6. ASSUME NEW s \in Starts, InitTickArray(s)
        PROVE  InsideNow(r)' = InsideNow(r) /\ ~ walk.active
    BY <2>6 DEF InitTickArray, InsideNow
  <2>7. ASSUME NEW m \in Positions, OpenPosition(m) \/ ClosePosition(m) \/ Collect(m)
        PROVE  InsideNow(r)' = InsideNow(r) /\ ~ walk.active
    BY <2>7 DEF OpenPosition, ClosePosition, Collect, InsideNow
  <2>8. ~ RevertSwap
    BY <1>2 DEF Reverting, RevertSwap, Idle
  <2> QED BY <1>2, <2>1, <2>2, <2>3, <2>4, <2>5, <2>6, <2>7, <2>8 DEF Next
<1>3. IInv /\ EndsInitialized /\ EndsInitialized' /\ [Next]_vars =>
        [ ~ Reverting /\ ~ OutOfStep' =>
          \A r \in Live \cap Live', t \in Token :
            Wrapped(InsideNow(r)'[t] - InsideNow(r)[t]) =
              IF walk.active /\ walk'.active /\ Holds(r, walk.tick)
              THEN Wrapped(walk'.growth[t] - walk.growth[t]) ELSE 0 ]_vars
  BY <1>2
<1> QED BY <1>1, <1>3, ClmmInvariant, PTL DEF Spec, FeesStayInRange
=============================================================================
