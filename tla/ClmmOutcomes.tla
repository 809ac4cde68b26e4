---------------------------- MODULE ClmmOutcomes ----------------------------
(***************************************************************************)
(* What the users of one concentrated pool can count on, for any tier, any *)
(* table of tick prices, any positions and any swaps: the vaults cover     *)
(* what everybody would be paid, and the off-chain quote of a swap is its  *)
(* fill.                                                                   *)
(*                                                                         *)
(* What a position is worth is a fraction: its token 0 has the two prices  *)
(* of its range in the denominator.  In the first part everything is       *)
(* multiplied by Scale, the product of Q64 and a common multiple of all    *)
(* prices, so that every worth is an integer and every rounding an         *)
(* inequality.  The second part takes the quote round by round.            *)
(***************************************************************************)
EXTENDS ClmmProofs, ClmmQuote

-----------------------------------------------------------------------------
(* A common multiple of the prices.                                        *)

MultipleUpTo(d, n) == \A p \in 1 .. n : \E k \in Nat : d = p * k
AllPrices == CHOOSE d \in Nat \ {0} : MultipleUpTo(d, MaxSqrtPrice)
Reciprocal(p) == CHOOSE k \in Nat : AllPrices = p * k
Scale == AllPrices * Q64

LEMMA MultipleGrows ==
  ASSUME NEW n \in Nat, NEW d \in Nat \ {0}, MultipleUpTo(d, n)
  PROVE  \E e \in Nat \ {0} : MultipleUpTo(e, n + 1)
<1>1. d * (n + 1) \in Nat /\ d * (n + 1) > 0
  BY ProductFacts
<1>2. ASSUME NEW p \in 1 .. n + 1
      PROVE  \E k \in Nat : d * (n + 1) = p * k
  <2>1. CASE p = n + 1
    <3>1. d * (n + 1) = (n + 1) * d
      OBVIOUS
    <3> QED BY <2>1, <3>1
  <2>2. CASE p # n + 1
    <3>1. p \in 1 .. n
      BY <2>2
    <3>2. PICK k \in Nat : d = p * k
      BY <3>1 DEF MultipleUpTo
    <3>3. k * (n + 1) \in Nat
      BY ProductFacts
    <3>4. p \in Nat
      BY <3>1
    <3>5. (p * k) * (n + 1) = p * (k * (n + 1))
      BY <3>4, Z3
    <3> QED BY <3>2, <3>3, <3>5
  <2> QED BY <2>1, <2>2
<1>3. MultipleUpTo(d * (n + 1), n + 1)
  BY <1>2 DEF MultipleUpTo
<1> DEFINE e == d * (n + 1)
<1> HIDE DEF e
<1>4. e \in Nat \ {0} /\ MultipleUpTo(e, n + 1)
  BY <1>1, <1>3 DEF e
<1> QED BY <1>4

\* There is one: otherwise take the smallest bound without.
LEMMA MultipleExists ==
  ASSUME NEW n \in Nat
  PROVE  \E d \in Nat \ {0} : MultipleUpTo(d, n)
<1> DEFINE Has(m) == \E d \in Nat \ {0} : MultipleUpTo(d, m)
           Bad == { m \in 0 .. n : ~ Has(m) }
<1>1. Has(0)
  <2>1. MultipleUpTo(1, 0) /\ 1 \in Nat \ {0}
    BY DEF MultipleUpTo
  <2> QED BY <2>1
<1>2. ASSUME NEW m \in Nat, Has(m) PROVE Has(m + 1)
  BY <1>2, MultipleGrows
<1> HIDE DEF Has
<1>3. ASSUME Bad # {} PROVE FALSE
  <2>1. Bad \subseteq Int /\ IsFiniteSet(Bad)
    <3>1. IsFiniteSet(0 .. n)
      BY FS_Interval
    <3>2. Bad \subseteq 0 .. n
      OBVIOUS
    <3>3. IsFiniteSet(Bad)
      BY <3>1, <3>2, FS_Subset
    <3> QED BY <3>3
  <2>2. PICK m \in Bad : \A k \in Bad : m <= k
    <3> HIDE DEF Bad
    <3> QED BY <1>3, <2>1, ExtremesExist
  <2>3. m \in 0 .. n /\ ~ Has(m) /\ m # 0
    BY <1>1, <2>2
  <2>4. m - 1 \in 0 .. n /\ m - 1 \in Nat /\ (m - 1) + 1 = m
    BY <2>3
  <2>5. m - 1 \notin Bad
    BY <2>2, <2>4
  <2>6. Has(m - 1)
    BY <2>4, <2>5
  <2> QED BY <1>2, <2>3, <2>4, <2>6
<1>4. n \in 0 .. n
  OBVIOUS
<1>5. Has(n)
  BY <1>3, <1>4
<1> QED BY <1>5 DEF Has

LEMMA ScaleFacts ==
  /\ AllPrices \in Nat /\ AllPrices > 0 /\ Scale \in Nat /\ Scale > 0
  /\ \A p \in Prices : Reciprocal(p) \in Nat /\ AllPrices = p * Reciprocal(p)
<1>1. MaxSqrtPrice \in Nat
  BY PricesTyped
<1>2. AllPrices \in Nat \ {0} /\ MultipleUpTo(AllPrices, MaxSqrtPrice)
  BY <1>1, MultipleExists DEF AllPrices
<1>3. Q64 \in Nat /\ Q64 > 0
  BY Parameters
<1>4. Scale \in Nat /\ Scale > 0
  <2>1. AllPrices \in Nat /\ AllPrices > 0
    BY <1>2
  <2> HIDE DEF AllPrices
  <2> QED BY <1>3, <2>1, ProductFacts DEF Scale
<1>5. ASSUME NEW p \in Prices
      PROVE  Reciprocal(p) \in Nat /\ AllPrices = p * Reciprocal(p)
  <2>1. p \in 1 .. MaxSqrtPrice
    <3>1. p \in Nat /\ p > 0 /\ p <= MaxSqrtPrice
      BY PricesTyped
    <3> QED BY <1>1, <3>1
  <2>2. \E k \in Nat : AllPrices = p * k
    BY <1>2, <2>1 DEF MultipleUpTo
  <2> QED BY <2>2 DEF Reciprocal
<1> QED BY <1>2, <1>4, <1>5

LEMMA ReciprocalOrder ==
  ASSUME NEW p \in Prices, NEW q \in Prices, p <= q
  PROVE  Reciprocal(q) <= Reciprocal(p)
<1> DEFINE x == Reciprocal(p)
           y == Reciprocal(q)
<1>1. x \in Nat /\ y \in Nat /\ p * x = q * y
  BY ScaleFacts
<1>2. p \in Nat /\ q \in Nat /\ p > 0 /\ q > 0
  BY PricesTyped
<1> HIDE DEF x, y
<1>3. ASSUME x < y PROVE FALSE
  <2>1. p * x < p * y
    BY <1>1, <1>2, <1>3, Z3
  <2>2. p * y <= q * y
    BY <1>1, <1>2, Z3
  <2>3. p * x \in Nat /\ p * y \in Nat /\ q * y \in Nat
    BY <1>1, <1>2, ProductFacts
  <2> QED BY <1>1, <2>1, <2>2, <2>3
<1> QED BY <1>1, <1>3 DEF x, y

-----------------------------------------------------------------------------
(* Amounts, multiplied by Scale.                                           *)

\* What a unit of liquidity holds of a token between two prices.
Tokens(t, lo, hi) == IF t = 1 THEN AllPrices * (hi - lo)
                     ELSE (Q64 * Q64) * (Reciprocal(lo) - Reciprocal(hi))

LEMMA TokensFacts ==
  ASSUME NEW t \in Token, NEW a \in Prices, NEW b \in Prices, NEW c \in Prices
  PROVE  /\ Tokens(t, a, b) \in Int
         /\ a <= b => Tokens(t, a, b) >= 0
         /\ a = b => Tokens(t, a, b) = 0
         /\ Tokens(t, a, b) + Tokens(t, b, c) = Tokens(t, a, c)
<1> DEFINE x == Reciprocal(a)
           y == Reciprocal(b)
           z == Reciprocal(c)
           q == Q64 * Q64
<1>1. /\ x \in Nat /\ y \in Nat /\ z \in Nat /\ AllPrices \in Nat
      /\ a \in Nat /\ b \in Nat /\ c \in Nat /\ (a <= b => y <= x)
  BY ScaleFacts, ReciprocalOrder, PricesTyped
<1>2. q \in Nat
  BY Parameters, ProductFacts
<1> HIDE DEF x, y, z, q
<1>3. CASE t = 1
  <2> DEFINE A == AllPrices
  <2>1. A \in Nat
    BY <1>1
  <2> HIDE DEF A
  <2>2. A * (b - a) \in Int /\ A * (c - b) \in Int /\ A * (c - a) \in Int
        /\ A * (b - a) + A * (c - b) = A * (c - a)
    BY <1>1, <2>1, Z3
  <2>3. a <= b => A * (b - a) >= 0
    <3>1. a <= b => b - a \in Nat
      BY <1>1
    <3> QED BY <2>1, <3>1, ProductFacts
  <2>4. a = b => A * (b - a) = 0
    BY <1>1, <2>1
  <2> QED BY <1>3, <2>2, <2>3, <2>4 DEF Tokens, A
<1>4. CASE t = 0
  <2>1. q * (x - y) \in Int /\ q * (y - z) \in Int /\ q * (x - z) \in Int
        /\ q * (x - y) + q * (y - z) = q * (x - z)
    BY <1>1, <1>2, Z3
  <2>2. a <= b => q * (x - y) >= 0
    <3>1. a <= b => x - y \in Nat
      BY <1>1
    <3> QED BY <1>2, <3>1, ProductFacts
  <2>3. a = b => q * (x - y) = 0
    <3>1. a = b => x - y = 0
      BY <1>1 DEF x, y
    <3> QED BY <1>2, <3>1
  <2> QED BY <1>4, <2>1, <2>2, <2>3 DEF Tokens, x, y, z, q
<1> QED BY <1>3, <1>4 DEF Token

\* A quotient that would be the amount exactly, rounded down and up.
LEMMA ScaledRounding ==
  ASSUME NEW n \in Nat, NEW d \in Nat, d > 0, NEW s \in Nat, NEW e \in Nat, s * n = d * e
  PROVE  s * (n \div d) <= e /\ e <= s * CeilDiv(n, d)
<1> DEFINE f == n \div d
           g == CeilDiv(n, d)
<1>1. f \in Nat /\ d * f <= n
  BY QuotientFacts
<1>2. g \in Nat /\ n <= d * g
  BY CeilingFacts
<1> HIDE DEF f, g
<1>3. d * f \in Nat /\ d * g \in Nat /\ s * f \in Nat /\ s * g \in Nat
  BY <1>1, <1>2, ProductFacts
<1>4. d * (s * f) <= d * e
  <2>1. s * (d * f) <= s * n
    BY <1>1, <1>3, Ordered
  <2>2. s * (d * f) = d * (s * f)
    BY <1>1, Z3
  <2> QED BY <2>1, <2>2
<1>5. d * e <= d * (s * g)
  <2>1. s * n <= s * (d * g)
    BY <1>2, <1>3, Ordered
  <2>2. s * (d * g) = d * (s * g)
    BY <1>2, Z3
  <2> QED BY <2>1, <2>2
<1>6. s * f <= e /\ e <= s * g
  BY <1>3, <1>4, <1>5, Ordered
<1> QED BY <1>6 DEF f, g

LEMMA Amount1Scaled ==
  ASSUME NEW lo \in Prices, NEW hi \in Prices, lo <= hi, NEW l \in Nat
  PROVE  /\ Scale * Amount1Delta(lo, hi, l, FALSE) <= l * Tokens(1, lo, hi)
         /\ l * Tokens(1, lo, hi) <= Scale * Amount1Delta(lo, hi, l, TRUE)
<1>1. lo \in Nat /\ hi \in Nat /\ AllPrices \in Nat /\ Q64 \in Nat /\ Q64 > 0 /\ Scale \in Nat
  BY PricesTyped, ScaleFacts, Parameters
<1>2. PICK w \in Nat : w = hi - lo
  BY <1>1
<1>3. /\ Amount1Delta(lo, hi, l, FALSE) = (l * w) \div Q64
      /\ Amount1Delta(lo, hi, l, TRUE) = CeilDiv(l * w, Q64)
  BY <1>1, <1>2 DEF Amount1Delta, Divide, MinOf, MaxOf
<1>4. Tokens(1, lo, hi) = AllPrices * w
  BY <1>2 DEF Tokens
<1> DEFINE n == l * w
           e == l * (AllPrices * w)
<1>5. n \in Nat /\ e \in Nat
  <2>1. AllPrices * w \in Nat
    BY <1>1, ProductFacts
  <2> QED BY <2>1, ProductFacts
<1>6. Scale * n = Q64 * e
  <2>1. PICK A \in Nat : A = AllPrices
    BY <1>1
  <2>2. (A * Q64) * (l * w) = Q64 * (l * (A * w))
    BY <1>1, Z3
  <2> QED BY <2>1, <2>2 DEF Scale
<1> HIDE DEF n, e
<1>7. Scale * (n \div Q64) <= e /\ e <= Scale * CeilDiv(n, Q64)
  BY <1>1, <1>5, <1>6, ScaledRounding
<1> QED BY <1>3, <1>4, <1>7 DEF n, e

LEMMA Amount0Scaled ==
  ASSUME NEW lo \in Prices, NEW hi \in Prices, lo <= hi, NEW l \in Nat
  PROVE  /\ Scale * Amount0Delta(lo, hi, l, FALSE) <= l * Tokens(0, lo, hi)
         /\ l * Tokens(0, lo, hi) <= Scale * Amount0Delta(lo, hi, l, TRUE)
<1>1. lo \in Nat /\ hi \in Nat /\ lo > 0 /\ hi > 0 /\ AllPrices \in Nat /\ Q64 \in Nat
      /\ Scale \in Nat
  BY PricesTyped, ScaleFacts, Parameters
<1>2. PICK w \in Nat : w = hi - lo
  BY <1>1
<1>3. PICK x \in Nat, y \in Nat : /\ x = Reciprocal(lo) /\ y = Reciprocal(hi)
                                  /\ AllPrices = lo * x /\ AllPrices = hi * y /\ y <= x
  BY ScaleFacts, ReciprocalOrder
<1>4. PICK v \in Nat : v = x - y
  BY <1>3
<1>5. Tokens(0, lo, hi) = (Q64 * Q64) * v
  BY <1>3, <1>4 DEF Tokens
<1> DEFINE n == (l * Q64) * w
           d == lo * hi
           e == l * ((Q64 * Q64) * v)
<1>6. /\ Amount0Delta(lo, hi, l, FALSE) = n \div d
      /\ Amount0Delta(lo, hi, l, TRUE) = CeilDiv(n, d)
  BY <1>1, <1>2 DEF Amount0Delta, Divide, MinOf, MaxOf
<1>7. n \in Nat /\ e \in Nat /\ d \in Nat /\ d > 0
  <2>1. Q64 * Q64 \in Nat /\ l * Q64 \in Nat
    BY <1>1, ProductFacts
  <2>2. (Q64 * Q64) * v \in Nat
    BY <2>1, ProductFacts
  <2> QED BY <1>1, <2>1, <2>2, ProductFacts
<1>8. Scale * n = d * e
  <2>1. PICK A \in Nat : A = AllPrices /\ A = lo * x /\ A = hi * y
    BY <1>1, <1>3
  <2>2. (lo * hi) * v = A * w
    <3>1. (lo * hi) * (x - y) = hi * (lo * x) - lo * (hi * y)
      BY <1>1, Z3
    <3>2. A * (hi - lo) = hi * A - lo * A
      BY <1>1, Z3
    <3> QED BY <1>2, <1>4, <2>1, <3>1, <3>2
  <2>3. (A * Q64) * ((l * Q64) * w) = (l * (Q64 * Q64)) * (A * w)
    BY <1>1, Z3
  <2>4. d * e = (l * (Q64 * Q64)) * ((lo * hi) * v)
    <3>1. (lo * hi) * (l * ((Q64 * Q64) * v)) = (l * (Q64 * Q64)) * ((lo * hi) * v)
      BY <1>1, Z3
    <3> QED BY <3>1
  <2> QED BY <2>1, <2>2, <2>3, <2>4 DEF Scale
<1> HIDE DEF n, d, e
<1>9. Scale * (n \div d) <= e /\ e <= Scale * CeilDiv(n, d)
  BY <1>1, <1>7, <1>8, ScaledRounding
<1> QED BY <1>5, <1>6, <1>9 DEF e

-----------------------------------------------------------------------------
(* What the liquidity of a position is worth.                              *)

\* The price, kept inside the range.
Kept(price, r) == MaxOf(SqrtPrice[r.lower], MinOf(price, SqrtPrice[r.upper]))
Depth(t, price, r) == IF t = 1 THEN Tokens(1, SqrtPrice[r.lower], Kept(price, r))
                      ELSE Tokens(0, Kept(price, r), SqrtPrice[r.upper])

\* How much a unit of liquidity gains of a token when the price moves.
Move(t, from, to) == IF t = 1 THEN Tokens(1, from, to) ELSE Tokens(0, to, from)

IsRange(r) == IsTickBound(r.lower) /\ IsTickBound(r.upper) /\ r.lower < r.upper

LEMMA RangeFacts ==
  ASSUME NEW r, IsRange(r)
  PROVE  /\ r.lower \in MinTick .. MaxTick /\ r.upper \in MinTick .. MaxTick
         /\ r.lower \in Int /\ r.upper \in Int /\ r.lower < r.upper
         /\ SqrtPrice[r.lower] \in Prices /\ SqrtPrice[r.upper] \in Prices
         /\ SqrtPrice[r.lower] < SqrtPrice[r.upper]
<1>1. r.lower \in MinTick .. MaxTick /\ r.upper \in MinTick .. MaxTick /\ r.lower < r.upper
  BY DEF IsRange, IsTickBound
<1>2. r.lower \in Int /\ r.upper \in Int
  BY <1>1, PriceRange
<1> QED BY <1>1, <1>2, PriceGrows, PricesTyped

LEMMA KeptFacts ==
  ASSUME NEW r, IsRange(r), NEW p \in Prices
  PROVE  /\ Kept(p, r) \in Prices
         /\ SqrtPrice[r.lower] <= Kept(p, r) /\ Kept(p, r) <= SqrtPrice[r.upper]
         /\ p <= SqrtPrice[r.lower] => Kept(p, r) = SqrtPrice[r.lower]
         /\ SqrtPrice[r.upper] <= p => Kept(p, r) = SqrtPrice[r.upper]
         /\ SqrtPrice[r.lower] <= p /\ p <= SqrtPrice[r.upper] => Kept(p, r) = p
<1> DEFINE a == SqrtPrice[r.lower]
           b == SqrtPrice[r.upper]
<1>1. a \in Prices /\ b \in Prices /\ a < b
  BY RangeFacts
<1>2. a \in Nat /\ b \in Nat /\ p \in Nat
  BY <1>1, PricesTyped
<1>3. Kept(p, r) = MaxOf(a, MinOf(p, b))
  BY DEF Kept
<1> HIDE DEF a, b
<1>4. /\ MaxOf(a, MinOf(p, b)) \in {a, b, p}
      /\ a <= MaxOf(a, MinOf(p, b)) /\ MaxOf(a, MinOf(p, b)) <= b
      /\ p <= a => MaxOf(a, MinOf(p, b)) = a
      /\ b <= p => MaxOf(a, MinOf(p, b)) = b
      /\ a <= p /\ p <= b => MaxOf(a, MinOf(p, b)) = p
  BY <1>1, <1>2 DEF MaxOf, MinOf
<1> QED BY <1>1, <1>3, <1>4 DEF a, b

LEMMA DepthTyped ==
  ASSUME NEW r, IsRange(r), NEW p \in Prices, NEW t \in Token
  PROVE  Depth(t, p, r) \in Nat
<1>1. /\ Kept(p, r) \in Prices /\ SqrtPrice[r.lower] \in Prices /\ SqrtPrice[r.upper] \in Prices
      /\ SqrtPrice[r.lower] <= Kept(p, r) /\ Kept(p, r) <= SqrtPrice[r.upper]
  BY KeptFacts, RangeFacts
<1>2. /\ Tokens(1, SqrtPrice[r.lower], Kept(p, r)) \in Int
      /\ Tokens(1, SqrtPrice[r.lower], Kept(p, r)) >= 0
      /\ Tokens(0, Kept(p, r), SqrtPrice[r.upper]) \in Int
      /\ Tokens(0, Kept(p, r), SqrtPrice[r.upper]) >= 0
  BY <1>1, TokensFacts DEF Token
<1> QED BY <1>2 DEF Depth

\* amounts_for_liquidity rounds what the liquidity is worth.
LEMMA AmountsScaled ==
  ASSUME NEW p \in Prices, NEW tick \in MinTick .. MaxTick, TickMatches(tick, p),
         NEW r, IsRange(r), NEW l \in Nat, NEW t \in Token
  PROVE  /\ Scale * AmountsForLiquidity(p, tick, r, l, FALSE)[t] <= l * Depth(t, p, r)
         /\ l * Depth(t, p, r) <= Scale * AmountsForLiquidity(p, tick, r, l, TRUE)[t]
<1> DEFINE a == SqrtPrice[r.lower]
           b == SqrtPrice[r.upper]
           from == IF tick < r.lower THEN a ELSE IF tick < r.upper THEN p ELSE b
<1>1. /\ r.lower \in MinTick .. MaxTick /\ r.upper \in MinTick .. MaxTick
      /\ r.lower \in Int /\ r.upper \in Int /\ r.lower < r.upper
      /\ a \in Prices /\ b \in Prices /\ a < b
  BY RangeFacts
<1>2. tick \in Int
  BY PriceRange
<1>3. /\ SqrtPrice[tick] <= p /\ SqrtPrice[tick] \in Nat /\ p \in Nat /\ a \in Nat /\ b \in Nat
      /\ \A x \in MinTick .. MaxTick : tick < x => p <= SqrtPrice[x]
  BY <1>1, MatchFacts, PricesTyped
<1>4. from = Kept(p, r)
  <2>1. CASE tick < r.lower
    <3>1. p <= a
      BY <1>1, <1>3, <2>1
    <3> QED BY <2>1, <3>1, KeptFacts
  <2>2. CASE r.lower <= tick /\ tick < r.upper
    <3>1. a <= SqrtPrice[tick] /\ p <= b
      BY <1>1, <1>3, <2>2, PriceOrder
    <3>2. a <= p
      <4> HIDE DEF a, SqrtPrice
      <4> QED BY <1>3, <3>1
    <3>3. ~ (tick < r.lower)
      BY <1>1, <1>2, <2>2
    <3> QED BY <2>2, <3>1, <3>2, <3>3, KeptFacts
  <2>3. CASE r.upper <= tick
    <3>1. b <= SqrtPrice[tick]
      BY <1>1, <2>3, PriceOrder
    <3>2. b <= p
      <4> HIDE DEF b, SqrtPrice
      <4> QED BY <1>3, <3>1
    <3>3. ~ (tick < r.lower) /\ ~ (tick < r.upper)
      BY <1>1, <1>2, <2>3
    <3> QED BY <3>2, <3>3, KeptFacts
  <2> QED BY <1>1, <1>2, <2>1, <2>2, <2>3
<1>5. from \in Prices /\ a <= from /\ from <= b
  BY <1>4, KeptFacts
<1>6. /\ AmountsForLiquidity(p, tick, r, l, FALSE)[t] =
           IF t = 0 THEN Amount0Delta(from, b, l, FALSE) ELSE Amount1Delta(a, from, l, FALSE)
      /\ AmountsForLiquidity(p, tick, r, l, TRUE)[t] =
           IF t = 0 THEN Amount0Delta(from, b, l, TRUE) ELSE Amount1Delta(a, from, l, TRUE)
  BY DEF AmountsForLiquidity
<1>7. Depth(t, p, r) = IF t = 1 THEN Tokens(1, a, from) ELSE Tokens(0, from, b)
  BY <1>4 DEF Depth
<1> HIDE DEF from, a, b
<1>8. /\ Scale * Amount0Delta(from, b, l, FALSE) <= l * Tokens(0, from, b)
      /\ l * Tokens(0, from, b) <= Scale * Amount0Delta(from, b, l, TRUE)
  BY <1>1, <1>5, Amount0Scaled
<1>9. /\ Scale * Amount1Delta(a, from, l, FALSE) <= l * Tokens(1, a, from)
      /\ l * Tokens(1, a, from) <= Scale * Amount1Delta(a, from, l, TRUE)
  BY <1>1, <1>5, Amount1Scaled
<1>10. CASE t = 0
  <2>1. AmountsForLiquidity(p, tick, r, l, FALSE)[t] = Amount0Delta(from, b, l, FALSE)
    BY <1>6, <1>10
  <2>2. AmountsForLiquidity(p, tick, r, l, TRUE)[t] = Amount0Delta(from, b, l, TRUE)
    BY <1>6, <1>10
  <2>3. Depth(t, p, r) = Tokens(0, from, b)
    BY <1>7, <1>10
  <2> QED BY ONLY <1>8, <2>1, <2>2, <2>3
<1>11. CASE t = 1
  <2>0. t # 0
    BY <1>11
  <2>1. AmountsForLiquidity(p, tick, r, l, FALSE)[t] = Amount1Delta(a, from, l, FALSE)
    BY <1>6, <2>0
  <2>2. AmountsForLiquidity(p, tick, r, l, TRUE)[t] = Amount1Delta(a, from, l, TRUE)
    BY <1>6, <2>0
  <2>3. Depth(t, p, r) = Tokens(1, a, from)
    BY <1>7, <1>11
  <2> QED BY ONLY <1>9, <2>1, <2>2, <2>3
<1> QED BY <1>10, <1>11 DEF Token

\* A price that passes no end moves the worth of the ranges that hold its tick.
LEMMA DepthMoves ==
  ASSUME NEW r, IsRange(r), NEW p \in Prices, NEW q \in Prices, NEW tick \in Int,
         \A x \in {r.lower, r.upper} : IF x <= tick THEN SqrtPrice[x] <= p /\ SqrtPrice[x] <= q
                                       ELSE p <= SqrtPrice[x] /\ q <= SqrtPrice[x],
         NEW t \in Token
  PROVE  Depth(t, q, r) = Depth(t, p, r) + IF Holds(r, tick) THEN Move(t, p, q) ELSE 0
<1> DEFINE a == SqrtPrice[r.lower]
           b == SqrtPrice[r.upper]
<1>1. /\ r.lower \in Int /\ r.upper \in Int /\ r.lower < r.upper
      /\ a \in Prices /\ b \in Prices
  BY RangeFacts
<1>2. Depth(t, p, r) \in Nat
  BY DepthTyped
<1>3. CASE Holds(r, tick)
  <2>1. a <= p /\ a <= q /\ p <= b /\ q <= b
    BY <1>1, <1>3 DEF Holds
  <2>2. Kept(p, r) = p /\ Kept(q, r) = q
    BY <2>1, KeptFacts
  <2>0. 0 \in Token /\ 1 \in Token
    BY DEF Token
  <2> HIDE DEF a, b
  <2>3. Tokens(1, a, p) + Tokens(1, p, q) = Tokens(1, a, q)
    BY <1>1, <2>0, TokensFacts
  <2>4. Tokens(0, q, p) + Tokens(0, p, b) = Tokens(0, q, b)
        /\ Tokens(0, q, p) \in Int /\ Tokens(0, p, b) \in Int
    BY <1>1, <2>0, TokensFacts
  <2>5. CASE t = 1
    BY <1>3, <2>2, <2>3, <2>5 DEF Depth, Move, a
  <2>6. CASE t = 0
    <3>1. Depth(t, q, r) = Tokens(0, q, b) /\ Depth(t, p, r) = Tokens(0, p, b)
          /\ Move(t, p, q) = Tokens(0, q, p)
      BY <2>2, <2>6 DEF Depth, Move, b
    <3>2. Tokens(0, q, b) = Tokens(0, p, b) + Tokens(0, q, p)
      BY <2>4
    <3> QED BY <1>3, <3>1, <3>2
  <2> QED BY <2>5, <2>6 DEF Token
<1>4. CASE ~ Holds(r, tick)
  <2>1. (p <= a /\ q <= a) \/ (b <= p /\ b <= q)
    BY <1>1, <1>4 DEF Holds
  <2>2. Kept(p, r) = Kept(q, r)
    BY <2>1, KeptFacts
  <2>3. Depth(t, q, r) = Depth(t, p, r)
    BY <2>2 DEF Depth
  <2> QED BY <1>2, <1>4, <2>3
<1> QED BY <1>3, <1>4

-----------------------------------------------------------------------------
(* One round.                                                              *)

\* Between the price a round starts and the price it ends at lies no end of a
\* live position.
LEMMA RoundBetween ==
  ASSUME IInv, walk.active, ~ walk.stalled, NEW target \in NextTargets,
         NEW s, s = Step(target), NEW r \in Live, NEW x \in {r.lower, r.upper}
  PROVE  IF x <= walk.tick THEN SqrtPrice[x] <= walk.price /\ SqrtPrice[x] <= s.price
         ELSE walk.price <= SqrtPrice[x] /\ s.price <= SqrtPrice[x]
<1> DEFINE c == Clamp(target)
           k == Clamp(walk.tick)
<1>1. TypeOK /\ Ranges /\ Books /\ TickMatches(k, walk.price)
  BY DEF IInv, TickTracksPrice
<1>2. /\ walk.tick \in Int /\ walk.price \in Prices /\ walk.down \in BOOLEAN
  BY <1>1, WalkFacts
<1>3. target \in Int /\ Bound(target) = SqrtPrice[c]
  BY <1>1, TargetFacts DEF Bound
<1>4. c \in MinTick .. MaxTick /\ k \in MinTick .. MaxTick
  BY <1>2, <1>3, ClampFacts
<1>5. x \in Int /\ x \in MinTick .. MaxTick /\ Clamp(x) = x
  BY <1>1, LiveBounds DEF IsTickBound
<1>6. /\ SqrtPrice[k] <= walk.price
      /\ \A y \in MinTick .. MaxTick : k < y => walk.price <= SqrtPrice[y]
  BY <1>1, <1>2, <1>4, MatchFacts
<1>7. /\ s.price \in Prices
      /\ walk.down => SqrtPrice[c] <= s.price /\ s.price <= walk.price
      /\ ~ walk.down => walk.price <= s.price /\ s.price <= SqrtPrice[c]
  BY <1>3, RoundFacts
<1>8. /\ SqrtPrice[x] \in Nat /\ SqrtPrice[c] \in Nat /\ SqrtPrice[k] \in Nat
      /\ s.price \in Nat /\ walk.price \in Nat
  BY <1>2, <1>4, <1>5, <1>7, PricesTyped
<1>9. CASE x <= walk.tick
  <2>1. SqrtPrice[x] <= SqrtPrice[k]
    <3>1. x <= k
      BY <1>2, <1>5, <1>9, ClampMonotone
    <3> QED BY <1>4, <1>5, <3>1, PriceOrder
  <2>2. walk.down => SqrtPrice[x] <= SqrtPrice[c]
    <3>1. ASSUME walk.down PROVE x <= target
      BY <1>2, <1>5, <1>9, <3>1, AheadBounds
    <3>2. walk.down => x <= c
      BY <1>3, <1>5, <3>1, ClampMonotone
    <3> QED BY <1>4, <1>5, <3>2, PriceOrder
  <2> HIDE DEF c, k, SqrtPrice
  <2> QED BY <1>2, <1>6, <1>7, <1>8, <1>9, <2>1, <2>2
<1>10. CASE walk.tick < x
  <2>1. walk.price <= SqrtPrice[x]
    <3>1. k < x
      <4>1. MinTick < x /\ x <= MaxTick /\ MinTick \in Int /\ MaxTick \in Int
        BY <1>1, <1>5, LiveBounds, PriceRange
      <4> QED BY <1>2, <1>5, <1>10, <4>1 DEF Clamp, MaxOf, MinOf
    <3> QED BY <1>5, <1>6, <3>1
  <2>2. ~ walk.down => SqrtPrice[c] <= SqrtPrice[x]
    <3>1. ASSUME ~ walk.down PROVE target <= x
      BY <1>2, <1>5, <1>10, <3>1, AheadBounds
    <3>2. ~ walk.down => c <= x
      BY <1>3, <1>5, <3>1, ClampMonotone
    <3> QED BY <1>4, <1>5, <3>2, PriceOrder
  <2>3. ~ (x <= walk.tick)
    BY <1>2, <1>5, <1>10
  <2> HIDE DEF c, k, SqrtPrice
  <2> QED BY <1>2, <1>7, <1>8, <2>1, <2>2, <2>3
<1> QED BY <1>2, <1>5, <1>9, <1>10

\* What a step takes and gives lies between its two prices, reached or not.
LEMMA SwapStepAmounts ==
  ASSUME NEW p, NEW goal, NEW l, NEW remaining,
         NEW s, s = SwapStep(p, goal, l, remaining, FeePips)
  PROVE  /\ s.in = IF p >= goal THEN Amount0Delta(s.price, p, l, TRUE)
                  ELSE Amount1Delta(p, s.price, l, TRUE)
         /\ s.out = IF p >= goal THEN Amount1Delta(s.price, p, l, FALSE)
                   ELSE Amount0Delta(p, s.price, l, FALSE)
<1> DEFINE lessFee == (remaining * (FeeDenom - FeePips)) \div FeeDenom
           all == AmountIn(p, goal, l)
           near == IF p >= goal THEN NextPriceFrom0In(p, l, lessFee)
                   ELSE NextPriceFrom1In(p, l, lessFee)
           short == IF p >= goal THEN Amount0Delta(near, p, l, TRUE)
                    ELSE Amount1Delta(p, near, l, TRUE)
           next == IF lessFee >= all THEN goal ELSE near
           in == IF lessFee >= all THEN all ELSE short
           fee == IF lessFee >= all THEN CeilDiv(in * FeePips, FeeDenom - FeePips)
                  ELSE remaining - in
<1>1. s = [price |-> next, in |-> in, out |-> AmountOut(p >= goal, p, next, l), fee |-> fee]
  BY Zenon DEF SwapStep
<1>2. /\ all = IF p >= goal THEN Amount0Delta(goal, p, l, TRUE) ELSE Amount1Delta(p, goal, l, TRUE)
      /\ AmountOut(p >= goal, p, next, l) = IF p >= goal THEN Amount1Delta(next, p, l, FALSE)
                                            ELSE Amount0Delta(p, next, l, FALSE)
  BY Zenon DEF AmountIn, AmountOut
<1> HIDE DEF lessFee, all, near, fee
<1>3. s.price = next /\ s.in = in /\ s.out = AmountOut(p >= goal, p, next, l)
  BY <1>1
<1>4. in = IF p >= goal THEN Amount0Delta(next, p, l, TRUE) ELSE Amount1Delta(p, next, l, TRUE)
  BY <1>2
<1> HIDE DEF next, in
<1> QED BY <1>2, <1>3, <1>4

\* What a round takes in covers what the liquidity gains of the one token, and
\* what it gives out is covered by what the liquidity loses of the other.
LEMMA StepScaled ==
  ASSUME IInv, walk.active, NEW target \in NextTargets, NEW s, s = Step(target)
  PROVE  /\ walk.liquidity * Move(InToken, walk.price, s.price) <= Scale * s.in
         /\ walk.liquidity * Move(1 - InToken, walk.price, s.price) <= -(Scale * s.out)
<1> DEFINE p == walk.price
           q == s.price
           l == walk.liquidity
<1>1. TypeOK
  BY DEF IInv
<1>2. p \in Prices /\ l \in Nat /\ walk.down \in BOOLEAN
  BY <1>1, WalkFacts
<1>3. /\ q \in Prices /\ s.in \in Nat /\ s.out \in Nat
      /\ walk.down => q <= p
      /\ ~ walk.down => p <= q
  BY RoundFacts
<1>4. 0 \in Token /\ 1 \in Token /\ Scale \in Nat
  BY ScaleFacts DEF Token
<1>5. /\ \A t \in Token : Tokens(t, p, q) \in Int /\ Tokens(t, q, p) \in Int
      /\ Tokens(1, p, q) + Tokens(1, q, p) = 0
      /\ Tokens(0, p, q) + Tokens(0, q, p) = 0
      /\ p = q => Tokens(1, p, q) = 0 /\ Tokens(0, q, p) = 0
  <2>1. \A t \in Token : /\ Tokens(t, p, q) \in Int /\ Tokens(t, q, p) \in Int
                         /\ Tokens(t, p, q) + Tokens(t, q, p) = Tokens(t, p, p)
                         /\ Tokens(t, p, p) = 0
                         /\ p = q => Tokens(t, p, q) = 0 /\ Tokens(t, q, p) = 0
    BY <1>2, <1>3, TokensFacts
  <2> QED BY <1>4, <2>1
<1>6. CASE l = 0
  <2>1. s.in = 0 /\ s.out = 0
    BY <1>6 DEF Step, StepTowards
  <2>2. Move(InToken, p, q) \in Int /\ Move(1 - InToken, p, q) \in Int
    BY <1>4, <1>5 DEF InToken, Move
  <2> QED BY <1>4, <1>6, <2>1, <2>2
<1>7. CASE l # 0
  <2> DEFINE goal == IF walk.down THEN MaxOf(Bound(target), walk.limit)
                     ELSE MinOf(Bound(target), walk.limit)
  <2>1. s = SwapStep(p, goal, l, walk.remaining, FeePips)
    BY <1>7 DEF Step, StepTowards
  <2>2. goal \in Nat /\ goal > 0 /\ p \in Nat /\ p > 0 /\ q \in Nat /\ walk.remaining \in Nat
        /\ l > 0
    <3>1. Bound(target) \in Prices /\ walk.limit \in Prices /\ walk.remaining \in Nat
      BY <1>1, BoundAhead, WalkFacts
    <3>2. goal \in Prices
      BY <3>1 DEF MaxOf, MinOf
    <3> HIDE DEF goal
    <3> QED BY <1>2, <1>3, <1>7, <3>1, <3>2, PricesTyped
  <2> HIDE DEF goal
  <2>3. /\ s.in = IF p >= goal THEN Amount0Delta(q, p, l, TRUE) ELSE Amount1Delta(p, q, l, TRUE)
        /\ s.out = IF p >= goal THEN Amount1Delta(q, p, l, FALSE)
                   ELSE Amount0Delta(p, q, l, FALSE)
    <3>1. q = s.price
      OBVIOUS
    <3> HIDE DEF p, q, l
    <3> QED BY <2>1, <3>1, SwapStepAmounts, Zenon
  <2>4. (goal <= p => q <= p) /\ (p <= goal => p <= q)
    BY <1>2, <2>1, <2>2, SwapStepFacts
  <2> DEFINE a == Tokens(1, p, q)
             b == Tokens(0, p, q)
             c == Tokens(1, q, p)
             d == Tokens(0, q, p)
             in == Scale * s.in
             out == Scale * s.out
  <2>5. /\ a \in Int /\ b \in Int /\ c \in Int /\ d \in Int
        /\ a + c = 0 /\ b + d = 0 /\ (p = q => a = 0 /\ d = 0)
    BY <1>4, <1>5
  <2>6. in \in Nat /\ out \in Nat
    BY <1>3, <1>4, ProductFacts
  <2>7. \/ q <= p /\ l * d <= in /\ out <= l * c
        \/ p <= q /\ l * a <= in /\ out <= l * b
    <3>1. CASE p >= goal
      <4>1. /\ Scale * Amount1Delta(q, p, l, FALSE) <= l * Tokens(1, q, p)
            /\ l * Tokens(0, q, p) <= Scale * Amount0Delta(q, p, l, TRUE)
            /\ q <= p
        BY <1>2, <1>3, <2>2, <2>4, <3>1, Amount0Scaled, Amount1Scaled
      <4> QED BY <2>3, <3>1, <4>1
    <3>2. CASE ~ (p >= goal)
      <4>1. p <= q
        <5>1. p <= goal
          BY <2>2, <3>2
        <5> QED BY <2>4, <5>1
      <4>2. /\ Scale * Amount0Delta(p, q, l, FALSE) <= l * Tokens(0, p, q)
            /\ l * Tokens(1, p, q) <= Scale * Amount1Delta(p, q, l, TRUE)
        <5> HIDE DEF p, q, l
        <5> QED BY <1>2, <1>3, <4>1, Amount0Scaled, Amount1Scaled
      <4>3. s.in = Amount1Delta(p, q, l, TRUE) /\ s.out = Amount0Delta(p, q, l, FALSE)
        BY <2>3, <3>2
      <4> QED BY <4>1, <4>2, <4>3
    <3> QED BY <3>1, <3>2
  <2>8. /\ InToken = IF walk.down THEN 0 ELSE 1
        /\ Move(0, p, q) = d /\ Move(1, p, q) = a
    BY DEF InToken, Move
  <2>9. IF walk.down THEN l * d <= in /\ l * a <= 0 - out
        ELSE l * a <= in /\ l * d <= 0 - out
    <3> HIDE DEF p, q, l, a, b, c, d, in, out
    <3>1. /\ l * a \in Int /\ l * b \in Int /\ l * c \in Int /\ l * d \in Int
          /\ l * a + l * c = 0 /\ l * b + l * d = 0
          /\ p = q => l * a = 0 /\ l * d = 0
      <4>1. l * (a + c) = l * a + l * c /\ l * (b + d) = l * b + l * d
        BY <1>2, <2>5, Z3
      <4>2. l * 0 = 0
        BY <1>2
      <4> QED BY <1>2, <2>5, <4>1, <4>2
    <3>2. walk.down => q <= p
      BY <1>3 DEF p, q
    <3>3. ~ walk.down => p <= q
      BY <1>3 DEF p, q
    <3> DEFINE la == l * a
               lb == l * b
               lc == l * c
               ld == l * d
    <3>4. /\ la \in Int /\ lb \in Int /\ lc \in Int /\ ld \in Int
          /\ la + lc = 0 /\ lb + ld = 0 /\ (p = q => la = 0 /\ ld = 0)
          /\ \/ q <= p /\ ld <= in /\ out <= lc
             \/ p <= q /\ la <= in /\ out <= lb
      BY <2>7, <3>1
    <3> HIDE DEF la, lb, lc, ld
    <3>5. IF walk.down THEN ld <= in /\ la <= 0 - out ELSE la <= in /\ ld <= 0 - out
      BY <1>2, <2>2, <2>6, <3>2, <3>3, <3>4
    <3> QED BY <3>5 DEF la, ld
  <2>10. 0 - out = -(Scale * s.out)
    BY <2>6
  <2>11. CASE walk.down
    <3>1. InToken = 0 /\ 1 - InToken = 1
      BY <2>8, <2>11
    <3> QED BY <2>8, <2>9, <2>10, <2>11, <3>1
  <2>12. CASE ~ walk.down
    <3>1. InToken = 1 /\ 1 - InToken = 0
      BY <2>8, <2>12
    <3> QED BY <2>8, <2>9, <2>10, <2>12, <3>1
  <2> QED BY <1>2, <2>11, <2>12
<1> QED BY <1>6, <1>7

-----------------------------------------------------------------------------
(* What everybody is owed.                                                 *)

\* What an account p of range r would be paid at a price, before rounding: the
\* fees found owing, the tokens of its liquidity and the fees since.
Debt(t, price, inside, r, p) ==
  IF ~ p.open THEN 0
  ELSE Scale * p.owed[t]
       + p.liquidity * (Depth(t, price, r) + AllPrices * Wrapped(inside[t] - p.last[t]))

Account == [open : {TRUE}, liquidity : Nat, last : Growth, owed : Amounts] \cup {NoPosition}

PoolInside(r) == InsideGrowth(r, ticks[r.lower], ticks[r.upper], pool.tick, pool.growth)
WalkInside(r) ==
  InsideGrowth(r, walk.ticks[r.lower], walk.ticks[r.upper], walk.tick, walk.growth)
PoolDebt(t, r) == Debt(t, pool.price, PoolInside(r), r, position[r])
WalkDebt(t, r) == Debt(t, walk.price, WalkInside(r), r, position[r])
PoolDebts(t) == SumFunctionOnSet([r \in Positions |-> PoolDebt(t, r)], Positions)
WalkDebts(t) == SumFunctionOnSet([r \in Positions |-> WalkDebt(t, r)], Positions)
WalkBalance(t) == vault[t] + IF t = InToken THEN walk.in + walk.fee ELSE -walk.out

\* The vaults cover all debts, and a swap on its way leaves them so.
PoolCovers == ~ stalled => \A t \in Token : PoolDebts(t) <= Scale * vault[t]
WalkCovers ==
  walk.active /\ ~ stalled /\ ~ walk.stalled =>
    \A t \in Token : WalkDebts(t) <= Scale * WalkBalance(t)
Covers == PoolCovers /\ WalkCovers

LEMMA WrappedNat ==
  ASSUME NEW x \in Int
  PROVE  Wrapped(x) \in Nat
<1>1. GrowthMod \in Nat /\ GrowthMod > 0
  BY Parameters
<1>2. Wrapped(x) \in 0 .. GrowthMod - 1
  BY WrappedTyped
<1> QED BY <1>1, <1>2

LEMMA DebtTyped ==
  ASSUME NEW t \in Token, NEW price \in Prices, NEW inside \in Growth, NEW r,
         NEW p \in Account, p.open => IsRange(r)
  PROVE  Debt(t, price, inside, r, p) \in Nat
<1>1. CASE ~ p.open
  BY <1>1 DEF Debt
<1>2. CASE p.open
  <2>1. p \in [open : {TRUE}, liquidity : Nat, last : Growth, owed : Amounts]
    <3>1. p # NoPosition
      BY <1>2 DEF NoPosition
    <3> QED BY <3>1 DEF Account
  <2>2. p.liquidity \in Nat /\ p.owed[t] \in Nat /\ p.last \in Growth
    BY <2>1 DEF Amounts
  <2>3. inside[t] \in Nat /\ p.last[t] \in Nat
    BY <2>2, GrowthFacts
  <2>4. inside[t] - p.last[t] \in Int
    BY <2>3
  <2> DEFINE d == Depth(t, price, r)
             w == Wrapped(inside[t] - p.last[t])
             o == p.owed[t]
             l == p.liquidity
  <2>5. d \in Nat /\ w \in Nat /\ Scale \in Nat /\ AllPrices \in Nat /\ o \in Nat /\ l \in Nat
    BY <1>2, <2>2, <2>4, DepthTyped, WrappedNat, ScaleFacts
  <2>6. Debt(t, price, inside, r, p) = Scale * o + l * (d + AllPrices * w)
    BY <1>2 DEF Debt
  <2> HIDE DEF d, w, o, l
  <2>7. Scale * o \in Nat /\ AllPrices * w \in Nat
    BY <2>5, ProductFacts
  <2>8. d + AllPrices * w \in Nat
    BY <2>5, <2>7
  <2>9. l * (d + AllPrices * w) \in Nat
    BY <2>5, <2>8, ProductFacts
  <2> QED BY <2>6, <2>7, <2>9
<1> QED BY <1>1, <1>2

\* Without liquidity only what was found owing counts.
LEMMA IdleDebt ==
  ASSUME NEW t \in Token, NEW price \in Prices, NEW inside \in Growth, NEW r,
         NEW p \in Account, p.open, p.liquidity = 0, IsRange(r)
  PROVE  Debt(t, price, inside, r, p) = Scale * p.owed[t]
<1>1. p \in [open : {TRUE}, liquidity : Nat, last : Growth, owed : Amounts]
  <2>1. p # NoPosition
    BY DEF NoPosition
  <2> QED BY <2>1 DEF Account
<1>2. p.owed[t] \in Nat /\ p.last \in Growth
  BY <1>1 DEF Amounts
<1> DEFINE d == Depth(t, price, r) + AllPrices * Wrapped(inside[t] - p.last[t])
<1>3. d \in Nat /\ Scale * p.owed[t] \in Nat
  <2>1. inside[t] \in Nat /\ p.last[t] \in Nat
    BY <1>2, GrowthFacts
  <2>2. inside[t] - p.last[t] \in Int
    BY <2>1
  <2>3. Wrapped(inside[t] - p.last[t]) \in Nat
    BY <2>2, WrappedNat
  <2>4. AllPrices * Wrapped(inside[t] - p.last[t]) \in Nat /\ Scale * p.owed[t] \in Nat
    BY <1>2, <2>3, ScaleFacts, ProductFacts
  <2>5. Depth(t, price, r) \in Nat
    BY DepthTyped
  <2> QED BY <2>4, <2>5
<1>4. Debt(t, price, inside, r, p) = Scale * p.owed[t] + p.liquidity * d
  BY DEF Debt
<1> HIDE DEF d
<1>5. p.liquidity * d = 0
  BY <1>3
<1> QED BY <1>3, <1>4, <1>5

LEMMA InsideInPool ==
  TypeOK /\ Ranges =>
    \A r \in Positions : position[r].open => PoolInside(r) \in Growth
<1> SUFFICES ASSUME TypeOK, Ranges, NEW r \in Positions, position[r].open
             PROVE  PoolInside(r) \in Growth
  OBVIOUS
<1>1. r.lower \in Slots /\ r.upper \in Slots
  BY BoundFacts DEF Ranges
<1>2. pool.growth \in Growth /\ ticks \in [Slots -> TickState]
  BY PoolFacts DEF TypeOK
<1>3. ticks[r.lower].outside \in Growth /\ ticks[r.upper].outside \in Growth
  BY <1>1, <1>2 DEF TickState
<1> QED BY <1>2, <1>3, InsideTyped DEF PoolInside

LEMMA InsideInWalk ==
  TypeOK /\ Ranges /\ walk.active =>
    \A r \in Positions : position[r].open => WalkInside(r) \in Growth
<1> SUFFICES ASSUME TypeOK, Ranges, walk.active, NEW r \in Positions, position[r].open
             PROVE  WalkInside(r) \in Growth
  OBVIOUS
<1>1. r.lower \in Slots /\ r.upper \in Slots
  BY BoundFacts DEF Ranges
<1>2. walk.growth \in Growth /\ walk.ticks \in [Slots -> TickState]
  BY WalkFacts
<1>3. walk.ticks[r.lower].outside \in Growth /\ walk.ticks[r.upper].outside \in Growth
  BY <1>1, <1>2 DEF TickState
<1> QED BY <1>2, <1>3, InsideTyped DEF WalkInside

LEMMA PoolDebtTyped ==
  TypeOK /\ Ranges =>
    \A t \in Token, r \in Positions : PoolDebt(t, r) \in Nat /\ position[r] \in Account
<1> SUFFICES ASSUME TypeOK, Ranges, NEW t \in Token, NEW r \in Positions
             PROVE  PoolDebt(t, r) \in Nat /\ position[r] \in Account
  OBVIOUS
<1>1. position[r] \in Account
  BY DEF TypeOK, Account
<1>2. CASE ~ position[r].open
  BY <1>1, <1>2 DEF PoolDebt, Debt
<1>3. CASE position[r].open
  <2>1. IsRange(r) /\ pool.price \in Prices /\ PoolInside(r) \in Growth
    BY <1>3, InsideInPool, PoolFacts DEF Ranges, IsRange
  <2> QED BY <1>1, <2>1, DebtTyped DEF PoolDebt
<1> QED BY <1>2, <1>3, <1>1

LEMMA WalkDebtTyped ==
  TypeOK /\ Ranges /\ walk.active =>
    \A t \in Token, r \in Positions : WalkDebt(t, r) \in Nat /\ position[r] \in Account
<1> SUFFICES ASSUME TypeOK, Ranges, walk.active, NEW t \in Token, NEW r \in Positions
             PROVE  WalkDebt(t, r) \in Nat /\ position[r] \in Account
  OBVIOUS
<1>1. position[r] \in Account
  BY DEF TypeOK, Account
<1>2. CASE ~ position[r].open
  BY <1>1, <1>2 DEF WalkDebt, Debt
<1>3. CASE position[r].open
  <2>1. IsRange(r) /\ walk.price \in Prices /\ WalkInside(r) \in Growth
    BY <1>3, InsideInWalk, WalkFacts DEF Ranges, IsRange
  <2> QED BY <1>1, <2>1, DebtTyped DEF WalkDebt
<1> QED BY <1>2, <1>3, <1>1

\* The same of the state after a step.
LEMMA PoolDebtTypedNext ==
  (TypeOK /\ Ranges)' =>
    (\A t \in Token, r \in Positions : PoolDebt(t, r) \in Nat /\ position[r] \in Account)'
BY PoolDebtTyped, PTL

LEMMA WalkDebtTypedNext ==
  (TypeOK /\ Ranges /\ walk.active)' =>
    (\A t \in Token, r \in Positions : WalkDebt(t, r) \in Nat /\ position[r] \in Account)'
BY WalkDebtTyped, PTL

LEMMA InsideInPoolNext ==
  (TypeOK /\ Ranges)' =>
    (\A r \in Positions : position[r].open => PoolInside(r) \in Growth)'
BY InsideInPool, PTL

LEMMA InsideInWalkNext ==
  (TypeOK /\ Ranges /\ walk.active)' =>
    (\A r \in Positions : position[r].open => WalkInside(r) \in Growth)'
BY InsideInWalk, PTL

LEMMA SumsOfDebts ==
  ASSUME NEW t \in Token
  PROVE  /\ (\A r \in Positions : PoolDebt(t, r) \in Nat) => PoolDebts(t) \in Nat
         /\ (\A r \in Positions : WalkDebt(t, r) \in Nat) => WalkDebts(t) \in Nat
<1>1. IsFiniteSet(Positions)
  BY Parameters
<1>2. ASSUME \A r \in Positions : PoolDebt(t, r) \in Nat
      PROVE  PoolDebts(t) \in Nat
  <2> DEFINE f == [r \in Positions |-> PoolDebt(t, r)]
  <2>1. \A r \in Positions : f[r] \in Nat
    BY <1>2
  <2> HIDE DEF f
  <2>2. SumFunctionOnSet(f, Positions) \in Nat
    BY <1>1, <2>1, SumIsNat
  <2> QED BY <2>2 DEF PoolDebts, f
<1>3. ASSUME \A r \in Positions : WalkDebt(t, r) \in Nat
      PROVE  WalkDebts(t) \in Nat
  <2> DEFINE f == [r \in Positions |-> WalkDebt(t, r)]
  <2>1. \A r \in Positions : f[r] \in Nat
    BY <1>3
  <2> HIDE DEF f
  <2>2. SumFunctionOnSet(f, Positions) \in Nat
    BY <1>1, <2>1, SumIsNat
  <2> QED BY <2>2 DEF WalkDebts, f
<1> QED BY <1>2, <1>3

-----------------------------------------------------------------------------
(* What a round adds to the debts.                                         *)

LEMMA WrappedBelow ==
  ASSUME NEW x \in Nat
  PROVE  Wrapped(x) <= x
<1>1. GrowthMod \in Nat /\ GrowthMod > 0
  BY Parameters
<1>2. /\ Wrapped(x) \in Int /\ x \div GrowthMod \in Nat
      /\ x = GrowthMod * (x \div GrowthMod) + Wrapped(x)
  BY <1>1, Remainder, QuotientFacts DEF Wrapped
<1>3. GrowthMod * (x \div GrowthMod) \in Nat
  BY <1>1, <1>2, ProductFacts
<1> DEFINE m == GrowthMod * (x \div GrowthMod)
<1> HIDE DEF m
<1>4. m \in Nat /\ x = m + Wrapped(x)
  BY <1>2, <1>3 DEF m
<1> QED BY <1>2, <1>4

\* Growth wraps: the way from c to b is not longer than the one by a.
LEMMA WrappedByWay ==
  ASSUME NEW a \in Nat, NEW b \in Nat, NEW c \in Nat
  PROVE  Wrapped(b - c) <= Wrapped(a - c) + Wrapped(b - a)
<1> DEFINE x == Wrapped(a - c)
           y == Wrapped(b - a)
<1>1. a - c \in Int /\ b - a \in Int /\ b - c \in Int /\ (a - c) + (b - a) = b - c
  OBVIOUS
<1>2. x \in Nat /\ y \in Nat
  BY <1>1, WrappedNat
<1>3. SameGrowth(x, a - c) /\ SameGrowth(y, b - a)
  BY <1>1, WrappedIsSame
<1> HIDE DEF x, y
<1>4. x \in Int /\ y \in Int /\ x + y \in Nat
  BY <1>2
<1>5. SameGrowth(x + y, (a - c) + (b - a))
  BY <1>1, <1>3, <1>4, SameAddsUp
<1>6. Wrapped(x + y) = Wrapped(b - c)
  <2>1. x + y \in Int
    BY <1>4
  <2>2. SameGrowth(x + y, b - c)
    BY <1>1, <1>5
  <2> QED BY <1>1, <2>1, <2>2, SameWraps
<1>7. Wrapped(x + y) <= x + y
  BY <1>4, WrappedBelow
<1> QED BY <1>6, <1>7 DEF x, y

\* All liquidity together is credited no more than the fee of the round.
LEMMA GrowthGained ==
  ASSUME TypeOK, walk.active, NEW fee \in Nat, fee > 0 => walk.liquidity > 0, NEW t \in Token
  PROVE  /\ Wrapped(GrowthAfter(fee)[t] - walk.growth[t]) \in Nat
         /\ walk.liquidity * (AllPrices * Wrapped(GrowthAfter(fee)[t] - walk.growth[t]))
              <= IF t = InToken THEN Scale * fee ELSE 0
<1> DEFINE l == walk.liquidity
           g == walk.growth[t]
           d == GrowthDelta(fee, l)
           gain == Wrapped(GrowthAfter(fee)[t] - g)
<1>1. l \in Nat /\ walk.growth \in Growth /\ InToken \in Token
  BY WalkFacts DEF InToken, Token
<1>2. g \in Nat
  BY <1>1, GrowthFacts
<1>3. AllPrices \in Nat /\ Scale \in Nat /\ Q64 \in Nat /\ Scale * fee \in Nat
  BY ScaleFacts, Parameters, ProductFacts
<1>4. CASE fee = 0 \/ t # InToken
  <2>1. GrowthAfter(fee)[t] = g
    BY <1>1, <1>4 DEF GrowthAfter, Growth
  <2>2. gain = 0
    BY <1>2, <2>1, NoGrowth
  <2> HIDE DEF gain, l
  <2> QED BY <1>1, <1>3, <2>2 DEF gain, l
<1>5. CASE fee # 0 /\ t = InToken
  <2>1. fee * Q64 \in Nat /\ l > 0 /\ l \in Nat
    BY <1>1, <1>3, <1>5, ProductFacts
  <2> HIDE DEF l
  <2>2. d \in Nat /\ l * d <= fee * Q64
    BY <2>1, QuotientFacts DEF GrowthDelta
  <2> HIDE DEF d, g
  <2>3. GrowthAfter(fee)[t] = Wrapped(g + d)
    BY <1>1, <1>5 DEF GrowthAfter, Growth, g, d, l
  <2>4. gain <= d /\ gain \in Nat
    <3>1. g + d \in Int /\ g \in Int /\ g - g = 0 /\ (g + d) - g = d
      BY <1>2, <2>2
    <3>2. Wrapped(g + d) \in Int /\ SameGrowth(Wrapped(g + d), g + d) /\ SameGrowth(g, g)
      BY <3>1, WrappedIsSame, SameIsReflexive
    <3>3. SameGrowth(Wrapped(g + d) - g, (g + d) - g)
      BY <3>1, <3>2, SameAddsUp
    <3>4. Wrapped(g + d) - g \in Int /\ d \in Int
      BY <2>2, <3>1, <3>2
    <3>5. Wrapped(Wrapped(g + d) - g) = Wrapped(d)
      BY <3>1, <3>3, <3>4, SameWraps
    <3>6. Wrapped(d) <= d /\ Wrapped(d) \in Nat
      BY <2>2, <3>4, WrappedBelow, WrappedNat
    <3> QED BY <2>3, <3>5, <3>6
  <2> HIDE DEF gain
  <2>5. PICK A \in Nat : A = AllPrices
    BY <1>3
  <2>6. l * (A * gain) <= l * (A * d)
    <3>1. A * gain \in Nat /\ A * d \in Nat /\ A * gain <= A * d
      BY <2>2, <2>4, ProductFacts, Ordered
    <3> QED BY <2>1, <3>1, Ordered
  <2>7. l * (A * d) = A * (l * d)
    BY <2>1, <2>2, Z3
  <2>8. A * (l * d) <= A * (fee * Q64)
    <3>1. l * d \in Nat
      BY <2>1, <2>2, ProductFacts
    <3> QED BY <2>1, <2>2, <3>1, Ordered
  <2>9. A * (fee * Q64) = (A * Q64) * fee
    BY <1>3, Z3
  <2>10. l * (A * gain) \in Nat /\ A * (l * d) \in Nat /\ A * (fee * Q64) \in Nat
    <3>1. A * gain \in Nat /\ l * d \in Nat
      BY <2>1, <2>2, <2>4, ProductFacts
    <3> QED BY <2>1, <3>1, ProductFacts
  <2>11. l * (A * gain) <= (A * Q64) * fee
    BY <2>6, <2>7, <2>8, <2>9, <2>10
  <2> QED BY <1>5, <2>4, <2>5, <2>11 DEF Scale, gain, l, g
<1> QED BY <1>4, <1>5

\* A position that holds the tick gains what its liquidity gains and earns;
\* any other gains nothing.
LEMMA RoundDebt ==
  ASSUME IInv, Advance, ~ walk'.stalled, NEW target \in NextTargets,
         walk'.price = Step(target).price, NEW r \in Positions, NEW t \in Token,
         NEW c, c = Move(t, walk.price, walk'.price)
                      + AllPrices * Wrapped(walk'.growth[t] - walk.growth[t])
  PROVE  WalkDebt(t, r)' <= WalkDebt(t, r)
           + c * (IF r \in Live /\ Holds(r, walk.tick) THEN position[r].liquidity ELSE 0)
<1>1. TypeOK /\ Ranges /\ Books /\ walk.active /\ position' = position
  BY RoundEffect DEF IInv
<1>2. IInv' /\ walk'.active /\ ~ walk.stalled
  BY AdvanceInv, RoundEffect
<1>3. WalkDebt(t, r) \in Nat
  BY <1>1, WalkDebtTyped
<1>4. PICK q : q = walk'.price
  OBVIOUS
<1>5. walk.price \in Prices /\ q \in Prices /\ walk.tick \in Int
      /\ walk.growth \in Growth /\ walk'.growth \in Growth
  BY <1>1, <1>4, RoundEffect, WalkFacts DEF Walk
<1>6. c \in Int
  <2>1. Move(t, walk.price, q) \in Int
    BY <1>5, TokensFacts DEF Move, Token
  <2>2. walk'.growth[t] \in Nat /\ walk.growth[t] \in Nat
    BY <1>5, GrowthFacts
  <2>3. walk'.growth[t] - walk.growth[t] \in Int
    BY <2>2
  <2>4. Wrapped(walk'.growth[t] - walk.growth[t]) \in Nat
    BY <2>3, WrappedNat
  <2>5. AllPrices * Wrapped(walk'.growth[t] - walk.growth[t]) \in Nat
    BY <2>4, ScaleFacts, ProductFacts
  <2> QED BY <1>4, <2>1, <2>5
<1>7. CASE r \notin Live
  <2>1. WalkDebt(t, r)' = WalkDebt(t, r)
    <3>1. CASE ~ position[r].open
      BY <1>1, <3>1 DEF WalkDebt, Debt
    <3>2. CASE position[r].open
      <4>1. position[r].liquidity = 0
        <5>1. Share(r) \in Nat /\ ~ (Share(r) > 0)
          BY <1>1, <1>7, PositionFacts
        <5>2. Share(r) = 0
          BY <5>1
        <5> QED BY <3>2, <5>2 DEF Share
      <4>2. IsRange(r) /\ position[r] \in Account
        BY <1>1, <3>2, WalkDebtTyped DEF Ranges, IsRange
      <4>3. WalkInside(r) \in Growth /\ WalkInside(r)' \in Growth
        BY <1>1, <1>2, <3>2, InsideInWalk, InsideInWalkNext DEF IInv
      <4>4. WalkDebt(t, r) = Scale * position[r].owed[t]
        BY <1>5, <3>2, <4>1, <4>2, <4>3, IdleDebt DEF WalkDebt
      <4>5. Debt(t, q, WalkInside(r)', r, position[r]) = Scale * position[r].owed[t]
        BY <1>5, <3>2, <4>1, <4>2, <4>3, IdleDebt
      <4> QED BY <1>1, <1>4, <4>4, <4>5 DEF WalkDebt
    <3> QED BY <3>1, <3>2
  <2> QED BY <1>3, <1>6, <1>7, <2>1
<1>8. CASE r \in Live
  <2> DEFINE l == position[r].liquidity
             last == position[r].last[t]
             o == Scale * position[r].owed[t]
             now == WalkInside(r)[t]
             then == WalkInside(r)'[t]
             g == Wrapped(walk'.growth[t] - walk.growth[t])
             d == Depth(t, walk.price, r)
             e == Depth(t, q, r)
             m == Move(t, walk.price, q)
  <2>1. IsRange(r) /\ position[r].open
    BY <1>1, <1>8 DEF Ranges, IsRange, Live
  <2>2. l \in Nat /\ last \in Nat /\ o \in Nat /\ now \in Nat /\ then \in Nat
    <3>1. WalkInside(r) \in Growth /\ WalkInside(r)' \in Growth
      BY <1>1, <1>2, <2>1, InsideInWalk, InsideInWalkNext DEF IInv
    <3>2. /\ position[r].liquidity \in Nat /\ position[r].last \in Growth
          /\ position[r].owed[t] \in Nat
      BY <1>1, <2>1, PositionFacts DEF Amounts
    <3> QED BY <3>1, <3>2, GrowthFacts, ScaleFacts, ProductFacts
  <2>3. d \in Nat /\ e \in Nat /\ m \in Int
    BY <1>5, <2>1, DepthTyped, TokensFacts DEF Move, Token
  <2>4. e = d + IF Holds(r, walk.tick) THEN m ELSE 0
    <3>1. \A x \in {r.lower, r.upper} :
            IF x <= walk.tick THEN SqrtPrice[x] <= walk.price /\ SqrtPrice[x] <= q
            ELSE walk.price <= SqrtPrice[x] /\ q <= SqrtPrice[x]
      BY <1>1, <1>2, <1>4, <1>8, RoundBetween
    <3> QED BY <1>5, <2>1, <3>1, DepthMoves
  <2>5. Wrapped(then - now) = IF Holds(r, walk.tick) THEN g ELSE 0
    <3>1. InsideNow(r) = WalkInside(r) /\ InsideNow(r)' = WalkInside(r)'
      BY <1>1, <1>2 DEF InsideNow, WalkInside
    <3> QED BY <1>8, <3>1, RoundFees
  <2> DEFINE w == Wrapped(now - last)
             v == Wrapped(then - last)
  <2>6. /\ WalkDebt(t, r) = o + l * (d + AllPrices * w)
        /\ WalkDebt(t, r)' = o + l * (e + AllPrices * v)
    BY <1>1, <1>4, <2>1 DEF WalkDebt, Debt
  <2>7. w \in Nat /\ v \in Nat /\ g \in Nat /\ v <= w + IF Holds(r, walk.tick) THEN g ELSE 0
    <3>1. /\ now - last \in Int /\ then - last \in Int
          /\ walk'.growth[t] \in Nat /\ walk.growth[t] \in Nat
      BY <1>5, <2>2, GrowthFacts
    <3>2. walk'.growth[t] - walk.growth[t] \in Int
      BY <3>1
    <3>3. w \in Nat /\ v \in Nat /\ g \in Nat
      BY <3>1, <3>2, WrappedNat
    <3>4. v <= w + Wrapped(then - now)
      BY <2>2, WrappedByWay
    <3> HIDE DEF w, v, g
    <3> QED BY <2>5, <3>3, <3>4
  <2> DEFINE k == IF Holds(r, walk.tick) THEN 1 ELSE 0
  <2>8. PICK A \in Nat : A = AllPrices
    BY ScaleFacts
  <2>9. c = m + A * g
    BY <1>4, <2>8
  <2> HIDE DEF l, last, o, now, then, g, d, e, m, w, v
  <2>10. e + A * v <= (d + A * w) + (IF Holds(r, walk.tick) THEN c ELSE 0)
    <3> DEFINE Av == A * v
               Aw == A * w
               Ag == A * g
    <3>1. Av \in Nat /\ Aw \in Nat /\ Ag \in Nat
      BY <2>7, ProductFacts
    <3>2. Holds(r, walk.tick) => Av <= Aw + Ag
      <4>1. A * (w + g) = A * w + A * g
        BY <2>7, Z3
      <4>2. w + g \in Int /\ v \in Int /\ w \in Int
        BY <2>7
      <4>3. v <= w + g => A * v <= A * (w + g)
        BY <4>2, Ordered
      <4> QED BY <2>7, <4>1, <4>3
    <3>3. ~ Holds(r, walk.tick) => Av <= Aw
      <4>1. v \in Int /\ w \in Int /\ (~ Holds(r, walk.tick) => v <= w)
        BY <2>7
      <4> QED BY <4>1, Ordered
    <3> HIDE DEF Av, Aw, Ag
    <3>4. c = m + Ag
      BY <2>9 DEF Ag
    <3>5. e + Av <= (d + Aw) + (IF Holds(r, walk.tick) THEN c ELSE 0)
      BY <2>3, <2>4, <3>1, <3>2, <3>3, <3>4
    <3> QED BY <3>5 DEF Av, Aw
  <2> DEFINE x == d + A * w
             y == e + A * v
             z == IF Holds(r, walk.tick) THEN c ELSE 0
  <2>11. x \in Int /\ y \in Int /\ z \in Int
    <3>1. A * w \in Nat /\ A * v \in Nat
      BY <2>7, ProductFacts
    <3> QED BY <1>6, <2>3, <3>1
  <2>12. y <= x + z
    BY <2>10
  <2>13. l * z = c * (IF Holds(r, walk.tick) THEN l ELSE 0)
    <3>1. l * c = c * l /\ l * 0 = c * 0
      BY <1>6, <2>2, Z3
    <3> QED BY <3>1
  <2>14. WalkDebt(t, r) = o + l * x /\ WalkDebt(t, r)' = o + l * y
    BY <2>6, <2>8
  <2> HIDE DEF x, y, z
  <2>15. o + l * y <= (o + l * x) + l * z
    <3>1. x + z \in Int /\ l * (x + z) = l * x + l * z
      BY <2>2, <2>11, Z3
    <3>2. l * y <= l * (x + z)
      BY <2>2, <2>11, <2>12, <3>1, Ordered
    <3>3. l * x \in Int /\ l * y \in Int /\ l * z \in Int
      BY <2>2, <2>11, Z3
    <3> DEFINE lx == l * x
               ly == l * y
               lz == l * z
    <3>4. lx \in Int /\ ly \in Int /\ lz \in Int /\ ly <= lx + lz
      BY <3>1, <3>2, <3>3
    <3> HIDE DEF lx, ly, lz
    <3>5. o + ly <= (o + lx) + lz
      BY <2>2, <3>4
    <3> QED BY <3>5 DEF lx, ly, lz
  <2>16. (IF r \in Live /\ Holds(r, walk.tick) THEN position[r].liquidity ELSE 0) =
           (IF Holds(r, walk.tick) THEN l ELSE 0)
    BY <1>8 DEF l
  <2> QED BY <2>13, <2>14, <2>15, <2>16
<1> QED BY <1>7, <1>8

-----------------------------------------------------------------------------
(* Every step keeps the debts covered.                                     *)

LEMMA PoolQuiet ==
  ASSUME PoolCovers, UNCHANGED <<pool, ticks, position, vault, stalled>>
  PROVE  PoolCovers'
<1>1. \A t \in Token, r \in Positions : PoolDebt(t, r)' = PoolDebt(t, r)
  BY DEF PoolDebt, PoolInside
<1>2. \A t \in Token : PoolDebts(t)' = PoolDebts(t)
  BY <1>1 DEF PoolDebts
<1> QED BY <1>2 DEF PoolCovers

LEMMA InitCovers ==
  ASSUME Init
  PROVE  Covers
<1>1. ~ walk.active /\ \A r \in Positions : ~ position[r].open
  BY DEF Init, Idle, NoPosition
<1>2. \A t \in Token : PoolDebts(t) = 0
  <2> SUFFICES ASSUME NEW t \in Token PROVE PoolDebts(t) = 0
    OBVIOUS
  <2> DEFINE f == [r \in Positions |-> PoolDebt(t, r)]
  <2>1. \A r \in Positions : f[r] = 0
    BY <1>1 DEF PoolDebt, Debt
  <2>2. IsFiniteSet(Positions)
    BY Parameters
  <2> HIDE DEF f
  <2>3. SumFunctionOnSet(f, Positions) = 0
    BY <2>1, <2>2, SumOfZeros
  <2> QED BY <2>3 DEF PoolDebts, f
<1>3. \A t \in Token : Scale * vault[t] = 0
  BY ScaleFacts DEF Init
<1> QED BY <1>1, <1>2, <1>3 DEF Covers, PoolCovers, WalkCovers

LEMMA StartCovers ==
  ASSUME Covers, NEW down, NEW amount, NEW limit, NEW n,
         StartSwap(down, amount, limit, n), TypeOK
  PROVE  Covers'
<1>1. /\ UNCHANGED <<pool, ticks, position, vault, stalled>>
      /\ walk'.price = pool.price /\ walk'.tick = pool.tick
      /\ walk'.growth = pool.growth /\ walk'.ticks = ticks
      /\ walk'.in = 0 /\ walk'.out = 0 /\ walk'.fee = 0
  BY DEF StartSwap
<1>2. PoolCovers'
  BY <1>1, PoolQuiet DEF Covers
<1>3. \A t \in Token, r \in Positions : WalkDebt(t, r)' = PoolDebt(t, r)
  BY <1>1 DEF WalkDebt, PoolDebt, WalkInside, PoolInside
<1>4. \A t \in Token : WalkDebts(t)' = PoolDebts(t)
  BY <1>3 DEF WalkDebts, PoolDebts
<1>5. \A t \in Token : WalkBalance(t)' = vault[t]
  <2>1. \A t \in Token : vault[t] \in Nat
    BY DEF TypeOK, Amounts
  <2> QED BY <1>1, <2>1 DEF WalkBalance
<1> QED BY <1>1, <1>2, <1>4, <1>5 DEF Covers, PoolCovers, WalkCovers

LEMMA ProductOfSum ==
  ASSUME NEW k \in Nat, NEW x \in Int, NEW y \in Int
  PROVE  /\ k * x \in Int /\ k * y \in Int
         /\ (x + y) * k = k * x + k * y /\ k * (x + y) = k * x + k * y
         /\ k * (-x) = -(k * x)
  BY Z3

\* What a round adds to the debts it adds to the balances.
LEMMA AdvanceCovers ==
  ASSUME IInv, Covers, Advance
  PROVE  Covers'
<1>1. PICK target \in NextTargets :
        /\ walk.active /\ walk' \in Walk /\ walk'.active /\ walk'.down = walk.down
        /\ walk'.in = walk.in + Step(target).in /\ walk'.out = walk.out + Step(target).out
        /\ walk'.fee = walk.fee + Step(target).fee
        /\ walk'.price = Step(target).price
        /\ walk'.growth = GrowthAfter(Step(target).fee)
        /\ walk'.stalled = (walk.stalled \/ Stalls(target))
        /\ UNCHANGED <<pool, arrays, ticks, position, vault, stalled, changes, swaps>>
  BY RoundEffect
<1>2. TypeOK /\ Ranges /\ LiquidityInStep /\ IInv'
  BY AdvanceInv DEF IInv
<1>3. PoolCovers'
  BY <1>1, PoolQuiet DEF Covers
<1> SUFFICES ASSUME ~ stalled, ~ walk'.stalled, NEW t \in Token
             PROVE  WalkDebts(t)' <= Scale * WalkBalance(t)'
  BY <1>1, <1>3 DEF Covers, WalkCovers
<1>4. ~ walk.stalled
  BY <1>1
<1> DEFINE move == Move(t, walk.price, walk'.price)
           gain == Wrapped(walk'.growth[t] - walk.growth[t])
           L == walk.liquidity
           s == Step(target)
<1>5. /\ walk.price \in Prices /\ walk'.price \in Prices /\ L \in Nat
      /\ walk.growth \in Growth /\ walk'.growth \in Growth
      /\ walk.in \in Nat /\ walk.out \in Nat /\ walk.fee \in Nat
  BY <1>1, <1>2, WalkFacts DEF Walk
<1>6. s.in \in Nat /\ s.out \in Nat /\ s.fee \in Nat /\ (s.fee > 0 => L > 0)
  BY <1>1, RoundFacts
<1>7. move \in Int /\ gain \in Nat /\ AllPrices \in Nat /\ Scale \in Nat
  <2>1. move \in Int
    BY <1>5, TokensFacts DEF Move, Token
  <2>2. walk'.growth[t] \in Nat /\ walk.growth[t] \in Nat
    BY <1>5, GrowthFacts
  <2>3. walk'.growth[t] - walk.growth[t] \in Int
    BY <2>2
  <2> QED BY <2>1, <2>3, WrappedNat, ScaleFacts
<1> HIDE DEF move, gain
<1>8. PICK c \in Int : c = move + AllPrices * gain
  <2>1. AllPrices * gain \in Nat
    BY <1>7, ProductFacts
  <2> QED BY <1>7, <2>1
<1>9. WalkDebts(t)' <= WalkDebts(t) + c * L
  <2> DEFINE f == [r \in Positions |-> WalkDebt(t, r)]
             g == [r \in Positions |-> IF r \in Live /\ Holds(r, walk.tick)
                                       THEN position[r].liquidity ELSE 0]
             h == [r \in Positions |-> f[r] + c * g[r]]
             new == [r \in Positions |-> WalkDebt(t, r)']
  <2>1. \A r \in Positions : f[r] \in Int /\ g[r] \in Int
    <3>1. \A r \in Positions : WalkDebt(t, r) \in Nat
      BY <1>1, <1>2, WalkDebtTyped
    <3>2. \A r \in Live : position[r].liquidity \in Nat
      BY <1>2, PositionFacts DEF Live
    <3> QED BY <3>1, <3>2
  <2>2. \A r \in Positions : new[r] \in Int
    BY <1>1, <1>2, WalkDebtTypedNext DEF IInv
  <2>3. \A r \in Positions : new[r] <= h[r]
    <3> SUFFICES ASSUME NEW r \in Positions PROVE new[r] <= h[r]
      OBVIOUS
    <3>1. c = Move(t, walk.price, walk'.price)
                + AllPrices * Wrapped(walk'.growth[t] - walk.growth[t])
      BY <1>8 DEF move, gain
    <3> QED BY <1>1, <3>1, RoundDebt
  <2>4. L = SumFunctionOnSet(g, Positions)
    BY <1>1, <1>2, <1>4 DEF LiquidityInStep, LiquidityAt
  <2>5. IsFiniteSet(Positions)
    BY Parameters
  <2>6. \A r \in Positions : h[r] = f[r] + c * g[r] /\ h[r] \in Int
    <3>1. \A r \in Positions : c * g[r] \in Int
      <4> HIDE DEF f, g
      <4> QED BY <1>8, <2>1, Z3
    <3> QED BY <2>1, <3>1
  <2>7. /\ WalkDebts(t) = SumFunctionOnSet(f, Positions)
        /\ WalkDebts(t)' = SumFunctionOnSet(new, Positions)
    BY DEF WalkDebts
  <2> HIDE DEF f, g, h, new
  <2>8. SumFunctionOnSet(h, Positions) = SumFunctionOnSet(f, Positions) + c * SumFunctionOnSet(g, Positions)
    BY <2>1, <2>5, <2>6, SumLinear
  <2>9. SumFunctionOnSet(new, Positions) <= SumFunctionOnSet(h, Positions)
    BY <2>2, <2>3, <2>5, <2>6, SumMonotone
  <2> QED BY <2>4, <2>7, <2>8, <2>9
<1>10. /\ L * move <= IF t = InToken THEN Scale * s.in ELSE -(Scale * s.out)
       /\ L * (AllPrices * gain) <= IF t = InToken THEN Scale * s.fee ELSE 0
  <2>1. InToken \in Token /\ (t # InToken => t = 1 - InToken)
    BY DEF InToken, Token
  <2>2. L * move <= IF t = InToken THEN Scale * s.in ELSE -(Scale * s.out)
    BY <1>1, <2>1, StepScaled DEF move
  <2>3. L * (AllPrices * gain) <= IF t = InToken THEN Scale * s.fee ELSE 0
    BY <1>1, <1>2, <1>6, GrowthGained DEF gain
  <2> QED BY <2>2, <2>3
<1>11. WalkBalance(t)' = WalkBalance(t) + (IF t = InToken THEN s.in + s.fee ELSE -s.out)
       /\ WalkBalance(t) \in Int
  <2>1. InToken' = InToken
    BY <1>1 DEF InToken
  <2>2. vault[t] \in Nat /\ vault' = vault
    BY <1>1, <1>2 DEF TypeOK, Amounts
  <2>3. WalkBalance(t) = vault[t] + (IF t = InToken THEN walk.in + walk.fee ELSE -walk.out)
    BY DEF WalkBalance
  <2>4. WalkBalance(t)' = vault[t] + (IF t = InToken THEN (walk.in + s.in) + (walk.fee + s.fee)
                                      ELSE -(walk.out + s.out))
    BY <1>1, <2>1, <2>2 DEF WalkBalance
  <2> HIDE DEF s
  <2> QED BY <1>5, <1>6, <2>2, <2>3, <2>4
<1>12. WalkDebts(t) <= Scale * WalkBalance(t)
  BY <1>1, <1>4 DEF Covers, WalkCovers
<1>13. WalkDebts(t) \in Int /\ WalkDebts(t)' \in Int
  <2>1. WalkDebts(t) \in Nat
    BY <1>1, <1>2, WalkDebtTyped, SumsOfDebts
  <2>2. (\A r \in Positions : WalkDebt(t, r) \in Nat)'
    BY <1>1, <1>2, WalkDebtTypedNext DEF IInv
  <2> DEFINE new == [r \in Positions |-> WalkDebt(t, r)']
  <2>3. \A r \in Positions : new[r] \in Int
    BY <2>2
  <2>4. WalkDebts(t)' = SumFunctionOnSet(new, Positions)
    BY DEF WalkDebts
  <2>5. IsFiniteSet(Positions)
    BY Parameters
  <2> HIDE DEF new
  <2>6. SumFunctionOnSet(new, Positions) \in Int
    BY <2>3, <2>5, SumIsInt
  <2> QED BY <2>1, <2>4, <2>6
<1> DEFINE a == AllPrices * gain
           B == WalkBalance(t)
           C == WalkBalance(t)'
           i == s.in
           o == s.out
           e == s.fee
<1>14. a \in Int
  BY <1>7, ProductFacts
<1>15. /\ i \in Nat /\ o \in Nat /\ e \in Nat /\ B \in Int
       /\ C = B + IF t = InToken THEN i + e ELSE -o
       /\ WalkDebts(t) <= Scale * B
       /\ WalkDebts(t)' <= WalkDebts(t) + c * L
       /\ L * move <= IF t = InToken THEN Scale * i ELSE -(Scale * o)
       /\ L * a <= IF t = InToken THEN Scale * e ELSE 0
       /\ c = move + a
  BY <1>6, <1>8, <1>9, <1>10, <1>11, <1>12
<1> HIDE DEF a, B, C, i, o, e, s, L
<1>16. c * L = L * move + L * a /\ L * move \in Int /\ L * a \in Int
  <2>1. L \in Nat /\ move \in Int /\ a \in Int /\ c = move + a
    BY <1>5, <1>7, <1>14, <1>15 DEF L
  <2> QED BY <2>1, ProductOfSum
<1>17. /\ Scale * B \in Int /\ Scale * i \in Int /\ Scale * e \in Int /\ Scale * o \in Int
       /\ Scale * (B + (i + e)) = Scale * B + (Scale * i + Scale * e)
       /\ Scale * (B + (-o)) = Scale * B + (-(Scale * o))
  <2>1. Scale \in Nat /\ B \in Int /\ i \in Int /\ e \in Int /\ o \in Int
        /\ i + e \in Int /\ -o \in Int
    BY <1>7, <1>15
  <2> QED BY <2>1, ProductOfSum
<1> DEFINE lm == L * move
           la == L * a
           sb == Scale * B
           si == Scale * i
           se == Scale * e
           so == Scale * o
           sc == Scale * C
<1>18. sc = IF t = InToken THEN sb + (si + se) ELSE sb + (-so)
  BY <1>15, <1>17
<1>19. /\ lm \in Int /\ la \in Int /\ sb \in Int /\ si \in Int /\ se \in Int /\ so \in Int
       /\ lm <= (IF t = InToken THEN si ELSE -so) /\ la <= (IF t = InToken THEN se ELSE 0)
       /\ WalkDebts(t) <= sb /\ WalkDebts(t)' <= WalkDebts(t) + (lm + la)
  BY <1>15, <1>16, <1>17, Zenon
<1> HIDE DEF lm, la, sb, si, se, so, sc
<1>20. WalkDebts(t)' <= sc
  BY <1>13, <1>18, <1>19
<1> QED BY <1>20 DEF sc, C

\* What is owed to a position of no liquidity does not depend on the growth.
LEMMA IdlePosition ==
  ASSUME TypeOK, NEW r \in Positions, position[r].open, r \notin Live
  PROVE  position[r].liquidity = 0
<1>1. Share(r) \in Nat /\ ~ (Share(r) > 0)
  BY PositionFacts
<1>2. Share(r) = 0
  BY <1>1
<1> QED BY <1>2 DEF Share

LEMMA SettleCovers ==
  ASSUME IInv, Covers, SettleSwap
  PROVE  Covers'
<1>1. TypeOK /\ Ranges /\ IInv'
  BY SettleInv DEF IInv
<1>2. /\ walk.active /\ pool'.price = walk.price /\ ~ walk'.active
      /\ vault' = [t \in Token |-> IF t = InToken THEN vault[t] + walk.in + walk.fee
                                   ELSE vault[t] - walk.out]
      /\ stalled' = (stalled \/ walk.stalled) /\ position' = position
  BY DEF SettleSwap, Idle
<1>3. ASSUME NEW t \in Token, NEW r \in Positions PROVE PoolDebt(t, r)' = WalkDebt(t, r)
  <2>1. CASE ~ position[r].open
    BY <1>2, <2>1 DEF PoolDebt, WalkDebt, Debt
  <2>2. CASE r \in Live
    <3>1. InsideNow(r) = WalkInside(r) /\ InsideNow(r)' = PoolInside(r)'
      BY <1>2 DEF InsideNow, WalkInside, PoolInside
    <3>2. PoolInside(r)' = WalkInside(r)
      BY <2>2, <3>1, SettledInside
    <3> QED BY <1>2, <3>2 DEF PoolDebt, WalkDebt
  <2>3. CASE position[r].open /\ r \notin Live
    <3>1. position[r].liquidity = 0 /\ IsRange(r) /\ position[r] \in Account
          /\ walk.price \in Prices
      BY <1>1, <1>2, <2>3, IdlePosition, WalkDebtTyped, WalkFacts DEF Ranges, IsRange
    <3>2. WalkInside(r) \in Growth /\ PoolInside(r)' \in Growth
      BY <1>1, <1>2, <2>3, InsideInWalk, InsideInPoolNext DEF IInv
    <3>3. WalkDebt(t, r) = Scale * position[r].owed[t]
      BY <2>3, <3>1, <3>2, IdleDebt DEF WalkDebt
    <3>4. Debt(t, walk.price, PoolInside(r)', r, position[r]) = Scale * position[r].owed[t]
      BY <2>3, <3>1, <3>2, IdleDebt
    <3> QED BY <1>2, <3>3, <3>4 DEF PoolDebt
  <2> QED BY <2>1, <2>2, <2>3
<1>4. \A t \in Token : PoolDebts(t)' = WalkDebts(t)
  BY <1>3 DEF PoolDebts, WalkDebts
<1>5. \A t \in Token : vault'[t] = WalkBalance(t)
  <2>1. /\ \A t \in Token : vault[t] \in Nat
        /\ walk.in \in Nat /\ walk.out \in Nat /\ walk.fee \in Nat
    BY <1>1, <1>2, WalkFacts DEF TypeOK, Amounts
  <2> QED BY <1>2, <2>1 DEF WalkBalance
<1>6. PoolCovers'
  BY <1>2, <1>4, <1>5 DEF Covers, PoolCovers, WalkCovers
<1> QED BY <1>2, <1>6 DEF Covers, WalkCovers

\* One debt changes, and with it the sum.
LEMMA OneDebtChanges ==
  ASSUME IInv, IInv', NEW r \in Positions, NEW t \in Token,
         \A q \in Positions \ {r} : PoolDebt(t, q)' = PoolDebt(t, q)
  PROVE  /\ PoolDebts(t) \in Nat /\ PoolDebt(t, r) \in Nat /\ PoolDebt(t, r)' \in Nat
         /\ PoolDebts(t)' = PoolDebts(t) + (PoolDebt(t, r)' - PoolDebt(t, r))
<1> DEFINE f == [q \in Positions |-> PoolDebt(t, q)]
           g == [q \in Positions |-> PoolDebt(t, q)']
<1>1. \A q \in Positions : PoolDebt(t, q) \in Nat /\ PoolDebt(t, q)' \in Nat
  BY PoolDebtTyped, PoolDebtTypedNext DEF IInv
<1>2. /\ \A q \in Positions : f[q] \in Int /\ g[q] \in Int
      /\ \A q \in Positions \ {r} : g[q] = f[q]
      /\ f[r] = PoolDebt(t, r) /\ g[r] = PoolDebt(t, r)'
  BY <1>1
<1>3. PoolDebts(t) = SumFunctionOnSet(f, Positions) /\ PoolDebts(t)' = SumFunctionOnSet(g, Positions)
  BY DEF PoolDebts
<1>4. IsFiniteSet(Positions) /\ PoolDebts(t) \in Nat
  BY <1>1, Parameters, SumsOfDebts
<1> HIDE DEF f, g
<1>5. SumFunctionOnSet(g, Positions) = SumFunctionOnSet(f, Positions) + (g[r] - f[r])
  BY <1>2, <1>4, SumChanged
<1> QED BY <1>1, <1>2, <1>3, <1>4, <1>5

\* Opening and closing owe nobody anything; what is collected leaves with the
\* debt.
LEMMA PositionCovers ==
  ASSUME IInv, Covers, NEW r \in Positions,
         OpenPosition(r) \/ ClosePosition(r) \/ Collect(r)
  PROVE  Covers'
<1>1. TypeOK /\ Ranges /\ IInv'
  BY PositionInv DEF IInv
<1>2. ~ walk.active /\ UNCHANGED <<pool, ticks, walk, stalled>>
  BY DEF OpenPosition, ClosePosition, Collect
<1>3. /\ position \in [Positions -> Account] /\ position' \in [Positions -> Account]
      /\ \A q \in Positions : position[q].open => IsRange(q)
      /\ \A q \in Positions : position'[q].open => IsRange(q)
      /\ pool.price \in Prices
  BY <1>1, PoolFacts DEF IInv, TypeOK, Account, Ranges, IsRange, IsTickBound
<1>4. \A q \in Positions \ {r} : position'[q] = position[q]
  BY <1>3 DEF OpenPosition, ClosePosition, Collect
<1>5. \A q : PoolInside(q)' = PoolInside(q)
  BY <1>2 DEF PoolInside
<1>6. \A q \in Positions, t \in Token :
        PoolDebt(t, q)' = Debt(t, pool.price, PoolInside(q), q, position'[q])
  BY <1>2, <1>5 DEF PoolDebt
<1>7. \A t \in Token, q \in Positions \ {r} : PoolDebt(t, q)' = PoolDebt(t, q)
  BY <1>4, <1>6 DEF PoolDebt
<1> SUFFICES ASSUME ~ stalled, NEW t \in Token
             PROVE  PoolDebts(t)' <= Scale * vault'[t]
  BY <1>2 DEF Covers, PoolCovers, WalkCovers
<1>8. /\ PoolDebts(t) \in Nat /\ PoolDebt(t, r) \in Nat /\ PoolDebt(t, r)' \in Nat
      /\ PoolDebts(t)' = PoolDebts(t) + (PoolDebt(t, r)' - PoolDebt(t, r))
  BY <1>1, <1>7, OneDebtChanges
<1>9. PoolDebts(t) <= Scale * vault[t] /\ vault[t] \in Nat /\ Scale \in Nat
  BY <1>1, ScaleFacts DEF Covers, PoolCovers, TypeOK, Amounts
<1>10. Scale * vault[t] \in Nat
  BY <1>9, ProductFacts
<1>11. CASE OpenPosition(r)
  <2>1. position'[r] = EmptyPosition /\ vault' = vault /\ ~ position[r].open
    BY <1>3, <1>11 DEF OpenPosition
  <2>2. PoolDebt(t, r) = 0
    BY <2>1 DEF PoolDebt, Debt
  <2>3. EmptyPosition.open /\ EmptyPosition.liquidity = 0 /\ EmptyPosition.owed[t] = 0
    BY DEF EmptyPosition
  <2>4. PoolInside(r) \in Growth
    BY <1>1, <1>5, <2>1, <2>3, InsideInPoolNext DEF IInv
  <2>5. PoolDebt(t, r)' = Scale * 0
    BY <1>3, <1>6, <2>1, <2>3, <2>4, IdleDebt
  <2>6. Scale * 0 = 0
    BY <1>9
  <2>7. PoolDebts(t)' = PoolDebts(t) /\ vault'[t] = vault[t]
    BY <1>8, <2>1, <2>2, <2>5, <2>6
  <2> QED BY <1>9, <2>7
<1>12. CASE ClosePosition(r)
  <2>1. /\ position'[r] = NoPosition /\ vault' = vault /\ position[r].open
        /\ position[r].liquidity = 0 /\ position[r].owed[t] = 0
    BY <1>3, <1>12 DEF ClosePosition
  <2>2. ~ position'[r].open
    BY <2>1 DEF NoPosition
  <2>3. PoolDebt(t, r)' = 0
    BY <1>6, <2>2 DEF Debt
  <2> QED BY <1>8, <1>9, <1>10, <2>1, <2>3
<1>13. CASE Collect(r)
  <2>1. /\ position[r].open /\ position[r].owed[t] <= vault[t]
        /\ vault'[t] = vault[t] - position[r].owed[t]
        /\ position'[r] = [position[r] EXCEPT !.owed = [u \in Token |-> 0]]
    BY <1>3, <1>13 DEF Collect
  <2>2. position[r] \in [open : {TRUE}, liquidity : Nat, last : Growth, owed : Amounts]
    BY <1>1, <2>1, PositionFacts
  <2>3. /\ position'[r].open /\ position'[r].liquidity = position[r].liquidity
        /\ position'[r].last = position[r].last /\ position'[r].owed[t] = 0
    BY <2>1, <2>2
  <2> DEFINE o == position[r].owed[t]
             x == position[r].liquidity * (Depth(t, pool.price, r)
                    + AllPrices * Wrapped(PoolInside(r)[t] - position[r].last[t]))
  <2>4. PoolDebt(t, r) = Scale * o + x
    BY <2>1 DEF PoolDebt, Debt
  <2>5. PoolDebt(t, r)' = Scale * 0 + x
    BY <1>6, <2>3 DEF Debt
  <2>6. o \in Nat /\ x \in Nat
    <3>1. /\ position[r].liquidity \in Nat /\ position[r].last \in Growth /\ o \in Nat
          /\ PoolInside(r) \in Growth /\ IsRange(r)
      BY <1>1, <1>3, <2>1, <2>2, InsideInPool DEF Amounts
    <3>2. PoolInside(r)[t] \in Nat /\ position[r].last[t] \in Nat
      BY <3>1, GrowthFacts
    <3>3. PoolInside(r)[t] - position[r].last[t] \in Int
      BY <3>2
    <3>4. AllPrices * Wrapped(PoolInside(r)[t] - position[r].last[t]) \in Nat
          /\ Depth(t, pool.price, r) \in Nat
      BY <1>3, <3>1, <3>3, WrappedNat, ScaleFacts, ProductFacts, DepthTyped
    <3>5. Depth(t, pool.price, r) + AllPrices * Wrapped(PoolInside(r)[t] - position[r].last[t]) \in Nat
      BY <3>4
    <3> HIDE DEF o
    <3> QED BY <3>1, <3>5, ProductFacts
  <2> HIDE DEF o, x
  <2>7. Scale * o \in Nat /\ Scale * 0 = 0 /\ Scale * (vault[t] - o) = Scale * vault[t] - Scale * o
    <3>1. vault[t] \in Int /\ -o \in Int /\ Scale \in Nat /\ vault[t] - o = vault[t] + (-o)
      BY <1>9, <2>6
    <3>2. Scale * (vault[t] + (-o)) = Scale * vault[t] + Scale * (-o)
          /\ Scale * (-o) = -(Scale * o)
      BY <2>6, <3>1, ProductOfSum
    <3>3. Scale * o \in Nat
      BY <1>9, <2>6, ProductFacts
    <3> QED BY <1>9, <1>10, <3>1, <3>2, <3>3
  <2>8. vault'[t] = vault[t] - o
    BY <2>1 DEF o
  <2> DEFINE so == Scale * o
             sv == Scale * vault[t]
  <2>9. so \in Nat /\ sv \in Nat /\ Scale * vault'[t] = sv - so
    BY <1>10, <2>7, <2>8
  <2>10. x \in Int /\ PoolDebt(t, r) = so + x /\ PoolDebt(t, r)' = 0 + x
    BY <2>4, <2>5, <2>6, <2>7
  <2> HIDE DEF so
  <2> QED BY <1>8, <1>9, <2>9, <2>10
<1> QED BY <1>11, <1>12, <1>13

-----------------------------------------------------------------------------
(* A change of one position.                                               *)

\* What an account may claim in fees is what its liquidity earned, or less.
LEMMA FeesScaled ==
  ASSUME NEW l \in Nat, NEW now \in Nat, NEW last \in Nat
  PROVE  /\ FeesOwed(l, now, last) \in Nat
         /\ l * (AllPrices * Wrapped(now - last)) \in Nat
         /\ Scale * FeesOwed(l, now, last) <= l * (AllPrices * Wrapped(now - last))
<1> DEFINE w == Wrapped(now - last)
           f == (l * w) \div Q64
<1>1. w \in Nat
  <2>1. now - last \in Int
    OBVIOUS
  <2> QED BY <2>1, WrappedNat
<1> HIDE DEF w
<1>2. PICK A \in Nat : A = AllPrices
  BY ScaleFacts
<1>3. Q64 \in Nat /\ Q64 > 0 /\ l * w \in Nat /\ A * w \in Nat
  BY <1>1, Parameters, ProductFacts
<1>4. f \in Nat /\ Q64 * f <= l * w
  BY <1>3, QuotientFacts
<1> HIDE DEF f
<1>5. Q64 * f \in Nat /\ l * (A * w) \in Nat
  BY <1>3, <1>4, ProductFacts
<1>6. A * (Q64 * f) <= A * (l * w)
  BY <1>3, <1>4, <1>5, Ordered
<1>7. A * (Q64 * f) = (A * Q64) * f /\ A * (l * w) = l * (A * w)
  BY <1>1, <1>3, <1>4, Z3
<1>8. (A * Q64) * f <= l * (A * w)
  BY <1>6, <1>7
<1>9. FeesOwed(l, now, last) = f
  BY DEF FeesOwed, w, f
<1> QED BY <1>2, <1>4, <1>5, <1>8, <1>9 DEF Scale, w

\* The growth an account is settled with is the growth inside its range, before
\* the change if it has liquidity and after it if it keeps some.
LEMMA SettledWith ==
  ASSUME IInv, EndsInitialized, EndsInitialized', NEW m \in Positions, NEW delta \in Int,
         NEW amounts, Modify(m, delta, amounts),
         NEW inside, inside = InsideGrowth(m, UpdatedTick(m.lower, delta, FALSE),
                                UpdatedTick(m.upper, delta, TRUE), pool.tick, pool.growth)
  PROVE  /\ m \in Live => inside = PoolInside(m)
         /\ m \in Live' => PoolInside(m)' = inside
<1>1. TypeOK /\ Ranges /\ Books
  BY DEF IInv
<1> DEFINE lower == UpdatedTick(m.lower, delta, FALSE)
           upper == UpdatedTick(m.upper, delta, TRUE)
<1>2. /\ m.lower \in Slots /\ m.upper \in Slots /\ m.lower # m.upper
      /\ ticks' = [ticks EXCEPT ![m.lower] = Cleared(m.lower, lower),
                                ![m.upper] = Cleared(m.upper, upper)]
  BY <1>1, ModifyEffect
<1>3. pool'.tick = pool.tick /\ pool'.growth = pool.growth
  BY <1>1, ModifyPool
<1>4. /\ Initialized(ticks[m.lower]) => lower.outside = ticks[m.lower].outside
      /\ Cleared(m.lower, lower).gross = lower.gross
      /\ Initialized(lower) => Cleared(m.lower, lower).outside = lower.outside
  BY <1>1, <1>2, UpdatedTickFacts
<1>5. /\ Initialized(ticks[m.upper]) => upper.outside = ticks[m.upper].outside
      /\ Cleared(m.upper, upper).gross = upper.gross
      /\ Initialized(upper) => Cleared(m.upper, upper).outside = upper.outside
  BY <1>1, <1>2, UpdatedTickFacts
<1> HIDE DEF lower, upper
<1>6. ticks'[m.lower] = Cleared(m.lower, lower) /\ ticks'[m.upper] = Cleared(m.upper, upper)
  BY <1>1, <1>2 DEF TypeOK
<1>7. inside = InsideGrowth(m, lower, upper, pool.tick, pool.growth)
  BY DEF lower, upper
<1>8. ASSUME m \in Live PROVE inside = PoolInside(m)
  <2>1. Initialized(ticks[m.lower]) /\ Initialized(ticks[m.upper])
    BY <1>8 DEF EndsInitialized
  <2>2. lower.outside = ticks[m.lower].outside /\ upper.outside = ticks[m.upper].outside
    BY <1>4, <1>5, <2>1
  <2>3. InsideGrowth(m, lower, upper, pool.tick, pool.growth) =
          InsideGrowth(m, ticks[m.lower], ticks[m.upper], pool.tick, pool.growth)
    BY <2>2, SameInside
  <2> QED BY <1>7, <2>3 DEF PoolInside
<1>9. ASSUME m \in Live' PROVE PoolInside(m)' = inside
  <2>1. Initialized(ticks'[m.lower]) /\ Initialized(ticks'[m.upper])
    BY <1>9 DEF EndsInitialized, Initialized
  <2>2. Initialized(lower) /\ Initialized(upper)
    BY <1>4, <1>5, <1>6, <2>1 DEF Initialized
  <2>3. ticks'[m.lower].outside = lower.outside /\ ticks'[m.upper].outside = upper.outside
    BY <1>4, <1>5, <1>6, <2>2
  <2>4. PoolInside(m)' = InsideGrowth(m, ticks'[m.lower], ticks'[m.upper], pool.tick, pool.growth)
    BY <1>3 DEF PoolInside
  <2>5. InsideGrowth(m, ticks'[m.lower], ticks'[m.upper], pool.tick, pool.growth) =
          InsideGrowth(m, lower, upper, pool.tick, pool.growth)
    BY <2>3, SameInside
  <2> QED BY <1>7, <2>4, <2>5
<1> QED BY <1>8, <1>9

\* The debt to the one position changes with its liquidity, at most by what the
\* liquidity is worth.
LEMMA OwnDebt ==
  ASSUME IInv, IInv', EndsInitialized, EndsInitialized', NEW m \in Positions, NEW delta \in Int,
         NEW amounts, Modify(m, delta, amounts), NEW t \in Token
  PROVE  PoolDebt(t, m)' <= PoolDebt(t, m) + delta * Depth(t, pool.price, m)
<1>1. TypeOK /\ Ranges
  BY DEF IInv
<1> DEFINE p == position[m]
           inside == InsideGrowth(m, UpdatedTick(m.lower, delta, FALSE),
                                  UpdatedTick(m.upper, delta, TRUE), pool.tick, pool.growth)
           owed == [u \in Token |-> p.owed[u] + OwedSince(p, inside)[u]]
           l == p.liquidity
           k == l + delta
           d == Depth(t, pool.price, m)
           o == p.owed[t]
           f == FeesOwed(l, inside[t], p.last[t])
           w == AllPrices * Wrapped(PoolInside(m)[t] - p.last[t])
           v == AllPrices * Wrapped(inside[t] - p.last[t])
           u == AllPrices * Wrapped(PoolInside(m)'[t] - inside[t])
<1>2. /\ p.open /\ k \in Nat /\ inside \in Growth /\ owed \in Amounts
      /\ position' = [position EXCEPT ![m] =
           [open |-> TRUE, liquidity |-> k, last |-> inside, owed |-> owed]]
      /\ pool' = [pool EXCEPT !.liquidity =
           IF Holds(m, pool.tick) THEN pool.liquidity + delta ELSE pool.liquidity]
  BY <1>1, ModifyEffect
<1>3. pool'.price = pool.price /\ pool.price \in Prices
  BY <1>1, <1>2, PoolFacts DEF TypeOK
<1>4. position'[m] = [open |-> TRUE, liquidity |-> k, last |-> inside, owed |-> owed]
  <2> HIDE DEF k, inside, owed
  <2> QED BY <1>1, <1>2 DEF TypeOK
<1>5. /\ m \in Live => inside = PoolInside(m)
      /\ m \in Live' => PoolInside(m)' = inside
  BY SettledWith
<1>6. /\ l \in Nat /\ o \in Nat /\ p.last \in Growth /\ IsRange(m)
      /\ PoolInside(m) \in Growth /\ PoolInside(m)' \in Growth
  <2>1. position'[m].open
    BY <1>4
  <2> QED BY <1>1, <1>2, <2>1, PositionFacts, InsideInPool, InsideInPoolNext
          DEF IInv, Amounts, Ranges, IsRange
<1>7. d \in Nat /\ Scale \in Nat /\ AllPrices \in Nat
  BY <1>3, <1>6, DepthTyped, ScaleFacts
<1>8. /\ inside[t] \in Nat /\ p.last[t] \in Nat
      /\ PoolInside(m)[t] \in Nat /\ PoolInside(m)'[t] \in Nat
  BY <1>2, <1>6, GrowthFacts
<1>9. PoolDebt(t, m) = Scale * o + l * (d + w)
  BY <1>2 DEF PoolDebt, Debt
<1>10. PoolDebt(t, m)' = Scale * (o + f) + k * (d + u)
  <2>1. owed[t] = o + f
    BY DEF OwedSince
  <2>2. /\ position'[m].open /\ position'[m].liquidity = k /\ position'[m].owed[t] = o + f
        /\ position'[m].last = inside
    <3> HIDE DEF k, inside, o, f, owed
    <3> QED BY <1>4, <2>1
  <2>3. PoolDebt(t, m)' = Debt(t, pool.price, PoolInside(m)', m, position'[m])
    BY <1>3 DEF PoolDebt
  <2> HIDE DEF k, o, f, inside, owed, p
  <2> QED BY <2>2, <2>3 DEF Debt
<1>11. f \in Nat /\ l * v \in Nat /\ Scale * f <= l * v
  <2> HIDE DEF inside, p
  <2>1. l \in Nat /\ inside[t] \in Nat /\ p.last[t] \in Nat
    BY <1>6, <1>8
  <2> HIDE DEF l
  <2> QED BY <2>1, FeesScaled
<1>12. l = 0 \/ v = w
  <2>1. CASE m \in Live
    BY <1>5, <2>1
  <2>2. CASE m \notin Live
    BY <1>1, <1>2, <2>2, IdlePosition
  <2> QED BY <2>1, <2>2
<1>13. k = 0 \/ u = 0
  <2>1. CASE k = 0
    BY <2>1
  <2>2. CASE k # 0
    <3>1. k > 0
      BY <1>2, <2>2
    <3>2. m \in Live'
      <4> HIDE DEF k, inside, owed
      <4> QED BY <1>4, <3>1 DEF Live
    <3>3. Wrapped(PoolInside(m)'[t] - inside[t]) = 0
      <4> HIDE DEF inside
      <4>1. inside[t] \in Int
        BY <1>8
      <4>2. Wrapped(inside[t] - inside[t]) = 0
        BY <4>1, NoGrowth
      <4> QED BY <1>5, <3>2, <4>2
    <3>4. AllPrices * 0 = 0
      BY <1>7
    <3>5. u = 0
      BY <3>3, <3>4, Zenon
    <3> QED BY <3>5
  <2> QED BY <2>1, <2>2
<1>14. w \in Nat /\ u \in Nat
  <2>1. PoolInside(m)[t] - p.last[t] \in Int /\ PoolInside(m)'[t] - inside[t] \in Int
    <3> HIDE DEF inside, p
    <3> QED BY <1>8
  <2>2. Wrapped(PoolInside(m)[t] - p.last[t]) \in Nat /\ Wrapped(PoolInside(m)'[t] - inside[t]) \in Nat
    BY <2>1, WrappedNat
  <2> QED BY <1>7, <2>2, ProductFacts
<1> HIDE DEF p, inside, owed, d, o, f, w, v, u, l
<1>15. k * (d + u) = l * d + delta * d /\ l * d \in Int /\ delta * d \in Int
  <2>1. k * (d + u) = k * d
    <3>1. CASE k = 0
      <4>1. 0 * (d + u) = 0 * d
        BY <1>7, <1>14
      <4> QED BY <3>1, <4>1
    <3>2. CASE u = 0
      BY <1>7, <3>2
    <3> QED BY <1>13, <3>1, <3>2
  <2>2. (l + delta) * d = d * l + d * delta /\ d * l \in Int /\ d * delta \in Int
    BY <1>6, <1>7, ProductOfSum
  <2>3. d * l = l * d /\ d * delta = delta * d
    BY <1>6, <1>7
  <2> QED BY <2>1, <2>2, <2>3
<1>16. l * (d + w) = l * d + l * w /\ Scale * (o + f) = Scale * o + Scale * f
       /\ l * w \in Int /\ Scale * o \in Int /\ Scale * f \in Int
  BY <1>6, <1>7, <1>11, <1>14, ProductOfSum
<1>17. l * v = l * w
  <2>1. 0 * v = 0 * w
    <3>1. v \in Int
      <4>1. inside[t] - p.last[t] \in Int
        BY <1>8
      <4>2. Wrapped(inside[t] - p.last[t]) \in Nat
        BY <4>1, WrappedNat
      <4>3. AllPrices * Wrapped(inside[t] - p.last[t]) \in Nat
        BY <1>7, <4>2, ProductFacts
      <4> QED BY <4>3 DEF v
    <3> QED BY <1>14, <3>1
  <2> QED BY <1>12, <2>1
<1> DEFINE ld == l * d
           dd == delta * d
           lw == l * w
           so == Scale * o
           sf == Scale * f
<1>18. /\ PoolDebt(t, m) = so + (ld + lw)
       /\ PoolDebt(t, m)' = (so + sf) + (ld + dd)
       /\ sf <= lw /\ ld \in Int /\ dd \in Int /\ lw \in Int /\ so \in Int /\ sf \in Int
  BY <1>9, <1>10, <1>11, <1>15, <1>16, <1>17
<1> HIDE DEF ld, dd, lw, so, sf
<1>19. PoolDebt(t, m)' <= PoolDebt(t, m) + dd
  BY <1>18
<1> QED BY <1>19 DEF dd, d

LEMMA ModifyDebts ==
  ASSUME IInv, IInv', EndsInitialized, EndsInitialized', NEW m \in Positions, NEW delta \in Int,
         NEW amounts, Modify(m, delta, amounts), NEW t \in Token
  PROVE  /\ PoolDebts(t)' <= PoolDebts(t) + delta * Depth(t, pool.price, m)
         /\ PoolDebts(t) \in Int /\ PoolDebts(t)' \in Int
<1>1. TypeOK /\ Ranges /\ Books
  BY DEF IInv
<1>2. /\ pool'.price = pool.price /\ pool'.tick = pool.tick /\ pool'.growth = pool.growth
      /\ pool.price \in Prices
      /\ \A r \in Positions \ {m} : position'[r] = position[r]
      /\ position[m].open
  BY <1>1, ModifyEffect, PoolFacts DEF TypeOK
<1>3. ASSUME NEW r \in Positions \ {m} PROVE PoolDebt(t, r)' = PoolDebt(t, r)
  <2>0. PoolDebt(t, r)' = Debt(t, pool.price, PoolInside(r)', r, position[r])
    BY <1>2 DEF PoolDebt
  <2>1. CASE ~ position[r].open
    BY <2>0, <2>1 DEF PoolDebt, Debt
  <2>2. CASE r \in Live
    <3>1. r \in Live'
      BY <1>2, <2>2 DEF Live
    <3>2. PoolInside(r)' = PoolInside(r)
      <4>1. InsideGrowth(r, ticks'[r.lower], ticks'[r.upper], pool.tick, pool.growth) =
              InsideGrowth(r, ticks[r.lower], ticks[r.upper], pool.tick, pool.growth)
        BY <1>1, <2>2, <3>1, InsideKept
      <4> QED BY <1>2, <4>1 DEF PoolInside
    <3> QED BY <2>0, <3>2 DEF PoolDebt
  <2>3. CASE position[r].open /\ r \notin Live
    <3>1. position[r].liquidity = 0 /\ IsRange(r) /\ position[r] \in Account
      BY <1>1, <2>3, IdlePosition, PoolDebtTyped DEF Ranges, IsRange
    <3>2. PoolInside(r) \in Growth /\ PoolInside(r)' \in Growth
      BY <1>1, <1>2, <2>3, InsideInPool, InsideInPoolNext DEF IInv
    <3>3. PoolDebt(t, r) = Scale * position[r].owed[t]
      BY <1>2, <2>3, <3>1, <3>2, IdleDebt DEF PoolDebt
    <3>4. PoolDebt(t, r)' = Scale * position[r].owed[t]
      BY <1>2, <2>0, <2>3, <3>1, <3>2, IdleDebt
    <3> QED BY <3>3, <3>4
  <2> QED BY <2>1, <2>2, <2>3
<1>4. /\ PoolDebts(t) \in Nat /\ PoolDebt(t, m) \in Nat /\ PoolDebt(t, m)' \in Nat
      /\ PoolDebts(t)' = PoolDebts(t) + (PoolDebt(t, m)' - PoolDebt(t, m))
  BY <1>3, OneDebtChanges
<1> DEFINE x == delta * Depth(t, pool.price, m)
<1>5. x \in Int
  <2>1. Depth(t, pool.price, m) \in Nat
    BY <1>1, <1>2, DepthTyped DEF Ranges, IsRange
  <2> HIDE DEF x
  <2>2. Depth(t, pool.price, m) * delta \in Int
    BY <2>1, ProductOfSum
  <2>3. delta * Depth(t, pool.price, m) = Depth(t, pool.price, m) * delta
    BY <2>1
  <2> QED BY <2>2, <2>3 DEF x
<1>6. PoolDebt(t, m)' <= PoolDebt(t, m) + x
  BY OwnDebt
<1> HIDE DEF x
<1>7. PoolDebts(t)' <= PoolDebts(t) + x
  BY <1>4, <1>5, <1>6
<1> QED BY <1>4, <1>7 DEF x

\* What an increase pays in covers what it adds to the debts, and a decrease
\* takes out no more than it takes from them.
LEMMA LiquidityCovers ==
  ASSUME IInv, IInv', EndsInitialized, EndsInitialized', Covers,
         NEW m \in Positions, NEW l \in Liquidities,
         IncreaseLiquidity(m, l) \/ DecreaseLiquidity(m, l)
  PROVE  Covers'
<1>1. l \in Nat /\ l \in Int /\ -l \in Int
  BY ClmmAssumption
<1>2. PICK delta, amounts : delta \in Int /\ Modify(m, delta, amounts)
  BY <1>1 DEF IncreaseLiquidity, DecreaseLiquidity
<1>3. TypeOK /\ Ranges /\ ~ walk'.active /\ stalled' = stalled
  BY <1>2, ModifyPool, ModifyEffect DEF IInv
<1>4. position[m].open /\ IsRange(m) /\ ~ walk.active
  BY <1>2, <1>3, ModifyEffect DEF IsRange
<1> SUFFICES ASSUME ~ stalled, NEW t \in Token
             PROVE  PoolDebts(t)' <= Scale * vault'[t]
  BY <1>3 DEF Covers, PoolCovers, WalkCovers
<1>5. PoolDebts(t) <= Scale * vault[t] /\ vault[t] \in Nat /\ Scale \in Nat
  BY <1>3, ScaleFacts DEF Covers, PoolCovers, TypeOK, Amounts
<1> DEFINE down == AmountsForLiquidity(pool.price, pool.tick, m, l, FALSE)
           up == AmountsForLiquidity(pool.price, pool.tick, m, l, TRUE)
           d == Depth(t, pool.price, m)
<1>6. d \in Nat /\ up[t] \in Nat /\ down[t] \in Nat
      /\ Scale * down[t] <= l * d /\ l * d <= Scale * up[t]
  <2>1. pool.price \in Prices /\ pool.tick \in MinTick .. MaxTick
        /\ TickMatches(pool.tick, pool.price)
    BY <1>3, PoolFacts DEF IInv, TickTracksPrice
  <2>2. up \in Amounts /\ down \in Amounts
    BY <1>1, <1>4, <2>1, AmountsTyped DEF IsRange
  <2>3. up[t] \in Nat /\ down[t] \in Nat
    BY <2>2 DEF Amounts
  <2>4. d \in Nat
    BY <1>4, <2>1, DepthTyped
  <2>5. Scale * down[t] <= l * d /\ l * d <= Scale * up[t]
    BY <1>1, <1>4, <2>1, AmountsScaled
  <2> QED BY <2>3, <2>4, <2>5
<1>7. CASE IncreaseLiquidity(m, l)
  <2>1. Modify(m, l, up) /\ vault'[t] = vault[t] + up[t]
    BY <1>7 DEF IncreaseLiquidity
  <2>2. PoolDebts(t)' <= PoolDebts(t) + l * d /\ PoolDebts(t) \in Int /\ PoolDebts(t)' \in Int
    BY <1>1, <2>1, ModifyDebts
  <2> DEFINE u == up[t]
  <2>3. u \in Nat /\ vault'[t] = vault[t] + u /\ l * d <= Scale * u
    BY <1>6, <2>1
  <2> HIDE DEF u, d, up, down
  <2>4. Scale * (vault[t] + u) = Scale * vault[t] + Scale * u
        /\ Scale * vault[t] \in Int /\ Scale * u \in Int
    BY <1>5, <2>3, ProductOfSum
  <2>5. l * d \in Nat
    BY <1>1, <1>6, ProductFacts
  <2> DEFINE x == l * d
             y == Scale * u
             z == Scale * vault[t]
  <2>6. /\ x \in Nat /\ y \in Int /\ z \in Int /\ x <= y
        /\ Scale * vault'[t] = z + y /\ PoolDebts(t) <= z /\ PoolDebts(t)' <= PoolDebts(t) + x
    BY <1>5, <2>2, <2>3, <2>4, <2>5
  <2> HIDE DEF x, y, z
  <2> QED BY <2>2, <2>6
<1>8. CASE DecreaseLiquidity(m, l)
  <2>1. Modify(m, -l, down) /\ vault'[t] = vault[t] - down[t]
    BY <1>8 DEF DecreaseLiquidity
  <2>2. PoolDebts(t)' <= PoolDebts(t) + (-l) * d /\ PoolDebts(t) \in Int /\ PoolDebts(t)' \in Int
    BY <1>1, <2>1, ModifyDebts
  <2> DEFINE u == down[t]
  <2>3. u \in Nat /\ vault'[t] = vault[t] - u /\ Scale * u <= l * d
    BY <1>6, <2>1
  <2> HIDE DEF u, d, up, down
  <2>4. Scale * (vault[t] - u) = Scale * vault[t] - Scale * u
        /\ Scale * vault[t] \in Int /\ Scale * u \in Int
    <3>1. -u \in Int /\ vault[t] - u = vault[t] + (-u) /\ vault[t] \in Int /\ u \in Int
      BY <1>5, <2>3
    <3>2. Scale * (vault[t] + (-u)) = Scale * vault[t] + Scale * (-u)
          /\ Scale * (-u) = -(Scale * u) /\ Scale * vault[t] \in Int /\ Scale * u \in Int
      BY <1>5, <3>1, ProductOfSum
    <3> QED BY <3>1, <3>2
  <2>5. l * d \in Nat /\ (-l) * d = -(l * d)
    <3>1. l * d \in Nat
      BY <1>1, <1>6, ProductFacts
    <3>2. d * (-l) = -(d * l) /\ d * (-l) = (-l) * d /\ d * l = l * d
      BY <1>1, <1>6, ProductOfSum
    <3> QED BY <3>1, <3>2
  <2> DEFINE x == l * d
             y == Scale * u
             z == Scale * vault[t]
  <2>6. /\ x \in Nat /\ y \in Int /\ z \in Int /\ y <= x
        /\ Scale * vault'[t] = z - y /\ PoolDebts(t) <= z /\ PoolDebts(t)' <= PoolDebts(t) + (-x)
    BY <1>5, <2>2, <2>3, <2>4, <2>5
  <2> HIDE DEF x, y, z
  <2> QED BY <2>2, <2>6
<1> QED BY <1>7, <1>8

-----------------------------------------------------------------------------
(* The theorem.                                                            *)

LEMMA NextCovers ==
  ASSUME IInv, IInv', EndsInitialized, EndsInitialized', Covers, [Next]_vars
  PROVE  Covers'
<1>1. TypeOK
  BY DEF IInv
<1>2. ASSUME UNCHANGED <<pool, ticks, position, vault, stalled>>, ~ walk'.active
      PROVE  Covers'
  BY <1>2, PoolQuiet DEF Covers, WalkCovers
<1>3. ASSUME NEW s \in Starts, InitTickArray(s) PROVE Covers'
  BY <1>2, <1>3 DEF InitTickArray
<1>4. ASSUME NEW r \in Positions, OpenPosition(r) \/ ClosePosition(r) \/ Collect(r)
      PROVE  Covers'
  BY <1>4, PositionCovers
<1>5. ASSUME NEW r \in Positions, NEW l \in Liquidities,
             IncreaseLiquidity(r, l) \/ DecreaseLiquidity(r, l)
      PROVE  Covers'
  BY <1>5, LiquidityCovers
<1>6. ASSUME NEW down \in BOOLEAN, NEW amount \in SwapAmounts, NEW limit \in PriceLimits,
             NEW n \in 1 .. 3, StartSwap(down, amount, limit, n)
      PROVE  Covers'
  BY <1>1, <1>6, StartCovers
<1>7. CASE Advance
  BY <1>7, AdvanceCovers
<1>8. CASE SettleSwap
  BY <1>8, SettleCovers
<1>9. CASE RevertSwap
  BY <1>2, <1>9 DEF RevertSwap, Idle
<1>10. CASE UNCHANGED vars
  <2>1. UNCHANGED <<pool, arrays, ticks, position, vault, walk, stalled, changes, swaps>>
    BY <1>10 DEF vars
  <2>2. PoolCovers'
    BY <2>1, PoolQuiet DEF Covers
  <2>3. \A t \in Token, r \in Positions : WalkDebt(t, r)' = WalkDebt(t, r)
    BY <2>1 DEF WalkDebt, WalkInside
  <2>4. \A t \in Token : WalkDebts(t)' = WalkDebts(t) /\ WalkBalance(t)' = WalkBalance(t)
    BY <2>1, <2>3 DEF WalkDebts, WalkBalance, InToken
  <2> QED BY <2>1, <2>2, <2>4 DEF Covers, WalkCovers
<1> QED BY <1>3, <1>4, <1>5, <1>6, <1>7, <1>8, <1>9, <1>10 DEF Next

\* Every swap, change and collection leaves the vaults, and the balances a swap
\* on its way would leave, with what all positions are worth.
THEOREM CoversTheorem ==
  Spec => []Covers
<1>1. IInv => EndsInitialized
  BY LiveBounds DEF IInv, EndsInitialized, Initialized
<1>2. Init => Covers
  BY InitCovers
<1>3. IInv /\ IInv' /\ EndsInitialized /\ EndsInitialized' /\ Covers /\ [Next]_vars => Covers'
  BY NextCovers
<1> QED BY <1>1, <1>2, <1>3, ClmmInvariant, PTL DEF Spec

\* What a position is paid is rounded down from what it is owed.
LEMMA PaidBelowDebt ==
  ASSUME IInv, ~ walk.active, NEW r \in Positions, position[r].open, NEW t \in Token
  PROVE  /\ Principal(r)[t] + FeeClaim(r)[t] \in Nat
         /\ Scale * (Principal(r)[t] + FeeClaim(r)[t]) <= PoolDebt(t, r)
<1>1. TypeOK /\ Ranges /\ TickMatches(pool.tick, pool.price)
  BY DEF IInv, TickTracksPrice
<1> DEFINE l == position[r].liquidity
           o == position[r].owed[t]
           last == position[r].last[t]
           now == PoolInside(r)[t]
           f == FeesOwed(l, now, last)
           a == Principal(r)[t]
           d == Depth(t, pool.price, r)
           w == AllPrices * Wrapped(now - last)
<1>2. IsRange(r) /\ pool.price \in Prices /\ pool.tick \in MinTick .. MaxTick
  BY <1>1, PoolFacts DEF Ranges, IsRange
<1>3. l \in Nat /\ o \in Nat /\ last \in Nat /\ now \in Nat
  <2>1. /\ l \in Nat /\ position[r].owed \in Amounts /\ position[r].last \in Growth
        /\ PoolInside(r) \in Growth
    BY <1>1, PositionFacts, InsideInPool
  <2> QED BY <2>1, GrowthFacts DEF Amounts
<1>4. PoolDebt(t, r) = Scale * o + l * (d + w)
  BY DEF PoolDebt, Debt
<1>5. FeeClaim(r)[t] = o + f
  BY DEF FeeClaim, OwedSince, InsideNow, PoolInside
<1>6. a \in Nat /\ Scale * a <= l * d
  <2>1. Principal(r) \in Amounts
    BY <1>2, <1>3, AmountsTyped DEF Principal, IsRange
  <2>2. Scale * a <= l * d
    BY <1>1, <1>2, <1>3, AmountsScaled DEF Principal
  <2> QED BY <2>1, <2>2 DEF Amounts
<1> HIDE DEF l, o, last, now
<1>7. f \in Nat /\ Scale * f <= l * w
  BY <1>3, FeesScaled
<1>8. d \in Nat /\ w \in Nat /\ Scale \in Nat
  <2>1. now - last \in Int
    BY <1>3
  <2> QED BY <1>2, <2>1, DepthTyped, WrappedNat, ScaleFacts, ProductFacts
<1> HIDE DEF f, a, d, w
<1>9. l * (d + w) = l * d + l * w /\ l * d \in Int /\ l * w \in Int
  BY <1>3, <1>8, ProductOfSum
<1>10. /\ Scale * (a + (o + f)) = Scale * a + Scale * (o + f)
       /\ Scale * (o + f) = Scale * o + Scale * f
       /\ Scale * a \in Int /\ Scale * o \in Int /\ Scale * f \in Int
  <2>1. a \in Int /\ o \in Int /\ f \in Int /\ o + f \in Int
    BY <1>3, <1>6, <1>7
  <2> QED BY <1>8, <2>1, ProductOfSum
<1> DEFINE sa == Scale * a
           so == Scale * o
           sf == Scale * f
           ld == l * d
           lw == l * w
           paid == Scale * (a + (o + f))
<1>11. /\ sa \in Int /\ so \in Int /\ sf \in Int /\ ld \in Int /\ lw \in Int
       /\ paid = sa + (so + sf) /\ PoolDebt(t, r) = so + (ld + lw)
       /\ sa <= ld /\ sf <= lw
  BY <1>4, <1>6, <1>7, <1>9, <1>10
<1> HIDE DEF sa, so, sf, ld, lw, paid
<1>12. paid <= PoolDebt(t, r)
  BY <1>11
<1>13. a + (o + f) \in Nat
  BY <1>3, <1>6, <1>7
<1> QED BY <1>5, <1>12, <1>13 DEF paid, a

\* Everybody can leave: after any swaps, changes and collections the vaults
\* hold what all positions together would be paid for their liquidity and
\* their fees, as long as no swap has stalled.
THEOREM SolventTheorem ==
  Spec => []Solvent
<1>1. ASSUME IInv, Covers
      PROVE  Solvent
  <2> SUFFICES ASSUME ~ stalled, ~ walk.active, NEW t \in Token
               PROVE  SumFunctionOnSet(
                        [r \in Positions |-> IF position[r].open
                                             THEN Principal(r)[t] + FeeClaim(r)[t] ELSE 0],
                        Positions) <= vault[t]
    BY DEF Solvent
  <2> DEFINE f == [r \in Positions |-> IF position[r].open
                                       THEN Principal(r)[t] + FeeClaim(r)[t] ELSE 0]
             zero == [r \in Positions |-> 0]
             g == [r \in Positions |-> 0 + Scale * f[r]]
             h == [r \in Positions |-> PoolDebt(t, r)]
             F == SumFunctionOnSet(f, Positions)
  <2>1. TypeOK /\ Ranges
    BY <1>1 DEF IInv
  <2>2. IsFiniteSet(Positions) /\ Scale \in Nat /\ Scale > 0 /\ vault[t] \in Nat
    BY <2>1, Parameters, ScaleFacts DEF TypeOK, Amounts
  <2>3. \A r \in Positions : f[r] \in Nat /\ h[r] \in Nat /\ Scale * f[r] <= h[r]
    <3> SUFFICES ASSUME NEW r \in Positions
                 PROVE  f[r] \in Nat /\ h[r] \in Nat /\ Scale * f[r] <= h[r]
      OBVIOUS
    <3>1. h[r] = PoolDebt(t, r) /\ PoolDebt(t, r) \in Nat
      BY <2>1, PoolDebtTyped
    <3>2. CASE position[r].open
      <4>1. /\ Principal(r)[t] + FeeClaim(r)[t] \in Nat
            /\ Scale * (Principal(r)[t] + FeeClaim(r)[t]) <= PoolDebt(t, r)
        BY <1>1, <3>2, PaidBelowDebt
      <4>2. f[r] = Principal(r)[t] + FeeClaim(r)[t]
        BY <3>2
      <4> HIDE DEF f, h
      <4> QED BY <3>1, <4>1, <4>2
    <3>3. CASE ~ position[r].open
      <4>1. f[r] = 0
        BY <3>3
      <4> HIDE DEF f, h
      <4> QED BY <2>2, <3>1, <4>1
    <3> QED BY <3>2, <3>3
  <2>4. PoolDebts(t) = SumFunctionOnSet(h, Positions) /\ PoolDebts(t) <= Scale * vault[t]
    BY <1>1 DEF PoolDebts, Covers, PoolCovers
  <2> HIDE DEF f, h
  <2>5. \A r \in Positions : Scale * f[r] \in Nat
    BY <2>2, <2>3, ProductFacts
  <2>6. \A r \in Positions : /\ zero[r] = 0 /\ g[r] = zero[r] + Scale * f[r]
                             /\ g[r] \in Int /\ g[r] = Scale * f[r]
    BY <2>5
  <2> HIDE DEF zero, g
  <2>7. SumFunctionOnSet(zero, Positions) = 0 /\ F \in Nat
    BY <2>2, <2>3, <2>6, SumOfZeros, SumIsNat
  <2>8. SumFunctionOnSet(g, Positions) = SumFunctionOnSet(zero, Positions) + Scale * F
    <3>1. \A r \in Positions : zero[r] \in Int /\ f[r] \in Int
      BY <2>3, <2>6
    <3>2. Scale \in Int
      BY <2>2
    <3> QED BY <2>2, <2>6, <3>1, <3>2, SumLinear
  <2>9. SumFunctionOnSet(g, Positions) <= SumFunctionOnSet(h, Positions)
    <3>1. \A r \in Positions : g[r] \in Int /\ h[r] \in Int /\ g[r] <= h[r]
      BY <2>3, <2>6
    <3> QED BY <2>2, <3>1, SumMonotone
  <2> HIDE DEF F
  <2>10. Scale * F \in Nat /\ Scale * vault[t] \in Nat
    BY <2>2, <2>7, ProductFacts
  <2>11. SumFunctionOnSet(h, Positions) \in Int
    <3>1. \A r \in Positions : h[r] \in Int
      BY <2>3
    <3> QED BY <2>2, <3>1, SumIsInt
  <2>12. Scale * F <= Scale * vault[t]
    BY <2>4, <2>7, <2>8, <2>9, <2>10, <2>11
  <2>13. F <= vault[t]
    BY <2>2, <2>7, <2>12, Ordered
  <2> QED BY <2>13 DEF F, f
<1> QED BY <1>1, ClmmInvariant, CoversTheorem, PTL

\* In every round of a swap its output so far is in the vault, also where the
\* swap drains the ranges: with what it gave its caller gone, the vault still
\* covers debts that are not negative.
THEOREM SwapIsBackedTheorem ==
  Spec => []SwapIsBacked
<1>1. ASSUME IInv, Covers
      PROVE  SwapIsBacked
  <2> SUFFICES ASSUME walk.active, ~ OutOfStep
               PROVE  walk.out <= vault[1 - InToken]
    BY DEF SwapIsBacked
  <2> DEFINE t == 1 - InToken
             h == [r \in Positions |-> WalkDebt(t, r)]
             left == vault[t] - walk.out
  <2>1. TypeOK /\ Ranges
    BY <1>1 DEF IInv
  <2>2. t \in Token /\ t # InToken
    BY DEF InToken, Token
  <2>3. vault[t] \in Nat /\ walk.out \in Nat /\ left \in Int /\ IsFiniteSet(Positions)
        /\ Scale \in Nat /\ Scale > 0
    <3>1. vault[t] \in Nat
      <4>1. vault \in Amounts
        BY <2>1 DEF TypeOK
      <4> HIDE DEF t
      <4> QED BY <2>2, <4>1 DEF Amounts
    <3>2. walk.out \in Nat
      BY <2>1, WalkFacts
    <3> HIDE DEF t
    <3> QED BY <3>1, <3>2, Parameters, ScaleFacts
  <2>4. WalkBalance(t) = left
    BY <2>2, <2>3 DEF WalkBalance
  <2>5. WalkDebts(t) = SumFunctionOnSet(h, Positions) /\ WalkDebts(t) <= Scale * left
    BY <1>1, <2>2, <2>4 DEF Covers, WalkCovers, WalkDebts, OutOfStep
  <2> HIDE DEF t, left
  <2>6. \A r \in Positions : h[r] \in Nat
    BY <2>1, <2>2, WalkDebtTyped
  <2> HIDE DEF h
  <2>7. SumFunctionOnSet(h, Positions) \in Nat
    BY <2>3, <2>6, SumIsNat
  <2>8. Scale * 0 <= Scale * left
    BY <2>3, <2>5, <2>7
  <2>9. 0 <= left
    BY <2>3, <2>8, Ordered
  <2> QED BY <2>3, <2>9 DEF left, t
<1> QED BY <1>1, ClmmInvariant, CoversTheorem, PTL

-----------------------------------------------------------------------------
(* The off-chain quote: its rounds, one after the other.                   *)

LEMMA LeastNat ==
  ASSUME NEW S, S \subseteq Nat, NEW n \in S
  PROVE  \E x \in S : \A y \in S : x <= y
<1> DEFINE low == { y \in S : y <= n }
<1>1. low \subseteq Int /\ IsFiniteSet(low) /\ n \in low
  <2>1. n \in Nat
    OBVIOUS
  <2>2. IsFiniteSet(0 .. n)
    BY <2>1, FS_Interval
  <2>3. ASSUME NEW y \in low PROVE y \in 0 .. n
    <3>1. y \in S /\ y <= n
      OBVIOUS
    <3>2. y \in Nat
      BY <3>1
    <3> QED BY <2>1, <3>1, <3>2
  <2>4. n \in low /\ low \subseteq Int /\ low \subseteq 0 .. n
    <3>1. n <= n
      BY <2>1
    <3>2. \A y \in 0 .. n : y \in Int
      OBVIOUS
    <3>3. n \in low
      BY <3>1
    <3> HIDE DEF low
    <3> QED BY <2>3, <3>2, <3>3
  <2> HIDE DEF low
  <2>5. IsFiniteSet(low)
    BY <2>2, <2>4, FS_Subset
  <2> QED BY <2>4, <2>5
<1>2. PICK x \in low : \A y \in low : x <= y
  <2> HIDE DEF low
  <2> QED BY <1>1, ExtremesExist
<1> QED BY <1>2

\* The first n rounds of the loop from the given start.
UpTo(g, n, first, limit, low, high) ==
  g = [i \in 0 .. n |-> IF i = 0 THEN first ELSE QuoteStep(g[i - 1], limit, low, high)]

LEMMA UpToAgree ==
  ASSUME NEW first, NEW limit, NEW low, NEW high, NEW n \in Nat, NEW m \in Nat, NEW g, NEW h,
         UpTo(g, n, first, limit, low, high), UpTo(h, m, first, limit, low, high),
         NEW i \in Nat, i <= n, i <= m
  PROVE  g[i] = h[i]
<1> DEFINE Bad == { j \in Nat : j <= n /\ j <= m /\ g[j] # h[j] }
<1> SUFFICES ASSUME i \in Bad PROVE FALSE
  OBVIOUS
<1>1. PICK j \in Bad : \A k \in Bad : j <= k
  <2>1. Bad \subseteq Nat
    OBVIOUS
  <2> HIDE DEF Bad
  <2> QED BY <2>1, LeastNat
<1>2. j \in 0 .. n /\ j \in 0 .. m /\ g[j] # h[j]
  BY <1>1
<1>3. /\ g[j] = IF j = 0 THEN first ELSE QuoteStep(g[j - 1], limit, low, high)
      /\ h[j] = IF j = 0 THEN first ELSE QuoteStep(h[j - 1], limit, low, high)
  BY <1>2 DEF UpTo
<1>4. j # 0 /\ g[j - 1] # h[j - 1]
  BY <1>2, <1>3
<1>5. j - 1 \in Nat /\ j - 1 <= n /\ j - 1 <= m
  BY <1>2, <1>4
<1> QED BY <1>1, <1>4, <1>5

LEMMA UpToExists ==
  ASSUME NEW first, NEW limit, NEW low, NEW high, NEW n \in Nat
  PROVE  \E g : UpTo(g, n, first, limit, low, high)
<1> DEFINE Has(m) == \E g : UpTo(g, m, first, limit, low, high)
           Bad == { m \in Nat : ~ Has(m) }
<1>1. Has(0)
  <2> DEFINE g == [i \in 0 .. 0 |-> first]
  <2>1. g = [i \in 0 .. 0 |-> IF i = 0 THEN first ELSE QuoteStep(g[i - 1], limit, low, high)]
    <3>1. \A i \in 0 .. 0 : i = 0
      OBVIOUS
    <3> QED BY <3>1
  <2> QED BY <2>1 DEF UpTo
<1>2. ASSUME NEW m \in Nat, Has(m) PROVE Has(m + 1)
  <2>1. PICK g : UpTo(g, m, first, limit, low, high)
    BY <1>2
  <2> DEFINE h == [i \in 0 .. m + 1 |->
                    IF i = 0 THEN first ELSE QuoteStep(g[i - 1], limit, low, high)]
  <2>2. \A i \in 0 .. m : g[i] = IF i = 0 THEN first ELSE QuoteStep(g[i - 1], limit, low, high)
    BY <2>1 DEF UpTo
  <2>3. \A i \in 0 .. m : h[i] = g[i]
    BY <2>2
  <2>4. \A i \in 0 .. m + 1 : i # 0 => h[i - 1] = g[i - 1]
    <3> SUFFICES ASSUME NEW i \in 0 .. m + 1, i # 0 PROVE i - 1 \in 0 .. m
      BY <2>3
    <3> QED OBVIOUS
  <2>5. \A i \in 0 .. m + 1 :
          h[i] = IF i = 0 THEN first ELSE QuoteStep(h[i - 1], limit, low, high)
    BY <2>4
  <2>6. h = [i \in 0 .. m + 1 |-> h[i]]
    OBVIOUS
  <2> HIDE DEF h
  <2>7. UpTo(h, m + 1, first, limit, low, high)
    BY <2>5, <2>6 DEF UpTo
  <2> QED BY <2>7
<1> HIDE DEF Has
<1> SUFFICES ASSUME n \in Bad PROVE FALSE
  BY DEF Has
<1>3. PICK m \in Bad : \A k \in Bad : m <= k
  <2>1. Bad \subseteq Nat
    OBVIOUS
  <2> HIDE DEF Bad
  <2> QED BY <2>1, LeastNat
<1>4. m # 0 /\ m - 1 \in Nat /\ (m - 1) + 1 = m
  BY <1>1, <1>3
<1>5. Has(m - 1)
  BY <1>3, <1>4
<1> QED BY <1>2, <1>3, <1>4, <1>5

RoundsFrom(f, first, limit, low, high) ==
  f = [n \in Nat |-> IF n = 0 THEN first ELSE QuoteStep(f[n - 1], limit, low, high)]

LEMMA QuoteUnfolds ==
  ASSUME NEW down, NEW amount, NEW limit, NEW low, NEW high
  PROVE  LET after == QuoteRounds(down, amount, limit, low, high)
         IN  /\ after[0] = QuoteStart(down, amount)
             /\ \A n \in Nat : after[n + 1] = QuoteStep(after[n], limit, low, high)
<1> DEFINE first == QuoteStart(down, amount)
           after == QuoteRounds(down, amount, limit, low, high)
           G(n) == CHOOSE g : UpTo(g, n, first, limit, low, high)
           F == [n \in Nat |-> G(n)[n]]
<1>1. after = CHOOSE f : RoundsFrom(f, first, limit, low, high)
  BY Zenon DEF QuoteRounds, RoundsFrom
<1> HIDE DEF first, after
<1>2. ASSUME NEW n \in Nat PROVE UpTo(G(n), n, first, limit, low, high)
  BY UpToExists
<1> HIDE DEF G
<1>3. ASSUME NEW n \in Nat
      PROVE  F[n] = IF n = 0 THEN first ELSE QuoteStep(F[n - 1], limit, low, high)
  <2>1. G(n)[n] = IF n = 0 THEN first ELSE QuoteStep(G(n)[n - 1], limit, low, high)
    <3>1. n \in 0 .. n
      OBVIOUS
    <3> QED BY <1>2, <3>1 DEF UpTo
  <2>2. CASE n = 0
    BY <2>1, <2>2
  <2>3. CASE n # 0
    <3>1. n - 1 \in Nat /\ n - 1 <= n /\ n - 1 <= n - 1
      BY <2>3
    <3>2. UpTo(G(n - 1), n - 1, first, limit, low, high)
      BY <1>2, <3>1
    <3>3. G(n)[n - 1] = G(n - 1)[n - 1]
      BY <1>2, <3>1, <3>2, UpToAgree
    <3> QED BY <2>1, <2>3, <3>1, <3>3
  <2> QED BY <2>2, <2>3
<1>4. F = [n \in Nat |-> F[n]]
  OBVIOUS
<1> HIDE DEF F
<1>5. RoundsFrom(F, first, limit, low, high)
  BY <1>3, <1>4 DEF RoundsFrom
<1>6. RoundsFrom(after, first, limit, low, high)
  BY <1>1, <1>5
<1>7. after[0] = first
  BY <1>6 DEF RoundsFrom
<1>8. ASSUME NEW n \in Nat PROVE after[n + 1] = QuoteStep(after[n], limit, low, high)
  <2>1. n + 1 \in Nat /\ n + 1 # 0 /\ (n + 1) - 1 = n
    OBVIOUS
  <2> QED BY <1>6, <2>1 DEF RoundsFrom
<1> QED BY <1>7, <1>8 DEF first, after

\* A quote that is done stays as it is.
LEMMA QuoteRests ==
  ASSUME NEW down, NEW amount, NEW limit, NEW low, NEW high, NEW k \in Nat, NEW n \in Nat, k <= n,
         QuoteDone(QuoteRounds(down, amount, limit, low, high)[k], limit)
  PROVE  QuoteRounds(down, amount, limit, low, high)[n]
           = QuoteRounds(down, amount, limit, low, high)[k]
<1> DEFINE after == QuoteRounds(down, amount, limit, low, high)
           Bad == { m \in Nat : k <= m /\ after[m] # after[k] }
<1>1. \A m \in Nat : after[m + 1] = QuoteStep(after[m], limit, low, high)
  BY QuoteUnfolds
<1>2. QuoteDone(after[k], limit)
  OBVIOUS
<1> HIDE DEF after
<1> SUFFICES ASSUME n \in Bad PROVE FALSE
  BY DEF after
<1>3. PICK m \in Bad : \A j \in Bad : m <= j
  <2>1. Bad \subseteq Nat
    OBVIOUS
  <2> HIDE DEF Bad
  <2> QED BY <2>1, LeastNat
<1>4. m # k /\ m - 1 \in Nat /\ k <= m - 1 /\ (m - 1) + 1 = m
  BY <1>3
<1>5. after[m - 1] = after[k]
  BY <1>3, <1>4
<1>6. after[m] = QuoteStep(after[k], limit, low, high)
  BY <1>1, <1>4, <1>5
<1>7. after[m] = after[k]
  BY <1>2, <1>6 DEF QuoteStep
<1> QED BY <1>3, <1>7

LEMMA QuoteRoundsKept ==
  ASSUME NEW down, NEW amount, NEW limit, NEW low, NEW high, pool' = pool, ticks' = ticks
  PROVE  QuoteRounds(down, amount, limit, low, high)' = QuoteRounds(down, amount, limit, low, high)
<1>1. \A w : QuoteStep(w, limit, low, high)' = QuoteStep(w, limit, low, high)
  BY SMTT(60) DEF QuoteStep, QuoteDone, QuoteTargets, QuoteListed, QuoteRound
<1>2. QuoteStart(down, amount)' = QuoteStart(down, amount)
  BY SMT DEF QuoteStart
<1> QED BY SMT, <1>1, <1>2 DEF QuoteRounds

-----------------------------------------------------------------------------
(* The quote follows the swap round by round.                              *)

\* What a quote would hold at this point of the swap.
Fill ==
  [down |-> walk.down, price |-> walk.price, tick |-> walk.tick, liquidity |-> walk.liquidity,
   remaining |-> walk.remaining, in |-> walk.in, out |-> walk.out, fee |-> walk.fee,
   crossings |-> walk.crossings, failed |-> FALSE]

\* The candidate of nextTarget is the nearest multiple of the spacing.
LEMMA NearestMultiple ==
  ASSUME NEW t \in Int, NEW x \in Int, NEW s \in Nat, s > 0, t % s = 0
  PROVE  /\ t <= x <=> t <= (x \div s) * s
         /\ x < t <=> t >= (x \div s) * s + s
<1> DEFINE j == t \div s
           q == x \div s
<1>1. j \in Int /\ t = s * j
  BY Z3
<1>2. q \in Int /\ s * q <= x /\ x < s * q + s
  BY QuotientFacts
<1> HIDE DEF j, q
<1>3. q * s = s * q /\ s * (q + 1) = s * q + s /\ s * q \in Int
  BY <1>2, Z3
<1>4. ASSUME t <= x PROVE t <= s * q
  <2>1. s * j < s * (q + 1)
    BY <1>1, <1>2, <1>3, <1>4
  <2>2. j < q + 1
    BY <1>1, <1>2, <2>1, Ordered
  <2>3. j <= q
    BY <1>1, <1>2, <2>2
  <2> QED BY <1>1, <1>2, <2>3, Ordered
<1>5. ASSUME x < t PROVE t >= s * q + s
  <2>1. s * q < s * j
    BY <1>1, <1>2, <1>3, <1>5
  <2>2. q < j
    BY <1>1, <1>2, <2>1, Ordered
  <2>3. q + 1 <= j /\ q + 1 \in Int
    BY <1>1, <1>2, <2>2
  <2>4. s * (q + 1) <= s * j
    BY <1>1, <2>3, Ordered
  <2> QED BY <1>1, <1>3, <2>4
<1>6. t <= s * q => t <= x
  BY <1>2, <1>3
<1>7. t >= s * q + s => x < t
  BY <1>2, <1>3
<1> QED BY <1>3, <1>4, <1>5, <1>6, <1>7 DEF q

LEMMA QuoteLooksAhead ==
  ASSUME IInv, walk.active, walk.high % TickSpacing = 0
  PROVE  /\ QuoteListed(Fill, walk.low, walk.high) = InitializedAhead
         /\ QuoteTargets(Fill, walk.low, walk.high) = NextTargets
<1>1. TypeOK /\ OnItsWay
  BY DEF IInv
<1>2. /\ walk.low \in Int /\ walk.high \in Int /\ walk.tick \in Int /\ walk.down \in BOOLEAN
      /\ walk.low % TickSpacing = 0 /\ \A t \in Slots : walk.ticks[t].gross = ticks[t].gross
  BY <1>1, WalkFacts DEF OnItsWay
<1> DEFINE floor == (walk.tick \div TickSpacing) * TickSpacing
<1>3. TickSpacing \in Nat /\ TickSpacing > 0
  BY Parameters
<1>4. ASSUME NEW t \in Int, t % TickSpacing = 0
      PROVE  /\ t <= walk.tick <=> t <= floor
             /\ walk.tick < t <=> t >= floor + TickSpacing
  BY <1>2, <1>3, <1>4, NearestMultiple
<1>5. \A t \in Slots : t \in Int /\ t % TickSpacing = 0
  BY SlotsFinite DEF Slots
<1>6. floor \in Int /\ floor + 0 = floor
  <2>1. walk.tick \div TickSpacing \in Int
    BY <1>2, <1>3, QuotientFacts
  <2> QED BY <1>3, <2>1
<1>7. Fill.down = walk.down /\ Fill.tick = walk.tick
  BY DEF Fill
<1> HIDE DEF floor
<1>8. QuoteListed(Fill, walk.low, walk.high) =
        { t \in Slots : /\ ticks[t].gross # 0 /\ walk.low <= t /\ t < walk.high
                        /\ IF walk.down THEN t <= floor ELSE t >= floor + TickSpacing }
  BY <1>6, <1>7 DEF QuoteListed, floor
<1>9. QuoteListed(Fill, walk.low, walk.high) = InitializedAhead
  <2>1. \A t \in Slots : (IF walk.down THEN t <= floor ELSE t >= floor + TickSpacing)
                           <=> (IF walk.down THEN t <= walk.tick ELSE t > walk.tick)
    <3> SUFFICES ASSUME NEW t \in Slots
                 PROVE  (IF walk.down THEN t <= floor ELSE t >= floor + TickSpacing)
                           <=> (IF walk.down THEN t <= walk.tick ELSE t > walk.tick)
      OBVIOUS
    <3>1. t \in Int /\ t % TickSpacing = 0
      BY <1>5
    <3> QED BY <1>2, <1>4, <3>1
  <2>2. \A t : t \in QuoteListed(Fill, walk.low, walk.high) <=> t \in InitializedAhead
    BY <1>2, <1>8, <2>1 DEF InitializedAhead, Ahead, Initialized
  <2> QED BY <2>2
<1>10. /\ { t \in {walk.low} : floor >= walk.low } = { t \in {walk.low} : t <= walk.tick }
       /\ { t \in {walk.high} : floor + TickSpacing <= walk.high }
            = { t \in {walk.high} : walk.tick < t }
  <2>1. /\ walk.low <= walk.tick <=> walk.low <= floor
        /\ walk.tick < walk.high <=> walk.high >= floor + TickSpacing
    BY <1>2, <1>4
  <2>2. /\ floor >= walk.low <=> walk.low <= floor
        /\ floor + TickSpacing <= walk.high <=> walk.high >= floor + TickSpacing
    BY <1>2, <1>3, <1>6
  <2> QED BY <2>1, <2>2
<1>11. QuoteTargets(Fill, walk.low, walk.high) = NextTargets
  <2>1. CASE walk.down
    BY <1>6, <1>7, <1>9, <1>10, <2>1 DEF QuoteTargets, NextTargets, floor
  <2>2. CASE ~ walk.down
    BY <1>6, <1>7, <1>9, <1>10, <2>2 DEF QuoteTargets, NextTargets, floor
  <2> QED BY <2>1, <2>2
<1> QED BY <1>9, <1>11

LEMMA OneTarget ==
  ASSUME NEW target \in NextTargets
  PROVE  NextTargets # {} /\ (CHOOSE t \in NextTargets : TRUE) = target
<1>1. \A t \in NextTargets : t = target
  BY DEF NextTargets
<1> HIDE DEF NextTargets
<1> QED BY <1>1

\* A round of the program's loop is a round of the quote's.
LEMMA QuoteFollowsRound ==
  ASSUME IInv, Advance, walk.high % TickSpacing = 0
  PROVE  QuoteStep(Fill, walk.limit, walk.low, walk.high) = Fill'
<1>1. PICK target \in NextTargets :
           LET s == Step(target) IN
           /\ walk.active /\ Running /\ ~ Refused(target)
           /\ walk'.down = walk.down
           /\ walk'.remaining = walk.remaining - s.in - s.fee
           /\ walk'.in = walk.in + s.in /\ walk'.out = walk.out + s.out
           /\ walk'.fee = walk.fee + s.fee
           /\ walk'.price = s.price
           /\ walk'.tick = TickAfter(target)
           /\ walk'.liquidity = LiquidityAfter(target)
           /\ walk'.crossings = (IF Crosses(target) THEN walk.crossings + 1 ELSE walk.crossings)
  BY RoundEffect
<1>2. TypeOK /\ OnItsWay
  BY DEF IInv
<1>3. /\ walk.remaining \in Nat /\ walk.liquidity \in Nat /\ walk.crossings \in Nat
      /\ walk.down \in BOOLEAN
  BY <1>1, <1>2, WalkFacts
<1>4. ~ QuoteDone(Fill, walk.limit)
  <2>1. /\ Fill.remaining = walk.remaining /\ Fill.price = walk.price
        /\ Fill.crossings = walk.crossings /\ ~ Fill.failed
    BY DEF Fill
  <2>2. MaxCrossings \in Nat
    BY Parameters
  <2> QED BY <1>1, <1>3, <2>1, <2>2 DEF QuoteDone, Running
<1>5. /\ QuoteListed(Fill, walk.low, walk.high) = InitializedAhead
      /\ QuoteTargets(Fill, walk.low, walk.high) = NextTargets
  BY <1>1, QuoteLooksAhead
<1>6. QuoteStep(Fill, walk.limit, walk.low, walk.high)
        = QuoteRound(Fill, target, walk.limit, walk.low, walk.high)
  BY <1>4, <1>5, OneTarget DEF QuoteStep
<1> DEFINE s == Step(target)
           net == IF ~Crosses(target) THEN 0
                  ELSE IF walk.down THEN -ticks[target].net ELSE ticks[target].net
<1>7. QuoteRound(Fill, target, walk.limit, walk.low, walk.high) =
        [Fill EXCEPT !.remaining = @ - s.in - s.fee,
                     !.in = @ + s.in, !.fee = @ + s.fee, !.out = @ + s.out,
                     !.price = s.price,
                     !.liquidity = @ + net,
                     !.failed = walk.liquidity + net < 0,
                     !.crossings = IF Crosses(target) THEN @ + 1 ELSE @,
                     !.tick = TickAfter(target)]
  <2>1. /\ Fill.down = walk.down /\ Fill.liquidity = walk.liquidity /\ Fill.price = walk.price
        /\ Fill.remaining = walk.remaining /\ Fill.tick = walk.tick
    BY DEF Fill
  <2> DEFINE bound == SqrtPrice[Clamp(target)]
             goal == IF Fill.down THEN MaxOf(bound, walk.limit) ELSE MinOf(bound, walk.limit)
             step == IF Fill.liquidity = 0
                     THEN [price |-> goal, in |-> 0, out |-> 0, fee |-> 0]
                     ELSE SwapStep(Fill.price, goal, Fill.liquidity, Fill.remaining, FeePips)
             arrives == step.price = bound
             crosses == arrives /\ target \in QuoteListed(Fill, walk.low, walk.high)
             gained == IF ~crosses THEN 0
                       ELSE IF Fill.down THEN -ticks[target].net ELSE ticks[target].net
             tick == IF arrives THEN IF Fill.down THEN target - 1 ELSE target
                     ELSE IF step.price # pool.price THEN TickAtSqrtPrice(step.price)
                     ELSE Fill.tick
  <2>2. QuoteRound(Fill, target, walk.limit, walk.low, walk.high) =
          [Fill EXCEPT !.remaining = @ - step.in - step.fee,
                       !.in = @ + step.in, !.fee = @ + step.fee, !.out = @ + step.out,
                       !.price = step.price,
                       !.liquidity = @ + gained,
                       !.failed = Fill.liquidity + gained < 0,
                       !.crossings = IF crosses THEN @ + 1 ELSE @,
                       !.tick = tick]
    <3> HIDE DEF Fill, s
    <3> QED BY Zenon DEF QuoteRound
  <2>3. step = s /\ bound = Bound(target)
    BY Zenon, <2>1 DEF Step, StepTowards, Bound
  <2> HIDE DEF Fill, s, step
  <2>4. arrives <=> Arrives(target)
    BY <2>3 DEF Arrives, s
  <2>5. crosses <=> Crosses(target)
    BY <1>5, <2>4 DEF Crosses
  <2> HIDE DEF arrives, crosses
  <2>6. gained = net
    BY <2>1, <2>5
  <2>7. tick = TickAfter(target)
    BY <2>1, <2>3, <2>4 DEF TickAfter, s
  <2> HIDE DEF gained, tick, net
  <2> QED BY <2>1, <2>2, <2>3, <2>5, <2>6, <2>7
<1>8. walk.liquidity + net = LiquidityAfter(target)
  <2>1. CASE ~ Crosses(target)
    BY <1>3, <2>1 DEF LiquidityAfter
  <2>2. CASE Crosses(target)
    <3>1. target \in Slots /\ walk.ticks[target].net \in Int
      BY <1>1, <1>2, <2>2, LiquidityAfterFacts
    <3>2. ticks[target].net = walk.ticks[target].net
      BY <1>1, <1>2, <3>1 DEF OnItsWay
    <3> QED BY <1>3, <2>2, <3>1, <3>2 DEF LiquidityAfter
  <2> QED BY <2>1, <2>2
<1>9. ~ (LiquidityAfter(target) < 0)
  BY <1>1 DEF Refused
<1> HIDE DEF s, net
<1>10. QuoteRound(Fill, target, walk.limit, walk.low, walk.high) =
         [down |-> walk.down, price |-> s.price, tick |-> TickAfter(target),
          liquidity |-> walk.liquidity + net, remaining |-> walk.remaining - s.in - s.fee,
          in |-> walk.in + s.in, out |-> walk.out + s.out, fee |-> walk.fee + s.fee,
          crossings |-> IF Crosses(target) THEN walk.crossings + 1 ELSE walk.crossings,
          failed |-> walk.liquidity + net < 0]
  <2> DEFINE falls == walk.liquidity + net < 0
             crossings == IF Crosses(target) THEN walk.crossings + 1 ELSE walk.crossings
  <2>1. QuoteRound(Fill, target, walk.limit, walk.low, walk.high) =
          [Fill EXCEPT !.remaining = walk.remaining - s.in - s.fee,
                       !.in = walk.in + s.in, !.fee = walk.fee + s.fee, !.out = walk.out + s.out,
                       !.price = s.price,
                       !.liquidity = walk.liquidity + net,
                       !.failed = falls,
                       !.crossings = crossings,
                       !.tick = TickAfter(target)]
    <3>1. /\ Fill.remaining = walk.remaining /\ Fill.in = walk.in /\ Fill.fee = walk.fee
          /\ Fill.out = walk.out /\ Fill.liquidity = walk.liquidity
          /\ Fill.crossings = walk.crossings
      BY DEF Fill
    <3> HIDE DEF Fill
    <3> QED BY <1>7, <3>1, Zenon
  <2> HIDE DEF falls, crossings
  <2> QED BY <2>1 DEF Fill, falls, crossings
<1>11. (walk.liquidity + net < 0) = FALSE
  BY <1>8, <1>9
<1> QED BY <1>1, <1>6, <1>8, <1>10, <1>11 DEF s, Fill

\* The rounds of the quote for the swap under way.
QuoteSoFar ==
  QuoteRounds(walk.down, walk.remaining + walk.in + walk.fee, walk.limit, walk.low, walk.high)

\* How far the swap has come from the tick where it started.
Passed == IF walk.down THEN pool.tick - walk.tick ELSE walk.tick - pool.tick

\* After some of its rounds the quote holds what the swap does; a swap that still
\* runs has passed a tick of the window in every one of them.
Followed ==
  walk.active =>
    /\ walk.high % TickSpacing = 0
    /\ walk.low <= pool.tick /\ pool.tick < walk.high
    /\ \E k \in Nat : /\ k <= walk.high - walk.low
                      /\ QuoteSoFar[k] = Fill
                      /\ Running => k <= Passed

LEMMA StartFollowed ==
  ASSUME IInv, NEW down \in BOOLEAN, NEW amount \in SwapAmounts, NEW given \in PriceLimits,
         NEW n \in 1 .. 3, StartSwap(down, amount, given, n)
  PROVE  Followed'
<1> DEFINE limit == DefaultLimit(down, given)
           window == Window(down, n)
           low == Min(window)
           high == Max(window) + Span
<1>1. /\ window \subseteq arrays
      /\ walk' = [active |-> TRUE, down |-> down, limit |-> limit, low |-> low, high |-> high,
                  remaining |-> amount, price |-> pool.price, tick |-> pool.tick,
                  liquidity |-> pool.liquidity, growth |-> pool.growth,
                  ticks |-> ticks, in |-> 0, out |-> 0, fee |-> 0,
                  crossings |-> 0, stalled |-> FALSE]
      /\ pool' = pool /\ ticks' = ticks
  BY DEF StartSwap
<1>2. pool.tick \in Int /\ arrays \subseteq Starts
  BY PoolFacts DEF IInv, TypeOK
<1>3. /\ low \in Int /\ high \in Int /\ high % TickSpacing = 0
      /\ low <= pool.tick /\ pool.tick < high
  BY <1>1, <1>2, WindowFacts
<1>4. amount \in Nat /\ amount + 0 + 0 = amount
  BY ClmmAssumption
<1> HIDE DEF limit, window, low, high
<1>5. /\ walk'.low = low /\ walk'.high = high /\ walk'.down = down /\ walk'.limit = limit
      /\ walk'.remaining = amount /\ walk'.in = 0 /\ walk'.fee = 0
      /\ walk'.tick = pool.tick
  BY <1>1
<1>6. QuoteSoFar' = QuoteRounds(down, amount, limit, low, high)
  <2>1. PICK bound, from, upTo : bound = limit /\ from = low /\ upTo = high
    OBVIOUS
  <2>2. /\ walk'.down = down /\ walk'.remaining + walk'.in + walk'.fee = amount
        /\ walk'.limit = bound /\ walk'.low = from /\ walk'.high = upTo
    BY <1>4, <1>5, <2>1
  <2>3. QuoteSoFar' = QuoteRounds(down, amount, bound, from, upTo)'
    BY Zenon, <2>2 DEF QuoteSoFar
  <2>4. QuoteRounds(down, amount, bound, from, upTo)'
          = QuoteRounds(down, amount, bound, from, upTo)
    BY <1>1, QuoteRoundsKept
  <2> QED BY <2>1, <2>3, <2>4
<1>7. QuoteRounds(down, amount, limit, low, high)[0] = QuoteStart(down, amount)
  BY QuoteUnfolds
<1>8. QuoteStart(down, amount) = Fill'
  BY <1>1 DEF QuoteStart, Fill
<1>9. 0 \in Nat /\ 0 <= high - low /\ 0 <= Passed'
  <2>1. pool'.tick = pool.tick
    BY <1>1
  <2> QED BY <1>2, <1>3, <1>5, <2>1 DEF Passed
<1>10. QuoteSoFar'[0] = Fill'
  BY <1>6, <1>7, <1>8
<1>11. \E k \in Nat : /\ k <= walk'.high - walk'.low
                      /\ QuoteSoFar'[k] = Fill'
                      /\ Running' => k <= Passed'
  BY <1>5, <1>9, <1>10
<1>12. walk'.low <= pool'.tick /\ pool'.tick < walk'.high /\ walk'.high % TickSpacing = 0
  BY <1>1, <1>3, <1>5
<1> QED BY <1>11, <1>12 DEF Followed

LEMMA AdvanceFollowed ==
  ASSUME IInv, Followed, Advance
  PROVE  Followed'
<1>1. PICK target \in NextTargets :
           LET s == Step(target) IN
           /\ walk.active /\ Running
           /\ walk' \in Walk
           /\ walk'.down = walk.down /\ walk'.limit = walk.limit
           /\ walk'.low = walk.low /\ walk'.high = walk.high
           /\ walk'.remaining = walk.remaining - s.in - s.fee
           /\ walk'.in = walk.in + s.in
           /\ walk'.fee = walk.fee + s.fee
           /\ walk'.price = s.price
           /\ walk'.tick = TickAfter(target)
           /\ pool' = pool /\ ticks' = ticks
  BY RoundEffect
<1>2. TypeOK
  BY DEF IInv
<1>3. /\ walk.low \in Int /\ walk.high \in Int /\ walk.tick \in Int /\ walk.down \in BOOLEAN
      /\ walk.remaining \in Nat /\ walk.in \in Nat /\ walk.fee \in Nat /\ pool.tick \in Int
  BY <1>1, <1>2, WalkFacts, PoolFacts
<1>4. /\ target \in Int
      /\ walk.down => target <= walk.tick /\ walk.low <= target
      /\ ~ walk.down => walk.tick < target /\ target <= walk.high
  <2>1. /\ target \in Int
        /\ walk.down => target <= walk.tick
        /\ ~ walk.down => walk.tick < target
        /\ target \notin InitializedAhead => target = IF walk.down THEN walk.low ELSE walk.high
    BY <1>1, <1>2, TargetFacts
  <2>2. target \in InitializedAhead => walk.low <= target /\ target < walk.high
    BY DEF InitializedAhead, Ahead
  <2> QED BY <1>3, <2>1, <2>2
<1>5. PICK k \in Nat : /\ walk.low <= pool.tick /\ pool.tick < walk.high
                       /\ walk.high % TickSpacing = 0
                       /\ QuoteSoFar[k] = Fill /\ k <= Passed
  BY <1>1 DEF Followed
<1>6. QuoteSoFar[k + 1] = Fill'
  <2>1. QuoteSoFar[k + 1] = QuoteStep(QuoteSoFar[k], walk.limit, walk.low, walk.high)
    BY QuoteUnfolds DEF QuoteSoFar
  <2> QED BY <1>5, <2>1, QuoteFollowsRound
<1>7. QuoteSoFar' = QuoteSoFar
  <2>1. PICK s : s = Step(target)
    OBVIOUS
  <2>2. s.in \in Nat /\ s.fee \in Nat
    <3>1. PICK b : b = Bound(target)
      OBVIOUS
    <3> QED BY <1>1, <2>1, <3>1, RoundFacts
  <2>3. walk'.remaining + walk'.in + walk'.fee = walk.remaining + walk.in + walk.fee
    <3>1. /\ walk'.remaining = walk.remaining - s.in - s.fee
          /\ walk'.in = walk.in + s.in /\ walk'.fee = walk.fee + s.fee
      BY <1>1, <2>1
    <3> QED BY <1>3, <2>2, <3>1
  <2> DEFINE amount == walk.remaining + walk.in + walk.fee
  <2> HIDE DEF amount
  <2>4. QuoteSoFar = QuoteRounds(walk.down, amount, walk.limit, walk.low, walk.high)
    BY DEF QuoteSoFar, amount
  <2>5. PICK down, total, limit, low, high :
          /\ down = walk.down /\ total = amount /\ limit = walk.limit
          /\ low = walk.low /\ high = walk.high
    OBVIOUS
  <2>6. /\ walk'.down = down /\ walk'.limit = limit /\ walk'.low = low /\ walk'.high = high
        /\ walk'.remaining + walk'.in + walk'.fee = total
    BY <1>1, <2>3, <2>5 DEF amount
  <2>7. QuoteSoFar' = QuoteRounds(down, total, limit, low, high)'
    BY Zenon, <2>6 DEF QuoteSoFar
  <2>8. QuoteRounds(down, total, limit, low, high)' = QuoteRounds(down, total, limit, low, high)
    BY <1>1, QuoteRoundsKept
  <2> QED BY <2>4, <2>5, <2>7, <2>8
<1>8. k + 1 \in Nat /\ k + 1 <= walk.high - walk.low
  BY <1>3, <1>4, <1>5 DEF Passed
<1>9. Running' => k + 1 <= Passed'
  <2> SUFFICES ASSUME Running' PROVE k + 1 <= Passed'
    OBVIOUS
  <2>1. Arrives(target)
    <3> SUFFICES ASSUME ~ Arrives(target) PROVE FALSE
      OBVIOUS
    <3>1. PICK s : s = Step(target)
      OBVIOUS
    <3>2. PICK b : b = Bound(target)
      OBVIOUS
    <3>3. s.price = walk.limit \/ s.in + s.fee = walk.remaining
      BY <1>1, <3>1, <3>2, RoundFacts DEF Arrives
    <3>4. s.in \in Nat /\ s.fee \in Nat
      BY <1>1, <3>1, <3>2, RoundFacts
    <3>5. walk'.remaining = 0 \/ walk'.price = walk'.limit
      BY <1>1, <1>3, <3>1, <3>3, <3>4
    <3> QED BY <3>5 DEF Running
  <2>2. walk'.tick = IF walk.down THEN target - 1 ELSE target
    BY <1>1, <2>1 DEF TickAfter
  <2>3. Passed' = IF walk.down THEN pool.tick - walk'.tick ELSE walk'.tick - pool.tick
    BY <1>1 DEF Passed
  <2>4. Passed = IF walk.down THEN pool.tick - walk.tick ELSE walk.tick - pool.tick
    BY DEF Passed
  <2>5. walk'.tick \in Int
    BY <1>3, <1>4, <2>2
  <2> QED BY <1>3, <1>4, <1>5, <2>2, <2>3, <2>4, <2>5
<1>10. \E j \in Nat : /\ j <= walk'.high - walk'.low
                      /\ QuoteSoFar'[j] = Fill'
                      /\ Running' => j <= Passed'
  BY <1>1, <1>6, <1>7, <1>8, <1>9
<1>11. walk'.low <= pool'.tick /\ pool'.tick < walk'.high /\ walk'.high % TickSpacing = 0
  BY <1>1, <1>5
<1> QED BY <1>10, <1>11 DEF Followed

\* Every swap takes the rounds of its quote, in their order.
THEOREM FollowedTheorem ==
  Spec => []Followed
<1>1. Init => Followed
  BY DEF Init, Idle, Followed
<1>2. IInv /\ Followed /\ [Next]_vars => Followed'
  <2> SUFFICES ASSUME IInv, Followed, [Next]_vars
               PROVE  Followed'
    OBVIOUS
  <2>1. ASSUME NEW down \in BOOLEAN, NEW amount \in SwapAmounts, NEW limit \in PriceLimits,
               NEW n \in 1 .. 3, StartSwap(down, amount, limit, n)
        PROVE  Followed'
    BY <2>1, StartFollowed
  <2>2. CASE Advance
    BY <2>2, AdvanceFollowed
  <2>3. CASE SettleSwap \/ RevertSwap
    BY <2>3 DEF SettleSwap, RevertSwap, Idle, Followed
  <2>4. ASSUME ~ walk.active, walk' = walk PROVE Followed'
    BY <2>4 DEF Followed
  <2>5. ASSUME NEW s \in Starts, InitTickArray(s) PROVE Followed'
    BY <2>4, <2>5 DEF InitTickArray
  <2>6. ASSUME NEW r \in Positions, NEW l,
               \/ OpenPosition(r) \/ ClosePosition(r) \/ Collect(r)
               \/ IncreaseLiquidity(r, l) \/ DecreaseLiquidity(r, l)
        PROVE  Followed'
    BY <2>4, <2>6 DEF OpenPosition, ClosePosition, Collect, IncreaseLiquidity,
       DecreaseLiquidity, Modify
  <2>7. CASE UNCHANGED vars
    <3>1. walk' = walk /\ pool' = pool /\ ticks' = ticks
      BY <2>7 DEF vars
    <3>2. PICK down, amount, limit, low, high :
            /\ down = walk.down /\ amount = walk.remaining + walk.in + walk.fee
            /\ limit = walk.limit /\ low = walk.low /\ high = walk.high
      OBVIOUS
    <3>3. QuoteSoFar = QuoteRounds(down, amount, limit, low, high)
      BY <3>2 DEF QuoteSoFar
    <3>4. QuoteSoFar' = QuoteRounds(down, amount, limit, low, high)'
      BY Zenon, <3>1, <3>2 DEF QuoteSoFar
    <3>5. QuoteSoFar' = QuoteSoFar
      BY <3>1, <3>3, <3>4, QuoteRoundsKept
    <3>6. Fill' = Fill /\ Passed' = Passed /\ (Running' <=> Running)
      BY <3>1 DEF Fill, Passed, Running
    <3> QED BY <3>1, <3>5, <3>6 DEF Followed
  <2> QED BY <2>1, <2>2, <2>3, <2>5, <2>6, <2>7 DEF Next
<1> QED BY <1>1, <1>2, ClmmInvariant, PTL DEF Spec

\* The quote of quoteClmmExactInSync is what the swap settles, to the last unit,
\* also where the limit or the cap on crossings cuts it short; its tick is the
\* settled one before the clamp.
THEOREM QuoteIsFillTheorem ==
  Spec => []QuoteIsFill
<1>1. ASSUME IInv, Followed
      PROVE  QuoteIsFill
  <2> SUFFICES ASSUME walk.active, ~ Running
               PROVE  QuoteOfWalk = Fill
    <3>1. ASSUME QuoteOfWalk = Fill, NEW f \in {"in", "out", "fee", "price", "remaining"}
          PROVE  QuoteOfWalk[f] = walk[f]
      BY <3>1 DEF Fill
    <3>2. ~ Fill.failed /\ Fill.tick = walk.tick
      BY DEF Fill
    <3> QED BY <3>1, <3>2 DEF QuoteIsFill, EndTick
  <2>1. PICK k \in Nat : k <= walk.high - walk.low /\ QuoteSoFar[k] = Fill
    BY <1>1 DEF Followed
  <2>2. TypeOK
    BY <1>1 DEF IInv
  <2>3. /\ walk.remaining \in Nat /\ walk.crossings \in Nat /\ MaxCrossings \in Nat
        /\ walk.low \in Int /\ walk.high \in Int
    BY <2>2, WalkFacts, Parameters
  <2>4. QuoteDone(Fill, walk.limit)
    <3>1. /\ Fill.remaining = walk.remaining /\ Fill.price = walk.price
          /\ Fill.crossings = walk.crossings
      BY DEF Fill
    <3> QED BY <2>3, <3>1 DEF QuoteDone, Running
  <2>5. walk.high - walk.low \in Nat
    BY <2>1, <2>3
  <2>6. QuoteSoFar[walk.high - walk.low] = QuoteSoFar[k]
    <3>1. QuoteDone(QuoteSoFar[k], walk.limit)
      BY <2>1, <2>4
    <3> QED BY <2>1, <2>5, <3>1, QuoteRests DEF QuoteSoFar
  <2>7. QuoteOfWalk = QuoteSoFar[walk.high - walk.low]
    BY DEF QuoteOfWalk, Quote, QuoteSoFar
  <2> QED BY <2>1, <2>6, <2>7
<1> QED BY <1>1, ClmmInvariant, FollowedTheorem, PTL
=============================================================================
