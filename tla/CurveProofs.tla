---------------------------- MODULE CurveProofs ----------------------------
(***************************************************************************)
(* What the curve's operators return, for all amounts, reserves and fees.  *)
(* The pool's safety rests on three facts: a fee is part of the amount it  *)
(* is charged on, an output is part of the reserve it is paid from, and    *)
(* the product of the reserves does not shrink.                            *)
(***************************************************************************)
EXTENDS Curve, TLAPS

LEMMA DivFacts ==
  ASSUME NEW x \in Nat, NEW y \in Nat, y > 0
  PROVE  /\ x \div y \in Nat
         /\ y * (x \div y) <= x
         /\ x < y * (x \div y) + y
  BY Z3

LEMMA CeilDivFacts ==
  ASSUME NEW x \in Nat, NEW y \in Nat, y > 0
  PROVE  /\ CeilDiv(x, y) \in Nat
         /\ x <= y * CeilDiv(x, y)
         /\ x > 0 => CeilDiv(x, y) > 0
<1>1. x + y - 1 \in Nat
  OBVIOUS
<1>2. /\ (x + y - 1) \div y \in Nat
      /\ x + y - 1 < y * ((x + y - 1) \div y) + y
  BY <1>1, DivFacts
<1>3. x <= y * ((x + y - 1) \div y)
  BY <1>2
<1> QED BY <1>2, <1>3 DEF CeilDiv

\* Rounding up goes no further than the next multiple.
LEMMA CeilDivLeast ==
  ASSUME NEW x \in Nat, NEW y \in Nat, NEW z \in Nat, y > 0, x <= y * z
  PROVE  CeilDiv(x, y) <= z
<1> DEFINE c == (x + y - 1) \div y
<1>1. x + y - 1 \in Nat
  OBVIOUS
<1>2. c \in Nat /\ y * c <= x + y - 1
  BY <1>1, DivFacts
<1> HIDE DEF c
<1>3. y * c < y * (z + 1)
  BY <1>2
<1>4. c < z + 1
  BY <1>2, <1>3, Z3
<1> QED BY <1>2, <1>4 DEF CeilDiv, c

\* A product of naturals is monotonic.
LEMMA MulMono ==
  ASSUME NEW a \in Nat, NEW b \in Nat, NEW c \in Nat, a <= b
  PROVE  a * c <= b * c
  BY Z3

\* A valid fee is part of the amount: the minimum fee of one included.
LEMMA FeeWithinAmount ==
  ASSUME NEW amount \in Nat, NEW f \in Fraction, ValidFraction(f)
  PROVE  /\ CalculateFee(amount, f) \in Nat
         /\ CalculateFee(amount, f) <= amount
<1>1. CASE f.num = 0 \/ amount = 0
  BY <1>1 DEF CalculateFee
<1>2. CASE f.num # 0 /\ amount # 0
  <2>1. f.num \in Nat /\ f.den \in Nat /\ f.num < f.den /\ f.den > 0
    BY <1>2 DEF Fraction, ValidFraction
  <2> DEFINE t == (amount * f.num) \div f.den
  <2>2. t \in Nat /\ f.den * t <= amount * f.num
    BY <2>1, DivFacts
  <2>3. amount * f.num <= f.den * amount
    BY <2>1, MulMono
  <2>4. f.den * t <= f.den * amount
    BY <2>1, <2>2, <2>3
  <2>5. t <= amount
    BY <2>1, <2>2, <2>4, Z3
  <2> HIDE DEF t
  <2>6. CalculateFee(amount, f) = MaxOf(1, t)
    BY <1>2 DEF CalculateFee, t
  <2> QED BY <1>2, <2>2, <2>5, <2>6 DEF MaxOf
<1> QED BY <1>1, <1>2

\* Whatever fraction two valid ones add up to, the gross amount is a natural.
LEMMA PreFeeIsNat ==
  ASSUME NEW post \in Nat, NEW f \in Fraction, NEW gross \in PreFeeAmount(post, f)
  PROVE  gross \in Nat
<1> USE DEF PreFeeAmount, Some, None, Fraction
<1>1. CASE f.num < f.den /\ f.num # 0
  <2>1. post * f.den \in Nat /\ f.den - f.num \in Nat /\ f.den - f.num > 0
    BY <1>1
  <2>2. CeilDiv(post * f.den, f.den - f.num) \in Nat
    BY <2>1, CeilDivFacts
  <2> QED BY <1>1, <2>2
<1>2. CASE ~(f.num < f.den /\ f.num # 0)
  BY <1>2
<1> QED BY <1>1, <1>2

LEMMA PreTradingFeeIsNat ==
  ASSUME NEW post \in Nat, NEW fees \in FeeSchedule,
         NEW gross \in PreTradingFeeAmount(post, fees)
  PROVE  gross \in Nat
<1> DEFINE sum == [num |-> fees.trade.num * fees.owner.den + fees.owner.num * fees.trade.den,
                   den |-> fees.trade.den * fees.owner.den]
<1>1. fees.trade \in Fraction /\ fees.owner \in Fraction
  BY DEF FeeSchedule
<1>2. sum \in Fraction
  BY <1>1 DEF Fraction
<1>3. \/ gross \in PreFeeAmount(post, fees.trade)
      \/ gross \in PreFeeAmount(post, fees.owner)
      \/ gross \in PreFeeAmount(post, sum)
  BY DEF PreTradingFeeAmount
<1> QED BY <1>1, <1>2, <1>3, PreFeeIsNat

-----------------------------------------------------------------------------
\* The curve pays out less than the reserve and leaves a product of the
\* reserves that is at least the product before.
LEMMA CpSwapFacts ==
  ASSUME NEW amount \in Nat, NEW source \in Nat, NEW dest \in Nat,
         NEW r \in CpSwap(amount, source, dest)
  PROVE  /\ r.source \in Nat /\ r.source <= amount
         /\ r.dest \in Nat /\ 0 < r.dest /\ r.dest <= dest
         /\ source * dest <= (source + r.source) * (dest - r.dest)
<1> DEFINE k == source * dest
           s == source + amount
           c == CeilDiv(k, s)
<1>1. PICK q \in CheckedCeilDiv(k, s) :
        /\ q.quotient < dest /\ q.divisor >= source
        /\ r = [source |-> q.divisor - source, dest |-> dest - q.quotient]
  BY DEF CpSwap
<1>2. k \in Nat /\ s \in Nat
  OBVIOUS
<1>3. s > 0 /\ k \div s # 0 /\ q = [quotient |-> c, divisor |-> CeilDiv(k, c)]
  BY <1>1, <1>2 DEF CheckedCeilDiv, None, Some
<1>4. k > 0
  BY <1>2, <1>3, DivFacts
<1>5. c \in Nat /\ c > 0
  BY <1>2, <1>3, <1>4, CeilDivFacts
<1>6. CeilDiv(k, c) \in Nat /\ k <= c * CeilDiv(k, c)
  BY <1>2, <1>5, CeilDivFacts
<1>9. CeilDiv(k, c) <= s
  <2>1. k <= s * c
    BY <1>2, <1>3, CeilDivFacts
  <2>2. s * c = c * s
    BY <1>2, <1>5
  <2> HIDE DEF c, k, s
  <2> QED BY <1>2, <1>5, <2>1, <2>2, CeilDivLeast
<1> HIDE DEF c, k
<1>7. /\ r.source = CeilDiv(k, c) - source /\ r.dest = dest - c
      /\ c < dest /\ CeilDiv(k, c) >= source
  BY <1>1, <1>3
<1>8. (source + r.source) * (dest - r.dest) = CeilDiv(k, c) * c
  BY <1>5, <1>6, <1>7
<1> QED BY <1>5, <1>6, <1>7, <1>8, <1>9 DEF k

\* A swap that can leave a token of the other side is not refused, and gives all
\* that the product of the reserves allows.
LEMMA CpSwapGives ==
  ASSUME NEW amount \in Nat, NEW source \in Nat, NEW dest \in Nat, NEW least \in Nat,
         least > 0, least <= dest,
         source + amount > 0, source + amount <= source * dest,
         source * dest <= (source + amount) * (dest - least)
  PROVE  \E r \in CpSwap(amount, source, dest) : r.dest >= least
<1> DEFINE k == source * dest
           y == source + amount
           c == CeilDiv(k, y)
           d == CeilDiv(k, c)
<1>1. k \in Nat /\ y \in Nat /\ y > 0 /\ y <= k /\ dest - least \in Nat
  OBVIOUS
<1>2. dest > 0
  OBVIOUS
<1>3. c \in Nat /\ c > 0 /\ c <= dest - least
  <2> HIDE DEF k, y
  <2>1. k <= y * (dest - least)
    BY DEF k, y
  <2> QED BY <1>1, <2>1, CeilDivFacts, CeilDivLeast
<1>4. d \in Nat /\ k <= c * d
  <2> HIDE DEF k, y, c
  <2> QED BY <1>1, <1>3, CeilDivFacts
<1>5. k \div y # 0
  <2> HIDE DEF k, y
  <2>1. k \div y \in Nat /\ k < y * (k \div y) + y
    BY <1>1, DivFacts
  <2> QED BY <1>1, <2>1
<1>6. d >= source
  <2> HIDE DEF d, c
  <2>1. c * d <= dest * d
    BY <1>3, <1>4, MulMono
  <2>2. dest * source <= dest * d
    <3>1. k = dest * source /\ c * d \in Int /\ dest * d \in Int
      BY <1>3, <1>4
    <3> QED BY <1>1, <1>4, <2>1, <3>1
  <2> QED BY <1>2, <1>4, <2>2, Z3
<1> HIDE DEF c, d
<1>7. [quotient |-> c, divisor |-> d]
        \in { q \in CheckedCeilDiv(k, y) : q.quotient < dest /\ q.divisor >= source }
  BY <1>1, <1>3, <1>5, <1>6 DEF CheckedCeilDiv, Some, c, d
<1>8. [source |-> d - source, dest |-> dest - c] \in CpSwap(amount, source, dest)
  BY <1>7 DEF CpSwap
<1> QED BY <1>3, <1>8

LEMMA CpSwapExactOutFacts ==
  ASSUME NEW out \in Nat, NEW source \in Nat, NEW dest \in Nat,
         NEW r \in CpSwapExactOut(out, source, dest)
  PROVE  /\ r.source \in Nat /\ r.source > 0
         /\ r.dest = out /\ out < dest
         /\ source * dest <= (source + r.source) * (dest - r.dest)
<1> DEFINE k == source * dest
           d == dest - out
           c == CeilDiv(k, d)
<1>1. out < dest
  BY DEF CpSwapExactOut, None
<1>2. k \in Nat /\ d \in Nat /\ d > 0
  BY <1>1
<1>3. PICK q \in CheckedCeilDiv(k, d) :
        q.quotient > source /\ r = [source |-> q.quotient - source, dest |-> out]
  BY <1>1 DEF CpSwapExactOut
<1>4. q.quotient = c
  BY <1>2, <1>3 DEF CheckedCeilDiv, None, Some
<1>5. c \in Nat /\ k <= d * c
  BY <1>2, CeilDivFacts
<1> HIDE DEF c
<1>6. r.source = c - source /\ r.dest = out /\ c > source
  BY <1>3, <1>4
<1>7. (source + r.source) * (dest - r.dest) = d * c
  BY <1>5, <1>6
<1> QED BY <1>1, <1>5, <1>6, <1>7

-----------------------------------------------------------------------------
\* The gross-up of an exact-output swap is enough for the liquidity providers:
\* what is left after the protocol's fee is the curve input or more.  The
\* minimum fee of one included; the sum of the two fractions must not be one.
WholeFee(fees) ==
  /\ fees.trade.num # 0 /\ fees.owner.num # 0
  /\ fees.trade.num * fees.owner.den + fees.owner.num * fees.trade.den
       = fees.trade.den * fees.owner.den

LEMMA PreFeeFacts ==
  ASSUME NEW post \in Nat, NEW f \in Fraction, f.num # 0, f.num # f.den, f.den # 0,
         post > 0, NEW gross \in PreFeeAmount(post, f)
  PROVE  /\ f.num < f.den
         /\ post * f.den <= gross * (f.den - f.num)
<1>1. f.num \in Nat /\ f.den \in Nat
  BY DEF Fraction
<1>2. f.num < f.den /\ gross = CeilDiv(post * f.den, f.den - f.num)
  BY <1>1 DEF PreFeeAmount, None, Some
<1>3. post * f.den \in Nat /\ f.den - f.num \in Nat /\ f.den - f.num > 0
  BY <1>1, <1>2
<1>4. gross \in Nat /\ post * f.den <= (f.den - f.num) * gross
  BY <1>2, <1>3, CeilDivFacts
<1> QED BY <1>1, <1>2, <1>3, <1>4

LEMMA FeeOfGross ==
  ASSUME NEW post \in Nat, NEW gross \in Nat, NEW f \in Fraction, ValidFraction(f),
         f.num # 0, post > 0, post * f.den <= gross * (f.den - f.num)
  PROVE  post <= gross - CalculateFee(gross, f)
<1> DEFINE t == (gross * f.num) \div f.den
<1>1. f.num \in Nat /\ f.den \in Nat /\ f.num > 0 /\ f.num < f.den
  BY DEF Fraction, ValidFraction
<1>2. gross * f.num \in Nat /\ t \in Nat /\ f.den * t <= gross * f.num
  BY <1>1, DivFacts
<1> HIDE DEF t
<1>3. post * f.den <= (gross - t) * f.den
  BY <1>1, <1>2
<1>4. post <= gross - t
  <2> SUFFICES ASSUME gross - t < post PROVE FALSE
    BY <1>2
  <2>1. (gross - t + 1) * f.den <= post * f.den
    BY <1>1, <1>2, Z3
  <2> QED BY <1>1, <1>2, <1>3, <2>1
<1>5. post < gross
  <2> SUFFICES ASSUME gross <= post PROVE FALSE
    OBVIOUS
  <2>1. gross * (f.den - f.num) <= post * (f.den - f.num)
    BY <1>1, MulMono
  <2>2. post * (f.den - f.num) < post * f.den
    BY <1>1, Z3
  <2> QED BY <1>1, <2>1, <2>2
<1>6. CalculateFee(gross, f) = MaxOf(1, t)
  BY <1>5 DEF CalculateFee, t
<1> QED BY <1>2, <1>4, <1>5, <1>6 DEF MaxOf

LEMMA GrossCoversPost ==
  ASSUME NEW post \in Nat, NEW fees \in FeeSchedule, ValidFees(fees), ~WholeFee(fees),
         NEW gross \in PreTradingFeeAmount(post, fees)
  PROVE  /\ gross \in Nat
         /\ OwnerTradingFee(gross, fees) \in Nat
         /\ post <= gross - OwnerTradingFee(gross, fees)
<1> DEFINE t == fees.trade
           o == fees.owner
           sum == [num |-> t.num * o.den + o.num * t.den, den |-> t.den * o.den]
<1>1. /\ t \in Fraction /\ t.num \in Nat /\ t.den \in Nat /\ ValidFraction(t)
      /\ o \in Fraction /\ o.num \in Nat /\ o.den \in Nat /\ ValidFraction(o)
  BY DEF FeeSchedule, Fraction, ValidFees
<1>2. gross \in Nat
  BY PreTradingFeeIsNat
<1>3. OwnerTradingFee(gross, fees) \in Nat /\ OwnerTradingFee(gross, fees) <= gross
  BY <1>1, <1>2, FeeWithinAmount DEF OwnerTradingFee
<1>4. CASE post = 0
  BY <1>2, <1>3, <1>4
<1>5. CASE post > 0 /\ t.num = 0
  <2>1. gross \in PreFeeAmount(post, o)
    BY <1>5 DEF PreTradingFeeAmount
  <2>2. CASE o.num = 0
    BY <1>2, <2>1, <2>2 DEF PreFeeAmount, Some, OwnerTradingFee, CalculateFee
  <2>3. CASE o.num # 0
    <3>1. post * o.den <= gross * (o.den - o.num)
      BY <1>1, <1>5, <2>1, <2>3, PreFeeFacts DEF ValidFraction
    <3> QED BY <1>1, <1>2, <1>3, <1>5, <2>3, <3>1, FeeOfGross DEF OwnerTradingFee
  <2> QED BY <2>2, <2>3
<1>6. CASE post > 0 /\ t.num # 0 /\ o.num = 0
  <2>1. t.den > t.num /\ gross \in PreFeeAmount(post, t)
    BY <1>1, <1>6 DEF PreTradingFeeAmount, ValidFraction
  <2>2. post * t.den <= gross * (t.den - t.num)
    BY <1>1, <1>6, <2>1, PreFeeFacts
  <2>3. post <= gross - CalculateFee(gross, t)
    BY <1>1, <1>2, <1>6, <2>2, FeeOfGross
  <2>4. CalculateFee(gross, t) \in Nat
    BY <1>1, <1>2, FeeWithinAmount
  <2>5. OwnerTradingFee(gross, fees) = 0
    BY <1>6 DEF OwnerTradingFee, CalculateFee
  <2> QED BY <1>2, <2>3, <2>4, <2>5
<1>7. CASE post > 0 /\ t.num # 0 /\ o.num # 0
  <2>1. t.den > t.num /\ o.den > o.num /\ t.num > 0 /\ o.num > 0
    BY <1>1, <1>7 DEF ValidFraction
  <2>2. gross \in PreFeeAmount(post, sum)
    BY <1>1, <1>7, <2>1 DEF PreTradingFeeAmount
  <2>3. sum \in Fraction /\ sum.num # 0 /\ sum.den # 0 /\ sum.num # sum.den
    <3>1. t.num * o.den \in Nat /\ o.num * t.den \in Nat /\ t.den * o.den \in Nat
      BY <1>1
    <3>2. t.num * o.den > 0 /\ t.den * o.den > 0
      BY <1>1, <2>1, Z3
    <3> QED BY <1>7, <3>1, <3>2 DEF Fraction, WholeFee
  <2>4. sum.num < sum.den /\ post * sum.den <= gross * (sum.den - sum.num)
    BY <1>7, <2>2, <2>3, PreFeeFacts
  <2>5. t.den * (post * o.den) <= t.den * (gross * (o.den - o.num))
    <3>1. post * sum.den = t.den * (post * o.den)
      BY <1>1
    <3>2. gross * (sum.den - sum.num)
            = t.den * (gross * (o.den - o.num)) - gross * (t.num * o.den)
      BY <1>1, <1>2
    <3>3. gross * (t.num * o.den) >= 0
      BY <1>1, <1>2, Z3
    <3> DEFINE x == post * sum.den
               y == gross * (sum.den - sum.num)
               v == t.den * (gross * (o.den - o.num))
               w == gross * (t.num * o.den)
    <3>4. v \in Int /\ w \in Int
      BY <1>1, <1>2
    <3>5. x <= y /\ x = t.den * (post * o.den) /\ y = v - w /\ w >= 0
      BY <2>4, <3>1, <3>2, <3>3
    <3> HIDE DEF x, y, v, w
    <3>6. x <= v
      BY <3>4, <3>5
    <3> QED BY <3>5, <3>6 DEF v
  <2>6. post * o.den <= gross * (o.den - o.num)
    <3> DEFINE x == post * o.den
               y == gross * (o.den - o.num)
    <3>1. x \in Int /\ y \in Int /\ t.den \in Nat /\ t.den > 0
      BY <1>1, <1>2, <2>1
    <3>2. t.den * x <= t.den * y
      BY <2>5
    <3> HIDE DEF x, y
    <3>3. x <= y
      BY <3>1, <3>2, Z3
    <3> QED BY <3>3 DEF x, y
  <2> QED BY <1>1, <1>2, <1>3, <1>7, <2>6, FeeOfGross DEF OwnerTradingFee
<1> QED BY <1>1, <1>4, <1>5, <1>6, <1>7

-----------------------------------------------------------------------------
\* What the four operators of base.rs promise the pool.  A product below is
\* the product of the LP-owned reserves before and after.
LEMMA SwapFacts ==
  ASSUME NEW amount \in Nat, NEW source \in Nat, NEW dest \in Nat,
         NEW fees \in FeeSchedule, ValidFees(fees),
         NEW q \in Swap(amount, source, dest, fees)
  PROVE  /\ q.source \in Nat /\ q.source <= amount
         /\ q.ownerFee \in Nat /\ q.ownerFee <= q.source
         /\ q.dest \in Nat /\ q.dest <= dest
         /\ source * dest <= (source + (q.source - q.ownerFee)) * (dest - q.dest)
<1> DEFINE tf == TradingFee(amount, fees)
           of == OwnerTradingFee(amount, fees)
<1>1. tf \in Nat /\ of \in Nat
  BY FeeWithinAmount DEF TradingFee, OwnerTradingFee, ValidFees, FeeSchedule
<1>2. TotalFees(amount, fees) = tf + of /\ tf + of <= amount
  BY <1>1 DEF TotalFees, Swap, None
<1>3. PICK r \in CpSwap(amount - (tf + of), source, dest) :
        q = [source |-> r.source + (tf + of), dest |-> r.dest, ownerFee |-> of]
  BY <1>1, <1>2 DEF Swap
<1>4. amount - (tf + of) \in Nat
  BY <1>1, <1>2
<1> HIDE DEF tf, of
<1>5. /\ r.source \in Nat /\ r.source <= amount - (tf + of)
      /\ r.dest \in Nat /\ r.dest <= dest
      /\ source * dest <= (source + r.source) * (dest - r.dest)
  BY <1>4, CpSwapFacts
<1>6. q.source = r.source + (tf + of) /\ q.dest = r.dest /\ q.ownerFee = of
  BY <1>3
<1>7. (source + r.source) * (dest - r.dest)
        <= (source + (q.source - q.ownerFee)) * (dest - q.dest)
  <2>1. source + r.source <= source + (q.source - q.ownerFee)
    BY <1>1, <1>5, <1>6
  <2> QED BY <1>1, <1>5, <1>6, <2>1, MulMono
<1>8. /\ (source + r.source) * (dest - r.dest) \in Int
      /\ (source + (q.source - q.ownerFee)) * (dest - q.dest) \in Int
  BY <1>1, <1>5, <1>6
<1> QED BY <1>1, <1>5, <1>6, <1>7, <1>8

LEMMA SwapForExactOutFacts ==
  ASSUME NEW out \in Nat, NEW source \in Nat, NEW dest \in Nat,
         NEW fees \in FeeSchedule, ValidFees(fees),
         NEW q \in SwapForExactOut(out, source, dest, fees)
  PROVE  /\ q.source \in Nat /\ q.ownerFee \in Nat /\ q.ownerFee <= q.source
         /\ q.dest \in Nat /\ q.dest <= dest
         /\ ~WholeFee(fees) =>
              source * dest <= (source + (q.source - q.ownerFee)) * (dest - q.dest)
<1>1. PICK r \in CpSwapExactOut(out, source, dest) :
        \E gross \in PreTradingFeeAmount(r.source, fees) :
          q = [source |-> gross, dest |-> r.dest,
               ownerFee |-> OwnerTradingFee(gross, fees)]
  BY DEF SwapForExactOut
<1>2. PICK gross \in PreTradingFeeAmount(r.source, fees) :
        q = [source |-> gross, dest |-> r.dest,
             ownerFee |-> OwnerTradingFee(gross, fees)]
  BY <1>1
<1>3. /\ r.source \in Nat
      /\ r.dest \in Nat /\ r.dest <= dest
      /\ source * dest <= (source + r.source) * (dest - r.dest)
  BY CpSwapExactOutFacts
<1>4. gross \in Nat
  BY <1>3, PreTradingFeeIsNat
<1>5. OwnerTradingFee(gross, fees) \in Nat /\ OwnerTradingFee(gross, fees) <= gross
  BY <1>4, FeeWithinAmount DEF OwnerTradingFee, ValidFees, FeeSchedule
<1>6. ASSUME ~WholeFee(fees)
      PROVE  source * dest <= (source + (q.source - q.ownerFee)) * (dest - q.dest)
  <2>1. r.source <= q.source - q.ownerFee
    BY <1>2, <1>3, <1>6, GrossCoversPost
  <2> DEFINE x == source + r.source
             y == source + (q.source - q.ownerFee)
             z == dest - q.dest
  <2>2. x \in Nat /\ y \in Nat /\ z \in Nat /\ x <= y
    BY <1>2, <1>3, <1>4, <1>5, <2>1
  <2>3. source * dest <= x * z
    BY <1>2, <1>3
  <2> HIDE DEF x, y, z
  <2>4. x * z <= y * z /\ x * z \in Int /\ y * z \in Int
    BY <2>2, MulMono
  <2>5. source * dest <= y * z
    BY <2>3, <2>4
  <2> QED BY <2>5 DEF y, z
<1> QED BY <1>2, <1>3, <1>4, <1>5, <1>6

LEMMA PoolTokensFacts ==
  ASSUME NEW tokens \in Nat, NEW total \in Nat, NEW S, NEW reserve \in [S -> Nat],
         NEW roundUp \in BOOLEAN, NEW side \in S,
         NEW pay \in PoolTokensToTradingTokens(tokens, total, reserve, roundUp)
  PROVE  /\ total > 0
         /\ pay \in [S -> Nat]
         /\ roundUp /\ pay[side] # 0 => tokens * reserve[side] <= total * pay[side]
         /\ ~roundUp => total * pay[side] <= tokens * reserve[side]
<1> DEFINE floor(r) == (tokens * r) \div total
           share(r) == IF roundUp /\ floor(r) > 0 THEN CeilDiv(tokens * r, total)
                       ELSE floor(r)
<1>1. total > 0
  BY DEF PoolTokensToTradingTokens, None
<1>2. pay = [s \in S |-> share(reserve[s])]
  BY <1>1 DEF PoolTokensToTradingTokens, Some
<1>3. ASSUME NEW r \in Nat
      PROVE  /\ share(r) \in Nat
             /\ roundUp /\ share(r) # 0 => tokens * r <= total * share(r)
             /\ ~roundUp => total * share(r) <= tokens * r
  <2>1. tokens * r \in Nat
    OBVIOUS
  <2>2. floor(r) \in Nat /\ total * floor(r) <= tokens * r
    BY <1>1, <2>1, DivFacts
  <2>3. /\ CeilDiv(tokens * r, total) \in Nat
        /\ tokens * r <= total * CeilDiv(tokens * r, total)
    BY <1>1, <2>1, CeilDivFacts
  <2> HIDE DEF floor
  <2> QED BY <2>2, <2>3
<1> HIDE DEF share
<1> QED BY <1>1, <1>2, <1>3

LEMMA DepositSingleFacts ==
  ASSUME NEW amount \in Nat, NEW reserve \in Nat, NEW total \in Nat,
         NEW fees \in FeeSchedule, ValidFees(fees),
         NEW n \in DepositSingle(amount, reserve, total, fees)
  PROVE  /\ n \in Nat
         /\ (total + n) * (total + n) * reserve <= total * total * (reserve + amount)
<1>1. CASE amount = 0
  BY <1>1 DEF DepositSingle, Some
<1>2. CASE amount # 0
  <2> DEFINE half == MaxOf(1, amount \div 2)
             fee == TotalFees(half, fees)
  <2>1. half \in Nat
    BY DivFacts DEF MaxOf
  <2>2. fee \in Nat
    BY <2>1, FeeWithinAmount DEF TotalFees, TradingFee, OwnerTradingFee, ValidFees, FeeSchedule
  <2>3. fee <= amount /\ n \in CpDepositSingle(amount - fee, reserve, total)
    BY <1>2, <2>2 DEF DepositSingle, None
  <2> HIDE DEF fee
  <2>4. /\ n \in Nat
        /\ (total + n) * (total + n) * reserve <= total * total * (reserve + (amount - fee))
    BY <2>2, <2>3 DEF CpDepositSingle
  <2>5. (reserve + (amount - fee)) * (total * total) <= (reserve + amount) * (total * total)
    BY <2>2, <2>3, MulMono
  <2> DEFINE x == (total + n) * (total + n) * reserve
             y == (reserve + (amount - fee)) * (total * total)
             z == (reserve + amount) * (total * total)
  <2>6. x \in Int /\ y \in Int /\ z \in Int
    BY <2>2, <2>4
  <2>7. /\ y = total * total * (reserve + (amount - fee))
        /\ z = total * total * (reserve + amount)
    BY <2>2
  <2>8. x <= y /\ y <= z
    BY <2>4, <2>5, <2>7
  <2> HIDE DEF x, y, z
  <2>9. x <= z
    BY <2>6, <2>8
  <2> QED BY <2>4, <2>7, <2>9 DEF x
<1> QED BY <1>1, <1>2

LEMMA WithdrawSingleFacts ==
  ASSUME NEW amount \in Nat, NEW reserve \in Nat, NEW total \in Nat,
         NEW fees \in FeeSchedule, ValidFees(fees), ~WholeFee(fees),
         amount <= reserve,
         NEW n \in WithdrawSingle(amount, reserve, total, fees)
  PROVE  /\ n \in Nat /\ n <= total
         /\ (total - n) * (total - n) * reserve <= total * total * (reserve - amount)
<1>1. CASE amount = 0
  BY <1>1 DEF WithdrawSingle, Some
<1>2. CASE amount # 0
  <2> DEFINE half == (amount + 1) \div 2
  <2>1. half \in Nat /\ half <= amount
    BY <1>2
  <2> HIDE DEF half
  <2>2. PICK gross \in PreTradingFeeAmount(half, fees) :
          n \in CpWithdrawSingle(amount - half + gross, reserve, total)
    BY <1>2 DEF WithdrawSingle, half
  <2>3. gross \in Nat /\ half <= gross
    BY <2>1, GrossCoversPost
  <2> DEFINE left == MaxOf(0, reserve - (amount - half + gross))
  <2>4. left \in Nat /\ left <= reserve - amount
    BY <2>1, <2>3 DEF MaxOf
  <2>5. /\ n \in Nat /\ n <= total
        /\ (total - n) * (total - n) * reserve <= total * total * left
    BY <2>2 DEF CpWithdrawSingle
  <2> HIDE DEF left
  <2>6. left * (total * total) <= (reserve - amount) * (total * total)
    BY <2>4, MulMono
  <2> DEFINE x == (total - n) * (total - n) * reserve
             y == left * (total * total)
             z == (reserve - amount) * (total * total)
  <2>7. x \in Int /\ y \in Int /\ z \in Int
    BY <2>4, <2>5
  <2>8. y = total * total * left /\ z = total * total * (reserve - amount)
    BY <2>4
  <2>9. x <= y /\ y <= z
    BY <2>5, <2>6, <2>8
  <2> HIDE DEF x, y, z
  <2>10. x <= z
    BY <2>7, <2>9
  <2> QED BY <2>5, <2>8, <2>10 DEF x
<1> QED BY <1>1, <1>2
=============================================================================
