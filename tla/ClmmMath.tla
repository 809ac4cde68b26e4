------------------------------ MODULE ClmmMath ------------------------------
(***************************************************************************)
(* The pure arithmetic of the concentrated-liquidity program (clmm/src/    *)
(* curve): fixed-point prices, the price of a tick, the amounts between    *)
(* two prices, one step of a swap and the growth of fees.                  *)
(*                                                                         *)
(* A price is the square root of token 1 per token 0, as a multiple of     *)
(* 1 / Q64.  The products are computed in 256 or 512 bits and so cannot    *)
(* overflow in the program; fee growth wraps at 2^128, GrowthMod here.     *)
(***************************************************************************)
EXTENDS Integers, Sequences

CONSTANTS Q64,               \* one in fixed point
          FeeDenom,          \* FEE_DENOM
          GrowthMod,         \* 2^128
          MinTick, MaxTick,
          SqrtRatios         \* price at tick 2^i, for bit i of a tick

CeilDiv(x, y) == (x + y - 1) \div y
MinOf(x, y) == IF x <= y THEN x ELSE y
MaxOf(x, y) == IF x >= y THEN x ELSE y

-----------------------------------------------------------------------------
(* tick_math.rs                                                            *)

Bit(n, i) == (n \div 2^i) % 2

\* sqrt(1.0001)^|tick| by its bits, inverted below zero.
SqrtPriceAtTick(tick) ==
  LET magnitude == IF tick < 0 THEN -tick ELSE tick
      bits == Len(SqrtRatios)
      product[i \in 0 .. bits] ==
        IF i = 0 THEN Q64
        ELSE IF Bit(magnitude, i - 1) = 1 THEN (product[i - 1] * SqrtRatios[i]) \div Q64
        ELSE product[i - 1]
  IN  IF tick < 0 THEN (Q64 * Q64) \div product[bits] ELSE product[bits]

SqrtPrice == [tick \in MinTick .. MaxTick |-> SqrtPriceAtTick(tick)]
MinSqrtPrice == SqrtPrice[MinTick]
MaxSqrtPrice == SqrtPrice[MaxTick]

ASSUME ClmmMathAssumption ==
  /\ Q64 \in Nat \ {0} /\ FeeDenom \in Nat \ {0} /\ GrowthMod \in Nat \ {0}
  /\ MinTick \in Int /\ MaxTick \in Int /\ MinTick < 0 /\ MaxTick > 0
  /\ SqrtPrice \in [MinTick .. MaxTick -> Nat \ {0}]
  /\ \A t \in MinTick .. MaxTick - 1 : SqrtPrice[t] < SqrtPrice[t + 1]

\* Largest tick whose price is not above the given one.
TickAtSqrtPrice(price) ==
  CHOOSE t \in MinTick .. MaxTick :
    /\ SqrtPrice[t] <= price
    /\ t < MaxTick => price < SqrtPrice[t + 1]

Clamp(tick) == MaxOf(MinTick, MinOf(tick, MaxTick))

-----------------------------------------------------------------------------
(* liquidity_math.rs: what liquidity holds of each token between two       *)
(* prices.  What comes in is rounded up, what goes out down.               *)

Divide(num, den, roundUp) == IF roundUp THEN CeilDiv(num, den) ELSE num \div den

Amount0Delta(a, b, liquidity, roundUp) ==
  LET lo == MinOf(a, b)
      hi == MaxOf(a, b)
  IN  Divide(liquidity * Q64 * (hi - lo), lo * hi, roundUp)

Amount1Delta(a, b, liquidity, roundUp) ==
  Divide(liquidity * (MaxOf(a, b) - MinOf(a, b)), Q64, roundUp)

-----------------------------------------------------------------------------
(* swap_math.rs: one step of an exact-input swap, towards a target price   *)
(* over constant liquidity.                                                *)

\* Both round so that the pool keeps the better price.
NextPriceFrom0In(price, liquidity, amount) ==
  CeilDiv(liquidity * Q64 * price, liquidity * Q64 + amount * price)

NextPriceFrom1In(price, liquidity, amount) ==
  price + (amount * Q64) \div liquidity

AmountIn(from, to, liquidity) ==
  IF from >= to THEN Amount0Delta(to, from, liquidity, TRUE)
  ELSE Amount1Delta(from, to, liquidity, TRUE)

AmountOut(down, from, to, liquidity) ==
  IF down THEN Amount1Delta(to, from, liquidity, FALSE)
  ELSE Amount0Delta(from, to, liquidity, FALSE)

\* Short of the target the fee is all that is left of the input.
SwapStep(price, target, liquidity, remaining, feePips) ==
  LET down == price >= target
      lessFee == (remaining * (FeeDenom - feePips)) \div FeeDenom
      toTarget == AmountIn(price, target, liquidity)
      reached == lessFee >= toTarget
      next == IF reached THEN target
              ELSE IF down THEN NextPriceFrom0In(price, liquidity, lessFee)
              ELSE NextPriceFrom1In(price, liquidity, lessFee)
      in == IF reached THEN toTarget
            ELSE IF down THEN Amount0Delta(next, price, liquidity, TRUE)
            ELSE Amount1Delta(price, next, liquidity, TRUE)
  IN  [price |-> next, in |-> in,
       out |-> AmountOut(down, price, next, liquidity),
       fee |-> IF reached THEN CeilDiv(in * feePips, FeeDenom - feePips)
               ELSE remaining - in]

-----------------------------------------------------------------------------
(* fee_math.rs: fees per unit of liquidity, in wrapping arithmetic.        *)

GrowthDelta(fee, liquidity) == (fee * Q64) \div liquidity
Wrapped(x) == x % GrowthMod

\* Outside is the growth on the far side of a bound from the current tick.
GrowthInside(lower, upper, tick, global, outsideLower, outsideUpper) ==
  LET below == IF tick >= lower THEN outsideLower ELSE global - outsideLower
      above == IF tick < upper THEN outsideUpper ELSE global - outsideUpper
  IN  Wrapped(global - below - above)

FeesOwed(liquidity, now, last) == (liquidity * Wrapped(now - last)) \div Q64
=============================================================================
