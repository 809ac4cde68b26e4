------------------------------- MODULE Curve -------------------------------
(***************************************************************************)
(* The pure arithmetic of the constant-product pool: program/src/curve,    *)
(* as functions of the LP-owned reserves, the LP supply and the fees.      *)
(*                                                                         *)
(* A Rust function that returns Option<T> is an operator that returns the  *)
(* set of its results: empty for None, a singleton for Some.  A caller     *)
(* that propagates None with `?` or ok_or writes \E r \in Op(...).         *)
(*                                                                         *)
(* u64 reserves multiply inside u128, so the products below cannot         *)
(* overflow in the program; to_u64 of a result is the FitsU64 guard of the *)
(* handler that uses it (module TokenSwap).                                *)
(***************************************************************************)
EXTENDS Integers

None == {}
Some(x) == {x}

MaxOf(x, y) == IF x >= y THEN x ELSE y
MinOf(x, y) == IF x <= y THEN x ELSE y

CeilDiv(x, y) == (x + y - 1) \div y

-----------------------------------------------------------------------------
(* fees.rs                                                                 *)

Fraction == [num : Nat, den : Nat]
FeeSchedule == [trade : Fraction, owner : Fraction]

CalculateFee(amount, f) ==
  IF f.num = 0 \/ amount = 0 THEN 0
  ELSE MaxOf(1, (amount * f.num) \div f.den)      \* minimum fee of one token

TradingFee(amount, fees) == CalculateFee(amount, fees.trade)
OwnerTradingFee(amount, fees) == CalculateFee(amount, fees.owner)
TotalFees(amount, fees) ==
  TradingFee(amount, fees) + OwnerTradingFee(amount, fees)

\* Inverts the fee.  A fraction above one has no inverse; a fraction of
\* exactly one inverts to 0, the input of a swap that is free.
PreFeeAmount(post, f) ==
  IF f.num = 0 \/ f.den = 0 THEN Some(post)
  ELSE IF f.num = f.den \/ post = 0 THEN Some(0)
  ELSE IF f.num > f.den THEN None
  ELSE Some(CeilDiv(post * f.den, f.den - f.num))

\* Zero rates drop out; otherwise the two fractions are added.
PreTradingFeeAmount(post, fees) ==
  IF fees.trade.num = 0 \/ fees.trade.den = 0 THEN PreFeeAmount(post, fees.owner)
  ELSE IF fees.owner.num = 0 \/ fees.owner.den = 0 THEN PreFeeAmount(post, fees.trade)
  ELSE PreFeeAmount(post,
         [num |-> fees.trade.num * fees.owner.den + fees.owner.num * fees.trade.den,
          den |-> fees.trade.den * fees.owner.den])

ValidFraction(f) == (f.den = 0 /\ f.num = 0) \/ f.num < f.den
ValidFees(fees) == ValidFraction(fees.trade) /\ ValidFraction(fees.owner)

-----------------------------------------------------------------------------
(* constant_product.rs.  CheckedCeilDiv is spl_math's: it fails on a zero  *)
(* divisor and on a zero quotient, rounds the quotient up, and lowers the  *)
(* divisor to the least one that still gives that quotient.                *)

CheckedCeilDiv(x, y) ==
  IF y = 0 THEN None
  ELSE IF x \div y = 0 THEN None
  ELSE Some([quotient |-> CeilDiv(x, y), divisor |-> CeilDiv(x, CeilDiv(x, y))])

\* What is taken from the swapper is only what the rounded output needs, so
\* it may be less than `amount`.
CpSwap(amount, source, dest) ==
  { [source |-> r.divisor - source, dest |-> dest - r.quotient] :
      r \in { q \in CheckedCeilDiv(source * dest, source + amount) :
                q.quotient < dest /\ q.divisor >= source } }

\* Mutant: the input of an exact-output swap is rounded down.
CpSwapExactOutFloor(out, source, dest) ==
  IF out >= dest THEN None
  ELSE Some([source |-> (source * dest) \div (dest - out) - source, dest |-> out])

CpSwapExactOut(out, source, dest) ==
  IF out >= dest THEN None
  ELSE { [source |-> r.quotient - source, dest |-> out] :
           r \in { q \in CheckedCeilDiv(source * dest, dest - out) :
                     q.quotient > source } }

\* Mutant: the depositor is charged the floor.
PoolTokensRoundedDown(lp, supply, reserve, roundUp) ==
  IF supply = 0 THEN None
  ELSE Some([side \in DOMAIN reserve |-> (lp * reserve[side]) \div supply])

\* Both sides of `lp` pool tokens.  Rounding up never lifts an amount off 0.
PoolTokensToTradingTokens(lp, supply, reserve, roundUp) ==
  IF supply = 0 THEN None
  ELSE LET share(r) == LET t == (lp * r) \div supply
                       IN  IF roundUp /\ t > 0 THEN CeilDiv(lp * r, supply) ELSE t
       IN  Some([side \in DOMAIN reserve |-> share(reserve[side])])

\* The Balancer formulas take a square root, which PreciseNumber computes to 12
\* digits; the exact root stands for it here, as the one integer that squares
\* to either side of the bound.  Both operators are empty for an empty reserve.

\* n = floor(supply * (sqrt(1 + amount / reserve) - 1))
CpDepositSingle(amount, reserve, supply) ==
  LET grown == supply * supply * (reserve + amount)
  IN  { n \in 0 .. supply * amount :
          /\ (supply + n) * (supply + n) * reserve <= grown
          /\ grown < (supply + n + 1) * (supply + n + 1) * reserve }

\* n = ceil(supply * (1 - sqrt(1 - amount / reserve))), saturating at supply
CpWithdrawSingle(amount, reserve, supply) ==
  LET left == supply * supply * MaxOf(0, reserve - amount)
  IN  { n \in 0 .. supply :
          /\ (supply - n) * (supply - n) * reserve <= left
          /\ left < (supply - n + 1) * (supply - n + 1) * reserve }

-----------------------------------------------------------------------------
(* base.rs: the curve with the fees around it.                             *)

Swap(amount, source, dest, fees) ==
  IF TotalFees(amount, fees) > amount THEN None
  ELSE { [source   |-> r.source + TotalFees(amount, fees),
          dest     |-> r.dest,
          ownerFee |-> OwnerTradingFee(amount, fees)] :
           r \in CpSwap(amount - TotalFees(amount, fees), source, dest) }

SwapForExactOut(out, source, dest, fees) ==
  UNION { { [source   |-> gross,
             dest     |-> r.dest,
             ownerFee |-> OwnerTradingFee(gross, fees)] :
              gross \in PreTradingFeeAmount(r.source, fees) } :
          r \in CpSwapExactOut(out, source, dest) }

DepositSingle(amount, reserve, supply, fees) ==
  LET fee == TotalFees(MaxOf(1, amount \div 2), fees)
  IN  IF amount = 0 THEN Some(0)
      ELSE IF fee > amount THEN None
      ELSE CpDepositSingle(amount - fee, reserve, supply)

WithdrawSingle(amount, reserve, supply, fees) ==
  LET half == (amount + 1) \div 2
  IN  IF amount = 0 THEN Some(0)
      ELSE UNION { CpWithdrawSingle(amount - half + gross, reserve, supply) :
                     gross \in PreTradingFeeAmount(half, fees) }
=============================================================================
