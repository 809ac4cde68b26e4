-------------------------------- MODULE Clmm --------------------------------
(***************************************************************************)
(* One pool of the concentrated-liquidity program: clmm/src/processor.rs,  *)
(* engine.rs and state.rs.                                                 *)
(*                                                                         *)
(* An instruction is one transaction; an Err reverts it, so a rejected     *)
(* call is no step.  Only a swap takes several steps here: its loop works  *)
(* on a copy (the variable walk) that either settles as a whole or is      *)
(* thrown away, and no other instruction runs meanwhile.  The two mints    *)
(* are tokens 0 and 1; who pays is outside, and has the tokens.            *)
(***************************************************************************)
EXTENDS ClmmMath, FiniteSetsExt

CONSTANTS FeePips, TickSpacing,      \* the pool's tier
          TickArraySize,             \* TICK_ARRAY_SIZE
          MaxCrossings,              \* MAX_CROSSINGS_PER_SWAP
          U64Max,
          OpeningPrices,             \* prices the pool may be created at
          Positions,                 \* an owner and a range of ticks each
          Liquidities,               \* amounts of an increase or a decrease
          SwapAmounts, PriceLimits,  \* inputs of a swap
          MaxChanges, MaxSwaps       \* bounds: how often positions and price move

Token == {0, 1}
Span == TickArraySize * TickSpacing
ArrayStart(tick) == (tick \div Span) * Span
Starts == { s \in ArrayStart(MinTick) .. MaxTick : s = ArrayStart(s) }
Slots == { t \in ArrayStart(MinTick) .. ArrayStart(MaxTick) + Span - 1 : t % TickSpacing = 0 }

ASSUME ClmmAssumption ==
  /\ FeePips \in Nat /\ FeePips < FeeDenom
  /\ TickSpacing \in Nat \ {0} /\ TickArraySize \in Nat \ {0}
  /\ MinTick % TickSpacing # 0          \* true of every tier (POOL_TIERS)
  /\ MaxCrossings \in Nat \ {0} /\ U64Max \in Nat
  /\ OpeningPrices \subseteq MinSqrtPrice .. MaxSqrtPrice
  /\ IsFiniteSet(Positions)
  /\ \A r \in Positions : {r.lower, r.upper} \subseteq Int
  /\ Liquidities \subseteq Nat /\ SwapAmounts \subseteq Nat /\ PriceLimits \subseteq Nat
  /\ MaxChanges \in Nat /\ MaxSwaps \in Nat

VARIABLES pool,       \* the Pool account
          arrays,     \* starts of the tick arrays that exist
          ticks,      \* their slots
          position,   \* the Position accounts
          vault,      \* balances of the pool's two token accounts
          walk,       \* the swap in progress
          stalled,    \* history: a swap moved the tick without moving the price
          changes, swaps  \* history: how many of each there were

vars == <<pool, arrays, ticks, position, vault, walk, stalled, changes, swaps>>

NoPosition == [open |-> FALSE]
EmptyPosition == [open |-> TRUE, liquidity |-> 0,
                  last |-> [t \in Token |-> 0], owed |-> [t \in Token |-> 0]]
EmptyTick == [gross |-> 0, net |-> 0, outside |-> [t \in Token |-> 0]]
Idle == [active |-> FALSE]

NewPool(price) ==
  [price |-> price, tick |-> TickAtSqrtPrice(price), liquidity |-> 0,
   growth |-> [t \in Token |-> 0]]

\* InitPool.
Init ==
  /\ \E price \in OpeningPrices : pool = NewPool(price)
  /\ arrays = {}
  /\ ticks = [t \in Slots |-> EmptyTick]
  /\ position = [r \in Positions |-> NoPosition]
  /\ vault = [t \in Token |-> 0]
  /\ walk = Idle
  /\ stalled = FALSE
  /\ changes = 0 /\ swaps = 0

InitTickArray(start) ==
  /\ ~walk.active
  /\ start \notin arrays
  /\ arrays' = arrays \cup {start}
  /\ UNCHANGED <<pool, ticks, position, vault, walk, stalled, changes, swaps>>

-----------------------------------------------------------------------------
(* Positions.                                                              *)

IsTickBound(tick) == tick \in MinTick .. MaxTick /\ tick % TickSpacing = 0

OpenPosition(r) ==
  /\ ~walk.active
  /\ ~position[r].open
  /\ IsTickBound(r.lower) /\ IsTickBound(r.upper) /\ r.lower < r.upper
  /\ position' = [position EXCEPT ![r] = EmptyPosition]
  /\ UNCHANGED <<pool, arrays, ticks, vault, walk, stalled, changes, swaps>>

ClosePosition(r) ==
  /\ ~walk.active
  /\ position[r].open /\ position[r].liquidity = 0
  /\ position[r].owed = [t \in Token |-> 0]
  /\ position' = [position EXCEPT ![r] = NoPosition]
  /\ UNCHANGED <<pool, arrays, ticks, vault, walk, stalled, changes, swaps>>

Initialized(tick) == tick.gross # 0
Holds(r, tick) == r.lower <= tick /\ tick < r.upper

\* Tick::update.  Past growth is taken to lie below the tick.
UpdatedTick(at, delta, isUpper) ==
  LET tick == ticks[at]
  IN  [gross |-> tick.gross + delta,
       net |-> IF isUpper THEN tick.net - delta ELSE tick.net + delta,
       outside |-> IF ~Initialized(tick) /\ at <= pool.tick THEN pool.growth
                   ELSE tick.outside]

\* A tick that flipped empty forgets its growth once the fees are read.
Cleared(at, tick) ==
  IF Initialized(ticks[at]) /\ ~Initialized(tick)
  THEN [tick EXCEPT !.outside = EmptyTick.outside] ELSE tick

InsideGrowth(r, lower, upper, tick, growth) ==
  [t \in Token |-> GrowthInside(r.lower, r.upper, tick, growth[t],
                                lower.outside[t], upper.outside[t])]

OwedSince(p, inside) ==
  [t \in Token |-> FeesOwed(p.liquidity, inside[t], p.last[t])]

\* Mutant: the amount of an increase is rounded in the owner's favour.
AmountsAlwaysDown(price, tick, r, liquidity, roundUp) ==
  LET lower == SqrtPrice[r.lower]
      upper == SqrtPrice[r.upper]
      from == IF tick < r.lower THEN lower ELSE IF tick < r.upper THEN price ELSE upper
  IN  [t \in Token |-> IF t = 0 THEN Amount0Delta(from, upper, liquidity, FALSE)
                       ELSE Amount1Delta(lower, from, liquidity, FALSE)]

\* amounts_for_liquidity: above the price all token 0, below it all token 1.
AmountsForLiquidity(price, tick, r, liquidity, roundUp) ==
  LET lower == SqrtPrice[r.lower]
      upper == SqrtPrice[r.upper]
      from == IF tick < r.lower THEN lower ELSE IF tick < r.upper THEN price ELSE upper
  IN  [t \in Token |-> IF t = 0 THEN Amount0Delta(from, upper, liquidity, roundUp)
                       ELSE Amount1Delta(lower, from, liquidity, roundUp)]

\* Mutant: a tick that flips empty is zeroed before the fees are read.
ModifyClearsFirst(r, delta, amounts) ==
  LET p == position[r]
      lower == UpdatedTick(r.lower, delta, FALSE)
      upper == UpdatedTick(r.upper, delta, TRUE)
      inside == InsideGrowth(r, Cleared(r.lower, lower), Cleared(r.upper, upper),
                             pool.tick, pool.growth)
      owed == [t \in Token |-> p.owed[t] + OwedSince(p, inside)[t]]
      active == IF Holds(r, pool.tick) THEN pool.liquidity + delta ELSE pool.liquidity
  IN  /\ ~walk.active /\ p.open /\ changes < MaxChanges
      /\ {ArrayStart(r.lower), ArrayStart(r.upper)} \subseteq arrays
      /\ \A sum \in {p.liquidity + delta, lower.gross, upper.gross, active} : sum >= 0
      /\ \A t \in Token : owed[t] <= U64Max /\ amounts[t] <= U64Max
      /\ position' = [position EXCEPT ![r] =
           [open |-> TRUE, liquidity |-> p.liquidity + delta, last |-> inside, owed |-> owed]]
      /\ pool' = [pool EXCEPT !.liquidity = active]
      /\ ticks' = [ticks EXCEPT ![r.lower] = Cleared(r.lower, lower),
                                ![r.upper] = Cleared(r.upper, upper)]
      /\ changes' = changes + 1
      /\ UNCHANGED <<arrays, walk, stalled, swaps>>

\* modify_position; the amounts then move between the owner and the vaults.  A
\* zero delta refreshes the fees.  The slippage bounds are the caller's choice.
Modify(r, delta, amounts) ==
  LET p == position[r]
      lower == UpdatedTick(r.lower, delta, FALSE)
      upper == UpdatedTick(r.upper, delta, TRUE)
      inside == InsideGrowth(r, lower, upper, pool.tick, pool.growth)
      owed == [t \in Token |-> p.owed[t] + OwedSince(p, inside)[t]]
      active == IF Holds(r, pool.tick) THEN pool.liquidity + delta ELSE pool.liquidity
  IN  /\ ~walk.active /\ p.open /\ changes < MaxChanges
      /\ {ArrayStart(r.lower), ArrayStart(r.upper)} \subseteq arrays
      /\ \A sum \in {p.liquidity + delta, lower.gross, upper.gross, active} : sum >= 0
      /\ \A t \in Token : owed[t] <= U64Max /\ amounts[t] <= U64Max
      /\ position' = [position EXCEPT ![r] =
           [open |-> TRUE, liquidity |-> p.liquidity + delta, last |-> inside, owed |-> owed]]
      /\ pool' = [pool EXCEPT !.liquidity = active]
      /\ ticks' = [ticks EXCEPT ![r.lower] = Cleared(r.lower, lower),
                                ![r.upper] = Cleared(r.upper, upper)]
      /\ changes' = changes + 1
      /\ UNCHANGED <<arrays, walk, stalled, swaps>>

IncreaseLiquidity(r, liquidity) ==
  LET amounts == AmountsForLiquidity(pool.price, pool.tick, r, liquidity, TRUE)
  IN  /\ Modify(r, liquidity, amounts)
      /\ vault' = [t \in Token |-> vault[t] + amounts[t]]

DecreaseLiquidity(r, liquidity) ==
  LET amounts == AmountsForLiquidity(pool.price, pool.tick, r, liquidity, FALSE)
  IN  /\ Modify(r, -liquidity, amounts)
      /\ \A t \in Token : amounts[t] <= vault[t]
      /\ vault' = [t \in Token |-> vault[t] - amounts[t]]

\* Mutant: what has been collected stays owing.
CollectAgain(r) ==
  /\ ~walk.active
  /\ position[r].open
  /\ \A t \in Token : position[r].owed[t] <= vault[t]
  /\ vault' = [t \in Token |-> vault[t] - position[r].owed[t]]
  /\ UNCHANGED <<pool, arrays, ticks, position, walk, stalled, changes, swaps>>

\* Pays what the last change of the position found owing, and no more.
Collect(r) ==
  /\ ~walk.active
  /\ position[r].open
  /\ \A t \in Token : position[r].owed[t] <= vault[t]
  /\ vault' = [t \in Token |-> vault[t] - position[r].owed[t]]
  /\ position' = [position EXCEPT ![r].owed = [t \in Token |-> 0]]
  /\ UNCHANGED <<pool, arrays, ticks, walk, stalled, changes, swaps>>

-----------------------------------------------------------------------------
(* Swap: engine.rs.                                                        *)

\* A zero limit means no bound.
DefaultLimit(down, limit) ==
  IF limit # 0 THEN limit ELSE IF down THEN MinSqrtPrice ELSE MaxSqrtPrice

ValidLimit(down, limit) ==
  IF down THEN limit >= MinSqrtPrice /\ limit < pool.price
  ELSE limit > pool.price /\ limit <= MaxSqrtPrice

\* The arrays a swap passes: n of them, from the one of the current tick on.
Window(down, n) ==
  { ArrayStart(pool.tick) + (IF down THEN -i ELSE i) * Span : i \in 0 .. n - 1 }

StartSwap(down, amount, priceLimit, n) ==
  LET limit == DefaultLimit(down, priceLimit)
      window == Window(down, n)
  IN  /\ ~walk.active /\ swaps < MaxSwaps
      /\ amount # 0 /\ ValidLimit(down, limit)
      /\ window \subseteq arrays
      /\ walk' = [active |-> TRUE, down |-> down, limit |-> limit,
                  low |-> Min(window), high |-> Max(window) + Span,
                  remaining |-> amount, price |-> pool.price, tick |-> pool.tick,
                  liquidity |-> pool.liquidity, growth |-> pool.growth,
                  ticks |-> ticks, in |-> 0, out |-> 0, fee |-> 0,
                  crossings |-> 0, stalled |-> FALSE]
      /\ UNCHANGED <<pool, arrays, ticks, position, vault, stalled, changes, swaps>>

InToken == IF walk.down THEN 0 ELSE 1
Running == /\ walk.remaining > 0 /\ walk.price # walk.limit
           /\ walk.crossings < MaxCrossings

\* Where the round heads for: the next initialized tick, else the end of the
\* window.  Empty once the walk is off the window.
Ahead == { t \in Slots : /\ walk.low <= t /\ t < walk.high
                         /\ IF walk.down THEN t <= walk.tick ELSE t > walk.tick }
InitializedAhead == { t \in Ahead : Initialized(walk.ticks[t]) }
NextTargets ==
  IF InitializedAhead # {}
  THEN { IF walk.down THEN Max(InitializedAhead) ELSE Min(InitializedAhead) }
  ELSE IF walk.down THEN { t \in {walk.low} : t <= walk.tick }
  ELSE { t \in {walk.high} : walk.tick < t }

\* The end of an upward window lies in an array nobody passed.
PastWindow(target) == target = walk.high /\ target <= MaxTick

\* Without liquidity the price jumps and nothing fills.
StepTowards(price) ==
  IF walk.liquidity = 0 THEN [price |-> price, in |-> 0, out |-> 0, fee |-> 0]
  ELSE SwapStep(walk.price, price, walk.liquidity, walk.remaining, FeePips)

Bound(target) == SqrtPrice[Clamp(target)]
Step(target) == StepTowards(IF walk.down THEN MaxOf(Bound(target), walk.limit)
                            ELSE MinOf(Bound(target), walk.limit))
Arrives(target) == Step(target).price = Bound(target)
Crosses(target) == Arrives(target) /\ target \in InitializedAhead

\* Tick::cross.
Crossed(tick, growth) ==
  [tick EXCEPT !.outside = [t \in Token |-> Wrapped(growth[t] - @[t])]]

GrowthAfter(fee) ==
  IF fee = 0 THEN walk.growth
  ELSE [walk.growth EXCEPT ![InToken] = Wrapped(@ + GrowthDelta(fee, walk.liquidity))]

\* Mutant: the net liquidity of a tick crossed on the way down is not negated.
LiquidityAddedBothWays(target) ==
  IF Crosses(target) THEN walk.liquidity + walk.ticks[target].net ELSE walk.liquidity

LiquidityAfter(target) ==
  IF ~Crosses(target) THEN walk.liquidity
  ELSE IF walk.down THEN walk.liquidity - walk.ticks[target].net
  ELSE walk.liquidity + walk.ticks[target].net

\* Mutants: the tick is left alone where a swap stops between two ticks; a
\* falling price stops at the tick it has crossed.
TickNotRecomputed(target) ==
  IF Arrives(target) THEN IF walk.down THEN target - 1 ELSE target ELSE walk.tick
TickStopsAtBound(target) ==
  IF Arrives(target) THEN target
  ELSE IF Step(target).price # pool.price THEN TickAtSqrtPrice(Step(target).price)
  ELSE walk.tick

\* A step that stops between ticks recomputes the tick, unless the price is
\* still the one the whole swap started from.
TickAfter(target) ==
  IF Arrives(target) THEN IF walk.down THEN target - 1 ELSE target
  ELSE IF Step(target).price # pool.price THEN TickAtSqrtPrice(Step(target).price)
  ELSE walk.tick

\* The step did not move the price, and the tick moves back all the same.
Stalls(target) ==
  /\ ~Arrives(target)
  /\ Step(target).price = walk.price /\ TickAfter(target) # walk.tick

Refused(target) ==
  \/ Arrives(target) /\ PastWindow(target)
  \/ LiquidityAfter(target) < 0

TicksAfter(target, growth) ==
  IF Crosses(target) THEN [walk.ticks EXCEPT ![target] = Crossed(@, growth)]
  ELSE walk.ticks

\* Mutant: a tick is crossed with the growth from before the round's fee.
WalkedCrossesFirst(target) ==
  LET step == Step(target)
  IN  [walk EXCEPT
         !.remaining = @ - step.in - step.fee,
         !.in = @ + step.in, !.out = @ + step.out, !.fee = @ + step.fee,
         !.price = step.price,
         !.tick = TickAfter(target),
         !.liquidity = LiquidityAfter(target),
         !.growth = GrowthAfter(step.fee),
         !.ticks = TicksAfter(target, walk.growth),
         !.crossings = IF Crosses(target) THEN @ + 1 ELSE @,
         !.stalled = @ \/ Stalls(target)]

Walked(target) ==
  LET step == Step(target)
  IN  [walk EXCEPT
         !.remaining = @ - step.in - step.fee,
         !.in = @ + step.in, !.out = @ + step.out, !.fee = @ + step.fee,
         !.price = step.price,
         !.tick = TickAfter(target),
         !.liquidity = LiquidityAfter(target),
         !.growth = GrowthAfter(step.fee),
         !.ticks = TicksAfter(target, GrowthAfter(step.fee)),
         !.crossings = IF Crosses(target) THEN @ + 1 ELSE @,
         !.stalled = @ \/ Stalls(target)]

\* One round of the loop.
Advance ==
  /\ walk.active /\ Running
  /\ \E target \in NextTargets : ~Refused(target) /\ walk' = Walked(target)
  /\ UNCHANGED <<pool, arrays, ticks, position, vault, stalled, changes, swaps>>

\* Mutant: the walk may end past the lowest or the highest tick.
EndTickUnclamped == walk.tick

EndTick == Clamp(walk.tick)

SettleSwap ==
  /\ walk.active /\ ~Running
  /\ walk.in + walk.fee <= U64Max /\ walk.out <= U64Max
  /\ walk.out <= vault[1 - InToken]
  /\ pool' = [price |-> walk.price, tick |-> EndTick,
              liquidity |-> walk.liquidity, growth |-> walk.growth]
  /\ ticks' = walk.ticks
  /\ vault' = [t \in Token |-> IF t = InToken THEN vault[t] + walk.in + walk.fee
                               ELSE vault[t] - walk.out]
  /\ walk' = Idle
  /\ stalled' = (stalled \/ walk.stalled)
  /\ swaps' = swaps + 1
  /\ UNCHANGED <<arrays, position, changes>>

\* The caller's minimum output, or an error on the way: nothing happened.
RevertSwap ==
  /\ walk.active
  /\ Running => \A target \in NextTargets : Refused(target)
  /\ walk' = Idle
  /\ UNCHANGED <<pool, arrays, ticks, position, vault, stalled, changes, swaps>>

Next ==
  \/ \E s \in Starts : InitTickArray(s)
  \/ \E r \in Positions :
       \/ OpenPosition(r) \/ ClosePosition(r) \/ Collect(r)
       \/ \E l \in Liquidities : IncreaseLiquidity(r, l) \/ DecreaseLiquidity(r, l)
  \/ \E down \in BOOLEAN, amount \in SwapAmounts, limit \in PriceLimits, n \in 1 .. 3 :
       StartSwap(down, amount, limit, n)
  \/ Advance
  \/ SettleSwap
  \/ RevertSwap

Spec == Init /\ [][Next]_vars

-----------------------------------------------------------------------------
(* Properties.                                                             *)

Amounts == [Token -> Nat]
Growth == [Token -> 0 .. GrowthMod - 1]
Prices == MinSqrtPrice .. MaxSqrtPrice
TickState == [gross : Nat, net : Int, outside : Growth]
Walk == [active : {TRUE}, down : BOOLEAN, limit : Prices,
         low : Int, high : Int, remaining : Nat, price : Prices, tick : Int,
         liquidity : Nat, growth : Growth, ticks : [Slots -> TickState],
         in : Nat, out : Nat, fee : Nat, crossings : Nat, stalled : BOOLEAN]

TypeOK ==
  /\ pool \in [price : Prices, tick : MinTick .. MaxTick, liquidity : Nat, growth : Growth]
  /\ arrays \subseteq Starts
  /\ ticks \in [Slots -> TickState]
  /\ position \in [Positions ->
       [open : {TRUE}, liquidity : Nat, last : Growth, owed : Amounts] \cup {NoPosition}]
  /\ vault \in Amounts
  /\ walk \in Walk \cup {Idle}
  /\ stalled \in BOOLEAN /\ changes \in Nat /\ swaps \in Nat

Live == { r \in Positions : position[r].open /\ position[r].liquidity > 0 }
LiquidityAt(tick) ==
  SumFunctionOnSet([r \in Positions |-> IF r \in Live /\ Holds(r, tick)
                                        THEN position[r].liquidity ELSE 0], Positions)

OutOfStep == stalled \/ (walk.active /\ walk.stalled)

\* Whatever ticks the swaps crossed and the positions moved, the pool trades
\* with the liquidity of exactly the positions that hold its tick, and so does
\* a swap on its way; only after a step that stalled it may not.
LiquidityInStep ==
  ~stalled =>
    /\ pool.liquidity = LiquidityAt(pool.tick)
    /\ walk.active /\ ~walk.stalled => walk.liquidity = LiquidityAt(walk.tick)

\* "Liquidity in range at the current price" (state.rs, Pool::liquidity).
LiquidityInRange == pool.liquidity = LiquidityAt(pool.tick)

\* The tick is the one the price lies in.  At a bound that a falling price has
\* crossed the tick is one lower, which the doc of current_tick leaves out.
TickMatches(tick, price) ==
  \/ tick = TickAtSqrtPrice(price)
  \/ /\ tick + 1 = TickAtSqrtPrice(price) /\ price = SqrtPrice[tick + 1]
     /\ (tick + 1) % TickSpacing = 0
TickTracksPrice ==
  /\ TickMatches(pool.tick, pool.price)
  /\ walk.active => TickMatches(Clamp(walk.tick), walk.price)

\* The growth inside a range, as the swap in progress or the pool sees it.
InsideNow(r) ==
  IF walk.active
  THEN InsideGrowth(r, walk.ticks[r.lower], walk.ticks[r.upper], walk.tick, walk.growth)
  ELSE InsideGrowth(r, ticks[r.lower], ticks[r.upper], pool.tick, pool.growth)

\* What a position is owed in fees, collected or not since its last change.
FeeClaim(r) ==
  [t \in Token |-> position[r].owed[t] + OwedSince(position[r], InsideNow(r))[t]]

\* Everybody can leave: the vaults cover what all positions would be paid.
Principal(r) ==
  AmountsForLiquidity(pool.price, pool.tick, r, position[r].liquidity, FALSE)
Solvent ==
  ~stalled /\ ~walk.active =>
    \A t \in Token :
      SumFunctionOnSet([r \in Positions |-> IF position[r].open
                                            THEN Principal(r)[t] + FeeClaim(r)[t] ELSE 0],
                       Positions) <= vault[t]

\* A swap on its way never owes its caller more than the vault holds, however far
\* it drains the ranges: the transfer at its end cannot fail.
SwapIsBacked == walk.active /\ ~OutOfStep => walk.out <= vault[1 - InToken]

\* A round of a swap lifts the growth inside the ranges that hold its tick by
\* the fees of the round, and inside no other range; nothing else moves the
\* growth inside a range that has liquidity, whichever ticks are crossed,
\* seeded or cleared.
Reverting == walk.active /\ ~walk'.active /\ swaps' = swaps
FeesStayInRange ==
  [][ ~Reverting /\ ~OutOfStep' =>
      \A r \in Live \cap Live', t \in Token :
        Wrapped(InsideNow(r)'[t] - InsideNow(r)[t]) =
          IF walk.active /\ walk'.active /\ Holds(r, walk.tick)
          THEN Wrapped(walk'.growth[t] - walk.growth[t]) ELSE 0 ]_vars

\* A change of one position moves no fees: what it and every other position
\* has earned before is what it is owed after.
ChangeKeepsFees ==
  [][ changes' # changes =>
      \A r \in Live : FeeClaim(r)' = FeeClaim(r) ]_vars

\* The loop ends: a round that is not the last moves the tick towards the end
\* of the window, also when it moved neither price nor tokens.
RoundsProgress ==
  [][ walk.active /\ walk'.active =>
      \/ ~Running'
      \/ IF walk.down THEN walk'.tick < walk.tick ELSE walk.tick < walk'.tick ]_vars
=============================================================================
