---------------------------- MODULE RouterProofs ----------------------------
(***************************************************************************)
(* Theorems about the DEX router, for any pools, fees and amounts.         *)
(*                                                                         *)
(* The calls are chains of instructions, so the lemmas are about one       *)
(* instruction on any ledger: what it does to every token balance, and     *)
(* that it leaves a ledger again.                                          *)
(***************************************************************************)
EXTENDS Router, CurveProofs

Ledgers == [pools : [Pools -> PoolState], wallet : [Tokens -> Nat]]

\* The source balance pays, the target balance receives, within the amount and
\* the bound of the caller, and no other balance moves.
Footprint(before, after, source, target, exactIn, x, y) ==
  \E paid, got \in Nat :
    /\ IF exactIn THEN paid <= x /\ got >= y ELSE paid <= y /\ got = x
    /\ \A t \in Tokens : after[t] =
         IF t = source THEN before[t] - paid
         ELSE IF t = target THEN before[t] + got
         ELSE before[t]

LEMMA PairFacts ==
  ASSUME NEW p \in Pools, NEW side \in Sides
  PROVE  /\ Other(side) \in Sides /\ Other(side) # side
         /\ PoolMint[p][side] \in Mints /\ PoolMint[p][side] \in Tokens
         /\ PoolMint[p][side] # PoolMint[p][Other(side)]
         /\ p \in Tokens /\ PoolMint[p][side] # p
BY RouterAssumption DEF Sides, Other, Tokens

LEMMA ReservesTyped ==
  ASSUME NEW pool \in PoolState, Readable(pool)
  PROVE  /\ LpReserves(pool) \in [Sides -> Nat]
         /\ \A side \in Sides : /\ LpOwned(pool, side) \in Nat
                                /\ LpOwned(pool, side) <= pool.vault[side]
                                /\ LpReserves(pool)[side] = LpOwned(pool, side)
BY DEF PoolState, Readable, LpReserves, LpOwned

-----------------------------------------------------------------------------
(* One instruction.                                                        *)

LEMMA QuoteFacts ==
  ASSUME NEW pool \in PoolState, Readable(pool), NEW side \in Sides,
         NEW exactIn \in BOOLEAN, NEW x \in Nat, NEW q \in Quotes(pool, side, exactIn, x)
  PROVE  /\ q.source \in Nat /\ q.dest \in Nat /\ q.ownerFee \in Nat
         /\ q.dest <= LpOwned(pool, Other(side))
         /\ IF exactIn THEN q.source <= x ELSE q.dest = x
<1>1. Other(side) \in Sides
  BY DEF Sides, Other
<1>2. LpOwned(pool, side) \in Nat /\ LpOwned(pool, Other(side)) \in Nat
  BY <1>1, ReservesTyped
<1>3. Fees \in FeeSchedule /\ ValidFees(Fees)
  BY RouterAssumption
<1>4. CASE exactIn
  <2>1. q \in Swap(x, LpOwned(pool, side), LpOwned(pool, Other(side)), Fees)
    BY <1>4 DEF Quotes
  <2> QED BY <1>2, <1>3, <1>4, <2>1, SwapFacts
<1>5. CASE ~exactIn
  <2>1. q \in SwapForExactOut(x, LpOwned(pool, side), LpOwned(pool, Other(side)), Fees)
    BY <1>5 DEF Quotes
  <2>2. q.source \in Nat /\ q.dest \in Nat /\ q.ownerFee \in Nat
        /\ q.dest <= LpOwned(pool, Other(side))
    BY <1>2, <1>3, <2>1, SwapForExactOutFacts
  <2>3. PICK r \in CpSwapExactOut(x, LpOwned(pool, side), LpOwned(pool, Other(side))) :
               q.dest = r.dest
    BY <2>1 DEF SwapForExactOut
  <2>4. r.dest = x
    BY <1>2, <2>3, CpSwapExactOutFacts
  <2> QED BY <1>5, <2>2, <2>3, <2>4
<1> QED BY <1>4, <1>5

LEMMA SwappedPoolTyped ==
  ASSUME NEW pool \in PoolState, Readable(pool), NEW side \in Sides, NEW q,
         q.source \in Nat, q.dest \in Nat, q.ownerFee \in Nat,
         q.dest <= LpOwned(pool, Other(side))
  PROVE  SwappedPool(pool, side, q) \in PoolState
<1> DEFINE vault == [s \in Sides |-> IF s = side THEN pool.vault[s] + q.source
                                     ELSE pool.vault[s] - q.dest]
           fees == [pool.fees EXCEPT ![side] = @ + q.ownerFee]
<1>1. \A s \in Sides : /\ pool.vault[s] \in Nat /\ pool.fees[s] \in Nat
                       /\ s # side => s = Other(side)
  BY DEF PoolState, Sides, Other
<1>2. \A s \in Sides : s # side => pool.vault[s] - q.dest \in Nat
  BY <1>1 DEF LpOwned
<1>3. vault \in [Sides -> Nat]
  BY <1>1, <1>2
<1>4. fees \in [Sides -> Nat]
  BY <1>1 DEF PoolState
<1>5. SwappedPool(pool, side, q) = [vault |-> vault, fees |-> fees, supply |-> pool.supply]
  BY DEF SwappedPool
<1> HIDE DEF vault, fees
<1> QED BY <1>3, <1>4, <1>5 DEF PoolState

LEMMA SwapFootprint ==
  ASSUME NEW ledger \in Ledgers, NEW p \in Pools, NEW side \in Sides,
         NEW exactIn \in BOOLEAN, NEW x \in Nat, NEW y \in Nat,
         NEW after \in SwapInstruction(ledger, p, side, exactIn, x, y)
  PROVE  /\ after \in Ledgers
         /\ Footprint(ledger.wallet, after.wallet, PoolMint[p][side],
                      PoolMint[p][Other(side)], exactIn, x, y)
         /\ \A r \in Pools : after.pools[r].supply = ledger.pools[r].supply
<1> DEFINE pool == ledger.pools[p]
           src == PoolMint[p][side]
           dst == PoolMint[p][Other(side)]
<1>1. PICK q \in Quotes(pool, side, exactIn, x) :
             /\ Readable(pool)
             /\ IF exactIn THEN q.dest >= y ELSE q.source <= y
             /\ q.source <= ledger.wallet[src]
             /\ after = Settled(ledger, p, side, q)
  BY DEF SwapInstruction
<1>2. pool \in PoolState /\ ledger.wallet \in [Tokens -> Nat]
      /\ ledger.pools \in [Pools -> PoolState]
  BY DEF Ledgers
<1>3. /\ q.source \in Nat /\ q.dest \in Nat /\ q.ownerFee \in Nat
      /\ q.dest <= LpOwned(pool, Other(side))
      /\ IF exactIn THEN q.source <= x ELSE q.dest = x
  BY <1>1, <1>2, QuoteFacts
<1>4. SwappedPool(pool, side, q) \in PoolState
  BY <1>1, <1>2, <1>3, SwappedPoolTyped
<1>5. src \in Tokens /\ dst \in Tokens /\ src # dst
  BY PairFacts
<1>6. /\ after.pools = [ledger.pools EXCEPT ![p] = SwappedPool(pool, side, q)]
      /\ after.wallet = [ledger.wallet EXCEPT ![src] = @ - q.source, ![dst] = @ + q.dest]
      /\ after = [pools |-> after.pools, wallet |-> after.wallet]
  BY <1>1 DEF Settled
<1>7. SwappedPool(pool, side, q).supply = pool.supply
  BY DEF SwappedPool
<1> HIDE DEF pool, src, dst
<1>8. after.pools \in [Pools -> PoolState]
      /\ \A r \in Pools : after.pools[r].supply = ledger.pools[r].supply
  BY <1>2, <1>4, <1>6, <1>7 DEF pool
<1>9. ledger.wallet[src] \in Nat /\ ledger.wallet[dst] \in Nat
  BY <1>2, <1>5
<1>10. ledger.wallet[src] - q.source \in Nat /\ ledger.wallet[dst] + q.dest \in Nat
  BY <1>1, <1>3, <1>9 DEF src
<1>11. \A t \in Tokens : after.wallet[t] =
          IF t = src THEN ledger.wallet[t] - q.source
          ELSE IF t = dst THEN ledger.wallet[t] + q.dest
          ELSE ledger.wallet[t]
  BY <1>2, <1>5, <1>6
<1>12. after.wallet \in [Tokens -> Nat]
  BY <1>2, <1>5, <1>6, <1>10
<1>13. after \in Ledgers
  BY <1>6, <1>8, <1>12 DEF Ledgers
<1>14. IF exactIn THEN q.source <= x /\ q.dest >= y ELSE q.source <= y /\ q.dest = x
  BY <1>1, <1>3
<1>15. Footprint(ledger.wallet, after.wallet, src, dst, exactIn, x, y)
  BY <1>3, <1>11, <1>14 DEF Footprint
<1> QED BY <1>8, <1>13, <1>15 DEF src, dst

\* A deposit takes from both sides within the maxima and mints either what was
\* asked for or, into an empty pool, the initial supply.
LEMMA DepositFootprint ==
  ASSUME NEW ledger \in Ledgers, NEW p \in Pools, NEW n \in Nat, NEW maximum,
         \A side \in Sides : maximum[side] \in Nat,
         NEW after \in DepositInstruction(ledger, p, n, maximum)
  PROVE  /\ after \in Ledgers
         /\ after.wallet[p] >= ledger.wallet[p]
              + (IF ledger.pools[p].supply > 0 THEN n ELSE InitialSupply)
         /\ \A side \in Sides :
              after.wallet[PoolMint[p][side]]
                >= ledger.wallet[PoolMint[p][side]] - maximum[side]
<1> DEFINE pool == ledger.pools[p]
           minted == IF pool.supply > 0 THEN n ELSE InitialSupply
           base == IF pool.supply > 0 THEN pool.supply ELSE InitialSupply
           a == PoolMint[p]["A"]
           b == PoolMint[p]["B"]
<1>1. PICK pay \in PoolTokensToTradingTokens(minted, base, LpReserves(pool), TRUE) :
             /\ Readable(pool)
             /\ \A side \in Sides : /\ pay[side] \in 1 .. maximum[side]
                                    /\ pay[side] <= ledger.wallet[PoolMint[p][side]]
             /\ pool.supply + minted <= U64Max
             /\ after = Deposited(ledger, p, pay, minted)
  BY DEF DepositInstruction
<1>2. /\ ledger.wallet \in [Tokens -> Nat] /\ ledger.pools \in [Pools -> PoolState]
      /\ pool \in PoolState /\ pool.vault \in [Sides -> Nat]
      /\ pool.fees \in [Sides -> Nat] /\ pool.supply \in 0 .. U64Max
  BY DEF Ledgers, PoolState
<1>3. /\ "A" \in Sides /\ "B" \in Sides
      /\ \A side \in Sides : side = "A" \/ side = "B"
      /\ pay["A"] \in Nat /\ pay["B"] \in Nat
      /\ pay["A"] <= maximum["A"] /\ pay["B"] <= maximum["B"]
      /\ pay["A"] <= ledger.wallet[a] /\ pay["B"] <= ledger.wallet[b]
  BY <1>1 DEF Sides
<1>4. minted \in Nat /\ U64Max \in Nat
  BY RouterAssumption
<1>5. /\ a \in Tokens /\ b \in Tokens /\ p \in Tokens
      /\ a # b /\ a # p /\ b # p
  <2>1. Other("A") = "B"
    BY DEF Other
  <2> QED BY <1>3, <2>1, PairFacts
<1> DEFINE vault == [side \in Sides |-> pool.vault[side] + pay[side]]
<1>6. /\ after.pools = [ledger.pools EXCEPT
                          ![p] = [vault |-> vault, fees |-> pool.fees,
                                  supply |-> pool.supply + minted]]
      /\ after.wallet = [ledger.wallet EXCEPT ![a] = @ - pay["A"],
                                             ![b] = @ - pay["B"], ![p] = @ + minted]
      /\ after = [pools |-> after.pools, wallet |-> after.wallet]
  BY <1>1 DEF Deposited
<1>7. vault \in [Sides -> Nat]
  BY <1>2, <1>3
<1> HIDE DEF vault, minted, a, b, pool
<1>8. [vault |-> vault, fees |-> pool.fees, supply |-> pool.supply + minted] \in PoolState
  BY <1>1, <1>2, <1>4, <1>7 DEF PoolState
<1>9. after.pools \in [Pools -> PoolState]
  BY <1>2, <1>6, <1>8
<1>10. /\ after.wallet[a] = ledger.wallet[a] - pay["A"]
       /\ after.wallet[b] = ledger.wallet[b] - pay["B"]
       /\ after.wallet[p] = ledger.wallet[p] + minted
       /\ ledger.wallet[a] \in Nat /\ ledger.wallet[b] \in Nat /\ ledger.wallet[p] \in Nat
  BY <1>2, <1>5, <1>6
<1>11. after.wallet \in [Tokens -> Nat]
  <2>1. /\ ledger.wallet[a] - pay["A"] \in Nat /\ ledger.wallet[b] - pay["B"] \in Nat
        /\ ledger.wallet[p] + minted \in Nat
    BY <1>3, <1>4, <1>10
  <2> QED BY <1>2, <1>5, <1>6, <2>1
<1>12. after \in Ledgers
  BY <1>6, <1>9, <1>11 DEF Ledgers
<1>13. \A side \in Sides : after.wallet[PoolMint[p][side]]
                           >= ledger.wallet[PoolMint[p][side]] - maximum[side]
  <2>1. after.wallet[a] >= ledger.wallet[a] - maximum["A"]
        /\ after.wallet[b] >= ledger.wallet[b] - maximum["B"]
    BY <1>3, <1>10
  <2> QED BY <1>3, <2>1 DEF a, b
<1>14. after.wallet[p] >= ledger.wallet[p] + minted
  BY <1>4, <1>10
<1> QED BY <1>12, <1>13, <1>14 DEF minted, pool

LEMMA WithdrawTyped ==
  ASSUME NEW ledger \in Ledgers, NEW p \in Pools, NEW n \in Nat, NEW minimum,
         NEW after \in WithdrawInstruction(ledger, p, n, minimum)
  PROVE  after \in Ledgers
<1> DEFINE pool == ledger.pools[p]
           a == PoolMint[p]["A"]
           b == PoolMint[p]["B"]
<1>1. PICK share \in PoolTokensToTradingTokens(n, pool.supply, LpReserves(pool), FALSE) :
             /\ Readable(pool)
             /\ n <= ledger.wallet[p] /\ n <= pool.supply
             /\ after = Withdrawn(ledger, p,
                         [side \in Sides |-> MinOf(LpOwned(pool, side), share[side])], n)
  BY DEF WithdrawInstruction
<1> DEFINE pay == [side \in Sides |-> MinOf(LpOwned(pool, side), share[side])]
<1>2. /\ ledger.wallet \in [Tokens -> Nat] /\ ledger.pools \in [Pools -> PoolState]
      /\ pool \in PoolState /\ pool.vault \in [Sides -> Nat]
      /\ pool.fees \in [Sides -> Nat] /\ pool.supply \in 0 .. U64Max
  BY DEF Ledgers, PoolState
<1>3. "A" \in Sides /\ "B" \in Sides /\ Other("A") = "B"
  BY DEF Sides, Other
<1>4. LpReserves(pool) \in [Sides -> Nat]
      /\ \A side \in Sides : /\ LpOwned(pool, side) \in Nat
                             /\ LpOwned(pool, side) <= pool.vault[side]
  BY <1>1, <1>2, ReservesTyped
<1>5. share \in [Sides -> Nat]
  <2> DEFINE total == pool.supply
             reserve == LpReserves(pool)
  <2>1. total \in Nat /\ reserve \in [Sides -> Nat]
    BY <1>2, <1>4, RouterAssumption
  <2>2. share \in PoolTokensToTradingTokens(n, total, reserve, FALSE)
    BY <1>1
  <2> HIDE DEF total, reserve
  <2> QED BY <1>3, <2>1, <2>2, PoolTokensFacts
<1>6. \A side \in Sides : pay[side] \in Nat /\ pay[side] <= pool.vault[side]
  <2> SUFFICES ASSUME NEW side \in Sides
               PROVE  pay[side] \in Nat /\ pay[side] <= pool.vault[side]
    OBVIOUS
  <2>1. pay[side] = MinOf(LpOwned(pool, side), share[side])
    OBVIOUS
  <2>2. share[side] \in Nat /\ pool.vault[side] \in Nat
    BY <1>2, <1>5
  <2> QED BY <1>4, <2>1, <2>2 DEF MinOf
<1>7. /\ a \in Tokens /\ b \in Tokens /\ p \in Tokens /\ a # b /\ a # p /\ b # p
  BY <1>3, PairFacts
<1> DEFINE vault == [side \in Sides |-> pool.vault[side] - pay[side]]
<1>8. /\ after.pools = [ledger.pools EXCEPT
                          ![p] = [vault |-> vault, fees |-> pool.fees,
                                  supply |-> pool.supply - n]]
      /\ after.wallet = [ledger.wallet EXCEPT ![a] = @ + pay["A"],
                                             ![b] = @ + pay["B"], ![p] = @ - n]
      /\ after = [pools |-> after.pools, wallet |-> after.wallet]
  BY <1>1 DEF Withdrawn
<1>9. vault \in [Sides -> Nat]
  BY <1>2, <1>6
<1> HIDE DEF vault, a, b, pool, pay
<1>10. [vault |-> vault, fees |-> pool.fees, supply |-> pool.supply - n] \in PoolState
  BY <1>1, <1>2, <1>9, RouterAssumption DEF PoolState
<1>11. after.pools \in [Pools -> PoolState]
  BY <1>2, <1>8, <1>10
<1>12. /\ ledger.wallet[a] + pay["A"] \in Nat /\ ledger.wallet[b] + pay["B"] \in Nat
       /\ ledger.wallet[p] - n \in Nat
  BY <1>1, <1>2, <1>3, <1>6, <1>7
<1>13. after.wallet \in [Tokens -> Nat]
  BY <1>2, <1>7, <1>8, <1>12
<1> QED BY <1>8, <1>11, <1>13 DEF Ledgers

-----------------------------------------------------------------------------
(* One leg of a call.                                                      *)

LEMMA LegFacts ==
  ASSUME NEW ledger \in Ledgers, NEW id \in Pools, NEW aToB \in BOOLEAN,
         NEW exactIn \in BOOLEAN, NEW x \in Nat, NEW y \in Nat,
         NEW after \in SwapLeg(ledger, id, aToB, exactIn, x, y)
  PROVE  /\ ~paused
         /\ after \in Ledgers
         /\ SourceMint(id, aToB) \in Mints /\ TargetMint(id, aToB) \in Mints
         /\ SourceMint(id, aToB) # TargetMint(id, aToB)
         /\ Footprint(ledger.wallet, after.wallet, SourceMint(id, aToB),
                      TargetMint(id, aToB), exactIn, x, y)
         /\ \A r \in Pools : after.pools[r].supply = ledger.pools[r].supply
<1>1. ~paused /\ after \in SwapInstruction(ledger, id, SourceSide(id, aToB), exactIn, x, y)
  BY DEF SwapLeg, Resolves
<1>2. SourceSide(id, aToB) \in Sides
  BY DEF SourceSide, Sides
<1>3. /\ SourceMint(id, aToB) \in Mints /\ TargetMint(id, aToB) \in Mints
      /\ SourceMint(id, aToB) # TargetMint(id, aToB)
  BY <1>2, PairFacts DEF SourceMint, TargetMint
<1> DEFINE side == SourceSide(id, aToB)
<1>4. /\ SourceMint(id, aToB) = PoolMint[id][side]
      /\ TargetMint(id, aToB) = PoolMint[id][Other(side)]
  BY DEF SourceMint, TargetMint
<1>5. after \in SwapInstruction(ledger, id, side, exactIn, x, y) /\ side \in Sides
  BY <1>1, <1>2
<1> HIDE DEF side
<1>6. Footprint(ledger.wallet, after.wallet, PoolMint[id][side],
                PoolMint[id][Other(side)], exactIn, x, y)
  BY <1>5, SwapFootprint
<1>7. after \in Ledgers /\ \A r \in Pools : after.pools[r].supply = ledger.pools[r].supply
  BY <1>5, SwapFootprint
<1> QED BY <1>1, <1>3, <1>4, <1>6, <1>7

SupplyOf(ledger, id) == ledger.pools[id].supply

LEMMA LegKeepsSupply ==
  ASSUME NEW ledger \in Ledgers, NEW id \in Pools, NEW aToB \in BOOLEAN,
         NEW exactIn \in BOOLEAN, NEW x \in Nat, NEW y \in Nat,
         NEW after \in SwapLeg(ledger, id, aToB, exactIn, x, y)
  PROVE  SupplyOf(after, id) = SupplyOf(ledger, id)
<1>1. \A r \in Pools : after.pools[r].supply = ledger.pools[r].supply
  BY LegFacts
<1> QED BY <1>1 DEF SupplyOf

LEMMA InputsAreNat ==
  /\ Amounts \subseteq Nat /\ LpAmounts \subseteq Nat /\ Limits \subseteq Nat
  /\ U64Max \in Nat
BY RouterAssumption

LEMMA ModIsNat ==
  ASSUME NEW n \in Nat, NEW m \in Nat
  PROVE  /\ n % (m + 1) \in Nat
         /\ n % (m + 1) <= n
BY Z3

\* The LP amount of a zap: no more than the exact share of what the swap gave.
LEMMA ZapShareFacts ==
  ASSUME NEW got \in Nat, NEW supply \in Nat, NEW reserve \in Nat, reserve > 0
  PROVE  /\ ZapShare(got, supply, reserve) \in Nat
         /\ reserve * ZapShare(got, supply, reserve) <= got * supply
         /\ supply = 0 => ZapShare(got, supply, reserve) = 0
<1> DEFINE share == (got * supply) \div reserve
           shaved == (share * 999) \div 1000
           cut == shaved % (U64Max + 1)
<1>1. got * supply \in Nat
  BY Z3
<1>2. share \in Nat /\ reserve * share <= got * supply
  <2> DEFINE product == got * supply
  <2>1. product \in Nat
    BY <1>1
  <2> HIDE DEF product
  <2>2. product \div reserve \in Nat /\ reserve * (product \div reserve) <= product
    BY <2>1, DivFacts
  <2> QED BY <2>2 DEF product
<1> HIDE DEF share
<1>3. shaved \in Nat /\ shaved <= share
  <2>1. share * 999 \in Nat
    BY <1>2
  <2>2. shaved \in Nat /\ 1000 * shaved <= share * 999
    BY <2>1, DivFacts
  <2> HIDE DEF shaved
  <2> QED BY <1>2, <2>2
<1> HIDE DEF shaved
<1>4. cut \in Nat /\ cut <= shaved
  BY <1>3, InputsAreNat, ModIsNat
<1>5. cut = ZapShare(got, supply, reserve)
  BY DEF cut, shaved, share, ZapShare
<1> HIDE DEF cut
<1>6. cut <= share
  BY <1>2, <1>3, <1>4
<1>7. reserve * cut <= reserve * share
  <2>1. cut * reserve <= share * reserve
    BY <1>2, <1>4, <1>6, MulMono
  <2> QED BY <1>2, <1>4, <2>1
<1>8. reserve * cut \in Nat /\ reserve * share \in Nat
  BY <1>2, <1>4, Z3
<1>9. reserve * cut <= got * supply
  BY <1>1, <1>2, <1>7, <1>8
<1>10. supply = 0 => cut = 0
  <2> SUFFICES ASSUME supply = 0 PROVE cut = 0
    OBVIOUS
  <2>1. got * supply = 0
    OBVIOUS
  <2>2. share = 0
    BY <1>2, <2>1, Z3
  <2> QED BY <1>4, <1>6, <2>2
<1> QED BY <1>4, <1>5, <1>9, <1>10

\* The ceiling the pool charges for the LP amount of a zap is within what the
\* swap gave, for every pool and every amount.
THEOREM ZapShareCovered ==
  ASSUME NEW got \in Nat, NEW supply \in Nat, NEW reserve \in Nat,
         reserve > 0, supply > 0
  PROVE  CeilDiv(ZapShare(got, supply, reserve) * reserve, supply) <= got
<1> DEFINE lp == ZapShare(got, supply, reserve)
<1>1. lp \in Nat /\ reserve * lp <= got * supply
  BY ZapShareFacts
<1> HIDE DEF lp
<1>2. lp * reserve \in Nat /\ lp * reserve <= supply * got
  <2>1. lp * reserve = reserve * lp /\ supply * got = got * supply
    BY <1>1
  <2>2. lp * reserve \in Nat
    BY <1>1, Z3
  <2> QED BY <1>1, <2>1, <2>2
<1> DEFINE n == lp * reserve
<1>3. n \in Nat /\ n <= supply * got
  BY <1>2
<1> HIDE DEF n
<1>4. CeilDiv(n, supply) <= got
  BY <1>3, CeilDivLeast
<1> QED BY <1>4 DEF n, lp

\* Rounded up, the share of a side is its ceiling or nothing.
LEMMA ShareOrNothing ==
  ASSUME NEW lp \in Nat, NEW supply \in Nat, supply > 0, NEW reserves,
         NEW side \in DOMAIN reserves, reserves[side] \in Nat,
         NEW pay \in PoolTokensToTradingTokens(lp, supply, reserves, TRUE)
  PROVE  pay[side] = 0 \/ pay[side] = CeilDiv(lp * reserves[side], supply)
<1> DEFINE floor(r) == (lp * r) \div supply
           share(r) == IF TRUE /\ floor(r) > 0 THEN CeilDiv(lp * r, supply) ELSE floor(r)
<1>1. pay = [s \in DOMAIN reserves |-> share(reserves[s])]
  BY DEF PoolTokensToTradingTokens, Some
<1>2. pay[side] = share(reserves[side])
  <2> HIDE DEF share
  <2> QED BY <1>1
<1> DEFINE r == reserves[side]
<1>3. r \in Nat
  OBVIOUS
<1> HIDE DEF r
<1>4. floor(r) \in Nat
  <2>1. lp * r \in Nat
    BY <1>3
  <2> QED BY <2>1, DivFacts
<1>5. share(r) = 0 \/ share(r) = CeilDiv(lp * r, supply)
  BY <1>4
<1> HIDE DEF share
<1> QED BY <1>2, <1>5 DEF r

\* What the floors and the shave cost: less than the worth of two LP tokens.
LEMMA ZapShareLoss ==
  ASSUME NEW got \in Nat, NEW supply \in Nat, NEW reserve \in Nat, reserve > 0,
         (got * supply) \div reserve <= U64Max
  PROVE  999 * (got * supply) <= 1000 * (reserve * ZapShare(got, supply, reserve))
                                  + 2000 * reserve
<1> DEFINE product == got * supply
           share == product \div reserve
           shaved == (share * 999) \div 1000
<1>1. product \in Nat
  BY Z3
<1> HIDE DEF product
<1>2. share \in Nat /\ product < reserve * share + reserve
  BY <1>1, DivFacts
<1>3. share <= U64Max
  BY DEF product
<1> HIDE DEF share
<1>4. shaved \in Nat /\ 999 * share < 1000 * shaved + 1000 /\ shaved <= share
  <2>1. share * 999 \in Nat
    BY <1>2
  <2>2. shaved \in Nat /\ share * 999 < 1000 * shaved + 1000 /\ 1000 * shaved <= share * 999
    BY <2>1, DivFacts
  <2> HIDE DEF shaved
  <2> QED BY <1>2, <2>2
<1> HIDE DEF shaved
<1>5. shaved % (U64Max + 1) = shaved
  BY <1>3, <1>4, <1>2, InputsAreNat
<1>6. ZapShare(got, supply, reserve) = shaved
  BY <1>5 DEF ZapShare, shaved, share, product
<1>7. (999 * share) * reserve <= (1000 * shaved + 1000) * reserve
  BY <1>2, <1>4, MulMono
<1>8. 999 * (reserve * share) <= 1000 * (reserve * shaved) + 1000 * reserve
  BY <1>2, <1>4, <1>7, Z3
<1>9. reserve * share \in Nat /\ reserve * shaved \in Nat
  BY <1>2, <1>4, Z3
<1>10. 999 * product <= 1000 * (reserve * shaved) + 2000 * reserve
  BY <1>1, <1>2, <1>8, <1>9
<1> QED BY <1>6, <1>10 DEF product

LEMMA ZapShareDust ==
  ASSUME NEW got \in Nat, NEW supply \in Nat, NEW reserve \in Nat,
         reserve > 0, supply > 0, (got * supply) \div reserve <= U64Max
  PROVE  1000 * supply * (got - CeilDiv(ZapShare(got, supply, reserve) * reserve, supply))
           <= got * supply + 2000 * reserve
<1> DEFINE lp == ZapShare(got, supply, reserve)
           paid == CeilDiv(lp * reserve, supply)
<1>1. lp \in Nat /\ 999 * (got * supply) <= 1000 * (reserve * lp) + 2000 * reserve
  BY ZapShareFacts, ZapShareLoss
<1> HIDE DEF lp
<1>2. lp * reserve \in Nat /\ lp * reserve = reserve * lp
  BY <1>1, Z3
<1> DEFINE n == lp * reserve
<1>3. CeilDiv(n, supply) \in Nat /\ n <= supply * CeilDiv(n, supply)
  <2>1. n \in Nat
    BY <1>2
  <2> HIDE DEF n
  <2> QED BY <2>1, CeilDivFacts
<1>4. paid \in Nat /\ reserve * lp <= supply * paid
  BY <1>2, <1>3
<1> HIDE DEF paid
<1>5. 1000 * supply * (got - paid) = 1000 * (got * supply) - 1000 * (supply * paid)
  BY <1>4, Z3
<1>6. /\ got * supply \in Nat /\ supply * paid \in Nat /\ reserve * lp \in Nat
  BY <1>1, <1>4, Z3
<1>7. 1000 * supply * (got - paid) <= got * supply + 2000 * reserve
  BY <1>1, <1>4, <1>5, <1>6
<1> QED BY <1>7 DEF paid, lp

-----------------------------------------------------------------------------
(* Calls.                                                                  *)

LEMMA LedgerTyped ==
  TypeOK <=> /\ owner \in Accounts
             /\ {pendingOwner, pauser} \subseteq Accounts \cup {Nobody}
             /\ {frozen, paused} \subseteq BOOLEAN
             /\ rows \in [Pools -> Rows]
             /\ Ledger \in Ledgers
BY DEF TypeOK, Ledger, Ledgers

LEMMA CommitTyped ==
  ASSUME TypeOK, NEW after \in Ledgers, Commit(after)
  PROVE  TypeOK'
BY DEF TypeOK, Commit, Ledgers, control

\* A zap is a swap and a deposit of what it gave; every balance in between is
\* a balance.
LEMMA ZapFacts ==
  ASSUME TypeOK, NEW id \in Pools, NEW aToB \in BOOLEAN, NEW x \in Nat,
         NEW minLp \in Nat, NEW maxOther \in Nat, ZapIn(id, aToB, x, minLp, maxOther)
  PROVE  /\ ~paused
         /\ \E last \in Ledgers :
              /\ Commit(last)
              /\ last.wallet[id] >= wallet[id] + minLp
              /\ last.wallet[TargetMint(id, aToB)] >= wallet[TargetMint(id, aToB)]
              /\ last.wallet[SourceMint(id, aToB)]
                   >= wallet[SourceMint(id, aToB)] - x - maxOther
<1> DEFINE in == SourceMint(id, aToB)
           out == TargetMint(id, aToB)
<1>1. PICK after \in SwapLeg(Ledger, id, aToB, TRUE, x, 1) :
        LET got == Received(Ledger, after, out)
        IN  \E lp \in ZapLp(after.pools[id], id, aToB, got) :
              /\ lp >= minLp
              /\ Resolves(id) /\ rows[id] = "right"
              /\ \E last \in DepositInstruction(after, id, lp,
                                                ZapMaximum(aToB, got, maxOther)) :
                   Commit(last)
  BY DEF ZapIn
<1> DEFINE got == Received(Ledger, after, out)
<1>2. Ledger \in Ledgers /\ 1 \in Nat /\ TRUE \in BOOLEAN /\ Ledger.wallet = wallet
  BY LedgerTyped DEF Ledger
<1>3. /\ ~paused
      /\ after \in Ledgers
      /\ in \in Mints /\ out \in Mints /\ in # out
      /\ Footprint(wallet, after.wallet, in, out, TRUE, x, 1)
  BY <1>2, LegFacts
<1>4. /\ in \in Tokens /\ out \in Tokens /\ id \in Tokens
      /\ id # in /\ id # out
  BY <1>3, RouterAssumption DEF Tokens
<1>5. /\ wallet \in [Tokens -> Nat] /\ after.wallet \in [Tokens -> Nat]
      /\ after.pools \in [Pools -> PoolState]
  BY <1>3 DEF TypeOK, Ledgers
<1>5a. PICK lp \in ZapLp(after.pools[id], id, aToB, got) :
        /\ lp >= minLp /\ rows[id] = "right"
        /\ \E last \in DepositInstruction(after, id, lp, ZapMaximum(aToB, got, maxOther)) :
             Commit(last)
  BY <1>1
<1>6. PICK last \in DepositInstruction(after, id, lp, ZapMaximum(aToB, got, maxOther)) :
        lp >= minLp /\ rows[id] = "right" /\ Commit(last)
  BY <1>5a
<1> HIDE DEF in, out
<1>7. /\ got \in Nat
      /\ after.wallet[id] = wallet[id]
      /\ after.wallet[in] >= wallet[in] - x
      /\ after.wallet[out] = wallet[out] + got
  <2>1. PICK paid \in Nat, received \in Nat :
          /\ paid <= x
          /\ \A t \in Tokens : after.wallet[t] =
               IF t = in THEN wallet[t] - paid
               ELSE IF t = out THEN wallet[t] + received ELSE wallet[t]
    BY <1>3 DEF Footprint
  <2>2. /\ after.wallet[id] = wallet[id]
        /\ after.wallet[in] = wallet[in] - paid
        /\ after.wallet[out] = wallet[out] + received
    BY <1>3, <1>4, <2>1
  <2>3. wallet[in] \in Nat /\ wallet[out] \in Nat
    BY <1>4, <1>5
  <2>4. got = after.wallet[out] - wallet[out]
    BY DEF Received, Ledger
  <2> QED BY <2>1, <2>2, <2>3, <2>4
<1> HIDE DEF got
<1> DEFINE pool == after.pools[id]
           side == Other(SourceSide(id, aToB))
           maximum == ZapMaximum(aToB, got, maxOther)
<1>8. lp \in Nat /\ (pool.supply = 0 => lp = 0)
  <2> DEFINE left == pool.vault[side] - pool.fees[IF aToB THEN "B" ELSE "A"]
  <2>1. pool.supply \in Nat /\ left \in Int
    <3>1. /\ pool.vault \in [Sides -> Nat] /\ pool.fees \in [Sides -> Nat]
          /\ pool.supply \in 0 .. U64Max
      BY <1>5 DEF PoolState
    <3>2. side \in Sides /\ (IF aToB THEN "B" ELSE "A") \in Sides
      BY DEF SourceSide, Other, Sides
    <3> QED BY <3>1, <3>2, InputsAreNat
  <2>2. left > 0 /\ lp = ZapShare(got, pool.supply, left)
    BY <1>5a, <2>1 DEF ZapLp, None, Some
  <2> HIDE DEF left
  <2>3. left \in Nat
    BY <2>1, <2>2
  <2> QED BY <1>7, <2>1, <2>2, <2>3, ZapShareFacts
<1>9. \A s \in Sides : maximum[s] \in Nat
  BY <1>7 DEF ZapMaximum, Sides
<1>10. rows[id] = "right" => /\ in = PoolMint[id][IF aToB THEN "A" ELSE "B"]
                            /\ out = PoolMint[id][IF aToB THEN "B" ELSE "A"]
  BY DEF in, out, SourceMint, TargetMint, SourceSide, Other
<1>11. /\ maximum[IF aToB THEN "B" ELSE "A"] = got
       /\ maximum[IF aToB THEN "A" ELSE "B"] = maxOther
  BY DEF ZapMaximum, Sides
<1> HIDE DEF maximum
<1>12. last \in DepositInstruction(after, id, lp, maximum)
  BY <1>6 DEF maximum
<1>13. /\ last \in Ledgers
       /\ last.wallet[id] >= after.wallet[id] + (IF pool.supply > 0 THEN lp ELSE InitialSupply)
       /\ \A s \in Sides : last.wallet[PoolMint[id][s]]
                           >= after.wallet[PoolMint[id][s]] - maximum[s]
  BY <1>3, <1>8, <1>9, <1>12, DepositFootprint
<1>14. /\ last.wallet[out] >= after.wallet[out] - got
       /\ last.wallet[in] >= after.wallet[in] - maxOther
  <2>1. (IF aToB THEN "A" ELSE "B") \in Sides /\ (IF aToB THEN "B" ELSE "A") \in Sides
    BY DEF Sides
  <2> QED BY <1>6, <1>10, <1>11, <1>13, <2>1
<1>15. /\ last.wallet[out] \in Nat /\ last.wallet[in] \in Nat /\ last.wallet[id] \in Nat
       /\ wallet[out] \in Nat /\ wallet[in] \in Nat /\ wallet[id] \in Nat
       /\ after.wallet[in] \in Nat
  BY <1>4, <1>5, <1>13 DEF Ledgers
<1>16. last.wallet[id] >= wallet[id] + minLp
  <2>1. pool.supply \in Nat
    BY <1>5, InputsAreNat DEF PoolState
  <2>2. InitialSupply \in Nat
    BY RouterAssumption
  <2> HIDE DEF pool
  <2>3. CASE pool.supply > 0
    BY <1>6, <1>7, <1>8, <1>13, <1>15, <2>3
  <2>4. CASE pool.supply = 0
    BY <1>6, <1>7, <1>8, <1>13, <1>15, <2>2, <2>4
  <2> QED BY <2>1, <2>3, <2>4
<1>17. last.wallet[out] >= wallet[out] /\ last.wallet[in] >= wallet[in] - x - maxOther
  BY <1>7, <1>14, <1>15
<1> QED BY <1>3, <1>6, <1>13, <1>16, <1>17 DEF in, out

\* The two legs a route is made of, n being what passes between them.
RouteLegs(id1, aToB1, id2, aToB2, x, y) ==
  \E hop, last \in Ledgers, n \in Nat :
    /\ Commit(last)
    /\ SourceMint(id1, aToB1) \in Tokens /\ TargetMint(id1, aToB1) \in Tokens
    /\ SourceMint(id2, aToB2) \in Tokens /\ TargetMint(id2, aToB2) \in Tokens
    /\ SourceMint(id1, aToB1) # TargetMint(id1, aToB1)
    /\ SourceMint(id2, aToB2) # TargetMint(id2, aToB2)
    /\ hop.wallet[TargetMint(id1, aToB1)] = wallet[TargetMint(id1, aToB1)] + n
    /\ Footprint(wallet, hop.wallet, SourceMint(id1, aToB1),
                 TargetMint(id1, aToB1), TRUE, x, 1)
    /\ Footprint(hop.wallet, last.wallet, SourceMint(id2, aToB2),
                 TargetMint(id2, aToB2), TRUE, n, y)

LEMMA RouteFacts ==
  ASSUME TypeOK, NEW id1 \in Pools, NEW id2 \in Pools, NEW aToB1 \in BOOLEAN,
         NEW aToB2 \in BOOLEAN, NEW x \in Nat, NEW y \in Nat,
         Route(id1, aToB1, id2, aToB2, x, y)
  PROVE  /\ ~paused
         /\ RouteLegs(id1, aToB1, id2, aToB2, x, y)
<1> DEFINE in == SourceMint(id1, aToB1)
           mid == TargetMint(id1, aToB1)
<1>1. PICK hop \in SwapLeg(Ledger, id1, aToB1, TRUE, x, 1) :
        \E last \in SwapLeg(hop, id2, aToB2, TRUE, Middle(Ledger, hop, mid), y) :
          Commit(last)
  BY DEF Route
<1>2. Ledger \in Ledgers /\ 1 \in Nat /\ TRUE \in BOOLEAN /\ Ledger.wallet = wallet
  BY LedgerTyped DEF Ledger
<1>3. /\ ~paused /\ hop \in Ledgers
      /\ in \in Mints /\ mid \in Mints /\ in # mid
      /\ Footprint(wallet, hop.wallet, in, mid, TRUE, x, 1)
  BY <1>2, LegFacts
<1> DEFINE n == Middle(Ledger, hop, mid)
<1>4. n \in Nat /\ hop.wallet[mid] = wallet[mid] + n
  <2> HIDE DEF in, mid
  <2>1. in \in Tokens /\ mid \in Tokens
    BY <1>3 DEF Tokens
  <2>2. wallet[mid] \in Nat
    BY <2>1 DEF TypeOK
  <2>3. PICK paid \in Nat, got \in Nat : hop.wallet[mid] = wallet[mid] + got
    BY <1>3, <2>1 DEF Footprint
  <2> QED BY <2>2, <2>3 DEF Middle, Ledger
<1>5. PICK last \in SwapLeg(hop, id2, aToB2, TRUE, n, y) : Commit(last)
  BY <1>1
<1> HIDE DEF n
<1>6. /\ last \in Ledgers
      /\ SourceMint(id2, aToB2) \in Mints /\ TargetMint(id2, aToB2) \in Mints
      /\ SourceMint(id2, aToB2) # TargetMint(id2, aToB2)
      /\ Footprint(hop.wallet, last.wallet, SourceMint(id2, aToB2),
                   TargetMint(id2, aToB2), TRUE, n, y)
  BY <1>2, <1>3, <1>4, <1>5, LegFacts
<1> QED BY <1>3, <1>4, <1>5, <1>6 DEF Tokens, RouteLegs

-----------------------------------------------------------------------------
(* Theorems.                                                               *)

\* Types, for which the owner is never the zero address: every balance,
\* counter and supply is a number after any sequence of calls.
THEOREM RouterTypeOK == Spec => []TypeOK
<1>1. Init => TypeOK
  <2> SUFFICES ASSUME Init PROVE TypeOK
    OBVIOUS
  <2>1. Funding \in Nat /\ InitialSupply \in 0 .. U64Max /\ Endowment \in Nat
    BY RouterAssumption
  <2> QED BY <2>1 DEF Init, TypeOK, PoolState, Rows
<1>2. TypeOK /\ [Next]_vars => TypeOK'
  <2> SUFFICES ASSUME TypeOK, [Next]_vars PROVE TypeOK'
    OBVIOUS
  <2>1. CASE UNCHANGED vars
    BY <2>1 DEF TypeOK, vars, control
  <2>2. CASE OwnerCalls
    <3> PICK sender \in Accounts :
          \/ \E id \in Pools : \/ \E row \in Rows \ {"none"} : RegisterPool(sender, id, row)
                               \/ UnregisterPool(sender, id)
          \/ Freeze(sender) \/ Pause(sender) \/ Unpause(sender)
          \/ \E a \in Accounts \cup {Nobody} : SetPauser(sender, a) \/ TransferOwnership(sender, a)
          \/ AcceptOwnership(sender)
      BY <2>2 DEF OwnerCalls
    <3>1. ASSUME NEW id \in Pools, NEW row \in Rows, RegisterPool(sender, id, row)
          PROVE  TypeOK'
      BY <3>1 DEF TypeOK, RegisterPool
    <3>2. ASSUME NEW id \in Pools, UnregisterPool(sender, id) PROVE TypeOK'
      BY <3>2 DEF TypeOK, UnregisterPool, Rows
    <3>3. CASE Freeze(sender)
      BY <3>3 DEF TypeOK, Freeze
    <3>4. CASE Pause(sender) \/ Unpause(sender)
      BY <3>4 DEF TypeOK, Pause, Unpause
    <3>5. ASSUME NEW a \in Accounts \cup {Nobody},
                 SetPauser(sender, a) \/ TransferOwnership(sender, a)
          PROVE  TypeOK'
      BY <3>5 DEF TypeOK, SetPauser, TransferOwnership
    <3>6. CASE AcceptOwnership(sender)
      BY <3>6 DEF TypeOK, AcceptOwnership
    <3> QED BY <3>1, <3>2, <3>3, <3>4, <3>5, <3>6
  <2>3. CASE UserCalls
    <3>1. Ledger \in Ledgers
      BY LedgerTyped
    <3>2. ASSUME NEW id \in Pools, NEW aToB \in BOOLEAN, NEW x \in Amounts, NEW y \in Limits,
                 SwapExactIn(id, aToB, x, y) \/ SwapExactOut(id, aToB, x, y)
          PROVE  TypeOK'
      <4>1. PICK exactIn \in BOOLEAN : \E after \in SwapLeg(Ledger, id, aToB, exactIn, x, y) :
                   Commit(after)
        BY <3>2 DEF SwapExactIn, SwapExactOut
      <4>2. PICK after \in SwapLeg(Ledger, id, aToB, exactIn, x, y) : Commit(after)
        BY <4>1
      <4>3. after \in Ledgers
        BY <3>1, <4>2, InputsAreNat, LegFacts
      <4> QED BY <4>2, <4>3, CommitTyped
    <3>3. ASSUME NEW id \in Pools, NEW aToB \in BOOLEAN, NEW x \in Amounts, NEW y \in Limits,
                 NEW minLp \in Limits, ZapIn(id, aToB, x, minLp, y)
          PROVE  TypeOK'
      <4>1. PICK last \in Ledgers : Commit(last)
        BY <3>3, InputsAreNat, ZapFacts
      <4> QED BY <4>1, CommitTyped
    <3>4. ASSUME NEW id \in Pools, NEW aToB \in BOOLEAN, NEW x \in Amounts, NEW y \in Limits,
                 NEW id2 \in Pools, NEW aToB2 \in BOOLEAN, Route(id, aToB, id2, aToB2, x, y)
          PROVE  TypeOK'
      <4>1. RouteLegs(id, aToB, id2, aToB2, x, y)
        BY <3>4, InputsAreNat, RouteFacts
      <4>2. PICK last \in Ledgers : Commit(last)
        BY <4>1 DEF RouteLegs
      <4> QED BY <4>2, CommitTyped
    <3>5. ASSUME NEW id \in Pools, NEW n \in LpAmounts, NEW bound \in Bounds,
                 AddLiquidity(id, n, bound)
          PROVE  TypeOK'
      <4>1. PICK after \in DepositInstruction(Ledger, id, n, bound) : Commit(after)
        BY <3>5 DEF AddLiquidity
      <4>2. n \in Nat /\ \A side \in Sides : bound[side] \in Nat
        BY InputsAreNat DEF Bounds
      <4>3. after \in Ledgers
        BY <3>1, <4>1, <4>2, DepositFootprint
      <4> QED BY <4>1, <4>3, CommitTyped
    <3>6. ASSUME NEW id \in Pools, NEW n \in LpAmounts, NEW bound \in Bounds,
                 RemoveLiquidity(id, n, bound)
          PROVE  TypeOK'
      <4>1. PICK after \in WithdrawInstruction(Ledger, id, n, bound) : Commit(after)
        BY <3>6 DEF RemoveLiquidity
      <4>2. after \in Ledgers
        BY <3>1, <4>1, InputsAreNat, WithdrawTyped
      <4> QED BY <4>1, <4>2, CommitTyped
    <3> QED BY <2>3, <3>2, <3>3, <3>4, <3>5, <3>6 DEF UserCalls
  <2>4. CASE Elsewhere
    <3>1. \A p \in Pools : /\ pools[p] \in PoolState
                           /\ pools[p].vault \in [Sides -> Nat]
                           /\ pools[p].fees \in [Sides -> Nat]
                           /\ pools[p].supply \in 0 .. U64Max
      BY DEF TypeOK, PoolState
    <3>2. ASSUME NEW p \in Pools, NEW pool \in PoolState,
                 pools' = [pools EXCEPT ![p] = pool], UNCHANGED <<control, wallet>>
          PROVE  TypeOK'
      BY <3>2 DEF TypeOK, control
    <3>3. ASSUME NEW p \in Pools, NEW side \in Sides, NEW n \in Amounts, ElsewhereSwap(p, side, n)
          PROVE  TypeOK'
      <4>1. PICK q \in Quotes(pools[p], side, TRUE, n) :
              /\ Readable(pools[p])
              /\ pools' = [pools EXCEPT ![p] = SwappedPool(pools[p], side, q)]
              /\ UNCHANGED <<control, wallet>>
        BY <3>3 DEF ElsewhereSwap
      <4>2. SwappedPool(pools[p], side, q) \in PoolState
        <5> DEFINE pool == pools[p]
        <5>1. pool \in PoolState /\ Readable(pool) /\ q \in Quotes(pool, side, TRUE, n)
          BY <3>1, <4>1
        <5> HIDE DEF pool
        <5>2. SwappedPool(pool, side, q) \in PoolState
          BY <5>1, InputsAreNat, QuoteFacts, SwappedPoolTyped
        <5> QED BY <5>2 DEF pool
      <4> QED BY <3>2, <4>1, <4>2
    <3>4. ASSUME NEW p \in Pools, NEW n \in LpAmounts, ElsewhereBurn(p, n)
          PROVE  TypeOK'
      <4> DEFINE pool == [vault |-> pools[p].vault, fees |-> pools[p].fees,
                          supply |-> pools[p].supply - n]
      <4>1. pools[p].supply - n \in 0 .. U64Max
        <5>1. wallet[p] \in Nat /\ n \in Nat
          BY InputsAreNat DEF TypeOK, Tokens
        <5> QED BY <3>1, <3>4, <5>1, InputsAreNat DEF ElsewhereBurn
      <4>2. pool \in PoolState
        BY <3>1, <4>1 DEF PoolState
      <4>3. pools' = [pools EXCEPT ![p] = pool] /\ UNCHANGED <<control, wallet>>
        BY <3>4 DEF ElsewhereBurn
      <4> HIDE DEF pool
      <4> QED BY <3>2, <4>2, <4>3
    <3>5. ASSUME NEW p \in Pools, ElsewhereCollect(p)
          PROVE  TypeOK'
      <4> DEFINE pool == [vault |-> LpReserves(pools[p]), fees |-> [side \in Sides |-> 0],
                          supply |-> pools[p].supply]
      <4>1. LpReserves(pools[p]) \in [Sides -> Nat]
        BY <3>1, <3>5, ReservesTyped DEF ElsewhereCollect
      <4>2. pool \in PoolState
        BY <3>1, <4>1 DEF PoolState
      <4>3. pools' = [pools EXCEPT ![p] = pool] /\ UNCHANGED <<control, wallet>>
        BY <3>5 DEF ElsewhereCollect
      <4> HIDE DEF pool
      <4> QED BY <3>2, <4>2, <4>3
    <3> QED BY <2>4, <3>3, <3>4, <3>5 DEF Elsewhere
  <2> QED BY <2>1, <2>2, <2>3, <2>4 DEF Next
<1> QED BY <1>1, <1>2, PTL DEF Spec

\* While the pause is on no call moves a token of the user: every call of the
\* user resolves a pool, directly or in a leg.
THEOREM RouterPauseStopsTrading == Spec => PauseStopsTrading
<1>1. TypeOK /\ [Next]_vars => [paused => wallet' = wallet]_vars
  <2> SUFFICES ASSUME TypeOK, [Next]_vars, paused PROVE wallet' = wallet
    OBVIOUS
  <2>1. CASE UNCHANGED vars
    BY <2>1 DEF vars
  <2>2. CASE OwnerCalls
    BY <2>2 DEF OwnerCalls, RegisterPool, UnregisterPool, Freeze, Pause, Unpause,
                SetPauser, TransferOwnership, AcceptOwnership
  <2>3. CASE UserCalls
    <3>1. ASSUME NEW id \in Pools, NEW aToB \in BOOLEAN, NEW x \in Amounts, NEW y \in Limits
          PROVE  ~SwapExactIn(id, aToB, x, y) /\ ~SwapExactOut(id, aToB, x, y)
      BY DEF SwapExactIn, SwapExactOut, SwapLeg, Resolves
    <3>2. ASSUME NEW id \in Pools, NEW aToB \in BOOLEAN, NEW x \in Amounts, NEW y \in Limits,
                 NEW minLp \in Limits
          PROVE  ~ZapIn(id, aToB, x, minLp, y)
      BY InputsAreNat, ZapFacts
    <3>3. ASSUME NEW id \in Pools, NEW aToB \in BOOLEAN, NEW x \in Amounts, NEW y \in Limits,
                 NEW id2 \in Pools, NEW aToB2 \in BOOLEAN
          PROVE  ~Route(id, aToB, id2, aToB2, x, y)
      BY DEF Route, Resolves
    <3>4. ASSUME NEW id \in Pools, NEW n \in LpAmounts, NEW bound \in Bounds
          PROVE  ~AddLiquidity(id, n, bound) /\ ~RemoveLiquidity(id, n, bound)
      BY DEF AddLiquidity, RemoveLiquidity, Resolves
    <3> QED BY <2>3, <3>1, <3>2, <3>3, <3>4 DEF UserCalls
  <2>4. CASE Elsewhere
    BY <2>4 DEF Elsewhere, ElsewhereSwap, ElsewhereBurn, ElsewhereCollect
  <2> QED BY <2>1, <2>2, <2>3, <2>4 DEF Next
<1> QED BY <1>1, RouterTypeOK, PTL DEF Spec, PauseStopsTrading

LEMMA UserCallsKeepControl ==
  ASSUME UserCalls
  PROVE  UNCHANGED control
<1>1. ASSUME NEW ledger, Commit(ledger) PROVE UNCHANGED control
  BY <1>1 DEF Commit
<1>2. ASSUME NEW id \in Pools, NEW aToB \in BOOLEAN, NEW x \in Amounts, NEW y \in Limits,
             SwapExactIn(id, aToB, x, y) \/ SwapExactOut(id, aToB, x, y)
      PROVE  UNCHANGED control
  <2>1. \E after : Commit(after)
    BY <1>2 DEF SwapExactIn, SwapExactOut
  <2> QED BY <2>1, <1>1
<1>3. ASSUME NEW id \in Pools, NEW aToB \in BOOLEAN, NEW x \in Amounts, NEW y \in Limits,
             NEW minLp \in Limits, ZapIn(id, aToB, x, minLp, y)
      PROVE  UNCHANGED control
  <2>1. \E last : Commit(last)
    BY <1>3 DEF ZapIn
  <2> QED BY <2>1, <1>1
<1>4. ASSUME NEW id \in Pools, NEW aToB \in BOOLEAN, NEW x \in Amounts, NEW y \in Limits,
             NEW id2 \in Pools, NEW aToB2 \in BOOLEAN, Route(id, aToB, id2, aToB2, x, y)
      PROVE  UNCHANGED control
  <2>1. \E last : Commit(last)
    BY <1>4 DEF Route
  <2> QED BY <2>1, <1>1
<1>5. ASSUME NEW id \in Pools, NEW lp \in LpAmounts, NEW bound \in Bounds,
             AddLiquidity(id, lp, bound) \/ RemoveLiquidity(id, lp, bound)
      PROVE  UNCHANGED control
  <2>1. \E last : Commit(last)
    BY <1>5 DEF AddLiquidity, RemoveLiquidity
  <2> QED BY <2>1, <1>1
<1> QED BY <1>2, <1>3, <1>4, <1>5 DEF UserCalls

\* Nothing undoes the freeze, and no row changes under it.
THEOREM RouterFrozenForEver == Spec => FrozenForEver
<1>1. [Next]_vars => [frozen => frozen' /\ rows' = rows]_vars
  <2> SUFFICES ASSUME [Next]_vars, frozen PROVE frozen' /\ rows' = rows
    OBVIOUS
  <2>1. CASE UNCHANGED vars
    BY <2>1 DEF vars, control
  <2>2. CASE OwnerCalls
    BY <2>2 DEF OwnerCalls, RegisterPool, UnregisterPool, Freeze, Pause, Unpause,
                SetPauser, TransferOwnership, AcceptOwnership
  <2>3. CASE UserCalls
    BY <2>3, UserCallsKeepControl DEF control
  <2>4. CASE Elsewhere
    BY <2>4 DEF Elsewhere, ElsewhereSwap, ElsewhereBurn, ElsewhereCollect, control
  <2> QED BY <2>1, <2>2, <2>3, <2>4 DEF Next
<1> QED BY <1>1, PTL DEF Spec, FrozenForEver

\* The bounds a caller states hold of the caller's balances, for any fees and
\* in any state of the pools.
THEOREM RouterBoundsHonoured == Spec => BoundsHonoured
<1> DEFINE Honoured ==
      wallet' # wallet =>
      \A id \in Pools, aToB \in BOOLEAN, x \in Amounts, y \in Limits :
        LET in  == SourceMint(id, aToB)
            out == TargetMint(id, aToB)
        IN  /\ SwapExactIn(id, aToB, x, y) =>
                 wallet'[out] >= wallet[out] + y /\ wallet'[in] >= wallet[in] - x
            /\ SwapExactOut(id, aToB, x, y) =>
                 wallet'[out] = wallet[out] + x /\ wallet'[in] >= wallet[in] - y
            /\ \A minLp \in Limits : ZapIn(id, aToB, x, minLp, y) =>
                 /\ wallet'[id] >= wallet[id] + minLp
                 /\ wallet'[out] >= wallet[out]
                 /\ wallet'[in] >= wallet[in] - x - y
<1>1. TypeOK => Honoured
  <2> SUFFICES ASSUME TypeOK, NEW id \in Pools, NEW aToB \in BOOLEAN,
                      NEW x \in Amounts, NEW y \in Limits
               PROVE  LET in  == SourceMint(id, aToB)
                          out == TargetMint(id, aToB)
                      IN  /\ SwapExactIn(id, aToB, x, y) =>
                               wallet'[out] >= wallet[out] + y /\ wallet'[in] >= wallet[in] - x
                          /\ SwapExactOut(id, aToB, x, y) =>
                               wallet'[out] = wallet[out] + x /\ wallet'[in] >= wallet[in] - y
                          /\ \A minLp \in Limits : ZapIn(id, aToB, x, minLp, y) =>
                               /\ wallet'[id] >= wallet[id] + minLp
                               /\ wallet'[out] >= wallet[out]
                               /\ wallet'[in] >= wallet[in] - x - y
    OBVIOUS
  <2> DEFINE in == SourceMint(id, aToB)
             out == TargetMint(id, aToB)
  <2>1. Ledger \in Ledgers /\ Ledger.wallet = wallet /\ x \in Nat /\ y \in Nat
    BY LedgerTyped, InputsAreNat DEF Ledger
  <2>2. ASSUME NEW exactIn \in BOOLEAN,
               NEW after \in SwapLeg(Ledger, id, aToB, exactIn, x, y), Commit(after)
        PROVE  IF exactIn
               THEN wallet'[out] >= wallet[out] + y /\ wallet'[in] >= wallet[in] - x
               ELSE wallet'[out] = wallet[out] + x /\ wallet'[in] >= wallet[in] - y
    <3>1. /\ in \in Mints /\ out \in Mints /\ in # out
          /\ Footprint(wallet, after.wallet, in, out, exactIn, x, y)
      BY <2>1, <2>2, LegFacts
    <3> HIDE DEF in, out
    <3>2. /\ in \in Tokens /\ out \in Tokens /\ wallet' = after.wallet
          /\ wallet[in] \in Nat /\ wallet[out] \in Nat
      BY <2>2, <3>1 DEF Tokens, Commit, TypeOK
    <3>3. PICK paid \in Nat, got \in Nat :
            /\ IF exactIn THEN paid <= x /\ got >= y ELSE paid <= y /\ got = x
            /\ wallet'[in] = wallet[in] - paid /\ wallet'[out] = wallet[out] + got
      BY <3>1, <3>2 DEF Footprint
    <3> QED BY <2>1, <3>2, <3>3
  <2>3. SwapExactIn(id, aToB, x, y) =>
          wallet'[out] >= wallet[out] + y /\ wallet'[in] >= wallet[in] - x
    <3> SUFFICES ASSUME SwapExactIn(id, aToB, x, y)
                 PROVE  wallet'[out] >= wallet[out] + y /\ wallet'[in] >= wallet[in] - x
      OBVIOUS
    <3>1. PICK after \in SwapLeg(Ledger, id, aToB, TRUE, x, y) : Commit(after)
      BY DEF SwapExactIn
    <3> HIDE DEF in, out
    <3> QED BY <2>2, <3>1
  <2>4. SwapExactOut(id, aToB, x, y) =>
          wallet'[out] = wallet[out] + x /\ wallet'[in] >= wallet[in] - y
    <3> SUFFICES ASSUME SwapExactOut(id, aToB, x, y)
                 PROVE  wallet'[out] = wallet[out] + x /\ wallet'[in] >= wallet[in] - y
      OBVIOUS
    <3>1. PICK after \in SwapLeg(Ledger, id, aToB, FALSE, x, y) : Commit(after)
      BY DEF SwapExactOut
    <3> HIDE DEF in, out
    <3> QED BY <2>2, <3>1
  <2>5. ASSUME NEW minLp \in Limits, ZapIn(id, aToB, x, minLp, y)
        PROVE  /\ wallet'[id] >= wallet[id] + minLp
               /\ wallet'[out] >= wallet[out]
               /\ wallet'[in] >= wallet[in] - x - y
    <3>1. minLp \in Nat
      BY InputsAreNat
    <3>2. PICK last \in Ledgers :
            /\ Commit(last)
            /\ last.wallet[id] >= wallet[id] + minLp
            /\ last.wallet[out] >= wallet[out]
            /\ last.wallet[in] >= wallet[in] - x - y
      BY <2>1, <2>5, <3>1, ZapFacts
    <3> QED BY <3>2 DEF Commit
  <2> QED BY <2>3, <2>4, <2>5
<1>2. TypeOK /\ [Next]_vars => [Honoured]_vars
  BY <1>1
<1> QED BY <1>2, RouterTypeOK, PTL DEF Spec, BoundsHonoured

\* Connected routes keep to their tokens: the second hop spends what the first
\* one put into the middle account, so what was there before stays.
THEOREM RouterRouteKeepsToItself == Spec => RouteKeepsToItself
<1> DEFINE Kept ==
      wallet' # wallet =>
      \A id1, id2 \in Pools, aToB1, aToB2 \in BOOLEAN, x \in Amounts, y \in Limits :
        LET in  == SourceMint(id1, aToB1)
            mid == TargetMint(id1, aToB1)
            out == TargetMint(id2, aToB2)
        IN  /\ Route(id1, aToB1, id2, aToB2, x, y)
            /\ SourceMint(id2, aToB2) = mid
            => /\ wallet'[mid] >= wallet[mid]
               /\ IF in = out THEN wallet'[in] >= wallet[in] - x + y
                  ELSE wallet'[in] >= wallet[in] - x /\ wallet'[out] >= wallet[out] + y
<1>1. TypeOK => Kept
  <2> SUFFICES ASSUME TypeOK, NEW id1 \in Pools, NEW id2 \in Pools,
                      NEW aToB1 \in BOOLEAN, NEW aToB2 \in BOOLEAN,
                      NEW x \in Amounts, NEW y \in Limits,
                      Route(id1, aToB1, id2, aToB2, x, y)
               PROVE  SourceMint(id2, aToB2) = TargetMint(id1, aToB1) =>
                      LET in  == SourceMint(id1, aToB1)
                          mid == TargetMint(id1, aToB1)
                          out == TargetMint(id2, aToB2)
                      IN  /\ wallet'[mid] >= wallet[mid]
                          /\ IF in = out THEN wallet'[in] >= wallet[in] - x + y
                             ELSE wallet'[in] >= wallet[in] - x /\ wallet'[out] >= wallet[out] + y
    OBVIOUS
  <2> HIDE DEF Kept
  <2>1. x \in Nat /\ y \in Nat
    BY InputsAreNat
  <2>9. PICK hop \in Ledgers, last \in Ledgers, n \in Nat :
          /\ Commit(last)
          /\ SourceMint(id1, aToB1) \in Tokens /\ TargetMint(id1, aToB1) \in Tokens
          /\ SourceMint(id2, aToB2) \in Tokens /\ TargetMint(id2, aToB2) \in Tokens
          /\ SourceMint(id1, aToB1) # TargetMint(id1, aToB1)
          /\ SourceMint(id2, aToB2) # TargetMint(id2, aToB2)
          /\ hop.wallet[TargetMint(id1, aToB1)] = wallet[TargetMint(id1, aToB1)] + n
          /\ Footprint(wallet, hop.wallet, SourceMint(id1, aToB1),
                       TargetMint(id1, aToB1), TRUE, x, 1)
          /\ Footprint(hop.wallet, last.wallet, SourceMint(id2, aToB2),
                       TargetMint(id2, aToB2), TRUE, n, y)
    <3>1. RouteLegs(id1, aToB1, id2, aToB2, x, y)
      BY <2>1, RouteFacts
    <3> QED BY <3>1, Zenon DEF RouteLegs
  <2>8. HAVE SourceMint(id2, aToB2) = TargetMint(id1, aToB1)
  <2> DEFINE in == SourceMint(id1, aToB1)
             mid == TargetMint(id1, aToB1)
             out == TargetMint(id2, aToB2)
  <2>2. /\ Commit(last)
        /\ in \in Tokens /\ mid \in Tokens /\ out \in Tokens
        /\ in # mid /\ SourceMint(id2, aToB2) # out
        /\ hop.wallet[mid] = wallet[mid] + n
        /\ Footprint(wallet, hop.wallet, in, mid, TRUE, x, 1)
        /\ Footprint(hop.wallet, last.wallet, SourceMint(id2, aToB2), out, TRUE, n, y)
    BY <2>9
  <2>10. SourceMint(id2, aToB2) = mid
    BY <2>8
  <2> HIDE DEF in, mid, out
  <2>3. /\ wallet' = last.wallet
        /\ wallet[in] \in Nat /\ wallet[mid] \in Nat /\ wallet[out] \in Nat
    BY <2>2, <2>10 DEF Commit, TypeOK
  <2>4. PICK paid1 \in Nat, got1 \in Nat :
          /\ paid1 <= x
          /\ hop.wallet[in] = wallet[in] - paid1
          /\ out # in => hop.wallet[out] = wallet[out]
    BY <2>2, <2>10 DEF Footprint
  <2>5. PICK paid2 \in Nat, got2 \in Nat :
          /\ paid2 <= n /\ got2 >= y
          /\ wallet'[mid] = hop.wallet[mid] - paid2
          /\ wallet'[out] = hop.wallet[out] + got2
          /\ out # in => wallet'[in] = hop.wallet[in]
    BY <2>2, <2>3, <2>10 DEF Footprint
  <2>6. wallet'[mid] >= wallet[mid]
    BY <2>2, <2>3, <2>5, <2>10
  <2>7. IF in = out THEN wallet'[in] >= wallet[in] - x + y
        ELSE wallet'[in] >= wallet[in] - x /\ wallet'[out] >= wallet[out] + y
    BY <2>1, <2>3, <2>4, <2>5
  <2> QED BY <2>6, <2>7 DEF in, mid, out
<1>2. TypeOK /\ [Next]_vars => [Kept]_vars
  BY <1>1
<1> QED BY <1>2, RouterTypeOK, PTL DEF Spec, RouteKeepsToItself

LEMMA ZapLegKeepsSupply ==
  ASSUME TypeOK, NEW id \in Pools, NEW aToB \in BOOLEAN, NEW x \in Nat,
         NEW after \in SwapLeg(Ledger, id, aToB, TRUE, x, 1)
  PROVE  after.pools[id].supply = pools[id].supply
<1>1. Ledger \in Ledgers /\ 1 \in Nat
  BY LedgerTyped
<1>2. PICK exactIn \in BOOLEAN : after \in SwapLeg(Ledger, id, aToB, exactIn, x, 1)
  OBVIOUS
<1>3. SupplyOf(after, id) = SupplyOf(Ledger, id)
  BY <1>1, <1>2, LegKeepsSupply
<1> QED BY <1>3 DEF SupplyOf, Ledger

\* The deposit of a zap takes no more of the swapped side than the swap gave and
\* leaves little of it, for any fees, any donation and any state of the pool.
THEOREM RouterZapDepositsOutput == Spec => []ZapDepositsOutput
<1>1. TypeOK => ZapDepositsOutput
  <2> SUFFICES ASSUME TypeOK, NEW id \in Pools, NEW aToB \in BOOLEAN, NEW x \in Amounts,
                      rows[id] = "right", pools[id].supply > 0,
                      NEW after \in SwapLeg(Ledger, id, aToB, TRUE, x, 1)
               PROVE  ZapCovered(id, aToB, after)
    BY DEF ZapDepositsOutput
  <2>0. /\ Ledger \in Ledgers /\ Ledger.wallet = wallet
        /\ x \in Nat /\ 1 \in Nat
        /\ TRUE \in BOOLEAN
    BY LedgerTyped, InputsAreNat DEF Ledger
  <2>1a. /\ after \in Ledgers
         /\ TargetMint(id, aToB) \in Mints
         /\ Footprint(wallet, after.wallet, SourceMint(id, aToB), TargetMint(id, aToB), TRUE, x, 1)
         /\ SourceMint(id, aToB) # TargetMint(id, aToB)
    BY <2>0, LegFacts
  <2>1b. after.pools[id].supply = pools[id].supply
    BY <2>0, ZapLegKeepsSupply
  <2> DEFINE pool == after.pools[id]
             out  == Other(SourceSide(id, aToB))
             got  == Received(Ledger, after, TargetMint(id, aToB))
             reserve == LpOwned(pool, out)
  <2>1. /\ after \in Ledgers /\ pool.supply = pools[id].supply
        /\ TargetMint(id, aToB) \in Mints
        /\ Footprint(wallet, after.wallet, SourceMint(id, aToB), TargetMint(id, aToB), TRUE, x, 1)
        /\ SourceMint(id, aToB) # TargetMint(id, aToB)
    BY <2>1a, <2>1b
  <2>2. got \in Nat
    <3> DEFINE mint == TargetMint(id, aToB)
    <3>1. mint \in Tokens /\ wallet[mint] \in Nat
      BY <2>1 DEF Tokens, TypeOK
    <3>2. \E n \in Nat : after.wallet[mint] = wallet[mint] + n
      BY <2>1, <3>1 DEF Footprint
    <3> HIDE DEF mint
    <3>3. after.wallet[mint] - wallet[mint] \in Nat
      BY <3>1, <3>2
    <3> QED BY <3>3 DEF mint, Received, Ledger
  <2> HIDE DEF got
  <2>3. out = (IF aToB THEN "B" ELSE "A") /\ out \in Sides
    BY DEF SourceSide, Other, Sides
  <2>4. pool \in PoolState
    BY <2>1 DEF Ledgers
  <2>5. reserve \in Int /\ pool.supply \in Nat /\ pool.supply > 0
    <3>1. pool.vault[out] \in Nat /\ pool.fees[out] \in Nat /\ pool.supply \in 0 .. U64Max
      BY <2>3, <2>4 DEF PoolState
    <3> QED BY <2>1, <3>1, InputsAreNat DEF LpOwned
  <2>6. LpReserves(pool)[out] = reserve /\ out \in DOMAIN LpReserves(pool)
    BY <2>3 DEF LpReserves
  <2>7. ASSUME NEW lp \in ZapLp(pool, id, aToB, got),
               NEW pay \in PoolTokensToTradingTokens(lp, pool.supply, LpReserves(pool), TRUE)
        PROVE  /\ pay[out] <= got
               /\ pay[out] # 0 /\ (got * pool.supply) \div reserve <= U64Max
                  => 1000 * pool.supply * (got - pay[out]) <= got * pool.supply + 2000 * reserve
    <3>1. /\ lp = ZapShare(got, pool.supply, reserve)
          /\ reserve > 0 /\ reserve \in Nat
      <4>1. reserve = pool.vault[out] - pool.fees[IF aToB THEN "B" ELSE "A"]
        BY <2>3 DEF LpOwned
      <4> QED BY <2>5, <2>7, <4>1 DEF ZapLp, None, Some
    <3>2. pay[out] = 0 \/ pay[out] = CeilDiv(lp * reserve, pool.supply)
      <4> DEFINE s == pool.supply
                 reserves == LpReserves(pool)
      <4>1. s \in Nat /\ s > 0 /\ reserves[out] = reserve /\ out \in DOMAIN reserves
        BY <2>5, <2>6
      <4>2. pay \in PoolTokensToTradingTokens(lp, s, reserves, TRUE)
        BY <2>7
      <4> HIDE DEF s, reserves, reserve, out
      <4>3. lp \in Nat
        <5>1. lp = ZapShare(got, s, reserve) /\ s \in Nat /\ reserve \in Nat /\ reserve > 0
          BY <3>1, <4>1 DEF s
        <5> QED BY <2>2, <5>1, ZapShareFacts
      <4>4. reserves[out] \in Nat
        BY <3>1, <4>1
      <4>5. pay[out] = 0 \/ pay[out] = CeilDiv(lp * reserves[out], s)
        BY <4>1, <4>2, <4>3, <4>4, ShareOrNothing
      <4> QED BY <4>1, <4>5 DEF s
    <3> DEFINE s == pool.supply
    <3>3. s \in Nat /\ s > 0 /\ reserve \in Nat
      BY <2>5, <3>1
    <3> HIDE DEF s, reserve
    <3>4. CeilDiv(ZapShare(got, s, reserve) * reserve, s) <= got
      BY <2>2, <3>1, <3>3, ZapShareCovered
    <3>5. (got * s) \div reserve <= U64Max =>
            1000 * s * (got - CeilDiv(ZapShare(got, s, reserve) * reserve, s))
              <= got * s + 2000 * reserve
      BY <2>2, <3>1, <3>3, ZapShareDust
    <3>6. pay[out] = 0 \/ pay[out] = CeilDiv(ZapShare(got, s, reserve) * reserve, s)
      BY <3>1, <3>2 DEF s
    <3>7. /\ pay[out] <= got
          /\ pay[out] # 0 /\ (got * s) \div reserve <= U64Max
             => 1000 * s * (got - pay[out]) <= got * s + 2000 * reserve
      BY <2>2, <3>4, <3>5, <3>6
    <3> QED BY <3>7 DEF s
  <2> QED BY <2>7 DEF got, ZapCovered
<1> QED BY <1>1, RouterTypeOK, PTL
=============================================================================
