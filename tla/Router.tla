------------------------------- MODULE Router -------------------------------
(***************************************************************************)
(* RomeDexRouter (contracts/src/RomeDexRouter.sol): the EVM contract that  *)
(* turns a user's call into instructions of the DEX program.               *)
(*                                                                         *)
(* A call is one EVM transaction: a revert anywhere undoes all of it, so a *)
(* call that reverts is no step.  Inside a call several instructions run   *)
(* one after another on the same pools and the same token accounts.  The   *)
(* token balances, and the parts of the pools the router reads, form a     *)
(* ledger; an instruction is an operator from a ledger to the set of       *)
(* ledgers it may leave, empty when the program refuses it.                *)
(*                                                                         *)
(* One user trades; everybody else's use of the pools is Elsewhere.  The   *)
(* account lists are not spelled out: what the program makes of a row of   *)
(* the registry is one of the kinds in Rows.                               *)
(***************************************************************************)
EXTENDS Curve

CONSTANTS Accounts,           \* EVM addresses that call the router
          Nobody,             \* address(0)
          Pools,              \* swap-state accounts, the ids of the registry
          Mints,              \* token mints
          PoolMint,           \* the two mints of a pool
          Fees,               \* fee schedule of the pools
          Funding,            \* tokens on either side of a pool at the start
          InitialSupply,      \* INITIAL_SWAP_POOL_AMOUNT
          Endowment,          \* tokens of each mint the user has at the start
          U64Max,             \* u64::MAX
          Amounts, LpAmounts, Limits     \* what a call may carry

Sides == {"A", "B"}
Other(side) == IF side = "A" THEN "B" ELSE "A"

ASSUME RouterAssumption ==
  /\ Nobody \notin Accounts /\ Accounts # {}
  /\ Pools \cap Mints = {}
  /\ PoolMint \in [Pools -> [Sides -> Mints]]
  /\ \A p \in Pools : PoolMint[p]["A"] # PoolMint[p]["B"]
  /\ Fees \in FeeSchedule /\ ValidFees(Fees)
  /\ U64Max \in Nat /\ InitialSupply \in 1 .. U64Max
  /\ Funding \in 1 .. U64Max /\ Endowment \in 0 .. U64Max
  /\ Amounts \subseteq 0 .. U64Max /\ LpAmounts \subseteq 0 .. U64Max
  /\ Limits \subseteq 0 .. U64Max

VARIABLES owner, pendingOwner, frozen, pauser, paused,
          rows,               \* the registry: what the row of an id holds
          pools,              \* vaults, fee counters and LP supply
          wallet              \* the user's balance of every mint, LP included

control == <<owner, pendingOwner, frozen, pauser, paused, rows>>
vars == <<control, pools, wallet>>

\* The LP mint of a pool goes by the pool's name.
Tokens == Mints \cup Pools

\* "right": the accounts of the pool; "mirror": the two sides exchanged, which
\* the program takes as the other direction of a swap and refuses as liquidity;
\* "wrong": an account the program or the token program refuses always.
Rows == {"none", "right", "mirror", "wrong"}

Init ==
  /\ owner \in Accounts
  /\ pendingOwner = Nobody /\ pauser = Nobody
  /\ frozen = FALSE /\ paused = FALSE
  /\ rows = [p \in Pools |-> "none"]
  /\ pools = [p \in Pools |-> [vault  |-> [side \in Sides |-> Funding],
                               fees   |-> [side \in Sides |-> 0],
                               supply |-> InitialSupply]]
  /\ wallet = [t \in Tokens |-> IF t \in Mints THEN Endowment ELSE 0]

-----------------------------------------------------------------------------
(* The owner's calls.                                                      *)

RegisterPool(sender, id, row) ==
  /\ sender = owner
  /\ ~frozen
  /\ rows[id] = "none"                            \* AlreadyRegistered
  /\ rows' = [rows EXCEPT ![id] = row]
  /\ UNCHANGED <<owner, pendingOwner, frozen, pauser, paused, pools, wallet>>

\* Mutant: a frozen registry can still lose a row.
UnregisterPoolAlways(sender, id) ==
  /\ sender = owner
  /\ rows[id] # "none"
  /\ rows' = [rows EXCEPT ![id] = "none"]
  /\ UNCHANGED <<owner, pendingOwner, frozen, pauser, paused, pools, wallet>>

UnregisterPool(sender, id) ==
  /\ sender = owner
  /\ ~frozen
  /\ rows[id] # "none"                            \* NotRegistered
  /\ rows' = [rows EXCEPT ![id] = "none"]
  /\ UNCHANGED <<owner, pendingOwner, frozen, pauser, paused, pools, wallet>>

Freeze(sender) ==
  /\ sender = owner
  /\ frozen' = TRUE
  /\ UNCHANGED <<owner, pendingOwner, pauser, paused, rows, pools, wallet>>

\* Open to the pauser as well, and idempotent.
Pause(sender) ==
  /\ sender \in {pauser, owner}
  /\ paused' = TRUE
  /\ UNCHANGED <<owner, pendingOwner, frozen, pauser, rows, pools, wallet>>

Unpause(sender) ==
  /\ sender = owner
  /\ paused' = FALSE
  /\ UNCHANGED <<owner, pendingOwner, frozen, pauser, rows, pools, wallet>>

SetPauser(sender, p) ==
  /\ sender = owner
  /\ pauser' = p
  /\ UNCHANGED <<owner, pendingOwner, frozen, paused, rows, pools, wallet>>

\* Mutant: ownership moves in one step.
TransferOwnershipAtOnce(sender, newOwner) ==
  /\ sender = owner
  /\ owner' = newOwner
  /\ UNCHANGED <<pendingOwner, frozen, pauser, paused, rows, pools, wallet>>

TransferOwnership(sender, newOwner) ==
  /\ sender = owner
  /\ pendingOwner' = newOwner
  /\ UNCHANGED <<owner, frozen, pauser, paused, rows, pools, wallet>>

AcceptOwnership(sender) ==
  /\ sender = pendingOwner
  /\ owner' = pendingOwner
  /\ pendingOwner' = Nobody
  /\ UNCHANGED <<frozen, pauser, paused, rows, pools, wallet>>

-----------------------------------------------------------------------------
(* Instructions of the DEX program on a ledger [pools, wallet].            *)

PoolState == [vault : [Sides -> Nat], fees : [Sides -> Nat], supply : 0 .. U64Max]

Ledger == [pools |-> pools, wallet |-> wallet]

LpOwned(pool, side) == pool.vault[side] - pool.fees[side]
LpReserves(pool) == [side \in Sides |-> LpOwned(pool, side)]
Readable(pool) == \A side \in Sides : pool.fees[side] <= pool.vault[side]

\* The pool after a swap from `side`, and the user's tokens after it.
SwappedPool(pool, side, q) ==
  [vault  |-> [s \in Sides |-> IF s = side THEN pool.vault[s] + q.source
                              ELSE pool.vault[s] - q.dest],
   fees   |-> [pool.fees EXCEPT ![side] = @ + q.ownerFee],
   supply |-> pool.supply]

Settled(ledger, p, side, q) ==
  [pools  |-> [ledger.pools EXCEPT ![p] = SwappedPool(@, side, q)],
   wallet |-> [ledger.wallet EXCEPT ![PoolMint[p][side]] = @ - q.source,
                                    ![PoolMint[p][Other(side)]] = @ + q.dest]]

\* The vault's balance and the fee counter stay within 64 bits.
Fits(pool, side, q) ==
  /\ pool.vault[side] + q.source <= U64Max
  /\ pool.fees[side] + q.ownerFee <= U64Max

Quotes(pool, side, exactIn, x) ==
  IF exactIn
  THEN Swap(x, LpOwned(pool, side), LpOwned(pool, Other(side)), Fees)
  ELSE SwapForExactOut(x, LpOwned(pool, side), LpOwned(pool, Other(side)), Fees)

\* Tags 1 and 6: x is the exact amount, y the bound on the other one.
SwapInstruction(ledger, p, side, exactIn, x, y) ==
  { Settled(ledger, p, side, q) :
      q \in { r \in Quotes(ledger.pools[p], side, exactIn, x) :
                /\ Readable(ledger.pools[p])
                /\ IF exactIn THEN r.dest >= y ELSE r.source <= y
                /\ r.source <= ledger.wallet[PoolMint[p][side]]
                /\ Fits(ledger.pools[p], side, r) } }

\* The pool and the user's tokens after `pay` went in for `minted` LP tokens.
Deposited(ledger, p, pay, minted) ==
  [pools  |-> [ledger.pools EXCEPT
                 ![p] = [vault  |-> [side \in Sides |-> @.vault[side] + pay[side]],
                         fees   |-> @.fees,
                         supply |-> @.supply + minted]],
   wallet |-> [ledger.wallet EXCEPT ![PoolMint[p]["A"]] = @ - pay["A"],
                                    ![PoolMint[p]["B"]] = @ - pay["B"],
                                    ![p] = @ + minted]]

\* Tag 2, with a maximum for each side.  Without LP tokens outstanding the pool
\* is seeded again.
DepositInstruction(ledger, p, lp, maximum) ==
  LET pool   == ledger.pools[p]
      minted == IF pool.supply > 0 THEN lp ELSE InitialSupply
      base   == IF pool.supply > 0 THEN pool.supply ELSE InitialSupply
  IN  { Deposited(ledger, p, pay, minted) : pay \in
          { amounts \in PoolTokensToTradingTokens(minted, base,
                                                  LpReserves(pool), TRUE) :
              /\ Readable(pool)
              /\ \A side \in Sides :
                   /\ amounts[side] \in 1 .. maximum[side]
                   /\ amounts[side] <= ledger.wallet[PoolMint[p][side]]
              /\ pool.supply + minted <= U64Max } }

Withdrawn(ledger, p, pay, lp) ==
  [pools  |-> [ledger.pools EXCEPT
                 ![p] = [vault  |-> [side \in Sides |-> @.vault[side] - pay[side]],
                         fees   |-> @.fees,
                         supply |-> @.supply - lp]],
   wallet |-> [ledger.wallet EXCEPT ![PoolMint[p]["A"]] = @ + pay["A"],
                                    ![PoolMint[p]["B"]] = @ + pay["B"],
                                    ![p] = @ - lp]]

\* Tag 3, with a minimum for each side.
WithdrawInstruction(ledger, p, lp, minimum) ==
  LET pool == ledger.pools[p]
      paid(share) == [side \in Sides |-> MinOf(LpOwned(pool, side), share[side])]
  IN  { Withdrawn(ledger, p, pay, lp) : pay \in
          { amounts \in { paid(share) : share \in
                            PoolTokensToTradingTokens(lp, pool.supply,
                                                      LpReserves(pool), FALSE) } :
              /\ Readable(pool)
              /\ lp <= ledger.wallet[p] /\ lp <= pool.supply
              /\ \A side \in Sides :
                   /\ amounts[side] >= minimum[side]
                   /\ amounts[side] # 0 \/ LpOwned(pool, side) = 0 } }

-----------------------------------------------------------------------------
(* Calls of the user.                                                      *)

\* Mutant: a frozen registry is taken for a stopped one.
ResolvesFrozen(id) == ~(paused /\ frozen) /\ rows[id] # "none"

\* _pool: every path resolves its pool here, at any depth of a call.
Resolves(id) == ~paused /\ rows[id] # "none"

\* The side a row calls A or B is the other one of the pool in a mirror row.
SourceSide(id, aToB) ==
  IF (rows[id] = "right") = aToB THEN "A" ELSE "B"
SourceMint(id, aToB) == PoolMint[id][SourceSide(id, aToB)]
TargetMint(id, aToB) == PoolMint[id][Other(SourceSide(id, aToB))]

Received(before, after, mint) == after.wallet[mint] - before.wallet[mint]
Spent(before, after, mint) == before.wallet[mint] - after.wallet[mint]

\* _swap: the program's bound is checked once more on the balances.
SwapLeg(ledger, id, aToB, exactIn, x, y) ==
  { after \in IF Resolves(id) /\ rows[id] # "wrong"
              THEN SwapInstruction(ledger, id, SourceSide(id, aToB), exactIn, x, y)
              ELSE {} :
      IF exactIn THEN Received(ledger, after, TargetMint(id, aToB)) >= y
                 ELSE Spent(ledger, after, SourceMint(id, aToB)) <= y }

Commit(ledger) ==
  /\ pools' = ledger.pools
  /\ wallet' = ledger.wallet
  /\ UNCHANGED control

SwapExactIn(id, aToB, amountIn, minOut) ==
  \E after \in SwapLeg(Ledger, id, aToB, TRUE, amountIn, minOut) : Commit(after)

SwapExactOut(id, aToB, amountOut, maxIn) ==
  \E after \in SwapLeg(Ledger, id, aToB, FALSE, amountOut, maxIn) : Commit(after)

AddLiquidity(id, lp, maximum) ==
  /\ Resolves(id) /\ rows[id] = "right"
  /\ \E after \in DepositInstruction(Ledger, id, lp, maximum) : Commit(after)

RemoveLiquidity(id, lp, minimum) ==
  /\ Resolves(id) /\ rows[id] = "right"
  /\ \E after \in WithdrawInstruction(Ledger, id, lp, minimum) : Commit(after)

-----------------------------------------------------------------------------
(* zapIn                                                                   *)

\* The LP amount for what the swap gave: the share, shaved by a thousandth,
\* cut to 64 bits by the cast.
ZapShare(got, supply, reserve) ==
  ((((got * supply) \div reserve) * 999) \div 1000) % (U64Max + 1)

\* Mutant: the vault is read as it is, protocol fees included.
ZapLpRawVault(pool, id, aToB, got) ==
  LET left == pool.vault[Other(SourceSide(id, aToB))]
  IN  IF left <= 0 THEN None ELSE Some(ZapShare(got, pool.supply, left))

\* What zapIn deposits after a swap that gave `got`.  The fee counter is picked
\* by the direction of the call, not of the pool.  The set is empty where the
\* subtraction underflows or the division is by zero.
ZapLp(pool, id, aToB, got) ==
  LET out  == Other(SourceSide(id, aToB))
      left == pool.vault[out] - pool.fees[IF aToB THEN "B" ELSE "A"]
  IN  IF left <= 0 THEN None ELSE Some(ZapShare(got, pool.supply, left))

\* Mutant: the swapped side is always taken for side B.
ZapMaximumUnordered(aToB, got, maxOther) ==
  [side \in Sides |-> IF side = "B" THEN got ELSE maxOther]

ZapMaximum(aToB, got, maxOther) ==
  [side \in Sides |-> IF (side = "B") = aToB THEN got ELSE maxOther]

ZapIn(id, aToB, amountIn, minLp, maxOther) ==
  \E after \in SwapLeg(Ledger, id, aToB, TRUE, amountIn, 1) :
    LET got == Received(Ledger, after, TargetMint(id, aToB))
    IN  \E lp \in ZapLp(after.pools[id], id, aToB, got) :
          /\ lp >= minLp                          \* LpBelowMinimum
          /\ Resolves(id) /\ rows[id] = "right"
          /\ \E last \in DepositInstruction(after, id, lp,
                                            ZapMaximum(aToB, got, maxOther)) :
               Commit(last)

-----------------------------------------------------------------------------
(* route                                                                   *)

\* Mutant: the second hop takes the whole balance.
MiddleAll(before, after, mint) == after.wallet[mint]

\* What the first hop put into the middle account.
Middle(before, after, mint) == after.wallet[mint] - before.wallet[mint]

Route(id1, aToB1, id2, aToB2, amountIn, minOut) ==
  /\ Resolves(id2)
  /\ \E hop \in SwapLeg(Ledger, id1, aToB1, TRUE, amountIn, 1) :
       \E last \in SwapLeg(hop, id2, aToB2, TRUE,
                           Middle(Ledger, hop, TargetMint(id1, aToB1)), minOut) :
         Commit(last)

-----------------------------------------------------------------------------
(* Everybody else, straight at the program, past the registry and the      *)
(* switch: swaps, burning of LP tokens, collection of the protocol fees.   *)

ElsewhereSwap(p, side, amountIn) ==
  \E q \in Quotes(pools[p], side, TRUE, amountIn) :
    /\ Readable(pools[p])
    /\ Fits(pools[p], side, q)
    /\ pools' = [pools EXCEPT ![p] = SwappedPool(@, side, q)]
    /\ UNCHANGED <<control, wallet>>

\* The other holders have what the user has not.
ElsewhereBurn(p, lp) ==
  /\ lp + wallet[p] <= pools[p].supply
  /\ pools' = [pools EXCEPT ![p] = [vault |-> @.vault, fees |-> @.fees,
                                    supply |-> @.supply - lp]]
  /\ UNCHANGED <<control, wallet>>

ElsewhereCollect(p) ==
  /\ Readable(pools[p])
  /\ pools' = [pools EXCEPT ![p] = [vault  |-> LpReserves(pools[p]),
                                    fees   |-> [side \in Sides |-> 0],
                                    supply |-> @.supply]]
  /\ UNCHANGED <<control, wallet>>

-----------------------------------------------------------------------------
OwnerCalls ==
  \E sender \in Accounts :
    \/ \E id \in Pools : \/ \E row \in Rows \ {"none"} : RegisterPool(sender, id, row)
                         \/ UnregisterPool(sender, id)
    \/ Freeze(sender) \/ Pause(sender) \/ Unpause(sender)
    \/ \E a \in Accounts \cup {Nobody} : SetPauser(sender, a) \/ TransferOwnership(sender, a)
    \/ AcceptOwnership(sender)

Bounds == [Sides -> Limits]

UserCalls ==
  \E id \in Pools :
    \/ \E aToB \in BOOLEAN, x \in Amounts, y \in Limits :
         \/ SwapExactIn(id, aToB, x, y)
         \/ SwapExactOut(id, aToB, x, y)
         \/ \E minLp \in Limits : ZapIn(id, aToB, x, minLp, y)
         \/ \E id2 \in Pools, aToB2 \in BOOLEAN : Route(id, aToB, id2, aToB2, x, y)
    \/ \E lp \in LpAmounts, bound \in Bounds :
         AddLiquidity(id, lp, bound) \/ RemoveLiquidity(id, lp, bound)

Elsewhere ==
  \E p \in Pools :
    \/ \E side \in Sides, n \in Amounts : ElsewhereSwap(p, side, n)
    \/ \E n \in LpAmounts : ElsewhereBurn(p, n)
    \/ ElsewhereCollect(p)

Next == OwnerCalls \/ UserCalls \/ Elsewhere

Spec == Init /\ [][Next]_vars

-----------------------------------------------------------------------------
TypeOK ==
  /\ owner \in Accounts
  /\ {pendingOwner, pauser} \subseteq Accounts \cup {Nobody}
  /\ {frozen, paused} \subseteq BOOLEAN
  /\ rows \in [Pools -> Rows]
  /\ pools \in [Pools -> PoolState]
  /\ wallet \in [Tokens -> Nat]

\* `after` is what the swap of a zap left: the deposit pays no more of the swapped
\* side than the swap gave, and leaves of it at most a thousandth and the worth
\* of two LP tokens.
ZapCovered(id, aToB, after) ==
  LET pool == after.pools[id]
      out  == Other(SourceSide(id, aToB))
      got  == Received(Ledger, after, TargetMint(id, aToB))
  IN  \A lp \in ZapLp(pool, id, aToB, got) :
        \A pay \in PoolTokensToTradingTokens(lp, pool.supply, LpReserves(pool), TRUE) :
          /\ pay[out] <= got
          /\ pay[out] # 0 /\ (got * pool.supply) \div LpOwned(pool, out) <= U64Max
             => 1000 * pool.supply * (got - pay[out])
                  <= got * pool.supply + 2000 * LpOwned(pool, out)

\* After the swap of a zap the deposit never needs more of the swapped side than
\* the swap gave, so it is not refused for its maximum, and it leaves little
\* unless it is too small to be accepted or the cast cut the LP amount.  zapIn
\* computes the amount from the reserves after the swap, without the protocol's
\* fees, and shaves it for this.
ZapDepositsOutput ==
  \A id \in Pools, aToB \in BOOLEAN, x \in Amounts :
    rows[id] = "right" /\ pools[id].supply > 0 =>
      \A after \in SwapLeg(Ledger, id, aToB, TRUE, x, 1) : ZapCovered(id, aToB, after)

\* What a caller writes into a call holds of the caller's balances, end to end
\* and whatever happened in the pools before: the least that comes in, the most
\* that goes out, and for a zap that nothing of the swapped side is lost.
\* The program's own checks are per instruction; these are per call.
BoundsHonoured ==
  [][ wallet' # wallet =>
      \A id \in Pools, aToB \in BOOLEAN, x \in Amounts, y \in Limits :
        LET in  == SourceMint(id, aToB)
            out == TargetMint(id, aToB)
        IN  /\ SwapExactIn(id, aToB, x, y) =>
                 wallet'[out] >= wallet[out] + y /\ wallet'[in] >= wallet[in] - x
            /\ SwapExactOut(id, aToB, x, y) =>
                 wallet'[out] = wallet[out] + x /\ wallet'[in] >= wallet[in] - y
            /\ \A minLp \in Limits : ZapIn(id, aToB, x, minLp, y) =>
                 /\ wallet'[id] >= wallet[id] + minLp
                 /\ wallet'[out] >= wallet[out]
                 /\ wallet'[in] >= wallet[in] - x - y ]_vars

\* A route whose second hop spends what the first one yields keeps to the
\* tokens of the route: it gives at least minOut, takes at most amountIn, and
\* tokens of the middle mint the user held before are not spent.
RouteKeepsToItself ==
  [][ wallet' # wallet =>
      \A id1, id2 \in Pools, aToB1, aToB2 \in BOOLEAN, x \in Amounts, y \in Limits :
        LET in  == SourceMint(id1, aToB1)
            mid == TargetMint(id1, aToB1)
            out == TargetMint(id2, aToB2)
        IN  /\ Route(id1, aToB1, id2, aToB2, x, y)
            /\ SourceMint(id2, aToB2) = mid
            => /\ wallet'[mid] >= wallet[mid]
               /\ IF in = out THEN wallet'[in] >= wallet[in] - x + y
                  ELSE wallet'[in] >= wallet[in] - x /\ wallet'[out] >= wallet[out] + y
    ]_vars

\* The pause is a complete switch: no call moves a token of the user while it
\* is on, through whichever path, frozen registry or not.
PauseStopsTrading == [][paused => wallet' = wallet]_vars

\* A frozen registry never changes again, through any sequence of calls and
\* hand-overs.
FrozenForEver == [][frozen => frozen' /\ rows' = rows]_vars
=============================================================================
