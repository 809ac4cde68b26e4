----------------------------- MODULE TokenSwap -----------------------------
(***************************************************************************)
(* One constant-product pool of the DEX program and everything that moves  *)
(* its tokens: program/src/processor.rs over curve/*.rs (module Curve) and *)
(* config.rs (module Config).                                              *)
(*                                                                         *)
(* Each instruction is one atomic transaction: an Err reverts it, so a     *)
(* rejected call is no step.  The raw vault balance holds the LP-owned     *)
(* reserve and the protocol's accrued fees side by side; the program keeps *)
(* them apart only by the counters protocolFees.                           *)
(*                                                                         *)
(* SPL Token and Token-2022 are external: a transfer needs the balance, a  *)
(* mint keeps the supply within a u64, and the mint of a side may withhold *)
(* a fee from every transfer.                                              *)
(***************************************************************************)
EXTENDS Curve, Config

CONSTANTS Endowment,          \* tokens of each side a key holds at the start
          InitialSupply,      \* INITIAL_SWAP_POOL_AMOUNT
          U64Max,             \* u64::MAX, the width of every token amount
          FeeInputs,          \* fee schedules a CreatePool may carry
          Constraints,        \* SWAP_CONSTRAINTS: {} or {the least schedule}
          TransferFees,       \* fees the two mints may charge for a transfer
          Amounts,            \* token amounts an instruction may carry
          LpAmounts,          \* pool-token amounts an instruction may carry
          Limits              \* slippage limits an instruction may carry

Sides == {"A", "B"}
Other(side) == IF side = "A" THEN "B" ELSE "A"

OneInBasisPoints == 10000
TransferFee == [bps : 0 .. OneInBasisPoints, maximum : Nat]
NoTransferFee == [bps |-> 0, maximum |-> 0]      \* every SPL Token mint

ASSUME PoolAssumption ==
  /\ Endowment \in Nat /\ U64Max \in Nat
  /\ InitialSupply \in 1 .. U64Max
  /\ TransferFees \subseteq [Sides -> TransferFee]
  /\ Amounts \subseteq 0 .. U64Max
  /\ LpAmounts \subseteq 0 .. U64Max
  /\ Limits \subseteq 0 .. U64Max
  /\ FeeInputs \subseteq FeeSchedule

VARIABLES pool,               \* SwapV2: initialized or not, fee schedule
          protocolFees,       \* SwapV2.protocol_fees_a/_b
          transferFee,        \* what the mint of each side charges now
          vault,              \* raw balances of the two vaults
          supply,             \* supply of the LP mint
          wallet,             \* token balances of every key
          lp                  \* LP balances of every key

poolVars == <<pool, protocolFees, transferFee, vault, supply, wallet, lp>>
vars == <<config, poolVars>>

FitsU64(n) == n \in 0 .. U64Max          \* to_u64 of a result succeeds

NoPool == [isInitialized |-> FALSE]
Pool(fees) == [isInitialized |-> TRUE, fees |-> fees]
PoolLoads == pool.isInitialized

\* lp_owned: pool math never sees the tokens the counters own.  The guard is
\* its checked_sub.
LpOwned(side) == vault[side] - protocolFees[side]
LpReserves == [side \in Sides |-> LpOwned(side)]
LpOwnedDefined == \A side \in Sides : protocolFees[side] <= vault[side]

Init ==
  /\ ConfigInit
  /\ pool = NoPool
  /\ protocolFees = [side \in Sides |-> 0]
  /\ transferFee \in TransferFees
  /\ vault = [side \in Sides |-> 0]
  /\ supply = 0
  /\ wallet = [k \in Keys |-> [side \in Sides |-> Endowment]]
  /\ lp = [k \in Keys |-> 0]

-----------------------------------------------------------------------------
(* SPL Token and Token-2022, as the handlers use them.                     *)

\* calculate_epoch_fee: what the mint withholds from a transfer of n.
Withheld(f, n) == MinOf(CeilDiv(n * f.bps, OneInBasisPoints), f.maximum)

\* The least transfer of which n arrives.
PreTransferFee(f, n) ==
  IF f.bps = 0 \/ n = 0 THEN n
  ELSE IF f.bps = OneInBasisPoints THEN n + f.maximum
  ELSE MinOf(CeilDiv(n * OneInBasisPoints, OneInBasisPoints - f.bps), n + f.maximum)

\* calculate_inverse_epoch_fee: the fee of that transfer.
InverseFee(f, n) == Withheld(f, PreTransferFee(f, n))

Arriving(side, n) == n - Withheld(transferFee[side], n)
Arrived(pay) == [side \in Sides |-> Arriving(side, pay[side])]

\* The fee of a mint changes from one epoch to another.
NewEpoch ==
  /\ transferFee' \in TransferFees
  /\ UNCHANGED <<config, pool, protocolFees, vault, supply, wallet, lp>>

Funded(user, pay) == \A side \in Sides : wallet[user][side] >= pay[side]
Credited(balance, take) == [side \in Sides |-> balance[side] + take[side]]
Debited(balance, pay) == [side \in Sides |-> balance[side] - pay[side]]

OneSide(side, n) == [s \in Sides |-> IF s = side THEN n ELSE 0]

MintLpUnchecked(user, n) ==                      \* mutant: supply wraps nowhere
  /\ supply' = supply + n
  /\ lp' = [lp EXCEPT ![user] = @ + n]

MintLp(user, n) ==
  /\ supply + n <= U64Max
  /\ supply' = supply + n
  /\ lp' = [lp EXCEPT ![user] = @ + n]

BurnLp(user, n) ==
  /\ lp[user] >= n /\ supply >= n
  /\ supply' = supply - n
  /\ lp' = [lp EXCEPT ![user] = @ - n]

\* Anyone may send tokens to a vault and burn LP tokens of their own without
\* going through the program; a creator funds the vaults this way.
Donate(user, side, n) ==
  /\ Funded(user, OneSide(side, n))
  /\ vault' = [vault EXCEPT ![side] = @ + Arriving(side, n)]
  /\ wallet' = [wallet EXCEPT ![user][side] = @ - n]
  /\ UNCHANGED <<config, pool, protocolFees, transferFee, supply, lp>>

DirectBurn(user, n) ==
  /\ PoolLoads
  /\ BurnLp(user, n)
  /\ UNCHANGED <<config, pool, protocolFees, transferFee, vault, wallet>>

-----------------------------------------------------------------------------
(* CreatePool                                                              *)

Bps(f) == IF f.den = 0 THEN 0 ELSE (f.num * 10000) \div f.den
FeeBps(fees) == Bps(fees.trade) + Bps(fees.owner)

MeetsConstraints(fees) ==
  \A c \in Constraints :
    /\ fees.trade.num >= c.trade.num /\ fees.trade.den = c.trade.den
    /\ fees.owner.num >= c.owner.num /\ fees.owner.den = c.owner.den

\* The vaults are funded beforehand.  feeBps is the seed of the pool address
\* and must agree with the schedule that will run.
CreatePool(payer, fees, feeBps) ==
  /\ ConfigLoads
  /\ IsPermissionless \/ payer = config.admin
  /\ ~PoolLoads
  /\ feeBps = FeeBps(fees)
  /\ \A side \in Sides : vault[side] # 0                   \* validate_supply
  /\ supply = 0                                            \* InvalidSupply
  /\ MeetsConstraints(fees)
  /\ ValidFees(fees)
  /\ MintLp(payer, InitialSupply)
  /\ pool' = Pool(fees)
  /\ protocolFees' = [side \in Sides |-> 0]
  /\ UNCHANGED <<config, transferFee, vault, wallet>>

-----------------------------------------------------------------------------
(* process_swap_generic: both swap instructions end here.  Of what the     *)
(* source side sends at least q.source arrives in its vault, of which      *)
(* q.ownerFee belongs to the protocol, and the other vault sends q.dest.   *)

\* Mutant: the fee comes on top of an amount that includes it.
SentFeeTwice(side, n) ==
  PreTransferFee(transferFee[side], n) + InverseFee(transferFee[side], n)

\* What the program has the trader send so that n arrives.  The sum cannot
\* saturate: it is at most PreTransferFee.
Sent(side, n) == n + InverseFee(transferFee[side], n)

SettleSwap(user, side, q) ==
  LET sent == Sent(side, q.source)
  IN  /\ FitsU64(PreTransferFee(transferFee[side], q.source))
      /\ Funded(user, OneSide(side, sent))
      /\ protocolFees[side] + q.ownerFee <= U64Max
      /\ vault[Other(side)] >= q.dest
      /\ vault' = [vault EXCEPT ![side] = @ + Arriving(side, sent),
                                ![Other(side)] = @ - q.dest]
      /\ wallet' = [wallet EXCEPT ![user][side] = @ - sent,
                     ![user][Other(side)] = @ + Arriving(Other(side), q.dest)]
      /\ protocolFees' = [protocolFees EXCEPT ![side] = @ + q.ownerFee]
      /\ UNCHANGED <<config, pool, transferFee, supply, lp>>

\* The curve sees what arrives, the minimum bounds what the trader receives.
SwapExactIn(user, side, amountIn, minimumOut) ==
  /\ PoolLoads /\ LpOwnedDefined
  /\ \E q \in Swap(Arriving(side, amountIn), LpOwned(side), LpOwned(Other(side)),
                   pool.fees) :
       /\ Arriving(Other(side), q.dest) >= minimumOut
       /\ SettleSwap(user, side, q)

\* The mint's fee on amountOut is the trader's.
SwapExactOut(user, side, amountOut, maximumIn) ==
  /\ PoolLoads /\ LpOwnedDefined
  /\ \E q \in SwapForExactOut(amountOut, LpOwned(side), LpOwned(Other(side)),
                              pool.fees) :
       /\ Sent(side, q.source) <= maximumIn
       /\ SettleSwap(user, side, q)

-----------------------------------------------------------------------------
(* Liquidity.  The maximum of a deposit and the minimum of a withdrawal    *)
(* are one limit for both sides here.  The handlers read no transfer fee:  *)
(* LP tokens are minted for what is sent to the vaults, and a minimum      *)
(* bounds what leaves them.                                                *)

\* With no LP token outstanding a deposit re-seeds the pool: it mints the
\* initial supply against the whole reserves, whatever amount was asked for.
DepositAllTokenTypes(user, lpAmount, maximum) ==
  LET minted == IF supply > 0 THEN lpAmount ELSE InitialSupply
      base   == IF supply > 0 THEN supply ELSE InitialSupply
  IN  /\ PoolLoads /\ LpOwnedDefined
      /\ \E pay \in PoolTokensToTradingTokens(minted, base, LpReserves, TRUE) :
           /\ \A side \in Sides : pay[side] <= maximum /\ pay[side] # 0
           /\ Funded(user, pay)
           /\ vault' = Credited(vault, Arrived(pay))
           /\ wallet' = [wallet EXCEPT ![user] = Debited(@, pay)]
      /\ MintLp(user, minted)
      /\ UNCHANGED <<config, pool, protocolFees, transferFee>>

\* Mutant: the zero guard reads the raw vault (X8/X10 of the handler).
WithdrawAllPaysRawGuard(lpAmount) ==
  { pay \in { [side \in Sides |-> MinOf(LpOwned(side), share[side])] :
                share \in PoolTokensToTradingTokens(lpAmount, supply,
                                                    LpReserves, FALSE) } :
      \A side \in Sides : pay[side] # 0 \/ vault[side] = 0 }

\* What a withdrawal of lpAmount pays, if the program accepts it.
WithdrawAllPays(lpAmount) ==
  { pay \in { [side \in Sides |-> MinOf(LpOwned(side), share[side])] :
                share \in PoolTokensToTradingTokens(lpAmount, supply,
                                                    LpReserves, FALSE) } :
      \A side \in Sides : pay[side] # 0 \/ LpOwned(side) = 0 }

WithdrawAllTokenTypes(user, lpAmount, minimum) ==
  /\ PoolLoads /\ LpOwnedDefined
  /\ \E pay \in WithdrawAllPays(lpAmount) :
       /\ \A side \in Sides : pay[side] >= minimum
       /\ vault' = Debited(vault, pay)
       /\ wallet' = [wallet EXCEPT ![user] = Credited(@, Arrived(pay))]
  /\ BurnLp(user, lpAmount)
  /\ UNCHANGED <<config, pool, protocolFees, transferFee>>

DepositSingleTokenTypeExactAmountIn(user, side, amount, minimumLp) ==
  /\ PoolLoads /\ LpOwnedDefined
  /\ \E n \in IF supply > 0
              THEN DepositSingle(amount, LpOwned(side), supply, pool.fees)
              ELSE Some(InitialSupply) :
       /\ FitsU64(n) /\ n >= minimumLp /\ n # 0
       /\ MintLp(user, n)
  /\ Funded(user, OneSide(side, amount))
  /\ vault' = [vault EXCEPT ![side] = @ + Arriving(side, amount)]
  /\ wallet' = [wallet EXCEPT ![user][side] = @ - amount]
  /\ UNCHANGED <<config, pool, protocolFees, transferFee>>

WithinRawVault(side, amount) == amount <= vault[side]    \* mutant
WithinLpReserve(side, amount) == amount <= LpOwned(side) \* ExceededLpReserve

WithdrawSingleTokenTypeExactAmountOut(user, side, amount, maximumLp) ==
  /\ PoolLoads /\ LpOwnedDefined
  /\ WithinLpReserve(side, amount)
  /\ \E n \in WithdrawSingle(amount, LpOwned(side), supply, pool.fees) :
       /\ FitsU64(n) /\ n <= maximumLp /\ n # 0
       /\ BurnLp(user, n)
  /\ vault' = [vault EXCEPT ![side] = @ - amount]
  /\ wallet' = [wallet EXCEPT ![user][side] = @ + Arriving(side, amount)]
  /\ UNCHANGED <<config, pool, protocolFees, transferFee>>

-----------------------------------------------------------------------------
\* Mutant: the fees go to the admin.
CollectProtocolFeesToAdmin ==
  /\ PoolLoads /\ ConfigLoads
  /\ vault' = Debited(vault, protocolFees)
  /\ wallet' = [wallet EXCEPT ![config.admin] = Credited(@, Arrived(protocolFees))]
  /\ protocolFees' = [side \in Sides |-> 0]
  /\ UNCHANGED <<config, pool, transferFee, supply, lp>>

\* Permissionless: the amounts come from the counters and the destination's
\* owner from the configuration as it is now.
CollectProtocolFees ==
  /\ PoolLoads /\ ConfigLoads
  /\ \A side \in Sides : vault[side] >= protocolFees[side]
  /\ vault' = Debited(vault, protocolFees)
  /\ wallet' = [wallet EXCEPT ![config.treasury] = Credited(@, Arrived(protocolFees))]
  /\ protocolFees' = [side \in Sides |-> 0]
  /\ UNCHANGED <<config, pool, transferFee, supply, lp>>

ConfigInstruction == ConfigStep /\ UNCHANGED poolVars

Next ==
  \/ ConfigInstruction
  \/ NewEpoch
  \/ CollectProtocolFees
  \/ \E user \in Keys :
       \/ \E side \in Sides, n \in Amounts : Donate(user, side, n)
       \/ \E n \in LpAmounts : DirectBurn(user, n)
       \/ \E fees \in FeeInputs, bps \in {FeeBps(f) : f \in FeeInputs} :
            CreatePool(user, fees, bps)
       \/ \E side \in Sides, n \in Amounts, limit \in Limits :
            \/ SwapExactIn(user, side, n, limit)
            \/ SwapExactOut(user, side, n, limit)
            \/ DepositSingleTokenTypeExactAmountIn(user, side, n, limit)
            \/ WithdrawSingleTokenTypeExactAmountOut(user, side, n, limit)
       \/ \E n \in LpAmounts, limit \in Limits :
            \/ DepositAllTokenTypes(user, n, limit)
            \/ WithdrawAllTokenTypes(user, n, limit)

Spec == Init /\ [][Next]_vars

-----------------------------------------------------------------------------
TypeOK ==
  /\ ConfigTypeOK
  /\ pool \in {NoPool} \cup {Pool(f) : f \in {g \in FeeInputs : ValidFees(g)}}
  /\ protocolFees \in [Sides -> Nat]
  /\ transferFee \in TransferFees
  /\ vault \in [Sides -> Nat]
  /\ supply \in 0 .. U64Max
  /\ wallet \in [Keys -> [Sides -> Nat]]
  /\ lp \in [Keys -> Nat]

\* The counters never claim more than the vault holds, on either side and
\* after any sequence of swaps, deposits, withdrawals and collections.  lp_owned
\* calls a violation unreachable state corruption: every handler that reads
\* the reserves, and the collection itself, would fail for ever.
FeesBacked == \A side \in Sides : protocolFees[side] <= vault[side]

\* No instruction dilutes the holders of LP tokens: the value of one LP token,
\* sqrt(lpA * lpB) / supply, never falls while tokens are outstanding.  All the
\* rounding in fees.rs and constant_product.rs is there for this.  Excepted are
\* the deposits of a pool whose mints charge for transfers: they mint for what
\* was sent and the vaults get less.
Untaxed == \A side \in Sides : transferFee[side].bps = 0 \/ transferFee[side].maximum = 0
LpValue == LpOwned("A") * LpOwned("B")
LpValueNeverDiluted ==
  [][ supply > 0 /\ supply' > 0 /\ (supply' > supply => Untaxed) =>
        LpValue' * supply * supply >= LpValue * supply' * supply' ]_vars

\* An exact-input swap never takes more than was offered: the mint's fee comes
\* off the offer, the curve may want less than the rest, and the fee that is
\* added to what it wants never lifts the sum above the offer.
ExactInputIsEnough ==
  [][ \A user \in Keys, side \in Sides, n \in Amounts :
        wallet[user][side] - wallet'[user][side] > n => ~SwapExactIn(user, side, n, 0) ]_vars

\* The holder of all LP tokens can always take the whole LP-owned reserve out,
\* a side that holds only protocol fees included.
SoleLpCanExit == supply > 0 => LpReserves \in WithdrawAllPays(supply)

\* Accrued protocol fees leave the counters only to the treasury of the moment,
\* to the unit (its mints' own fee aside), and what the liquidity providers own does not move.
FeesLeaveOnlyToTreasury ==
  [][ \A side \in Sides :
        protocolFees'[side] < protocolFees[side] =>
          /\ wallet'[config.treasury] = Credited(wallet[config.treasury], Arrived(protocolFees))
          /\ LpReserves' = LpReserves /\ supply' = supply
    ]_vars
=============================================================================
