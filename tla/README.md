# A formal model of rome-dex

TLA+ modules, TLC configurations and TLAPS proofs for the on-chain programs of
rome-dex and for the keeper that drives its orders. Every definition is
translated from the source; `PROJECT.json` maps it to its lines.

## The system

A native Solana AMM that Solana wallets and EVM wallets reach over one set of
accounts. Every instruction is one atomic transaction: an `Err` anywhere, in a
cross-program call too, reverts it. There is no concurrency inside a handler;
what is hard is the order in which many actors' transactions land, what each
left in the shared accounts, integer rounding over long sequences, and services
off chain that decide from what they read some time ago.

| Part | State | Operations | Talks to | What makes it correct | Module |
|---|---|---|---|---|---|
| DEX curve and fees (`program/src/curve`) | none | swap both ways, fees, deposits and withdrawals of one or both tokens | | no rounding favours the caller | `Curve` |
| DEX configuration (`program/src/config.rs`) | admin, nominee, treasury, creation mode | initialize, set treasury, nominate, accept, set mode | read by the pool | only real keys become authorities; the admin changes by nomination only | `Config` |
| DEX pool (`program/src/processor.rs`) | two vaults, fee counters, LP mint | create, swap in and out, deposit and withdraw (both, single), collect fees | SPL Token, `Config`, `Curve` | counters stay backed; LPs are never diluted; the last LP can leave; fees reach the treasury | `TokenSwap` |
| Orders (`orders/`) | an order account and an escrow per owner and nonce | place, execute, cancel, crank expired, close filled | swaps in the pool by CPI | limit price, keeper fee, cadence, escrow; never stuck | `Orders`, `OrderPromise` |
| Keeper (`harness/keeper.mjs`) | a clock, the accounts and two balances, read one after the other in each pass | one pass: discover, then skip, execute or crank each order | reads the chain, sends transactions | sends only what the chain would run; fillable orders get filled and expired ones returned | `Keeper` |
| Farm (`farm/`) | accumulator, one position per staker, LP vault | init farm, init position, stake, unstake, claim, set rate, emergency exit | mints the reward | stakes backed; emission bounds the rewards; nobody's reward is taken | `Farm` |
| Concentrated liquidity (`clmm/`) | pool price, tick and growth, ticks in arrays, positions, two vaults | init pool and tick array, open, increase, decrease, collect, close, swap across ticks | SPL Token | liquidity in range; fees stay inside their range; the vaults cover every exit | `ClmmMath`, `Clmm` |
| Quote of a concentrated swap (`sdk/clmm-quote.mjs`) | none | walk the fetched tick arrays | reads the pool | the quote's amounts and price are the fill's | `ClmmQuote` |
| EVM router (`contracts/src/RomeDexRouter.sol`) | registry of pools, owner, pauser, two switches | register, freeze, pause, hand over; swap both ways, add and remove liquidity, zap in, route | several instructions of the DEX in one EVM transaction | bounds hold per call; pause and freeze are complete | `Router` |
| EVM router of the concentrated pools (`contracts/src/RomeClmmRouter.sol`) | the same | the same control, one swap call | the CLMM program | as above | not modelled |

The SDK, the web application, the live-chain harness, design files and CI hold
no protocol state and are not modelled.

## Modules and how they correspond to the code

Rejected calls are no steps: a handler is an action whose guard is the
conjunction of its checks. Account-key and owner checks (`check_accounts`, PDA
derivations, the pinned token program) are not modelled: an action can only
name the accounts that pass them. A signer is an argument of the action.
An `Option` or `Result` of the arithmetic is a set, empty for `None`.

- **`Curve`**: pure operators named after their functions. `CheckedCeilDiv` is
  external (spl-math); the square root of the single-sided formulas, which the
  code approximates to twelve digits, is exact.
- **`Config`**: variable `config`; one action for each of the five instructions.
- **`TokenSwap`** extends both. `vault` is the raw balance, `protocolFees` the
  counters, `LpOwned` their difference (`lp_owned`). Transfers to a vault
  (`Donate`) and burns by the holder (`DirectBurn`) happen outside the program.
  `transferFee` is what the mint of each side charges (Token-2022; zero for an SPL
  Token mint) and changes with an epoch (`NewEpoch`). The swap handlers read it:
  the curve gets what arrives (`Arriving`) and the trader sends what makes the
  curve's amount arrive (`Sent`). The other handlers do not.
- **`Orders`** extends `Curve`. `order` and `escrow` per address, the pool as its
  LP-owned reserves and counters, `ledger` a history of where tokens went.
  `MarketMove` stands for all other traders. `ExecuteAccounts` is the account
  list of the CPI and the constant `SwapLayout` what the DEX unpacks.
- **`OrderPromise`**: the abstract specification of an order: a deal takes tokens
  into custody, trades use them up at the owner's price or better, the rest
  comes back. It knows no pool, keeper, tranche arithmetic or account list.
  `Orders` implements it (`KeepsPromise`) under the mapping `Promise`, which makes
  a deal of the order account and its history.
- **`Keeper`** extends `Orders`. `recent` is what the signatures of the program's
  address give, the latest `DiscoveryLimit` of them (200 in the code). A pass
  reads in four steps with the world moving in between: `StartPass` takes the
  host's clock and the signatures (`poll`), `FetchAccounts` the accounts (`todo`),
  and for each order to be quoted `ReadSourceVault` the one vault (`seen`) and
  `Handle` the other, with the decision. `sending` is the transaction under way,
  which `Deliver` runs against the chain as it is by then or `Drop` loses. `up` is
  the process: it may end at any point, and a pass then starts from nothing while
  its last transaction may still land. Three details of discovery are folded: the
  clock and the signatures are one step (the time between them counts as part of
  `MaxSkew`), the account fetch of `discoverOrders` (`:103`) is part of the later
  one of `runOnce`, which filters again, and only transactions that succeeded
  take a place in `recent`.
- **`Farm`**: `farm` and `stake` are the accounts, `emitted` a history of what
  the elapsed seconds were to pay. `Resize` is the common body of `stake` and
  `unstake`. The integer widths are constants.
- **`ClmmMath`**: `clmm/src/curve` as operators: amounts and liquidity deltas with
  their roundings, the step of a swap with its four cases, fee growth modulo
  `GrowthMod` (2^128). Tick prices are a constant table in place of the powers of
  1.0001, with `Q64` and the fee denominator as parameters.
- **`Clmm`**: one pool. Only a swap takes several steps: `walk` is the copy its
  loop works on, one step per round, and settles or is thrown away as a whole;
  nothing else runs meanwhile. `stalled` is a history variable for the finding
  below.
- **`ClmmQuote`**: `quoteClmmExactInSync` of the SDK written on its own beside
  `Clmm`: its search for the next tick, its cap, its loop as a recursive function
  (`QuoteRounds`), taken for as many rounds as the window has ticks.
- **`Router`** extends `Curve`. An EVM call is one transaction of several
  instructions, so an instruction is an operator from a *ledger* (pools and the
  user's balances) to the ledgers it may leave, none when it is refused, and a
  call chains them: `SwapLeg` is `_swap`, `ZapIn` is a leg and a deposit on what
  the leg left, `Route` two legs. `Elsewhere` is everybody who uses the pools past
  the router. A row of the registry is one of four kinds by what the program
  makes of its accounts; the account lists themselves are not spelled out.

`MC*` modules give the constants of the runs; operators marked *Mutant* are
plausible bugs, each of which breaks one property in one run, and are used by no
specification.

## What the runs check

| Run | Instance | Shows |
|---|---|---|
| `pool_one` | one trader and LP, amounts to 4, two valid fee schedules and an invalid one; a mint that charges a quarter, at most one, and stops | `FeesBacked`, `SoleLpCanExit`, `LpValueNeverDiluted`, `ExactInputIsEnough` |
| `pool_two` | two keys, small amounts, all of `Config`, a fee floor | `LpValueNeverDiluted`, `FeesLeaveOnlyToTreasury`, `ConfigTypeOK`, `AdminHandover` |
| `orders` | one address used twice, a limit and a DCA order, four unsound requests, two prices, gifts | `EscrowCovers`, `LimitHonoured`, `KeeperFeeBounded`, `CadenceKept`, `NeverStuck`; the refinement `KeepsPromise` |
| `keeper` | two orders, a moving price, a window of two signatures, lost transactions, a process that ends anywhere | `NoWastedSend`; liveness: `FillableIsFilled`, `EveryOrderEnds` |
| `farm` | two stakers, rates 0, 3 and one over the cap, three seconds, widths at which position times accumulator overflows | `StakesBacked`, `DebtCovered`, `EmissionBounded`, `EmergencyExitWorks`, `RewardsNeverTaken` |
| `clmm` | three positions that overlap and nest, two arrays of two ticks, swaps both ways that cross up to two ticks, price limits | `LiquidityInStep`, `TickTracksPrice`, `Solvent`, `SwapIsBacked`, `FeesStayInRange`, `ChangeKeepsFees`, `RoundsProgress`, `QuoteIsFill` |
| `router` | two accounts, pools x-y and y-z, any rows, swaps as large as the pools, three bounds | `ZapDepositsOutput`, `BoundsHonoured`, `RouteKeepsToItself`, `PauseStopsTrading`, `FrozenForEver` |

Five more runs find what a comment of the code promises and the code does not
do; `PROJECT.json` quotes each.

- `keeper_layout`: `Execute` hands the DEX program of this repository an account
  list it cannot unpack (a fee account too many, the pool read-only), so no
  order is ever filled. The other order runs use the list the orders program
  and its clients agree on (`LegacyLayout`), which the proofs leave arbitrary.
- `keeper_quote`: the keeper quotes on raw vault balances, uncollected fees
  included, and passes over orders the chain would fill.
- `pool_whole_fee`: two valid fees that add up to one make an exact-output swap
  free. The theorem about LP value assumes they do not.
- `farm_brick`: the cap of the rate protects the accumulator but not its product
  with a large position that joins late.
- `clmm_stall`: after a swap crossed a tick downwards, a last round that does not
  move the price (one unit left, all of it fee) sets the tick back without its
  liquidity, and the next swap crosses that tick a second time. `LiquidityInStep`,
  `Solvent` and `SwapIsBacked` are stated up to such a step.

Smaller disagreements met while modelling, for which no run is kept:

- `base.rs:131-134` grosses an exact-output swap up "so" the fees leave
  `pool_input`; the two minimum fees of `fees.rs:46-63` are not foreseen, and a
  small swap may reach the curve with less. `LpValueNeverDiluted` holds with them.
- The deposit handlers read no transfer fee: for a token whose mint charges one
  they mint LP tokens for what was sent, the vault gets less, and the other LPs
  pay the difference. `LpValueNeverDiluted` excepts these deposits (`Untaxed`);
  swaps, withdrawals and collections are within it whatever the mints charge.
- A filled order's escrow may hold a residue nobody donated, because a swap takes
  less input than the tranche debited (`orders/src/processor.rs:275`).
  `NeverStuck` shows that it can always be returned.
- `clmm-quote.mjs:202` ends a walk at the edge of the fetched arrays where the
  engine (`engine.rs:165-167`) asks for the next array, though `:217-218` says that
  it "throws "window exhausted" where the program errors": the quote can promise a
  fill that fails. `QuoteIsFill` speaks of the swaps that succeed, where the quote
  never throws.
- `clmm-quote.mjs:276` returns the tick of its loop, `engine.rs:211` stores it held
  to `MIN_TICK .. MAX_TICK`. Where a swap runs down to the band's edge over an array
  boundary beyond it, `tickAfter` is not the tick the pool has (-5 against -3 in the
  `clmm` instance), though `clmm-quote.mjs:215` says "Mirrors engine::swap exactly"
  and `harness/clmm-quote-crossing-cap.test.mjs:76` that the "resting tick must
  match the program exactly". Amounts and price do agree. `QuoteIsFill` compares
  the settled tick (`EndTick`) with the quote's tick after the same clamp.
- `keeper.mjs:6-7` decides off-chain "so we don't burn a tx on an unfillable
  order". `NoWastedSend` names the cases where it does all the same: an order
  without a floor whose tranche the two minimum fees eat up (`amountOut` 0 is not
  below 0, and the program refuses), at every pass again; a pool whose fee counters
  make the vaults look better than the reserves; a nearly drained pool; and two
  balances read at different times (`keeper.mjs:145-147`).
- `clmm/src/state.rs:65-66` calls `current_tick` the greatest tick at or below the
  price; after a downward crossing it is one lower (`TickMatches`).
- `IncreaseLiquidity` takes an amount of 0, which its documentation excludes.
- `keeper.mjs:3` says that every order account is polled; those whose last
  transaction left the window of 200 signatures are not. The liveness properties
  are stated for orders in the window.
- `RomeDexRouter.sol:152-156` says that a wrong row of the registry fails closed.
  A row with the two sides exchanged is taken by the program as a swap in the
  other direction (liquidity and zaps fail); the bounds of the caller still hold
  on the tokens that row names.
- `route` does not look whether the second hop's input is the first one's output
  (the comment at `:355-357` takes it for granted), so `RouteKeepsToItself`
  speaks of connected routes.
- `zapIn` cuts the LP amount to 64 bits without a check; `minLp` protects.
- The shave of a thousandth at `:326` is not what keeps a deposit within the
  output of the swap: `ZapShareCovered` holds without it.

### Bounds

- Amounts and reserves are a few units, small enough that every amount floors,
  hits the minimum fee, divides exactly or drains a side somewhere. Fee
  fractions of a quarter and a third make all of these occur at once.
- The charging mint of `pool_one` withholds a quarter and never more than one
  token, so that its fee rounds up, meets its cap, and is zero on a transfer of
  nothing. `pool_two` has mints without a fee, as the deployment does.
- `U64Max` of the pools is reached by supply. In the farm runs `U128Max` is just
  what the accumulator can reach (`MaxTime` times the capped rate times
  `AccPrecision`), so that it never overflows and its products do.
- Orders use reserves of a thousand, so that 50 basis points of a tranche are
  two tokens. The limit order has two tranches and a half, for the partial
  floor; the last tranche of the DCA order, one token, is never fillable.
- `MaxRounds` bounds how often an address is used: two is enough for a
  transaction to meet another order than it was made for. `MaxTime` lets every
  bounded order expire. `MaxChanges` (farm) bounds the Stakes and Unstakes.
- Keeper: the window holds two signatures, so that an order falls out of it and
  comes back; two orders compete for one market. The markets are such that a
  balance of the one next to a balance of the other looks like a price to fill
  at: without its exception for balances read apart, or its condition that the
  order is as it was read, `NoWastedSend` fails. Other keepers name an outside
  account there; that they may name the escrow is in the `orders` run.
- Concentrated pool: prices are seven steps of a tenth over `Q64` = 64, so a round
  ends on a tick, between two ticks and without moving, with fees that round to
  nothing or to everything. The lowest tick is no multiple of the spacing, as in
  the program. Three changes and two swaps are enough for a position
  to be opened, crossed, emptied and cleared; arrays hold two ticks, so a walk
  leaves one, and a swap meets its cap of two crossings. `GrowthMod` is small
  enough for subtractions to wrap.
- Router: pools of four tokens a side and swaps of three and fourteen reach the
  drained side, the minimum fee and a share of zero; `MaxSteps` = 4 calls are a
  registration, another party's step, a switch and a call, or a hand-over in
  full. `U64Max` = 31 makes the cast of `zapIn` cut.
- The deadlock check is off where clock, rounds, changes or steps are bounded and
  the system may come to rest (the keeper, farm, clmm and router runs).
- No symmetry is used: liveness runs must not, and the other sets have at most
  four elements.

### Fairness

Only `KeeperSpec` states any. The clock advances (weak, `Tick`). The bot loops
forever (`while (watch)`) and a pass handles each of its accounts in turn (weak,
`StartPass`, `FetchAccounts`, `ReadSourceVault` and `Handle`); a send that fails
is caught and the pass goes on (weak, `Drop`). Strong fairness of `Deliver` says that a transaction sent again
and again is not lost or overtaken every time. An exception outside a caught
send ends the process, and nothing in the repository starts it again: `<>[]up`
assumes that somebody does, and that from some point on it stays up; before that
it may end any number of times, at any point of a pass. There is no fairness for
owners, traders or other keepers, nor for the programs and the router, which
only act when called.

`FillableIsFilled` says that an order in the window does not stay fillable for
ever: it is filled, or something else ends the condition. `EveryOrderEnds` needs
an expiry within the clock's bound, an order of a pool in the keeper's list, and
that the order stays in the window.

## What is proved

All theorems hold for every value of the constants that satisfies the named
assumptions beside them.

- **`CurveProofs`**: lemmas about the curve: rounding, fees are part of the
  amount, an output is part of the reserve, the product of the reserves does not
  shrink, and single-sided and two-sided shares are never rounded to the
  caller's favour. No temporal formula.
- **`TokenSwapProofs`**: of the configuration, `ConfigTypeOK` is inductive as it
  stands and `AdminHandover` follows from it action by action. The whole program
  implements `ConfigSpec` (`PoolImplementsConfig`), so both hold of it. Of the
  pool, the inductive invariant joins `TypeOK` and `FeesBacked`: subtraction in
  the handlers stays natural only because the counters are backed.
  `SoleLpCanExit` follows because a share of the whole supply is the whole
  reserve. `LpValueTheorem` has one lemma for each instruction that moves tokens
  or supply and assumes `NoWholeFee`, which `pool_whole_fee` shows to be needed.
  `FeesToTreasuryTheorem` needs that no counter is above zero before the pool
  exists, since `CreatePool` sets both to zero. With mints that charge, all of
  it rests on three facts about the fee, for every rate and cap: of the transfer
  before the fee the amount after the fee arrives (`PreTransferFeeCovers`), no
  smaller transfer would do (`PreTransferFeeLeast`), and a larger transfer loses
  no less (`WithheldMono`). From them what a swap has the trader send brings the
  curve's amount to the vault and is within any offer of which that much arrives
  (`SentFacts`): the first half keeps the counters backed and the LPs undiluted,
  the second is `ExactInputIsEnoughTheorem`.
- **`OrdersProofs`**: the invariant `Sound` speaks of one order, its escrow and
  its history; it adds what `Place` checked (a positive tranche, a capped fee).
  Five theorems are its parts; `OrdersKeepPromise` maps every step to a step or
  a stutter of `OrderPromise` and needs all of them: a fill is a `Trade` only
  because the floor honours the limit and the escrow covers the tranche.
  `ExitsOpenTheorem` shows that the guards of the three exits hold of every order.
  The last part adds the keeper. `NoWastedSendTheorem` needs the invariant (the
  escrow covers the tranche), and `QuoteIsNoBetter`: with the fee counters beside
  the reserves, a quote on the vaults that clears the floor is no better than the
  swap, unless the counters tilt the price; `CpSwapGives` (in `CurveProofs`) then
  says that the swap is not refused. `KeeperKeepsSafety` and `KeeperKeepsPromise`
  only carry the theorems about orders over to the two together.
- **`FarmProofs`**: `IInv` joins `TypeOK` with "every debt is covered", also
  before the farm exists, when the accumulator counts as zero. An accrual only
  raises the accumulator and a settlement keeps what the position was worth:
  from these `RewardsNeverTaken` follows for each action. The farm may be of any
  width: the theorems cover states in which the arithmetic has overflowed.
  `StakesBacked` and `EmissionBounded` add up over all stakers: a change of one
  position changes one term (`SumChanged`). `EmissionBounded` is not inductive:
  its invariant `Budget` bounds the credits of the stakers plus the accumulator
  times the total by the emission less what a next accrual would still add, plus
  the changes, all times `AccPrecision`, so that no floor is left in it.
  `EmergencyExitCovered` shows that neither subtraction of an emergency exit can
  fail.
- **`SumTheorems`**: what `SumFunctionOnSet` of the community modules returns, for
  any finite set: recursion one element at a time, linearity, monotonicity, the
  change of one term. The library's induction takes an operator, which the
  provers cannot instantiate; these facts are proved from a smallest
  counterexample instead (`MinimalSubset`, from a well-founded order).
- **`RouterProofs`**: each instruction has a footprint: which balances it moves,
  by how much at most (`SwapFootprint`, `DepositFootprint`). A call's theorem
  chains the footprints of its instructions, with `TypeOK` as the only invariant.
  `RouterZapDepositsOutput` is arithmetic: the ceiling of a floored share is
  within the output (`ZapShareCovered`), and two floors and the shave lose less
  than a thousandth and two LP tokens' worth (`ZapShareDust`).
- **`ClmmProofs`**: `IInv` joins `TypeOK`, `TickTracksPrice` and `LiquidityInStep`
  with what they need: `Ranges` (the bounds of an open position are valid
  ticks), `Books` (the gross and net liquidity of every tick are the sums over
  the positions that end there) and `OnItsWay` (a swap in progress changes
  neither, and stays inside its window and between its start and its limit).
  `Books` makes the end of a live position an initialized tick, so a round
  passes one only by crossing it (`AheadBounds`, `RoundSides`), and a crossing
  adds exactly the net liquidity (`CrossingAdds`). `RoundsProgress` follows from
  the facts of one round (`RoundFacts`). `FeesStayInRange` compares the growth
  below a tick before and after a round, up to multiples of `GrowthMod`
  (`RoundBelow`); `ChangeKeepsFees` that a change seeds or clears no end of a
  live position. The assumptions are prices that rise strictly with the tick and
  a `MinTick` that is no multiple of `TickSpacing`: true of every tier
  (`POOL_TIERS`), and needed, since a downward crossing of `MinTick` itself would
  be clamped back above it without its liquidity.

- **`ClmmOutcomes`**, first part: the vaults. What a position is worth has the
  prices of its range in a denominator, and every deposit, round, fee and
  withdrawal is rounded on its own, so sums of worths cannot be compared with
  balances directly. Everything is therefore multiplied by `Scale`, `Q64` times a
  common multiple of all prices (one exists: `MultipleExists`), which makes the
  worth of a position an exact integer, its `Debt`, and every rounding an
  inequality in the pool's favour. The inductive invariant `Covers` says that the
  scaled vaults cover the debts of all positions, and, during a swap, the scaled
  vaults with its input in and its output out cover the debts at the price, tick
  and growth of the walk: needed because the debts of the walk are what the pool
  has when it settles. A round raises the debts of the positions that hold the
  tick by their share of the step and the fee; these shares add up to the active
  liquidity only because of `LiquidityInStep`, which is why a stalled swap is
  excepted. Growth wraps: a claim is a difference modulo `GrowthMod`, and the
  claims before and after a round differ by at most the growth of the round.
  `SolventTheorem` and `SwapIsBackedTheorem` divide by `Scale` again. TLC checked
  `Covers` on the `clmm` instance (prices to 15, so that the multiple is 360360)
  before it was proved.
- **`ClmmOutcomes`**, second part: the quote. That the recursion of `QuoteRounds`
  defines a function is proved from its finite prefixes (`UpToExists`,
  `UpToAgree`, `QuoteUnfolds`), each by a smallest counterexample. The invariant
  `Followed` says that the walk is what some round of the quote holds, and that a
  walk which still runs has passed a tick of the window in each round so far; the
  second half bounds the rounds, so that `Quote` looks at one where nothing moves
  any more (`QuoteRests`). Its step is `QuoteFollowsRound`: the two searches find
  the same target (`QuoteLooksAhead`: the candidate of `nextTarget` is the nearest
  multiple of the spacing), and a round the program does not refuse changes both
  records alike. TLC checked `Followed` on the `clmm` instance too.

Only model-checked: liveness (`FillableIsFilled`, `EveryOrderEnds`: out of the
prover's reach); `NeverStuck` and `EmergencyExitWorks`, which use `ENABLED` (their
guards are proved: `ExitsOpenTheorem`, `EmergencyExitCovered`); what the
single-sided formulas return beyond the bounds used in `LpValueTheorem`.

## What is not modelled, and why

- The retired `Initialize`, which the processor refuses. Transfer fees of the
  mints in `Orders`, `Keeper` and `Router`: the pools of this deployment have
  none, and only `TokenSwap` models them. The constant-price and offset curves:
  the `SWAP_CONSTRAINTS` of a production build admit the constant-product curve
  only.
- u128 overflow inside the curve: products of u64 reserves fit; PreciseNumber's
  approximate root. The powers of 1.0001 and their inverse (`tick_math.rs`): a
  table of prices stands for them. 128-bit widths of liquidity and price.
- Direct transfers to a farm's vault: the program never reads that balance.
- In the keeper, the creation of token accounts (it always succeeds or ends the
  process) and the file it reads its pools from.
- Packing and unpacking of accounts and instructions, PDA derivations, and the
  order of accounts except where a hazard is about it (`ExecuteAccounts`).
- `RomeClmmRouter.sol`: the control code of `Router` around one swap call.
- `sdk/` beyond the two quotes, `app/`, the live-chain tests, `scripts/`,
  `design/`: they build instructions, read and draw.

Most lines of the Rust files are tests in place (`processor.rs` of the DEX has
some nine thousand); they were read with the code and stand for no definition.

## Plan

Done, in this order: `Curve`, `Config`, `TokenSwap`, `Orders`, `Keeper`, `Farm`
and their proofs; `ClmmMath`, `Clmm`, `ClmmQuote`; discovery and crashes in
`Keeper`; `OrderPromise` and the refinement; `Router` and its proofs;
`ClmmProofs` and `ClmmOutcomes`.

Transfer fees of the mints were added to `TokenSwap` and its proofs last.

Left: `RomeClmmRouter` composed with `Clmm`.
