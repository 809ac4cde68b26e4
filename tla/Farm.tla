-------------------------------- MODULE Farm --------------------------------
(***************************************************************************)
(* One liquidity-mining farm: the farm program (farm/src/processor.rs and  *)
(* state.rs).  Stakers lock LP tokens in the vault and earn a reward that  *)
(* the farm emits per second and splits by stake, through an accumulator   *)
(* of the reward per staked unit and a debt snapshot per position.         *)
(*                                                                         *)
(* An instruction is one transaction; an Err, an arithmetic overflow       *)
(* included, reverts it.  The integers of the accounts are u64 and the     *)
(* accumulator is computed in u128: both widths are constants here.        *)
(***************************************************************************)
EXTENDS Integers, FiniteSetsExt

CONSTANTS Stakers,             \* authorities that may hold a position
          Rates,               \* reward_per_second values the owner tries
          Amounts,             \* amounts of a Stake or an Unstake
          Endowment,           \* LP tokens each authority starts with
          AccPrecision,        \* ACC_PRECISION
          MaxRewardPerSecond,  \* MAX_REWARD_PER_SECOND
          U64Max, U128Max,     \* the widths of the integers
          MaxTime,             \* bound of the clock, in seconds
          MaxChanges           \* bound: how often positions change their size

ASSUME FarmAssumption ==
  /\ IsFiniteSet(Stakers)
  /\ Rates \subseteq Nat /\ Amounts \subseteq Nat
  /\ Endowment \in Nat
  /\ AccPrecision \in Nat \ {0} /\ MaxRewardPerSecond \in Nat
  /\ U64Max \in Nat /\ U128Max \in Nat
  /\ MaxTime \in Nat /\ MaxChanges \in Nat

VARIABLES now,      \* Clock::unix_timestamp
          farm,     \* the Farm account
          stake,    \* the UserStake accounts, NoStake before InitUserStake
          vault,    \* LP tokens in the farm's vault
          wallet,   \* LP tokens of the authorities
          minted,   \* reward tokens minted to each authority so far
          emitted,  \* history: what the seconds with a stake were to pay
          changes   \* history: Stakes and Unstakes so far

vars == <<now, farm, stake, vault, wallet, minted, emitted, changes>>

None == {}
Some(x) == {x}

NoFarm == [initialized |-> FALSE]
NoStake == [initialized |-> FALSE]
FarmState(rate, last, acc, total) ==
  [initialized |-> TRUE, rate |-> rate, last |-> last, acc |-> acc, total |-> total]
UserStake(amount, debt, pending) ==
  [initialized |-> TRUE, amount |-> amount, debt |-> debt, pending |-> pending]

Init ==
  /\ now = 0
  /\ farm = NoFarm
  /\ stake = [u \in Stakers |-> NoStake]
  /\ vault = 0
  /\ wallet = [u \in Stakers |-> Endowment]
  /\ minted = [u \in Stakers |-> 0]
  /\ emitted = 0
  /\ changes = 0

-----------------------------------------------------------------------------
(* The reward arithmetic.  Each operator is empty on overflow.             *)

\* Mutant: the accumulator moves and the clock of the farm does not.
AccruedNoClock ==
  LET reward == (now - farm.last) * farm.rate * AccPrecision
  IN  IF now <= farm.last \/ farm.total = 0 THEN Some(farm)
      ELSE Some([farm EXCEPT !.acc = @ + reward \div farm.total])

\* Farm::accrue.  Idle time emits nothing but moves the clock.
Accrued ==
  LET elapsed == now - farm.last
      reward == elapsed * farm.rate * AccPrecision
      acc == farm.acc + reward \div farm.total
  IN  IF now <= farm.last THEN Some(farm)
      ELSE IF farm.total = 0 \/ farm.rate = 0 THEN Some([farm EXCEPT !.last = now])
      ELSE IF reward > U128Max \/ acc > U128Max THEN None
      ELSE Some([farm EXCEPT !.last = now, !.acc = acc])

\* UserStake::set_debt; the gross reward of a position that was always there.
Gross(amount, acc) ==
  IF amount * acc > U128Max THEN None ELSE Some((amount * acc) \div AccPrecision)

Saturated(x) == IF x < 0 THEN 0 ELSE x

\* UserStake::pending
Pending(s, acc) ==
  { p \in { s.pending + Saturated(g - s.debt) : g \in Gross(s.amount, acc) } :
      p <= U64Max }

-----------------------------------------------------------------------------
(* Instructions.                                                           *)

Tick ==
  /\ now < MaxTime
  /\ now' = now + 1
  /\ emitted' = IF farm.initialized /\ farm.total > 0 THEN emitted + farm.rate
                ELSE emitted
  /\ UNCHANGED <<farm, stake, vault, wallet, minted, changes>>

InitFarm(rate) ==
  /\ ~farm.initialized
  /\ rate <= MaxRewardPerSecond
  /\ farm' = FarmState(rate, now, 0, 0)
  /\ UNCHANGED <<now, stake, vault, wallet, minted, emitted, changes>>

\* The farm account need not be initialised yet.
InitUserStake(u) ==
  /\ ~stake[u].initialized
  /\ stake' = [stake EXCEPT ![u] = UserStake(0, 0, 0)]
  /\ UNCHANGED <<now, farm, vault, wallet, minted, emitted, changes>>

\* Mutant: the new debt is taken and the reward so far is not folded in.
SettledNoPending(s, acc, amount) ==
  { UserStake(amount, debt, s.pending) : debt \in Gross(amount, acc) }

\* The position after a settlement, at size `amount`.
Settled(s, acc, amount) ==
  { UserStake(amount, debt, pending) :
      debt \in Gross(amount, acc), pending \in Pending(s, acc) }

\* Mutant: the debt snapshot keeps the old size of the position.
ResizeOldDebt(u, n) ==
  /\ farm.initialized /\ stake[u].initialized
  /\ changes < MaxChanges
  /\ stake[u].amount + n >= 0 /\ wallet[u] - n >= 0
  /\ \E f \in Accrued :
       /\ farm' = [f EXCEPT !.total = @ + n]
       /\ \E s \in Settled(stake[u], f.acc, stake[u].amount) :
            stake' = [stake EXCEPT ![u] = [s EXCEPT !.amount = @ + n]]
  /\ vault' = vault + n
  /\ wallet' = [wallet EXCEPT ![u] = @ - n]
  /\ changes' = changes + 1
  /\ UNCHANGED <<now, minted, emitted>>

\* A stake grows (n > 0) or shrinks by n LP tokens.
Resize(u, n) ==
  /\ farm.initialized /\ stake[u].initialized
  /\ changes < MaxChanges
  /\ stake[u].amount + n \in 0 .. U64Max
  /\ wallet[u] - n >= 0 /\ vault + n >= 0
  /\ \E f \in Accrued :
       /\ f.total + n \in 0 .. U64Max
       /\ farm' = [f EXCEPT !.total = @ + n]
       /\ \E s \in Settled(stake[u], f.acc, stake[u].amount + n) :
            stake' = [stake EXCEPT ![u] = s]
  /\ vault' = vault + n
  /\ wallet' = [wallet EXCEPT ![u] = @ - n]
  /\ changes' = changes + 1
  /\ UNCHANGED <<now, minted, emitted>>

Stake(u, amount) == Resize(u, amount)
Unstake(u, amount) == Resize(u, -amount)

\* Supply of the reward mint, a u64 of the token program.
RewardSupply == SumFunctionOnSet(minted, Stakers)

\* What is owed is minted.
Claim(u) ==
  /\ farm.initialized /\ stake[u].initialized
  /\ \E f \in Accrued :
       \E s \in Settled(stake[u], f.acc, stake[u].amount) :
         /\ RewardSupply + s.pending <= U64Max
         /\ minted' = [minted EXCEPT ![u] = @ + s.pending]
         /\ farm' = f
         /\ stake' = [stake EXCEPT ![u] = [s EXCEPT !.pending = 0]]
  /\ UNCHANGED <<now, vault, wallet, emitted, changes>>

\* Mutant: the rate changes without a cap and without an accrual.
SetRewardRetroactive(rate) ==
  /\ farm.initialized
  /\ farm' = [farm EXCEPT !.rate = rate]
  /\ UNCHANGED <<now, stake, vault, wallet, minted, emitted, changes>>

\* Signed by the owner.  The old rate pays for the time up to now.
SetRewardPerSecond(rate) ==
  /\ farm.initialized
  /\ rate <= MaxRewardPerSecond
  /\ \E f \in Accrued : farm' = [f EXCEPT !.rate = rate]
  /\ UNCHANGED <<now, stake, vault, wallet, minted, emitted, changes>>

\* Mutant: the farm's total keeps the position that left.
EmergencyUnstakeKeepsTotal(u) ==
  /\ farm.initialized /\ stake[u].initialized
  /\ vault >= stake[u].amount
  /\ vault' = vault - stake[u].amount
  /\ wallet' = [wallet EXCEPT ![u] = @ + stake[u].amount]
  /\ stake' = [stake EXCEPT ![u] = UserStake(0, 0, 0)]
  /\ UNCHANGED <<now, farm, minted, emitted, changes>>

\* Mutant: the exit settles the reward like Unstake does.
EmergencyUnstakeSettles(u) ==
  /\ farm.initialized /\ stake[u].initialized
  /\ \E f \in Accrued : \E s \in Settled(stake[u], f.acc, 0) :
       /\ farm' = [f EXCEPT !.total = @ - stake[u].amount]
       /\ stake' = [stake EXCEPT ![u] = UserStake(0, 0, 0)]
  /\ vault' = vault - stake[u].amount
  /\ wallet' = [wallet EXCEPT ![u] = @ + stake[u].amount]
  /\ UNCHANGED <<now, minted, emitted, changes>>

\* Leaves with the whole position and without its reward; no accrual.
EmergencyUnstake(u) ==
  /\ farm.initialized /\ stake[u].initialized
  /\ vault >= stake[u].amount /\ farm.total >= stake[u].amount
  /\ vault' = vault - stake[u].amount
  /\ wallet' = [wallet EXCEPT ![u] = @ + stake[u].amount]
  /\ farm' = [farm EXCEPT !.total = @ - stake[u].amount]
  /\ stake' = [stake EXCEPT ![u] = UserStake(0, 0, 0)]
  /\ UNCHANGED <<now, minted, emitted, changes>>

Next ==
  \/ Tick
  \/ \E rate \in Rates : InitFarm(rate) \/ SetRewardPerSecond(rate)
  \/ \E u \in Stakers :
       \/ InitUserStake(u)
       \/ \E n \in Amounts : Stake(u, n) \/ Unstake(u, n)
       \/ Claim(u)
       \/ EmergencyUnstake(u)

Spec == Init /\ [][Next]_vars

-----------------------------------------------------------------------------
FarmType == [initialized : {TRUE}, rate : 0 .. MaxRewardPerSecond,
             last : Nat, acc : 0 .. U128Max, total : 0 .. U64Max]
StakeType == [initialized : {TRUE}, amount : 0 .. U64Max,
              debt : 0 .. U128Max, pending : 0 .. U64Max]

TypeOK ==
  /\ now \in 0 .. MaxTime
  /\ farm \in FarmType \cup {NoFarm}
  /\ stake \in [Stakers -> StakeType \cup {NoStake}]
  /\ vault \in Nat
  /\ wallet \in [Stakers -> Nat]
  /\ minted \in [Stakers -> Nat]
  /\ emitted \in Nat /\ changes \in 0 .. MaxChanges

AmountOf(u) == IF stake[u].initialized THEN stake[u].amount ELSE 0
Active(u) == farm.initialized /\ stake[u].initialized

\* The vault holds every position, the total the emission is divided by is the
\* sum of the positions, and every staker has in wallet and position together
\* the LP tokens it came with.
StakesBacked ==
  LET positions == SumFunctionOnSet([u \in Stakers |-> AmountOf(u)], Stakers)
  IN  /\ vault = positions
      /\ farm.initialized => farm.total = positions
      /\ \A u \in Stakers : wallet[u] + AmountOf(u) = Endowment

\* A position always gets its LP tokens back, also when the reward arithmetic
\* has overflowed for good (processor.rs, emergency_unstake).
EmergencyExitWorks ==
  \A u \in Stakers : Active(u) => ENABLED EmergencyUnstake(u)

\* A position's debt is never above its gross reward: the saturating_sub in
\* pending() never hides a shortfall.
DebtCovered ==
  \A u \in Stakers : Active(u) =>
    stake[u].debt * AccPrecision <= stake[u].amount * farm.acc

\* What the position of u is worth at the farm's accumulator, and with what u
\* has claimed before.
Owed(u) ==
  IF ~Active(u) THEN 0
  ELSE stake[u].pending
         + ((stake[u].amount * farm.acc) \div AccPrecision - stake[u].debt)
Entitled(u) == minted[u] + Owed(u)

\* All stakers together get no more than the emission, up to one unit for every
\* change of a position: set_debt rounds the new debt down.
EmissionBounded ==
  SumFunctionOnSet([u \in Stakers |-> Entitled(u)], Stakers) <= emitted + changes

\* No step takes a reward from a staker: what u has earned only grows, however
\* the others move and whatever rate the owner sets, unless u leaves through
\* EmergencyUnstake, which forfeits it.
RewardsNeverTaken ==
  [][\A u \in Stakers : Entitled(u)' >= Entitled(u) \/ EmergencyUnstake(u)]_vars

\* Every staker can settle and leave: the cap of the rate keeps the arithmetic
\* of `unstake` from overflowing (state.rs, MAX_REWARD_PER_SECOND: "the
\* accumulator cannot be driven to permanent overflow, which would brick
\* `unstake`/`claim` forever").
UnstakeWorks ==
  \A u \in Stakers : Active(u) =>
    \E f \in Accrued : Settled(stake[u], f.acc, 0) # None
=============================================================================
