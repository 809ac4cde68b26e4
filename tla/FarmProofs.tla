----------------------------- MODULE FarmProofs -----------------------------
(***************************************************************************)
(* The farm's types and its two promises about rewards, for any stakers,   *)
(* rates, precision and widths: a debt is covered by the gross reward, and *)
(* no step but the owner's own emergency exit takes a reward away.         *)
(*                                                                         *)
(* The induction needs the debts covered before the farm exists too, when  *)
(* the accumulator counts as zero: that is what Covered adds.              *)
(***************************************************************************)
EXTENDS Farm, SumTheorems

Acc == IF farm.initialized THEN farm.acc ELSE 0

\* The snapshot s is covered at accumulator value acc.
Covered(s, acc) == s.initialized => s.debt * AccPrecision <= s.amount * acc

IInv == TypeOK /\ \A u \in Stakers : Covered(stake[u], Acc)

LEMMA DivFacts ==
  ASSUME NEW x \in Nat, NEW y \in Nat, y > 0
  PROVE  /\ x \div y \in Nat
         /\ y * (x \div y) <= x
         /\ x < y * (x \div y) + y
  BY Z3

LEMMA MulMono ==
  ASSUME NEW a \in Nat, NEW b \in Nat, NEW c \in Nat, a <= b
  PROVE  c * a <= c * b
  BY Z3

LEMMA IntMulMono ==
  ASSUME NEW a \in Int, NEW b \in Int, NEW c \in Nat, a <= b
  PROVE  c * a <= c * b
  BY Z3

LEMMA LessIsDue ==
  ASSUME NEW e \in Nat, NEW c \in Nat, NEW d \in Nat, NEW less \in Nat, less <= d
  PROVE  e - d + c \in Int /\ e - less + c \in Int /\ e - d + c <= e - less + c
  OBVIOUS

LEMMA SameBudget ==
  ASSUME NEW e \in Int, NEW c \in Int, NEW d \in Int, NEW r \in Int
  PROVE  (e + r) - (d + r) + c = e - d + c
  OBVIOUS

LEMMA IntMulCancel ==
  ASSUME NEW a \in Int, NEW b \in Int, NEW c \in Nat, c > 0, c * a <= c * b
  PROVE  a <= b
  BY Z3

\* Division by a constant keeps the order.
LEMMA DivMono ==
  ASSUME NEW x \in Nat, NEW z \in Nat, NEW y \in Nat, y > 0, x <= z
  PROVE  x \div y <= z \div y
<1> DEFINE a == x \div y
           b == z \div y
<1>1. a \in Nat /\ b \in Nat /\ y * a <= x /\ z < y * b + y
  BY DivFacts
<1> HIDE DEF a, b
<1>2. y * a < y * (b + 1)
  BY <1>1
<1>3. a < b + 1
  BY <1>1, <1>2, Z3
<1> QED BY <1>1, <1>3 DEF a, b

\* A covered debt is at most the gross reward.
LEMMA CoveredGross ==
  ASSUME NEW debt \in Nat, NEW gross \in Nat, debt * AccPrecision <= gross
  PROVE  debt <= gross \div AccPrecision
<1> DEFINE p == AccPrecision
           g == gross \div p
<1>1. p \in Nat /\ p > 0
  BY FarmAssumption
<1>2. g \in Nat /\ gross < p * g + p
  BY <1>1, DivFacts
<1> HIDE DEF g
<1>3. p * debt < p * (g + 1)
  BY <1>1, <1>2
<1> HIDE DEF p
<1>4. debt < g + 1
  BY <1>1, <1>2, <1>3, Z3
<1> QED BY <1>2, <1>4 DEF g, p

-----------------------------------------------------------------------------
(* What the reward arithmetic returns.                                     *)

LEMMA FarmTypes ==
  ASSUME TypeOK, farm.initialized
  PROVE  /\ farm \in FarmType
         /\ farm.rate \in Nat /\ farm.last \in Nat /\ farm.acc \in Nat /\ farm.total \in Nat
         /\ farm.acc <= U128Max /\ farm.total <= U64Max /\ farm.rate <= MaxRewardPerSecond
         /\ now \in Nat
<1>1. farm \in FarmType
  BY DEF TypeOK, NoFarm
<1>2. now \in Nat
  BY FarmAssumption DEF TypeOK
<1>3. /\ farm.rate \in 0 .. MaxRewardPerSecond /\ farm.last \in Nat
      /\ farm.acc \in 0 .. U128Max /\ farm.total \in 0 .. U64Max
  BY <1>1 DEF FarmType
<1> QED BY <1>1, <1>2, <1>3, FarmAssumption

LEMMA StakeTypes ==
  ASSUME TypeOK, NEW u \in Stakers, stake[u].initialized
  PROVE  /\ stake[u] \in StakeType
         /\ stake[u].amount \in Nat /\ stake[u].debt \in Nat /\ stake[u].pending \in Nat
         /\ stake[u].amount <= U64Max
<1>1. stake[u] \in StakeType
  BY DEF TypeOK, NoStake
<1>2. /\ stake[u].amount \in 0 .. U64Max /\ stake[u].debt \in 0 .. U128Max
      /\ stake[u].pending \in 0 .. U64Max
  BY <1>1 DEF StakeType
<1> QED BY <1>1, <1>2, FarmAssumption

\* An accrual only raises the accumulator.
LEMMA AccruedFacts ==
  ASSUME TypeOK, farm.initialized, NEW f \in Accrued
  PROVE  /\ f \in FarmType
         /\ f.acc \in Nat /\ f.acc >= farm.acc
         /\ f.total = farm.total /\ f.rate = farm.rate
<1> DEFINE reward == (now - farm.last) * farm.rate * AccPrecision
           grown == farm.acc + reward \div farm.total
<1>1. /\ farm \in FarmType
      /\ farm.rate \in Nat /\ farm.last \in Nat /\ farm.acc \in Nat /\ farm.total \in Nat
      /\ now \in Nat
  BY FarmTypes
<1>2. CASE now <= farm.last
  BY <1>1, <1>2 DEF Accrued, Some
<1>3. CASE ~(now <= farm.last) /\ (farm.total = 0 \/ farm.rate = 0)
  <2>1. f = [farm EXCEPT !.last = now]
    BY <1>3 DEF Accrued, Some
  <2>2. f \in FarmType
    BY <1>1, <2>1 DEF FarmType
  <2>3. f.acc = farm.acc /\ f.total = farm.total /\ f.rate = farm.rate
    BY <1>1, <2>1 DEF FarmType
  <2> QED BY <1>1, <2>2, <2>3
<1>4. CASE ~(now <= farm.last) /\ ~(farm.total = 0 \/ farm.rate = 0)
  <2>1. now - farm.last \in Nat /\ AccPrecision \in Nat
    BY <1>1, <1>4, FarmAssumption
  <2>2. (now - farm.last) * farm.rate \in Nat
    BY <1>1, <2>1
  <2>3. reward \in Nat
    BY <2>1, <2>2
  <2>4. reward \div farm.total \in Nat
    BY <1>1, <1>4, <2>3, DivFacts
  <2>5. grown \in Nat /\ grown >= farm.acc
    BY <1>1, <2>4
  <2>6. f = [farm EXCEPT !.last = now, !.acc = grown] /\ ~(grown > U128Max)
    BY <1>4 DEF Accrued, Some, None
  <2> HIDE DEF grown
  <2>7. grown \in 0 .. U128Max
    BY <2>5, <2>6, FarmAssumption
  <2> QED BY <1>1, <2>5, <2>6, <2>7 DEF FarmType
<1> QED BY <1>2, <1>3, <1>4

\* A new debt is the gross reward, rounded down and so covered.
LEMMA GrossFacts ==
  ASSUME NEW amount \in Nat, NEW acc \in Nat, NEW g \in Gross(amount, acc)
  PROVE  /\ g = (amount * acc) \div AccPrecision
         /\ g \in 0 .. U128Max
         /\ g * AccPrecision <= amount * acc
<1> DEFINE x == amount * acc
           p == AccPrecision
<1>1. p \in Nat /\ p > 0 /\ U128Max \in Nat
  BY FarmAssumption
<1>2. x \in Nat
  OBVIOUS
<1>3. x <= U128Max /\ g = x \div p
  BY <1>2, <1>1 DEF Gross, Some, None
<1> HIDE DEF x, p
<1>4. g \in Nat /\ p * g <= x
  BY <1>1, <1>2, <1>3, DivFacts
<1>5. g <= p * g
  BY <1>1, <1>4, Z3
<1>6. g * p <= x /\ g <= U128Max
  BY <1>1, <1>2, <1>3, <1>4, <1>5
<1> QED BY <1>1, <1>3, <1>4, <1>6 DEF x, p

\* A settlement keeps all that the position was worth.
LEMMA SettledFacts ==
  ASSUME NEW s \in StakeType, NEW acc \in Nat, NEW amount \in 0 .. U64Max,
         NEW t \in Settled(s, acc, amount)
  PROVE  /\ t \in StakeType /\ t.amount = amount
         /\ Covered(t, acc)
         /\ t.debt = (amount * acc) \div AccPrecision
         /\ t.pending >= s.pending + ((s.amount * acc) \div AccPrecision - s.debt)
<1>1. /\ s.amount \in Nat /\ s.debt \in Nat /\ s.pending \in Nat /\ amount \in Nat
      /\ U64Max \in Nat
  BY FarmAssumption DEF StakeType
<1>2. PICK debt \in Gross(amount, acc), pending \in Pending(s, acc) :
        t = UserStake(amount, debt, pending)
  BY DEF Settled
<1>3. PICK g \in Gross(s.amount, acc) :
        pending = s.pending + Saturated(g - s.debt) /\ pending <= U64Max
  BY <1>2 DEF Pending
<1>4. g \in Int /\ g = (s.amount * acc) \div AccPrecision
  BY <1>1, <1>3, GrossFacts
<1>5. pending \in 0 .. U64Max /\ pending >= s.pending + (g - s.debt)
  BY <1>1, <1>3, <1>4 DEF Saturated
<1>6. /\ debt = (amount * acc) \div AccPrecision
      /\ debt \in 0 .. U128Max
      /\ debt * AccPrecision <= amount * acc
  BY <1>1, <1>2, GrossFacts
<1>7. t.amount = amount /\ t.debt = debt /\ t.pending = pending /\ t \in StakeType
  BY <1>2, <1>5, <1>6 DEF UserStake, StakeType
<1>8. Covered(t, acc)
  BY <1>6, <1>7 DEF Covered
<1> QED BY <1>4, <1>5, <1>6, <1>7, <1>8

-----------------------------------------------------------------------------
(* The inductive invariant.                                                *)

LEMMA InitEstablishes ==
  Init => IInv
<1> SUFFICES ASSUME Init PROVE IInv
  OBVIOUS
<1>1. TypeOK
  BY FarmAssumption DEF Init, TypeOK
<1>2. \A u \in Stakers : Covered(stake[u], Acc)
  BY DEF Init, Covered, NoStake
<1> QED BY <1>1, <1>2 DEF IInv

\* A covered snapshot stays covered when the accumulator grows.
LEMMA CoveredGrows ==
  ASSUME NEW s \in StakeType \cup {NoStake}, NEW a \in Nat, NEW b \in Nat, a <= b,
         Covered(s, a)
  PROVE  Covered(s, b)
<1>1. CASE s = NoStake
  BY <1>1 DEF NoStake, Covered
<1>2. CASE s \in StakeType
  <2>1. s.amount \in 0 .. U64Max /\ s.debt \in 0 .. U128Max
    BY <1>2 DEF StakeType
  <2>2. s.amount \in Nat /\ s.debt \in Nat /\ AccPrecision \in Nat
    BY <2>1, FarmAssumption
  <2>3. s.amount * a <= s.amount * b
    BY <2>2, MulMono
  <2>4. s.initialized
    BY <1>2 DEF StakeType
  <2>5. s.debt * AccPrecision <= s.amount * a
    BY <2>4 DEF Covered
  <2>6. s.debt * AccPrecision \in Nat /\ s.amount * a \in Nat /\ s.amount * b \in Nat
    BY <2>2
  <2>7. s.debt * AccPrecision <= s.amount * b
    BY <2>3, <2>5, <2>6
  <2> QED BY <2>7 DEF Covered
<1> QED BY <1>1, <1>2

LEMMA AccIsNat ==
  ASSUME TypeOK
  PROVE  Acc \in Nat
BY FarmTypes DEF Acc

\* A settlement of one position: what Resize and Claim have in common.
LEMMA SettlementKeeps ==
  ASSUME IInv, NEW u \in Stakers, farm.initialized,
         NEW f \in Accrued, farm'.initialized, farm'.acc = f.acc,
         NEW t \in StakeType, Covered(t, f.acc),
         stake' = [stake EXCEPT ![u] = t]
  PROVE  /\ stake' \in [Stakers -> StakeType \cup {NoStake}]
         /\ \A v \in Stakers : Covered(stake'[v], Acc')
<1>1. stake \in [Stakers -> StakeType \cup {NoStake}]
  BY DEF IInv, TypeOK
<1>2. farm.acc \in Nat /\ f.acc \in Nat /\ farm.acc <= f.acc
  BY AccruedFacts, FarmTypes DEF IInv
<1>3. Acc = farm.acc /\ Acc' = f.acc
  BY DEF Acc
<1>4. ASSUME NEW v \in Stakers PROVE Covered(stake'[v], Acc')
  <2>1. CASE v = u
    BY <1>1, <1>3, <2>1
  <2>2. CASE v # u
    <3>1. stake'[v] = stake[v] /\ stake[v] \in StakeType \cup {NoStake}
      BY <1>1, <2>2
    <3>2. Covered(stake[v], farm.acc)
      BY <1>3 DEF IInv
    <3> QED BY <1>2, <1>3, <3>1, <3>2, CoveredGrows
  <2> QED BY <2>1, <2>2
<1> QED BY <1>1, <1>4

LEMMA ResizeKeeps ==
  ASSUME IInv, NEW u \in Stakers, NEW n \in Int, Resize(u, n)
  PROVE  IInv'
<1>0. PICK f \in Accrued :
        /\ f.total + n \in 0 .. U64Max
        /\ farm' = [f EXCEPT !.total = @ + n]
        /\ \E t \in Settled(stake[u], f.acc, stake[u].amount + n) :
             stake' = [stake EXCEPT ![u] = t]
  BY DEF Resize
<1>1. PICK t \in Settled(stake[u], f.acc, stake[u].amount + n) :
        stake' = [stake EXCEPT ![u] = t]
  BY <1>0
<1>2. TypeOK /\ farm.initialized /\ stake[u].initialized
  BY DEF IInv, Resize
<1>3. f \in FarmType /\ f.acc \in Nat
  BY <1>2, AccruedFacts
<1>4. farm' \in FarmType /\ farm'.initialized /\ farm'.acc = f.acc
  BY <1>0, <1>3 DEF FarmType
<1>5. stake[u].amount + n \in 0 .. U64Max /\ stake[u] \in StakeType
  BY <1>2, StakeTypes DEF Resize
<1>6. t \in StakeType /\ Covered(t, f.acc)
  BY <1>3, <1>5, SettledFacts
<1>7. /\ stake' \in [Stakers -> StakeType \cup {NoStake}]
      /\ \A v \in Stakers : Covered(stake'[v], Acc')
  BY <1>1, <1>2, <1>4, <1>6, SettlementKeeps
<1>8. vault' \in Nat /\ changes' \in 0 .. MaxChanges /\ UNCHANGED <<now, minted, emitted>>
  BY FarmAssumption DEF Resize, IInv, TypeOK
<1>9. wallet' \in [Stakers -> Nat]
  BY DEF Resize, IInv, TypeOK
<1>10. TypeOK'
  BY <1>2, <1>4, <1>7, <1>8, <1>9 DEF TypeOK
<1> QED BY <1>7, <1>10 DEF IInv

LEMMA ClaimKeeps ==
  ASSUME IInv, NEW u \in Stakers, Claim(u)
  PROVE  IInv'
<1>0. PICK f \in Accrued :
        /\ farm' = f
        /\ \E s \in Settled(stake[u], f.acc, stake[u].amount) :
             /\ minted' = [minted EXCEPT ![u] = @ + s.pending]
             /\ stake' = [stake EXCEPT ![u] = [s EXCEPT !.pending = 0]]
  BY DEF Claim
<1>1. PICK s \in Settled(stake[u], f.acc, stake[u].amount) :
        /\ minted' = [minted EXCEPT ![u] = @ + s.pending]
        /\ stake' = [stake EXCEPT ![u] = [s EXCEPT !.pending = 0]]
  BY <1>0
<1>2. TypeOK /\ farm.initialized /\ stake[u].initialized
  BY DEF IInv, Claim
<1>3. f \in FarmType /\ f.acc \in Nat /\ f.initialized
  BY <1>2, AccruedFacts DEF FarmType
<1>4. stake[u] \in StakeType /\ stake[u].amount \in 0 .. U64Max
  BY <1>2, StakeTypes, FarmAssumption
<1>5. s \in StakeType /\ Covered(s, f.acc)
  BY <1>3, <1>4, SettledFacts
<1> DEFINE t == [s EXCEPT !.pending = 0]
<1>6. t \in StakeType /\ t.debt = s.debt /\ t.amount = s.amount /\ t.initialized /\ s.initialized
  <2>1. 0 \in 0 .. U64Max
    BY FarmAssumption
  <2> QED BY <1>5, <2>1 DEF StakeType
<1>7. Covered(t, f.acc)
  BY <1>5, <1>6 DEF Covered
<1> HIDE DEF t
<1>8. /\ stake' \in [Stakers -> StakeType \cup {NoStake}]
      /\ \A v \in Stakers : Covered(stake'[v], Acc')
  BY <1>0, <1>1, <1>2, <1>3, <1>6, <1>7, SettlementKeeps DEF t
<1>9. s.pending \in Nat
  BY <1>5, FarmAssumption DEF StakeType
<1>10. minted' \in [Stakers -> Nat]
  BY <1>1, <1>9 DEF IInv, TypeOK
<1>11. UNCHANGED <<now, vault, wallet, emitted, changes>>
  BY DEF Claim
<1>12. TypeOK'
  BY <1>0, <1>2, <1>3, <1>8, <1>10, <1>11 DEF TypeOK
<1> QED BY <1>8, <1>12 DEF IInv

LEMMA EmergencyKeeps ==
  ASSUME IInv, NEW u \in Stakers, EmergencyUnstake(u)
  PROVE  IInv'
<1>1. TypeOK /\ farm.initialized /\ stake[u].initialized
  BY DEF IInv, EmergencyUnstake
<1>2. /\ farm \in FarmType /\ farm.total \in Nat /\ farm.total <= U64Max
      /\ stake[u].amount \in Nat /\ farm.total >= stake[u].amount
      /\ farm' = [farm EXCEPT !.total = @ - stake[u].amount]
  BY <1>1, FarmTypes, StakeTypes DEF EmergencyUnstake
<1>3. farm' \in FarmType /\ farm'.acc = farm.acc /\ farm'.initialized
  <2>1. farm.total - stake[u].amount \in 0 .. U64Max
    BY <1>2, FarmAssumption
  <2> QED BY <1>2, <2>1 DEF FarmType
<1>4. UserStake(0, 0, 0) \in StakeType
  BY FarmAssumption DEF UserStake, StakeType
<1>5. stake' = [stake EXCEPT ![u] = UserStake(0, 0, 0)]
  BY DEF EmergencyUnstake
<1>6. stake' \in [Stakers -> StakeType \cup {NoStake}]
  BY <1>4, <1>5 DEF IInv, TypeOK
<1>7. Acc' = Acc /\ Acc \in Nat
  BY <1>1, <1>3, AccIsNat DEF Acc
<1>8. Covered(UserStake(0, 0, 0), Acc)
  BY <1>7, FarmAssumption DEF Covered, UserStake
<1>9. \A v \in Stakers : Covered(stake'[v], Acc')
  BY <1>5, <1>7, <1>8 DEF IInv, TypeOK
<1>10. vault' \in Nat
  BY <1>1, <1>2 DEF EmergencyUnstake, TypeOK
<1>11. wallet' \in [Stakers -> Nat]
  BY <1>1, <1>2 DEF EmergencyUnstake, TypeOK
<1>12. TypeOK'
  BY <1>1, <1>3, <1>6, <1>10, <1>11 DEF EmergencyUnstake, TypeOK
<1> QED BY <1>9, <1>12 DEF IInv

LEMMA StepKeeps ==
  IInv /\ [Next]_vars => IInv'
<1> SUFFICES ASSUME IInv, [Next]_vars PROVE IInv'
  OBVIOUS
<1> USE FarmAssumption
<1>1. CASE Tick
  <2>1. emitted' \in Nat
    BY <1>1, FarmTypes DEF Tick, IInv, TypeOK
  <2> QED BY <1>1, <2>1 DEF Tick, IInv, TypeOK, Acc
<1>2. ASSUME NEW rate \in Rates, InitFarm(rate) PROVE IInv'
  <2>1. farm' \in FarmType
    BY <1>2 DEF InitFarm, FarmState, FarmType, IInv, TypeOK
  <2>2. Acc' = Acc
    BY <1>2 DEF InitFarm, FarmState, Acc
  <2> QED BY <1>2, <2>1, <2>2 DEF InitFarm, IInv, TypeOK
<1>3. ASSUME NEW rate \in Rates, SetRewardPerSecond(rate) PROVE IInv'
  <2>1. PICK f \in Accrued : farm' = [f EXCEPT !.rate = rate]
    BY <1>3 DEF SetRewardPerSecond
  <2>2. farm.initialized /\ TypeOK
    BY <1>3 DEF SetRewardPerSecond, IInv
  <2>3. /\ f \in FarmType /\ f.acc \in Nat /\ farm.acc \in Nat /\ farm.acc <= f.acc
    BY <2>2, AccruedFacts, FarmTypes
  <2>4. rate \in 0 .. MaxRewardPerSecond
    BY <1>3 DEF SetRewardPerSecond
  <2>5. farm' \in FarmType /\ farm'.initialized /\ farm'.acc = f.acc
    BY <2>1, <2>3, <2>4 DEF FarmType
  <2>6. Acc = farm.acc /\ Acc' = f.acc
    BY <2>2, <2>5 DEF Acc
  <2>7. \A u \in Stakers : stake[u] \in StakeType \cup {NoStake} /\ stake'[u] = stake[u]
    BY <1>3 DEF SetRewardPerSecond, IInv, TypeOK
  <2>8. \A u \in Stakers : Covered(stake'[u], Acc')
    BY <2>3, <2>6, <2>7, CoveredGrows DEF IInv
  <2> QED BY <1>3, <2>2, <2>5, <2>8 DEF SetRewardPerSecond, IInv, TypeOK
<1>4. ASSUME NEW u \in Stakers, InitUserStake(u) PROVE IInv'
  <2>1. UserStake(0, 0, 0) \in StakeType
    BY DEF UserStake, StakeType
  <2>2. Acc' = Acc /\ Acc \in Nat
    BY <1>4, AccIsNat DEF InitUserStake, Acc, IInv
  <2>3. Covered(UserStake(0, 0, 0), Acc)
    BY <2>2 DEF Covered, UserStake
  <2> QED BY <1>4, <2>1, <2>2, <2>3 DEF InitUserStake, IInv, TypeOK
<1>5. ASSUME NEW u \in Stakers, NEW n \in Amounts, Stake(u, n) \/ Unstake(u, n) PROVE IInv'
  <2>1. n \in Int /\ -n \in Int
    OBVIOUS
  <2> QED BY <1>5, <2>1, ResizeKeeps DEF Stake, Unstake
<1>6. ASSUME NEW u \in Stakers, Claim(u) PROVE IInv'
  BY <1>6, ClaimKeeps
<1>7. ASSUME NEW u \in Stakers, EmergencyUnstake(u) PROVE IInv'
  BY <1>7, EmergencyKeeps
<1>8. CASE UNCHANGED vars
  BY <1>8 DEF vars, IInv, TypeOK, Acc
<1> QED BY <1>1, <1>2, <1>3, <1>4, <1>5, <1>6, <1>7, <1>8 DEF Next

LEMMA Invariance ==
  Spec => []IInv
<1> QED BY InitEstablishes, StepKeeps, PTL DEF Spec

\* Every account keeps its type and its width: amounts and pending rewards stay
\* u64, the accumulator and the debts u128, the rate under its cap.
THEOREM FarmTyped ==
  Spec => []TypeOK
<1>1. IInv => TypeOK
  BY DEF IInv
<1> QED BY <1>1, Invariance, PTL

\* No debt exceeds the gross reward of its position (UserStake::pending never
\* saturates).
THEOREM DebtCoveredTheorem ==
  Spec => []DebtCovered
<1>1. IInv => DebtCovered
  BY DEF IInv, DebtCovered, Active, Covered, Acc
<1> QED BY <1>1, Invariance, PTL

-----------------------------------------------------------------------------
(* No step takes a reward.                                                 *)

Worth(s, acc) == s.pending + ((s.amount * acc) \div AccPrecision - s.debt)

LEMMA WorthGrows ==
  ASSUME NEW s \in StakeType, NEW a \in Nat, NEW b \in Nat, a <= b
  PROVE  Worth(s, a) \in Int /\ Worth(s, b) \in Int /\ Worth(s, a) <= Worth(s, b)
<1>1. s.amount \in 0 .. U64Max /\ s.debt \in 0 .. U128Max /\ s.pending \in 0 .. U64Max
  BY DEF StakeType
<1>2. s.amount \in Nat /\ s.debt \in Int /\ s.pending \in Int
  BY <1>1, FarmAssumption
<1> DEFINE x == s.amount * a
           y == s.amount * b
           p == AccPrecision
<1>3. x \in Nat /\ y \in Nat /\ x <= y
  BY <1>2, MulMono
<1>4. p \in Nat /\ p > 0
  BY FarmAssumption
<1> HIDE DEF x, y, p
<1>5. x \div p <= y \div p /\ x \div p \in Nat /\ y \div p \in Nat
  BY <1>3, <1>4, DivMono, DivFacts
<1> QED BY <1>2, <1>5 DEF Worth, x, y, p

\* A staker the step leaves alone loses nothing when the accumulator grows.
LEMMA Undisturbed ==
  ASSUME IInv, NEW u \in Stakers, farm.initialized, farm'.initialized,
         farm'.acc \in Nat, farm.acc <= farm'.acc,
         stake'[u] = stake[u], minted'[u] = minted[u]
  PROVE  Entitled(u)' >= Entitled(u)
<1>1. minted[u] \in Nat /\ farm.acc \in Nat
  BY FarmTypes DEF IInv, TypeOK
<1>2. CASE ~stake[u].initialized
  BY <1>1, <1>2 DEF Entitled, Owed, Active
<1>3. CASE stake[u].initialized
  <2>1. stake[u] \in StakeType
    BY <1>3, StakeTypes DEF IInv
  <2>2. /\ Worth(stake[u], farm.acc) \in Int /\ Worth(stake[u], farm'.acc) \in Int
        /\ Worth(stake[u], farm.acc) <= Worth(stake[u], farm'.acc)
    BY <1>1, <2>1, WorthGrows
  <2>3. Entitled(u) = minted[u] + Worth(stake[u], farm.acc)
    BY <1>3 DEF Entitled, Owed, Active, Worth
  <2>4. Entitled(u)' = minted[u] + Worth(stake[u], farm'.acc)
    BY <1>3 DEF Entitled, Owed, Active, Worth
  <2> QED BY <1>1, <2>2, <2>3, <2>4
<1> QED BY <1>2, <1>3

\* The staker whose position is settled and paid out `paid` loses nothing.
LEMMA SettledLosesNothing ==
  ASSUME IInv, NEW u \in Stakers, farm.initialized, stake[u].initialized,
         NEW f \in Accrued, farm'.initialized, farm'.acc = f.acc,
         NEW amount \in 0 .. U64Max, NEW t \in Settled(stake[u], f.acc, amount),
         NEW paid \in Nat, minted'[u] = minted[u] + paid,
         stake'[u].initialized, stake'[u].amount = t.amount, stake'[u].debt = t.debt,
         stake'[u].pending = t.pending - paid
  PROVE  Entitled(u)' >= Entitled(u)
<1>1. /\ stake[u] \in StakeType /\ farm.acc \in Nat /\ f.acc \in Nat
      /\ farm.acc <= f.acc /\ minted[u] \in Nat
  BY StakeTypes, FarmTypes, AccruedFacts DEF IInv, TypeOK
<1>2. /\ Worth(stake[u], farm.acc) \in Int /\ Worth(stake[u], f.acc) \in Int
      /\ Worth(stake[u], farm.acc) <= Worth(stake[u], f.acc)
  BY <1>1, WorthGrows
<1>3. /\ t \in StakeType /\ t.amount = amount
      /\ t.debt = (amount * f.acc) \div AccPrecision
      /\ t.pending >= Worth(stake[u], f.acc)
  BY <1>1, SettledFacts DEF Worth
<1>4. t.pending \in 0 .. U64Max /\ t.debt \in 0 .. U128Max
  BY <1>3 DEF StakeType
<1>5. Entitled(u) = minted[u] + Worth(stake[u], farm.acc)
  BY DEF Entitled, Owed, Active, Worth
<1>6. Entitled(u)' = minted[u] + paid + (t.pending - paid + (t.debt - t.debt))
  BY <1>1, <1>3 DEF Entitled, Owed, Active
<1> QED BY <1>1, <1>2, <1>3, <1>4, <1>5, <1>6, FarmAssumption

LEMMA ResizeTakesNothing ==
  ASSUME IInv, NEW u \in Stakers, NEW n \in Int, Resize(u, n), NEW v \in Stakers
  PROVE  Entitled(v)' >= Entitled(v)
<1>1. PICK f \in Accrued :
        /\ farm' = [f EXCEPT !.total = @ + n]
        /\ \E t \in Settled(stake[u], f.acc, stake[u].amount + n) :
             stake' = [stake EXCEPT ![u] = t]
  BY DEF Resize
<1>2. PICK t \in Settled(stake[u], f.acc, stake[u].amount + n) :
        stake' = [stake EXCEPT ![u] = t]
  BY <1>1
<1>3. /\ TypeOK /\ farm.initialized /\ stake[u].initialized
      /\ stake[u].amount + n \in 0 .. U64Max /\ minted' = minted
  BY DEF IInv, Resize
<1>4. f \in FarmType /\ f.acc \in Nat /\ farm.acc <= f.acc /\ farm.acc \in Nat
  BY <1>3, AccruedFacts, FarmTypes
<1>5. farm'.initialized /\ farm'.acc = f.acc
  BY <1>1, <1>4 DEF FarmType
<1>6. stake \in [Stakers -> StakeType \cup {NoStake}]
  BY <1>3 DEF TypeOK
<1>7. CASE v # u
  <2>1. stake'[v] = stake[v] /\ minted'[v] = minted[v]
    BY <1>2, <1>3, <1>6, <1>7
  <2> QED BY <1>3, <1>4, <1>5, <2>1, Undisturbed
<1>8. CASE v = u
  <2>1. stake'[u] = t
    BY <1>2, <1>6
  <2>2. t \in StakeType
    BY <1>3, <1>4, StakeTypes, SettledFacts
  <2>3. t.initialized /\ t.pending \in Int /\ t.pending - 0 = t.pending
    <3>1. t.initialized /\ t.pending \in 0 .. U64Max
      BY <2>2 DEF StakeType
    <3> QED BY <3>1, FarmAssumption
  <2>4. minted[u] \in Nat /\ minted'[u] = minted[u] + 0
    BY <1>3 DEF TypeOK
  <2> QED BY <1>3, <1>5, <1>8, <2>1, <2>3, <2>4, SettledLosesNothing
<1> QED BY <1>7, <1>8

LEMMA ClaimTakesNothing ==
  ASSUME IInv, NEW u \in Stakers, Claim(u), NEW v \in Stakers
  PROVE  Entitled(v)' >= Entitled(v)
<1>1. PICK f \in Accrued :
        /\ farm' = f
        /\ \E s \in Settled(stake[u], f.acc, stake[u].amount) :
             /\ minted' = [minted EXCEPT ![u] = @ + s.pending]
             /\ stake' = [stake EXCEPT ![u] = [s EXCEPT !.pending = 0]]
  BY DEF Claim
<1>2. PICK s \in Settled(stake[u], f.acc, stake[u].amount) :
        /\ minted' = [minted EXCEPT ![u] = @ + s.pending]
        /\ stake' = [stake EXCEPT ![u] = [s EXCEPT !.pending = 0]]
  BY <1>1
<1>3. TypeOK /\ farm.initialized /\ stake[u].initialized
  BY DEF IInv, Claim
<1>4. f \in FarmType /\ f.acc \in Nat /\ farm.acc <= f.acc /\ farm.acc \in Nat
  BY <1>3, AccruedFacts, FarmTypes
<1>5. farm'.initialized /\ farm'.acc = f.acc
  BY <1>1, <1>4 DEF FarmType
<1>6. stake \in [Stakers -> StakeType \cup {NoStake}] /\ minted \in [Stakers -> Nat]
  BY <1>3 DEF TypeOK
<1>7. CASE v # u
  <2>1. stake'[v] = stake[v] /\ minted'[v] = minted[v]
    BY <1>2, <1>6, <1>7
  <2> QED BY <1>3, <1>4, <1>5, <2>1, Undisturbed
<1>8. CASE v = u
  <2>1. stake[u] \in StakeType /\ stake[u].amount \in 0 .. U64Max
    BY <1>3, StakeTypes, FarmAssumption
  <2>2. s \in StakeType
    BY <1>4, <2>1, SettledFacts
  <2>3. s.initialized /\ s.pending \in Nat /\ s.pending - s.pending = 0
    <3>1. s.initialized /\ s.pending \in 0 .. U64Max
      BY <2>2 DEF StakeType
    <3> QED BY <3>1, FarmAssumption
  <2>4. minted'[u] = minted[u] + s.pending
    BY <1>2, <1>6
  <2>5. stake'[u] = [s EXCEPT !.pending = 0]
    BY <1>2, <1>6
  <2>6. /\ stake'[u].initialized /\ stake'[u].pending = 0
        /\ stake'[u].amount = s.amount /\ stake'[u].debt = s.debt
    BY <2>2, <2>3, <2>5 DEF StakeType
  <2> QED BY <1>3, <1>5, <1>8, <2>1, <2>3, <2>4, <2>6, SettledLosesNothing
<1> QED BY <1>7, <1>8

\* Whatever the others and the owner do, what a staker has earned never shrinks,
\* unless the staker leaves through EmergencyUnstake.
THEOREM RewardsNeverTakenTheorem ==
  Spec => RewardsNeverTaken
<1>1. ASSUME IInv, Next, NEW v \in Stakers
      PROVE  Entitled(v)' >= Entitled(v) \/ EmergencyUnstake(v)
  <2>1. TypeOK /\ stake \in [Stakers -> StakeType \cup {NoStake}] /\ minted[v] \in Nat
    BY <1>1 DEF IInv, TypeOK
  <2>2. Entitled(v) \in Int
    <3>1. CASE ~Active(v)
      BY <2>1, <3>1 DEF Entitled, Owed
    <3>2. CASE Active(v)
      <4>1. stake[v] \in StakeType /\ farm.acc \in Nat
        BY <2>1, <3>2, StakeTypes, FarmTypes DEF Active
      <4>2. Worth(stake[v], farm.acc) \in Int
        BY <4>1, WorthGrows
      <4> QED BY <2>1, <3>2, <4>2 DEF Entitled, Owed, Worth
    <3> QED BY <3>1, <3>2
  <2>3. CASE Tick
    <3>1. Entitled(v)' = Entitled(v)
      BY <2>3 DEF Tick, Entitled, Owed, Active
    <3> QED BY <2>2, <3>1
  <2>4. ASSUME NEW rate \in Rates, InitFarm(rate) PROVE Entitled(v)' >= Entitled(v)
    <3>1. Entitled(v) = minted[v]
      BY <2>1, <2>4 DEF InitFarm, Entitled, Owed, Active
    <3>2. CASE ~stake[v].initialized
      BY <2>1, <2>4, <3>1, <3>2 DEF InitFarm, Entitled, Owed, Active
    <3>3. CASE stake[v].initialized
      <4>1. /\ stake[v].amount \in Nat /\ stake[v].debt \in Nat /\ stake[v].pending \in Nat
            /\ AccPrecision \in Nat /\ AccPrecision > 0
        BY <2>1, <3>3, StakeTypes, FarmAssumption
      <4>2. stake[v].debt * AccPrecision <= stake[v].amount * 0
        BY <1>1, <2>4, <3>3 DEF InitFarm, IInv, Covered, Acc
      <4>3. (stake[v].amount * 0) \div AccPrecision \in Nat
        BY <4>1, DivFacts
      <4>4. stake[v].debt <= (stake[v].amount * 0) \div AccPrecision
        BY <4>1, <4>2, CoveredGross
      <4>5. Entitled(v)' = minted[v] + (stake[v].pending
                             + ((stake[v].amount * 0) \div AccPrecision - stake[v].debt))
        BY <2>4, <3>3 DEF InitFarm, FarmState, Entitled, Owed, Active
      <4> QED BY <2>1, <3>1, <4>1, <4>3, <4>4, <4>5
    <3> QED BY <3>2, <3>3
  <2>5. ASSUME NEW rate \in Rates, SetRewardPerSecond(rate)
        PROVE  Entitled(v)' >= Entitled(v)
    <3>1. PICK f \in Accrued : farm' = [f EXCEPT !.rate = rate]
      BY <2>5 DEF SetRewardPerSecond
    <3>2. farm.initialized /\ stake' = stake /\ minted' = minted
      BY <2>5 DEF SetRewardPerSecond
    <3>3. f \in FarmType /\ f.acc \in Nat /\ farm.acc <= f.acc
      BY <2>1, <3>2, AccruedFacts, FarmTypes
    <3>4. farm'.initialized /\ farm'.acc = f.acc
      BY <3>1, <3>3 DEF FarmType
    <3> QED BY <1>1, <3>2, <3>3, <3>4, Undisturbed
  <2>6. ASSUME NEW u \in Stakers, InitUserStake(u) PROVE Entitled(v)' >= Entitled(v)
    <3>1. farm' = farm /\ minted' = minted /\ ~stake[u].initialized
          /\ stake' = [stake EXCEPT ![u] = UserStake(0, 0, 0)]
      BY <2>6 DEF InitUserStake
    <3>2. CASE v # u \/ ~farm.initialized
      <4>1. Entitled(v)' = Entitled(v)
        BY <2>1, <3>1, <3>2 DEF Entitled, Owed, Active
      <4> QED BY <2>2, <4>1
    <3>3. CASE v = u /\ farm.initialized
      <4>1. farm.acc \in Nat /\ AccPrecision \in Nat /\ AccPrecision > 0
        BY <2>1, <3>3, FarmTypes, FarmAssumption
      <4>2. (0 * farm.acc) \div AccPrecision \in Nat
        BY <4>1, DivFacts
      <4>3. Entitled(v) = minted[v]
        BY <2>1, <3>1, <3>3 DEF Entitled, Owed, Active
      <4>4. stake'[v] = UserStake(0, 0, 0)
        BY <2>1, <3>1, <3>3
      <4>5. Entitled(v)' = minted[v] + (0 + ((0 * farm.acc) \div AccPrecision - 0))
        BY <3>1, <3>3, <4>4 DEF Entitled, Owed, Active, UserStake
      <4> QED BY <2>1, <4>2, <4>3, <4>5
    <3> QED BY <3>2, <3>3
  <2>7. ASSUME NEW u \in Stakers, NEW n \in Amounts, Stake(u, n) \/ Unstake(u, n)
        PROVE  Entitled(v)' >= Entitled(v)
    <3>1. n \in Int /\ -n \in Int
      BY FarmAssumption
    <3> QED BY <1>1, <2>7, <3>1, ResizeTakesNothing DEF Stake, Unstake
  <2>8. ASSUME NEW u \in Stakers, Claim(u) PROVE Entitled(v)' >= Entitled(v)
    BY <1>1, <2>8, ClaimTakesNothing
  <2>9. ASSUME NEW u \in Stakers, EmergencyUnstake(u), u # v
        PROVE  Entitled(v)' >= Entitled(v)
    <3>1. farm.initialized /\ farm' = [farm EXCEPT !.total = @ - stake[u].amount]
      BY <2>9 DEF EmergencyUnstake
    <3>2. farm \in FarmType /\ farm.acc \in Nat
      BY <2>1, <3>1, FarmTypes
    <3>3. farm'.initialized /\ farm'.acc = farm.acc
      BY <3>1, <3>2 DEF FarmType
    <3>4. stake'[v] = stake[v] /\ minted'[v] = minted[v]
      BY <2>1, <2>9 DEF EmergencyUnstake
    <3>5. farm'.acc \in Nat /\ farm.acc <= farm'.acc
      BY <3>2, <3>3
    <3> QED BY <1>1, <3>1, <3>3, <3>4, <3>5, Undisturbed
  <2> QED BY <1>1, <2>3, <2>4, <2>5, <2>6, <2>7, <2>8, <2>9 DEF Next
<1>2. IInv /\ [Next]_vars =>
        [\A u \in Stakers : Entitled(u)' >= Entitled(u) \/ EmergencyUnstake(u)]_vars
  BY <1>1
<1> QED BY <1>2, Invariance, PTL DEF Spec, RewardsNeverTaken

-----------------------------------------------------------------------------
(* The vault and the total are the sum of the positions.                   *)

\* A position that was opened before the farm is empty.
Fresh(s) == s \in {NoStake, UserStake(0, 0, 0)}
Total == IF farm.initialized THEN farm.total ELSE 0
AmountsNow == [u \in Stakers |-> AmountOf(u)]

Backed ==
  /\ ~farm.initialized => \A u \in Stakers : Fresh(stake[u])
  /\ vault = SumFunctionOnSet(AmountsNow, Stakers) /\ Total = vault
  /\ \A u \in Stakers : wallet[u] + AmountOf(u) = Endowment

LEMMA AmountsTyped ==
  ASSUME TypeOK
  PROVE  \A u \in Stakers : AmountsNow[u] \in Nat /\ AmountsNow[u] = AmountOf(u)
BY StakeTypes DEF AmountsNow, AmountOf

\* The position of u changes its size by n and the others keep theirs.
LEMMA AmountsChange ==
  ASSUME TypeOK, TypeOK', NEW u \in Stakers, NEW n \in Int,
         AmountOf(u)' = AmountOf(u) + n,
         \A v \in Stakers \ {u} : stake'[v] = stake[v]
  PROVE  SumFunctionOnSet(AmountsNow, Stakers)' = SumFunctionOnSet(AmountsNow, Stakers) + n
<1>1. /\ \A v \in Stakers : AmountsNow[v] \in Int /\ AmountsNow'[v] \in Int
      /\ AmountsNow[u] = AmountOf(u) /\ AmountsNow'[u] = AmountOf(u) + n
  <2>1. \A v \in Stakers : AmountsNow[v] \in Nat /\ AmountsNow[v] = AmountOf(v)
    BY AmountsTyped
  <2>2. \A v \in Stakers : AmountOf(v)' \in Nat
    <3> SUFFICES ASSUME NEW v \in Stakers, stake'[v].initialized
                 PROVE  stake'[v].amount \in Nat
      BY DEF AmountOf
    <3>1. stake'[v] \in StakeType
      BY DEF TypeOK, NoStake
    <3>2. stake'[v].amount \in 0 .. U64Max
      BY <3>1 DEF StakeType
    <3> QED BY <3>2, FarmAssumption
  <2>3. \A v \in Stakers : AmountsNow'[v] = AmountOf(v)'
    BY DEF AmountsNow
  <2> QED BY <2>1, <2>2, <2>3
<1>2. \A v \in Stakers \ {u} : AmountsNow'[v] = AmountsNow[v]
  BY DEF AmountsNow, AmountOf
<1>3. IsFiniteSet(Stakers)
  BY FarmAssumption
<1> DEFINE f == AmountsNow
           g == AmountsNow'
<1>4. /\ \A v \in Stakers : f[v] \in Int /\ g[v] \in Int
      /\ \A v \in Stakers \ {u} : g[v] = f[v]
  BY <1>1, <1>2
<1>5. f[u] = AmountOf(u) /\ g[u] = AmountOf(u) + n /\ f[u] \in Int
  BY <1>1
<1> HIDE DEF f, g
<1>6. SumFunctionOnSet(g, Stakers) = SumFunctionOnSet(f, Stakers) + (g[u] - f[u])
  BY <1>3, <1>4, SumChanged
<1>7. SumFunctionOnSet(f, Stakers) \in Int
  BY <1>3, <1>4, SumIsInt
<1>8. SumFunctionOnSet(g, Stakers) = SumFunctionOnSet(f, Stakers) + n
  BY <1>5, <1>6, <1>7
<1> QED BY <1>8 DEF f, g

LEMMA AmountsStay ==
  ASSUME TypeOK, \A v \in Stakers : AmountOf(v)' = AmountOf(v)
  PROVE  AmountsNow' = AmountsNow
BY DEF AmountsNow

LEMMA ResizeBacked ==
  ASSUME IInv, IInv', Backed, NEW u \in Stakers, NEW n \in Int, Resize(u, n)
  PROVE  Backed'
<1>1. PICK f \in Accrued :
        /\ farm' = [f EXCEPT !.total = @ + n]
        /\ \E t \in Settled(stake[u], f.acc, stake[u].amount + n) :
             stake' = [stake EXCEPT ![u] = t]
  BY DEF Resize
<1>2. PICK t \in Settled(stake[u], f.acc, stake[u].amount + n) :
        stake' = [stake EXCEPT ![u] = t]
  BY <1>1
<1>3. /\ TypeOK /\ TypeOK' /\ farm.initialized /\ stake[u].initialized
      /\ stake[u].amount + n \in 0 .. U64Max
      /\ vault' = vault + n /\ wallet' = [wallet EXCEPT ![u] = @ - n]
  BY DEF IInv, Resize
<1>4. f \in FarmType /\ f.acc \in Nat /\ f.total = farm.total
  BY <1>3, AccruedFacts
<1>5. farm'.initialized /\ farm'.total = farm.total + n
  BY <1>1, <1>4 DEF FarmType
<1>6. stake[u] \in StakeType /\ stake[u].amount \in Nat
  BY <1>3, StakeTypes
<1>7. t \in StakeType /\ t.amount = stake[u].amount + n
  BY <1>3, <1>4, <1>6, SettledFacts
<1>8. stake'[u] = t /\ t.initialized /\ \A v \in Stakers \ {u} : stake'[v] = stake[v]
  BY <1>2, <1>3, <1>7 DEF TypeOK, StakeType
<1>9. AmountOf(u) = stake[u].amount /\ AmountOf(u)' = AmountOf(u) + n
  BY <1>3, <1>7, <1>8 DEF AmountOf
<1>10. SumFunctionOnSet(AmountsNow, Stakers)' = SumFunctionOnSet(AmountsNow, Stakers) + n
  BY <1>3, <1>8, <1>9, AmountsChange
<1>11. \A v \in Stakers : wallet'[v] + AmountOf(v)' = Endowment
  <2> SUFFICES ASSUME NEW v \in Stakers PROVE wallet'[v] + AmountOf(v)' = Endowment
    OBVIOUS
  <2>1. wallet[v] \in Nat /\ wallet[v] + AmountOf(v) = Endowment /\ wallet \in [Stakers -> Nat]
    BY <1>3 DEF Backed, TypeOK
  <2>2. CASE v = u
    BY <1>3, <1>6, <1>9, <2>1, <2>2
  <2>3. CASE v # u
    <3>1. AmountOf(v)' = AmountOf(v) /\ wallet'[v] = wallet[v]
      BY <1>3, <1>8, <2>1, <2>3 DEF AmountOf
    <3> QED BY <2>1, <3>1
  <2> QED BY <2>2, <2>3
<1> QED BY <1>3, <1>5, <1>10, <1>11 DEF Backed, Total

LEMMA EmergencyBacked ==
  ASSUME IInv, IInv', Backed, NEW u \in Stakers, EmergencyUnstake(u)
  PROVE  Backed'
<1>1. /\ TypeOK /\ TypeOK' /\ farm.initialized /\ stake[u].initialized
      /\ vault' = vault - stake[u].amount
      /\ wallet' = [wallet EXCEPT ![u] = @ + stake[u].amount]
      /\ farm' = [farm EXCEPT !.total = @ - stake[u].amount]
      /\ stake' = [stake EXCEPT ![u] = UserStake(0, 0, 0)]
  BY DEF IInv, EmergencyUnstake
<1>2. farm \in FarmType /\ farm.total \in Nat /\ stake[u].amount \in Nat /\ vault \in Nat
  BY <1>1, FarmTypes, StakeTypes DEF TypeOK
<1>3. farm'.initialized /\ farm'.total = farm.total - stake[u].amount
  BY <1>1, <1>2 DEF FarmType
<1>4. stake'[u] = UserStake(0, 0, 0) /\ \A v \in Stakers \ {u} : stake'[v] = stake[v]
  BY <1>1 DEF TypeOK
<1>5. AmountOf(u) = stake[u].amount /\ AmountOf(u)' = AmountOf(u) + (-stake[u].amount)
  BY <1>1, <1>2, <1>4 DEF AmountOf, UserStake
<1>6. SumFunctionOnSet(AmountsNow, Stakers)'
        = SumFunctionOnSet(AmountsNow, Stakers) + (-stake[u].amount)
  BY <1>1, <1>2, <1>4, <1>5, AmountsChange
<1>7. \A v \in Stakers : wallet'[v] + AmountOf(v)' = Endowment
  <2> SUFFICES ASSUME NEW v \in Stakers PROVE wallet'[v] + AmountOf(v)' = Endowment
    OBVIOUS
  <2>1. wallet[v] \in Nat /\ wallet[v] + AmountOf(v) = Endowment /\ wallet \in [Stakers -> Nat]
    BY <1>1 DEF Backed, TypeOK
  <2>2. CASE v = u
    BY <1>1, <1>2, <1>5, <2>1, <2>2
  <2>3. CASE v # u
    <3>1. AmountOf(v)' = AmountOf(v) /\ wallet'[v] = wallet[v]
      BY <1>1, <1>4, <2>1, <2>3 DEF AmountOf
    <3> QED BY <2>1, <3>1
  <2> QED BY <2>2, <2>3
<1> QED BY <1>1, <1>2, <1>3, <1>6, <1>7 DEF Backed, Total

\* The other actions leave every amount, and with it the sum, as it was.
LEMMA OthersBacked ==
  ASSUME IInv, IInv', Backed,
         \A v \in Stakers : AmountOf(v)' = AmountOf(v),
         UNCHANGED <<vault, wallet>>, Total' = Total,
         ~farm'.initialized => \A u \in Stakers : Fresh(stake'[u])
  PROVE  Backed'
<1>1. AmountsNow' = AmountsNow
  BY AmountsStay DEF IInv
<1> QED BY <1>1 DEF Backed

LEMMA ClaimBacked ==
  ASSUME IInv, IInv', Backed, NEW u \in Stakers, Claim(u)
  PROVE  Backed'
<1>1. PICK f \in Accrued :
        /\ farm' = f
        /\ \E s \in Settled(stake[u], f.acc, stake[u].amount) :
             stake' = [stake EXCEPT ![u] = [s EXCEPT !.pending = 0]]
  BY DEF Claim
<1>2. PICK s \in Settled(stake[u], f.acc, stake[u].amount) :
        stake' = [stake EXCEPT ![u] = [s EXCEPT !.pending = 0]]
  BY <1>1
<1>3. TypeOK /\ farm.initialized /\ stake[u].initialized /\ UNCHANGED <<vault, wallet>>
  BY DEF IInv, Claim
<1>4. f \in FarmType /\ f.acc \in Nat /\ f.total = farm.total
  BY <1>3, AccruedFacts
<1>5. stake[u] \in StakeType /\ stake[u].amount \in 0 .. U64Max
  BY <1>3, StakeTypes, FarmAssumption
<1>6. s \in StakeType /\ s.amount = stake[u].amount
  BY <1>4, <1>5, SettledFacts
<1>7. /\ stake'[u] = [s EXCEPT !.pending = 0]
      /\ \A v \in Stakers \ {u} : stake'[v] = stake[v]
  BY <1>2, <1>3 DEF TypeOK
<1>8. stake'[u].initialized /\ stake'[u].amount = stake[u].amount
  BY <1>6, <1>7 DEF StakeType
<1>9. \A v \in Stakers : AmountOf(v)' = AmountOf(v)
  BY <1>3, <1>7, <1>8 DEF AmountOf
<1>10. farm'.initialized /\ Total' = Total
  BY <1>1, <1>3, <1>4 DEF Total, FarmType
<1> QED BY <1>3, <1>9, <1>10, OthersBacked

LEMMA InitBacked ==
  ASSUME Init
  PROVE  Backed
<1>1. \A u \in Stakers : AmountsNow[u] = 0 /\ AmountOf(u) = 0 /\ Fresh(stake[u])
  BY DEF Init, AmountsNow, AmountOf, NoStake, Fresh
<1>2. SumFunctionOnSet(AmountsNow, Stakers) = 0
  <2> DEFINE f == AmountsNow
  <2>1. \A u \in Stakers : f[u] = 0 BY <1>1
  <2> HIDE DEF f
  <2>2. SumFunctionOnSet(f, Stakers) = 0 BY <2>1, SumOfZeros, FarmAssumption
  <2> QED BY <2>2 DEF f
<1> QED BY <1>1, <1>2, FarmAssumption DEF Backed, Total, Init, NoFarm

LEMMA StepBacked ==
  ASSUME IInv, IInv', Backed, [Next]_vars
  PROVE  Backed'
<1>1. CASE Tick
  BY <1>1, OthersBacked DEF Tick, AmountOf, Total, Backed
<1>2. ASSUME NEW rate \in Rates, InitFarm(rate) PROVE Backed'
  <2>1. ~farm.initialized /\ farm' = FarmState(rate, now, 0, 0) /\ UNCHANGED <<stake, vault, wallet>>
    BY <1>2 DEF InitFarm
  <2>2. farm'.initialized /\ Total' = Total /\ \A v \in Stakers : AmountOf(v)' = AmountOf(v)
    BY <2>1 DEF FarmState, Total, AmountOf
  <2> QED BY <2>1, <2>2, OthersBacked
<1>3. ASSUME NEW rate \in Rates, SetRewardPerSecond(rate) PROVE Backed'
  <2>1. PICK f \in Accrued : farm' = [f EXCEPT !.rate = rate]
    BY <1>3 DEF SetRewardPerSecond
  <2>2. farm.initialized /\ TypeOK /\ UNCHANGED <<stake, vault, wallet>>
    BY <1>3 DEF SetRewardPerSecond, IInv
  <2>3. f \in FarmType /\ f.total = farm.total
    BY <2>2, AccruedFacts
  <2>4. farm'.initialized /\ Total' = Total
    BY <2>1, <2>2, <2>3 DEF FarmType, Total
  <2>5. \A v \in Stakers : AmountOf(v)' = AmountOf(v)
    BY <2>2 DEF AmountOf
  <2> QED BY <2>2, <2>4, <2>5, OthersBacked
<1>4. ASSUME NEW u \in Stakers, InitUserStake(u) PROVE Backed'
  <2>1. /\ ~stake[u].initialized /\ stake' = [stake EXCEPT ![u] = UserStake(0, 0, 0)]
        /\ UNCHANGED <<farm, vault, wallet>> /\ TypeOK
    BY <1>4 DEF InitUserStake, IInv
  <2>2. \A v \in Stakers : stake'[v] = IF v = u THEN UserStake(0, 0, 0) ELSE stake[v]
    BY <2>1 DEF TypeOK
  <2>3. \A v \in Stakers : AmountOf(v)' = AmountOf(v)
    BY <2>1, <2>2 DEF AmountOf, UserStake
  <2>4. ~farm'.initialized => \A v \in Stakers : Fresh(stake'[v])
    BY <2>1, <2>2 DEF Backed, Fresh
  <2> QED BY <2>1, <2>3, <2>4, OthersBacked DEF Total
<1>5. ASSUME NEW u \in Stakers, NEW n \in Amounts, Stake(u, n) \/ Unstake(u, n) PROVE Backed'
  <2>1. n \in Int /\ -n \in Int
    BY FarmAssumption
  <2> QED BY <1>5, <2>1, ResizeBacked DEF Stake, Unstake
<1>6. ASSUME NEW u \in Stakers, Claim(u) PROVE Backed'
  BY <1>6, ClaimBacked
<1>7. ASSUME NEW u \in Stakers, EmergencyUnstake(u) PROVE Backed'
  BY <1>7, EmergencyBacked
<1>8. CASE UNCHANGED vars
  BY <1>8, OthersBacked DEF vars, AmountOf, Total, Backed
<1> QED BY <1>1, <1>2, <1>3, <1>4, <1>5, <1>6, <1>7, <1>8 DEF Next

LEMMA BackedInvariance ==
  Spec => []Backed
<1>1. Init => Backed
  BY InitBacked
<1>2. IInv /\ IInv' /\ Backed /\ [Next]_vars => Backed'
  BY StepBacked
<1> QED BY <1>1, <1>2, Invariance, PTL DEF Spec

\* The vault holds every position, the total is their sum, and nobody's LP
\* tokens come from or go to anybody else.
THEOREM StakesBackedTheorem ==
  Spec => []StakesBacked
<1>1. Backed => StakesBacked
  BY DEF Backed, StakesBacked, Total, AmountsNow
<1> QED BY <1>1, BackedInvariance, PTL

PositionsCovered ==
  \A u \in Stakers : Active(u) => vault >= stake[u].amount /\ farm.total >= stake[u].amount

\* Whatever happened to the reward arithmetic, the guards of the exit that does
\* no arithmetic hold: vault and total cover every single position.
THEOREM EmergencyExitCovered ==
  Spec => []PositionsCovered
<1>1. ASSUME IInv, Backed, NEW u \in Stakers, Active(u)
      PROVE  vault >= stake[u].amount /\ farm.total >= stake[u].amount
  <2>1. farm.total = vault /\ vault = SumFunctionOnSet(AmountsNow, Stakers)
        /\ AmountsNow[u] = stake[u].amount
    BY <1>1 DEF Backed, Total, Active, AmountsNow, AmountOf
  <2>2. \A v \in Stakers : AmountsNow[v] \in Nat
    BY <1>1, AmountsTyped DEF IInv
  <2>3. AmountsNow[u] <= SumFunctionOnSet(AmountsNow, Stakers)
    BY <2>2, TermBelowSum, FarmAssumption
  <2>4. vault \in Nat
    BY <1>1 DEF IInv, TypeOK
  <2>5. stake[u].amount \in Nat
    BY <2>1, <2>2
  <2> QED BY <2>1, <2>3, <2>4, <2>5
<1>2. IInv /\ Backed => PositionsCovered
  BY <1>1 DEF PositionsCovered
<1> QED BY <1>2, Invariance, BackedInvariance, PTL

-----------------------------------------------------------------------------
(* The emission.  What all positions have been credited with, plus what    *)
(* the accumulator holds for them, is paid for by the seconds that passed. *)

Due == IF farm.initialized /\ farm.total > 0 THEN (now - farm.last) * farm.rate ELSE 0

\* What u has got, without the reward the accumulator still holds for it.
Credit(u) == minted[u] + (IF stake[u].initialized THEN stake[u].pending - stake[u].debt ELSE 0)
Credits == [u \in Stakers |-> Credit(u)]
Credited == SumFunctionOnSet(Credits, Stakers)

Budget ==
  /\ farm.initialized => farm.last <= now
  /\ AccPrecision * Credited + Acc * Total <= AccPrecision * (emitted - Due + changes)

LEMMA CreditTyped ==
  ASSUME TypeOK
  PROVE  /\ \A u \in Stakers : Credit(u) \in Int /\ Credits[u] = Credit(u)
         /\ Credited \in Int
<1>1. \A u \in Stakers : minted[u] \in Nat
  BY DEF TypeOK
<1>2. \A u \in Stakers : Credit(u) \in Int
  BY <1>1, StakeTypes DEF Credit
<1>3. \A u \in Stakers : Credits[u] = Credit(u)
  BY DEF Credits
<1>4. \A u \in Stakers : Credits[u] \in Int
  BY <1>2, <1>3
<1>5. Credited \in Int
  BY <1>4, SumIsInt, FarmAssumption DEF Credited
<1> QED BY <1>2, <1>3, <1>5

\* One staker is credited with d more.
LEMMA CreditChange ==
  ASSUME TypeOK, NEW u \in Stakers, NEW d \in Int, Credit(u)' = Credit(u) + d,
         \A v \in Stakers \ {u} : stake'[v] = stake[v] /\ minted'[v] = minted[v]
  PROVE  Credited' = Credited + d
<1> DEFINE f == Credits
           g == Credits'
<1>1. /\ \A v \in Stakers : f[v] \in Int
      /\ f[u] = Credit(u) /\ g[u] = Credit(u) + d /\ Credit(u) \in Int
  BY CreditTyped DEF Credits
<1>2. \A v \in Stakers \ {u} : g[v] = f[v]
  BY DEF Credits, Credit
<1>3. g[u] \in Int
  BY <1>1
<1>4. \A v \in Stakers : g[v] \in Int
  BY <1>1, <1>2, <1>3
<1> HIDE DEF f, g
<1>5. SumFunctionOnSet(g, Stakers) = SumFunctionOnSet(f, Stakers) + (g[u] - f[u])
  BY <1>1, <1>2, <1>4, SumChanged, FarmAssumption
<1>6. SumFunctionOnSet(f, Stakers) \in Int
  BY <1>1, SumIsInt, FarmAssumption
<1>7. SumFunctionOnSet(g, Stakers) = SumFunctionOnSet(f, Stakers) + d
  BY <1>1, <1>5, <1>6
<1> QED BY <1>7 DEF f, g, Credited

\* An accrual gives out no more than what is due.
LEMMA AccrualPaidFor ==
  ASSUME TypeOK, farm.initialized, farm.last <= now, NEW f \in Accrued
  PROVE  /\ f.last = now
         /\ Due \in Nat
         /\ f.acc * f.total <= farm.acc * farm.total + AccPrecision * Due
<1> DEFINE p == AccPrecision
           due == (now - farm.last) * farm.rate
           reward == due * p
<1>1. /\ farm \in FarmType /\ now \in Nat /\ now - farm.last \in Nat
      /\ farm.rate \in Nat /\ farm.last \in Nat /\ farm.acc \in Nat /\ farm.total \in Nat
  BY FarmTypes
<1>2. p \in Nat /\ due \in Nat /\ reward \in Nat
  <2>1. p \in Nat BY FarmAssumption
  <2>2. due \in Nat BY <1>1
  <2> QED BY <2>1, <2>2
<1>3. Due \in Nat
  BY <1>2 DEF Due
<1>4. farm.acc * farm.total \in Nat /\ p * Due \in Nat
  <2> HIDE DEF p
  <2> QED BY <1>1, <1>2, <1>3
<1>5. CASE now <= farm.last
  <2>1. f = farm
    BY <1>5 DEF Accrued, Some
  <2>2. farm.last = now
    BY <1>1, <1>5
  <2>3. farm.acc * farm.total <= farm.acc * farm.total + p * Due
    BY <1>4
  <2> QED BY <1>3, <2>1, <2>2, <2>3
<1>6. CASE ~(now <= farm.last) /\ (farm.total = 0 \/ farm.rate = 0)
  <2>1. f = [farm EXCEPT !.last = now]
    BY <1>6 DEF Accrued, Some
  <2>2. f.last = now /\ f.acc = farm.acc /\ f.total = farm.total
    BY <1>1, <2>1 DEF FarmType
  <2> QED BY <1>3, <1>4, <2>2
<1>7. CASE ~(now <= farm.last) /\ ~(farm.total = 0 \/ farm.rate = 0)
  <2> DEFINE share == reward \div farm.total
  <2>1. f = [farm EXCEPT !.last = now, !.acc = farm.acc + share]
    BY <1>7 DEF Accrued, Some, None
  <2>2. f.last = now /\ f.acc = farm.acc + share /\ f.total = farm.total
    BY <1>1, <2>1 DEF FarmType
  <2>3. farm.total > 0
    BY <1>1, <1>7
  <2>4. share \in Nat /\ farm.total * share <= reward
    <3> HIDE DEF reward
    <3> QED BY <1>1, <1>2, <2>3, DivFacts
  <2>5. Due = due
    BY <2>3 DEF Due
  <2> HIDE DEF share
  <2>6. (farm.acc + share) * farm.total = farm.acc * farm.total + farm.total * share
    BY <1>1, <2>4
  <2>7. farm.total * share \in Nat /\ reward = p * Due
    <3> HIDE DEF p, due
    <3> QED BY <1>1, <1>2, <2>4, <2>5
  <2> QED BY <1>3, <1>4, <2>2, <2>4, <2>6, <2>7
<1> QED BY <1>5, <1>6, <1>7

LEMMA AccruedBudget ==
  ASSUME IInv, Budget, farm.initialized, NEW f \in Accrued
  PROVE  /\ f.last = now
         /\ f.acc \in Nat /\ farm.total \in Nat
         /\ AccPrecision * Credited + f.acc * farm.total <= AccPrecision * (emitted + changes)
<1> DEFINE p == AccPrecision
<1>1. /\ TypeOK /\ farm.last <= now /\ Acc = farm.acc /\ Total = farm.total
      /\ p * Credited + Acc * Total <= p * (emitted - Due + changes)
  BY DEF IInv, Budget, Acc, Total
<1>2. /\ f.last = now /\ Due \in Nat /\ f.total = farm.total /\ f.acc \in Nat
      /\ f.acc * farm.total <= farm.acc * farm.total + p * Due
  BY <1>1, AccrualPaidFor, AccruedFacts
<1>3. /\ p \in Nat /\ Credited \in Int /\ farm.acc \in Nat /\ farm.total \in Nat
      /\ emitted \in Nat /\ changes \in Nat
  BY <1>1, FarmAssumption, CreditTyped, FarmTypes DEF TypeOK
<1> HIDE DEF p
<1>4. p * (emitted - Due + changes) = p * (emitted + changes) - p * Due
  BY <1>2, <1>3
<1>5. p * Credited \in Int /\ farm.acc * farm.total \in Int /\ p * Due \in Int
      /\ f.acc * farm.total \in Int /\ p * (emitted + changes) \in Int
  BY <1>2, <1>3
<1>6. p * Credited + f.acc * farm.total <= p * (emitted + changes)
  BY <1>1, <1>2, <1>4, <1>5
<1> QED BY <1>2, <1>3, <1>6 DEF p

\* Once the clock of the farm is up to date nothing more is due.
LEMMA NothingDue ==
  ASSUME TypeOK', farm'.last = now', farm'.initialized
  PROVE  Due' = 0
<1>1. farm'.rate \in 0 .. MaxRewardPerSecond /\ farm'.last \in Nat
  <2>1. farm' \in FarmType
    BY DEF TypeOK, NoFarm
  <2> QED BY <2>1 DEF FarmType
<1>2. farm'.rate \in Nat
  BY <1>1, FarmAssumption
<1> QED BY <1>1, <1>2 DEF Due

\* A settlement credits the whole gross reward and debits the new debt.
LEMMA SettledCredit ==
  ASSUME NEW s \in StakeType, NEW acc \in Nat, NEW amount \in 0 .. U64Max, Covered(s, acc),
         NEW t \in Settled(s, acc, amount)
  PROVE  /\ t.pending = s.pending + ((s.amount * acc) \div AccPrecision - s.debt)
         /\ t.debt = (amount * acc) \div AccPrecision
<1>1. /\ s.amount \in Nat /\ s.debt \in Nat /\ s.pending \in Nat /\ amount \in Nat
      /\ s.initialized
  <2>1. /\ s.amount \in 0 .. U64Max /\ s.debt \in 0 .. U128Max /\ s.pending \in 0 .. U64Max
        /\ s.initialized
    BY DEF StakeType
  <2> QED BY <2>1, FarmAssumption
<1>2. PICK debt \in Gross(amount, acc), pending \in Pending(s, acc) :
        t = UserStake(amount, debt, pending)
  BY DEF Settled
<1>3. PICK g \in Gross(s.amount, acc) : pending = s.pending + Saturated(g - s.debt)
  BY <1>2 DEF Pending
<1>4. g \in Int /\ g = (s.amount * acc) \div AccPrecision
  BY <1>1, <1>3, GrossFacts
<1>5. s.debt <= g
  <2> DEFINE gross == s.amount * acc
  <2>1. gross \in Nat /\ s.debt * AccPrecision <= gross
    BY <1>1 DEF Covered
  <2> HIDE DEF gross
  <2>2. s.debt <= gross \div AccPrecision
    BY <1>1, <2>1, CoveredGross
  <2> QED BY <1>4, <2>2 DEF gross
<1>6. pending = s.pending + (g - s.debt)
  BY <1>1, <1>3, <1>4, <1>5 DEF Saturated
<1>7. debt = (amount * acc) \div AccPrecision
  BY <1>1, <1>2, GrossFacts
<1> QED BY <1>2, <1>4, <1>6, <1>7 DEF UserStake

LEMMA GrossIsNat ==
  ASSUME NEW a \in Nat, NEW acc \in Nat
  PROVE  (a * acc) \div AccPrecision \in Nat
<1> DEFINE x == a * acc
           p == AccPrecision
<1>1. x \in Nat /\ p \in Nat /\ p > 0
  BY FarmAssumption
<1> HIDE DEF x, p
<1>2. x \div p \in Nat
  BY <1>1, DivFacts
<1> QED BY <1>2 DEF x, p

\* The gross rewards before and after a change of size by n differ from what
\* the accumulator pays for n by less than one unit.
LEMMA RoundingOfOneChange ==
  ASSUME NEW a \in Nat, NEW b \in Nat, NEW n \in Int, b = a + n, NEW acc \in Nat
  PROVE  /\ (a * acc) \div AccPrecision \in Nat /\ (b * acc) \div AccPrecision \in Nat
         /\ AccPrecision * ((a * acc) \div AccPrecision - (b * acc) \div AccPrecision)
              + acc * n <= AccPrecision
<1> DEFINE p == AccPrecision
           x == a * acc
           y == b * acc
           g == x \div p
           h == y \div p
<1>1. p \in Nat /\ p > 0
  BY FarmAssumption
<1>2. x \in Nat /\ y \in Nat /\ y = x + acc * n
  OBVIOUS
<1> HIDE DEF p, x, y
<1>3. g \in Nat /\ h \in Nat /\ p * g <= x /\ y < p * h + p
  BY <1>1, <1>2, DivFacts
<1> HIDE DEF g, h
<1>4. p * (g - h) = p * g - p * h /\ p * g \in Int /\ p * h \in Int
  BY <1>1, <1>3
<1>5. acc * n \in Int
  OBVIOUS
<1>6. p * (g - h) + acc * n <= p
  BY <1>1, <1>2, <1>3, <1>4, <1>5
<1> QED BY <1>3, <1>6 DEF g, h, x, y, p

LEMMA ResizeBudget ==
  ASSUME IInv, IInv', Backed, Backed', Budget, NEW u \in Stakers, NEW n \in Int, Resize(u, n)
  PROVE  Budget'
<1>1. PICK f \in Accrued :
        /\ farm' = [f EXCEPT !.total = @ + n]
        /\ \E t \in Settled(stake[u], f.acc, stake[u].amount + n) :
             stake' = [stake EXCEPT ![u] = t]
  BY DEF Resize
<1>2. PICK t \in Settled(stake[u], f.acc, stake[u].amount + n) :
        stake' = [stake EXCEPT ![u] = t]
  BY <1>1
<1>3. /\ TypeOK /\ TypeOK' /\ farm.initialized /\ stake[u].initialized
      /\ stake[u].amount + n \in 0 .. U64Max
      /\ changes' = changes + 1 /\ UNCHANGED <<now, minted, emitted>>
  BY DEF IInv, Resize
<1> DEFINE p == AccPrecision
           a == stake[u].amount
           g == (a * f.acc) \div p
           h == ((a + n) * f.acc) \div p
<1>4. f \in FarmType /\ f.total = farm.total
  BY <1>3, AccruedFacts
<1>5. farm'.initialized /\ farm'.total = farm.total + n /\ farm'.acc = f.acc /\ farm'.last = f.last
  BY <1>1, <1>4 DEF FarmType
<1>6. /\ f.last = now /\ f.acc \in Nat /\ farm.total \in Nat
      /\ p * Credited + f.acc * farm.total <= p * (emitted + changes)
  BY <1>3, AccruedBudget
<1>7. /\ stake[u] \in StakeType /\ a \in Nat /\ stake[u].debt \in Nat
      /\ stake[u].pending \in Nat /\ a + n \in Nat
  BY <1>3, StakeTypes, FarmAssumption
<1>8. Covered(stake[u], f.acc)
  <2>1. Acc = farm.acc /\ farm.acc \in Nat /\ farm.acc <= f.acc
    BY <1>3, FarmTypes, AccruedFacts DEF Acc
  <2> QED BY <1>6, <1>7, <2>1, CoveredGrows DEF IInv
<1>9. /\ t.pending = stake[u].pending + (g - stake[u].debt) /\ t.debt = h
      /\ t \in StakeType
  BY <1>3, <1>6, <1>7, <1>8, SettledCredit, SettledFacts
<1>10. g \in Nat /\ h \in Nat /\ p * (g - h) + f.acc * n <= p
  BY <1>6, <1>7, RoundingOfOneChange
<1>11. stake'[u] = t /\ t.initialized /\ \A v \in Stakers \ {u} : stake'[v] = stake[v]
  BY <1>2, <1>3, <1>9 DEF TypeOK, StakeType
<1> HIDE DEF g, h, a
<1>12. Credit(u)' = Credit(u) + (g - h)
  <2>1. minted[u] \in Nat
    BY <1>3 DEF TypeOK
  <2> QED BY <1>3, <1>7, <1>9, <1>10, <1>11, <2>1 DEF Credit
<1>13. Credited' = Credited + (g - h)
  BY <1>3, <1>10, <1>11, <1>12, CreditChange
<1>14. Due' = 0
  BY <1>3, <1>5, <1>6, NothingDue
<1>15. Acc' = f.acc /\ Total' = farm.total + n
  BY <1>5 DEF Acc, Total
<1>16. p \in Nat /\ Credited \in Int /\ emitted \in Nat /\ changes \in Nat
  BY <1>3, CreditTyped, FarmAssumption DEF TypeOK
<1> HIDE DEF p
<1>17. p * (Credited + (g - h)) + f.acc * (farm.total + n)
         <= p * (emitted - 0 + (changes + 1))
  <2>1. /\ p * (Credited + (g - h)) = p * Credited + p * (g - h)
        /\ f.acc * (farm.total + n) = f.acc * farm.total + f.acc * n
        /\ p * (emitted - 0 + (changes + 1)) = p * (emitted + changes) + p
    BY <1>6, <1>10, <1>16
  <2>2. /\ p * Credited \in Int /\ p * (g - h) \in Int /\ f.acc * farm.total \in Int
        /\ f.acc * n \in Int /\ p * (emitted + changes) \in Int
    BY <1>6, <1>10, <1>16
  <2> QED BY <1>6, <1>10, <1>16, <2>1, <2>2
<1>18. AccPrecision * Credited' + Acc' * Total' <= AccPrecision * (emitted' - Due' + changes')
  BY <1>3, <1>13, <1>14, <1>15, <1>17 DEF p
<1>19. farm'.last <= now'
  <2>1. now \in Nat
    BY <1>3, FarmTypes
  <2> QED BY <1>3, <1>5, <1>6, <2>1
<1> QED BY <1>18, <1>19 DEF Budget

LEMMA ClaimBudget ==
  ASSUME IInv, IInv', Budget, NEW u \in Stakers, Claim(u)
  PROVE  Budget'
<1>1. PICK f \in Accrued :
        /\ farm' = f
        /\ \E s \in Settled(stake[u], f.acc, stake[u].amount) :
             /\ minted' = [minted EXCEPT ![u] = @ + s.pending]
             /\ stake' = [stake EXCEPT ![u] = [s EXCEPT !.pending = 0]]
  BY DEF Claim
<1>2. PICK s \in Settled(stake[u], f.acc, stake[u].amount) :
        /\ minted' = [minted EXCEPT ![u] = @ + s.pending]
        /\ stake' = [stake EXCEPT ![u] = [s EXCEPT !.pending = 0]]
  BY <1>1
<1>3. /\ TypeOK /\ TypeOK' /\ farm.initialized /\ stake[u].initialized
      /\ UNCHANGED <<now, emitted, changes>>
  BY DEF IInv, Claim
<1> DEFINE p == AccPrecision
           g == (stake[u].amount * f.acc) \div p
<1>4. f \in FarmType /\ f.total = farm.total /\ f.initialized
  BY <1>3, AccruedFacts DEF FarmType
<1>5. /\ f.last = now /\ f.acc \in Nat /\ farm.total \in Nat
      /\ p * Credited + f.acc * farm.total <= p * (emitted + changes)
  BY <1>3, AccruedBudget
<1>6. /\ stake[u] \in StakeType /\ stake[u].amount \in Nat /\ stake[u].debt \in Nat
      /\ stake[u].pending \in Nat /\ stake[u].amount \in 0 .. U64Max
  BY <1>3, StakeTypes, FarmAssumption
<1>7. Covered(stake[u], f.acc)
  <2>1. Acc = farm.acc /\ farm.acc \in Nat /\ farm.acc <= f.acc
    BY <1>3, FarmTypes, AccruedFacts DEF Acc
  <2> QED BY <1>5, <1>6, <2>1, CoveredGrows DEF IInv
<1>8. s.pending = stake[u].pending + (g - stake[u].debt) /\ s.debt = g /\ s \in StakeType
  BY <1>5, <1>6, <1>7, SettledCredit, SettledFacts
<1>9. g \in Nat
  BY <1>5, <1>6, GrossIsNat
<1>10. /\ stake'[u] = [s EXCEPT !.pending = 0] /\ minted'[u] = minted[u] + s.pending
       /\ \A v \in Stakers \ {u} : stake'[v] = stake[v] /\ minted'[v] = minted[v]
       /\ minted[u] \in Nat
  BY <1>2, <1>3 DEF TypeOK
<1>11. stake'[u].initialized /\ stake'[u].pending = 0 /\ stake'[u].debt = s.debt
  BY <1>8, <1>10 DEF StakeType
<1> HIDE DEF g
<1>12. Credit(u)' = Credit(u) + 0
  BY <1>3, <1>6, <1>8, <1>9, <1>10, <1>11 DEF Credit
<1>13. Credited' = Credited + 0 /\ Credited \in Int
  BY <1>3, <1>10, <1>12, CreditChange, CreditTyped
<1>14. Due' = 0
  BY <1>1, <1>3, <1>4, <1>5, NothingDue
<1>15. Acc' = f.acc /\ Total' = farm.total /\ farm'.last = now
  BY <1>1, <1>4, <1>5 DEF Acc, Total
<1>16. now \in Nat /\ emitted \in Nat /\ changes \in Nat
  BY <1>3, FarmAssumption DEF TypeOK
<1> QED BY <1>3, <1>5, <1>13, <1>14, <1>15, <1>16 DEF Budget

LEMMA EmergencyBudget ==
  ASSUME IInv, IInv', Budget, NEW u \in Stakers, EmergencyUnstake(u)
  PROVE  Budget'
<1> DEFINE p == AccPrecision
           a == stake[u].amount
           debt == stake[u].debt
           pending == stake[u].pending
<1>1. /\ TypeOK /\ TypeOK' /\ farm.initialized /\ stake[u].initialized
      /\ farm.total >= a
      /\ farm' = [farm EXCEPT !.total = @ - a]
      /\ stake' = [stake EXCEPT ![u] = UserStake(0, 0, 0)]
      /\ UNCHANGED <<now, minted, emitted, changes>>
  BY DEF IInv, EmergencyUnstake
<1>2. /\ farm \in FarmType /\ farm.acc \in Nat /\ farm.total \in Nat /\ farm.rate \in Nat
      /\ farm.last \in Nat /\ a \in Nat /\ debt \in Nat /\ pending \in Nat /\ now \in Nat
  BY <1>1, FarmTypes, StakeTypes
<1>3. /\ farm'.initialized /\ farm'.total = farm.total - a /\ farm'.acc = farm.acc
      /\ farm'.last = farm.last /\ farm'.rate = farm.rate
  BY <1>1, <1>2 DEF FarmType
<1>4. stake'[u] = UserStake(0, 0, 0) /\ minted[u] \in Nat
      /\ \A v \in Stakers \ {u} : stake'[v] = stake[v] /\ minted'[v] = minted[v]
  BY <1>1 DEF TypeOK
<1>5. Credit(u)' = Credit(u) + (debt - pending)
  BY <1>1, <1>2, <1>4 DEF Credit, UserStake
<1>6. Credited' = Credited + (debt - pending) /\ Credited \in Int
  BY <1>1, <1>2, <1>4, <1>5, CreditChange, CreditTyped
<1>7. farm.last <= now /\ p * Credited + farm.acc * farm.total <= p * (emitted - Due + changes)
  BY <1>1 DEF Budget, Acc, Total
<1>8. p * debt <= farm.acc * a
  <2>1. debt * p <= a * farm.acc
    BY <1>1 DEF IInv, Covered, Acc
  <2>2. p \in Nat
    BY FarmAssumption
  <2> HIDE DEF p, a, debt
  <2> QED BY <1>2, <2>1, <2>2
<1>9. Due \in Nat /\ Due' \in Nat /\ Due' <= Due
  <2>1. (now - farm.last) * farm.rate \in Nat
    BY <1>2, <1>7
  <2> QED BY <1>1, <1>2, <1>3, <2>1 DEF Due
<1>10. p \in Nat /\ emitted \in Nat /\ changes \in Nat
  BY <1>1, FarmAssumption DEF TypeOK
<1> HIDE DEF p, a, debt, pending
<1>11. p * (Credited + (debt - pending)) + farm.acc * (farm.total - a)
         <= p * (emitted - Due' + changes)
  <2>1. /\ p * (Credited + (debt - pending)) = p * Credited + p * debt - p * pending
        /\ farm.acc * (farm.total - a) = farm.acc * farm.total - farm.acc * a
    BY <1>2, <1>6, <1>10
  <2>2. /\ emitted - Due + changes \in Int /\ emitted - Due' + changes \in Int
        /\ emitted - Due + changes <= emitted - Due' + changes
    <3>1. Due \in Nat /\ Due' \in Nat /\ Due' <= Due /\ emitted \in Nat /\ changes \in Nat
      BY <1>9, <1>10
    <3> QED BY <3>1, LessIsDue
  <2>3. p * (emitted - Due + changes) <= p * (emitted - Due' + changes)
    BY <1>10, <2>2, IntMulMono
  <2>4. /\ p * Credited \in Int /\ p * debt \in Nat /\ p * pending \in Nat
        /\ farm.acc * farm.total \in Int /\ farm.acc * a \in Int
        /\ p * (emitted - Due + changes) \in Int /\ p * (emitted - Due' + changes) \in Int
    BY <1>2, <1>6, <1>10, <2>2
  <2> QED BY <1>7, <1>8, <2>1, <2>3, <2>4
<1>12. Acc' = farm.acc /\ Total' = farm.total - a
  BY <1>3 DEF Acc, Total
<1> QED BY <1>1, <1>3, <1>6, <1>7, <1>11, <1>12 DEF Budget, p

\* The other actions leave every credit, and with it the sum, as it was.
LEMMA CreditsStay ==
  ASSUME \A v \in Stakers : Credit(v)' = Credit(v)
  PROVE  Credited' = Credited
<1>1. Credits' = Credits
  BY DEF Credits
<1> QED BY <1>1 DEF Credited

LEMMA InitBudget ==
  ASSUME Init
  PROVE  Budget
<1> DEFINE f == Credits
<1>1. \A u \in Stakers : f[u] = 0
  BY DEF Init, Credits, Credit, NoStake
<1> HIDE DEF f
<1>2. SumFunctionOnSet(f, Stakers) = 0
  BY <1>1, SumOfZeros, FarmAssumption
<1>3. Credited = 0
  BY <1>2 DEF f, Credited
<1>4. Due = 0 /\ Acc = 0 /\ Total = 0 /\ emitted = 0 /\ changes = 0 /\ ~farm.initialized
  BY DEF Init, Due, Acc, Total, NoFarm
<1> QED BY <1>3, <1>4, FarmAssumption DEF Budget

LEMMA TickBudget ==
  ASSUME IInv, IInv', Budget, Tick
  PROVE  Budget'
<1>1. /\ TypeOK /\ now \in Nat /\ now' = now + 1 /\ UNCHANGED <<farm, stake, minted, changes>>
      /\ emitted' = IF farm.initialized /\ farm.total > 0 THEN emitted + farm.rate ELSE emitted
      /\ emitted \in Nat /\ changes \in Nat
  BY FarmAssumption DEF IInv, Tick, TypeOK
<1>2. Credited' = Credited
  BY <1>1, CreditsStay DEF Credit
<1>3. Acc' = Acc /\ Total' = Total
  BY <1>1 DEF Acc, Total
<1>4. emitted' - Due' + changes' = emitted - Due + changes
  <2>1. CASE farm.initialized /\ farm.total > 0
    <3>1. farm.rate \in Nat /\ farm.last \in Nat
      BY <1>1, <2>1, FarmTypes
    <3>2. (now + 1 - farm.last) * farm.rate = (now - farm.last) * farm.rate + farm.rate
          /\ (now - farm.last) * farm.rate \in Int
      BY <1>1, <3>1
    <3>3. Due = (now - farm.last) * farm.rate /\ Due' = (now + 1 - farm.last) * farm.rate
      <4>1. farm' = farm /\ now' = now + 1 /\ now \in Nat
        BY <1>1
      <4> QED BY <2>1, <3>1, <4>1 DEF Due
    <3>4. Due \in Int /\ Due' = Due + farm.rate /\ emitted' = emitted + farm.rate
      BY <1>1, <2>1, <3>2, <3>3
    <3>5. changes' = changes
      BY <1>1
    <3> QED BY <1>1, <3>1, <3>4, <3>5, SameBudget
  <2>2. CASE ~(farm.initialized /\ farm.total > 0)
    BY <1>1, <2>2 DEF Due
  <2> QED BY <2>1, <2>2
<1>5. farm'.initialized => farm'.last <= now'
  <2> SUFFICES ASSUME farm.initialized PROVE farm.last <= now + 1
    BY <1>1
  <2>1. farm.last \in Nat /\ farm.last <= now
    BY <1>1, FarmTypes DEF Budget
  <2> QED BY <1>1, <2>1
<1> QED BY <1>2, <1>3, <1>4, <1>5 DEF Budget

LEMMA InitFarmBudget ==
  ASSUME IInv, IInv', Backed, Budget, NEW rate \in Rates, InitFarm(rate)
  PROVE  Budget'
<1>1. /\ ~farm.initialized /\ farm' = FarmState(rate, now, 0, 0) /\ now \in Nat
      /\ UNCHANGED <<now, stake, minted, emitted, changes>>
  BY FarmAssumption DEF InitFarm, IInv, TypeOK
<1>2. Credited' = Credited
  BY <1>1, CreditsStay DEF Credit
<1>3. Due' = 0 /\ Due = 0 /\ Acc' = 0 /\ Acc = 0 /\ Total' = 0 /\ Total = 0 /\ farm'.last = now
  BY <1>1 DEF FarmState, Due, Acc, Total
<1> QED BY <1>1, <1>2, <1>3 DEF Budget

LEMMA SetRewardBudget ==
  ASSUME IInv, IInv', Budget, NEW rate \in Rates, SetRewardPerSecond(rate)
  PROVE  Budget'
<1>1. PICK f \in Accrued : farm' = [f EXCEPT !.rate = rate]
  BY DEF SetRewardPerSecond
<1>2. /\ TypeOK /\ TypeOK' /\ farm.initialized /\ now \in Nat
      /\ emitted \in Nat /\ changes \in Nat
      /\ UNCHANGED <<now, stake, minted, emitted, changes>>
  BY FarmAssumption DEF SetRewardPerSecond, IInv, TypeOK
<1>3. f \in FarmType /\ f.total = farm.total
  BY <1>2, AccruedFacts
<1>4. /\ f.last = now /\ f.acc \in Nat /\ farm.total \in Nat
      /\ AccPrecision * Credited + f.acc * farm.total <= AccPrecision * (emitted + changes)
  BY <1>2, AccruedBudget
<1>5. farm'.initialized /\ farm'.total = farm.total /\ farm'.acc = f.acc /\ farm'.last = now
  BY <1>1, <1>3, <1>4 DEF FarmType
<1>6. Credited' = Credited
  BY <1>2, CreditsStay DEF Credit
<1>7. Due' = 0
  BY <1>2, <1>5, NothingDue
<1>8. Acc' = f.acc /\ Total' = farm.total /\ emitted - 0 + changes = emitted + changes
  BY <1>2, <1>5 DEF Acc, Total
<1> QED BY <1>2, <1>4, <1>5, <1>6, <1>7, <1>8 DEF Budget

LEMMA InitUserStakeBudget ==
  ASSUME IInv, Budget, NEW u \in Stakers, InitUserStake(u)
  PROVE  Budget'
<1>1. /\ ~stake[u].initialized /\ stake' = [stake EXCEPT ![u] = UserStake(0, 0, 0)]
      /\ UNCHANGED <<now, farm, minted, emitted, changes>>
  BY DEF InitUserStake
<1>2. \A v \in Stakers : /\ stake'[v] = IF v = u THEN UserStake(0, 0, 0) ELSE stake[v]
                         /\ minted[v] \in Nat
  BY <1>1 DEF IInv, TypeOK
<1>3. \A v \in Stakers : Credit(v)' = Credit(v)
  BY <1>1, <1>2 DEF Credit, UserStake
<1>4. Credited' = Credited
  BY <1>3, CreditsStay
<1> QED BY <1>1, <1>4 DEF Budget, Acc, Total, Due

LEMMA StepBudget ==
  ASSUME IInv, IInv', Backed, Backed', Budget, [Next]_vars
  PROVE  Budget'
<1>1. CASE Tick
  BY <1>1, TickBudget
<1>2. ASSUME NEW rate \in Rates, InitFarm(rate) PROVE Budget'
  BY <1>2, InitFarmBudget
<1>3. ASSUME NEW rate \in Rates, SetRewardPerSecond(rate) PROVE Budget'
  BY <1>3, SetRewardBudget
<1>4. ASSUME NEW u \in Stakers, InitUserStake(u) PROVE Budget'
  BY <1>4, InitUserStakeBudget
<1>5. ASSUME NEW u \in Stakers, NEW n \in Amounts, Stake(u, n) \/ Unstake(u, n) PROVE Budget'
  <2>1. n \in Int /\ -n \in Int
    BY FarmAssumption
  <2> QED BY <1>5, <2>1, ResizeBudget DEF Stake, Unstake
<1>6. ASSUME NEW u \in Stakers, Claim(u) PROVE Budget'
  BY <1>6, ClaimBudget
<1>7. ASSUME NEW u \in Stakers, EmergencyUnstake(u) PROVE Budget'
  BY <1>7, EmergencyBudget
<1>8. CASE UNCHANGED vars
  <2>1. Credited' = Credited
    BY <1>8, CreditsStay DEF vars, Credit
  <2> QED BY <1>8, <2>1 DEF vars, Budget, Acc, Total, Due
<1> QED BY <1>1, <1>2, <1>3, <1>4, <1>5, <1>6, <1>7, <1>8 DEF Next

LEMMA BudgetInvariance ==
  Spec => []Budget
<1>1. Init => Budget
  BY InitBudget
<1>2. IInv /\ IInv' /\ Backed /\ Backed' /\ Budget /\ [Next]_vars => Budget'
  BY StepBudget
<1> QED BY <1>1, <1>2, Invariance, BackedInvariance, PTL DEF Spec

\* One staker: entitled to no more than credit and accumulator say.
LEMMA EntitledCovered ==
  ASSUME IInv, Backed, NEW u \in Stakers
  PROVE  /\ Entitled(u) \in Int
         /\ AccPrecision * Entitled(u) <= AccPrecision * Credit(u) + Acc * AmountOf(u)
<1> DEFINE p == AccPrecision
<1>1. TypeOK /\ minted[u] \in Nat /\ Acc \in Nat /\ p \in Nat /\ p > 0
  BY AccIsNat, FarmAssumption DEF IInv, TypeOK
<1>2. CASE ~stake[u].initialized
  <2>1. Entitled(u) = minted[u] /\ Credit(u) = minted[u] /\ AmountOf(u) = 0
    BY <1>1, <1>2 DEF Entitled, Owed, Active, Credit, AmountOf
  <2> HIDE DEF p
  <2>2. p * minted[u] <= p * minted[u] + Acc * 0
    BY <1>1
  <2> QED BY <1>1, <2>1, <2>2 DEF p
<1>3. CASE stake[u].initialized /\ ~farm.initialized
  <2>1. stake[u] = UserStake(0, 0, 0)
    BY <1>3 DEF Backed, Fresh, NoStake
  <2>2. Entitled(u) = minted[u] /\ Credit(u) = minted[u] /\ AmountOf(u) = 0
    BY <1>1, <1>3, <2>1 DEF Entitled, Owed, Active, Credit, AmountOf, UserStake
  <2> HIDE DEF p
  <2>3. p * minted[u] <= p * minted[u] + Acc * 0
    BY <1>1
  <2> QED BY <1>1, <2>2, <2>3 DEF p
<1>4. CASE stake[u].initialized /\ farm.initialized
  <2> DEFINE x == stake[u].amount * farm.acc
             g == x \div p
  <2>1. /\ stake[u].amount \in Nat /\ stake[u].debt \in Nat /\ stake[u].pending \in Nat
        /\ Acc = farm.acc /\ farm.acc \in Nat
    BY <1>1, <1>4, StakeTypes, FarmTypes DEF Acc
  <2>2. x \in Nat /\ x = Acc * AmountOf(u)
    BY <1>4, <2>1 DEF AmountOf
  <2>3. g \in Nat /\ p * g <= x
    <3> HIDE DEF x, p
    <3> QED BY <1>1, <2>2, DivFacts
  <2>4. Entitled(u) = minted[u] + (stake[u].pending + (g - stake[u].debt))
    BY <1>4 DEF Entitled, Owed, Active
  <2>5. Credit(u) = minted[u] + (stake[u].pending - stake[u].debt)
    BY <1>4 DEF Credit
  <2> HIDE DEF x, g, p
  <2>6. Entitled(u) = Credit(u) + g /\ Credit(u) \in Int
    BY <1>1, <2>1, <2>3, <2>4, <2>5
  <2>7. p * (Credit(u) + g) = p * Credit(u) + p * g /\ p * g \in Int /\ p * Credit(u) \in Int
    BY <1>1, <2>3, <2>6
  <2>8. p * Entitled(u) <= p * Credit(u) + x
    BY <2>2, <2>3, <2>6, <2>7
  <2> QED BY <2>2, <2>3, <2>6, <2>8 DEF p
<1> QED BY <1>2, <1>3, <1>4

\* Whatever the stakes, the rates and the order of the calls, all stakers get no
\* more than the emission and one unit for each change of a position.
THEOREM EmissionBoundedTheorem ==
  Spec => []EmissionBounded
<1>1. ASSUME IInv, Backed, Budget
      PROVE  EmissionBounded
  <2> DEFINE p == AccPrecision
             acc == Acc
             credits == Credits
             amounts == AmountsNow
             entitled == [u \in Stakers |-> Entitled(u)]
             covered == [u \in Stakers |-> p * Credit(u) + acc * AmountOf(u)]
             scaled == [u \in Stakers |-> p * Entitled(u)]
             zero == [u \in Stakers |-> 0]
             pcredits == [u \in Stakers |-> p * Credit(u)]
  <2>1. /\ TypeOK /\ p \in Nat /\ p > 0 /\ acc \in Nat /\ IsFiniteSet(Stakers)
        /\ Due \in Nat /\ emitted \in Nat /\ changes \in Nat
    <3>1. TypeOK /\ p \in Nat /\ p > 0 /\ acc \in Nat /\ IsFiniteSet(Stakers)
          /\ emitted \in Nat /\ changes \in Nat
      BY <1>1, AccIsNat, FarmAssumption DEF IInv, TypeOK
    <3>2. Due \in Nat
      <4> SUFFICES ASSUME farm.initialized PROVE (now - farm.last) * farm.rate \in Nat
        BY DEF Due
      <4>1. farm.rate \in Nat /\ now - farm.last \in Nat
        BY <1>1, <3>1, FarmTypes DEF Budget
      <4> QED BY <4>1
    <3> QED BY <3>1, <3>2
  <2>2. \A u \in Stakers : /\ Credit(u) \in Int /\ AmountOf(u) \in Nat /\ Entitled(u) \in Int
                           /\ p * Entitled(u) <= p * Credit(u) + acc * AmountOf(u)
    BY <1>1, <2>1, CreditTyped, AmountsTyped, EntitledCovered
  <2>3. /\ \A u \in Stakers : credits[u] = Credit(u) /\ amounts[u] = AmountOf(u)
        /\ Credited = SumFunctionOnSet(credits, Stakers)
        /\ Total = SumFunctionOnSet(amounts, Stakers)
    BY <1>1 DEF Credits, AmountsNow, Credited, Backed
  <2>4. p * Credited + acc * Total <= p * (emitted - Due + changes)
    BY <1>1 DEF Budget
  <2>5. EmissionBounded <=> SumFunctionOnSet(entitled, Stakers) <= emitted + changes
    BY DEF EmissionBounded
  <2> HIDE DEF p, acc, credits, amounts
  <2>6. /\ \A u \in Stakers : zero[u] \in Int /\ zero[u] = 0 /\ entitled[u] \in Int
        /\ \A u \in Stakers : credits[u] \in Int /\ amounts[u] \in Int
        /\ \A u \in Stakers : pcredits[u] = zero[u] + p * credits[u] /\ pcredits[u] \in Int
        /\ \A u \in Stakers : scaled[u] = zero[u] + p * entitled[u] /\ scaled[u] \in Int
        /\ \A u \in Stakers : covered[u] = pcredits[u] + acc * amounts[u] /\ covered[u] \in Int
        /\ \A u \in Stakers : scaled[u] <= covered[u]
    <3> SUFFICES ASSUME NEW u \in Stakers
                 PROVE  /\ zero[u] \in Int /\ zero[u] = 0 /\ entitled[u] \in Int
                        /\ credits[u] \in Int /\ amounts[u] \in Int
                        /\ pcredits[u] = zero[u] + p * credits[u] /\ pcredits[u] \in Int
                        /\ scaled[u] = zero[u] + p * entitled[u] /\ scaled[u] \in Int
                        /\ covered[u] = pcredits[u] + acc * amounts[u] /\ covered[u] \in Int
                        /\ scaled[u] <= covered[u]
      OBVIOUS
    <3>1. /\ Credit(u) \in Int /\ AmountOf(u) \in Nat /\ Entitled(u) \in Int
          /\ credits[u] = Credit(u) /\ amounts[u] = AmountOf(u)
          /\ p * Entitled(u) <= p * Credit(u) + acc * AmountOf(u)
      BY <2>2, <2>3
    <3>2. /\ p * Credit(u) \in Int /\ acc * AmountOf(u) \in Int /\ p * Entitled(u) \in Int
      BY <2>1, <3>1
    <3> QED BY <3>1, <3>2
  <2> HIDE DEF entitled, covered, scaled, zero, pcredits
  <2>7. SumFunctionOnSet(zero, Stakers) = 0
    BY <2>1, <2>6, SumOfZeros
  <2>8. SumFunctionOnSet(pcredits, Stakers)
          = SumFunctionOnSet(zero, Stakers) + p * SumFunctionOnSet(credits, Stakers)
    BY <2>1, <2>6, SumLinear
  <2>9. SumFunctionOnSet(scaled, Stakers)
          = SumFunctionOnSet(zero, Stakers) + p * SumFunctionOnSet(entitled, Stakers)
    BY <2>1, <2>6, SumLinear
  <2>10. SumFunctionOnSet(covered, Stakers)
           = SumFunctionOnSet(pcredits, Stakers) + acc * SumFunctionOnSet(amounts, Stakers)
    BY <2>1, <2>6, SumLinear
  <2>11. SumFunctionOnSet(scaled, Stakers) <= SumFunctionOnSet(covered, Stakers)
    BY <2>1, <2>6, SumMonotone
  <2>12. /\ SumFunctionOnSet(entitled, Stakers) \in Int /\ Credited \in Int /\ Total \in Int
    BY <2>1, <2>3, <2>6, SumIsInt
  <2>13. p * SumFunctionOnSet(entitled, Stakers) <= p * (emitted - Due + changes)
    <3>1. p * SumFunctionOnSet(entitled, Stakers) \in Int /\ p * Credited \in Int
          /\ acc * Total \in Int /\ p * (emitted - Due + changes) \in Int
      BY <2>1, <2>12
    <3> QED BY <2>3, <2>4, <2>7, <2>8, <2>9, <2>10, <2>11, <3>1
  <2>14. SumFunctionOnSet(entitled, Stakers) <= emitted - Due + changes
    <3>1. emitted - Due + changes \in Int
      BY <2>1
    <3> QED BY <2>1, <2>12, <2>13, <3>1, IntMulCancel
  <2> QED BY <2>1, <2>5, <2>12, <2>14
<1> QED BY <1>1, Invariance, BackedInvariance, BudgetInvariance, PTL
=============================================================================
