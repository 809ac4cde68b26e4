-------------------------- MODULE TokenSwapProofs --------------------------
(***************************************************************************)
(* Theorems about the protocol configuration, for any set of keys, and     *)
(* about one pool, for any keys, fee schedules and amounts.                *)
(*                                                                         *)
(* IInv is inductive: types, and the counters backed by the vaults.  Each  *)
(* action theorem below rests on it and on the facts of CurveProofs.       *)
(***************************************************************************)
EXTENDS TokenSwap, CurveProofs, TLAPS

-----------------------------------------------------------------------------
(* The protocol configuration, whatever the pool does.                     *)

\* Every instruction keeps the account absent or well formed.
LEMMA ConfigStepTyped ==
  ASSUME ConfigTypeOK, ConfigStep
  PROVE  ConfigTypeOK'
<1> USE ConfigAssumption DEF ConfigTypeOK, ProtocolConfig, NoConfig, ConfigLoads,
      Modes, AdminOnly, Permissionless, ModeBytes, AnyKey
<1>1. PICK signer \in Keys :
        \/ \E admin, treasury \in AnyKey, mode \in ModeBytes :
             InitializeConfig(signer, admin, treasury, mode)
        \/ \E treasury \in AnyKey : SetTreasury(signer, treasury)
        \/ \E pending \in AnyKey : TransferAdmin(signer, pending)
        \/ AcceptAdmin(signer)
        \/ \E mode \in ModeBytes : SetPoolCreation(signer, mode)
  BY DEF ConfigStep
<1>2. ASSUME NEW admin \in AnyKey, NEW treasury \in AnyKey, NEW mode \in ModeBytes,
             InitializeConfig(signer, admin, treasury, mode)
      PROVE  ConfigTypeOK'
  BY <1>2 DEF InitializeConfig
<1>3. ASSUME NEW treasury \in AnyKey, SetTreasury(signer, treasury)
      PROVE  ConfigTypeOK'
  BY <1>3 DEF SetTreasury
<1>4. ASSUME NEW pending \in AnyKey, TransferAdmin(signer, pending)
      PROVE  ConfigTypeOK'
  BY <1>4 DEF TransferAdmin
<1>5. CASE AcceptAdmin(signer)
  BY <1>5 DEF AcceptAdmin
<1>6. ASSUME NEW mode \in ModeBytes, SetPoolCreation(signer, mode)
      PROVE  ConfigTypeOK'
  BY <1>6 DEF SetPoolCreation
<1> QED BY <1>1, <1>2, <1>3, <1>4, <1>5, <1>6

\* The configuration is always absent or well formed: neither authority is
\* ever the zero key.
THEOREM ConfigTyped == ConfigSpec => []ConfigTypeOK
<1>1. ConfigInit => ConfigTypeOK
  BY DEF ConfigInit, ConfigTypeOK
<1>2. ConfigTypeOK /\ [ConfigStep]_config => ConfigTypeOK'
  BY ConfigStepTyped DEF ConfigTypeOK
<1> QED BY <1>1, <1>2, PTL DEF ConfigSpec

\* The admin changes only by consuming the nomination that stood.
THEOREM AdminHandoverTheorem == ConfigSpec => AdminHandover
<1> DEFINE Handover ==
      (config # NoConfig /\ config'.admin # config.admin) =>
        /\ config.pendingAdmin # Default
        /\ config'.admin = config.pendingAdmin
        /\ config'.pendingAdmin = Default
        /\ config'.treasury = config.treasury /\ config'.mode = config.mode
<1>1. ASSUME ConfigTypeOK, [ConfigStep]_config
      PROVE  [Handover]_config
  <2> SUFFICES ASSUME ConfigStep, config # NoConfig, config'.admin # config.admin
               PROVE  Handover
    BY <1>1
  <2>1. config \in ProtocolConfig
    BY <1>1 DEF ConfigTypeOK
  <2>2. PICK signer \in Keys : AcceptAdmin(signer)
    BY <2>1 DEF ConfigStep, InitializeConfig, SetTreasury, TransferAdmin,
       SetPoolCreation, ProtocolConfig
  <2> QED BY <2>1, <2>2 DEF AcceptAdmin, ProtocolConfig
<1> QED BY ConfigTyped, <1>1, PTL DEF ConfigSpec, AdminHandover

-----------------------------------------------------------------------------
\* The pool's instructions only read the configuration: the whole program
\* implements the specification of its configuration.
THEOREM PoolImplementsConfig == Spec => ConfigSpec
<1>1. Init => ConfigInit
  BY DEF Init
<1>2. [Next]_vars => [ConfigStep]_config
  <2> SUFFICES ASSUME [Next]_vars, config' # config
               PROVE  ConfigStep
    OBVIOUS
  <2>1. CASE ConfigInstruction
    BY <2>1 DEF ConfigInstruction
  <2>2. CASE UNCHANGED vars \/ NewEpoch \/ CollectProtocolFees
    BY <2>2 DEF vars, NewEpoch, CollectProtocolFees
  <2>3. ASSUME NEW user \in Keys, NEW side \in Sides, NEW n \in Amounts, Donate(user, side, n)
        PROVE  FALSE
    BY <2>3 DEF Donate
  <2>4. ASSUME NEW user \in Keys, NEW n \in LpAmounts, DirectBurn(user, n)
        PROVE  FALSE
    BY <2>4 DEF DirectBurn
  <2>5. ASSUME NEW user \in Keys, NEW fees, NEW bps, CreatePool(user, fees, bps)
        PROVE  FALSE
    BY <2>5 DEF CreatePool
  <2>6. ASSUME NEW user \in Keys, NEW side \in Sides, NEW n \in Amounts, NEW limit \in Limits,
               \/ SwapExactIn(user, side, n, limit)
               \/ SwapExactOut(user, side, n, limit)
               \/ DepositSingleTokenTypeExactAmountIn(user, side, n, limit)
               \/ WithdrawSingleTokenTypeExactAmountOut(user, side, n, limit)
        PROVE  FALSE
    BY <2>6 DEF SwapExactIn, SwapExactOut, SettleSwap, DepositSingleTokenTypeExactAmountIn,
       WithdrawSingleTokenTypeExactAmountOut
  <2>7. ASSUME NEW user \in Keys, NEW n \in LpAmounts, NEW limit \in Limits,
               DepositAllTokenTypes(user, n, limit) \/ WithdrawAllTokenTypes(user, n, limit)
        PROVE  FALSE
    BY <2>7 DEF DepositAllTokenTypes, WithdrawAllTokenTypes
  <2> QED BY <2>1, <2>2, <2>3, <2>4, <2>5, <2>6, <2>7 DEF Next
<1> QED BY <1>1, <1>2, PTL DEF Spec, ConfigSpec

\* So in the whole program too the admin changes only by the nomination that
\* stood, whatever trades and collections come between.
THEOREM PoolAdminHandover == Spec => AdminHandover
BY PoolImplementsConfig, AdminHandoverTheorem

-----------------------------------------------------------------------------
(* The pool.                                                               *)

IInv == TypeOK /\ FeesBacked

LEMMA PoolFacts ==
  ASSUME TypeOK, PoolLoads
  PROVE  /\ pool.fees \in FeeInputs /\ pool.fees \in FeeSchedule
         /\ ValidFees(pool.fees)
<1>1. PICK f \in FeeInputs : ValidFees(f) /\ pool = Pool(f)
  BY DEF TypeOK, PoolLoads, NoPool
<1>2. pool.fees = f
  BY <1>1 DEF Pool
<1>3. f \in FeeSchedule
  BY PoolAssumption DEF FeeSchedule, Fraction
<1> QED BY <1>1, <1>2, <1>3

\* The LP-owned reserves are naturals: what lp_owned's checked_sub relies on.
LEMMA ReserveFacts ==
  ASSUME IInv
  PROVE  /\ LpReserves \in [Sides -> Nat]
         /\ \A side \in Sides : /\ Other(side) \in Sides /\ Other(side) # side
                                /\ LpOwned(side) \in Nat
                                /\ LpReserves[side] = LpOwned(side)
BY DEF IInv, TypeOK, FeesBacked, LpReserves, LpOwned, Sides, Other

-----------------------------------------------------------------------------
(* Transfer fees of the mints.                                             *)

\* The fee of a mint by its two numbers.
LEMMA FeeParts ==
  ASSUME NEW f \in TransferFee
  PROVE  \E b \in Nat, x \in Nat :
           /\ b <= 10000 /\ f.maximum = x
           /\ \A n : Withheld(f, n) = MinOf(CeilDiv(n * b, 10000), x)
           /\ \A n : PreTransferFee(f, n) =
                     IF b = 0 \/ n = 0 THEN n
                     ELSE IF b = 10000 THEN n + x
                     ELSE MinOf(CeilDiv(n * 10000, 10000 - b), n + x)
<1> DEFINE b == f.bps
           x == f.maximum
<1>1. b \in 0 .. OneInBasisPoints /\ x \in Nat
  BY DEF TransferFee
<1>2. f.bps = b /\ f.maximum = x
  OBVIOUS
<1> HIDE DEF b, x
<1>3. b \in Nat /\ b <= 10000
  BY <1>1 DEF OneInBasisPoints
<1>4. ASSUME NEW n
      PROVE  Withheld(f, n) = MinOf(CeilDiv(n * b, 10000), x)
  BY <1>2 DEF Withheld, OneInBasisPoints
<1>5. ASSUME NEW n
      PROVE  PreTransferFee(f, n) =
               IF b = 0 \/ n = 0 THEN n
               ELSE IF b = 10000 THEN n + x
               ELSE MinOf(CeilDiv(n * 10000, 10000 - b), n + x)
  BY <1>2 DEF PreTransferFee, OneInBasisPoints
<1> QED BY <1>1, <1>2, <1>3, <1>4, <1>5

\* A mint withholds no more than the transfer, and more of a larger one.
LEMMA WithheldFacts ==
  ASSUME NEW f \in TransferFee, NEW n \in Nat
  PROVE  /\ Withheld(f, n) \in Nat
         /\ Withheld(f, n) <= n /\ Withheld(f, n) <= f.maximum
<1>1. PICK b \in Nat, x \in Nat :
        /\ b <= 10000 /\ f.maximum = x
        /\ \A m : Withheld(f, m) = MinOf(CeilDiv(m * b, 10000), x)
        /\ \A m : PreTransferFee(f, m) =
                  IF b = 0 \/ m = 0 THEN m
                  ELSE IF b = 10000 THEN m + x
                  ELSE MinOf(CeilDiv(m * 10000, 10000 - b), m + x)
  BY FeeParts
<1>2. n * b \in Nat /\ n * b <= 10000 * n
  BY <1>1, MulMono
<1>3. CeilDiv(n * b, 10000) \in Nat /\ CeilDiv(n * b, 10000) <= n
  BY <1>2, CeilDivFacts, CeilDivLeast
<1> QED BY <1>1, <1>3 DEF MinOf

LEMMA WithheldMono ==
  ASSUME NEW f \in TransferFee, NEW m \in Nat, NEW n \in Nat, m <= n
  PROVE  Withheld(f, m) <= Withheld(f, n)
<1>1. PICK b \in Nat, x \in Nat :
        /\ b <= 10000 /\ f.maximum = x
        /\ \A i : Withheld(f, i) = MinOf(CeilDiv(i * b, 10000), x)
        /\ \A i : PreTransferFee(f, i) =
                  IF b = 0 \/ i = 0 THEN i
                  ELSE IF b = 10000 THEN i + x
                  ELSE MinOf(CeilDiv(i * 10000, 10000 - b), i + x)
  BY FeeParts
<1>2. m * b \in Nat /\ n * b \in Nat /\ m * b <= n * b
  BY <1>1, MulMono
<1>3. CeilDiv(n * b, 10000) \in Nat /\ n * b <= 10000 * CeilDiv(n * b, 10000)
  BY <1>2, CeilDivFacts
<1>4. m * b <= 10000 * CeilDiv(n * b, 10000)
  BY <1>2, <1>3
<1>5. CeilDiv(m * b, 10000) \in Nat
      /\ CeilDiv(m * b, 10000) <= CeilDiv(n * b, 10000)
  BY <1>2, <1>3, <1>4, CeilDivFacts, CeilDivLeast
<1> QED BY <1>1, <1>3, <1>5 DEF MinOf

\* Of the transfer before the fee, the amount after the fee does arrive.
LEMMA PreTransferFeeCovers ==
  ASSUME NEW f \in TransferFee, NEW n \in Nat
  PROVE  /\ PreTransferFee(f, n) \in Nat
         /\ n <= PreTransferFee(f, n) - Withheld(f, PreTransferFee(f, n))
<1>1. PICK b \in Nat, x \in Nat :
        /\ b <= 10000 /\ f.maximum = x
        /\ \A m : Withheld(f, m) = MinOf(CeilDiv(m * b, 10000), x)
        /\ \A m : PreTransferFee(f, m) =
                  IF b = 0 \/ m = 0 THEN m
                  ELSE IF b = 10000 THEN m + x
                  ELSE MinOf(CeilDiv(m * 10000, 10000 - b), m + x)
  BY FeeParts
<1>2. CASE n = 0
  <2>1. PreTransferFee(f, n) = 0
    BY <1>1, <1>2
  <2> QED BY <1>2, <2>1, WithheldFacts
<1>3. CASE b = 0
  <2>1. PreTransferFee(f, n) = n /\ n * b = 0
    BY <1>1, <1>3
  <2>2. CeilDiv(0, 10000) = 0
    BY DEF CeilDiv
  <2>3. Withheld(f, n) = 0
    BY <1>1, <2>1, <2>2 DEF MinOf
  <2> QED BY <2>1, <2>3
<1>4. CASE n # 0 /\ b = 10000
  <2>1. PreTransferFee(f, n) = n + x
    BY <1>1, <1>4
  <2>2. Withheld(f, n + x) \in Nat /\ Withheld(f, n + x) <= x
    BY <1>1, WithheldFacts
  <2> QED BY <1>1, <2>1, <2>2
<1>5. CASE n # 0 /\ b # 0 /\ b # 10000
  <2> DEFINE k == 10000 - b
             c == CeilDiv(n * 10000, k)
             p == PreTransferFee(f, n)
  <2>1. p = MinOf(c, n + x)
    BY <1>1, <1>5
  <2>2. k \in Nat /\ k > 0 /\ k <= 10000 /\ n * 10000 \in Nat
    BY <1>1, <1>5
  <2>3. c \in Nat /\ n * 10000 <= k * c
    BY <2>2, CeilDivFacts
  <2>4. k * c <= 10000 * c /\ k * c = 10000 * c - b * c /\ b * c \in Nat
    <3>1. k * c <= 10000 * c
      BY <2>2, <2>3, MulMono
    <3>2. k * c = 10000 * c - b * c /\ b * c \in Nat
      BY <1>1, <2>3
    <3> QED BY <3>1, <3>2
  <2> HIDE DEF c, p
  <2>5. CASE c >= n + x
    <3>1. p = n + x
      BY <1>1, <2>1, <2>3, <2>5 DEF MinOf
    <3>2. Withheld(f, p) \in Nat /\ Withheld(f, p) <= x
      BY <1>1, <3>1, WithheldFacts
    <3> QED BY <1>1, <3>1, <3>2 DEF p
  <2>6. CASE c < n + x
    <3>1. p = c
      BY <1>1, <2>1, <2>3, <2>6 DEF MinOf
    <3>2. c - n \in Nat /\ c * b <= 10000 * (c - n) /\ c * b \in Nat
      <4> HIDE DEF k
      <4>1. n * 10000 <= 10000 * c
        BY <2>2, <2>3, <2>4
      <4>2. c - n \in Nat
        BY <2>3, <4>1
      <4>3. c * b = b * c
        BY <1>1, <2>3
      <4> QED BY <2>2, <2>3, <2>4, <4>2, <4>3
    <3>3. CeilDiv(c * b, 10000) <= c - n
      BY <3>2, CeilDivLeast
    <3>4. Withheld(f, c) <= CeilDiv(c * b, 10000) /\ Withheld(f, c) \in Nat
          /\ CeilDiv(c * b, 10000) \in Nat
      <4>1. Withheld(f, c) = MinOf(CeilDiv(c * b, 10000), x)
        BY <1>1
      <4>2. CeilDiv(c * b, 10000) \in Nat
        BY <3>2, CeilDivFacts
      <4> QED BY <1>1, <4>1, <4>2 DEF MinOf
    <3>5. n <= c - Withheld(f, c)
      BY <2>3, <3>3, <3>4
    <3> QED BY <2>3, <3>1, <3>5 DEF p
  <2> QED BY <1>1, <2>3, <2>5, <2>6
<1> QED BY <1>2, <1>3, <1>4, <1>5

\* And no smaller transfer would do.
LEMMA PreTransferFeeLeast ==
  ASSUME NEW f \in TransferFee, NEW n \in Nat, NEW m \in Nat, n <= m - Withheld(f, m)
  PROVE  PreTransferFee(f, n) <= m
<1>1. PICK b \in Nat, x \in Nat :
        /\ b <= 10000 /\ f.maximum = x
        /\ \A i : Withheld(f, i) = MinOf(CeilDiv(i * b, 10000), x)
        /\ \A i : PreTransferFee(f, i) =
                  IF b = 0 \/ i = 0 THEN i
                  ELSE IF b = 10000 THEN i + x
                  ELSE MinOf(CeilDiv(i * 10000, 10000 - b), i + x)
  BY FeeParts
<1>2. Withheld(f, m) \in Nat /\ Withheld(f, m) <= m
  BY WithheldFacts
<1> DEFINE w == CeilDiv(m * b, 10000)
<1>3. Withheld(f, m) = MinOf(w, x)
  BY <1>1
<1>4. m * b \in Nat /\ w \in Nat /\ m * b <= 10000 * w
  BY <1>1, CeilDivFacts
<1>5. CASE n = 0 \/ b = 0
  BY <1>1, <1>2, <1>5
<1>6. CASE n # 0 /\ b = 10000
  <2>1. m <= w
    BY <1>4, <1>6
  <2>2. Withheld(f, m) = x
    BY <1>1, <1>2, <1>3, <1>4, <1>6, <2>1 DEF MinOf
  <2> QED BY <1>1, <1>6, <2>2
<1>7. CASE n # 0 /\ b # 0 /\ b # 10000
  <2> DEFINE k == 10000 - b
             c == CeilDiv(n * 10000, k)
  <2>1. PreTransferFee(f, n) = MinOf(c, n + x)
    BY <1>1, <1>7
  <2>2. k \in Nat /\ k > 0 /\ n * 10000 \in Nat
    BY <1>1, <1>7
  <2>3. c \in Nat
    BY <2>2, CeilDivFacts
  <2> HIDE DEF c, w
  <2>4. CASE Withheld(f, m) = x
    BY <1>1, <2>1, <2>3, <2>4 DEF MinOf
  <2>5. CASE Withheld(f, m) = w
    <3>1. k * m = 10000 * m - m * b
      BY <1>1
    <3> HIDE DEF k
    <3>2. n * 10000 <= k * m
      BY <1>1, <1>4, <2>2, <2>5, <3>1
    <3>3. c <= m
      BY <2>2, <3>2, CeilDivLeast DEF c
    <3> QED BY <1>1, <2>1, <2>3, <3>3 DEF MinOf
  <2> QED BY <1>3, <2>4, <2>5 DEF MinOf
<1> QED BY <1>5, <1>6, <1>7

LEMMA TransferFeeTyped ==
  ASSUME TypeOK, NEW side \in Sides
  PROVE  transferFee[side] \in TransferFee
BY PoolAssumption DEF TypeOK

LEMMA ArrivingFacts ==
  ASSUME TypeOK, NEW side \in Sides, NEW n \in Nat
  PROVE  Arriving(side, n) \in Nat /\ Arriving(side, n) <= n
<1>1. Withheld(transferFee[side], n) \in Nat /\ Withheld(transferFee[side], n) <= n
  BY TransferFeeTyped, WithheldFacts
<1> QED BY <1>1 DEF Arriving

LEMMA ArrivedFacts ==
  ASSUME TypeOK, NEW pay \in [Sides -> Nat]
  PROVE  /\ Arrived(pay) \in [Sides -> Nat]
         /\ \A side \in Sides : Arrived(pay)[side] <= pay[side]
BY ArrivingFacts DEF Arrived

\* What a swap has the trader send is the least of which enough arrives, or
\* less: it is within any offer of which enough arrives.
LEMMA SentFacts ==
  ASSUME TypeOK, NEW side \in Sides, NEW n \in Nat
  PROVE  /\ Sent(side, n) \in Nat /\ n <= Arriving(side, Sent(side, n))
         /\ \A m \in Nat : n <= Arriving(side, m) => Sent(side, n) <= m
<1> DEFINE f == transferFee[side]
           p == PreTransferFee(f, n)
           s == Sent(side, n)
<1>1. f \in TransferFee
  BY TransferFeeTyped
<1>2. p \in Nat /\ n <= p - Withheld(f, p)
  BY <1>1, PreTransferFeeCovers
<1>3. Withheld(f, p) \in Nat
  BY <1>1, <1>2, WithheldFacts
<1>4. s = n + Withheld(f, p)
  BY DEF Sent, InverseFee
<1> HIDE DEF f, p, s
<1>5. s \in Nat /\ s <= p
  BY <1>2, <1>3, <1>4
<1>6. Withheld(f, s) <= Withheld(f, p) /\ Withheld(f, s) \in Nat
  BY <1>1, <1>2, <1>5, WithheldMono, WithheldFacts
<1>7. n <= s - Withheld(f, s)
  BY <1>3, <1>4, <1>6
<1>8. ASSUME NEW m \in Nat, n <= m - Withheld(f, m)
      PROVE  s <= m
  <2>1. p <= m
    BY <1>1, <1>8, PreTransferFeeLeast DEF p
  <2> QED BY <1>2, <1>5, <2>1
<1> QED BY <1>5, <1>7, <1>8 DEF Arriving, f, s

\* A mint that charges nothing withholds nothing.
LEMMA UntaxedArrives ==
  ASSUME TypeOK, Untaxed, NEW side \in Sides, NEW n \in Nat
  PROVE  Arriving(side, n) = n
<1> DEFINE f == transferFee[side]
<1>1. f \in TransferFee /\ (f.bps = 0 \/ f.maximum = 0)
  BY TransferFeeTyped DEF Untaxed
<1> HIDE DEF f
<1>2. Withheld(f, n) \in Nat /\ Withheld(f, n) <= f.maximum
  BY <1>1, WithheldFacts
<1>3. CASE f.maximum = 0
  BY <1>2, <1>3 DEF Arriving, f
<1>4. CASE f.bps = 0
  <2>1. CeilDiv(n * 0, OneInBasisPoints) = 0
    BY DEF CeilDiv, OneInBasisPoints
  <2>2. f.maximum \in Nat
    BY <1>1 DEF TransferFee
  <2>3. Withheld(f, n) = 0
    BY <1>4, <2>1, <2>2 DEF Withheld, MinOf
  <2> QED BY <2>3 DEF Arriving, f
<1> QED BY <1>1, <1>3, <1>4

\* The source vault of a swap gets at least what the curve took.
LEMMA SettleSwapVaults ==
  ASSUME TypeOK, NEW user \in Keys, NEW side \in Sides, NEW q, q.source \in Nat,
         SettleSwap(user, side, q)
  PROVE  \E got \in Nat :
           /\ q.source <= got
           /\ vault' = [vault EXCEPT ![side] = @ + got, ![Other(side)] = @ - q.dest]
<1> DEFINE got == Arriving(side, Sent(side, q.source))
<1>1. got \in Nat /\ q.source <= got
  BY SentFacts, ArrivingFacts
<1>2. vault' = [vault EXCEPT ![side] = @ + got, ![Other(side)] = @ - q.dest]
  BY DEF SettleSwap
<1> HIDE DEF got
<1> QED BY <1>1, <1>2

-----------------------------------------------------------------------------
(* Every action preserves IInv.                                            *)

LEMMA SettleSwapInv ==
  ASSUME IInv, NEW user \in Keys, NEW side \in Sides, NEW q,
         q.source \in Nat, q.ownerFee \in Nat, q.ownerFee <= q.source,
         q.dest \in Nat, q.dest <= LpOwned(Other(side)),
         SettleSwap(user, side, q)
  PROVE  IInv'
<1> USE DEF IInv, TypeOK, FeesBacked, Sides, Other, LpOwned
<1>1. PICK got \in Nat :
        /\ q.source <= got
        /\ vault' = [vault EXCEPT ![side] = @ + got, ![Other(side)] = @ - q.dest]
  BY SettleSwapVaults
<1>2. protocolFees' = [protocolFees EXCEPT ![side] = @ + q.ownerFee]
  BY DEF SettleSwap
<1>3. vault' \in [Sides -> Nat] /\ protocolFees' \in [Sides -> Nat]
  BY <1>1, <1>2
<1>4. \A s \in Sides : protocolFees'[s] <= vault'[s]
  BY <1>1, <1>2
<1>5. wallet' \in [Keys -> [Sides -> Nat]]
  <2> DEFINE sent == Sent(side, q.source)
             received == Arriving(Other(side), q.dest)
  <2>1. sent \in Nat /\ received \in Nat
    BY SentFacts, ArrivingFacts
  <2>2. /\ wallet[user][side] >= sent
        /\ wallet' = [wallet EXCEPT ![user][side] = @ - sent,
                                     ![user][Other(side)] = @ + received]
    BY DEF SettleSwap, Funded, OneSide
  <2> HIDE DEF sent, received
  <2>3. wallet[user][side] - sent \in Nat /\ wallet[user][Other(side)] + received \in Nat
    BY <2>1, <2>2
  <2> QED BY <2>2, <2>3
<1>6. ConfigTypeOK'
  BY DEF SettleSwap, ConfigTypeOK
<1> QED BY <1>3, <1>4, <1>5, <1>6 DEF SettleSwap

LEMMA LpTokensTyped ==
  ASSUME TypeOK, NEW user \in Keys, NEW n \in Nat, MintLp(user, n) \/ BurnLp(user, n)
  PROVE  supply' \in 0 .. U64Max /\ lp' \in [Keys -> Nat]
BY PoolAssumption DEF TypeOK, MintLp, BurnLp

LEMMA AmountsAreNat ==
  /\ Amounts \subseteq Nat /\ LpAmounts \subseteq Nat /\ InitialSupply \in Nat
  /\ U64Max \in Nat
BY PoolAssumption

LEMMA NextInv ==
  ASSUME IInv, [Next]_vars
  PROVE  IInv'
<1> USE DEF IInv
<1>1. CASE UNCHANGED vars
  BY <1>1 DEF vars, poolVars, TypeOK, FeesBacked, ConfigTypeOK
<1>2. CASE ConfigInstruction
  <2>1. ConfigTypeOK'
    BY <1>2, ConfigStepTyped DEF ConfigInstruction, TypeOK
  <2> QED BY <1>2, <2>1 DEF ConfigInstruction, poolVars, TypeOK, FeesBacked
<1>3. CASE NewEpoch
  BY <1>3 DEF NewEpoch, TypeOK, FeesBacked, ConfigTypeOK
<1>4. CASE CollectProtocolFees
  <2>1. config.treasury \in Keys
    BY <1>4 DEF CollectProtocolFees, ConfigLoads, TypeOK, ConfigTypeOK, NoConfig, ProtocolConfig
  <2>2. vault' \in [Sides -> Nat] /\ protocolFees' \in [Sides -> Nat]
    BY <1>4 DEF CollectProtocolFees, Debited, TypeOK, FeesBacked
  <2>3. wallet' \in [Keys -> [Sides -> Nat]]
    <3>1. Arrived(protocolFees) \in [Sides -> Nat]
      BY ArrivedFacts DEF TypeOK
    <3> QED BY <1>4, <2>1, <3>1 DEF CollectProtocolFees, Credited, TypeOK
  <2>4. FeesBacked'
    BY <1>4, <2>2 DEF CollectProtocolFees, FeesBacked, Debited, TypeOK
  <2> QED BY <1>4, <2>2, <2>3, <2>4 DEF CollectProtocolFees, TypeOK, ConfigTypeOK
<1>5. ASSUME NEW user \in Keys, NEW side \in Sides, NEW n \in Amounts,
             Donate(user, side, n)
      PROVE  IInv'
  <2>1. n \in Nat /\ wallet[user][side] >= n
    BY <1>5, AmountsAreNat DEF Donate, Funded, OneSide
  <2> DEFINE got == Arriving(side, n)
  <2>2. got \in Nat /\ vault' = [vault EXCEPT ![side] = @ + got]
    BY <1>5, <2>1, ArrivingFacts DEF Donate
  <2> HIDE DEF got
  <2>3. vault' \in [Sides -> Nat] /\ wallet' \in [Keys -> [Sides -> Nat]]
    BY <1>5, <2>1, <2>2 DEF Donate, TypeOK
  <2>4. FeesBacked'
    BY <1>5, <2>2 DEF Donate, TypeOK, FeesBacked
  <2> QED BY <1>5, <2>3, <2>4 DEF Donate, TypeOK, ConfigTypeOK
<1>6. ASSUME NEW user \in Keys, NEW n \in LpAmounts, DirectBurn(user, n)
      PROVE  IInv'
  <2>1. supply' \in 0 .. U64Max /\ lp' \in [Keys -> Nat]
    BY <1>6, LpTokensTyped, AmountsAreNat DEF DirectBurn
  <2> QED BY <1>6, <2>1 DEF DirectBurn, TypeOK, FeesBacked, ConfigTypeOK
<1>7. ASSUME NEW user \in Keys, NEW fees \in FeeInputs, NEW bps,
             CreatePool(user, fees, bps)
      PROVE  IInv'
  <2>1. supply' \in 0 .. U64Max /\ lp' \in [Keys -> Nat]
    BY <1>7, LpTokensTyped, AmountsAreNat DEF CreatePool
  <2>2. protocolFees' \in [Sides -> Nat] /\ FeesBacked'
    BY <1>7 DEF CreatePool, TypeOK, FeesBacked
  <2> QED BY <1>7, <2>1, <2>2 DEF CreatePool, TypeOK, ConfigTypeOK
<1>8. ASSUME NEW user \in Keys, NEW side \in Sides, NEW n \in Amounts, NEW limit \in Limits,
             SwapExactIn(user, side, n, limit)
      PROVE  IInv'
  <2>1. PICK q \in Swap(Arriving(side, n), LpOwned(side), LpOwned(Other(side)),
                      pool.fees) :
          SettleSwap(user, side, q)
    BY <1>8 DEF SwapExactIn
  <2>2. PoolLoads /\ Arriving(side, n) \in Nat
    BY <1>8, AmountsAreNat, ArrivingFacts DEF SwapExactIn
  <2>3. /\ q.source \in Nat /\ q.ownerFee \in Nat /\ q.ownerFee <= q.source
        /\ q.dest \in Nat /\ q.dest <= LpOwned(Other(side))
    BY <2>2, ReserveFacts, PoolFacts, SwapFacts
  <2> QED BY <2>1, <2>3, SettleSwapInv
<1>9. ASSUME NEW user \in Keys, NEW side \in Sides, NEW n \in Amounts, NEW limit \in Limits,
             SwapExactOut(user, side, n, limit)
      PROVE  IInv'
  <2>1. PICK q \in SwapForExactOut(n, LpOwned(side), LpOwned(Other(side)), pool.fees) :
          SettleSwap(user, side, q)
    BY <1>9 DEF SwapExactOut
  <2>2. PoolLoads /\ n \in Nat
    BY <1>9, AmountsAreNat DEF SwapExactOut
  <2>3. /\ q.source \in Nat /\ q.ownerFee \in Nat /\ q.ownerFee <= q.source
        /\ q.dest \in Nat /\ q.dest <= LpOwned(Other(side))
    BY <2>2, ReserveFacts, PoolFacts, SwapForExactOutFacts
  <2> QED BY <2>1, <2>3, SettleSwapInv
<1>10. ASSUME NEW user \in Keys, NEW n \in LpAmounts, NEW limit \in Limits,
             DepositAllTokenTypes(user, n, limit)
      PROVE  IInv'
  <2> DEFINE minted == IF supply > 0 THEN n ELSE InitialSupply
             base == IF supply > 0 THEN supply ELSE InitialSupply
  <2>1. minted \in Nat /\ base \in Nat
    BY AmountsAreNat DEF TypeOK
  <2>2. PICK pay \in PoolTokensToTradingTokens(minted, base, LpReserves, TRUE) :
          /\ Funded(user, pay)
          /\ vault' = Credited(vault, Arrived(pay))
          /\ wallet' = [wallet EXCEPT ![user] = Debited(@, pay)]
    BY <1>10 DEF DepositAllTokenTypes
  <2>3. pay \in [Sides -> Nat]
    <3>1. "A" \in Sides
      BY DEF Sides
    <3> QED BY <2>1, <3>1, ReserveFacts, PoolTokensFacts
  <2>4. Arrived(pay) \in [Sides -> Nat]
    BY <2>3, ArrivedFacts
  <2>5. supply' \in 0 .. U64Max /\ lp' \in [Keys -> Nat]
    BY <1>10, <2>1, LpTokensTyped DEF DepositAllTokenTypes
  <2>6. vault' \in [Sides -> Nat] /\ wallet' \in [Keys -> [Sides -> Nat]]
    <3>1. Debited(wallet[user], pay) \in [Sides -> Nat]
      BY <2>2, <2>3 DEF TypeOK, Funded, Debited
    <3> QED BY <2>2, <2>4, <3>1 DEF TypeOK, Credited
  <2>7. FeesBacked'
    BY <1>10, <2>2, <2>4 DEF DepositAllTokenTypes, FeesBacked, TypeOK, Credited
  <2> QED BY <1>10, <2>5, <2>6, <2>7 DEF DepositAllTokenTypes, TypeOK, ConfigTypeOK
<1>11. ASSUME NEW user \in Keys, NEW n \in LpAmounts, NEW limit \in Limits,
              WithdrawAllTokenTypes(user, n, limit)
       PROVE  IInv'
  <2>1. PICK pay \in WithdrawAllPays(n) :
          /\ vault' = Debited(vault, pay)
          /\ wallet' = [wallet EXCEPT ![user] = Credited(@, Arrived(pay))]
    BY <1>11 DEF WithdrawAllTokenTypes
  <2>2. PICK share \in PoolTokensToTradingTokens(n, supply, LpReserves, FALSE) :
          pay = [side \in Sides |-> MinOf(LpOwned(side), share[side])]
    BY <2>1 DEF WithdrawAllPays
  <2>3. share \in [Sides -> Nat]
    <3>1. "A" \in Sides /\ n \in Nat /\ supply \in Nat
      BY AmountsAreNat DEF Sides, TypeOK
    <3> QED BY <3>1, ReserveFacts, PoolTokensFacts
  <2>4. pay \in [Sides -> Nat] /\ \A side \in Sides : pay[side] <= LpOwned(side)
    BY <2>2, <2>3, ReserveFacts DEF MinOf
  <2>5. supply' \in 0 .. U64Max /\ lp' \in [Keys -> Nat]
    BY <1>11, AmountsAreNat, LpTokensTyped DEF WithdrawAllTokenTypes
  <2>6. vault' \in [Sides -> Nat] /\ wallet' \in [Keys -> [Sides -> Nat]]
    <3>1. Arrived(pay) \in [Sides -> Nat]
      BY <2>4, ArrivedFacts
    <3> QED BY <2>1, <2>4, <3>1 DEF TypeOK, FeesBacked, LpOwned, Credited, Debited
  <2>7. FeesBacked'
    BY <1>11, <2>1, <2>4 DEF WithdrawAllTokenTypes, FeesBacked, TypeOK, Debited, LpOwned
  <2> QED BY <1>11, <2>5, <2>6, <2>7 DEF WithdrawAllTokenTypes, TypeOK, ConfigTypeOK
<1>12. ASSUME NEW user \in Keys, NEW side \in Sides, NEW n \in Amounts, NEW limit \in Limits,
              DepositSingleTokenTypeExactAmountIn(user, side, n, limit)
       PROVE  IInv'
  <2> USE <1>12 DEF DepositSingleTokenTypeExactAmountIn
  <2>1. n \in Nat /\ wallet[user][side] >= n
    BY AmountsAreNat DEF Funded, OneSide
  <2>2. Arriving(side, n) \in Nat
    BY <2>1, ArrivingFacts
  <2>3. supply' \in 0 .. U64Max /\ lp' \in [Keys -> Nat]
    BY LpTokensTyped, AmountsAreNat DEF FitsU64
  <2>4. vault' \in [Sides -> Nat] /\ wallet' \in [Keys -> [Sides -> Nat]]
    BY <2>1, <2>2 DEF TypeOK
  <2>5. FeesBacked'
    BY <2>1, <2>2 DEF TypeOK, FeesBacked
  <2> QED BY <2>3, <2>4, <2>5 DEF TypeOK, ConfigTypeOK
<1>13. ASSUME NEW user \in Keys, NEW side \in Sides, NEW n \in Amounts, NEW limit \in Limits,
              WithdrawSingleTokenTypeExactAmountOut(user, side, n, limit)
       PROVE  IInv'
  <2> USE <1>13 DEF WithdrawSingleTokenTypeExactAmountOut
  <2>1. n \in Nat /\ n <= vault[side] - protocolFees[side]
    BY AmountsAreNat DEF WithinLpReserve, LpOwned
  <2>2. Arriving(side, n) \in Nat
    BY <2>1, ArrivingFacts
  <2>3. supply' \in 0 .. U64Max /\ lp' \in [Keys -> Nat]
    BY LpTokensTyped, AmountsAreNat DEF FitsU64
  <2>4. vault' \in [Sides -> Nat] /\ wallet' \in [Keys -> [Sides -> Nat]]
    BY <2>1, <2>2 DEF TypeOK
  <2>5. FeesBacked'
    BY <2>1 DEF TypeOK, FeesBacked
  <2> QED BY <2>3, <2>4, <2>5 DEF TypeOK, ConfigTypeOK
<1> QED BY <1>1, <1>2, <1>3, <1>4, <1>5, <1>6, <1>7, <1>8, <1>9, <1>10, <1>11, <1>12, <1>13
        DEF Next

LEMMA InitInv == Init => IInv
BY PoolAssumption
   DEF Init, IInv, TypeOK, FeesBacked, ConfigInit, ConfigTypeOK

THEOREM IInvAlways == Spec => []IInv
BY InitInv, NextInv, PTL DEF Spec

\* Types hold for every instance, the LP supply stays within a u64 and the
\* schedule of a live pool is a valid one of those that were offered.
THEOREM TypeCorrect == Spec => []TypeOK
<1>1. IInv => TypeOK
  BY DEF IInv
<1> QED BY <1>1, IInvAlways, PTL

\* Protocol fees are always backed by the vaults.
THEOREM FeesBackedTheorem == Spec => []FeesBacked
<1>1. IInv => FeesBacked
  BY DEF IInv
<1> QED BY <1>1, IInvAlways, PTL

\* The holder of the whole supply can always take both reserves out: the
\* pro-rata share of everything is everything, and no zero guard is in the way.
THEOREM SoleLpCanExitTheorem == Spec => []SoleLpCanExit
<1>1. ASSUME IInv, supply > 0
      PROVE  LpReserves \in WithdrawAllPays(supply)
  <2> DEFINE share == [side \in Sides |-> (supply * LpReserves[side]) \div supply]
  <2>1. supply \in Nat /\ LpReserves \in [Sides -> Nat]
    BY <1>1, ReserveFacts, AmountsAreNat DEF IInv, TypeOK
  <2>2. share \in PoolTokensToTradingTokens(supply, supply, LpReserves, FALSE)
    BY <1>1, <2>1 DEF PoolTokensToTradingTokens, Some
  <2>3. ASSUME NEW side \in Sides
        PROVE  share[side] = LpReserves[side]
    <3>1. ASSUME NEW r \in Nat PROVE (supply * r) \div supply = r
      <4>1. supply * r \in Nat
        BY <2>1
      <4>2. /\ (supply * r) \div supply \in Nat
            /\ supply * ((supply * r) \div supply) <= supply * r
            /\ supply * r < supply * ((supply * r) \div supply) + supply
        BY <1>1, <2>1, <4>1, DivFacts
      <4> DEFINE d == (supply * r) \div supply
      <4>3. d \in Nat /\ supply * d <= supply * r /\ supply * r < supply * (d + 1)
        BY <2>1, <4>2
      <4> HIDE DEF d
      <4>4. d <= r /\ r < d + 1
        BY <1>1, <2>1, <4>3, Z3
      <4> QED BY <4>3, <4>4 DEF d
    <3> QED BY <2>1, <3>1
  <2>4. LpReserves = [side \in Sides |-> MinOf(LpOwned(side), share[side])]
    BY <1>1, <2>1, <2>3, ReserveFacts DEF MinOf, LpReserves
  <2>5. \A side \in Sides : LpReserves[side] # 0 \/ LpOwned(side) = 0
    BY <1>1, ReserveFacts
  <2> HIDE DEF share
  <2> QED BY <2>2, <2>4, <2>5 DEF WithdrawAllPays
<1>2. IInv => SoleLpCanExit
  BY <1>1 DEF SoleLpCanExit
<1> QED BY <1>2, IInvAlways, PTL

-----------------------------------------------------------------------------
(* No instruction dilutes the LPs.  a, b are the reserves before and c, d  *)
(* after; s and t the supply before and after.                             *)

LEMMA DilutionByRatio ==
  ASSUME NEW a \in Nat, NEW b \in Nat, NEW c \in Nat, NEW d \in Nat,
         NEW s \in Nat, NEW t \in Nat, t * a <= s * c, t * b <= s * d
  PROVE  (a * b) * t * t <= (c * d) * s * s
<1>1. (t * a) * (t * b) <= (s * c) * (t * b)
  BY MulMono
<1>2. (t * b) * (s * c) <= (s * d) * (s * c)
  BY MulMono
<1> DEFINE x == (t * a) * (t * b)
           y == (s * c) * (t * b)
           z == (s * d) * (s * c)
<1>3. x \in Int /\ y \in Int /\ z \in Int
  OBVIOUS
<1>4. x <= y /\ y <= z
  BY <1>1, <1>2
<1>5. x = (a * b) * t * t /\ z = (c * d) * s * s
  BY Z3
<1> HIDE DEF x, y, z
<1>6. x <= z
  BY <1>3, <1>4
<1> QED BY <1>5, <1>6

LEMMA DilutionBySquare ==
  ASSUME NEW a \in Nat, NEW b \in Nat, NEW c \in Nat,
         NEW s \in Nat, NEW t \in Nat, t * t * a <= s * s * c
  PROVE  (a * b) * t * t <= (c * b) * s * s
<1>1. (t * t * a) * b <= (s * s * c) * b
  BY MulMono
<1>2. (t * t * a) * b = (a * b) * t * t /\ (s * s * c) * b = (c * b) * s * s
  BY Z3
<1> QED BY <1>1, <1>2

LEMMA DilutionByProduct ==
  ASSUME NEW a \in Nat, NEW b \in Nat, NEW c \in Nat, NEW d \in Nat, NEW s \in Nat,
         a * b <= c * d
  PROVE  (a * b) * s * s <= (c * d) * s * s
<1>1. (a * b) * (s * s) <= (c * d) * (s * s)
  BY MulMono
<1> QED BY <1>1

LEMMA ValueFacts ==
  ASSUME IInv, IInv', NEW side \in Sides
  PROVE  /\ Other(side) \in Sides /\ Other(side) # side
         /\ LpOwned(side) \in Nat /\ LpOwned(Other(side)) \in Nat
         /\ LpOwned(side)' \in Nat /\ LpOwned(Other(side))' \in Nat
         /\ supply \in Nat /\ supply' \in Nat
         /\ LpValue = LpOwned(side) * LpOwned(Other(side))
         /\ LpValue' = LpOwned(side)' * LpOwned(Other(side))'
BY PoolAssumption DEF IInv, TypeOK, FeesBacked, LpValue, LpOwned, Sides, Other

Undiluted ==
  supply > 0 /\ supply' > 0 =>
    LpValue' * supply * supply >= LpValue * supply' * supply'

\* A step that leaves the LP-owned reserves alone.
LEMMA UndilutedSameReserves ==
  ASSUME IInv, IInv', supply' <= supply, \A side \in Sides : LpOwned(side)' = LpOwned(side)
  PROVE  Undiluted
<1>1. "A" \in Sides /\ Other("A") = "B" /\ "B" \in Sides
  BY DEF Sides, Other
<1> DEFINE a == LpOwned("A")
           b == LpOwned("B")
<1>2. /\ a \in Nat /\ b \in Nat /\ supply \in Nat /\ supply' \in Nat
      /\ LpValue = a * b /\ LpValue' = a * b
  BY <1>1, ValueFacts
<1> HIDE DEF a, b
<1>3. supply' * a <= supply * a /\ supply' * b <= supply * b
  BY <1>2, MulMono
<1>4. (a * b) * supply' * supply' <= (a * b) * supply * supply
  BY <1>2, <1>3, DilutionByRatio
<1> QED BY <1>2, <1>4 DEF Undiluted

LEMMA UndilutedSwap ==
  ASSUME IInv, IInv', NEW user \in Keys, NEW side \in Sides, NEW q,
         q.source \in Nat, q.ownerFee \in Nat, q.dest \in Nat,
         LpOwned(side) * LpOwned(Other(side))
           <= (LpOwned(side) + (q.source - q.ownerFee)) * (LpOwned(Other(side)) - q.dest),
         SettleSwap(user, side, q)
  PROVE  Undiluted
<1>1. PICK got \in Nat :
        /\ q.source <= got
        /\ vault' = [vault EXCEPT ![side] = @ + got, ![Other(side)] = @ - q.dest]
  BY SettleSwapVaults DEF IInv
<1>2. supply' = supply /\ protocolFees' = [protocolFees EXCEPT ![side] = @ + q.ownerFee]
  BY DEF SettleSwap
<1>3. /\ LpOwned(side)' = LpOwned(side) + (got - q.ownerFee)
      /\ LpOwned(Other(side))' = LpOwned(Other(side)) - q.dest
  BY <1>1, <1>2, ValueFacts DEF LpOwned, IInv, TypeOK
<1> DEFINE a == LpOwned(side)
           b == LpOwned(Other(side))
           c == LpOwned(side)'
           d == LpOwned(Other(side))'
<1>4. /\ a \in Nat /\ b \in Nat /\ c \in Nat /\ d \in Nat /\ supply \in Nat
      /\ LpValue = a * b /\ LpValue' = c * d
  BY ValueFacts
<1>5. a * b <= c * d
  <2> DEFINE e == a + (q.source - q.ownerFee)
  <2>1. a * b <= e * d
    BY <1>3
  <2>2. e \in Int /\ e <= c
    BY <1>1, <1>3, <1>4
  <2> HIDE DEF a, b, c, d, e
  <2>3. e * d <= c * d
    BY <1>4, <2>2, Z3
  <2> QED BY <1>4, <2>1, <2>2, <2>3
<1> HIDE DEF a, b, c, d
<1>6. (a * b) * supply * supply <= (c * d) * supply * supply
  BY <1>4, <1>5, DilutionByProduct
<1> QED BY <1>2, <1>4, <1>6 DEF Undiluted

\* A one-sided step that moves `side` from a to c and leaves the other side.
LEMMA UndilutedOneSide ==
  ASSUME IInv, IInv', NEW side \in Sides,
         LpOwned(Other(side))' = LpOwned(Other(side)),
         supply' * supply' * LpOwned(side) <= supply * supply * LpOwned(side)'
  PROVE  Undiluted
<1> DEFINE a == LpOwned(side)
           b == LpOwned(Other(side))
           c == LpOwned(side)'
<1>1. /\ a \in Nat /\ b \in Nat /\ c \in Nat /\ supply \in Nat /\ supply' \in Nat
      /\ LpValue = a * b /\ LpValue' = c * b
  BY ValueFacts
<1>2. supply' * supply' * a <= supply * supply * c
  OBVIOUS
<1> HIDE DEF a, b, c
<1>3. (a * b) * supply' * supply' <= (c * b) * supply * supply
  BY <1>1, <1>2, DilutionBySquare
<1> QED BY <1>1, <1>3 DEF Undiluted

\* A step that moves both sides and the supply in proportion, rounded in
\* favour of the pool.
LEMMA UndilutedBothSides ==
  ASSUME IInv, IInv',
         \A side \in Sides : supply' * LpOwned(side) <= supply * LpOwned(side)'
  PROVE  Undiluted
<1>1. "A" \in Sides /\ Other("A") = "B" /\ "B" \in Sides
  BY DEF Sides, Other
<1> DEFINE a == LpOwned("A")
           b == LpOwned("B")
           c == LpOwned("A")'
           d == LpOwned("B")'
<1>2. /\ a \in Nat /\ b \in Nat /\ c \in Nat /\ d \in Nat
      /\ supply \in Nat /\ supply' \in Nat
      /\ LpValue = a * b /\ LpValue' = c * d
  BY <1>1, ValueFacts
<1>3. supply' * a <= supply * c /\ supply' * b <= supply * d
  BY <1>1
<1> HIDE DEF a, b, c, d
<1>4. (a * b) * supply' * supply' <= (c * d) * supply * supply
  BY <1>2, <1>3, DilutionByRatio
<1> QED BY <1>2, <1>4 DEF Undiluted

\* No schedule that can be created takes everything.  Without it the theorem
\* below is false: run pool_whole_fee.
NoWholeFee == \A f \in FeeInputs : ~WholeFee(f)

LEMMA NextUndiluted ==
  ASSUME NoWholeFee, IInv, IInv', [Next]_vars, supply > 0, supply' > 0,
         supply' > supply => Untaxed
  PROVE  Undiluted
<1> supply \in Nat /\ supply' \in Nat
  BY AmountsAreNat DEF IInv, TypeOK
<1>1. CASE UNCHANGED vars \/ ConfigInstruction \/ NewEpoch
  <2>1. supply' = supply /\ \A side \in Sides : LpOwned(side)' = LpOwned(side)
    BY <1>1 DEF vars, poolVars, ConfigInstruction, NewEpoch, LpOwned
  <2> QED BY <2>1, UndilutedSameReserves
<1>2. CASE CollectProtocolFees
  <2>1. supply' = supply /\ \A side \in Sides : LpOwned(side)' = LpOwned(side)
    BY <1>2 DEF CollectProtocolFees, LpOwned, Debited, IInv, TypeOK
  <2> QED BY <2>1, UndilutedSameReserves
<1>3. ASSUME NEW user \in Keys, NEW side \in Sides, NEW n \in Amounts,
             Donate(user, side, n)
      PROVE  Undiluted
  <2>1. \A s \in Sides : LpOwned(s) \in Nat /\ LpOwned(s)' \in Nat
    BY ValueFacts
  <2> DEFINE got == Arriving(side, n)
  <2>2. got \in Nat /\ vault' = [vault EXCEPT ![side] = @ + got]
    BY <1>3, AmountsAreNat, ArrivingFacts DEF Donate, IInv
  <2> HIDE DEF got
  <2>3. supply' = supply /\ \A s \in Sides : LpOwned(s) <= LpOwned(s)'
    BY <1>3, <2>2 DEF Donate, LpOwned, IInv, TypeOK
  <2>4. \A s \in Sides : supply' * LpOwned(s) <= supply * LpOwned(s)'
    <3> SUFFICES ASSUME NEW s \in Sides
                 PROVE  LpOwned(s) * supply <= LpOwned(s)' * supply
      BY <2>1, <2>3
    <3> QED BY <2>1, <2>3, MulMono
  <2> QED BY <2>4, UndilutedBothSides
<1>4. ASSUME NEW user \in Keys, NEW n \in LpAmounts, DirectBurn(user, n)
      PROVE  Undiluted
  <2>1. supply' <= supply /\ \A side \in Sides : LpOwned(side)' = LpOwned(side)
    BY <1>4, AmountsAreNat DEF DirectBurn, BurnLp, LpOwned
  <2> QED BY <2>1, UndilutedSameReserves
<1>5. ASSUME NEW user \in Keys, NEW fees, NEW bps, CreatePool(user, fees, bps)
      PROVE  Undiluted
  BY <1>5 DEF CreatePool                     \* supply = 0 before
<1>6. ASSUME NEW user \in Keys, NEW side \in Sides, NEW n \in Amounts, NEW limit \in Limits,
             SwapExactIn(user, side, n, limit)
      PROVE  Undiluted
  <2>1. PICK q \in Swap(Arriving(side, n), LpOwned(side), LpOwned(Other(side)),
                      pool.fees) :
          SettleSwap(user, side, q)
    BY <1>6 DEF SwapExactIn
  <2>2. PoolLoads /\ Arriving(side, n) \in Nat
    BY <1>6, AmountsAreNat, ArrivingFacts DEF SwapExactIn, IInv
  <2>3. /\ q.source \in Nat /\ q.ownerFee \in Nat /\ q.dest \in Nat
        /\ LpOwned(side) * LpOwned(Other(side))
             <= (LpOwned(side) + (q.source - q.ownerFee)) * (LpOwned(Other(side)) - q.dest)
    BY <2>2, ReserveFacts, PoolFacts, SwapFacts DEF IInv
  <2> QED BY <2>1, <2>3, UndilutedSwap
<1>7. ASSUME NEW user \in Keys, NEW side \in Sides, NEW n \in Amounts, NEW limit \in Limits,
             SwapExactOut(user, side, n, limit)
      PROVE  Undiluted
  <2>1. PICK q \in SwapForExactOut(n, LpOwned(side), LpOwned(Other(side)), pool.fees) :
          SettleSwap(user, side, q)
    BY <1>7 DEF SwapExactOut
  <2>2. PoolLoads /\ n \in Nat
    BY <1>7, AmountsAreNat DEF SwapExactOut
  <2>3. ~WholeFee(pool.fees)
    BY <2>2, PoolFacts DEF NoWholeFee, IInv
  <2>4. /\ q.source \in Nat /\ q.ownerFee \in Nat /\ q.dest \in Nat
        /\ LpOwned(side) * LpOwned(Other(side))
             <= (LpOwned(side) + (q.source - q.ownerFee)) * (LpOwned(Other(side)) - q.dest)
    BY <2>2, <2>3, ReserveFacts, PoolFacts, SwapForExactOutFacts DEF IInv
  <2> QED BY <2>1, <2>4, UndilutedSwap
<1>8. ASSUME NEW user \in Keys, NEW n \in LpAmounts, NEW limit \in Limits,
             DepositAllTokenTypes(user, n, limit)
      PROVE  Undiluted
  <2>1. PICK pay \in PoolTokensToTradingTokens(n, supply, LpReserves, TRUE) :
          /\ \A side \in Sides : pay[side] # 0
          /\ vault' = Credited(vault, Arrived(pay))
    BY <1>8 DEF DepositAllTokenTypes
  <2>2. supply' = supply + n /\ protocolFees' = protocolFees /\ n \in Nat
    BY <1>8, AmountsAreNat DEF DepositAllTokenTypes, MintLp
  <2>3. Untaxed
    <3>1. n # 0
      <4>1. "A" \in Sides /\ LpReserves \in [Sides -> Nat]
        BY ReserveFacts DEF Sides
      <4> DEFINE floor == (n * LpReserves["A"]) \div supply
      <4>2. pay["A"] # 0
        BY <2>1, <4>1
      <4>3. pay["A"] = IF floor > 0 THEN CeilDiv(n * LpReserves["A"], supply) ELSE floor
        BY <2>1, <4>1 DEF PoolTokensToTradingTokens, Some
      <4>4. 0 * LpReserves["A"] = 0 /\ 0 \div supply = 0
        BY <4>1, DivFacts
      <4> QED BY <4>2, <4>3, <4>4
    <3> QED BY <2>2, <3>1
  <2>4. ASSUME NEW side \in Sides
        PROVE  supply' * LpOwned(side) <= supply * LpOwned(side)'
    <3>1. pay[side] \in Nat /\ n * LpOwned(side) <= supply * pay[side]
      <4>1. LpReserves \in [Sides -> Nat] /\ LpReserves[side] = LpOwned(side)
        BY ReserveFacts
      <4>2. pay \in [Sides -> Nat] /\ n * LpReserves[side] <= supply * pay[side]
        BY <2>1, <2>2, <4>1, PoolTokensFacts
      <4> QED BY <4>1, <4>2
    <3>2. LpOwned(side) \in Nat /\ LpOwned(side)' = LpOwned(side) + pay[side]
      <4>1. /\ vault \in [Sides -> Nat] /\ protocolFees \in [Sides -> Nat]
            /\ vault'[side] = vault[side] + Arriving(side, pay[side])
        BY <2>1 DEF Credited, Arrived, IInv, TypeOK
      <4>2. Arriving(side, pay[side]) = pay[side]
        BY <2>3, <3>1, UntaxedArrives DEF IInv
      <4> QED BY <2>2, <3>1, <4>1, <4>2, ReserveFacts DEF LpOwned
    <3> QED BY <2>2, <3>1, <3>2
  <2> QED BY <2>4, UndilutedBothSides
<1>9. ASSUME NEW user \in Keys, NEW n \in LpAmounts, NEW limit \in Limits,
             WithdrawAllTokenTypes(user, n, limit)
      PROVE  Undiluted
  <2>1. PICK pay \in WithdrawAllPays(n) : vault' = Debited(vault, pay)
    BY <1>9 DEF WithdrawAllTokenTypes
  <2>2. PICK share \in PoolTokensToTradingTokens(n, supply, LpReserves, FALSE) :
          pay = [side \in Sides |-> MinOf(LpOwned(side), share[side])]
    BY <2>1 DEF WithdrawAllPays
  <2>3. supply' = supply - n /\ protocolFees' = protocolFees /\ n \in Nat
    BY <1>9, AmountsAreNat DEF WithdrawAllTokenTypes, BurnLp
  <2>4. ASSUME NEW side \in Sides
        PROVE  supply' * LpOwned(side) <= supply * LpOwned(side)'
    <3>1. share[side] \in Nat /\ supply * share[side] <= n * LpOwned(side)
      <4>1. LpReserves \in [Sides -> Nat] /\ LpReserves[side] = LpOwned(side)
        BY ReserveFacts
      <4>2. share \in [Sides -> Nat] /\ supply * share[side] <= n * LpReserves[side]
        BY <2>2, <2>3, <4>1, PoolTokensFacts
      <4> QED BY <4>1, <4>2
    <3>2. pay[side] \in Nat /\ pay[side] <= share[side]
      BY <2>2, <3>1, ReserveFacts DEF MinOf
    <3>3. LpOwned(side) \in Nat /\ LpOwned(side)' = LpOwned(side) - pay[side]
      <4>1. /\ vault \in [Sides -> Nat] /\ protocolFees \in [Sides -> Nat]
            /\ vault'[side] = vault[side] - pay[side]
        BY <2>1 DEF Debited, IInv, TypeOK
      <4> QED BY <2>3, <3>2, <4>1, ReserveFacts DEF LpOwned
    <3>4. pay[side] * supply <= share[side] * supply
      BY <3>1, <3>2, MulMono
    <3> QED BY <2>3, <3>1, <3>2, <3>3, <3>4
  <2> QED BY <2>4, UndilutedBothSides
<1>10. ASSUME NEW user \in Keys, NEW side \in Sides, NEW n \in Amounts, NEW limit \in Limits,
              DepositSingleTokenTypeExactAmountIn(user, side, n, limit)
       PROVE  Undiluted
  <2>1. PICK m \in DepositSingle(n, LpOwned(side), supply, pool.fees) :
          m # 0 /\ MintLp(user, m)
    BY <1>10 DEF DepositSingleTokenTypeExactAmountIn
  <2>2. PoolLoads /\ n \in Nat
    BY <1>10, AmountsAreNat DEF DepositSingleTokenTypeExactAmountIn
  <2>3. /\ m \in Nat
        /\ (supply + m) * (supply + m) * LpOwned(side)
             <= supply * supply * (LpOwned(side) + n)
    BY <2>1, <2>2, ReserveFacts, PoolFacts, DepositSingleFacts DEF IInv
  <2>4. /\ LpOwned(Other(side))' = LpOwned(Other(side))
        /\ LpOwned(side)' = LpOwned(side) + n
        /\ supply' = supply + m
    <3>1. /\ vault' = [vault EXCEPT ![side] = @ + Arriving(side, n)]
          /\ protocolFees' = protocolFees
      BY <1>10 DEF DepositSingleTokenTypeExactAmountIn
    <3>2. /\ vault \in [Sides -> Nat] /\ protocolFees \in [Sides -> Nat]
          /\ Other(side) \in Sides /\ Other(side) # side
      BY ReserveFacts DEF IInv, TypeOK
    <3>3. supply' = supply + m
      BY <2>1 DEF MintLp
    <3>4. Untaxed
      BY <1>10, <2>1, <2>3, <3>3 DEF DepositSingleTokenTypeExactAmountIn
    <3>5. Arriving(side, n) = n
      BY <2>2, <3>4, UntaxedArrives DEF IInv
    <3> QED BY <2>2, <3>1, <3>2, <3>3, <3>5 DEF LpOwned
  <2> QED BY <2>3, <2>4, UndilutedOneSide
<1>11. ASSUME NEW user \in Keys, NEW side \in Sides, NEW n \in Amounts, NEW limit \in Limits,
              WithdrawSingleTokenTypeExactAmountOut(user, side, n, limit)
       PROVE  Undiluted
  <2>1. PICK m \in WithdrawSingle(n, LpOwned(side), supply, pool.fees) : BurnLp(user, m)
    BY <1>11 DEF WithdrawSingleTokenTypeExactAmountOut
  <2>2. PoolLoads /\ n \in Nat /\ n <= LpOwned(side)
    BY <1>11, AmountsAreNat DEF WithdrawSingleTokenTypeExactAmountOut, WithinLpReserve
  <2>3. ~WholeFee(pool.fees)
    BY <2>2, PoolFacts DEF NoWholeFee, IInv
  <2>4. /\ m \in Nat
        /\ (supply - m) * (supply - m) * LpOwned(side)
             <= supply * supply * (LpOwned(side) - n)
    BY <2>1, <2>2, <2>3, ReserveFacts, PoolFacts, WithdrawSingleFacts DEF IInv
  <2>5. /\ LpOwned(Other(side))' = LpOwned(Other(side))
        /\ LpOwned(side)' = LpOwned(side) - n
        /\ supply' = supply - m
    <3>1. /\ vault' = [vault EXCEPT ![side] = @ - n]
          /\ protocolFees' = protocolFees
      BY <1>11 DEF WithdrawSingleTokenTypeExactAmountOut
    <3>2. /\ vault \in [Sides -> Nat] /\ protocolFees \in [Sides -> Nat]
          /\ Other(side) \in Sides /\ Other(side) # side
      BY ReserveFacts DEF IInv, TypeOK
    <3>3. supply' = supply - m
      BY <2>1 DEF BurnLp
    <3> QED BY <2>2, <3>1, <3>2, <3>3 DEF LpOwned
  <2> QED BY <2>4, <2>5, UndilutedOneSide
<1> QED BY <1>1, <1>2, <1>3, <1>4, <1>5, <1>6, <1>7, <1>8, <1>9, <1>10, <1>11 DEF Next

\* The value of an LP token never falls, whatever the instruction and whatever
\* way its amounts are rounded, as long as no schedule adds up to one; a deposit
\* of a token that is charged for its transfer is the one exception.
THEOREM LpValueTheorem ==
  ASSUME NoWholeFee
  PROVE  Spec => LpValueNeverDiluted
<1> DEFINE Step == supply > 0 /\ supply' > 0 /\ (supply' > supply => Untaxed) =>
                     LpValue' * supply * supply >= LpValue * supply' * supply'
<1>1. ASSUME IInv, IInv', [Next]_vars
      PROVE  [Step]_vars
  BY <1>1, NextUndiluted DEF Undiluted
<1> QED BY <1>1, IInvAlways, PTL DEF Spec, LpValueNeverDiluted
-----------------------------------------------------------------------------
\* An exact-input swap takes no more than the offer, whatever the curve wants of
\* it and whatever the mint charges: what the program has the trader send is the
\* least that brings the curve's amount to the vault, or less.
THEOREM ExactInputIsEnoughTheorem == Spec => ExactInputIsEnough
<1> DEFINE Step == \A user \in Keys, side \in Sides, n \in Amounts :
                     wallet[user][side] - wallet'[user][side] > n =>
                       ~SwapExactIn(user, side, n, 0)
<1>1. ASSUME IInv, NEW user \in Keys, NEW side \in Sides, NEW n \in Amounts,
             SwapExactIn(user, side, n, 0)
      PROVE  ~(wallet[user][side] - wallet'[user][side] > n)
  <2>1. /\ PoolLoads /\ TypeOK /\ n \in Nat
        /\ Arriving(side, n) \in Nat
    BY <1>1, AmountsAreNat, ArrivingFacts DEF SwapExactIn, IInv
  <2>2. PICK q \in Swap(Arriving(side, n), LpOwned(side), LpOwned(Other(side)), pool.fees) :
          SettleSwap(user, side, q)
    BY <1>1 DEF SwapExactIn
  <2>3. q.source \in Nat /\ q.source <= Arriving(side, n)
    BY <1>1, <2>1, ReserveFacts, PoolFacts, SwapFacts
  <2> DEFINE sent == Sent(side, q.source)
             received == Arriving(Other(side), q.dest)
  <2>4. sent \in Nat /\ sent <= n
    BY <2>1, <2>3, SentFacts
  <2>5. wallet' = [wallet EXCEPT ![user][side] = @ - sent,
                                 ![user][Other(side)] = @ + received]
    BY <2>2 DEF SettleSwap
  <2> HIDE DEF sent, received
  <2>6. wallet[user][side] \in Nat /\ wallet'[user][side] = wallet[user][side] - sent
    BY <1>1, <2>1, <2>5, ReserveFacts DEF TypeOK
  <2> QED BY <2>1, <2>4, <2>6
<1>2. ASSUME IInv PROVE [Step]_vars
  BY <1>1, <1>2
<1> QED BY <1>2, IInvAlways, PTL DEF ExactInputIsEnough

-----------------------------------------------------------------------------
(* Only a collection lowers a counter.  The creation of a pool sets the    *)
(* counters to zero as well: they are zero before it.                      *)

NothingAccrued == PoolLoads \/ protocolFees = [side \in Sides |-> 0]

Creation == \E user \in Keys, fees \in FeeInputs, bps \in {FeeBps(f) : f \in FeeInputs} :
              CreatePool(user, fees, bps)
Trading == \E user \in Keys, s \in Sides, n \in Amounts, limit \in Limits :
             SwapExactIn(user, s, n, limit) \/ SwapExactOut(user, s, n, limit)

\* The three kinds of step that touch the pool account.
LEMMA PoolSteps ==
  ASSUME Next
  PROVE  CollectProtocolFees \/ Creation \/ Trading \/ UNCHANGED <<pool, protocolFees>>
<1>1. CASE ConfigInstruction \/ NewEpoch
  BY <1>1 DEF ConfigInstruction, NewEpoch, poolVars
<1>2. ASSUME NEW user \in Keys, NEW side \in Sides, NEW n \in Amounts, Donate(user, side, n)
      PROVE  UNCHANGED <<pool, protocolFees>>
  BY <1>2 DEF Donate
<1>3. ASSUME NEW user \in Keys, NEW n \in LpAmounts, DirectBurn(user, n)
      PROVE  UNCHANGED <<pool, protocolFees>>
  BY <1>3 DEF DirectBurn
<1>4. ASSUME NEW user \in Keys, NEW side \in Sides, NEW n \in Amounts, NEW limit \in Limits,
             \/ DepositSingleTokenTypeExactAmountIn(user, side, n, limit)
             \/ WithdrawSingleTokenTypeExactAmountOut(user, side, n, limit)
      PROVE  UNCHANGED <<pool, protocolFees>>
  BY <1>4 DEF DepositSingleTokenTypeExactAmountIn, WithdrawSingleTokenTypeExactAmountOut
<1>5. ASSUME NEW user \in Keys, NEW n \in LpAmounts, NEW limit \in Limits,
             DepositAllTokenTypes(user, n, limit) \/ WithdrawAllTokenTypes(user, n, limit)
      PROVE  UNCHANGED <<pool, protocolFees>>
  BY <1>5 DEF DepositAllTokenTypes, WithdrawAllTokenTypes
<1>6. ASSUME NEW user \in Keys, NEW side \in Sides, NEW n \in Amounts, NEW limit \in Limits,
             SwapExactIn(user, side, n, limit) \/ SwapExactOut(user, side, n, limit)
      PROVE  Trading
  BY <1>6 DEF Trading
<1>7. ASSUME NEW user \in Keys, NEW fees \in FeeInputs,
             NEW bps \in {FeeBps(f) : f \in FeeInputs}, CreatePool(user, fees, bps)
      PROVE  Creation
  BY <1>7 DEF Creation
<1> QED BY <1>1, <1>2, <1>3, <1>4, <1>5, <1>6, <1>7 DEF Next

LEMMA PoolLoadsAfter ==
  ASSUME NEW fees, pool' = Pool(fees)
  PROVE  PoolLoads'
BY DEF PoolLoads, Pool

LEMMA NothingAccruedKept ==
  ASSUME NothingAccrued, [Next]_vars
  PROVE  NothingAccrued'
<1> USE DEF NothingAccrued
<1>1. CASE UNCHANGED <<pool, protocolFees>>
  BY <1>1 DEF PoolLoads
<1>2. CASE UNCHANGED vars
  BY <1>1, <1>2 DEF vars, poolVars
<1>3. CASE CollectProtocolFees
  BY <1>3 DEF CollectProtocolFees, PoolLoads
<1>4. CASE Creation
  BY <1>4, PoolLoadsAfter DEF Creation, CreatePool
<1>5. CASE Trading
  <2>1. PICK user \in Keys, s \in Sides, n \in Amounts, limit \in Limits :
          SwapExactIn(user, s, n, limit) \/ SwapExactOut(user, s, n, limit)
    BY <1>5 DEF Trading
  <2>2. PoolLoads /\ \E q : SettleSwap(user, s, q)
    BY <2>1 DEF SwapExactIn, SwapExactOut
  <2> QED BY <2>2 DEF SettleSwap, PoolLoads
<1> QED BY <1>1, <1>2, <1>3, <1>4, <1>5, PoolSteps

\* The owner's fee of a swap is only ever added.
LEMMA SettleSwapAccrues ==
  ASSUME TypeOK, NEW user, NEW s \in Sides, NEW q, q.ownerFee \in Nat,
         SettleSwap(user, s, q), NEW side \in Sides
  PROVE  ~(protocolFees'[side] < protocolFees[side])
BY DEF SettleSwap, TypeOK, Sides

LEMMA SwapAccrues ==
  ASSUME IInv, NEW user \in Keys, NEW s \in Sides, NEW n \in Amounts, NEW limit \in Limits,
         SwapExactIn(user, s, n, limit) \/ SwapExactOut(user, s, n, limit),
         NEW side \in Sides
  PROVE  ~(protocolFees'[side] < protocolFees[side])
<1>1. PoolLoads /\ n \in Nat /\ TypeOK
  BY AmountsAreNat DEF SwapExactIn, SwapExactOut, IInv
<1>2. CASE SwapExactIn(user, s, n, limit)
  <2>1. PICK q \in Swap(Arriving(s, n), LpOwned(s), LpOwned(Other(s)), pool.fees) :
          SettleSwap(user, s, q)
    BY <1>2 DEF SwapExactIn
  <2>2. q.ownerFee \in Nat
    BY <1>1, ArrivingFacts, ReserveFacts, PoolFacts, SwapFacts
  <2> QED BY <1>1, <2>1, <2>2, SettleSwapAccrues
<1>3. CASE SwapExactOut(user, s, n, limit)
  <2>1. PICK q \in SwapForExactOut(n, LpOwned(s), LpOwned(Other(s)), pool.fees) :
          SettleSwap(user, s, q)
    BY <1>3 DEF SwapExactOut
  <2>2. q.ownerFee \in Nat
    BY <1>1, ReserveFacts, PoolFacts, SwapForExactOutFacts
  <2> QED BY <1>1, <2>1, <2>2, SettleSwapAccrues
<1> QED BY <1>2, <1>3

\* A collection pays the treasury of the moment and takes as much from the
\* vaults as from the counters.
LEMMA CollectionPaysTreasury ==
  ASSUME IInv, CollectProtocolFees
  PROVE  /\ wallet'[config.treasury] = Credited(wallet[config.treasury], Arrived(protocolFees))
         /\ LpReserves' = LpReserves /\ supply' = supply
<1>1. config.treasury \in Keys
  BY DEF CollectProtocolFees, ConfigLoads, IInv, TypeOK, ConfigTypeOK, NoConfig, ProtocolConfig
<1>2. wallet'[config.treasury] = Credited(wallet[config.treasury], Arrived(protocolFees))
  BY <1>1 DEF CollectProtocolFees, IInv, TypeOK
<1>3. ASSUME NEW side \in Sides
      PROVE  vault'[side] - protocolFees'[side] = vault[side] - protocolFees[side]
  BY <1>3 DEF CollectProtocolFees, Debited, IInv, TypeOK
<1>4. LpReserves' = LpReserves
  BY <1>3 DEF LpReserves, LpOwned
<1> QED BY <1>2, <1>4 DEF CollectProtocolFees

\* Accrued fees leave the counters only to the treasury of the moment, to the
\* unit but for what their mints withhold, for any fees, amounts and users.
THEOREM FeesToTreasuryTheorem == Spec => FeesLeaveOnlyToTreasury
<1> DEFINE Paid ==
             /\ wallet'[config.treasury]
                  = Credited(wallet[config.treasury], Arrived(protocolFees))
             /\ LpReserves' = LpReserves /\ supply' = supply
           Step == \A side \in Sides : protocolFees'[side] < protocolFees[side] => Paid
<1>1. ASSUME IInv, NothingAccrued, [Next]_vars
      PROVE  [Step]_vars
  <2> SUFFICES ASSUME Next, NEW side \in Sides, protocolFees'[side] < protocolFees[side]
               PROVE  Paid
    BY <1>1
  <2> HIDE DEF Paid
  <2>1. protocolFees[side] \in Nat
    BY <1>1 DEF IInv, TypeOK
  <2>2. protocolFees' # protocolFees
    BY <2>1
  <2>3. CASE CollectProtocolFees
    BY <1>1, <2>3, CollectionPaysTreasury DEF Paid
  <2>4. CASE Creation
    BY <1>1, <2>2, <2>4 DEF Creation, NothingAccrued, CreatePool
  <2>5. CASE Trading
    BY <1>1, <2>5, SwapAccrues DEF Trading
  <2> QED BY <2>2, <2>3, <2>4, <2>5, PoolSteps
<1>2. Init => NothingAccrued
  BY DEF Init, NothingAccrued
<1>3. Spec => []NothingAccrued
  BY <1>2, NothingAccruedKept, PTL DEF Spec
<1> QED BY <1>1, <1>3, IInvAlways, PTL DEF Spec, FeesLeaveOnlyToTreasury
=============================================================================
