---------------------------- MODULE OrdersProofs ----------------------------
(***************************************************************************)
(* The safety of orders, for any orders, markets, fees and account list.   *)
(*                                                                         *)
(* Every claim is about one order at a time, and every step touches at     *)
(* most one: Sound says of an order account, its escrow and its history    *)
(* all that the induction needs.  What it adds to the properties is what   *)
(* Place checked (a tranche and a keeper rate within their bounds).        *)
(*                                                                         *)
(* At the end the keeper: what it sends for an order that is still as it   *)
(* was read is what the chain runs.  That needs Sound (the escrow covers   *)
(* the tranche) and the arithmetic of the quote beside that of the swap.   *)
(***************************************************************************)
EXTENDS Keeper, CurveProofs

Sound(o, balance, l) ==
  o.status # "none" =>
    LET r == o.request
        executed == r.total - o.remaining
    IN  /\ r.tranche > 0 /\ r.feeBps <= MaxKeeperFeeBps
        /\ o.status = Open => o.remaining > 0
        /\ balance >= o.remaining
        /\ l.proceeds * r.tranche >= r.minOut * executed
        /\ l.keeper * BpsDenom <= r.feeBps * executed
        /\ l.fills > 0 =>
             /\ o.lastExec < r.expiry
             /\ Genesis + (l.fills - 1) * r.interval <= o.lastExec

IInv == TypeOK /\ \A id \in Ids : Sound(order[id], escrow[id], ledger[id])

LEMMA RequestTypes ==
  ASSUME NEW r \in Requests
  PROVE  /\ r.side \in Side /\ r.total \in Nat /\ r.tranche \in Nat /\ r.minOut \in Nat
         /\ r.interval \in Nat /\ r.expiry \in Nat /\ r.feeBps \in Nat
  BY OrdersAssumption DEF Request

LEMMA OrderTypes ==
  ASSUME TypeOK, NEW id \in Ids, Exists(id)
  PROVE  /\ order[id] \in OpenOrFilled
         /\ order[id].request \in Requests
         /\ order[id].remaining \in Nat /\ order[id].lastExec \in Nat
  BY DEF TypeOK, Exists, NoOrder, OpenOrFilled

-----------------------------------------------------------------------------
\* The keeper's cut is part of the tranche and at most the stated rate of it.
LEMMA KeeperFeeFacts ==
  ASSUME NEW r \in Requests, NEW tranche \in Nat, r.feeBps <= MaxKeeperFeeBps
  PROVE  /\ KeeperFee(r, tranche) \in Nat
         /\ KeeperFee(r, tranche) <= tranche
         /\ KeeperFee(r, tranche) * BpsDenom <= r.feeBps * tranche
<1>1. r.feeBps \in Nat
  BY RequestTypes
<1> DEFINE bps == r.feeBps
           f == (tranche * bps) \div 10000
<1>2. bps \in Nat /\ bps <= 50
  BY <1>1 DEF MaxKeeperFeeBps
<1>3. KeeperFee(r, tranche) = f
  BY DEF KeeperFee, BpsDenom
<1> HIDE DEF bps
<1>4. tranche * bps \in Nat
  BY <1>2
<1>5. f \in Nat /\ 10000 * f <= tranche * bps
  BY <1>4, DivFacts
<1>6. bps * tranche <= 50 * tranche
  BY <1>2, MulMono
<1> HIDE DEF f
<1>7. f <= tranche /\ f * 10000 <= bps * tranche
  BY <1>2, <1>5, <1>6
<1> QED BY <1>3, <1>5, <1>7 DEF bps, BpsDenom

\* The floor of a partial tranche keeps the owner's price.
LEMMA FloorFacts ==
  ASSUME NEW r \in Requests, r.tranche > 0, NEW used \in Nat, used <= r.tranche,
         NEW dest \in Nat, dest >= EffectiveMinOut(r, used)
  PROVE  dest * r.tranche >= r.minOut * used
<1>1. r.tranche \in Nat /\ r.minOut \in Nat
  BY RequestTypes
<1> DEFINE t == r.tranche
           m == r.minOut
           c == CeilDiv(m * used, t)
<1>2. CASE used = t
  <2>1. m <= dest
    BY <1>2 DEF EffectiveMinOut
  <2> QED BY <1>1, <1>2, <2>1, MulMono
<1>3. CASE used < t
  <2>1. c <= dest
    BY <1>1, <1>3 DEF EffectiveMinOut
  <2>2. m * used \in Nat
    BY <1>1
  <2>3. c \in Nat /\ m * used <= t * c
    BY <1>1, <2>2, CeilDivFacts
  <2> HIDE DEF c, m, t
  <2>4. t \in Nat /\ c * t <= dest * t
    BY <1>1, <2>1, <2>3, MulMono DEF t
  <2>5. m * used <= dest * t
    BY <1>1, <2>2, <2>3, <2>4 DEF m
  <2> QED BY <2>5 DEF m, t
<1> QED BY <1>1, <1>2, <1>3

\* What an accepted Execute does to the order, its escrow and the pool.
LEMMA FillFacts ==
  ASSUME TypeOK, NEW id \in Ids, Sound(order[id], escrow[id], ledger[id]),
         NEW payee, NEW q \in Fills(id, payee)
  PROVE  LET r == order[id].request
             tranche == NextTranche(id)
             fee == KeeperFee(r, tranche)
         IN  /\ IsOpen(id) /\ Exists(id) /\ ~IsExpired(id) /\ DcaReady(id)
             /\ r \in Requests /\ r.side \in Side
             /\ tranche \in Nat /\ tranche <= r.tranche /\ tranche <= order[id].remaining
             /\ tranche > 0
             /\ FeePaid(id, payee) \in Nat /\ FeePaid(id, payee) <= fee
             /\ fee \in Nat /\ fee * BpsDenom <= r.feeBps * tranche
             /\ q.source \in Nat /\ q.ownerFee \in Nat /\ q.ownerFee <= q.source
             /\ FeePaid(id, payee) + q.source <= tranche
             /\ q.dest \in Nat /\ q.dest <= pool.lp[OtherSide(r.side)]
             /\ q.dest * r.tranche >= r.minOut * tranche
             /\ escrow[id] - FeePaid(id, payee) - q.source \in Nat
<1> DEFINE r == order[id].request
           tranche == NextTranche(id)
           fee == KeeperFee(r, tranche)
<1>1. /\ IsOpen(id) /\ ~IsExpired(id) /\ DcaReady(id)
      /\ q \in FillQuotes(id) /\ escrow[id] - FeePaid(id, payee) >= q.source
  BY DEF Fills
<1>2. Exists(id)
  BY <1>1 DEF IsOpen, Open, Exists
<1>3. /\ r \in Requests /\ order[id].remaining \in Nat
      /\ r.side \in Side /\ r.tranche \in Nat
  BY <1>2, OrderTypes, RequestTypes
<1>4. r.tranche > 0 /\ r.feeBps <= MaxKeeperFeeBps
  BY <1>2 DEF Sound, Exists
<1>5. /\ tranche \in Nat /\ tranche <= r.tranche /\ tranche <= order[id].remaining
      /\ tranche > 0
  <2>1. order[id].remaining > 0
    BY <1>1, <1>2 DEF Sound, Exists, IsOpen
  <2> QED BY <1>3, <1>4, <2>1 DEF NextTranche, MinOf
<1> HIDE DEF r, tranche
<1>6. fee \in Nat /\ fee <= tranche /\ fee * BpsDenom <= r.feeBps * tranche
  BY <1>3, <1>4, <1>5, KeeperFeeFacts
<1>7. FeePaid(id, payee) \in Nat /\ FeePaid(id, payee) <= fee
  BY <1>6 DEF FeePaid, r, tranche
<1>8. /\ q \in Swap(tranche - fee, pool.lp[r.side], pool.lp[OtherSide(r.side)], PoolFees)
      /\ q.dest >= EffectiveMinOut(r, tranche)
  BY <1>1 DEF FillQuotes, r, tranche
<1>9. /\ tranche - fee \in Nat /\ pool.lp[r.side] \in Nat
      /\ pool.lp[OtherSide(r.side)] \in Nat
      /\ PoolFees \in FeeSchedule /\ ValidFees(PoolFees)
  BY <1>3, <1>5, <1>6, OrdersAssumption DEF TypeOK, Market, OtherSide, Side
<1>10. /\ q.source \in Nat /\ q.source <= tranche - fee
       /\ q.ownerFee \in Nat /\ q.ownerFee <= q.source
       /\ q.dest \in Nat /\ q.dest <= pool.lp[OtherSide(r.side)]
  <2> HIDE DEF fee
  <2> QED BY <1>8, <1>9, SwapFacts
<1>11. q.dest * r.tranche >= r.minOut * tranche
  BY <1>3, <1>4, <1>5, <1>8, <1>10, FloorFacts
<1> HIDE DEF fee
<1>12. escrow[id] - FeePaid(id, payee) - q.source \in Nat
  BY <1>1, <1>7, <1>10 DEF TypeOK
<1>13. FeePaid(id, payee) + q.source <= tranche
  BY <1>5, <1>6, <1>7, <1>10
<1> QED BY <1>1, <1>2, <1>3, <1>5, <1>6, <1>7, <1>10, <1>11, <1>12, <1>13
        DEF r, tranche, fee

-----------------------------------------------------------------------------
(* Every step preserves IInv.                                              *)

\* A step of one order leaves the others as they are.
LEMMA OneOrderMoves ==
  ASSUME IInv, NEW id \in Ids, TypeOK',
         \A other \in Ids \ {id} : /\ order'[other] = order[other]
                                   /\ escrow'[other] = escrow[other]
                                   /\ ledger'[other] = ledger[other],
         Sound(order'[id], escrow'[id], ledger'[id])
  PROVE  IInv'
<1> SUFFICES ASSUME NEW other \in Ids
             PROVE  Sound(order'[other], escrow'[other], ledger'[other])
  BY DEF IInv
<1>1. CASE other = id
  BY <1>1
<1>2. CASE other # id
  BY <1>2 DEF IInv
<1> QED BY <1>1, <1>2

LEMMA PlaceInv ==
  ASSUME IInv, NEW id \in Ids, NEW r \in Requests, Place(id, r)
  PROVE  IInv'
<1> DEFINE o == [status |-> Open, request |-> r, remaining |-> r.total, lastExec |-> 0]
           l == [EmptyLedger EXCEPT !.round = ledger[id].round + 1]
<1>1. /\ order' = [order EXCEPT ![id] = o] /\ escrow' = [escrow EXCEPT ![id] = r.total]
      /\ ledger' = [ledger EXCEPT ![id] = l] /\ UNCHANGED <<now, pool>>
      /\ r.tranche # 0 /\ r.feeBps <= MaxKeeperFeeBps /\ r.total # 0
  BY DEF Place, ValidRequest
<1>2. /\ r.total \in Nat /\ r.tranche \in Nat /\ r.minOut \in Nat /\ r.feeBps \in Nat
  BY RequestTypes
<1>3. o \in OpenOrFilled /\ l \in Ledger
  BY <1>2 DEF OpenOrFilled, Ledger, EmptyLedger, IInv, TypeOK
<1>4. /\ o.request = r /\ o.remaining = r.total
      /\ l.proceeds = 0 /\ l.keeper = 0 /\ l.fills = 0
  BY DEF EmptyLedger
<1> HIDE DEF o, l
<1>5. TypeOK'
  BY <1>1, <1>2, <1>3 DEF IInv, TypeOK
<1>6. Sound(o, r.total, l)
  <2>1. r.total - o.remaining = 0 /\ r.minOut * 0 = 0 /\ r.feeBps * 0 = 0
    BY <1>2, <1>4
  <2>2. l.proceeds * r.tranche = 0 /\ l.keeper * BpsDenom = 0
    BY <1>2, <1>4 DEF BpsDenom
  <2> QED BY <1>1, <1>2, <1>4, <2>1, <2>2 DEF Sound
<1>7. order'[id] = o /\ escrow'[id] = r.total /\ ledger'[id] = l
  BY <1>1 DEF IInv, TypeOK
<1> QED BY <1>1, <1>5, <1>6, <1>7, OneOrderMoves

LEMMA GiftInv ==
  ASSUME IInv, NEW id \in Ids, NEW n \in Gifts, Gift(id, n)
  PROVE  IInv'
<1>1. n \in Nat /\ escrow[id] \in Nat
  BY OrdersAssumption DEF IInv, TypeOK
<1>2. TypeOK'
  BY <1>1 DEF Gift, IInv, TypeOK
<1>3. escrow'[id] = escrow[id] + n /\ order' = order /\ ledger' = ledger
  BY DEF Gift, IInv, TypeOK
<1>4. Exists(id) => order[id].remaining \in Nat
  BY OrderTypes DEF IInv
<1>5. Sound(order[id], escrow[id] + n, ledger[id])
  BY <1>1, <1>4 DEF IInv, Sound, Exists
<1> QED BY <1>2, <1>3, <1>5, OneOrderMoves DEF Gift

LEMMA CloseOutInv ==
  ASSUME IInv, NEW id \in Ids, CloseOut(id)
  PROVE  IInv'
<1>1. TypeOK'
  BY DEF CloseOut, IInv, TypeOK
<1>2. order'[id].status = "none"
  BY DEF CloseOut, IInv, TypeOK, NoOrder
<1> QED BY <1>1, <1>2, OneOrderMoves DEF CloseOut, Sound

LEMMA DebitFacts ==
  ASSUME NEW o \in OpenOrFilled, NEW n \in Nat, n <= o.remaining, now \in Nat
  PROVE  /\ Debit(o, n).remaining = o.remaining - n
         /\ Debit(o, n).request = o.request
         /\ Debit(o, n).lastExec = now
         /\ Debit(o, n).status \in {Open, Filled}
         /\ Debit(o, n).status = Open => Debit(o, n).remaining > 0
         /\ Debit(o, n) \in OpenOrFilled
  BY DEF Debit, OpenOrFilled, Open, Filled

LEMMA RecordedFacts ==
  ASSUME NEW l \in Ledger, NEW paid \in Nat, NEW out \in Nat
  PROVE  /\ Recorded(l, paid, out).keeper = l.keeper + paid
         /\ Recorded(l, paid, out).proceeds = l.proceeds + out
         /\ Recorded(l, paid, out).fills = l.fills + 1
         /\ Recorded(l, paid, out) \in Ledger
  BY DEF Recorded, Ledger

\* A claim of the form x * p >= q * y survives adding such a pair to it.
LEMMA SumKeepsRate ==
  ASSUME NEW x \in Nat, NEW y \in Int, NEW p \in Nat, NEW q \in Nat,
         NEW dx \in Nat, NEW dy \in Nat,
         x * p >= q * y, dx * p >= q * dy
  PROVE  (x + dx) * p >= q * (y + dy)
<1>1. (x + dx) * p = x * p + dx * p /\ q * (y + dy) = q * y + q * dy
  OBVIOUS
<1>2. x * p \in Int /\ dx * p \in Int /\ q * y \in Int /\ q * dy \in Int
  OBVIOUS
<1> QED BY <1>1, <1>2

LEMMA ExecuteInv ==
  ASSUME IInv, NEW id \in Ids, NEW payee, Execute(id, payee)
  PROVE  IInv'
<1> DEFINE o == order[id]
           r == o.request
           l == ledger[id]
           tranche == NextTranche(id)
           paid == FeePaid(id, payee)
<1>1. PICK q \in Fills(id, payee) :
        /\ order' = [order EXCEPT ![id] = Debit(@, tranche)]
        /\ escrow' = [escrow EXCEPT ![id] = @ - paid - q.source]
        /\ pool' = Traded(r.side, q)
        /\ ledger' = [ledger EXCEPT ![id] = Recorded(@, paid, q.dest)]
  BY DEF Execute, Settle
<1>2. now' = now /\ TypeOK /\ Sound(o, escrow[id], l)
  BY DEF Execute, Settle, IInv
<1>3. /\ Exists(id) /\ ~IsExpired(id) /\ DcaReady(id)
      /\ r \in Requests /\ r.side \in Side
      /\ tranche \in Nat /\ tranche <= r.tranche /\ tranche <= o.remaining
      /\ paid \in Nat /\ paid * BpsDenom <= r.feeBps * tranche
      /\ q.source \in Nat /\ q.ownerFee \in Nat /\ q.ownerFee <= q.source
      /\ paid + q.source <= tranche
      /\ q.dest \in Nat /\ q.dest <= pool.lp[OtherSide(r.side)]
      /\ q.dest * r.tranche >= r.minOut * tranche
      /\ escrow[id] - paid - q.source \in Nat
  <2> HIDE DEF o, r, l, tranche, paid
  <2> DEFINE fee == KeeperFee(r, tranche)
  <2>1. /\ Exists(id) /\ ~IsExpired(id) /\ DcaReady(id)
        /\ r \in Requests /\ r.side \in Side
        /\ tranche \in Nat /\ tranche <= r.tranche /\ tranche <= o.remaining
        /\ paid \in Nat /\ paid <= fee
        /\ fee \in Nat /\ fee * BpsDenom <= r.feeBps * tranche
        /\ q.source \in Nat /\ q.ownerFee \in Nat /\ q.ownerFee <= q.source
        /\ paid + q.source <= tranche
        /\ q.dest \in Nat /\ q.dest <= pool.lp[OtherSide(r.side)]
        /\ q.dest * r.tranche >= r.minOut * tranche
        /\ escrow[id] - paid - q.source \in Nat
    BY <1>2, FillFacts DEF o, r, l, tranche, paid
  <2> HIDE DEF fee
  <2>2. r.feeBps * tranche \in Nat
    BY <2>1, RequestTypes
  <2>3. paid * BpsDenom <= r.feeBps * tranche
    BY <2>1, <2>2 DEF BpsDenom
  <2> QED BY <2>1, <2>3
<1>4. /\ o \in OpenOrFilled /\ o.remaining \in Nat /\ o.lastExec \in Nat
      /\ r.total \in Nat /\ r.tranche \in Nat /\ r.minOut \in Nat
      /\ r.interval \in Nat /\ r.expiry \in Nat /\ r.feeBps \in Nat
      /\ l \in Ledger /\ l.proceeds \in Nat /\ l.keeper \in Nat /\ l.fills \in Nat
      /\ escrow[id] \in Nat /\ now \in Nat /\ Genesis \in Nat /\ Genesis <= now
  BY <1>2, <1>3, OrderTypes, RequestTypes, OrdersAssumption DEF TypeOK, Ledger
<1> DEFINE o2 == Debit(o, tranche)
           l2 == Recorded(l, paid, q.dest)
           e2 == escrow[id] - paid - q.source
<1>5. order' = [order EXCEPT ![id] = o2] /\ ledger' = [ledger EXCEPT ![id] = l2]
      /\ escrow' = [escrow EXCEPT ![id] = e2]
  BY <1>1
<1>6. /\ o2.request = r /\ o2.remaining = o.remaining - tranche /\ o2.lastExec = now
      /\ o2.status \in {Open, Filled} /\ o2 \in OpenOrFilled
      /\ o2.status = Open => o2.remaining > 0
  <2> HIDE DEF o, r, tranche
  <2>1. /\ o2.remaining = o.remaining - tranche /\ o2.request = o.request
        /\ o2.lastExec = now /\ o2.status \in {Open, Filled} /\ o2 \in OpenOrFilled
        /\ o2.status = Open => o2.remaining > 0
    BY <1>3, <1>4, DebitFacts
  <2> QED BY <2>1 DEF r
<1>7. /\ l2.keeper = l.keeper + paid /\ l2.proceeds = l.proceeds + q.dest
      /\ l2.fills = l.fills + 1 /\ l2 \in Ledger
  <2>1. l \in Ledger /\ paid \in Nat /\ q.dest \in Nat
    BY <1>3, <1>4
  <2> HIDE DEF l, paid
  <2>2. /\ Recorded(l, paid, q.dest).keeper = l.keeper + paid
        /\ Recorded(l, paid, q.dest).proceeds = l.proceeds + q.dest
        /\ Recorded(l, paid, q.dest).fills = l.fills + 1
        /\ Recorded(l, paid, q.dest) \in Ledger
    BY <2>1, RecordedFacts
  <2> QED BY <2>2
<1>8. pool' \in Market
  <2>1. pool.lp \in [Side -> Nat] /\ pool.fees \in [Side -> Nat]
    BY <1>2 DEF TypeOK, Market
  <2> QED BY <1>1, <1>3, <2>1 DEF Traded, Market, OtherSide, Side
<1>9. /\ r.tranche > 0 /\ escrow[id] >= o.remaining
      /\ l.proceeds * r.tranche >= r.minOut * (r.total - o.remaining)
      /\ l.keeper * BpsDenom <= r.feeBps * (r.total - o.remaining)
      /\ r.feeBps <= MaxKeeperFeeBps
      /\ l.fills > 0 => Genesis + (l.fills - 1) * r.interval <= o.lastExec
  BY <1>2, <1>3 DEF Sound, Exists
<1>10. now < r.expiry /\ o.lastExec + r.interval <= now
  BY <1>3, <1>4 DEF IsExpired, DcaReady
<1> HIDE DEF o, r, l, o2, l2, e2, tranche, paid
<1>11. TypeOK'
  <2>1. order' \in [Ids -> OpenOrFilled \cup {NoOrder}]
    BY <1>2, <1>5, <1>6 DEF TypeOK
  <2>2. escrow' \in [Ids -> Nat]
    BY <1>2, <1>3, <1>5 DEF TypeOK, e2
  <2>3. ledger' \in [Ids -> Ledger]
    BY <1>2, <1>5, <1>7 DEF TypeOK
  <2> QED BY <1>2, <1>8, <2>1, <2>2, <2>3 DEF TypeOK
<1>12. Sound(o2, e2, l2)
  <2>1. e2 >= o2.remaining
    <3>1. /\ escrow[id] \in Nat /\ o.remaining \in Nat /\ paid \in Nat
          /\ q.source \in Nat /\ tranche \in Nat
      BY <1>3, <1>4
    <3>2. escrow[id] >= o.remaining /\ paid + q.source <= tranche
      BY <1>3, <1>9
    <3> QED BY <1>6, <3>1, <3>2 DEF e2
  <2>2. l2.proceeds * r.tranche >= r.minOut * (r.total - o2.remaining)
    <3>1. (l.proceeds + q.dest) * r.tranche >= r.minOut * ((r.total - o.remaining) + tranche)
      <4> DEFINE y == r.total - o.remaining
      <4>1. y \in Int /\ l.proceeds * r.tranche >= r.minOut * y
        BY <1>4, <1>9
      <4> HIDE DEF y
      <4>2. (l.proceeds + q.dest) * r.tranche >= r.minOut * (y + tranche)
        BY <1>3, <1>4, <4>1, SumKeepsRate
      <4> QED BY <4>2 DEF y
    <3>2. (r.total - o.remaining) + tranche = r.total - o2.remaining
      BY <1>3, <1>4, <1>6
    <3> QED BY <1>7, <3>1, <3>2
  <2>3. l2.keeper * BpsDenom <= r.feeBps * (r.total - o2.remaining)
    <3> DEFINE x == r.feeBps * (r.total - o.remaining)
               y == r.feeBps * tranche
    <3>1. x \in Int /\ y \in Int
      BY <1>3, <1>4
    <3>2. r.feeBps * (r.total - o2.remaining) = x + y
      BY <1>3, <1>4, <1>6
    <3>3. l.keeper * BpsDenom <= x /\ paid * BpsDenom <= y
      BY <1>3, <1>9
    <3> HIDE DEF x, y
    <3>4. l2.keeper = l.keeper + paid /\ l.keeper \in Nat /\ paid \in Nat
      BY <1>3, <1>4, <1>7
    <3> QED BY <3>1, <3>2, <3>3, <3>4 DEF BpsDenom
  <2>4. Genesis + (l2.fills - 1) * r.interval <= o2.lastExec
    <3> DEFINE x == (l.fills - 1) * r.interval
    <3>1. CASE l.fills = 0
      <4>1. (l2.fills - 1) * r.interval = 0
        BY <1>4, <1>7, <3>1
      <4> QED BY <1>4, <1>6, <4>1
    <3>2. CASE l.fills > 0
      <4>1. (l2.fills - 1) * r.interval = x + r.interval /\ x \in Int
        BY <1>4, <1>7
      <4>2. Genesis + x <= o.lastExec
        BY <1>9, <3>2
      <4>3. /\ Genesis \in Nat /\ o.lastExec \in Nat /\ now \in Nat
            /\ r.interval \in Nat /\ o2.lastExec = now
        BY <1>4, <1>6
      <4> HIDE DEF x
      <4> QED BY <1>10, <4>1, <4>2, <4>3
    <3> QED BY <1>4, <3>1, <3>2
  <2>5. r.tranche > 0 /\ r.feeBps <= MaxKeeperFeeBps /\ o2.lastExec < r.expiry
    BY <1>6, <1>9, <1>10
  <2> HIDE DEF e2
  <2> QED BY <1>6, <2>1, <2>2, <2>3, <2>4, <2>5 DEF Sound
<1>13. order'[id] = o2 /\ escrow'[id] = e2 /\ ledger'[id] = l2
  BY <1>2, <1>5 DEF TypeOK
<1> QED BY <1>5, <1>11, <1>12, <1>13, OneOrderMoves

LEMMA NextInv ==
  ASSUME IInv, [Next]_vars
  PROVE  IInv'
<1>1. CASE UNCHANGED vars
  BY <1>1 DEF vars, IInv, TypeOK
<1>2. CASE Tick \/ MarketMove
  BY <1>2, OrdersAssumption DEF Tick, MarketMove, IInv, TypeOK
<1>3. ASSUME NEW id \in Ids, \E n \in Gifts : Gift(id, n)
      PROVE  IInv'
  BY <1>3, GiftInv
<1>4. ASSUME NEW id \in Ids, \E r \in Requests : Place(id, r)
      PROVE  IInv'
  BY <1>4, PlaceInv
<1>5. ASSUME NEW id \in Ids, \E payee \in Payees : Execute(id, payee)
      PROVE  IInv'
  BY <1>5, ExecuteInv
<1>6. ASSUME NEW id \in Ids, Cancel(id) \/ CrankExpired(id) \/ CloseFilled(id)
      PROVE  IInv'
  BY <1>6, CloseOutInv DEF Cancel, CrankExpired, CloseFilled
<1> QED BY <1>1, <1>2, <1>3, <1>4, <1>5, <1>6 DEF Next

LEMMA InitInv == Init => IInv
  BY OrdersAssumption DEF Init, IInv, TypeOK, Sound, NoOrder, EmptyLedger, Ledger, Market

LEMMA IInvAlways == Spec => []IInv
  BY InitInv, NextInv, PTL DEF Spec

-----------------------------------------------------------------------------
\* The order accounts, escrows, reserves and the clock keep their types: no
\* fill drives a remainder, an escrow or a reserve below zero.
THEOREM OrdersTyped == Spec => []TypeOK
<1>1. IInv => TypeOK
  BY DEF IInv
<1> QED BY <1>1, IInvAlways, PTL

\* The escrow covers the tranches to come, whatever the keepers and the market
\* do and whoever is named as the keeper's account.
THEOREM EscrowCoversTheorem == Spec => []EscrowCovers
<1>1. IInv => EscrowCovers
  BY DEF IInv, EscrowCovers, Sound, Exists
<1> QED BY <1>1, IInvAlways, PTL

\* The owner has received the limit price or better for all that was executed,
\* the rounded-up floor of a partial tranche included.
THEOREM LimitHonouredTheorem == Spec => []LimitHonoured
<1>1. IInv => LimitHonoured
  BY DEF IInv, LimitHonoured, Executed, Sound, Exists
<1> QED BY <1>1, IInvAlways, PTL

\* Keepers together take at most the order's rate of what was executed.
THEOREM KeeperFeeTheorem == Spec => []KeeperFeeBounded
<1>1. IInv => KeeperFeeBounded
  BY DEF IInv, KeeperFeeBounded, Executed, Sound, Exists
<1> QED BY <1>1, IInvAlways, PTL

\* A DCA order fills at most once per interval and never after its expiry.
THEOREM CadenceTheorem == Spec => []CadenceKept
<1>1. IInv => CadenceKept
  BY DEF IInv, CadenceKept, Sound, Exists
<1> QED BY <1>1, IInvAlways, PTL

-----------------------------------------------------------------------------
(* What the three exits ask for.                                           *)

ExitsOpen ==
  \A id \in Ids :
    Exists(id) =>
      /\ escrow[id] - RefundOf(id) = 0
      /\ IsOpen(id) \/ (order[id].status = Filled /\ order[id].remaining = 0)

\* No order is ever stuck: it is open and so can be cancelled, or filled with
\* nothing left to sell and so can be swept, and in both cases the escrow is
\* empty when SPL is asked to close it.  The guards of NeverStuck.
THEOREM ExitsOpenTheorem == Spec => []ExitsOpen
<1>1. Init => ExitsOpen
  BY DEF Init, ExitsOpen, Exists, NoOrder
<1>2. ASSUME IInv, IInv', ExitsOpen, [Next]_vars
      PROVE  ExitsOpen'
  <2> SUFFICES ASSUME NEW id \in Ids, Exists(id)'
               PROVE  /\ escrow'[id] - escrow'[id] = 0
                      /\ \/ order'[id].status = Open
                         \/ order'[id].status = Filled /\ order'[id].remaining = 0
    BY DEF ExitsOpen, RefundOf, IsOpen
  <2>1. escrow'[id] - escrow'[id] = 0
    BY <1>2 DEF IInv, TypeOK
  <2>2. CASE order'[id] = order[id]
    BY <1>2, <2>1, <2>2 DEF ExitsOpen, Exists, IsOpen
  <2>3. ASSUME NEW r \in Requests, Place(id, r)
        PROVE  order'[id].status = Open
    BY <1>2, <2>3 DEF Place, IInv, TypeOK
  <2>4. ASSUME NEW payee \in Payees, Execute(id, payee)
        PROVE  \/ order'[id].status = Open
               \/ order'[id].status = Filled /\ order'[id].remaining = 0
    <3>1. order'[id] = Debit(order[id], NextTranche(id))
      BY <1>2, <2>4 DEF Execute, Settle, IInv, TypeOK
    <3>2. order[id].remaining \in Nat
      BY <1>2, <2>4, OrderTypes DEF Execute, IsOpen, Exists, Open, IInv
    <3> QED BY <3>1, <3>2 DEF Debit
  <2>5. ASSUME CloseOut(id) PROVE FALSE
    <3>1. order'[id] = NoOrder
      BY <1>2, <2>5 DEF CloseOut, IInv, TypeOK
    <3> QED BY <3>1 DEF NoOrder, Exists
  <2>6. ASSUME NEW other \in Ids, other # id, order'[id] # order[id]
        PROVE  /\ \A r \in Requests : ~ Place(other, r)
               /\ \A payee \in Payees : ~ Execute(other, payee)
               /\ ~ CloseOut(other)
    BY <1>2, <2>6 DEF Place, Execute, Settle, CloseOut, IInv, TypeOK
  <2>7. CASE order'[id] # order[id]
    <3>1. \E other \in Ids : \/ \E r \in Requests : Place(other, r)
                             \/ \E payee \in Payees : Execute(other, payee)
                             \/ CloseOut(other)
      BY <1>2, <2>7 DEF Next, vars, Tick, MarketMove, Gift, Cancel, CrankExpired, CloseFilled
    <3>2. \/ \E r \in Requests : Place(id, r)
          \/ \E payee \in Payees : Execute(id, payee)
          \/ CloseOut(id)
      BY <2>6, <2>7, <3>1
    <3> QED BY <2>1, <2>3, <2>4, <2>5, <3>2
  <2> QED BY <2>2, <2>7
<1> QED BY <1>1, <1>2, IInvAlways, PTL DEF Spec

-----------------------------------------------------------------------------
(* The refinement: every step of the program is one of the promise.        *)

LEMMA DealAt ==
  ASSUME NEW id \in Ids
  PROVE  /\ Deals[id] = IF Exists(id) THEN DealOf(id) ELSE NoDeal
         /\ Deals'[id] = IF Exists(id)' THEN DealOf(id)' ELSE NoDeal
         /\ DealOf(id) # NoDeal /\ DealOf(id)' # NoDeal
  BY DEF Deals, DealOf, NoDeal

\* A step that moves one order at most leaves the other deals as they are.
LEMMA OnlyOneDeal ==
  ASSUME NEW id \in Ids,
         \A other \in Ids \ {id} : /\ order'[other] = order[other]
                                   /\ escrow'[other] = escrow[other]
                                   /\ ledger'[other] = ledger[other]
  PROVE  Promise!Only(id)
<1> SUFFICES ASSUME NEW other \in Ids \ {id}
             PROVE  Deals'[other] = Deals[other] /\ escrow'[other] = escrow[other]
  BY DEF Promise!Only
<1>1. order'[other] = order[other] /\ ledger'[other] = ledger[other]
  OBVIOUS
<1> QED BY <1>1, DealAt DEF Exists, DealOf

LEMMA PlaceAgrees ==
  ASSUME IInv, NEW id \in Ids, NEW r \in Requests, Place(id, r)
  PROVE  Promise!Agree(id)
<1>1. /\ order'[id] = [status |-> Open, request |-> r, remaining |-> r.total, lastExec |-> 0]
      /\ escrow'[id] = r.total
      /\ ledger'[id] = [EmptyLedger EXCEPT !.round = ledger[id].round + 1]
  BY DEF Place, IInv, TypeOK
<1>2. Deals[id] = NoDeal
  BY DealAt DEF Place
<1>3. Deals'[id] = Promise!Deal(r, r.total, 0, 0, 0)
  <2>1. Exists(id)'
    BY <1>1 DEF Exists, Open
  <2>2. DealOf(id)' = Promise!Deal(r, r.total, 0, 0, 0)
    BY <1>1 DEF DealOf, EmptyLedger, Promise!Deal
  <2> QED BY <2>1, <2>2, DealAt
<1>4. r.expiry \in Nat /\ now \in Nat /\ r.expiry > now /\ now' = now
  BY RequestTypes, OrdersAssumption DEF Place, ValidRequest, IInv, TypeOK
<1>5. Promise!Only(id)
  BY OnlyOneDeal DEF Place, IInv, TypeOK
<1> QED BY <1>1, <1>2, <1>3, <1>4, <1>5
        DEF Promise!Agree, Promise!Made, Promise!NoDeal, NoDeal

LEMMA GiftDonates ==
  ASSUME IInv, NEW id \in Ids, NEW n \in Gifts, Gift(id, n)
  PROVE  Promise!Donate(id)
<1>1. n \in Nat /\ escrow[id] \in Nat /\ escrow'[id] = escrow[id] + n
  BY OrdersAssumption DEF Gift, IInv, TypeOK
<1>2. order' = order /\ ledger' = ledger /\ now' = now /\ Exists(id)
  BY DEF Gift
<1>3. Deals' = Deals
  BY <1>2 DEF Deals, DealOf, Exists
<1>4. Promise!Only(id)
  BY OnlyOneDeal DEF Gift, IInv, TypeOK
<1>5. Deals[id] # NoDeal
  BY <1>2, DealAt
<1> QED BY <1>1, <1>2, <1>3, <1>4, <1>5
        DEF Promise!Donate, Promise!Made, Promise!NoDeal, NoDeal

LEMMA CloseReturns ==
  ASSUME IInv, NEW id \in Ids, Exists(id), CloseOut(id)
  PROVE  Promise!Return(id)
<1>1. order'[id] = NoOrder /\ escrow'[id] = 0 /\ now' = now
  BY DEF CloseOut, IInv, TypeOK
<1>2. Deals'[id] = NoDeal
  BY <1>1, DealAt DEF Exists, NoOrder
<1>3. Deals[id] = DealOf(id) /\ Deals[id] # NoDeal
  BY DealAt
<1>4. escrow[id] >= order[id].remaining
  BY DEF IInv, Sound, Exists
<1>5. Promise!Only(id)
  BY OnlyOneDeal DEF CloseOut, IInv, TypeOK
<1> QED BY <1>1, <1>2, <1>3, <1>4, <1>5
        DEF Promise!Return, Promise!Made, Promise!NoDeal, NoDeal, DealOf

LEMMA ExecuteTrades ==
  ASSUME IInv, NEW id \in Ids, NEW payee, Execute(id, payee)
  PROVE  Promise!Trade(id)
<1> DEFINE o == order[id]
           r == o.request
           l == ledger[id]
           tranche == NextTranche(id)
           fee == KeeperFee(r, tranche)
           paid == FeePaid(id, payee)
<1>1. PICK q \in Fills(id, payee) :
        /\ order' = [order EXCEPT ![id] = Debit(@, tranche)]
        /\ escrow' = [escrow EXCEPT ![id] = @ - paid - q.source]
        /\ ledger' = [ledger EXCEPT ![id] = Recorded(@, paid, q.dest)]
        /\ now' = now
  BY DEF Execute, Settle
<1>2. TypeOK /\ Sound(o, escrow[id], l)
  BY DEF IInv
<1>3. /\ Exists(id) /\ ~IsExpired(id) /\ DcaReady(id)
      /\ r \in Requests
      /\ tranche \in Nat /\ tranche <= r.tranche /\ tranche <= o.remaining
      /\ tranche > 0
      /\ paid \in Nat /\ paid <= fee
      /\ fee \in Nat /\ fee * BpsDenom <= r.feeBps * tranche
      /\ q.source \in Nat /\ paid + q.source <= tranche
      /\ q.dest \in Nat /\ q.dest * r.tranche >= r.minOut * tranche
  BY <1>2, FillFacts
<1>4. /\ o \in OpenOrFilled /\ o.remaining \in Nat /\ o.lastExec \in Nat
      /\ r.tranche \in Nat /\ r.interval \in Nat /\ r.expiry \in Nat /\ r.feeBps \in Nat
      /\ l \in Ledger /\ l.proceeds \in Nat /\ l.keeper \in Nat
      /\ escrow[id] \in Nat /\ now \in Nat
  BY <1>2, <1>3, OrderTypes, RequestTypes, OrdersAssumption DEF TypeOK, Ledger
<1>5. now < r.expiry /\ now >= o.lastExec + r.interval
  BY <1>3, <1>4 DEF IsExpired, DcaReady
<1> DEFINE o2 == Debit(o, tranche)
           l2 == Recorded(l, paid, q.dest)
<1>6. /\ order'[id] = o2 /\ ledger'[id] = l2
      /\ escrow'[id] = escrow[id] - paid - q.source
  BY <1>1, <1>2 DEF TypeOK
<1> HIDE DEF tranche, fee, paid
<1>7. /\ o2.request = r /\ o2.remaining = o.remaining - tranche /\ o2.lastExec = now
      /\ o2.status \in {Open, Filled}
  BY <1>3, <1>4, DebitFacts
<1>8. l2.keeper = l.keeper + paid /\ l2.proceeds = l.proceeds + q.dest
  <2>1. l \in Ledger /\ paid \in Nat /\ q.dest \in Nat
    BY <1>3, <1>4
  <2> HIDE DEF l
  <2>2. /\ Recorded(l, paid, q.dest).keeper = l.keeper + paid
        /\ Recorded(l, paid, q.dest).proceeds = l.proceeds + q.dest
    BY <2>1, RecordedFacts
  <2> QED BY <2>2
<1> HIDE DEF o2, l2
<1>9. Deals[id] = DealOf(id) /\ Deals'[id] = DealOf(id)'
  <2>1. Exists(id)'
    BY <1>6, <1>7 DEF Exists, Open, Filled
  <2> QED BY <1>3, <2>1, DealAt
<1>10. /\ Deals[id].terms = r /\ Deals'[id].terms = r
       /\ Deals[id].unsold = o.remaining /\ Deals'[id].unsold = o.remaining - tranche
       /\ Deals[id].received = l.proceeds /\ Deals'[id].received = l.proceeds + q.dest
       /\ Deals[id].keepers = l.keeper /\ Deals'[id].keepers = l.keeper + paid
       /\ Deals[id].last = o.lastExec /\ Deals'[id].last = now
       /\ Deals[id] # NoDeal /\ Deals'[id] # NoDeal
  BY <1>6, <1>7, <1>8, <1>9, DealAt DEF DealOf
<1>11. paid * 10000 <= r.feeBps * tranche
  <2>1. r.feeBps * tranche \in Nat
    BY <1>3, <1>4
  <2> QED BY <1>3, <2>1 DEF BpsDenom
<1> DEFINE sold == Deals[id].unsold - Deals'[id].unsold
<1>12. sold = tranche
  BY <1>3, <1>4, <1>10
<1>13. sold \in 1 .. r.tranche /\ Deals'[id].unsold >= 0
  BY <1>3, <1>4, <1>10, <1>12
<1>14. (Deals'[id].received - Deals[id].received) * r.tranche >= r.minOut * sold
  <2>1. Deals'[id].received - Deals[id].received = q.dest
    BY <1>3, <1>4, <1>10
  <2> QED BY <1>3, <1>12, <2>1
<1>15. (Deals'[id].keepers - Deals[id].keepers) * 10000 <= r.feeBps * sold
  <2>1. Deals'[id].keepers - Deals[id].keepers = paid
    BY <1>3, <1>4, <1>10
  <2> QED BY <1>11, <1>12, <2>1
<1>16. escrow'[id] >= escrow[id] - sold
  BY <1>3, <1>4, <1>6, <1>12
<1>17. Promise!Only(id)
  BY <1>1, OnlyOneDeal DEF IInv, TypeOK
<1> HIDE DEF o, r, l
<1> QED BY <1>1, <1>5, <1>10, <1>13, <1>14, <1>15, <1>16, <1>17
        DEF Promise!Trade, Promise!Made, Promise!NoDeal, NoDeal

LEMMA StepKeepsPromise ==
  ASSUME IInv, [Next]_vars
  PROVE  [Promise!Next]_(Promise!vars)
<1>1. CASE UNCHANGED vars \/ MarketMove
  <2>1. now' = now /\ escrow' = escrow /\ order' = order /\ ledger' = ledger
    BY <1>1 DEF vars, MarketMove
  <2> QED BY <2>1 DEF Promise!vars, Deals, DealOf, Exists
<1>2. CASE Tick
  <2>1. now' >= now /\ escrow' = escrow /\ order' = order /\ ledger' = ledger
    BY <1>2, OrdersAssumption DEF Tick, IInv, TypeOK
  <2>2. Promise!Wait
    BY <2>1 DEF Promise!Wait, Deals, DealOf, Exists
  <2> QED BY <2>2 DEF Promise!Next
<1>3. ASSUME NEW id \in Ids, \E n \in Gifts : Gift(id, n)
      PROVE  Promise!Next
  BY <1>3, GiftDonates DEF Promise!Next
<1>4. ASSUME NEW id \in Ids, \E r \in Requests : Place(id, r)
      PROVE  Promise!Next
  BY <1>4, PlaceAgrees DEF Promise!Next
<1>5. ASSUME NEW id \in Ids, \E payee \in Payees : Execute(id, payee)
      PROVE  Promise!Next
  BY <1>5, ExecuteTrades DEF Promise!Next
<1>6. ASSUME NEW id \in Ids, Cancel(id) \/ CrankExpired(id) \/ CloseFilled(id)
      PROVE  Promise!Next
  <2>1. Exists(id) /\ CloseOut(id)
    BY <1>6 DEF Cancel, CrankExpired, CloseFilled, IsOpen, Exists, Open, Filled
  <2> QED BY <2>1, CloseReturns DEF Promise!Next
<1> QED BY <1>1, <1>2, <1>3, <1>4, <1>5, <1>6 DEF Next

\* The orders program implements the promise of an order, for any number of
\* orders, any requests, markets and fees.
THEOREM OrdersKeepPromise == Spec => KeepsPromise
<1>1. Init => Promise!Init
  <2> SUFFICES ASSUME Init PROVE Promise!Init
    OBVIOUS
  <2>1. \A id \in Ids : ~Exists(id)
    BY DEF Init, Exists, NoOrder
  <2> QED BY <2>1 DEF Init, Promise!Init, Promise!NoDeal, NoDeal, Deals
<1> QED BY <1>1, StepKeepsPromise, IInvAlways, PTL DEF Spec, KeepsPromise, Promise!Spec

-----------------------------------------------------------------------------
(* The keeper beside the program.                                          *)

LEMMA KeeperStep ==
  ASSUME [KeeperNext]_allVars
  PROVE  [Next]_vars
<1>1. CASE UNCHANGED allVars
  BY <1>1 DEF allVars, vars
<1>2. CASE World
  BY <1>2 DEF World
<1>3. CASE StartPass \/ FetchAccounts \/ ReadSourceVault \/ Handle \/ Drop \/ Crash
  BY <1>3 DEF StartPass, FetchAccounts, ReadSourceVault, Handle, Drop, Crash
<1>4. ASSUME NEW id \in Ids, Deliver(id)
      PROVE  [Next]_vars
  BY <1>4, KeeperAssumption DEF Deliver, Next
<1> QED BY <1>1, <1>2, <1>3, <1>4 DEF KeeperNext

LEMMA KeeperInvAlways == KeeperSpec => []IInv
<1>1. KeeperInit => Init
  BY DEF KeeperInit
<1> QED BY <1>1, KeeperStep, InitInv, NextInv, PTL DEF KeeperSpec

\* With A and B the reserves, x and y the fees beside them and `in` what the swap
\* adds: a quote of at least `least` on the vaults is no better than the swap,
\* unless the fees on the output side weigh more than those on the other.
LEMMA QuoteIsNoBetter ==
  ASSUME NEW A \in Nat, NEW B \in Nat, NEW x \in Nat, NEW y \in Nat,
         NEW in \in Int, NEW least \in Nat, least > 0,
         A + in > 0, (A + in) * y <= x * B,
         (B + y) - CeilDiv((A + x) * (B + y), (A + x) + in) >= least
  PROVE  /\ in >= 0 /\ least <= B
         /\ A * B <= (A + in) * (B - least)
<1> DEFINE S == A + in
           k == (A + x) * (B + y)
           c == CeilDiv(k, S + x)
<1>1. /\ S \in Nat /\ S > 0 /\ S + x \in Nat /\ S + x > 0 /\ k \in Nat
      /\ (A + x) + in = S + x
  BY Z3
<1>2. c \in Nat /\ k <= (S + x) * c
  <2> HIDE DEF k, S
  <2> QED BY <1>1, CeilDivFacts
<1>3. c <= B + y - least
  <2>1. (B + y) - c >= least
    BY <1>1
  <2> HIDE DEF c
  <2> QED BY <1>2, <2>1
<1> HIDE DEF c
<1>4. (S + x) * c <= (S + x) * (B + y - least)
  BY <1>1, <1>2, <1>3, Z3
<1>5. (A + x) * (B + y) <= (S + x) * (B + y - least)
  <2> HIDE DEF S
  <2>1. (S + x) * c \in Int /\ (S + x) * (B + y - least) \in Int
    BY <1>1, <1>2
  <2> QED BY <1>1, <1>2, <1>4, <2>1
<1>6. (S + x) * least <= in * (B + y)
  <2>1. (S + x) * (B + y - least) = (S + x) * (B + y) - (S + x) * least
    BY <1>1, Z3
  <2>2. (S + x) * (B + y) = (A + x) * (B + y) + in * (B + y)
    BY Z3
  <2>3. /\ (S + x) * (B + y) \in Int /\ (S + x) * least \in Int
        /\ (A + x) * (B + y) \in Int /\ in * (B + y) \in Int
    BY <1>1
  <2> HIDE DEF S
  <2> QED BY <1>5, <2>1, <2>2, <2>3
<1>7. in > 0
  <2>1. (S + x) * least > 0
    <3> HIDE DEF S
    <3> QED BY <1>1, Z3
  <2>2. in * (B + y) > 0
    <3>1. (S + x) * least \in Int /\ in * (B + y) \in Int
      BY <1>1
    <3> HIDE DEF S
    <3> QED BY <1>6, <2>1, <3>1
  <2> QED BY <2>2, Z3
<1>8. S * least <= in * B
  <2> SUFFICES ASSUME S * least > in * B PROVE FALSE
    BY <1>1
  <2>1. x * least < in * y
    <3>1. (S + x) * least = S * least + x * least /\ in * (B + y) = in * B + in * y
      BY <1>1, Z3
    <3>2. S * least \in Int /\ x * least \in Int /\ in * B \in Int /\ in * y \in Int
      BY <1>1
    <3> HIDE DEF S
    <3> QED BY <1>6, <3>1, <3>2
  <2>2. S * (x * least) < S * (in * y)
    <3> DEFINE p == x * least
               q == in * y
    <3>1. p \in Int /\ q \in Int /\ p < q
      BY <2>1
    <3> HIDE DEF p, q, S
    <3>2. S * p < S * q
      BY <1>1, <3>1, Z3
    <3> QED BY <3>2 DEF p, q
  <2>3. in * (S * y) <= in * (x * B)
    <3> DEFINE p == S * y
               q == x * B
    <3>1. p \in Int /\ q \in Int /\ p <= q
      BY <1>1
    <3> HIDE DEF p, q, S
    <3>2. in * p <= in * q
      BY <1>7, <3>1, Z3
    <3> QED BY <3>2 DEF p, q
  <2>4. x * (in * B) <= x * (S * least)
    <3> DEFINE p == in * B
               q == S * least
    <3>1. p \in Int /\ q \in Int /\ p <= q
      BY <1>1
    <3> HIDE DEF p, q, S
    <3>2. x * p <= x * q
      BY <3>1, Z3
    <3> QED BY <3>2 DEF p, q
  <2>5. /\ S * (x * least) = x * (S * least)
        /\ S * (in * y) = in * (S * y)
        /\ x * (in * B) = in * (x * B)
    BY <1>1, Z3
  <2>6. /\ S * (x * least) \in Int /\ S * (in * y) \in Int
        /\ in * (x * B) \in Int
    BY <1>1
  <2> HIDE DEF S
  <2> QED BY <2>2, <2>3, <2>4, <2>5, <2>6
<1>9. least <= B
  <2>1. in * B <= S * B
    <3>1. in <= S
      OBVIOUS
    <3> HIDE DEF S
    <3> QED BY <1>1, <1>7, <3>1, MulMono
  <2>2. S * least <= S * B
    <3>1. S * least \in Int /\ in * B \in Int /\ S * B \in Int
      BY <1>1
    <3> HIDE DEF S
    <3> QED BY <1>8, <2>1, <3>1
  <2> HIDE DEF S
  <2> QED BY <1>1, <2>2, Z3
<1>10. A * B <= S * (B - least)
  <2>1. S * (B - least) = A * B + in * B - S * least
    BY <1>1, Z3
  <2>2. A * B \in Int /\ in * B \in Int /\ S * least \in Int
    BY <1>1
  <2> HIDE DEF S
  <2> QED BY <1>8, <2>1, <2>2
<1> QED BY <1>7, <1>9, <1>10

SentShaped ==
  /\ sending = [x \in DOMAIN sending |-> sending[x]]
  /\ "awaited" \in DOMAIN sending

LEMMA SentShapedAlways == KeeperSpec => []SentShaped
<1>1. KeeperInit => SentShaped
  BY DEF KeeperInit, SentShaped, Nothing
<1>2. SentShaped /\ [KeeperNext]_allVars => SentShaped'
  <2> SUFFICES ASSUME SentShaped, [KeeperNext]_allVars
               PROVE  SentShaped'
    OBVIOUS
  <2>1. CASE sending' = sending
    BY <2>1 DEF SentShaped
  <2>2. CASE sending' = Nothing
    BY <2>2 DEF SentShaped, Nothing
  <2>3. CASE Handle
    <3>1. sending' = sending \/ \E kind : sending' = Transaction(kind, Head(todo).id)
      BY <2>3 DEF Handle
    <3> QED BY <2>1, <3>1 DEF SentShaped, Transaction
  <2>4. CASE Crash
    <3>1. sending' = [sending EXCEPT !.awaited = FALSE]
      BY <2>4 DEF Crash
    <3> QED BY <3>1 DEF SentShaped
  <2> QED BY <2>1, <2>2, <2>3, <2>4
          DEF KeeperNext, allVars, World, keeperVars, StartPass, FetchAccounts,
              ReadSourceVault, Deliver, Drop
<1> QED BY <1>1, <1>2, PTL DEF KeeperSpec

\* A transaction the keeper waits for is one that Handle has just sent.
LEMMA OnlyHandleSends ==
  ASSUME SentShaped, [KeeperNext]_allVars, ~sending.awaited, sending'.awaited
  PROVE  Handle
<1>1. sending' # sending
  OBVIOUS
<1>2. sending' # Nothing
  BY DEF Nothing
<1>3. ~Crash
  <2> SUFFICES ASSUME Crash PROVE FALSE
    OBVIOUS
  <2>1. sending' = [sending EXCEPT !.awaited = FALSE]
    BY DEF Crash
  <2> QED BY <2>1 DEF SentShaped
<1> QED BY <1>1, <1>2, <1>3
        DEF KeeperNext, allVars, World, keeperVars, StartPass, FetchAccounts,
            ReadSourceVault, Deliver, Drop

\* What the quote of an order clears, the swap gives.
LEMMA QuotedIsFilled ==
  ASSUME IInv, NEW id \in Ids, IsOpen(id), ~IsExpired(id), DcaReady(id),
         order[id].request.payable, CpiAccepted, Quotable(order[id]),
         QuoteClears(order[id], QuoteReserve(order[id].request.side))
  PROVE  Fills(id, "keeper") # None
<1> DEFINE o == order[id]
           r == o.request
           out == OtherSide(r.side)
           tranche == TrancheOf(o)
           fee == KeeperFee(r, tranche)
           amount == tranche - fee
           fees == TotalFees(amount, PoolFees)
           A == pool.lp[r.side]
           B == pool.lp[out]
           x == pool.fees[r.side]
           y == pool.fees[out]
           least == EffectiveMinOut(r, tranche)
           net == amount - fees
<1>1. Exists(id) /\ TypeOK /\ Sound(o, escrow[id], ledger[id])
  BY DEF IInv, IsOpen, Exists, Open
<1>2. /\ r \in Requests /\ r.side \in Side /\ r.tranche \in Nat /\ r.minOut \in Nat
      /\ o.remaining \in Nat /\ out \in Side
  BY <1>1, OrderTypes, RequestTypes DEF OtherSide, Side
<1>3. r.feeBps <= MaxKeeperFeeBps /\ escrow[id] >= o.remaining /\ escrow[id] \in Nat
      /\ r.tranche > 0
  BY <1>1 DEF Sound, Exists, TypeOK
<1>4. tranche \in Nat /\ tranche <= o.remaining /\ tranche = NextTranche(id)
      /\ tranche <= r.tranche
  BY <1>2 DEF TrancheOf, NextTranche, MinOf
<1> HIDE DEF tranche
<1>5. fee \in Nat /\ fee <= tranche
  BY <1>2, <1>3, <1>4, KeeperFeeFacts
<1> HIDE DEF fee
<1>6. amount \in Nat /\ PoolFees \in FeeSchedule /\ ValidFees(PoolFees)
  BY <1>4, <1>5, OrdersAssumption
<1>7. fees \in Nat
  <2> HIDE DEF amount
  <2>1. TradingFee(amount, PoolFees) \in Nat /\ OwnerTradingFee(amount, PoolFees) \in Nat
    BY <1>6, FeeWithinAmount DEF TradingFee, OwnerTradingFee, ValidFees, FeeSchedule
  <2> QED BY <2>1 DEF TotalFees
<1>8. A \in Nat /\ B \in Nat /\ x \in Nat /\ y \in Nat
  BY <1>1, <1>2 DEF TypeOK, Market
<1>9. least \in Nat
  <2> HIDE DEF r
  <2>1. r.minOut * tranche \in Nat
    BY <1>2, <1>4
  <2> QED BY <1>2, <1>3, <2>1, CeilDivFacts DEF EffectiveMinOut
<1>10. SwapInOf(o) = amount
  BY DEF SwapInOf, fee, tranche
<1>11. QuoteSource(SwapInOf(o), A) = A + net
  BY <1>6, <1>7, <1>8, <1>10 DEF QuoteSource
<1>12. /\ least > 0 /\ A + net > 0 /\ A + net <= A * B /\ (A + net) * y <= x * B
  <2>1. /\ least > 0 /\ QuoteSource(SwapInOf(o), A) \in 1 .. A * B
        /\ QuoteSource(SwapInOf(o), A) * y <= x * B
    BY DEF Quotable, tranche
  <2>2. A * B \in Int
    BY <1>8
  <2> HIDE DEF net, least, A, B, x, y
  <2> QED BY <1>11, <2>1, <2>2
<1>13. (B + y) - CeilDiv((A + x) * (B + y), (A + x) + net) >= least
  <2>1. QuoteOut(amount, A + x, B + y) >= least
    BY <1>10 DEF QuoteClears, QuoteReserve, tranche
  <2>2. QuoteSource(amount, A + x) = (A + x) + net
    BY <1>6, <1>7, <1>8 DEF QuoteSource
  <2> HIDE DEF A, B, x, y, net, least, amount
  <2> QED BY <2>1, <2>2 DEF QuoteOut
<1>14. net \in Int
  BY <1>6, <1>7
<1> HIDE DEF net, least, A, B, x, y
<1>15. net >= 0 /\ least <= B /\ A * B <= (A + net) * (B - least)
  BY <1>8, <1>9, <1>12, <1>13, <1>14, QuoteIsNoBetter
<1>16. PICK p \in CpSwap(net, A, B) : p.dest >= least
  <2>1. net \in Nat
    BY <1>14, <1>15
  <2> QED BY <1>8, <1>9, <1>12, <1>15, <2>1, CpSwapGives
<1>17. PICK q \in Swap(amount, A, B, PoolFees) : q.dest >= least
  <2>1. ~(fees > amount)
    <3> HIDE DEF fees, amount
    <3> QED BY <1>6, <1>7, <1>15 DEF net
  <2>2. [source |-> p.source + fees, dest |-> p.dest,
         ownerFee |-> OwnerTradingFee(amount, PoolFees)] \in Swap(amount, A, B, PoolFees)
    BY <1>16, <2>1 DEF Swap, net
  <2> QED BY <1>16, <2>2
<1>18. q.source \in Nat /\ q.source <= amount
  <2> HIDE DEF amount
  <2> QED BY <1>6, <1>8, SwapFacts
<1>19. q \in FillQuotes(id)
  BY <1>4, <1>17 DEF FillQuotes, A, B, least, fee
<1>20. /\ escrow[id] >= KeeperFee(order[id].request, NextTranche(id))
       /\ escrow[id] - FeePaid(id, "keeper") >= q.source
  <2>1. KeeperFee(order[id].request, NextTranche(id)) = fee /\ FeePaid(id, "keeper") = fee
    BY <1>4 DEF FeePaid, fee
  <2> QED BY <1>2, <1>3, <1>4, <1>5, <1>18, <2>1
<1>21. q \in Fills(id, "keeper")
  BY <1>19, <1>20 DEF Fills
<1> QED BY <1>21 DEF None

\* Whatever the network, the clock and the crashes do, no transaction of the
\* keeper is wasted for another reason than the ones named: for any orders,
\* markets, fees and window.
THEOREM NoWastedSendTheorem == KeeperSpec => NoWastedSend
<1> DEFINE Justified(id) ==
      \/ sending'.kind = "crank" /\ IsOpen(id) /\ IsExpired(id)
      \/ /\ sending'.kind = "execute"
         /\ \/ Fills(id, "keeper") # None
            \/ IsExpired(id)
            \/ seen # Some(QuoteReserve(order[id].request.side))
            \/ ~order[id].request.payable \/ ~CpiAccepted
            \/ ~Quotable(order[id])
       NoWaste(id) == ~sending.awaited /\ sending'.awaited /\ AsRead(id) => Justified(id)
<1>1. ASSUME IInv, SentShaped, [KeeperNext]_allVars, NEW id \in Ids
      PROVE  NoWaste(id)
  <2> SUFFICES ASSUME ~sending.awaited, sending'.awaited, AsRead(id)
               PROVE  Justified(id)
    OBVIOUS
  <2>1. Handle
    BY <1>1, OnlyHandleSends
  <2> DEFINE next == Head(todo)
             o == order[id]
  <2>2. next.id = id /\ next.order = o /\ next.asOf \in 0 .. now
    BY DEF AsRead
  <2>3. sending' # sending
    OBVIOUS
  <2>4. CASE Decision(o, next.asOf) = "crank" /\ sending' = Transaction("crank", id)
    <3>1. sending'.kind = "crank"
      BY <2>4 DEF Transaction
    <3>2. IsOpen(id)
      BY <2>4 DEF Decision, IsOpen
    <3>3. o.request.expiry \in Nat /\ now \in Nat
      BY <1>1, <3>2, OrderTypes, RequestTypes, OrdersAssumption
         DEF IInv, TypeOK, IsOpen, Exists, Open
    <3>4. next.asOf >= o.request.expiry
      BY <2>4 DEF Decision
    <3>5. IsExpired(id)
      BY <2>2, <3>3, <3>4 DEF IsExpired
    <3> QED BY <3>1, <3>2, <3>5
  <2>5. CASE /\ Decision(o, next.asOf) = "quote" /\ sending' = Transaction("execute", id)
             /\ \E reserveIn \in seen : QuoteClears(o, reserveIn)
    <3>1. sending'.kind = "execute"
      BY <2>5 DEF Transaction
    <3>2. IsOpen(id)
      BY <2>5 DEF Decision, IsOpen
    <3>3. /\ o.request.interval \in Nat /\ o.lastExec \in Nat /\ now \in Nat
      BY <1>1, <3>2, OrderTypes, RequestTypes, OrdersAssumption
         DEF IInv, TypeOK, IsOpen, Exists, Open
    <3>4. ~(next.asOf < o.lastExec + o.request.interval)
      BY <2>5 DEF Decision
    <3>5. DcaReady(id)
      BY <2>2, <3>3, <3>4 DEF DcaReady
    <3>6. ASSUME seen = Some(QuoteReserve(o.request.side))
          PROVE  QuoteClears(o, QuoteReserve(o.request.side))
      BY <2>5, <3>6 DEF Some
    <3> QED BY <1>1, <3>1, <3>2, <3>5, <3>6, QuotedIsFilled
  <2> QED BY <2>1, <2>2, <2>3, <2>4, <2>5 DEF Handle
<1>2. IInv /\ SentShaped /\ [KeeperNext]_allVars => [\A id \in Ids : NoWaste(id)]_allVars
  BY <1>1
<1> QED BY <1>2, KeeperInvAlways, SentShapedAlways, PTL DEF KeeperSpec, NoWastedSend

\* With a keeper running, escrows, limit prices and keeper fees stay as safe.
THEOREM KeeperKeepsSafety ==
  KeeperSpec => [](EscrowCovers /\ LimitHonoured /\ KeeperFeeBounded)
<1>1. IInv => EscrowCovers /\ LimitHonoured /\ KeeperFeeBounded
  BY DEF IInv, EscrowCovers, LimitHonoured, KeeperFeeBounded, Executed, Sound, Exists
<1> QED BY <1>1, KeeperInvAlways, PTL

\* Keeper and program together keep the promise of an order.
THEOREM KeeperKeepsPromise == KeeperSpec => KeepsPromise
<1>1. KeeperInit => Promise!Init
  <2> SUFFICES ASSUME Init PROVE Promise!Init
    BY DEF KeeperInit
  <2>1. \A id \in Ids : ~Exists(id)
    BY DEF Init, Exists, NoOrder
  <2> QED BY <2>1 DEF Init, Promise!Init, Promise!NoDeal, NoDeal, Deals
<1> QED BY <1>1, KeeperStep, StepKeepsPromise, KeeperInvAlways, PTL
        DEF KeeperSpec, KeepsPromise, Promise!Spec
=============================================================================
