------------------------------- MODULE Orders -------------------------------
(***************************************************************************)
(* Limit and DCA orders: the orders program (orders/src/processor.rs and   *)
(* state.rs), whose Execute swaps through the DEX pool (module Curve).     *)
(*                                                                         *)
(* An instruction is one transaction: an Err anywhere, the CPI included,   *)
(* reverts it, so a rejected call is no step.  Everybody may execute,      *)
(* crank and sweep; only the owner places and cancels.  The rest of the    *)
(* world trades against the same pool (MarketMove), donates to the public  *)
(* escrow accounts and lets time pass.                                     *)
(***************************************************************************)
EXTENDS Curve, Sequences

CONSTANTS Ids,              \* order addresses: an owner and a nonce each
          Requests,         \* what a Place may carry
          Markets,          \* pool states the other traders may leave
          PoolFees,         \* the pool's fee schedule
          SwapLayout,       \* account list the DEX program's Swap unpacks
          Payees,           \* accounts an Execute may name for its fee:
                            \* "escrow" is the order's own, others are outside
          Gifts,            \* amounts sent to an escrow from outside
          MaxEscrow,        \* bound: no gift lifts an escrow above it
          Genesis, MaxTime, \* bounds of the clock, in seconds
          MaxRounds         \* bound: how often an address is used

\* A unix clock is far beyond the longest interval (MAX_INTERVAL_SECS), which
\* makes the zero of a fresh order's lastExec a time long past.
MaxInterval == Genesis
MaxKeeperFeeBps == 50
BpsDenom == 10000

Side == {"A", "B"}
OtherSide(side) == IF side = "A" THEN "B" ELSE "A"
Market == [lp : [Side -> Nat], fees : [Side -> Nat]]

\* payable: the stored destination is an account of the owner with the output
\* mint and the pool trades the two mints.  Place does not check it.
Request == [side : Side, total : Nat, tranche : Nat, minOut : Nat,
            interval : Nat, expiry : Nat, feeBps : Nat, payable : BOOLEAN]

ASSUME OrdersAssumption ==
  /\ Genesis \in Nat \ {0} /\ MaxTime \in Nat /\ Genesis <= MaxTime
  /\ Requests \subseteq Request
  /\ Markets \subseteq Market
  /\ PoolFees \in FeeSchedule /\ ValidFees(PoolFees)
  /\ Gifts \subseteq Nat /\ MaxEscrow \in Nat /\ MaxRounds \in Nat

VARIABLES now,     \* Clock::unix_timestamp
          order,   \* the Order accounts: NoOrder, or an OpenOrFilled record
          escrow,  \* balance of each order's input escrow
          pool,    \* LP-owned reserves and protocol-fee counters of the pool
          ledger   \* history: where the tokens of each order went

vars == <<now, order, escrow, pool, ledger>>

Open == "open"
Filled == "filled"
NoOrder == [status |-> "none"]

OpenOrFilled ==
  [status : {Open, Filled}, request : Requests,
   remaining : Nat, lastExec : Nat]

IsOpen(id) == order[id].status = Open
Exists(id) == order[id].status # "none"

\* The number of Places and, since the last one, the input paid to keepers,
\* the output the owner received and the fills.
EmptyLedger == [round |-> 0, keeper |-> 0, proceeds |-> 0, fills |-> 0]

Init ==
  /\ now = Genesis
  /\ order = [id \in Ids |-> NoOrder]
  /\ escrow = [id \in Ids |-> 0]
  /\ pool \in Markets
  /\ ledger = [id \in Ids |-> EmptyLedger]

-----------------------------------------------------------------------------
(* The world around the program.                                           *)

Tick ==
  /\ now < MaxTime
  /\ now' = now + 1
  /\ UNCHANGED <<order, escrow, pool, ledger>>

MarketMove ==
  /\ pool' \in Markets
  /\ UNCHANGED <<now, order, escrow, ledger>>

Gift(id, n) ==
  /\ Exists(id)
  /\ escrow[id] + n <= MaxEscrow
  /\ escrow' = [escrow EXCEPT ![id] = @ + n]
  /\ UNCHANGED <<now, order, pool, ledger>>

-----------------------------------------------------------------------------
(* Place.  The app creates the escrow in the same transaction; a balance   *)
(* somebody sent to it earlier is a Gift right after.                      *)

ValidRequest(r) ==
  /\ r.total # 0 /\ r.tranche # 0 /\ r.tranche <= r.total
  /\ r.feeBps <= MaxKeeperFeeBps
  /\ r.interval = 0 => r.minOut # 0            \* a limit order needs a floor
  /\ r.interval <= MaxInterval
  /\ r.expiry > now

Place(id, r) ==
  /\ ValidRequest(r)
  /\ ~Exists(id) /\ ledger[id].round < MaxRounds
  /\ order' = [order EXCEPT ![id] =
       [status |-> Open, request |-> r, remaining |-> r.total, lastExec |-> 0]]
  /\ escrow' = [escrow EXCEPT ![id] = r.total]
  /\ ledger' = [ledger EXCEPT ![id] = [EmptyLedger EXCEPT !.round = ledger[id].round + 1]]
  /\ UNCHANGED <<now, pool>>

-----------------------------------------------------------------------------
(* Execute.                                                                *)

\* Mutant: the last tranche is not cut down to what is left.
NextTrancheUnclamped(id) == order[id].request.tranche

\* Mutant: an order still runs in the second of its expiry.
IsExpiredLate(id) == now > order[id].request.expiry

IsExpired(id) == now >= order[id].request.expiry
DcaReady(id) == now >= order[id].lastExec + order[id].request.interval
NextTranche(id) == MinOf(order[id].request.tranche, order[id].remaining)

\* Mutant: the floor of a partial tranche is a share of the whole order's.
EffectiveMinOutOfTotal(r, used) ==
  IF used >= r.tranche THEN r.minOut ELSE CeilDiv(r.minOut * used, r.total)

\* A partial tranche scales the floor down, rounded up for the owner.
EffectiveMinOut(r, used) ==
  IF used >= r.tranche THEN r.minOut ELSE CeilDiv(r.minOut * used, r.tranche)

\* Mutant: the keeper's cut is rounded up.
KeeperFeeRoundedUp(r, tranche) == CeilDiv(tranche * r.feeBps, BpsDenom)

KeeperFee(r, tranche) == (tranche * r.feeBps) \div BpsDenom

\* The account list of the CPI, in order: each account and whether it is
\* passed writable.  The DEX unpacks its own list by position.
Account(role, writable) == [role |-> role, writable |-> writable]
ExecuteAccounts ==
  << Account("pool", FALSE), Account("authority", FALSE),
     Account("order", FALSE), Account("escrow", TRUE),
     Account("sourceVault", TRUE), Account("destVault", TRUE),
     Account("destination", TRUE), Account("poolMint", TRUE),
     Account("feeAccount", TRUE), Account("sourceMint", FALSE),
     Account("destMint", FALSE), Account("token", FALSE),
     Account("token", FALSE), Account("token", FALSE) >>

\* Surplus accounts are ignored; an account in the wrong place fails the
\* unpacking, and writing through a read-only one fails the transaction.
CpiAccepted ==
  /\ Len(SwapLayout) <= Len(ExecuteAccounts)
  /\ \A i \in 1 .. Len(SwapLayout) :
       /\ SwapLayout[i].role = ExecuteAccounts[i].role
       /\ SwapLayout[i].writable => ExecuteAccounts[i].writable

\* Mutant: the keeper's cut comes on top of the tranche.
FillQuotesFeeOnTop(id) ==
  LET r == order[id].request
      tranche == NextTranche(id)
  IN  { q \in Swap(tranche, pool.lp[r.side], pool.lp[OtherSide(r.side)], PoolFees) :
          q.dest >= EffectiveMinOut(r, tranche) }

\* What the pool gives for the tranche after the keeper's cut.
FillQuotes(id) ==
  LET r == order[id].request
      tranche == NextTranche(id)
  IN  { q \in Swap(tranche - KeeperFee(r, tranche),
                   pool.lp[r.side], pool.lp[OtherSide(r.side)], PoolFees) :
          q.dest >= EffectiveMinOut(r, tranche) }

Traded(side, q) ==
  [lp   |-> [s \in Side |-> IF s = side THEN pool.lp[s] + q.source - q.ownerFee
                            ELSE pool.lp[s] - q.dest],
   fees |-> [pool.fees EXCEPT ![side] = @ + q.ownerFee]]

\* Mutant: the time of the fill is not recorded.
DebitUnstamped(o, amount) ==
  [o EXCEPT !.remaining = @ - amount,
            !.status = IF o.remaining = amount THEN Filled ELSE Open]

Debit(o, amount) ==
  [status |-> IF o.remaining = amount THEN Filled ELSE Open,
   request |-> o.request, remaining |-> o.remaining - amount, lastExec |-> now]

\* The keeper names the account its fee goes to; nothing but the mint of that
\* account is checked, so it may be the escrow itself.
FeePaid(id, payee) ==
  IF payee = "escrow" THEN 0
  ELSE KeeperFee(order[id].request, NextTranche(id))

\* The fills of an Execute the chain accepts right now.
Fills(id, payee) ==
  { q \in FillQuotes(id) :
      /\ IsOpen(id) /\ ~IsExpired(id) /\ DcaReady(id)
      /\ order[id].request.payable
      /\ CpiAccepted
      /\ escrow[id] >= KeeperFee(order[id].request, NextTranche(id))
      /\ escrow[id] - FeePaid(id, payee) >= q.source }

Recorded(l, paid, out) ==
  [round |-> l.round, keeper |-> l.keeper + paid,
   proceeds |-> l.proceeds + out, fills |-> l.fills + 1]

Settle(id, payee, q) ==
  /\ order' = [order EXCEPT ![id] = Debit(@, NextTranche(id))]
  /\ escrow' = [escrow EXCEPT ![id] = @ - FeePaid(id, payee) - q.source]
  /\ pool' = Traded(order[id].request.side, q)
  /\ ledger' = [ledger EXCEPT ![id] = Recorded(@, FeePaid(id, payee), q.dest)]
  /\ UNCHANGED now

Execute(id, payee) == IsOpen(id) /\ \E q \in Fills(id, payee) : Settle(id, payee, q)

-----------------------------------------------------------------------------
(* Cancel, CrankExpired and CloseFilled all refund the escrow, close it    *)
(* (SPL refuses to close an account that still holds tokens) and close the *)
(* order account, after which the address can be used again.               *)

\* Mutant: only what the order still has to sell goes back.
RefundRemaining(id) == order[id].remaining

RefundOf(id) == escrow[id]

CloseOut(id) ==
  /\ escrow[id] - RefundOf(id) = 0
  /\ escrow' = [escrow EXCEPT ![id] = 0]
  /\ order' = [order EXCEPT ![id] = NoOrder]
  /\ UNCHANGED <<now, pool, ledger>>

Cancel(id) == IsOpen(id) /\ CloseOut(id)

CrankExpired(id) == IsOpen(id) /\ IsExpired(id) /\ CloseOut(id)

CloseFilled(id) ==
  /\ order[id].status = Filled /\ order[id].remaining = 0
  /\ CloseOut(id)

Next ==
  \/ Tick
  \/ MarketMove
  \/ \E id \in Ids :
       \/ \E n \in Gifts : Gift(id, n)
       \/ \E r \in Requests : Place(id, r)
       \/ \E payee \in Payees : Execute(id, payee)
       \/ Cancel(id)
       \/ CrankExpired(id)
       \/ CloseFilled(id)

Spec == Init /\ [][Next]_vars

-----------------------------------------------------------------------------
(* What the owner was promised (module OrderPromise), read off the order   *)
(* account, its escrow and its history.                                    *)

NoDeal == [made |-> FALSE]
DealOf(id) ==
  [made |-> TRUE, terms |-> order[id].request, unsold |-> order[id].remaining,
   received |-> ledger[id].proceeds, keepers |-> ledger[id].keeper,
   last |-> order[id].lastExec]
Deals == [id \in Ids |-> IF Exists(id) THEN DealOf(id) ELSE NoDeal]

Promise == INSTANCE OrderPromise WITH deal <- Deals, custody <- escrow

\* Whoever fills an order, in whatever pool and however it is cut, the program
\* keeps the promise of an order: custody, price, rate, cadence and return.
KeepsPromise == Promise!Spec

-----------------------------------------------------------------------------
Ledger == [round : Nat, keeper : Nat, proceeds : Nat, fills : Nat]

TypeOK ==
  /\ now \in Genesis .. MaxTime
  /\ order \in [Ids -> OpenOrFilled \cup {NoOrder}]
  /\ escrow \in [Ids -> Nat]
  /\ pool \in Market
  /\ ledger \in [Ids -> Ledger]

\* The escrow always covers what is not executed yet: no fill, fee or refund
\* spends the tokens of a later tranche.
EscrowCovers == \A id \in Ids : Exists(id) => escrow[id] >= order[id].remaining

\* Whatever the keepers, the market and the tranches did, the owner has
\* received at least the limit price for all that left the order so far.
Executed(id) == order[id].request.total - order[id].remaining
LimitHonoured ==
  \A id \in Ids : Exists(id) =>
    ledger[id].proceeds * order[id].request.tranche
      >= order[id].request.minOut * Executed(id)

\* All keepers together take no more than the stated rate of what was
\* executed, whichever way it was cut into tranches.
KeeperFeeBounded ==
  \A id \in Ids : Exists(id) =>
    ledger[id].keeper * BpsDenom <= order[id].request.feeBps * Executed(id)

\* A DCA order sells at most one tranche per interval.
CadenceKept ==
  \A id \in Ids : Exists(id) /\ ledger[id].fills > 0 =>
    /\ order[id].lastExec < order[id].request.expiry
    /\ Genesis + (ledger[id].fills - 1) * order[id].request.interval
         <= order[id].lastExec

\* No open order is ever stuck: its owner can cancel it, anyone can crank it
\* once expired, and anyone can sweep a filled one, whatever was sent to the
\* escrow and whatever a swap left in it.
NeverStuck ==
  \A id \in Ids :
    /\ IsOpen(id) => ENABLED Cancel(id)
    /\ IsOpen(id) /\ IsExpired(id) => ENABLED CrankExpired(id)
    /\ order[id].status = Filled => ENABLED CloseFilled(id)
=============================================================================
