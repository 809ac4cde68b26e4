------------------------------ MODULE MCOrders ------------------------------
(* Orders, markets and account lists for the Orders and Keeper runs. *)
EXTENDS Orders

Req(side, total, tranche, minOut, interval, expiry, feeBps) ==
  [side |-> side, total |-> total, tranche |-> tranche, minOut |-> minOut,
   interval |-> interval, expiry |-> expiry, feeBps |-> feeBps, payable |-> TRUE]

\* Trade 1%, protocol 1%, over a thousand of each token: a tranche of 410 sells
\* about 280 of the other side in the balanced market and about 580 in the
\* dear one; 50 bps of it is a keeper fee of 2.
Fees == [trade |-> [num |-> 1, den |-> 100], owner |-> [num |-> 1, den |-> 100]]
Reserves(a, b) == [lp |-> [side \in Side |-> IF side = "A" THEN a ELSE b],
                   fees |-> [side \in Side |-> 0]]
Balanced == Reserves(1000, 1000)
Dear == Reserves(700, 1600)
TwoMarkets == {Balanced, Dear}

\* Fees the protocol has not collected yet lie in the vaults.
DearWithFees == [Dear EXCEPT !.fees = [side \in Side |-> 40]]
\* Deeper on both sides and cheaper: the balance of the dear market's source
\* vault next to the other balance of this one looks like a price to fill at.
Deep == Reserves(1400, 2000)
FeeMarkets == {Deep, DearWithFees}

\* A limit order of two tranches and a half, whose floor only the dear market
\* meets; a DCA order without a floor whose last tranche of 1 never fills;
\* requests Place must turn down.
Limit == Req("A", 1025, 410, 560, 0, 6, 50)
Dca == Req("A", 801, 400, 0, 2, 7, 50)
Unsound == { [Limit EXCEPT !.minOut = 0], [Limit EXCEPT !.tranche = 1100],
             [Dca EXCEPT !.feeBps = 51], [Dca EXCEPT !.interval = 5] }

\* An order that outlives every run, next to one that expires in it.
Patient == Req("A", 410, 410, 574, 0, 99, 50)
Hasty == Req("A", 410, 410, 560, 0, 5, 50)
KeeperRequests == {Patient, Hasty}
\* The dear market meets this floor; its vault balances seem not to.
QuoteRequests == {[Patient EXCEPT !.minOut = 578]}
OrderRequests == {Limit, Dca} \cup Unsound

\* The order's own accounts, as the orders program and its clients list them.
LegacyLayout == ExecuteAccounts

\* What the DEX program of this repository unpacks (program/src/instruction.rs
\* and processor.rs): the pool is written, and no fee account is listed.
RepoLayout ==
  << Account("pool", TRUE), Account("authority", FALSE), Account("order", FALSE),
     Account("escrow", TRUE), Account("sourceVault", TRUE),
     Account("destVault", TRUE), Account("destination", TRUE),
     Account("poolMint", TRUE), Account("sourceMint", FALSE),
     Account("destMint", FALSE), Account("token", FALSE),
     Account("token", FALSE), Account("token", FALSE) >>
=============================================================================
