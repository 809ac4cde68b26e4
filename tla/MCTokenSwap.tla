---------------------------- MODULE MCTokenSwap ----------------------------
(* Fee schedules for the TokenSwap runs. *)
EXTENDS TokenSwap

Rate(n, d) == [num |-> n, den |-> d]
Schedule(trade, owner) == [trade |-> trade, owner |-> owner]

\* A quarter to the LPs and a third to the protocol, so that floor, minimum
\* fee and exact multiples all occur among small amounts; an eighth to each,
\* where the minimum of one token is what small amounts pay; and schedules
\* without a trade fee, without any fee, adding up to 100% and invalid.
SplitFees == Schedule(Rate(1, 4), Rate(1, 3))
SmallFees == Schedule(Rate(1, 8), Rate(1, 8))
OwnerFees == Schedule(Rate(0, 0), Rate(1, 3))
FreeFees == Schedule(Rate(0, 1), Rate(0, 0))
WholeFees == Schedule(Rate(1, 2), Rate(1, 2))
InvalidFees == Schedule(Rate(1, 3), Rate(3, 3))

SplitSchedules == {SplitFees, SmallFees, InvalidFees}
OwnerSchedules == {OwnerFees, FreeFees}
WholeSchedules == {WholeFees}
NoConstraints == {}
OwnerConstraints == {OwnerFees}        \* FreeFees falls short of it

\* Token A may come to keep a quarter of a transfer, at most 2 units.
NoMintFees == [side \in Sides |-> NoTransferFee]
QuarterOfA == [NoMintFees EXCEPT !["A"] = [bps |-> 2500, maximum |-> 1]]
Untaxable == {NoMintFees}
Taxable == {NoMintFees, QuarterOfA}
=============================================================================
