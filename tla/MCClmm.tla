------------------------------- MODULE MCClmm -------------------------------
(* Prices, positions and swaps for the Clmm runs. *)
EXTENDS ClmmQuote

\* A tick is a tenth in price: from 48 53 58 64 70 77 84.
Lowest == -3
Ratios == <<70, 77, 94>>
At(lower, upper) == [owner |-> "lp", lower |-> lower, upper |-> upper]
Overlapping == { At(-2, 2), At(0, 2), At(-2, 0) }
=============================================================================
