------------------------------ MODULE MCRouter ------------------------------
(* Two pools that share a mint, and a fee schedule of which half goes to the *)
(* protocol.  The pools have no last state: MaxSteps bounds the behaviours.  *)
EXTENDS Router

CONSTANT MaxSteps
VARIABLE steps

TwoPools ==
  [p \in {"xy", "yz"} |->
     IF p = "xy" THEN [A |-> "x", B |-> "y"] ELSE [A |-> "y", B |-> "z"]]
EighthFees == [trade |-> [num |-> 1, den |-> 8], owner |-> [num |-> 1, den |-> 8]]

Counted(Step) == steps < MaxSteps /\ Step /\ steps' = steps + 1

MCInit == Init /\ steps = 0
MCNext == Counted(OwnerCalls) \/ Counted(UserCalls) \/ Counted(Elsewhere)
MCSpec == MCInit /\ [][MCNext]_<<vars, steps>>
=============================================================================
