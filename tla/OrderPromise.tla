---------------------------- MODULE OrderPromise ----------------------------
(***************************************************************************)
(* What an order promises its owner, without pools, keepers, tranche       *)
(* arithmetic or account lists: tokens are taken into custody for a deal,  *)
(* trades use them up at the owner's price or better, and what was not     *)
(* traded comes back.  Module Orders is shown to implement it.             *)
(***************************************************************************)
EXTENDS Integers

CONSTANTS Ids,        \* where a deal may be made
          Requests    \* the terms it may be made on: see Request in Orders

VARIABLES now,        \* the time
          deal,       \* the deal made at each place, or NoDeal
          custody     \* the tokens held for it

vars == <<now, deal, custody>>

NoDeal == [made |-> FALSE]
Deal(terms, unsold, received, keepers, last) ==
  [made |-> TRUE, terms |-> terms, unsold |-> unsold, received |-> received,
   keepers |-> keepers, last |-> last]

Made(id) == deal[id] # NoDeal
Only(id) ==
  \A other \in Ids \ {id} : deal'[other] = deal[other] /\ custody'[other] = custody[other]

Init ==
  /\ deal = [id \in Ids |-> NoDeal]
  /\ custody = [id \in Ids |-> 0]

Wait == now' >= now /\ UNCHANGED <<deal, custody>>

\* All that is to be sold is taken into custody, on terms that still run.
Agree(id) ==
  /\ ~Made(id)
  /\ \E terms \in Requests :
       /\ now < terms.expiry
       /\ deal'[id] = Deal(terms, terms.total, 0, 0, 0)
       /\ custody'[id] = terms.total
  /\ Only(id) /\ UNCHANGED now

Donate(id) ==
  /\ Made(id)
  /\ deal'[id] = deal[id]
  /\ custody'[id] >= custody[id]
  /\ Only(id) /\ UNCHANGED now

\* A part of the deal, one tranche at most, before it expires and an interval
\* after the part before; the owner gets the price of the terms or a better
\* one, keepers get their rate or less, and custody loses no more than was sold.
Trade(id) ==
  /\ Made(id) /\ deal'[id] # NoDeal
  /\ deal'[id].terms = deal[id].terms
  /\ LET terms == deal[id].terms
         sold == deal[id].unsold - deal'[id].unsold
     IN  /\ sold \in 1 .. terms.tranche
         /\ deal'[id].unsold >= 0
         /\ now < terms.expiry
         /\ now >= deal[id].last + terms.interval
         /\ (deal'[id].received - deal[id].received) * terms.tranche >= terms.minOut * sold
         /\ (deal'[id].keepers - deal[id].keepers) * 10000 <= terms.feeBps * sold
         /\ custody'[id] >= custody[id] - sold
  /\ deal'[id].last = now
  /\ Only(id) /\ UNCHANGED now

\* Everything left in custody goes back to the owner.
Return(id) ==
  /\ Made(id)
  /\ custody[id] >= deal[id].unsold
  /\ deal'[id] = NoDeal /\ custody'[id] = 0
  /\ Only(id) /\ UNCHANGED now

Next == Wait \/ \E id \in Ids : Agree(id) \/ Donate(id) \/ Trade(id) \/ Return(id)

Spec == Init /\ [][Next]_vars
=============================================================================
