------------------------------- MODULE Keeper -------------------------------
(***************************************************************************)
(* The keeper bot (harness/keeper.mjs) over the orders program: it polls,  *)
(* reads a snapshot of the order accounts, quotes each one against the     *)
(* balances of two vaults it reads one after the other, and sends an       *)
(* Execute or a CrankExpired that meets whatever the chain holds by then.  *)
(* Between any two of its reads the world may move.  A transaction may be  *)
(* lost, and one that fails only counts as skipped.                        *)
(***************************************************************************)
EXTENDS Orders, SequencesExt

CONSTANTS Listed,          \* requests for a pool of the keeper's deployment file
          MaxSkew,         \* bound: how far its host's clock is from the chain's
          DiscoveryLimit   \* how many recent signatures discoverOrders walks

\* A pool with an emptied side is beyond the markets of the model: the quote
\* would divide by zero there (QuoteThrows).
ASSUME KeeperAssumption ==
  /\ Listed \subseteq Requests /\ MaxSkew \in Nat
  /\ "keeper" \in Payees
  /\ DiscoveryLimit \in Nat \ {0}
  /\ \A m \in Markets, side \in Side : m.lp[side] > 0

VARIABLES up,        \* the keeper process runs
          recent,    \* the order of each recent transaction, the latest first
          poll,      \* the accounts discovered and not fetched yet, with the
                     \* host's clock of that time, or None
          todo,      \* the accounts still to be handled, as they were fetched
          seen,      \* the balance of the source vault, read for the next of them
          sending    \* the transaction on its way to the chain

keeperVars == <<up, poll, todo, seen, sending>>
allVars == <<now, order, escrow, pool, ledger, up, recent, poll, todo, seen, sending>>

\* awaited: the bot that sent the transaction is still there to see its fate.
Nothing == [kind |-> "nothing", awaited |-> FALSE]
Transaction(kind, id) == [kind |-> kind, id |-> id, awaited |-> TRUE]

KeeperInit ==
  /\ Init
  /\ up = TRUE
  /\ recent = <<>>
  /\ poll = None /\ todo = <<>> /\ seen = None
  /\ sending = Nothing

-----------------------------------------------------------------------------
(* Discovery.  Every transaction of the program leaves a signature, and    *)
(* each changes exactly one order account.                                 *)

Signed ==
  LET touched == {id \in Ids : order'[id] # order[id]}
      signatures == SetToSeq(touched) \o recent
  IN  recent' = SubSeq(signatures, 1, MinOf(DiscoveryLimit, Len(signatures)))

\* discoverOrders: every account once, in the order it was first met.
Discovered ==
  FoldLeft(LAMBDA found, id : IF Contains(found, id) THEN found ELSE Append(found, id),
           <<>>, recent)

\* runOnce begins with the clock and the signatures.
StartPass ==
  /\ poll = None /\ todo = <<>> /\ ~sending.awaited
  /\ up' = TRUE
  /\ \E asOf \in now - MaxSkew .. now + MaxSkew :
       poll' = Some([asOf |-> asOf, found |-> Discovered])
  /\ UNCHANGED <<vars, recent, todo, seen, sending>>

\* The accounts that still exist, all as of one later moment.
Snapshot(found, asOf) ==
  LET accts == SelectSeq(found, Exists)
  IN  [i \in DOMAIN accts |-> [id |-> accts[i], order |-> order[accts[i]], asOf |-> asOf]]

FetchAccounts ==
  /\ \E p \in poll : todo' = Snapshot(p.found, p.asOf)
  /\ poll' = None
  /\ UNCHANGED <<vars, up, recent, seen, sending>>

-----------------------------------------------------------------------------
(* One account of the pass.                                                *)

\* quoteExactIn of sdk/quote.mjs, on what is left of `amount` after the fees.
\* Unlike the program it accepts an amount the fees eat up.
QuoteSource(amount, reserveIn) == reserveIn + amount - TotalFees(amount, PoolFees)
QuoteOut(amount, reserveIn, reserveOut) ==
  reserveOut - CeilDiv(reserveIn * reserveOut, QuoteSource(amount, reserveIn))

\* The keeper quotes against the balances of the vaults, protocol fees included.
QuoteReserve(side) == pool.lp[side] + pool.fees[side]

TrancheOf(o) == MinOf(o.request.tranche, o.remaining)
SwapInOf(o) == TrancheOf(o) - KeeperFee(o.request, TrancheOf(o))

\* A division by zero throws.
QuoteThrows(o, reserveIn) == QuoteSource(SwapInOf(o), reserveIn) = 0

\* The balance of the source vault was read first, the other one is read now.
QuoteClears(o, reserveIn) ==
  QuoteOut(SwapInOf(o), reserveIn, QuoteReserve(OtherSide(o.request.side)))
    >= EffectiveMinOut(o.request, TrancheOf(o))

\* Mutant: an order past its expiry is quoted like any other.
DecisionNoCrank(o, asOf) ==
  IF o.status # Open \/ o.request \notin Listed THEN "skip"
  ELSE IF asOf < o.lastExec + o.request.interval THEN "skip" ELSE "quote"

\* Mutant: the host's clock is rounded up to a full second.
DecisionRoundedUp(o, asOf) ==
  IF o.status # Open \/ o.request \notin Listed THEN "skip"
  ELSE IF asOf + 1 >= o.request.expiry THEN "crank"
  ELSE IF asOf + 1 < o.lastExec + o.request.interval THEN "skip" ELSE "quote"

Decision(o, asOf) ==
  IF o.status # Open \/ o.request \notin Listed THEN "skip"
  ELSE IF asOf >= o.request.expiry THEN "crank"
  ELSE IF asOf < o.lastExec + o.request.interval THEN "skip" ELSE "quote"

\* Mutant: the two vaults are taken the wrong way round.
ReadSourceVaultSwapped ==
  /\ todo # <<>> /\ ~sending.awaited /\ seen = None
  /\ LET next == Head(todo)
     IN  /\ Decision(next.order, next.asOf) = "quote"
         /\ seen' = Some(QuoteReserve(OtherSide(next.order.request.side)))
  /\ UNCHANGED <<vars, up, recent, poll, todo, sending>>

\* The first of the two balances of a quote.
ReadSourceVault ==
  /\ todo # <<>> /\ ~sending.awaited /\ seen = None
  /\ LET next == Head(todo)
     IN  /\ Decision(next.order, next.asOf) = "quote"
         /\ seen' = Some(QuoteReserve(next.order.request.side))
  /\ UNCHANGED <<vars, up, recent, poll, todo, sending>>

\* A transaction that a bot now dead left behind is forgotten when the next one
\* is sent: it may still land at any time before.
Handle ==
  /\ todo # <<>> /\ ~sending.awaited
  /\ LET next == Head(todo)
         decision == Decision(next.order, next.asOf)
         Send(kind) == sending' = Transaction(kind, next.id)
     IN  \/ decision = "skip" /\ UNCHANGED sending
         \/ decision = "crank" /\ Send("crank")
         \/ /\ decision = "quote"
            /\ \E reserveIn \in seen :
                 /\ ~QuoteThrows(next.order, reserveIn)      \* but Crash
                 /\ IF QuoteClears(next.order, reserveIn) THEN Send("execute")
                    ELSE UNCHANGED sending
  /\ todo' = Tail(todo) /\ seen' = None
  /\ UNCHANGED <<vars, up, recent, poll>>

\* The chain runs the transaction, or the keeper sees it rejected or lost.
Deliver(id) ==
  /\ sending # Nothing /\ sending.id = id
  /\ \/ sending.kind = "execute" /\ Execute(id, "keeper")
     \/ sending.kind = "crank" /\ CrankExpired(id)
  /\ sending' = Nothing /\ Signed
  /\ UNCHANGED <<up, poll, todo, seen>>

Drop ==
  /\ sending # Nothing
  /\ sending' = Nothing
  /\ UNCHANGED <<vars, up, recent, poll, todo, seen>>

\* Only the two transactions are in a catch: an exception anywhere else (a
\* request to the node, an account to create, the quote) ends the process, and
\* so does its host.  It is started again, with the next pass, without any memory.
Crash ==
  /\ poll # None \/ todo # <<>> \/ sending.awaited
  /\ up' = FALSE
  /\ poll' = None /\ todo' = <<>> /\ seen' = None
  /\ sending' = [sending EXCEPT !.awaited = FALSE]
  /\ UNCHANGED <<vars, recent>>

World == Next /\ Signed /\ UNCHANGED keeperVars

KeeperNext ==
  \/ World
  \/ StartPass
  \/ FetchAccounts
  \/ ReadSourceVault
  \/ Handle
  \/ \E id \in Ids : Deliver(id)
  \/ Drop
  \/ Crash

\* The clock goes on, the bot polls forever and handles one account after the
\* other, a transaction sent again and again is not lost every time, and from
\* some time on the process stays up.
Fairness ==
  /\ WF_allVars(Tick /\ Signed /\ UNCHANGED keeperVars)
  /\ WF_allVars(StartPass) /\ WF_allVars(FetchAccounts)
  /\ WF_allVars(ReadSourceVault) /\ WF_allVars(Handle) /\ WF_allVars(Drop)
  /\ \A id \in Ids : SF_allVars(Deliver(id))
  /\ <>[]up

KeeperSpec == KeeperInit /\ [][KeeperNext]_allVars /\ Fairness

-----------------------------------------------------------------------------
\* A quote can tell what the chain will do only where the order has a floor, the
\* swap leaves a token of the other side, and the protocol fees in the vaults do
\* not make the price look better than it is.
Quotable(o) ==
  LET in == o.request.side
      out == OtherSide(in)
      source == QuoteSource(SwapInOf(o), pool.lp[in])
  IN  /\ EffectiveMinOut(o.request, TrancheOf(o)) > 0
      /\ source \in 1 .. pool.lp[in] * pool.lp[out]
      /\ source * pool.fees[out] <= pool.fees[in] * pool.lp[out]

\* The order now handled is still what the pass read, whose clock is not ahead.
AsRead(id) ==
  LET next == Head(todo)
  IN  next.id = id /\ next.order = order[id] /\ next.asOf \in 0 .. now

\* "So we don't burn a tx on an unfillable order" (keeper.mjs): whenever the
\* keeper sends a transaction for an order that is still as the pass read it, the
\* chain would run it at that moment.  Only an Execute may be wasted otherwise:
\* where the order expired or the source vault moved since it was read, where
\* Place let in what cannot be paid, or beyond what a quote can tell.
NoWastedSend ==
  [][ \A id \in Ids :
        ~sending.awaited /\ sending'.awaited /\ AsRead(id) =>
          \/ sending'.kind = "crank" /\ IsOpen(id) /\ IsExpired(id)
          \/ /\ sending'.kind = "execute"
             /\ \/ Fills(id, "keeper") # None
                \/ IsExpired(id)
                \/ seen # Some(QuoteReserve(order[id].request.side))
                \/ ~order[id].request.payable \/ ~CpiAccepted
                \/ ~Quotable(order[id]) ]_allVars

\* What the keeper waits for is an order that the chain would fill.
QuoteClearsNow(id) == QuoteClears(order[id], QuoteReserve(order[id].request.side))
Fillable(id) ==
  /\ IsOpen(id) /\ ~IsExpired(id) /\ DcaReady(id)
  /\ order[id].request \in Listed /\ order[id].request.payable
  /\ FillQuotes(id) # None /\ QuoteClearsNow(id)

\* The keeper knows the orders of the last transactions and no others.
InWindow(id) == Contains(recent, id)

\* A limit order whose price is there does not stay unfilled for ever, as long
\* as its last transaction is a recent one.
FillableIsFilled == \A id \in Ids : []<>~(Fillable(id) /\ InWindow(id))

\* An order that can expire ends, unless it drops out of sight: the owner
\* cancels it, keepers fill it, or the keeper returns what is left to its owner.
EveryOrderEnds ==
  \A id \in Ids :
    IsOpen(id) /\ order[id].request \in Listed /\ order[id].request.expiry + MaxSkew <= MaxTime
      ~> ~IsOpen(id) \/ ~InWindow(id)

\* The fill condition of the chain is that the quote clears the floor
\* (keeper.mjs, above effectiveMinOut): false both ways, the quote reads the raw vault balances.
QuoteDecidesFill ==
  \A id \in Ids :
    IsOpen(id) /\ ~IsExpired(id) /\ DcaReady(id) /\ order[id].request.payable =>
      (QuoteClearsNow(id) <=> Fills(id, "keeper") # None)
=============================================================================
