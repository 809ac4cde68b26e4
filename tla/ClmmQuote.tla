----------------------------- MODULE ClmmQuote -----------------------------
(***************************************************************************)
(* The off-chain quote of a swap (sdk/clmm-quote.mjs) beside the program   *)
(* it mirrors.  The quote reads the pool and the window of tick arrays and *)
(* walks them by itself; a quote that throws is no answer.  Its integers   *)
(* have no width, its arithmetic is ClmmMath's, line by line.              *)
(***************************************************************************)
EXTENDS Clmm

\* The ticks with liquidity that nextTarget looks at: the slots of the window
\* from the candidate on.
QuoteListed(w, low, high) ==
  LET cand == (w.tick \div TickSpacing) * TickSpacing + (IF w.down THEN 0 ELSE TickSpacing)
  IN  { t \in Slots : /\ ticks[t].gross # 0 /\ low <= t /\ t < high
                      /\ IF w.down THEN t <= cand ELSE t >= cand }

\* nextTarget: the nearest of them, else the edge of the window; empty where it
\* throws.
QuoteTargets(w, low, high) ==
  LET cand == (w.tick \div TickSpacing) * TickSpacing + (IF w.down THEN 0 ELSE TickSpacing)
      listed == QuoteListed(w, low, high)
  IN  IF listed # {} THEN { IF w.down THEN Max(listed) ELSE Min(listed) }
      ELSE IF w.down THEN { t \in {low} : cand >= low } ELSE { t \in {high} : cand <= high }

\* Mutant: the quote does not know how many ticks a swap crosses at most.
QuoteDoneUncapped(w, limit) == w.failed \/ w.remaining <= 0 \/ w.price = limit

QuoteDone(w, limit) ==
  w.failed \/ w.remaining <= 0 \/ w.price = limit \/ w.crossings >= MaxCrossings

\* A round of the quote towards the target.
QuoteRound(w, target, limit, low, high) ==
  LET bound == SqrtPrice[Clamp(target)]
      goal == IF w.down THEN MaxOf(bound, limit) ELSE MinOf(bound, limit)
      step == IF w.liquidity = 0 THEN [price |-> goal, in |-> 0, out |-> 0, fee |-> 0]
              ELSE SwapStep(w.price, goal, w.liquidity, w.remaining, FeePips)
      arrives == step.price = bound
      crosses == arrives /\ target \in QuoteListed(w, low, high)
      net == IF ~crosses THEN 0 ELSE IF w.down THEN -ticks[target].net ELSE ticks[target].net
  IN  [w EXCEPT !.remaining = @ - step.in - step.fee,
                !.in = @ + step.in, !.fee = @ + step.fee, !.out = @ + step.out,
                !.price = step.price,
                !.liquidity = @ + net,
                !.failed = w.liquidity + net < 0,
                !.crossings = IF crosses THEN @ + 1 ELSE @,
                !.tick = IF arrives THEN IF w.down THEN target - 1 ELSE target
                         ELSE IF step.price # pool.price THEN TickAtSqrtPrice(step.price)
                         ELSE @]

\* The body of the loop; a quote that is done stays as it is.
QuoteStep(w, limit, low, high) ==
  IF QuoteDone(w, limit) THEN w
  ELSE LET targets == QuoteTargets(w, low, high)
       IN  IF targets = {} THEN [w EXCEPT !.failed = TRUE]
           ELSE QuoteRound(w, CHOOSE t \in targets : TRUE, limit, low, high)

QuoteStart(down, amount) ==
  [down |-> down, price |-> pool.price, tick |-> pool.tick, liquidity |-> pool.liquidity,
   remaining |-> amount, in |-> 0, out |-> 0, fee |-> 0, crossings |-> 0, failed |-> FALSE]

QuoteRounds(down, amount, limit, low, high) ==
  LET after[n \in Nat] == IF n = 0 THEN QuoteStart(down, amount)
                          ELSE QuoteStep(after[n - 1], limit, low, high)
  IN  after

\* quoteClmmExactInSync over the arrays from low to high.  Every round but the
\* last passes a tick of the window, so there are no more than it has ticks.
Quote(down, amount, limit, low, high) ==
  QuoteRounds(down, amount, limit, low, high)[high - low]

\* The quote for the swap under way, taken as it started: a swap changes the
\* pool only when it settles.
QuoteOfWalk ==
  Quote(walk.down, walk.remaining + walk.in + walk.fee, walk.limit, walk.low, walk.high)

\* The amounts and the price that the quote promises are what the swap settles,
\* to the last unit, a fill cut short by the limit or by the ticks crossed
\* included ("the quote must equal the realized on-chain output EXACTLY",
\* clmm-quote.mjs).  Its tick is the settled one only once it is held to the
\* band, which the program does (EndTick) and the quote leaves out.
QuoteIsFill ==
  walk.active /\ ~Running =>
    LET quote == QuoteOfWalk
    IN  /\ ~quote.failed
        /\ [f \in {"in", "out", "fee", "price", "remaining"} |-> quote[f]]
             = [f \in {"in", "out", "fee", "price", "remaining"} |-> walk[f]]
        /\ Clamp(quote.tick) = EndTick
=============================================================================
