------------------------------- MODULE Backtest -------------------------------
(***************************************************************************)
(* BacktestRunner.run for one entry strategy: every session of the window  *)
(* executes what the session before decided, extends the high watermarks,  *)
(* lets the risk exits and then the strategy decide as of the close, and   *)
(* values the account.  Orders are planned by the allocator of the daily   *)
(* run; a bar that is missing costs one order, not the whole day.          *)
(*                                                                         *)
(* One copy of this module is one run on one market.  What the database    *)
(* holds for the run's private account is acct (cash, lots, watermarks,    *)
(* fills) and bundles; what run() keeps in memory is curve, unfilled and   *)
(* last.  The market never changes: a run reads a store nobody writes.     *)
(* Prices are in units of 1/10000 TWD and amounts in whole TWD, each with  *)
(* the rounding the code gives it.                                         *)
(***************************************************************************)
EXTENDS AllocatorOps, MarketRules

CONSTANTS Universe,      \* sequence of symbols, in the order of their codes
          Members,       \* day -> symbols_as_of(day)
          Approved,      \* whether the active manifest allows backtests of this entry
          Lim,           \* budget and limits, as AllocatorOps takes them
          InitialCash, SlippageBps,
          Start, End     \* the window

Symbols == ToSet(Universe)

VARIABLES strategy,  \* strategy_id of the entry specification
          market,    \* symbol -> day -> bar
          at,        \* [ day, step ] of run()
          acct,      \* cash, lots of each symbol, watermarks, fills, matches
          bundles,   \* rows of signal_bundles with their items
          memory     \* curve, unfilled orders, last known closes

vars == << strategy, market, at, acct, bundles, memory >>

SumOver(op(_), seq) == FoldLeft(LAMBDA n, x : n + op(x), 0, seq)

PriceUnit == 10000

\* The amount of an order or a fill, and the worth of a position at a price.
Amount(qty, price) == Rounded(qty * price, PriceUnit)
Floored(qty, price) == (qty * price) \div PriceUnit

Qty(lots)  == SumOver(LAMBDA l : l.qty, lots)

\* Quantity-weighted average price and first acquisition of a position.
Wavg(lots)  == SumOver(LAMBDA l : l.qty * l.price, lots) \div Qty(lots)
First(lots) == Head(lots).day

Held == { s \in Symbols : acct.lots[s] # << >> }

\* A run of strategy p in the state it starts from on market m.
Begins(p, m) ==
  /\ strategy = p
  /\ market = m
  /\ at = [ day |-> Start, step |-> "execute" ]
  /\ acct = [ cash |-> InitialCash, lots |-> [ s \in Symbols |-> << >> ],
              marks |-> {}, fills |-> << >>, matches |-> << >> ]
  /\ bundles = {}
  /\ memory = [ curve |-> << >>, unfilled |-> {}, skipped |-> {},
                last |-> [ s \in Symbols |-> [ high |-> 0, low |-> 0, close |-> 0 ] ] ]

-----------------------------------------------------------------------------
(* A. Execute the bundles that target the day. *)

Bundle(d, exit) == { b \in bundles : b.target = d /\ b.exit = exit }

\* _find_bundles: the items come back without their ranking score, so a
\* strategy's BUYs are in the order of their symbols.
Signals(d, exit, side) ==
  LET rows == Bundle(d, exit)
  IN IF rows = {} THEN << >>
     ELSE SelectSeq((CHOOSE b \in rows : TRUE).items, LAMBDA i : i.side = side)

\* plan() sizes a BUY with the fractional price of its signal: the budget is the
\* least of five caps, and the quantity shrinks until fee and limits fit.
OrderBudget(p) ==
  Min({ Lim.budget[strategy], Lim.orderValue[strategy],
        Lim.strategyDaily[strategy] - p.sspent[strategy], Lim.globalDaily - p.gspent, p.cash })

Fits(p, sig, q) ==
  LET value == Amount(q, sig.price)
  IN /\ value + Fee(value) <= p.cash
     /\ value <= Lim.strategyDaily[strategy] - p.sspent[strategy]
     /\ value <= Lim.globalDaily - p.gspent

PlanEntry(acc, sig) ==
  LET p    == acc.p
      top  == (OrderBudget(p) * PriceUnit) \div sig.price
      q    == top - CHOOSE k \in 0 .. top - 1 : /\ Fits(p, sig, top - k)
                                                /\ k > 0 => ~ Fits(p, sig, top - k + 1)
      value == Amount(q, sig.price)
  IN IF BuyAllowed(p, Lim, sig) /\ top > 0 /\ Fits(p, sig, 1)
     THEN [ p |-> [ p EXCEPT !.pos[<< strategy, sig.symbol >>] = @ + q,
                             !.cash = @ - value - Fee(value),
                             !.gspent = @ + value, !.sspent[strategy] = @ + value,
                             !.newCount = @ + 1 ],
            orders |-> acc.orders \o BuyOrders(sig, q) ]
     ELSE acc

\* Exit bundles first; a BUY needs the manifest, whose dates a backtest ignores.
DayPlan(d) ==
  LET before == [ pos |-> [ b \in {strategy} \X Symbols |-> Qty(acct.lots[b[2]]) ],
                  cash |-> acct.cash, gspent |-> 0, sspent |-> [ s \in {strategy} |-> 0 ],
                  netted |-> {}, newCount |-> 0 ]
      exits  == AfterSells([ p |-> before, orders |-> << >> ],
                           Signals(d, TRUE, "SELL") \o Signals(d, FALSE, "SELL"))
  IN FoldLeft(PlanEntry, exits, IF Approved THEN Signals(d, FALSE, "BUY") ELSE << >>).orders

\* The open with its slippage, three times as much for an odd lot.
FillPrice(o, d) ==
  LET bps  == IF o.odd THEN 3 * SlippageBps ELSE SlippageBps
      open == market[o.symbol][d].open
  IN Rounded(open * (IF o.side = "BUY" THEN 10000 + bps ELSE 10000 - bps), 10000)

\* The fee of a purchase as a sale sees it: of the amount before it was rounded.
\* Whole dollars and the rest apart, for the arithmetic of TLC.
BuyFeeTotal(qty, price) ==
  LET whole == (qty * price) \div PriceUnit
      rest  == (qty * price) % PriceUnit
  IN Max({20, (whole * 1425 + 500000 + (rest * 1425) \div PriceUnit) \div 1000000})

\* One lot of the FIFO deduction: what is still to be sold, the lots that stay
\* and the matches.  The gross result is rounded down; a match carries its share
\* of the costs of both sides, rounded once.
Deduct(acc, lot, o, price, d) ==
  LET q     == Min({lot.qty, acc.todo})
      value == Amount(o.qty, price)
      gross == Floored(q, price - lot.price)
      costs == Rounded(BuyFeeTotal(lot.bought, lot.price) * q * o.qty
                         + (Fee(value) + Tax(value)) * q * lot.bought, lot.bought * o.qty)
  IN IF acc.todo = 0 THEN [ acc EXCEPT !.keep = Append(@, lot) ]
     ELSE [ todo |-> acc.todo - q,
            keep |-> IF q = lot.qty THEN acc.keep
                     ELSE Append(acc.keep, [ lot EXCEPT !.qty = @ - q ]),
            matches |-> Append(acc.matches,
                          [ day |-> d, since |-> lot.day, symbol |-> o.symbol, qty |-> q,
                            gross |-> gross, net |-> gross - costs ]) ]

\* apply_fill_transaction.
Booked(a, o, price, d) ==
  LET value == Amount(o.qty, price)
      lot   == [ qty |-> o.qty, bought |-> o.qty, price |-> price, day |-> d ]
      sold  == FoldLeft(LAMBDA acc, l : Deduct(acc, l, o, price, d),
                        [ todo |-> o.qty, keep |-> << >>, matches |-> a.matches ],
                        a.lots[o.symbol])
      filled == [ a EXCEPT !.fills = Append(@, [ day |-> d, symbol |-> o.symbol,
                                                 side |-> o.side, qty |-> o.qty,
                                                 price |-> price ]) ]
  IN IF o.side = "BUY"
     THEN [ filled EXCEPT !.cash = @ - value - Fee(value),
                          !.lots[o.symbol] = Append(@, lot) ]
     ELSE [ filled EXCEPT !.cash = @ + value - Fee(value) - Tax(value),
                          !.lots[o.symbol] = sold.keep, !.matches = sold.matches ]

\* Mutant: a SELL must be covered by cash as well.
CashForAnyOrder(a, o, price) == Amount(o.qty, price) + Fee(Amount(o.qty, price)) <= a.cash

\* enforce_cash of a BUY.
Payable(a, o, price) ==
  o.side = "BUY" => Amount(o.qty, price) + Fee(Amount(o.qty, price)) <= a.cash

\* One order: unfilled, skipped for want of cash, or booked.
AfterOrder(acc, o, d) ==
  LET reason == UnfilledReason(market, o, d)
  IN IF reason # "none"
     THEN [ acc EXCEPT !.unfilled = @ \cup {<< d, o.symbol, o.side, o.odd, reason >>} ]
     ELSE IF ~ Payable(acc.acct, o, FillPrice(o, d))
     THEN [ acc EXCEPT !.skipped = @ \cup {<< d, o.symbol, o.side, o.odd >>} ]
     ELSE [ acc EXCEPT !.acct = Booked(acc.acct, o, FillPrice(o, d), d) ]

Execute ==
  /\ at.step = "execute"
  /\ \E plan \in {DayPlan(at.day)} :
       LET after == FoldLeft(LAMBDA acc, o : AfterOrder(acc, o, at.day),
                             [ acct |-> acct, unfilled |-> memory.unfilled,
                               skipped |-> memory.skipped ], plan)
       IN /\ acct' = after.acct
          /\ memory' = [ memory EXCEPT !.unfilled = after.unfilled,
                                       !.skipped = after.skipped ]
  /\ at' = [ at EXCEPT !.step = "mark" ]
  /\ UNCHANGED << strategy, market, bundles >>

-----------------------------------------------------------------------------
(* B. Watermarks of the positions held at the close. *)

\* Mutant: the close of the day of the purchase is not recorded.
MarksOfYesterday(d) ==
  { << s, d, market[s][d].close >> : s \in { x \in Held : Found(market, x, d)
                                                         /\ First(acct.lots[x]) < d } }

NewMarks(d) == { << s, d, market[s][d].close >> : s \in { x \in Held : Found(market, x, d) } }

Mark ==
  /\ at.step = "mark"
  /\ acct' = [ acct EXCEPT !.marks = @ \cup NewMarks(at.day) ]
  /\ at' = [ at EXCEPT !.step = "signal" ]
  /\ UNCHANGED << strategy, market, bundles, memory >>

-----------------------------------------------------------------------------
(* C. Signals as of the close: risk exits, then the strategy. *)

\* get_position_high from the day the open lots were acquired; 0 when none.
PositionHigh(s) ==
  Max({0} \cup { k[3] : k \in { j \in acct.marks :
                                j[1] = s /\ j[2] >= First(acct.lots[s]) } })

Reason(s, d) ==
  IF s \notin Held THEN "none"
  ELSE ExitReason(market, s, d, Wavg(acct.lots[s]), First(acct.lots[s]), PositionHigh(s))

Item(s, side, d) ==
  [ id |-> << d, s, side >>, strategy |-> strategy, symbol |-> s, side |-> side,
    price |-> Last(History(market, s, d, 1)).close ]

ExitItems(d) ==
  LET out == SelectSeq(Universe, LAMBDA s : Reason(s, d) # "none")
  IN [ i \in DOMAIN out |-> Item(out[i], "SELL", d) ]

\* The bundle of the strategy: a BUY of what it does not hold, and for
\* trend_pullback a SELL of what it does.
EntryItems(d) ==
  LET decides(s) == IF s \in Held
                    THEN OwnExit(strategy, market, s, d, Wavg(acct.lots[s]))
                    ELSE Enters(strategy, market, s, d)
      chosen == SelectSeq(Universe, LAMBDA s : s \in Members[d] /\ decides(s))
  IN [ i \in DOMAIN chosen |->
         Item(chosen[i], IF chosen[i] \in Held THEN "SELL" ELSE "BUY", d) ]

Row(d, exit, items) == [ target |-> NextSession(d), exit |-> exit, items |-> items ]

\* generate_exit_bundles gives a bundle only when there is a signal; the entry
\* bundle is saved even when it is empty.
Decide ==
  /\ at.step = "signal"
  /\ \E exits \in {ExitItems(at.day)}, entries \in {EntryItems(at.day)} :
       bundles' = bundles \cup {Row(at.day, FALSE, entries)}
                  \cup (IF exits = << >> THEN {} ELSE {Row(at.day, TRUE, exits)})
  /\ at' = [ at EXCEPT !.step = "record" ]
  /\ UNCHANGED << strategy, market, acct, memory >>

-----------------------------------------------------------------------------
(* D. The equity of the session. *)

\* last_known_*: the bar of the day of what is held, else what was known.
LastKnown(d) ==
  [ s \in Symbols |-> IF s \in Held /\ Found(market, s, d)
                      THEN [ high |-> market[s][d].high, low |-> market[s][d].low,
                             close |-> market[s][d].close ]
                      ELSE memory.last[s] ]

\* Each position rounded down.
Worth(last, field) == MapThenSumSet(LAMBDA s : Floored(Qty(acct.lots[s]), last[s][field]), Held)

Point(d, last) ==
  [ day |-> d, cash |-> acct.cash, position |-> Worth(last, "close"),
    equity |-> acct.cash + Worth(last, "close"),
    high |-> acct.cash + Worth(last, "high"), low |-> acct.cash + Worth(last, "low") ]

Record ==
  /\ at.step = "record"
  /\ \E last \in {LastKnown(at.day)} :
       memory' = [ memory EXCEPT !.last = last,
                                 !.curve = Append(@, Point(at.day, last)) ]
  /\ at' = IF at.day = End THEN [ day |-> End, step |-> "done" ]
           ELSE [ day |-> NextSession(at.day), step |-> "execute" ]
  /\ UNCHANGED << strategy, market, acct, bundles >>

Next == Execute \/ Mark \/ Decide \/ Record
=============================================================================
