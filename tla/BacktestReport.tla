---------------------------- MODULE BacktestReport ----------------------------
(***************************************************************************)
(* What BacktestRunner makes of a finished run: statistics, return layers, *)
(* the years and the unfilled orders, and what must hold of them.  Ratios  *)
(* are in basis points, truncated; Sharpe and its relatives, the bootstrap,*)
(* the concentration of the winners and the deflated ratio are left out:   *)
(* they decide nothing but the numbers a gate compares.                    *)
(***************************************************************************)
EXTENDS Backtest

CONSTANT YearOf(_)     \* calendar year of a day

Done == at.step = "done"

-----------------------------------------------------------------------------
(* Statistics. *)

FinalEquity == Last(memory.curve).equity

GrossOf(match) == match.gross

\* Mutant: the net result is the gross one.
GrossAsNet(match) == match.gross

NetOf(match) == match.net

\* _max_drawdown_bound, in basis points of the peak.
Drawdown(peaks, troughs) ==
  Max({0} \cup { LET top == Max({ peaks[j] : j \in 1 .. i })
                 IN IF top > 0 THEN ((top - troughs[i]) * 10000) \div top ELSE 0
                 : i \in DOMAIN peaks })

Points(field) == [ i \in DOMAIN memory.curve |-> memory.curve[i][field] ]

\* The fields a gate, a report or another part of the result reads; the last is
\* the number of entry days, what the code takes for the effective sample.
Statistics ==
  [ final    |-> FinalEquity,
    pnl      |-> FinalEquity - InitialCash,
    drawdown |-> Drawdown(Points("equity"), Points("equity")),
    worst    |-> Drawdown(Points("high"), Points("low")),
    trades   |-> Len(acct.matches),
    wins     |-> Len(SelectSeq(acct.matches, LAMBDA x : NetOf(x) > 0)),
    profit   |-> SumOver(LAMBDA x : IF NetOf(x) > 0 THEN NetOf(x) ELSE 0, acct.matches),
    loss     |-> SumOver(LAMBDA x : IF NetOf(x) < 0 THEN - NetOf(x) ELSE 0, acct.matches),
    traded   |-> SumOver(LAMBDA f : Floored(f.qty, f.price), acct.fills),
    clusters |-> Cardinality({ x.since : x \in ToSet(acct.matches) }) ]

\* _total_fee_tax_paid.
FeeTaxPaid ==
  SumOver(LAMBDA f : Fee(Amount(f.qty, f.price))
                     + (IF f.side = "SELL" THEN Tax(Amount(f.qty, f.price)) ELSE 0), acct.fills)

\* _calculate_return_layers, as amounts: what the run earned, and what it would
\* have earned without fees and tax.
ReturnLayers ==
  [ executable |-> FinalEquity - InitialCash,
    portfolio  |-> FinalEquity + FeeTaxPaid - InitialCash ]

-----------------------------------------------------------------------------
(* Years: each starts from the equity the one before ended with. *)

Years == { YearOf(memory.curve[i].day) : i \in DOMAIN memory.curve }

YearPoints(y) == SelectSeq(memory.curve, LAMBDA e : YearOf(e.day) = y)

YearStart(y) ==
  LET before == { z \in Years : z < y }
  IN IF before = {} THEN Head(YearPoints(y)).equity ELSE Last(YearPoints(Max(before))).equity

YearReport(y) ==
  LET pnls == SelectSeq(acct.matches, LAMBDA x : YearOf(x.day) = y)
  IN [ start |-> YearStart(y), end |-> Last(YearPoints(y)).equity,
       pnl |-> SumOver(LAMBDA x : NetOf(x), pnls), trades |-> Len(pnls) ]

-----------------------------------------------------------------------------
(* Properties of one run. *)

\* The trailing high of a position is the highest close of a bar since it was
\* bought, its first day included: no session is missed and no close of an
\* earlier position of the symbol counts.
HighIsHighest ==
  at.step = "signal" =>
    \A s \in Held :
      LET seen == { d \in SessionsBetween(First(acct.lots[s]), at.day) : Found(market, s, d) }
      IN PositionHigh(s) = Max({0} \cup { market[s][d].close : d \in seen })

\* What is left of the fees of the purchases of a position, in price units.
OpenFees(lots) ==
  SumOver(LAMBDA l : (BuyFeeTotal(l.bought, l.price) * l.qty * PriceUnit) \div l.bought, lots)

\* The realised and the unrealised result explain the equity, whatever bars are
\* missing: what the trades won before costs, plus what the open lots gained
\* against their newest close, is the return before fees and tax; net of costs,
\* and of the fees of the open lots, it is the return of the run.  No more than
\* the roundings is lost: half a dollar for a fill, less than a dollar for the
\* match and for the position that is rounded down; net, half a dollar more for
\* a match, and a dollar for a purchase, whose fee is computed twice.  The years
\* add up to the same, each trade in one of them, and the drawdown within the day
\* is at least the one at the closes.
ResultsReconcile ==
  Done =>
    LET newest(s) == Last(History(market, s, End, 1)).close
        open  == MapThenSumSet(LAMBDA s : SumOver(LAMBDA l : (newest(s) - l.price) * l.qty,
                                                  acct.lots[s]), Held)
        fees  == MapThenSumSet(LAMBDA s : OpenFees(acct.lots[s]), Held)
        fills == Len(acct.fills)
        buys  == Len(SelectSeq(acct.fills, LAMBDA f : f.side = "BUY"))
        below == 5000 * fills + 9999 * Cardinality(Held)
        above == 5000 * fills + 9999 * Statistics.trades
        twice == 5000 * Statistics.trades + PriceUnit * buys
    IN /\ PriceUnit * (ReturnLayers.portfolio - SumOver(GrossOf, acct.matches)) - open
            \in - below .. above
       /\ PriceUnit * (ReturnLayers.executable - SumOver(NetOf, acct.matches)) - open + fees
            \in - (below + twice) .. above + twice
       /\ MapThenSumSet(LAMBDA y : YearReport(y).end - YearReport(y).start, Years)
            = FinalEquity - Head(memory.curve).equity
       /\ MapThenSumSet(LAMBDA y : YearReport(y).trades, Years) = Statistics.trades
       /\ Statistics.drawdown <= Statistics.worst

\* A position the risk exits gave up at one close is gone after the next
\* session, or the report of the run says which order was not filled and why.
ExitsAreAccountedFor ==
  [][ at.step = "execute" =>
        \A i \in ToSet(Signals(at.day, TRUE, "SELL")) :
          \/ acct'.lots[i.symbol] = << >>
          \/ \E u \in memory'.unfilled : u[1] = at.day /\ u[2] = i.symbol /\ u[3] = "SELL" ]_vars
=============================================================================
