---------------------------- MODULE AccountViews ----------------------------
(***************************************************************************)
(* What the operator is shown of the books: the daily equity snapshots and *)
(* the curve drawn from them (equity_snapshots.py), the completed trades   *)
(* (completed_trades.py), and the capital overview and the P&L of the      *)
(* strategies (dashboard.py).  Each is computed from other tables than the *)
(* next: the snapshots from the facts, the overview from the projection,   *)
(* the trades from the matches joined with the fills.                      *)
(***************************************************************************)
EXTENDS Portfolio

\* substr(time, 1, 10)
DayOf(time) == time \div 2

\* SUM(CASE WHEN side = 'BUY' THEN quantity ELSE -quantity END)
Signed(f) == IF f.side = "BUY" THEN f.qty ELSE - f.qty

-----------------------------------------------------------------------------
(* projection.py *)

\* The shares in the lots of some strategies, and what the fills leave of them.
Held(lots, S) ==
  Tally([ i \in DOMAIN lots |-> IF lots[i].strategy \in S THEN lots[i].qty ELSE 0 ])

NetQty(rows, S) ==
  Tally([ i \in DOMAIN rows |-> IF rows[i].strategy \in S THEN Signed(rows[i]) ELSE 0 ])

\* get_strategy_positions, long-term lots included.
Position(s) ==
  LET lots == books.lots
      qty == Held(lots, {s})
      cost == Tally([ i \in DOMAIN lots |->
                        IF lots[i].strategy = s THEN lots[i].qty * lots[i].price ELSE 0 ])
  IN [ qty |-> qty, wavg |-> IF qty > 0 THEN cost \div qty ELSE 0,
       lt |-> \E i \in DOMAIN lots : lots[i].strategy = s /\ lots[i].lt ]

\* reconcile: the first check that fails.
Reconcile ==
  IF books.cash # Opening + books.flows THEN "CASH_BALANCE_MISMATCH"
  ELSE IF NetQty(fills, Buckets) # Held(books.lots, Buckets)
       THEN "POSITION_QUANTITY_MISMATCH"
  ELSE IF \E s \in Buckets : NetQty(fills, {s}) # Held(books.lots, {s})
       THEN "STRATEGY_POSITION_MISMATCH"
  ELSE "RECONCILE_OK"

-----------------------------------------------------------------------------
(* equity_snapshots.py; the last close of a day is its price. *)

\* Every row of cash_ledger that has occurred by the end of the day.
CashAt(day) ==
  Tally([ i \in DOMAIN ledger |-> IF ledger[i].day <= day THEN ledger[i].amount ELSE 0 ])
    + Tally([ i \in DOMAIN fills |-> IF DayOf(fills[i].at) <= day THEN Flow(fills[i]) ELSE 0 ])

SharesAt(day) ==
  Tally([ i \in DOMAIN fills |-> IF DayOf(fills[i].at) <= day THEN Signed(fills[i]) ELSE 0 ])

Snapshot(day) ==
  LET held == IF SharesAt(day) > 0 THEN SharesAt(day) ELSE 0
      value == (held * PriceOf[day]) \div 10000
  IN [ cash |-> CashAt(day), positions |-> value, equity |-> CashAt(day) + value ]

\* The rows of some types.
AmountOf(types) ==
  Tally([ i \in DOMAIN ledger |-> IF ledger[i].type \in types THEN ledger[i].amount ELSE 0 ])

\* Deposits and adjustments of a day; what an action pays is a return, not a flow.
CapitalFlow(day) ==
  Tally([ i \in DOMAIN ledger |->
            IF ledger[i].type \in {"INITIAL_DEPOSIT", "CASH_ADJUSTMENT"} /\ ledger[i].day = day
            THEN ledger[i].amount ELSE 0 ])

-----------------------------------------------------------------------------
(* Matches: gross, and net of their part of the fees and the tax. *)

FillOf(id) == fills[CHOOSE i \in DOMAIN fills : fills[i].id = id]

Gross(m) == ((m.sellPrice - m.buyPrice) * m.qty) \div 10000

\* max(20, round(quantity * price / 10000 * 0.001425))
BuyFee(f) ==
  LET fee == Rounded(f.qty * f.price * 57, 400000000)
  IN IF f.corp THEN 0 ELSE IF fee < 20 THEN 20 ELSE fee

Net(m) ==
  LET buy == FillOf(m.buy)
      sell == FillOf(m.sell)
      charged == Fee(Value(sell)) + Tax(Value(sell))
      bought == IF buy.qty > 0 THEN buy.qty ELSE 1
  IN Gross(m) - Rounded(BuyFee(buy) * m.qty * sell.qty + charged * m.qty * bought,
                        bought * sell.qty)

\* matched_at is the filled_at of the SELL.
MatchedOn(m) == DayOf(FillOf(m.sell).at)

\* The curve after a backfill: equity, P&L of the day net of capital flows, and
\* what was realized since the day before; the first day has all that was
\* realized by then, and no P&L of the day.
Curve ==
  [ d \in 1 .. today |->
      LET matches == books.matches
          in(m) == MatchedOn(m) <= d /\ (d = 1 \/ MatchedOn(m) > d - 1)
      IN [ equity |-> Snapshot(d).equity,
           pnl |-> IF d = 1 THEN 0
                   ELSE Snapshot(d).equity - Snapshot(d - 1).equity - CapitalFlow(d),
           realized |-> Tally([ i \in DOMAIN matches |->
                                  IF in(matches[i]) THEN Net(matches[i]) ELSE 0 ]) ] ]

-----------------------------------------------------------------------------
(* completed_trades.py *)

\* The JOINs find the two fills of a match.
Joined(m) ==
  \E i, j \in DOMAIN fills :
    /\ fills[i].id = m.buy /\ fills[i].side = "BUY"
    /\ fills[j].id = m.sell /\ fills[j].side = "SELL"
    /\ fills[i].strategy = fills[j].strategy

CloseDates ==
  { MatchedOn(books.matches[i]) : i \in { k \in DOMAIN books.matches : Joined(books.matches[k]) } }

\* One row per SELL of the day; their order is left out.
CompletedTrades(day) ==
  LET matches == books.matches
      of(m, id) == Joined(m) /\ MatchedOn(m) = day /\ m.sell = id
      sold == Places(fills, { j \in DOMAIN fills :
                \E i \in DOMAIN matches : of(matches[i], fills[j].id) })
      sum(F(_), id) ==
        Tally([ i \in DOMAIN matches |-> IF of(matches[i], id) THEN F(matches[i]) ELSE 0 ])
  IN [ k \in DOMAIN sold |->
         LET id == fills[sold[k]].id
         IN [ sell |-> id, qty |-> sum(LAMBDA m : m.qty, id),
              gross |-> sum(Gross, id), net |-> sum(Net, id) ] ]

DaySummary(day) ==
  LET trades == CompletedTrades(day)
  IN [ count |-> Len(trades),
       gross |-> Tally([ k \in DOMAIN trades |-> trades[k].gross ]),
       cost |-> Tally([ k \in DOMAIN trades |-> trades[k].gross - trades[k].net ]),
       net |-> Tally([ k \in DOMAIN trades |-> trades[k].net ]) ]

-----------------------------------------------------------------------------
(* dashboard.py *)

\* build_capital_overview: the projection, at the last close of today.
Overview ==
  LET value == (Held(books.lots, Buckets) * PriceOf[today]) \div 10000
      principal == AmountOf({"INITIAL_DEPOSIT"})
  IN [ cash |-> books.cash, positions |-> value, principal |-> principal,
       return |-> books.cash + value - principal ]

\* _pnl_by_strategy
PnlOf(s) ==
  LET matches == books.matches
      gross == Tally([ i \in DOMAIN matches |->
                 IF FillOf(matches[i].sell).strategy = s THEN Gross(matches[i]) ELSE 0 ])
      charged(f) == Fee(Value(f)) + (IF f.side = "SELL" THEN Tax(Value(f)) ELSE 0)
      fees == - Tally([ i \in DOMAIN fills |->
                 IF fills[i].strategy = s /\ ~ fills[i].corp THEN charged(fills[i]) ELSE 0 ])
  IN [ gross |-> gross, fees |-> fees, net |-> gross + fees ]

-----------------------------------------------------------------------------
(* Properties *)

\* reconcile passes, whatever fills, dividends, cash commands and rebuilds came
\* before, in every state that no unfinished or overtaken command has left
\* behind; and the open lots of a strategy are its fills bought less its fills
\* sold at every commit, also in the middle of a command, after a crash and after
\* an overtaken rebuild.
ReconcileOk ==
  /\ ~ stale => Reconcile = "RECONCILE_OK"
  /\ \A s \in Buckets : NetQty(fills, {s}) = Position(s).qty

\* An action is booked on its ex date or later.
NothingEarly == \A a \in applied : a.ex <= today

\* The snapshot of today, computed from the facts, is what the overview finds in
\* the projection, and the days of the curve add up to the return of the
\* overview: what was adjusted is in no day's P&L, a dividend is.
CurveAddsUp ==
  ~ stale /\ NothingEarly =>
    LET curve == Curve
    IN /\ Snapshot(today).cash = Overview.cash
       /\ Snapshot(today).positions = Overview.positions
       /\ curve[1].equity - CapitalFlow(1) + Tally([ d \in 1 .. today |-> curve[d].pnl ])
            = Overview.return - AmountOf({"CASH_ADJUSTMENT"})

\* The projection is what the facts say, and what each view shows of them is
\* what the others show.
BooksReconcile == ReconcileOk /\ CurveAddsUp

\* No share is sold twice: what is open of a BUY and what its matches have
\* closed never exceed the BUY, across partial sales, reductions and rebuilds.
\* And every share sold is in the completed trades of one day, whose net P&L is
\* what the equity curve shows as realized on that day.
EveryShareSoldOnce ==
  LET lots == books.lots
      matches == books.matches
  IN /\ \A i \in DOMAIN fills : fills[i].side = "BUY" =>
          Tally([ k \in DOMAIN lots |-> IF lots[k].fill = fills[i].id THEN lots[k].qty ELSE 0 ])
            + Tally([ k \in DOMAIN matches |->
                        IF matches[k].buy = fills[i].id THEN matches[k].qty ELSE 0 ])
            <= fills[i].qty
     /\ \A i \in DOMAIN fills :
          fills[i].side = "SELL" /\ ~ fills[i].corp /\ fills[i].qty > 0 =>
            LET trades == CompletedTrades(DayOf(fills[i].at))
            IN \E k \in DOMAIN trades :
                 trades[k].sell = fills[i].id /\ trades[k].qty = fills[i].qty
     /\ \A d \in 1 .. today :
          Curve[d].realized = IF d \in CloseDates THEN DaySummary(d).net ELSE 0

\* The P&L of the strategies explains the balance: a lot carries its cost, a
\* match what it made of the cost, and a cash dividend, which lowers the cost of
\* a lot, is realized when the lot is sold and not a second time.  Up to a
\* dollar per match, bucket and dividend, if the facts came in order and no action left
\* fractions of a share.
PnlExplainsCash ==
  LET cost == MapThenSumSet(LAMBDA s : (Position(s).qty * Position(s).wavg) \div 10000, Buckets)
      net == MapThenSumSet(LAMBDA s : PnlOf(s).net, Buckets)
      whole == \A a \in applied : a.type \in {"CASH_DIVIDEND", "SPLIT"}
      gap == books.cash + cost - AmountOf({"INITIAL_DEPOSIT", "CASH_ADJUSTMENT"}) - net
      slack == Len(books.matches) + Cardinality(Buckets) + Cardinality(applied)
  IN ~ stale /\ order = "kept" /\ whole => gap <= slack /\ - gap <= slack

\* The facts tell how the books came to be: a rebuild finds again what the
\* transactions left, and what the strategies earned explains the balance.
FactsExplainBooks == RebuildAgrees /\ PnlExplainsCash
=============================================================================
