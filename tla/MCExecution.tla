---------------------------- MODULE MCExecution ----------------------------
(***************************************************************************)
(* Execution on two strategies and three symbols.  The account holds x in  *)
(* both strategies' universe and enters y and z; one scenario trades more  *)
(* than a board lot, so a signal has two legs; in the others prices gap,   *)
(* a symbol is locked, or bars are late.                                   *)
(***************************************************************************)
EXTENDS Execution

MCStrategies == {"trend", "pullback"}
MCSymbols == {"x", "y", "z"}

Sig(id, strategy, symbol, price) ==
  [ id |-> id, strategy |-> strategy, symbol |-> symbol, price |-> price ]

Both(v) == [ s \in MCStrategies |-> v ]
All(v)  == [ s \in MCSymbols |-> v ]

Hold(held, qty) ==
  [ b \in (MCStrategies \cup {MANUAL}) \X MCSymbols |-> IF b \in held THEN qty ELSE 0 ]

\* One exit frees a place; two entries are in its way, one of the symbol sold.
Day ==
  [ pos |-> Hold({<< "trend", "x" >>}, 4), cash |-> 100,
    lim |-> [ approved |-> {}, strategyDaily |-> Both(60), strategyOpen |-> Both(2),
              orderValue |-> Both(30), budget |-> Both(30),
              globalDaily |-> 50, globalOpen |-> 2, newPerDay |-> 1 ],
    sells |-> << Sig("exit-x", "trend", "x", 10) >>,
    buys |-> << Sig("buy-y", "trend", "y", 10), Sig("buy-x", "pullback", "x", 10),
                Sig("buy-z", "pullback", "z", 10) >>,
    approval |-> Both("A1"), pipeline |-> MCStrategies,
    price |-> All(10), unfilled |-> All({}), bars |-> MCSymbols ]

\* The account may hold one symbol only.
Full == [ Day EXCEPT !.lim = [ @ EXCEPT !.globalOpen = 1 ] ]

\* Board and odd legs on both sides, bars still to come.
Lots ==
  [ Day EXCEPT
      !.pos = Hold({<< "trend", "x" >>}, 1003), !.cash = 1100,
      !.lim = [ @ EXCEPT !.strategyDaily = Both(1500), !.orderValue = Both(1005),
                         !.budget = Both(1005), !.globalDaily = 1500 ],
      !.sells = << Sig("exit-x", "trend", "x", 1) >>,
      !.buys = << Sig("buy-y", "trend", "y", 1) >>,
      !.price = All(1), !.bars = {"x"} ]

\* x is limit-down: its exit stays unfilled; y opens 10 % higher than planned,
\* more than the cash left covers; the pullback strategy has left the pipeline
\* of the account.
Locked ==
  [ Day EXCEPT
      !.unfilled = [ @ EXCEPT !["x"] = {"SELL"} ],
      !.price = [ @ EXCEPT !["y"] = 11 ], !.cash = 52,
      !.pipeline = {"trend"}, !.bars = {"x"} ]

\* The exit's strategy enters the same symbol again: netted, unless a crash
\* falls between the two.
Again ==
  [ Full EXCEPT !.lim = [ @ EXCEPT !.newPerDay = 2 ],
                !.buys = << Sig("buy-x2", "trend", "x", 10), Sig("buy-y", "pullback", "y", 10) >> ]

MCScenarios == {Day, Full, Lots, Locked, Again}

MCManualFills ==
  { [ strategy |-> "trend", symbol |-> "x", side |-> "SELL", qty |-> 3, price |-> 10 ],
    [ strategy |-> MANUAL, symbol |-> "y", side |-> "BUY", qty |-> 5, price |-> 10 ] }
=============================================================================
