---------------------------- MODULE MCPortfolio ----------------------------
(***************************************************************************)
(* AccountViews with one strategy of the engine beside the manual bucket,  *)
(* and one process that runs commands while single transactions go on.     *)
(***************************************************************************)
EXTENDS AccountViews

\* TWD 100 on the first day, 120 on the second.
MCPrices == << 1000000, 1200000 >>

\* A partial sale and one that reaches into a second lot.
MCTrades == { << "BUY", 2 >>, << "SELL", 1 >>, << "SELL", 3 >> }

MCRecorded == { << MANUAL, FALSE >> }

Action(id, type, ex, cps, num, den) ==
  [ id |-> id, type |-> type, ex |-> ex, cps |-> cps, num |-> num, den |-> den ]

\* TWD 10 a share; one bonus share for two; half of the shares cancelled with
\* TWD 5 paid back; two for one on the next day.
MCActions ==
  { Action(1, "CASH_DIVIDEND", 2, 100000, 0, 1),
    Action(2, "STOCK_DIVIDEND", 2, 0, 1, 2),
    Action(3, "CAPITAL_REDUCTION", 2, 50000, 1, 2),
    Action(4, "SPLIT", 3, 0, 2, 1) }
=============================================================================
