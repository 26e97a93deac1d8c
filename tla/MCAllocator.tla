---------------------------- MODULE MCAllocator ----------------------------
(***************************************************************************)
(* Allocator on two strategies and three symbols.  Every placement of the  *)
(* holdings is tried; the limits are tight enough that each of them blocks *)
(* some signal, and one family of calls buys more than a board lot.        *)
(***************************************************************************)
EXTENDS OrderPreview

MCStrategies == {"trend", "pullback"}
MCSymbols == {"x", "y", "z"}

Sig(id, strategy, symbol, price) ==
  [ id |-> id, strategy |-> strategy, symbol |-> symbol, price |-> price ]

SellTx == Sig("sell-trend-x", "trend", "x", 10)
ExitTx == Sig("exit-trend-x", "trend", "x", 10)
SellPy == Sig("sell-pullback-y", "pullback", "y", 15)
BuyTx  == Sig("buy-trend-x", "trend", "x", 10)
BuyTy  == Sig("buy-trend-y", "trend", "y", 15)
BuyPx  == Sig("buy-pullback-x", "pullback", "x", 10)
BuyPz  == Sig("buy-pullback-z", "pullback", "z", 1)

MCSignals == { SellTx, ExitTx, SellPy, BuyTx, BuyTy, BuyPx, BuyPz }

MCSells == { << >>, << ExitTx, SellTx >>, << ExitTx, SellPy >> }
MCBuys  == { << BuyTx, BuyTy, BuyPx, BuyPz >>, << BuyTy, BuyTx, BuyPz, BuyPx >> }

Per(trend, pullback) ==
  [ s \in MCStrategies |-> IF s = "trend" THEN trend ELSE pullback ]

MCLimits == {
  \* the daily limits bind
  [ approved |-> MCStrategies, strategyDaily |-> Per(25, 60), strategyOpen |-> Per(2, 3),
    orderValue |-> Per(40, 30), budget |-> Per(30, 40),
    globalDaily |-> 50, globalOpen |-> 3, newPerDay |-> 3 ],
  \* the position limits bind
  [ approved |-> MCStrategies, strategyDaily |-> Per(90, 90), strategyOpen |-> Per(1, 2),
    orderValue |-> Per(40, 40), budget |-> Per(20, 20),
    globalDaily |-> 200, globalOpen |-> 2, newPerDay |-> 2 ],
  \* one strategy is not approved and the other buys more than a board lot
  [ approved |-> {"pullback"}, strategyDaily |-> Per(90, 1300), strategyOpen |-> Per(3, 3),
    orderValue |-> Per(40, 1200), budget |-> Per(20, 1100),
    globalDaily |-> 1200, globalOpen |-> 3, newPerDay |-> 1 ] }

\* The buckets that may be held; trend-z and trend-y are never both empty or
\* both held, which keeps the calls few without losing a limit.
Holdings ==
  { h \in [ MCStrategies \X MCSymbols -> {0, 1004} ] :
      /\ h[<< "pullback", "z" >>] = 0
      /\ h[<< "trend", "y" >>] = 0 <=> h[<< "trend", "z" >>] = 1004 }

MCInputs ==
  { [ pos |-> h, cash |-> c, gspent |-> g, sspent |-> Per(g, 0), lim |-> l,
      sells |-> s, buys |-> b ] :
      h \in Holdings, c \in {65, 1100}, g \in {0, 30}, l \in MCLimits,
      s \in MCSells, b \in MCBuys }
=============================================================================
