---------------------------- MODULE AllocatorOps ----------------------------
(***************************************************************************)
(* The pure rules of src/trading/allocator.py: what one SELL or one BUY    *)
(* signal does to the running state of a plan, and which orders it adds.   *)
(*                                                                         *)
(* A plan state is a record                                                *)
(*   pos      quantity of every strategy bucket <<strategy, symbol>>       *)
(*   cash     local_cash, what the remaining BUYs may still use            *)
(*   gspent   global_spent, BUY value of the account today                 *)
(*   sspent   strategy_spent, BUY value of each strategy today             *)
(*   netted   netted_symbols, the symbols a SELL of this plan closes       *)
(*   newCount new_positions_count of this plan                             *)
(* Limits are a record: per strategy (the approval manifest and the order  *)
(* budget) and for the account (GlobalLimits).  Money is in whole TWD and  *)
(* a signal carries its reference price in TWD.                            *)
(***************************************************************************)
EXTENDS Integers, Sequences, SequencesExt, FiniteSets, Tallies

BoardLot == 1000

\* Python's int(round(x)) of a non-negative fraction: a tie goes to the even
\* integer.
Rounded(num, den) ==
  LET q == num \div den
      r == num % den
  IN IF 2 * r > den \/ (2 * r = den /\ q % 2 = 1) THEN q + 1 ELSE q

\* Broker fee and securities transaction tax of one order or fill.
Fee(value) == LET f == Rounded(value * 1425, 1000000) IN IF f < 20 THEN 20 ELSE f

Tax(value) == Rounded(value * 3, 1000)

OpenBuckets(pos, strategy) ==
  { b \in DOMAIN pos : b[1] = strategy /\ pos[b] > 0 }

OpenSymbols(pos) == { b[2] : b \in { c \in DOMAIN pos : pos[c] > 0 } }

\* _split_lot_orders: a board-lot order and an odd-lot order.
SplitLotOrders(sig, side, qty) ==
  LET order(q, odd) == [ id |-> sig.id, strategy |-> sig.strategy,
                         symbol |-> sig.symbol, side |-> side,
                         qty |-> q, odd |-> odd, price |-> sig.price ]
      board == (qty \div BoardLot) * BoardLot
      rest  == qty % BoardLot
  IN (IF board > 0 THEN << order(board, FALSE) >> ELSE << >>)
     \o (IF rest > 0 THEN << order(rest, TRUE) >> ELSE << >>)

-----------------------------------------------------------------------------
(* SELL signals: the whole bucket, and the symbol is netted. *)

Bucket(sig) == << sig.strategy, sig.symbol >>

SellPossible(p, sig) == p.pos[Bucket(sig)] > 0

\* Mutant: the local position is not cleared.
SoldButHeld(p, sig) == [ p EXCEPT !.netted = @ \cup {sig.symbol} ]

AfterSell(p, sig) ==
  [ p EXCEPT !.pos[Bucket(sig)] = 0, !.netted = @ \cup {sig.symbol} ]

SellOrders(p, sig) == SplitLotOrders(sig, "SELL", p.pos[Bucket(sig)])

-----------------------------------------------------------------------------
(* BUY signals. *)

\* Mutants of the three guards: none, none, and one position too many.
NettingForgotten(p, sig) == TRUE

AddAllowed(p, sig) == TRUE

OneMoreOpen(p, lim, sig) ==
  /\ Cardinality(OpenBuckets(p.pos, sig.strategy)) <= lim.strategyOpen[sig.strategy]
  /\ Cardinality(OpenSymbols(p.pos)) <= lim.globalOpen

NotNetted(p, sig) == sig.symbol \notin p.netted

NoAdd(p, sig) == p.pos[Bucket(sig)] = 0

WithinOpenLimits(p, lim, sig) ==
  /\ Cardinality(OpenBuckets(p.pos, sig.strategy)) < lim.strategyOpen[sig.strategy]
  /\ Cardinality(OpenSymbols(p.pos)) < lim.globalOpen

\* Every check of plan() before sizing; a signal failing any is blocked.
BuyAllowed(p, lim, sig) ==
  /\ NotNetted(p, sig)
  /\ sig.strategy \in lim.approved
  /\ p.sspent[sig.strategy] < lim.strategyDaily[sig.strategy]
  /\ p.gspent < lim.globalDaily
  /\ NoAdd(p, sig)
  /\ WithinOpenLimits(p, lim, sig)
  /\ p.newCount < lim.newPerDay

\* Mutant: the daily limits are taken for what one order may cost.
DailyPerOrder(p, lim, sig, q) ==
  LET value == q * sig.price
  IN /\ value <= lim.budget[sig.strategy] /\ value <= lim.orderValue[sig.strategy]
     /\ value <= lim.strategyDaily[sig.strategy] /\ value <= lim.globalDaily
     /\ value + Fee(value) <= p.cash

\* q shares respect order_budget (the minimum of five caps) and, with the fee,
\* the cash.
Affordable(p, lim, sig, q) ==
  LET value == q * sig.price
  IN /\ value <= lim.budget[sig.strategy]
     /\ value <= lim.orderValue[sig.strategy]
     /\ value <= lim.strategyDaily[sig.strategy] - p.sspent[sig.strategy]
     /\ value <= lim.globalDaily - p.gspent
     /\ value + Fee(value) <= p.cash

\* The quantity the shrinking loop stops at: it starts at budget // price and
\* gives up one share at a time, so it is the largest affordable one.
Sized(p, lim, sig, q) ==
  /\ q \in 1 .. (lim.budget[sig.strategy] \div sig.price)
  /\ Affordable(p, lim, sig, q)
  /\ ~ Affordable(p, lim, sig, q + 1)

AfterBuy(p, sig, q) ==
  LET value == q * sig.price
  IN [ pos      |-> [ p.pos EXCEPT ![Bucket(sig)] = @ + q ],
       cash     |-> p.cash - (value + Fee(value)),
       gspent   |-> p.gspent + value,
       sspent   |-> [ p.sspent EXCEPT ![sig.strategy] = @ + value ],
       netted   |-> p.netted,
       newCount |-> p.newCount + 1 ]

BuyOrders(sig, q) == SplitLotOrders(sig, "BUY", q)

-----------------------------------------------------------------------------
(* plan() as a whole, for the modules that take a plan in one step: the     *)
(* state and the orders after the SELL list and then the BUY list.          *)

PlanSell(acc, sig) ==
  IF SellPossible(acc.p, sig)
  THEN [ p |-> AfterSell(acc.p, sig), orders |-> acc.orders \o SellOrders(acc.p, sig) ]
  ELSE acc

PlanBuy(lim, acc, sig) ==
  IF BuyAllowed(acc.p, lim, sig) /\ Affordable(acc.p, lim, sig, 1)
  THEN LET top == lim.budget[sig.strategy] \div sig.price
           q   == top - CHOOSE k \in 0 .. top : Sized(acc.p, lim, sig, top - k)
       IN [ p |-> AfterBuy(acc.p, sig, q), orders |-> acc.orders \o BuyOrders(sig, q) ]
  ELSE acc

\* The state and the orders after a list of signals.  The set over the one state
\* before has TLC evaluate it once, where a parameter is evaluated at each use.
AfterSells(acc, sells) ==
  LET after[n \in 0 .. Len(sells)] ==
        IF n = 0 THEN acc
        ELSE CHOOSE next \in { PlanSell(last, sells[n]) : last \in {after[n - 1]} } : TRUE
  IN after[Len(sells)]

AfterBuys(acc, lim, buys) ==
  LET after[n \in 0 .. Len(buys)] ==
        IF n = 0 THEN acc
        ELSE CHOOSE next \in { PlanBuy(lim, last, buys[n]) : last \in {after[n - 1]} } : TRUE
  IN after[Len(buys)]

Plan(p, lim, sells, buys) ==
  AfterBuys(AfterSells([ p |-> p, orders |-> << >> ], sells), lim, buys).orders
=============================================================================
