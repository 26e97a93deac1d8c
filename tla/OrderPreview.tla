---------------------------- MODULE OrderPreview ----------------------------
(***************************************************************************)
(* What trade plan and signal list show before an execution:               *)
(* OrderPlanner.plan_all (src/trading/planner.py) on the bundle of one     *)
(* strategy.  It is not the plan of the engine: it knows the positions of  *)
(* the account by symbol only, counts what every strategy has spent        *)
(* against the limit of one, spends the proceeds of the sales at once, nets *)
(* nothing, and adds to a position that is open.                           *)
(***************************************************************************)
EXTENDS Allocator

MaxNewBuys == 2

\* The limits of the approval, or the defaults where there is none.
PreviewLimits(s) ==
  IF s \in input.lim.approved
  THEN [ order |-> input.lim.orderValue[s], daily |-> input.lim.strategyDaily[s],
         open |-> input.lim.strategyOpen[s] ]
  ELSE [ order |-> 35000, daily |-> 150000, open |-> 5 ]

PreviewStart ==
  [ cash |-> input.cash, spent |-> input.gspent, new |-> 0, bought |-> 0,
    held |-> [ x \in Symbols |->
                 Tally([ i \in DOMAIN SetToSeq(Strategies) |->
                           input.pos[<< SetToSeq(Strategies)[i], x >>] ]) ] ]

PreviewSell(v, sig) ==
  LET value == v.held[sig.symbol] * sig.price
  IN IF v.held[sig.symbol] = 0 THEN v
     ELSE [ v EXCEPT !.cash = @ + value - Fee(value) - Tax(value), !.held[sig.symbol] = 0 ]

\* q shares respect order_budget and, with the fee, the cash.
Fits(v, lim, sig, q) ==
  LET value == q * sig.price
  IN value <= lim.order /\ value <= lim.daily - v.spent /\ value + Fee(value) <= v.cash

MayOpen(v, lim, sig) ==
  v.held[sig.symbol] = 0 =>
    /\ Cardinality({ x \in Symbols : v.held[x] > 0 }) < lim.open
    /\ v.new < MaxNewBuys

PreviewBuy(lim, v, sig) ==
  LET most == CHOOSE q \in 1 .. (lim.order \div sig.price) :
                Fits(v, lim, sig, q) /\ ~ Fits(v, lim, sig, q + 1)
  IN IF ~ (Fits(v, lim, sig, 1) /\ MayOpen(v, lim, sig)) THEN v
     ELSE [ v EXCEPT !.cash = @ - (most * sig.price + Fee(most * sig.price)),
                     !.spent = @ + most * sig.price, !.bought = @ + most * sig.price,
                     !.held[sig.symbol] = @ + most,
                     !.new = IF v.held[sig.symbol] = 0 THEN @ + 1 ELSE @ ]

\* The two loops; the set over the one state before is as in AfterSells.
PreviewSells(v, signals) ==
  LET after[n \in 0 .. Len(signals)] ==
        IF n = 0 THEN v
        ELSE CHOOSE next \in { PreviewSell(last, signals[n]) : last \in {after[n - 1]} } : TRUE
  IN after[Len(signals)]

PreviewBuys(lim, v, signals) ==
  LET after[n \in 0 .. Len(signals)] ==
        IF n = 0 THEN v
        ELSE CHOOSE next \in { PreviewBuy(lim, last, signals[n]) : last \in {after[n - 1]} } : TRUE
  IN after[Len(signals)]

\* plan_all: every SELL, then the BUYs by rank.
Preview(s) ==
  LET own == { sig \in Signals : sig.strategy = s }
  IN PreviewBuys(PreviewLimits(s), PreviewSells(PreviewStart, Only(input.sells, own)),
                 Only(input.buys, own))

\* What a preview buys is never more than the limit of the approval leaves
\* after what the account has spent, never more than cash and proceeds pay, and
\* opens no position beyond the limit; the engine, which uses no proceeds, may
\* still buy less.  Without a BUY the cash it counts with may be below zero: the
\* minimum fee can be more than what a small SELL brings.
PreviewWithinMeans ==
  \A s \in Strategies :
    LET v == Preview(s)
        lim == PreviewLimits(s)
        opened == { x \in Symbols : v.held[x] > 0 /\ PreviewStart.held[x] = 0 }
    IN /\ v.bought > 0 => input.gspent + v.bought <= lim.daily /\ v.cash >= 0
       /\ opened # {} => Cardinality({ x \in Symbols : v.held[x] > 0 }) <= lim.open
       /\ Cardinality(opened) <= MaxNewBuys

\* Neither the plan nor, when it is asked for, its preview spends what is not
\* there.
SpendingWithinMeans ==
  BuysWithinMeans /\ (sells = input.sells /\ orders = << >> => PreviewWithinMeans)
=============================================================================
