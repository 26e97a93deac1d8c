----------------------------- MODULE Allocator -----------------------------
(***************************************************************************)
(* MultiStrategyAllocator.plan (src/trading/allocator.py), one action per  *)
(* iteration of its two loops: first every SELL signal, then every BUY     *)
(* signal in pipeline order.  Inputs is the set of calls the engine makes: *)
(* each is a record of the arguments of plan().                            *)
(***************************************************************************)
EXTENDS AllocatorOps

CONSTANTS Strategies,   \* strategy ids
          Symbols,      \* symbols of the universe
          Signals,      \* signals a bundle may hold
          Inputs        \* calls of plan(): its arguments

Buckets == Strategies \X Symbols

Limits ==
  [ approved : SUBSET Strategies,
    strategyDaily : [Strategies -> Nat], strategyOpen : [Strategies -> Nat],
    orderValue : [Strategies -> Nat],    budget : [Strategies -> Nat],
    globalDaily : Nat, globalOpen : Nat, newPerDay : Nat ]

IsSignal(sig) ==
  /\ sig.strategy \in Strategies
  /\ sig.symbol \in Symbols
  /\ sig.price \in Nat \ {0}

IsInput(i) ==
  /\ i.pos \in [Buckets -> Nat]
  /\ i.cash \in Nat
  /\ i.gspent \in Nat
  /\ i.sspent \in [Strategies -> Nat]
  /\ i.lim \in Limits
  /\ i.sells \in Seq(Signals)
  /\ i.buys \in Seq(Signals)

Orders ==
  [ id : { sig.id : sig \in Signals }, strategy : Strategies, symbol : Symbols,
    side : {"SELL", "BUY"}, qty : Nat \ {0}, odd : BOOLEAN, price : Nat \ {0} ]

ASSUME SymbolsAssumption == IsFiniteSet(Symbols) /\ IsFiniteSet(Strategies)
ASSUME SignalsAssumption == \A sig \in Signals : IsSignal(sig)
ASSUME InputsAssumption  == \A i \in Inputs : IsInput(i)

VARIABLES input,    \* the arguments of this call, never assigned again
          p,        \* the locals of plan()
          sells,    \* SELL signals still to be looked at
          buys,     \* BUY signals still to be looked at
          orders    \* planned_orders

vars == << input, p, sells, buys, orders >>

Init ==
  /\ input \in Inputs
  /\ p = [ pos |-> input.pos, cash |-> input.cash, gspent |-> input.gspent,
           sspent |-> input.sspent, netted |-> {}, newCount |-> 0 ]
  /\ sells = input.sells
  /\ buys = input.buys
  /\ orders = << >>

SellBucket ==
  /\ sells # << >>
  /\ SellPossible(p, Head(sells))
  /\ p' = AfterSell(p, Head(sells))
  /\ orders' = orders \o SellOrders(p, Head(sells))
  /\ sells' = Tail(sells)
  /\ UNCHANGED << input, buys >>

\* Nothing is held in the bucket: the signal gets no order.
SellNothing ==
  /\ sells # << >>
  /\ ~ SellPossible(p, Head(sells))
  /\ sells' = Tail(sells)
  /\ UNCHANGED << input, p, buys, orders >>

BuyBucket ==
  /\ sells = << >> /\ buys # << >>
  /\ BuyAllowed(p, input.lim, Head(buys))
  /\ \E q \in 1 .. (input.lim.budget[Head(buys).strategy] \div Head(buys).price) :
       /\ Sized(p, input.lim, Head(buys), q)
       /\ p' = AfterBuy(p, Head(buys), q)
       /\ orders' = orders \o BuyOrders(Head(buys), q)
  /\ buys' = Tail(buys)
  /\ UNCHANGED << input, sells >>

\* NETTING_SUPPRESSED, a limit, ALREADY_HOLDING or INSUFFICIENT_CASH.
BuyBlocked ==
  /\ sells = << >> /\ buys # << >>
  /\ \/ ~ BuyAllowed(p, input.lim, Head(buys))
     \/ ~ Affordable(p, input.lim, Head(buys), 1)
  /\ buys' = Tail(buys)
  /\ UNCHANGED << input, p, sells, orders >>

Next == SellBucket \/ SellNothing \/ BuyBucket \/ BuyBlocked

Spec == Init /\ [][Next]_vars

-----------------------------------------------------------------------------
Sold   == { << o.strategy, o.symbol >> : o \in { x \in ToSet(orders) : x.side = "SELL" } }
Bought == { << o.strategy, o.symbol >> : o \in { x \in ToSet(orders) : x.side = "BUY" } }

\* What the BUYs of some strategies cost without the fees.
BoughtValue(strategies) ==
  Tally([ i \in DOMAIN orders |-> IF orders[i].side = "BUY" /\ orders[i].strategy \in strategies
                                 THEN orders[i].qty * orders[i].price ELSE 0 ])

\* Orders and locals are of the types the code gives them; in particular the
\* cash left to the BUYs is never negative.
TypeOK ==
  /\ input \in Inputs
  /\ p.pos \in [Buckets -> Nat]
  /\ p.cash \in Nat
  /\ p.gspent \in Nat
  /\ p.sspent \in [Strategies -> Nat]
  /\ p.netted \in SUBSET Symbols
  /\ p.newCount \in Nat
  /\ sells \in Seq(Signals)
  /\ buys \in Seq(Signals)
  /\ orders \in Seq(Orders)

\* Same-day netting: whatever strategies the signals come from, a plan never
\* sells and buys one symbol.
NoWashTrade ==
  \A s \in Sold, b \in Bought : s[2] # b[2]

\* Two-layer limits and T+1: what the plan buys, added to what the account has
\* bought today already, stays within the account's daily limit and within the
\* daily limit of each approved strategy, unless it was beyond it before the
\* plan; and, whatever is sold, the BUYs with a fee for each are paid by the
\* cash there was before the plan.
BuysWithinMeans ==
  /\ Bought # {} =>
       /\ input.gspent + BoughtValue(Strategies) <= input.lim.globalDaily
       /\ BoughtValue(Strategies) + 20 * Cardinality(Bought) <= input.cash
  /\ \A s \in Strategies : BoughtValue({s}) > 0 =>
       /\ s \in input.lim.approved
       /\ input.sspent[s] + BoughtValue({s}) <= input.lim.strategyDaily[s]

\* No-add: a bucket is entered only when it was empty before the plan, and by
\* one signal, so no later signal adds to it.
EnterOnce ==
  /\ \A b \in Bought : input.pos[b] = 0
  /\ \A o1, o2 \in ToSet(orders) :
       /\ o1.side = "BUY" /\ o2.side = "BUY"
       /\ o1.strategy = o2.strategy /\ o1.symbol = o2.symbol
       => o1.id = o2.id

\* An exit takes the whole bucket, board and odd lots together, however many
\* SELL signals name it, and the plan does not reopen it.
ExitsCloseBuckets ==
  \A b \in Sold : p.pos[b] = 0

\* A plan that buys leaves the account and each buying strategy within their
\* limits of open positions, and enters at most newPerDay buckets.
OpenPositionLimits ==
  /\ Bought # {} => Cardinality(OpenSymbols(p.pos)) <= input.lim.globalOpen
  /\ \A b \in Bought :
       Cardinality(OpenBuckets(p.pos, b[1])) <= input.lim.strategyOpen[b[1]]
  /\ Cardinality(Bought) <= input.lim.newPerDay
=============================================================================
