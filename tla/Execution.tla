----------------------------- MODULE Execution -----------------------------
(***************************************************************************)
(* Stage 2 of one trading day for one account: the bundles that target the *)
(* day are planned, priced by FakeBroker and booked fill by fill, each     *)
(* fill in a transaction of its own.  Two processes do it: run-daily       *)
(* ("daily"), which is alone behind its file lock and marks the stage, and *)
(* execute-pending ("pending"), which takes no lock and marks nothing.     *)
(* Either may crash after any commit and be started again; meanwhile the   *)
(* operator books his own fills, rejects signals, changes approvals and    *)
(* flags positions as long-term, and bars arrive late.                     *)
(*                                                                         *)
(* A scenario is the day as it opens: holdings, cash, limits, the signals  *)
(* of the bundles in the order of _order_bundles, the approval every       *)
(* bundle names, the pipeline of the account, and per symbol the price a   *)
(* fill gets (the open with its slippage) and the sides that stay unfilled *)
(* (zero volume, limit-up or limit-down lock).                             *)
(***************************************************************************)
EXTENDS AllocatorOps

CONSTANTS Strategies,    \* strategy ids of the registry
          Symbols,
          MANUAL,        \* MANUAL_STRATEGY_ID, outside of every plan
          Scenarios,     \* the days that are tried
          ManualFills,   \* fills the operator may record
          MaxCrashes, MaxCommands, MaxPending   \* bounds

Procs   == {"daily", "pending"}
Buckets == (Strategies \cup {MANUAL}) \X Symbols
Sides   == {"BUY", "SELL"}

SignalItems ==
  [ id : STRING, strategy : Strategies, symbol : Symbols, price : Nat \ {0} ]

Limits ==
  [ approved : SUBSET Strategies, strategyDaily : [Strategies -> Nat],
    strategyOpen : [Strategies -> Nat], orderValue : [Strategies -> Nat],
    budget : [Strategies -> Nat], globalDaily : Nat, globalOpen : Nat, newPerDay : Nat ]

IsScenario(sc) ==
  /\ sc.pos \in [Buckets -> Nat] /\ sc.cash \in Int
  /\ sc.lim \in Limits
  /\ sc.sells \in Seq(SignalItems) /\ sc.buys \in Seq(SignalItems)
  /\ \A i \in DOMAIN sc.sells, j \in DOMAIN sc.buys : sc.sells[i].id # sc.buys[j].id
  /\ IsInjective([ i \in DOMAIN sc.sells |-> sc.sells[i].id ])
  /\ IsInjective([ i \in DOMAIN sc.buys |-> sc.buys[i].id ])
  /\ DOMAIN sc.approval = Strategies /\ sc.pipeline \subseteq Strategies
  /\ sc.price \in [Symbols -> Nat \ {0}]
  /\ sc.unfilled \in [Symbols -> SUBSET Sides]
  /\ sc.bars \subseteq Symbols

IsManualFill(m) ==
  /\ m.strategy \in Strategies \cup {MANUAL} /\ m.symbol \in Symbols
  /\ m.side \in Sides /\ m.qty \in Nat \ {0} /\ m.price \in Nat \ {0}

\* A fill of the engine has a strategy of the registry, and its key is no key of
\* the operator's.
FillItems(keys, strategies) ==
  [ key : keys, strategy : strategies, symbol : Symbols, side : Sides,
    qty : Nat \ {0}, price : Nat \ {0} ]

EngineFills   == FillItems({"order"} \X STRING \X BOOLEAN, Strategies)
OperatorFills == FillItems({"manual"} \X Nat, Strategies \cup {MANUAL})

Executors ==
  [ pc : {"idle", "loaded", "booking"}, manifests : SUBSET Strategies,
    todo : Seq(EngineFills) ]

ASSUME SymbolsAssumption   == IsFiniteSet(Symbols)
ASSUME ManualAssumption    == MANUAL \notin Strategies /\ \A m \in ManualFills : IsManualFill(m)
ASSUME ScenariosAssumption == \A sc \in Scenarios : IsScenario(sc)
ASSUME BoundsAssumption    == MaxCrashes \in Nat /\ MaxCommands \in Nat /\ MaxPending \in Nat

VARIABLES scenario,   \* the day, never assigned again
          pos,        \* open ordinary lots of each bucket (is_long_term = 0)
          lt,         \* open long-term lots of each bucket
          cash,       \* cash_balances
          fills,      \* fills of the day, in the order they were booked
          run,        \* how daily_runs stands with Stage 2
          rejected,   \* signal ids with user_override REJECTED
          manifest,   \* approval id in force for each strategy, or "none"
          bars,       \* symbols whose bar of the day is stored
          proc,       \* each process: where it is, the manifests it loaded, fills left
          used,       \* how much of each bound is used up
          overlapped  \* a command worked on the account while another was booking

vars == << scenario, pos, lt, cash, fills, run, rejected, manifest, bars, proc,
           used, overlapped >>

books == << pos, lt, cash, fills >>

idle == [ pc |-> "idle", manifests |-> {}, todo |-> << >> ]

Booking == \E x \in Procs : proc[x].pc = "booking"

Init ==
  /\ scenario \in Scenarios
  /\ pos = scenario.pos
  /\ lt = [ b \in Buckets |-> 0 ]
  /\ cash = scenario.cash
  /\ fills = << >>
  /\ run = "PENDING"
  /\ rejected = {}
  /\ manifest = scenario.approval
  /\ bars = scenario.bars
  /\ proc = [ x \in Procs |-> idle ]
  /\ used = [ crashes |-> 0, commands |-> 0, pending |-> 0 ]
  /\ overlapped = FALSE

-----------------------------------------------------------------------------
(* Planning. *)

Keys(fs) == { f.key : f \in ToSet(fs) }

Value(f) == f.qty * f.price

Entered(f, strategies) ==
  IF f.side = "BUY" /\ f.strategy \in strategies THEN Value(f) ELSE 0

Bought(fs, strategies) == Tally([ i \in DOMAIN fs |-> Entered(fs[i], strategies) ])

Spent(strategies) == Bought(fills, strategies)

Unrejected(sig) == sig.id \notin rejected

\* BUYs of the bundles a process may enter: run-daily drops those of a strategy
\* outside the account's pipeline, execute-pending has no such gate.
Entries(x) ==
  Only(scenario.buys,
       { sig \in ToSet(scenario.buys) :
           Unrejected(sig) /\ (x = "daily" => sig.strategy \in scenario.pipeline) })

Exits == Only(scenario.sells, { sig \in ToSet(scenario.sells) : Unrejected(sig) })

\* MANUAL and long-term lots are no part of the books a plan is made on.
Ordinary == [ b \in Strategies \X Symbols |-> pos[b] ]

PlanState(gspent, sspent) ==
  [ pos |-> Ordinary, cash |-> cash, gspent |-> gspent, sspent |-> sspent,
    netted |-> {}, newCount |-> 0 ]

SpentBefore ==
  PlanState(Spent(Strategies \cup {MANUAL}), [ s \in Strategies |-> Spent({s}) ])

Approved(x) == [ scenario.lim EXCEPT !.approved = proc[x].manifests ]

\* Mutants of Planned: nothing counts as spent before the plan; an exit needs
\* the approval of its strategy.
PlannedUnspent(x, sells, buys) ==
  Plan(PlanState(0, [ s \in Strategies |-> 0 ]), Approved(x), sells, buys)

PlannedGated(x, sells, buys) ==
  Plan(SpentBefore, Approved(x),
       Only(sells, { sig \in ToSet(sells) : sig.strategy \in proc[x].manifests }), buys)

\* plan_bundles on the books as they are now; every BUY of the day counts as
\* spent, those of the operator too.
Planned(x, sells, buys) == Plan(SpentBefore, Approved(x), sells, buys)

\* FakeBroker: a locked or halted order is dropped, the others get the price of
\* the day.  The key is the signal and its leg: account, bundle and date are fixed.
Filled(o) ==
  [ key |-> << "order", o.id, o.odd >>, strategy |-> o.strategy, symbol |-> o.symbol,
    side |-> o.side, qty |-> o.qty, price |-> scenario.price[o.symbol] ]

Executed(orders) ==
  LET tradable == Only(orders, { o \in ToSet(orders) : o.side \notin scenario.unfilled[o.symbol] })
  IN [ i \in DOMAIN tradable |-> Filled(tradable[i]) ]

\* Mutant: a run that failed is not tried again.
MayStartUnlessFailed(x) ==
  /\ x = "daily" => run \in {"PENDING", "WAITING"}
  /\ x = "pending" => used.pending < MaxPending

\* run-daily skips a stage that is marked; execute-pending always may run.
MayStart(x) ==
  /\ x = "daily" => run # "COMPLETED"
  /\ x = "pending" => used.pending < MaxPending

\* The command starts: it loads the manifests in force.  What Stage 1 stores on
\* the first start is part of scenario.bars; a rerun does not sync again.
Start(x) ==
  /\ proc[x].pc = "idle"
  /\ MayStart(x)
  /\ proc' = [ proc EXCEPT ![x].pc = "loaded",
                           ![x].manifests = { s \in Strategies :
                                              manifest[s] = scenario.approval[s] } ]
  /\ used' = [ used EXCEPT !.pending = @ + (IF x = "pending" THEN 1 ELSE 0) ]
  /\ UNCHANGED << scenario, books, run, rejected, manifest, bars, overlapped >>

HasBars(orders) == \A o \in ToSet(orders) : o.symbol \in bars

\* A bar missing for one order makes the whole batch
\* wait; otherwise the orders that can trade are priced.
PlanBundles(x) ==
  /\ proc[x].pc = "loaded"
  /\ \E sells \in {Exits}, buys \in {Entries(x)} : \E orders \in {Planned(x, sells, buys)} :
       \/ /\ HasBars(orders)
          /\ proc' = [ proc EXCEPT ![x].pc = "booking", ![x].todo = Executed(orders) ]
          /\ overlapped' = (overlapped \/ Booking)
          /\ UNCHANGED run
       \/ /\ ~ HasBars(orders)
          /\ proc' = [ proc EXCEPT ![x] = idle ]
          /\ run' = IF x = "daily" THEN "WAITING" ELSE run
          /\ UNCHANGED overlapped
  /\ UNCHANGED << scenario, books, rejected, manifest, bars, used >>

-----------------------------------------------------------------------------
(* Booking: apply_fill_transaction(enforce_cash=True), one fill at a time. *)

Next1(x) == Head(proc[x].todo)

Ready(x) == proc[x].pc = "booking" /\ proc[x].todo # << >>

Done1(x) == [ proc EXCEPT ![x].todo = Tail(@) ]

Of(f) == << f.strategy, f.symbol >>

Cost(f)     == Value(f) + Fee(Value(f))
Proceeds(f) == Value(f) - Fee(Value(f)) - Tax(Value(f))

\* Mutants: every fill is new; the fee is not part of the cash that must be
\* there, nor of the cash that is paid.
AlwaysNew(x) == Ready(x)

ValueEnough(f) == Value(f) <= cash

PaidWithoutFee(f) == cash - Value(f)

New(x) == Ready(x) /\ Next1(x).key \notin Keys(fills)

\* enforce_cash: the balance covers the fill and its fee.
Enough(f) == Cost(f) <= cash

\* The ordinary lots of the bucket cover the fill.
Shares(f) == pos[Of(f)] >= f.qty

\* The balance a BUY writes.
Paid(f) == cash - Cost(f)

\* The execution key is booked already: nothing is written.
BookDuplicate(x) ==
  /\ Ready(x) /\ Next1(x).key \in Keys(fills)
  /\ proc' = Done1(x)
  /\ UNCHANGED << scenario, books, run, rejected, manifest, bars, used, overlapped >>

BookBuy(x) ==
  /\ New(x) /\ Next1(x).side = "BUY"
  /\ Enough(Next1(x))
  /\ fills' = Append(fills, Next1(x))
  /\ pos' = [ pos EXCEPT ![Of(Next1(x))] = @ + Next1(x).qty ]
  /\ cash' = Paid(Next1(x))
  /\ proc' = Done1(x)
  /\ UNCHANGED << scenario, lt, run, rejected, manifest, bars, used, overlapped >>

\* INSUFFICIENT_CASH_AT_FILL: rolled back, an event, the next fill.
SkipBuy(x) ==
  /\ New(x) /\ Next1(x).side = "BUY"
  /\ ~ Enough(Next1(x))
  /\ proc' = Done1(x)
  /\ UNCHANGED << scenario, books, run, rejected, manifest, bars, used, overlapped >>

BookSell(x) ==
  /\ New(x) /\ Next1(x).side = "SELL"
  /\ Shares(Next1(x))
  /\ fills' = Append(fills, Next1(x))
  /\ pos' = [ pos EXCEPT ![Of(Next1(x))] = @ - Next1(x).qty ]
  /\ cash' = cash + Proceeds(Next1(x))
  /\ proc' = Done1(x)
  /\ UNCHANGED << scenario, lt, run, rejected, manifest, bars, used, overlapped >>

LongTermProtected(f) ==
  /\ pos[Of(f)] = 0
  /\ \E b \in Buckets : b[2] = f.symbol /\ lt[b] > 0

\* LONG_TERM_PROTECTED: rolled back, the next fill.
SkipSell(x) ==
  /\ New(x) /\ Next1(x).side = "SELL"
  /\ ~ Shares(Next1(x))
  /\ LongTermProtected(Next1(x))
  /\ proc' = Done1(x)
  /\ UNCHANGED << scenario, books, run, rejected, manifest, bars, used, overlapped >>

\* SELL_WITHOUT_POSITION: rolled back and raised, the command fails.
FailSell(x) ==
  /\ New(x) /\ Next1(x).side = "SELL"
  /\ ~ Shares(Next1(x))
  /\ ~ LongTermProtected(Next1(x))
  /\ proc' = [ proc EXCEPT ![x] = idle ]
  /\ run' = IF x = "daily" THEN "FAILED" ELSE run
  /\ UNCHANGED << scenario, books, rejected, manifest, bars, used, overlapped >>

Finish(x) ==
  /\ proc[x].pc = "booking" /\ proc[x].todo = << >>
  /\ proc' = [ proc EXCEPT ![x] = idle ]
  /\ run' = IF x = "daily" THEN "COMPLETED" ELSE run
  /\ UNCHANGED << scenario, books, rejected, manifest, bars, used, overlapped >>

\* The process dies between two commits; daily_runs keeps what it says.
Crash(x) ==
  /\ proc[x].pc # "idle"
  /\ used.crashes < MaxCrashes
  /\ used' = [ used EXCEPT !.crashes = @ + 1 ]
  /\ proc' = [ proc EXCEPT ![x] = idle ]
  /\ UNCHANGED << scenario, books, run, rejected, manifest, bars, overlapped >>

-----------------------------------------------------------------------------
(* The operator and the data source. *)

\* market backfill, or the run of another account, stores a bar of the day.
BarArrives ==
  /\ \E s \in Symbols \ bars : bars' = bars \cup {s}
  /\ UNCHANGED << scenario, books, run, rejected, manifest, proc, used, overlapped >>

Command ==
  /\ used.commands < MaxCommands
  /\ used' = [ used EXCEPT !.commands = @ + 1 ]
  /\ overlapped' = (overlapped \/ Booking)

RejectSignal(sig) ==
  /\ Command
  /\ rejected' = rejected \cup {sig.id}
  /\ UNCHANGED << scenario, books, run, manifest, bars, proc >>

UnRejectSignal(sig) ==
  /\ Command
  /\ sig.id \in rejected
  /\ rejected' = rejected \ {sig.id}
  /\ UNCHANGED << scenario, books, run, manifest, bars, proc >>

\* approval activate, deactivate, or another approval for the strategy.
ChangeApproval(s) ==
  /\ Command
  /\ \E a \in {scenario.approval[s], "other", "none"} \ {manifest[s]} :
       manifest' = [ manifest EXCEPT ![s] = a ]
  /\ UNCHANGED << scenario, books, run, rejected, bars, proc >>

\* set_long_term: the flags of the bucket's fills flip and the books are rebuilt.
SetLongTerm(b) ==
  /\ Command
  /\ pos[b] > 0
  /\ lt' = [ lt EXCEPT ![b] = @ + pos[b] ]
  /\ pos' = [ pos EXCEPT ![b] = 0 ]
  /\ UNCHANGED << scenario, cash, fills, run, rejected, manifest, bars, proc >>

\* record_fill of an ordinary position: cash is not enforced, shares are.
RecordFill(m) ==
  /\ Command
  /\ m.side = "SELL" => Shares(m)
  /\ fills' = Append(fills, [ key |-> << "manual", used.commands >>, strategy |-> m.strategy,
                              symbol |-> m.symbol, side |-> m.side, qty |-> m.qty,
                              price |-> m.price ])
  /\ pos' = [ pos EXCEPT ![Of(m)] = IF m.side = "BUY" THEN @ + m.qty ELSE @ - m.qty ]
  /\ cash' = IF m.side = "BUY" THEN Paid(m) ELSE cash + Proceeds(m)
  /\ UNCHANGED << scenario, lt, run, rejected, manifest, bars, proc >>

-----------------------------------------------------------------------------
Work(x) ==
  \/ Start(x) \/ PlanBundles(x)
  \/ BookDuplicate(x) \/ BookBuy(x) \/ SkipBuy(x)
  \/ BookSell(x) \/ SkipSell(x) \/ FailSell(x)
  \/ Finish(x)

Signals == ToSet(scenario.sells) \cup ToSet(scenario.buys)

Operator ==
  \/ \E sig \in Signals : RejectSignal(sig) \/ UnRejectSignal(sig)
  \/ \E s \in Strategies : ChangeApproval(s)
  \/ \E b \in Buckets : SetLongTerm(b)
  \/ \E m \in ManualFills : RecordFill(m)

Next ==
  \/ \E x \in Procs : Work(x) \/ Crash(x)
  \/ Operator
  \/ BarArrives

\* The operator starts run-daily again until the stage is marked, and backfills
\* the bars that are missing; nobody need ever start execute-pending.
Fairness == WF_vars(Work("daily")) /\ WF_vars(BarArrives)

Spec == Init /\ [][Next]_vars /\ Fairness

-----------------------------------------------------------------------------
(* Properties. *)

Engine(f) == f.key[1] # "manual"

\* Fills at the price the plan was made with, on both legs of every symbol.
Flat == \A sig \in Signals : scenario.price[sig.symbol] = sig.price

EngineOnly == \A f \in ToSet(fills) : Engine(f)

Tradable(symbol) == scenario.unfilled[symbol] = {}

TypeOK ==
  /\ scenario \in Scenarios
  /\ pos \in [Buckets -> Nat] /\ lt \in [Buckets -> Nat]
  /\ cash \in Int
  /\ fills \in Seq(EngineFills \cup OperatorFills)
  /\ run \in {"PENDING", "WAITING", "FAILED", "COMPLETED"}
  /\ rejected \subseteq { sig.id : sig \in Signals }
  /\ bars \subseteq Symbols
  /\ proc \in [Procs -> Executors]
  /\ used \in [ crashes : 0 .. MaxCrashes, commands : 0 .. MaxCommands, pending : 0 .. MaxPending ]
  /\ overlapped \in BOOLEAN

\* What a fill brings in cash, and in shares of a bucket.
Received(f) == IF f.side = "BUY" THEN - Cost(f) ELSE Proceeds(f)

Taken(f, b) == IF Of(f) # b THEN 0 ELSE IF f.side = "BUY" THEN f.qty ELSE - f.qty

\* The books are the opening books moved by the fills of the day, each of them
\* once: whatever was repeated, skipped, rolled back or cut off by a crash, no
\* share and no dollar is counted twice or lost.
BooksBalance ==
  /\ cash = scenario.cash + Tally([ i \in DOMAIN fills |-> Received(fills[i]) ])
  /\ \A b \in Buckets :
       pos[b] + lt[b] = scenario.pos[b] + Tally([ i \in DOMAIN fills |-> Taken(fills[i], b) ])

\* One leg of one signal is booked once, by whichever command and rerun.
ExecuteOnce ==
  \A i, j \in DOMAIN fills : fills[i].key = fills[j].key => i = j

\* The engine never books a BUY the cash does not cover, fee included: only the
\* operator's own fills, and a sale too small to bring its fee, may leave the
\* balance negative.
EngineNeverOverdraws ==
  [][ Len(fills') > Len(fills) /\ Engine(fills'[Len(fills')]) /\ cash' < 0
      => fills'[Len(fills')].side = "SELL" ]_vars

\* The daily limits bind the day and not the plan: reruns and execute-pending
\* count what is booked already, so at flat prices commands one after the other
\* stay within them.
DailyLimitsHold ==
  ~ overlapped /\ Flat /\ EngineOnly =>
    /\ Spent(Strategies) <= scenario.lim.globalDaily
    /\ \A s \in Strategies : Spent({s}) <= scenario.lim.strategyDaily[s]

\* A bucket that was both entered and left today.  A crash behind the exit frees
\* its strategy to enter the symbol again, for netting lasts as long as the plan;
\* the next rerun finds the exit's key booked and leaves the new shares alone,
\* although the plan counts them as sold.
BothWays(fs) ==
  \E f, g \in ToSet(fs) : Of(f) = Of(g) /\ f.side = "BUY" /\ g.side = "SELL"

\* A BUY never takes the account beyond its limit of open symbols when every
\* symbol can be sold, wherever a crash cut the batch, until a bucket is traded
\* both ways.
OpenLimitHolds ==
  [][ /\ ~ overlapped /\ \A s \in Symbols : Tradable(s)
      /\ Cardinality(OpenSymbols(Ordinary')) > Cardinality(OpenSymbols(Ordinary))
      /\ used' = used /\ ~ BothWays(fills')
      => Cardinality(OpenSymbols(Ordinary')) <= scenario.lim.globalOpen ]_vars

Added(f, b) == IF Of(f) = b /\ f.side = "BUY" THEN f.qty ELSE 0

BoughtToday(b) == Tally([ i \in DOMAIN fills |-> Added(fills[i], b) ])

OperatorBought(b) == \E f \in ToSet(fills) : ~ Engine(f) /\ f.side = "BUY" /\ Of(f) = b

\* SELL is never gated: when run-daily marks the stage, every exit that was not
\* rejected and could trade has sold what its bucket held in the morning,
\* whatever became of the approvals; nothing is left but what was bought again
\* today.
ExitsDoneAtCompletion ==
  [][ run' = "COMPLETED" /\ run # "COMPLETED" /\ ~ overlapped
      => \A sig \in ToSet(scenario.sells) :
           sig.id \notin rejected /\ Tradable(sig.symbol) /\ ~ OperatorBought(Bucket(sig))
           => pos[Bucket(sig)] <= BoughtToday(Bucket(sig)) ]_vars

\* The stage is eventually marked, through late bars, crashes, failed sells and
\* the commands of the operator.
EventuallyExecuted == <>(run = "COMPLETED")
=============================================================================
