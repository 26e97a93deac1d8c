----------------------------- MODULE Portfolio -----------------------------
(***************************************************************************)
(* The books of one account in one symbol: the facts (fills, cash_ledger), *)
(* the projection computed from them (position_lots, fifo_matches,         *)
(* cash_balances), and the commands that write them.                       *)
(*                                                                         *)
(* A fill or a corporate action is one transaction.  The commands that end *)
(* with rebuild_from_ledger are several: the change of the facts commits   *)
(* first, and the rebuild selects the facts before its first DELETE opens  *)
(* the transaction that replaces them, so whatever another process commits *)
(* in between is not among what is written back.                           *)
(***************************************************************************)
EXTENDS PortfolioOps

CONSTANTS Strategies,    \* strategy ids of the engine
          MANUAL,        \* MANUAL_STRATEGY_ID
          Commands,      \* processes that run a command of several commits
          LastDay,
          PriceOf,       \* price of a fill, by the day of its filled_at
          Trades,        \* side and shares of a fill
          Recorded,      \* strategy and kind of lot of the fills that are recorded
          Deposit,       \* the cash the account opens with
          Amounts,       \* amounts of the cash commands
          CorpActions,   \* corporate actions on file
          MaxSteps, MaxCommands   \* bounds: facts and commands, and commands

ASSUME MarketAssumption ==
  /\ LastDay \in Nat \ {0}
  /\ PriceOf \in [1 .. LastDay -> Nat]
  /\ Trades \subseteq {"BUY", "SELL"} \X (Nat \ {0})
  /\ Recorded \subseteq (Strategies \cup {MANUAL}) \X BOOLEAN
  /\ IsFiniteSet(Strategies)

ASSUME CashAssumption == Deposit \in Int /\ Amounts \subseteq Int

ActionRows ==
  [ id : Int, type : {"CASH_DIVIDEND", "STOCK_DIVIDEND", "SPLIT", "CAPITAL_REDUCTION"},
    ex : Nat \ {0}, cps : Nat, num : Nat, den : Nat \ {0} ]

\* A split multiplies the shares and a reduction leaves a part of them, as the
\* comments of projection.py say of stock_ratio; nothing checks it.
ASSUME ActionAssumption ==
  /\ IsFiniteSet(CorpActions) /\ CorpActions \subseteq ActionRows
  /\ \A a \in CorpActions :
       /\ a.type = "SPLIT" => a.num >= a.den
       /\ a.type = "CAPITAL_REDUCTION" => 1 <= a.num /\ a.num <= a.den

VARIABLES today,
          fills,      \* the table fills, in the order of the rows
          ledger,     \* the rows of cash_ledger that are not of a fill
          books,      \* the projection and the FILL rows (PortfolioOps)
          applied,    \* actions with rows in position_cost_adjustments
          command,    \* where each command stands
          used,       \* fill ids given, commands begun, and these and the facts booked
          stale,      \* the projection was not computed from these facts
          order       \* "kept": facts came in the order of their time and none was
                      \* lost; "restored": so since the last rebuild; "broken"

vars == << today, fills, ledger, books, applied, command, used, stale, order >>

Buckets == Strategies \cup {MANUAL}
Days == 1 .. LastDay

idle == [ pc |-> "idle" ]

Row(type, amount, day) == [ type |-> type, amount |-> amount, day |-> day ]

\* PortfolioLedger.deposit and PortfolioLedger.adjust_cash
DepositRow(amount, day) == Row("INITIAL_DEPOSIT", amount, day)
AdjustmentRow(amount, day) == Row("CASH_ADJUSTMENT", amount, day)

\* cash_ledger is UNIQUE(account, source, source id, type): an account is given
\* its deposit by account init, and a second account init raises.
Init ==
  /\ today = 1
  /\ fills = << >> /\ applied = {}
  /\ ledger = << DepositRow(Deposit, 1) >>
  /\ books = [ lots |-> << >>, matches |-> << >>, cash |-> Deposit, flows |-> 0, ok |-> TRUE ]
  /\ command = [ c \in Commands |-> idle ]
  /\ used = [ fill |-> 0, step |-> 0, command |-> 0 ]
  /\ stale = FALSE /\ order = "kept"

\* What a rebuild starts from: every row of cash_ledger that is not of a fill.
Opening == Tally([ i \in DOMAIN ledger |-> ledger[i].amount ])

\* The facts changed under every command that has read them already.
Overtaken ==
  [ c \in Commands |-> IF command[c].pc = "write" THEN [ command[c] EXCEPT !.current = FALSE ]
                       ELSE command[c] ]

-----------------------------------------------------------------------------
(* One transaction each. *)

More == used.step < MaxSteps

Free(c) == command[c].pc = "idle" /\ used.command < MaxCommands /\ More

\* A fact not earlier than what is on the books.
Follows(time) ==
  /\ \A i \in DOMAIN fills : fills[i].at <= time
  /\ \A i \in DOMAIN books.lots : books.lots[i].at <= time
  /\ \A a \in applied : StartOf(a.ex) <= time

Book(f, commands) ==
  LET after == ApplyFill(books, f)
  IN /\ after.ok
     /\ books' = after
     /\ fills' = Append(fills, f)
     /\ order' = IF Follows(f.at) THEN order ELSE "broken"
     /\ command' = commands
     /\ used' = [ used EXCEPT !.fill = @ + 1, !.step = @ + 1 ]
     /\ UNCHANGED << today, ledger, applied, stale >>

Post(f) == Book(f, Overtaken)

Trade(side, strategy, qty, day, lt) ==
  [ id |-> used.fill + 1, side |-> side, strategy |-> strategy, qty |-> qty,
    price |-> PriceOf[day], at |-> FillTime(day), lt |-> lt, corp |-> FALSE, urgent |-> FALSE ]

\* The engine books a fill of its day and does not overdraw.
EngineFill(side, strategy, qty) ==
  /\ More
  /\ LET f == Trade(side, strategy, qty, today, FALSE)
     IN /\ side = "BUY" => books.cash + Flow(f) >= 0
        /\ Post(f)

\* record-fill: any bucket, either kind of lot, --date of an earlier day.
RecordFill(side, strategy, qty, day, lt) ==
  /\ More
  /\ day <= today
  /\ Post(Trade(side, strategy, qty, day, lt))

\* A reduction is replayed first in, first out: exact with one lot per bucket.
OneLotEach ==
  \A i, j \in DOMAIN books.lots :
    i # j => << books.lots[i].strategy, books.lots[i].lt >>
               # << books.lots[j].strategy, books.lots[j].lt >>

\* What an action pays is in the ledger on its ex date.
PayoutRow(a, cash) ==
  Row(IF a.type = "CASH_DIVIDEND" THEN "DIVIDEND" ELSE "CAPITAL_REDUCTION_CASH", cash, a.ex)

\* datetime('now') is UTC: early in the morning it has the date of yesterday.
Now == { StartOf(today), StartOf(today - 1) }

\* apply_corporate_action: once per account, recorded by the adjusted lots.
ApplyAction(a, now) ==
  LET lots == books.lots
      synth == SyntheticFills(a, lots, used.fill + 1)
      cash == IF a.type \in {"CASH_DIVIDEND", "CAPITAL_REDUCTION"} THEN Payout(a, lots) ELSE 0
  IN /\ More
     /\ a \notin applied
     /\ lots # << >>
     /\ applied' = applied \cup {a}
     /\ books' = [ books EXCEPT !.lots = LotsAfterAction(a, @, used.fill + 1, now),
                                !.cash = @ + cash ]
     /\ ledger' = IF cash > 0 THEN Append(ledger, PayoutRow(a, cash)) ELSE ledger
     /\ fills' = fills \o synth
     /\ used' = [ used EXCEPT !.fill = @ + Len(synth), !.step = @ + 1 ]
     /\ order' = IF /\ Follows(StartOf(a.ex))
                    /\ a.type \in {"STOCK_DIVIDEND", "SPLIT"} => Follows(now)
                    /\ \A c \in applied : c.ex < a.ex
                    /\ a.type = "CAPITAL_REDUCTION" => OneLotEach
                 THEN order ELSE "broken"
     /\ command' = Overtaken
     /\ UNCHANGED << today, stale >>

NextDay ==
  /\ today < LastDay
  /\ today' = today + 1
  /\ UNCHANGED << fills, ledger, books, applied, command, used, stale, order >>

-----------------------------------------------------------------------------
(* Commands that end with a rebuild. *)

Begin(c, pc) ==
  /\ Free(c)
  /\ command' = [ Overtaken EXCEPT ![c] = [ pc |-> pc ] ]
  /\ used' = [ used EXCEPT !.command = @ + 1, !.step = @ + 1 ]

\* portfolio rebuild-projections
RebuildProjections(c) ==
  /\ Free(c)
  /\ command' = [ command EXCEPT ![c] = [ pc |-> "read" ] ]
  /\ used' = [ used EXCEPT !.command = @ + 1, !.step = @ + 1 ]
  /\ UNCHANGED << today, fills, ledger, books, applied, stale, order >>

\* account adjust-cash: a deposit of today in the place of the deposit; the
\* ledger commits before the rebuild.
AdjustCash(c, amount) ==
  /\ Begin(c, "read")
  /\ ledger' = Append(Only(ledger, { r \in ToSet(ledger) : r.type # "INITIAL_DEPOSIT" }),
                      DepositRow(amount, today))
  /\ stale' = TRUE
  /\ UNCHANGED << today, fills, books, applied, order >>

\* account adjust: a CASH_ADJUSTMENT row, paid in or drawn, and so on.
Adjust(c, amount) ==
  /\ Begin(c, "read")
  /\ \E sum \in { amount, - amount } : ledger' = Append(ledger, AdjustmentRow(sum, today))
  /\ stale' = TRUE
  /\ UNCHANGED << today, fills, books, applied, order >>

\* trade set-long-term: the flag of every fill of one bucket commits first.
SetLongTerm(c, strategy, value) ==
  /\ \E i \in DOMAIN fills : fills[i].strategy = strategy
  /\ Begin(c, "read")
  /\ fills' = [ i \in DOMAIN fills |->
                  IF fills[i].strategy = strategy THEN [ fills[i] EXCEPT !.lt = value ]
                  ELSE fills[i] ]
  /\ stale' = TRUE
  /\ UNCHANGED << today, ledger, books, applied, order >>

\* trade close-all reads what every bucket holds that is not long-term...
CloseAll(c) ==
  LET lots == books.lots
      held(s) == Tally([ i \in DOMAIN lots |->
                           IF lots[i].strategy = s /\ ~ lots[i].lt THEN lots[i].qty ELSE 0 ])
      open == Only(SetToSeq(Buckets), { s \in Buckets : held(s) > 0 })
      orders == [ k \in DOMAIN open |-> [ strategy |-> open[k], qty |-> held(open[k]) ] ]
  IN /\ Free(c)
     /\ orders # << >>
     /\ command' = [ command EXCEPT ![c] = [ pc |-> "close", orders |-> orders ] ]
     /\ used' = [ used EXCEPT !.command = @ + 1, !.step = @ + 1 ]
     /\ UNCHANGED << today, fills, ledger, books, applied, stale, order >>

\* ... and sells one bucket after the other at the last close, a transaction
\* each.  One execution key per bucket and day: a second sale is skipped.
CloseNext(c) ==
  LET o == Head(command[c].orders)
      rest == Tail(command[c].orders)
      f == [ Trade("SELL", o.strategy, o.qty, today, FALSE) EXCEPT !.urgent = TRUE ]
      next(cmds) == [ cmds EXCEPT ![c] = IF rest = << >> THEN idle
                                         ELSE [ pc |-> "close", orders |-> rest ] ]
      booked == \E i \in DOMAIN fills : /\ fills[i].urgent /\ fills[i].strategy = o.strategy
                                       /\ fills[i].at = f.at
  IN /\ command[c].pc = "close"
     /\ \/ ~ booked /\ Book(f, next(Overtaken))
        \/ /\ booked \/ ~ ApplyFill(books, f).ok
           /\ command' = IF booked THEN next(command) ELSE [ command EXCEPT ![c] = idle ]
           /\ UNCHANGED << today, fills, ledger, books, applied, used, stale, order >>

\* rebuild_from_ledger selects the fills and the opening balance.
Read(c) ==
  /\ command[c].pc = "read"
  /\ command' = [ command EXCEPT ![c] = [ pc |-> "write", fills |-> fills,
                                          opening |-> Opening, current |-> TRUE ] ]
  /\ UNCHANGED << today, fills, ledger, books, applied, used, stale, order >>

\* Its transaction: everything of a fill is deleted and written anew from the
\* rows selected; the corporate actions are read here.
Write(c) ==
  /\ command[c].pc = "write"
  /\ LET after == Replay(command[c].fills, applied, command[c].opening)
     IN /\ after.ok
        /\ books' = after
        /\ fills' = InTime(command[c].fills)
  /\ command' = [ Overtaken EXCEPT ![c] = idle ]
  /\ stale' = ~ command[c].current
  /\ order' = IF order = "kept" /\ command[c].current THEN order ELSE "restored"
  /\ UNCHANGED << today, ledger, applied, used >>

\* A replayed SELL finds no lot: rolled back, the command ends.
WriteFails(c) ==
  /\ command[c].pc = "write"
  /\ ~ Replay(command[c].fills, applied, command[c].opening).ok
  /\ command' = [ command EXCEPT ![c] = idle ]
  /\ UNCHANGED << today, fills, ledger, books, applied, used, stale, order >>

\* The process dies between two commits.
Crash(c) ==
  /\ command[c].pc # "idle"
  /\ command' = [ command EXCEPT ![c] = idle ]
  /\ UNCHANGED << today, fills, ledger, books, applied, used, stale, order >>

Next ==
  \/ \E t \in Trades :
       \/ \E strategy \in Strategies : EngineFill(t[1], strategy, t[2])
       \/ \E r \in Recorded, day \in Days : RecordFill(t[1], r[1], t[2], day, r[2])
  \/ \E a \in CorpActions, now \in Now : ApplyAction(a, now)
  \/ NextDay
  \/ \E c \in Commands :
       \/ RebuildProjections(c)
       \/ \E amount \in Amounts : AdjustCash(c, amount) \/ Adjust(c, amount)
       \/ \E strategy \in Buckets, value \in BOOLEAN : SetLongTerm(c, strategy, value)
       \/ CloseAll(c) \/ CloseNext(c)
       \/ Read(c) \/ Write(c) \/ WriteFails(c) \/ Crash(c)

Spec == Init /\ [][Next]_vars

-----------------------------------------------------------------------------
(* Properties *)

Open(lots) ==
  { [ fill |-> l.fill, qty |-> l.qty, price |-> l.price, lt |-> l.lt ]
      : l \in { k \in ToSet(lots) : k.qty > 0 } }

Closed(matches) == { m \in ToSet(matches) : m.qty > 0 }

\* What rebuild_from_ledger promises: a rebuild succeeds, and finds the lots,
\* the cost basis, the matches and the balance that the transactions themselves
\* had left, if the facts came in the order of their time and no command was
\* left unfinished or overtaken.
RebuildAgrees ==
  ~ stale /\ order # "broken" =>
    LET again == Replay(fills, applied, Opening)
    IN /\ again.ok
       /\ Open(again.lots) = Open(books.lots)
       /\ Closed(again.matches) = Closed(books.matches)
       /\ again.cash = books.cash /\ again.flows = books.flows

\* docs: a rebuild clears and writes projections, never the facts.
FactsAreKept ==
  [][ { fills[i].id : i \in DOMAIN fills } \subseteq { fills'[i].id : i \in DOMAIN fills' } ]_vars
=============================================================================
