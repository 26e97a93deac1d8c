---------------------------- MODULE PortfolioOps ----------------------------
(***************************************************************************)
(* The pure part of src/portfolio/projection.py for one account and one    *)
(* symbol: what a fill and a corporate action do to the projection, and    *)
(* what rebuild_from_ledger computes from the facts.                       *)
(*                                                                         *)
(*   fill    id, side, strategy, qty, price, at (filled_at), lt            *)
(*           (is_long_term), corp (source = CORP_ACTION), urgent (its      *)
(*           execution key is one of trade close-all)                      *)
(*   lot     fill (the BUY it came from), strategy, qty, price, at         *)
(*           (acquired_at), lt                                             *)
(*   action  type, ex (ex_date), cps (cash_per_share), and stock_ratio as  *)
(*           the fraction num / den                                        *)
(*   books   the projection: lots in insertion order, fifo_matches, the    *)
(*           balance, the sum of the FILL rows of cash_ledger, and ok,     *)
(*           which is FALSE when the code raises                           *)
(*                                                                         *)
(* Prices are TWD x 10000, cash is TWD.  Day d begins at time 2d (a bare   *)
(* date sorts before every time of its day) and its fills are at 2d + 1.   *)
(***************************************************************************)
EXTENDS AllocatorOps

StartOf(day) == 2 * day
FillTime(day) == 2 * day + 1

\* round(quantity * price / 10000)
Value(f) == Rounded(f.qty * f.price, 10000)

\* The FILL rows of cash_ledger that a fill writes.
Flow(f) ==
  IF f.corp THEN 0
  ELSE IF f.side = "BUY" THEN - (Value(f) + Fee(Value(f)))
  ELSE Value(f) - Fee(Value(f)) - Tax(Value(f))

-----------------------------------------------------------------------------
(* FIFO: a SELL takes from the lots of its own bucket, the oldest first. *)

\* Mutant: from the lots of any strategy.
AnyBucket(lots, f) == { i \in DOMAIN lots : lots[i].lt = f.lt }

Eligible(lots, f) ==
  { i \in DOMAIN lots : lots[i].strategy = f.strategy /\ lots[i].lt = f.lt }

\* ORDER BY acquired_at; lots of the same time in the order of insertion.
Older(lots, i, j) == lots[i].at < lots[j].at \/ (lots[i].at = lots[j].at /\ i < j)

\* remaining_sell when the loop reaches lot i.
Remaining(lots, f, i) ==
  f.qty - Tally([ j \in DOMAIN lots |->
                    IF j \in Eligible(lots, f) /\ Older(lots, j, i) THEN lots[j].qty ELSE 0 ])

Reached(lots, f) == { i \in Eligible(lots, f) : Remaining(lots, f, i) > 0 }

Taken(lots, f, i) ==
  IF i \notin Reached(lots, f) THEN 0
  ELSE IF lots[i].qty > Remaining(lots, f, i) THEN Remaining(lots, f, i) ELSE lots[i].qty

Matched(lots, f) == Tally([ i \in DOMAIN lots |-> Taken(lots, f, i) ])

\* The rows of S, by their place in the table.
Places(rows, S) == Only([ i \in DOMAIN rows |-> i ], S)

\* A lot that the loop reaches is deleted unless it is larger than what is left.
Left(lots, f) ==
  Places(lots, { i \in DOMAIN lots : i \in Reached(lots, f) => lots[i].qty # Taken(lots, f, i) })

\* Mutant: a lot sold in part keeps its quantity.
PartKept(lots, f) == LET left == Left(lots, f) IN [ k \in DOMAIN left |-> lots[left[k]] ]

LotsAfterSell(lots, f) ==
  LET left == Left(lots, f)
  IN [ k \in DOMAIN left |->
         [ lots[left[k]] EXCEPT !.qty = @ - Taken(lots, f, left[k]) ] ]

\* One row per lot reached; no query depends on the order of the rows.
MatchesOfSell(lots, f) ==
  LET sold == Places(lots, Reached(lots, f))
  IN [ k \in DOMAIN sold |->
         [ buy |-> lots[sold[k]].fill, sell |-> f.id, qty |-> Taken(lots, f, sold[k]),
           buyPrice |-> lots[sold[k]].price, sellPrice |-> f.price ] ]

LotOf(f) ==
  [ fill |-> f.id, strategy |-> f.strategy, qty |-> f.qty, price |-> f.price,
    at |-> f.at, lt |-> f.lt ]

\* _apply_corp_action_fill_lots: a synthetic fill of a rebuild moves shares only.
MoveShares(b, f) ==
  IF f.side = "BUY" THEN [ b EXCEPT !.lots = Append(@, LotOf(f)) ]
  ELSE [ b EXCEPT !.ok = @ /\ Matched(b.lots, f) = f.qty, !.lots = LotsAfterSell(@, f) ]

\* _apply_fill_ops: the FILL rows, and the lots; a SELL records its matches.
ApplyFill(b, f) ==
  IF f.corp THEN MoveShares(b, f)
  ELSE LET moved == MoveShares(b, f)
           settled == [ moved EXCEPT !.cash = @ + Flow(f), !.flows = @ + Flow(f) ]
       IN IF f.side = "BUY" THEN settled
          ELSE [ settled EXCEPT !.matches = @ \o MatchesOfSell(b.lots, f) ]

-----------------------------------------------------------------------------
(* Corporate actions. *)

\* Shares after the action for one before it; a SPLIT gives the new total.
Factor(a) ==
  IF a.type = "STOCK_DIVIDEND" THEN << a.num + a.den, a.den >> ELSE << a.num, a.den >>

AdjustedPrice(a, price) ==
  IF a.type = "CASH_DIVIDEND" THEN price - a.cps
  ELSE (price * Factor(a)[2]) \div Factor(a)[1]

Reprice(a, lots) == [ i \in DOMAIN lots |-> [ lots[i] EXCEPT !.price = AdjustedPrice(a, @) ] ]

\* Shares that a lot gains or, in a capital reduction, loses.
Bonus(a, qty) == (qty * (Factor(a)[1] - Factor(a)[2])) \div Factor(a)[2]

Cancelled(a, qty) == qty - (qty * a.num) \div a.den

SyntheticFill(a, lot, id, side, qty) ==
  [ id |-> id, side |-> side, strategy |-> lot.strategy, qty |-> qty,
    price |-> AdjustedPrice(a, lot.price), at |-> StartOf(a.ex), lt |-> lot.lt,
    corp |-> TRUE, urgent |-> FALSE ]

\* _apply_stock_dividend, of a SPLIT too: per lot a fill of the new shares and
\* a lot of its own, acquired now.
BonusFills(a, lots, next) ==
  [ i \in DOMAIN lots |->
      SyntheticFill(a, lots[i], next + i - 1, "BUY", Bonus(a, lots[i].qty)) ]

WithBonus(a, lots, next, now) ==
  LET synth == BonusFills(a, lots, next)
  IN Reprice(a, lots) \o [ i \in DOMAIN synth |-> [ LotOf(synth[i]) EXCEPT !.at = now ] ]

\* _apply_capital_reduction: a fill per lot that loses shares; a lot may be
\* left with none.
CancelFills(a, lots, next) ==
  LET cut == Places(lots, { i \in DOMAIN lots : Cancelled(a, lots[i].qty) > 0 })
  IN [ k \in DOMAIN cut |->
         SyntheticFill(a, lots[cut[k]], next + k - 1, "SELL", Cancelled(a, lots[cut[k]].qty)) ]

Reduced(a, lots) ==
  LET repriced == Reprice(a, lots)
  IN [ i \in DOMAIN lots |-> [ repriced[i] EXCEPT !.qty = @ - Cancelled(a, @) ] ]

SyntheticFills(a, lots, next) ==
  CASE a.type = "CASH_DIVIDEND"     -> << >>
    [] a.type = "CAPITAL_REDUCTION" -> CancelFills(a, lots, next)
    [] OTHER                        -> BonusFills(a, lots, next)

LotsAfterAction(a, lots, next, now) ==
  CASE a.type = "CASH_DIVIDEND"     -> Reprice(a, lots)
    [] a.type = "CAPITAL_REDUCTION" -> Reduced(a, lots)
    [] OTHER                        -> WithBonus(a, lots, next, now)

\* Cash paid on the shares held before the action.
Payout(a, lots) ==
  (Tally([ i \in DOMAIN lots |-> lots[i].qty ]) * a.cps) \div 10000

-----------------------------------------------------------------------------
(* rebuild_from_ledger *)

\* ORDER BY filled_at, then the order in which the rows were written.
InTime(fills) == Sorted(fills, [ f \in ToSet(fills) |-> f.at ])

\* ORDER BY ex_date, action_id
InOrder(actions) ==
  Sorted(Sorted(SetToSeq(actions), [ a \in actions |-> a.id ]), [ a \in actions |-> a.ex ])

\* Mutant: the prices are not adjusted again.
PricesForgotten(b, a) == b

\* _replay_corporate_action_prices: prices only, the shares are in the fills.
ReplayAction(b, a) == [ b EXCEPT !.lots = Reprice(a, @) ]

ReplayActions(b, acts) ==
  LET done[n \in 0 .. Len(acts)] == IF n = 0 THEN b ELSE ReplayAction(done[n - 1], acts[n])
  IN done[Len(acts)]

\* One time line of the fills and the actions that took effect, an action before
\* a fill of the same time: before row k come the actions due since the row
\* before it, and after the last row those that are left.
Replay(fills, actions, opening) ==
  LET start == [ lots |-> << >>, matches |-> << >>, cash |-> opening, flows |-> 0, ok |-> TRUE ]
      rows == InTime(fills)
      acts == InOrder(actions)
      due(k) == { a \in actions : /\ k > 1 => StartOf(a.ex) > rows[k - 1].at
                                  /\ k <= Len(rows) => StartOf(a.ex) <= rows[k].at }
      done[k \in 0 .. Len(rows)] ==
        IF k = 0 THEN start
        ELSE ApplyFill(ReplayActions(done[k - 1], Only(acts, due(k))), rows[k])
  IN ReplayActions(done[Len(rows)], Only(acts, due(Len(rows) + 1)))
=============================================================================
