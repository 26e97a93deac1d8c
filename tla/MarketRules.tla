----------------------------- MODULE MarketRules -----------------------------
(***************************************************************************)
(* What the strategies and the risk exits read from the bar store, and     *)
(* what they decide from it.  A market gives every symbol a bar for every  *)
(* calendar day 1 .. n; a bar that is not complete is one that neither     *)
(* find() nor history() returns, stored or not.  Prices are in units of    *)
(* 1/10000 TWD; the rules compare ratios.                                  *)
(* P holds the entry parameters of the strategy, X the exit block of its   *)
(* YAML; the decisions are those of src/strategy/*.py with the names the   *)
(* code gives their conditions.                                            *)
(***************************************************************************)
EXTENDS Integers, Sequences, SequencesExt, FiniteSets, FiniteSetsExt

CONSTANTS Sessions,   \* the trading days among the calendar days
          Index,      \* index_symbol of the pipeline
          P, X        \* entry and exit parameters

-----------------------------------------------------------------------------
(* Calendar. *)

SessionsBetween(a, b) == { d \in Sessions : a <= d /\ d <= b }

\* next_trading_day; the day after the last modelled session stands for all
\* the later ones.
NextSession(d) ==
  LET later == { e \in Sessions : e > d }
  IN IF later = {} THEN Max(Sessions) + 1 ELSE Min(later)

-----------------------------------------------------------------------------
(* Point-in-time reads. *)

Found(m, s, d) == m[s][d].complete

\* Mutant: the newest bars of the store, without the upper bound on the date.
UnboundedHistory(m, s, d, limit) ==
  LET seen == SelectSeq([ i \in 1 .. Len(m[s]) |-> m[s][i] ], LAMBDA b : b.complete)
  IN SubSeq(seen, IF Len(seen) > limit THEN Len(seen) - limit + 1 ELSE 1, Len(seen))

\* history(symbol, limit) as of day d: the newest limit bars up to d, oldest first.
History(m, s, d, limit) ==
  LET seen == SelectSeq([ i \in 1 .. d |-> m[s][i] ], LAMBDA b : b.complete)
  IN SubSeq(seen, IF Len(seen) > limit THEN Len(seen) - limit + 1 ELSE 1, Len(seen))

Closes(h) == [ i \in DOMAIN h |-> h[i].close ]

Total(seq) == FoldLeft(LAMBDA n, x : n + x, 0, seq)

LastN(seq, n) == SubSeq(seq, Len(seq) - n + 1, Len(seq))

\* The n elements before the last one.
BeforeLast(seq, n) == LastN(Front(seq), n)

\* index_above_ma: too short a history does not pass.
IndexAboveMa(m, d) ==
  LET h == Closes(History(m, Index, d, P.indexMa))
  IN Len(h) = P.indexMa /\ Last(h) * P.indexMa > Total(h)

-----------------------------------------------------------------------------
(* Entry conditions of one symbol the strategy does not hold. *)

TrendBreakout(m, s, d) ==
  LET need == Max({P.lookback + 1, P.volumeDays + 1, P.trendMa})
      h    == History(m, s, d, need)
      c    == Closes(h)
      v    == [ i \in DOMAIN h |-> h[i].volume ]
      avgSum == Total(BeforeLast(v, P.volumeDays))
  IN /\ Len(h) = need
     /\ Last(c) > Max(ToSet(BeforeLast(c, P.lookback)))
     /\ avgSum > 0 /\ Last(v) * P.volumeDays * 100 > P.volumePct * avgSum
     /\ Last(c) * P.trendMa > Total(LastN(c, P.trendMa))

Upper(b) == b.high - Max({b.open, b.close})
Lower(b) == Min({b.open, b.close}) - b.low

\* The filter drops a breakout whose upper shadows outweigh the lower ones; a
\* window that is too short drops nothing.
BreakoutShadowFilter(m, s, d) ==
  LET h == History(m, s, d, P.shadowDays)
      upper == Total([ i \in DOMAIN h |-> Upper(h[i]) ])
      lower == Total([ i \in DOMAIN h |-> Lower(h[i]) ])
  IN TrendBreakout(m, s, d) /\ ~ (Len(h) = P.shadowDays /\ upper > lower)

TrendRider(m, s, d) ==
  LET need == Max({P.lookback + 1, 2 * P.trendMa})
      c    == Closes(History(m, s, d, need))
      now  == Total(LastN(c, P.trendMa))
      then == Total(SubSeq(c, Len(c) - 2 * P.trendMa + 1, Len(c) - P.trendMa))
  IN /\ Len(c) = need
     /\ Last(c) > Max(ToSet(BeforeLast(c, P.lookback)))
     /\ Last(c) * P.trendMa > now
     /\ now > then

PullbackRebound(m, s, d) ==
  LET need  == P.maLong + 1
      h     == History(m, s, d, need)
      c     == Closes(h)
      short == Total(LastN(c, P.maShort))
      long  == Total(LastN(c, P.maLong))
  IN /\ Len(h) = need
     /\ Last(c) * P.maLong > long /\ short * P.maLong > long * P.maShort
     /\ Last(h).low * P.maShort * 10000 <= short * (10000 + P.touchBps)
     /\ Last(c) > Last(h).open /\ Last(c) > c[Len(c) - 1]

TrendPullback(m, s, d) ==
  LET need  == Max({P.maShort, P.maLong})
      c     == Closes(History(m, s, d, need))
      short == Total(LastN(c, P.maShort))
      long  == Total(LastN(c, P.maLong))
  IN /\ Len(c) = need
     /\ Last(c) * P.maLong > long /\ short * P.maLong > long * P.maShort
     /\ Last(c) * P.maShort < short

\* Which of them, by strategy id; only the retired trend_pullback ignores the index.
Enters(strategy, m, s, d) ==
  /\ strategy # "trend_pullback" => IndexAboveMa(m, d)
  /\ CASE strategy = "trend_breakout"         -> TrendBreakout(m, s, d)
       [] strategy = "breakout_shadow_filter" -> BreakoutShadowFilter(m, s, d)
       [] strategy = "trend_rider"            -> TrendRider(m, s, d)
       [] strategy = "pullback_rebound"       -> PullbackRebound(m, s, d)
       [] strategy = "trend_pullback"         -> TrendPullback(m, s, d)

\* trend_pullback also sells what it holds, from its own bundle.
OwnExit(strategy, m, s, d, wavg) ==
  LET need == Max({P.maShort, P.maLong})
      c    == Closes(History(m, s, d, need))
  IN /\ strategy = "trend_pullback" /\ Len(c) = need
     /\ \/ Last(c) * 10000 <= wavg * (10000 - P.stopBps)
        \/ Last(c) * 10000 >= wavg * (10000 + P.profitBps)
        \/ Last(c) * P.maLong < Total(LastN(c, P.maLong))

-----------------------------------------------------------------------------
(* Risk exits: explain_exit for a position bought at wavg on day first, whose *)
(* highest recorded close is high (0 when there is none).                     *)

FixedStop(close, wavg) == close * 10000 <= wavg * (10000 - X.fixedBps)

Trailing(close, wavg, high) ==
  LET top == IF high > 0 THEN high ELSE Max({wavg, close})
  IN close * 10000 <= top * (10000 - X.trailingBps)

\* The last X.confirm closes are each below the average that ends there.
MaBreak(m, s, d) ==
  LET need == X.maPeriod + X.confirm - 1
      c    == Closes(History(m, s, d, need))
  IN /\ Len(c) = need
     /\ \A end \in need - X.confirm + 1 .. need :
          c[end] * X.maPeriod * 10000
            < Total(SubSeq(c, end - X.maPeriod + 1, end)) * (10000 - X.bufferBps)

TimeStop(close, wavg, first, d) ==
  /\ Cardinality(SessionsBetween(first, d)) - 1 >= X.timeDays
  /\ (close - wavg) * 10000 < X.minReturnBps * wavg

\* The first condition that holds, in the order of the code, or "none".
ExitReason(m, s, d, wavg, first, high) ==
  LET latest == History(m, s, d, 1)
      close  == latest[1].close
  IN IF latest = << >> \/ wavg <= 0        THEN "none"
     ELSE IF FixedStop(close, wavg)        THEN "FIXED_STOP_EXIT"
     ELSE IF Trailing(close, wavg, high)   THEN "TRAILING_STOP_EXIT"
     ELSE IF MaBreak(m, s, d)              THEN "MA_BREAK_EXIT"
     ELSE IF TimeStop(close, wavg, first, d) THEN "TIME_STOP_EXIT"
     ELSE "none"

-----------------------------------------------------------------------------
(* FakeBroker on the bar of the execution day. *)

LimitPct == 95   \* in thousandths; 65 before June 2015

\* _unfilled_reason, or "none"; a day without a bar first.
UnfilledReason(m, o, d) ==
  LET bar == m[o.symbol][d]
      h   == History(m, o.symbol, d, 2)
      prev == h[1].close
      locked == Found(m, o.symbol, d) /\ Len(h) = 2 /\ bar.high = bar.low /\ prev > 0
  IN IF ~ Found(m, o.symbol, d) THEN "UNFILLED_NO_BAR"
     ELSE IF bar.volume = 0 THEN "UNFILLED_ZERO_VOLUME"
     ELSE IF locked /\ o.side = "BUY" /\ bar.close * 1000 >= prev * (1000 + LimitPct)
          THEN "UNFILLED_LIMIT_UP_LOCKED"
     ELSE IF locked /\ o.side = "SELL" /\ bar.close * 1000 <= prev * (1000 - LimitPct)
          THEN "UNFILLED_LIMIT_DOWN_LOCKED"
     ELSE "none"
=============================================================================
