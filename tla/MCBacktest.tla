----------------------------- MODULE MCBacktest -----------------------------
(***************************************************************************)
(* Two runs of one strategy in lockstep, on markets that agree up to a day *)
(* and may differ after it.  Day 4 is no session; the window starts on day *)
(* 2, so day 1 is history a strategy may read.  Symbol "a" gets any of the *)
(* bars below from day 3 on, "b" breaks out once and competes for cash,    *)
(* the index rises all the time.                                           *)
(***************************************************************************)
EXTENDS Integers, Sequences, FiniteSets

CONSTANTS StrategyIds,   \* the strategies that are run
          Divergence     \* days from which the second market differs

VARIABLES strategy, marketA, atA, acctA, bundlesA, memoryA,
          marketB, atB, acctB, bundlesB, memoryB

\* Prices in ticks of 0.01 TWD, as stocks below 10 TWD have.
Bar(o, h, l, c, v) ==
  [ open |-> 100 * o, high |-> 100 * h, low |-> 100 * l, close |-> 100 * c,
    volume |-> v, complete |-> TRUE ]

Flat   == Bar(501, 506, 495, 500, 100)
Up     == Bar(507, 561, 500, 551, 300)
Shadow == Bar(507, 625, 500, 551, 300)
Gap    == Bar(703, 725, 650, 677, 300)
Down   == Bar(497, 500, 425, 439, 200)
Dip    == Bar(517, 530, 475, 527, 100)
Ease   == Bar(593, 620, 540, 601, 100)
LockUp == Bar(627, 627, 627, 627, 50)
Locked == Bar(351, 351, 351, 351, 50)
Halt   == Bar(500, 500, 500, 500, 0)
None   == [ Flat EXCEPT !.complete = FALSE ]

MCSessions == {1, 2, 3, 5, 6, 7}

Index == [ d \in 1 .. 7 |-> Bar(500 + 5 * d, 505 + 5 * d, 500 + 5 * d, 505 + 5 * d, 100) ]
B     == << Flat, Flat, Up, None, Gap, Ease, Down >>

Market(path) == [ s \in {"a", "b", "x"} |->
                    CASE s = "a" -> path [] s = "b" -> B [] s = "x" -> Index ]

\* The bars of "a": on day 4 nobody trades.
Paths ==
  { << Flat, second, third, None, fifth, sixth, seventh >> :
      second \in {Flat, Up}, third \in {Up, Shadow, Gap, Down},
      fifth \in {Dip, Ease, Down, LockUp, None},
      sixth \in {Up, Down, Locked, Halt, None}, seventh \in {Flat, Gap, None} }

\* The same path up to the day before k and another one from then on; or, for
\* the history before the window, the same path but for day k.
Diverged(path, k) ==
  { [ d \in 1 .. 7 |-> IF d < k \/ (k < 2 /\ d > k) THEN path[d] ELSE bar ] : bar \in {Up, Down} }

MCStrategies == {"trend_breakout", "breakout_shadow_filter", "trend_rider",
                 "pullback_rebound", "trend_pullback"}

MCP == [ indexMa |-> 2, lookback |-> 1, volumeDays |-> 1, volumePct |-> 150, trendMa |-> 2,
         shadowDays |-> 2, maShort |-> 2, maLong |-> 3, touchBps |-> 500,
         stopBps |-> 500, profitBps |-> 1200 ]
MCX == [ fixedBps |-> 700, trailingBps |-> 800, maPeriod |-> 2, confirm |-> 1,
         bufferBps |-> 0, timeDays |-> 2, minReturnBps |-> 500 ]

MCUniverse == << "a", "b" >>
MCMembers  == [ d \in 1 .. 7 |-> IF d = 6 THEN {"a"} ELSE {"a", "b"} ]

Per(v) == [ p \in MCStrategies |-> v ]
MCLim  == [ approved |-> MCStrategies, budget |-> Per(15000), orderValue |-> Per(15000),
            strategyDaily |-> Per(20000), globalDaily |-> 20000,
            strategyOpen |-> Per(2), globalOpen |-> 2, newPerDay |-> 2 ]

MCYear(d) == IF d < 6 THEN 2021 ELSE 2022

RunA == INSTANCE BacktestReport WITH
  Sessions <- MCSessions, Index <- "x", P <- MCP, X <- MCX, Universe <- MCUniverse,
  Members <- MCMembers, Approved <- TRUE, Lim <- MCLim, InitialCash <- 17000,
  SlippageBps <- 100, Start <- 2, End <- 7, YearOf <- MCYear,
  market <- marketA, at <- atA, acct <- acctA, bundles <- bundlesA, memory <- memoryA

RunB == INSTANCE BacktestReport WITH
  Sessions <- MCSessions, Index <- "x", P <- MCP, X <- MCX, Universe <- MCUniverse,
  Members <- MCMembers, Approved <- TRUE, Lim <- MCLim, InitialCash <- 17000,
  SlippageBps <- 100, Start <- 2, End <- 7, YearOf <- MCYear,
  market <- marketB, at <- atB, acct <- acctB, bundles <- bundlesB, memory <- memoryB

vars == << strategy, marketA, atA, acctA, bundlesA, memoryA,
           marketB, atB, acctB, bundlesB, memoryB >>

Init ==
  \E p \in StrategyIds, path \in Paths, k \in Divergence :
    \E other \in Diverged(path, k) :
      RunA!Begins(p, Market(path)) /\ RunB!Begins(p, Market(other))

Next == RunA!Next /\ RunB!Next

Spec == Init /\ [][Next]_vars

-----------------------------------------------------------------------------
\* The last day whose bars the runs have read.
ReadTo == IF atA.step = "execute" THEN atA.day - 1 ELSE atA.day

\* No look-ahead: what a run has bought, sold, decided and reported by the end
\* of a day is the same on any two markets that agree up to that day.
NoLookAhead ==
  (\A s \in DOMAIN marketA : SubSeq(marketA[s], 1, ReadTo) = SubSeq(marketB[s], 1, ReadTo))
    => /\ atA = atB /\ acctA = acctB /\ bundlesA = bundlesB /\ memoryA = memoryB

HighIsHighest        == RunA!HighIsHighest
ResultsReconcile     == RunA!ResultsReconcile
ExitsAreAccountedFor == RunA!ExitsAreAccountedFor
=============================================================================
