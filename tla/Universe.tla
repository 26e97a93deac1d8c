------------------------------ MODULE Universe ------------------------------
(***************************************************************************)
(* The table universe_policy: `market build-universe` ranks the symbols by *)
(* their traded amount at the first session of each month and writes the   *)
(* top ones for the time until the next ranking; a fixed list can be       *)
(* seeded as a diagnostic policy; a backtest, and the daily run of an      *)
(* account with an override, ask who is in a version on a day.             *)
(*                                                                         *)
(* Days are calendar days, 0 in the table of amounts is a day without a    *)
(* bar.  What of the table has been synced is its part up to today.        *)
(***************************************************************************)
EXTENDS Integers, Sequences, FiniteSets, FiniteSetsExt, Functions

CONSTANTS Symbols, MonthOf,      \* MonthOf[d] for each day d
          Order,                 \* of equal symbols in a ranking
          Versions, DiagnosticNames,
          Fixed,                 \* the symbols of universe.yaml
          Windows,               \* << --from, --to >> of the builds
          Table,                 \* Table[s][d], what is traded of s on day d
          TopN, Lookback, MinSessions,
          Open,                  \* effective_to IS NULL
          MaxBuilds, MaxSeeds    \* bounds

ASSUME CalendarAssumption == MonthOf \in Seq(Nat) /\ MonthOf # << >>

VARIABLES today,                 \* the last day that is synced
          policy,                \* the rows of universe_policy, by version
          built, seeded          \* builds of each version, seeds of any

universe == << today, policy, built, seeded >>

Days == DOMAIN MonthOf
LastDay == Max(Days)

ASSUME WindowsAssumption == Windows \subseteq Days \X Days
ASSUME OpenAssumption    == Open \notin Int

UniverseInit ==
  /\ today = 1
  /\ policy = [ v \in Versions |-> {} ]
  /\ built = [ v \in Versions |-> 0 ] /\ seeded = 0

\* The bars of the days up to d.
Upto(d) == [ s \in Symbols |-> [ t \in Days |-> IF t <= d THEN Table[s][t] ELSE 0 ] ]

----------------------------------------------------------------------------
(* build_liquidity_policy.                                                  *)

Session(bars, d) == \E s \in Symbols : bars[s][d] > 0

\* The first session of each month that falls into the window.
Rebalances(bars, window) ==
  { d \in window[1] .. window[2] :
      Session(bars, d) /\ \A t \in window[1] .. d - 1 : MonthOf[t] = MonthOf[d] => ~Session(bars, t) }

\* The sessions a ranking on day d looks at.
\* Mutant: the sessions around the day, not those that end with it.
AroundIt(bars, d) ==
  { t \in Days : Session(bars, t) /\ Cardinality({ u \in d .. t : Session(bars, u) }) <= Lookback }

Trailing(bars, d) ==
  { t \in 1 .. d : Session(bars, t) /\ Cardinality({ u \in t .. d : Session(bars, u) }) <= Lookback }

TradedOn(bars, s, days) == { t \in days : bars[s][t] > 0 }
Amount(bars, s, days) == SumFunction([ t \in days |-> bars[s][t] ])

\* A greater average comes first.
Ahead(bars, days, t, s) ==
  LET left == Amount(bars, t, days) * Cardinality(TradedOn(bars, s, days))
      right == Amount(bars, s, days) * Cardinality(TradedOn(bars, t, days))
  IN left > right \/ (left = right /\ Order[t] < Order[s])

Ranked(bars, d) ==
  LET days == Trailing(bars, d)
      candidates == { s \in Symbols : Cardinality(TradedOn(bars, s, days)) >= MinSessions }
  IN { s \in candidates : Cardinality({ t \in candidates : Ahead(bars, days, t, s) }) < TopN }

\* A ranking is in force until the day before the next, the last one for good.
EffectiveTo(dates, d) ==
  IF \E t \in dates : t > d THEN Min({ t \in dates : t > d }) - 1 ELSE Open

Rows(bars, window) ==
  LET dates == Rebalances(bars, window)
  IN UNION { { [ symbol |-> s, from |-> d, to |-> EffectiveTo(dates, d), known |-> d,
                 reason |-> "LIQUIDITY" ] : s \in Ranked(bars, d) } : d \in dates }

\* What a build over a window gives when day d is the last one synced.
Built == [ d \in Days |-> [ w \in Windows |-> Rows(Upto(d), w) ] ]

\* ON CONFLICT DO NOTHING: a row that is there keeps its end, so that a second
\* build over a longer window leaves the last ranking of the first in force.
Insert(v, rows) ==
  [ policy EXCEPT ![v] = @ \cup { r \in rows : \A q \in @ : << q.symbol, q.from >> # << r.symbol, r.from >> } ]

BuildUniverse(v, window) ==
  /\ built[v] < MaxBuilds
  /\ v \notin DiagnosticNames
  /\ policy' = Insert(v, Built[today][window])
  /\ built' = [ built EXCEPT ![v] = @ + 1 ]
  /\ UNCHANGED << today, seeded >>

----------------------------------------------------------------------------
(* seed_diagnostic_policy.                                                  *)

MaySeed(v) == v \in DiagnosticNames

SeedDiagnostic(v, d) ==
  /\ seeded < MaxSeeds /\ seeded' = seeded + 1
  /\ MaySeed(v)
  /\ policy' = Insert(v, { [ symbol |-> s, from |-> d, to |-> Open, known |-> d,
                             reason |-> "FIXED_LIST" ] : s \in Fixed })
  /\ UNCHANGED << today, built >>

\* Another day is synced.
SyncDay ==
  /\ today < LastDay /\ today' = today + 1
  /\ UNCHANGED << policy, built, seeded >>

----------------------------------------------------------------------------
(* Queries.                                                                 *)

InForce(rows, d) ==
  { r.symbol : r \in { q \in rows : q.known <= d /\ q.from <= d /\ (q.to = Open \/ q.to >= d) } }

AllSymbols(v) == { r.symbol : r \in policy[v] }

UniverseNext ==
  \/ \E v \in Versions : \/ \E w \in Windows : BuildUniverse(v, w)
                         \/ SeedDiagnostic(v, today)
  \/ SyncDay

----------------------------------------------------------------------------
(* Properties.                                                              *)

\* Who is in a policy on a day is decided by the bars up to that day: a build
\* that sees later bars gives the answer that a build on the day gives
\* (liquidity_universe.py:7-8, 42-107).
PointInTime ==
  \A w \in Windows : \A d \in 1 .. today :
    InForce(Built[today][w], d) = InForce(Built[d][w], d)
==============================================================================
