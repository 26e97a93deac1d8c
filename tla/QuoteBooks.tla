----------------------------- MODULE QuoteBooks -----------------------------
(***************************************************************************)
(* normalize_raw_book, _side and book_metrics: the levels of a side as the *)
(* provider sends them, a price and a volume each, zero for what is not    *)
(* there.  A payload that is no book of quotes is refused, for the first   *)
(* reason that is met.                                                     *)
(***************************************************************************)
EXTENDS Integers, Sequences, FiniteSets, FiniteSetsExt, Functions, Tallies

CONSTANTS Depth,         \* levels of a side: 5
          LotSize        \* shares of a board lot: 1000

ASSUME DepthAssumption == Depth \in Nat /\ LotSize \in Nat \ {0}

Fine == "fine"

\* The reason of the first check that hits: checks are pairs of both.
FirstReason(checks) ==
  LET hits == { i \in DOMAIN checks : checks[i][1] }
  IN  IF hits = {} THEN Fine ELSE checks[Min(hits)][2]

Missing(level) == level.price = 0 /\ level.volume = 0

Quoted(levels) == Only(levels, { l \in Range(levels) : ~Missing(l) })

\* A level behind a hole.
Detached(levels, j) == ~Missing(levels[j]) /\ \E i \in 1..(j - 1) : Missing(levels[i])

\* _price and _volume raise.
Unreadable(level) == ~Missing(level) /\ (level.price <= 0 \/ level.volume < 0)

\* What the loop over the levels stops at.
LevelReason(levels) ==
  FirstReason([ k \in 1..(2 * Len(levels)) |->
    LET j == (k + 1) \div 2
    IN  IF k % 2 = 1 THEN << Detached(levels, j), "noncontiguous_levels" >>
                     ELSE << Unreadable(levels[j]), "needs_review" >> ])

SortedLevels(q, descending) ==
  \A i \in 1..(Len(q) - 1) :
     IF descending THEN q[i].price > q[i + 1].price ELSE q[i].price < q[i + 1].price

SideReason(levels, descending) ==
  LET q == Quoted(levels)
  IN  IF Len(levels) > Depth THEN "side_length"
      ELSE IF LevelReason(levels) # Fine THEN LevelReason(levels)
      ELSE FirstReason(<<
             << ~IsInjective([ i \in DOMAIN q |-> q[i].price ]), "duplicate_level_price" >>,
             << ~SortedLevels(q, descending), "unsorted_levels" >> >>)

Top(levels) == Quoted(levels)[1].price

BothSides(payload) == Quoted(payload.bid) # << >> /\ Quoted(payload.ask) # << >>

BookReason(payload, recordLot) ==
  LET bid == SideReason(payload.bid, TRUE)
      ask == SideReason(payload.ask, FALSE)
  IN  FirstReason(<<
        << payload.simtrade, "simtrade" >>,
        << payload.suspend, "suspend" >>,
        << payload.lot # recordLot, "lot_mismatch" >>,
        << bid # Fine, bid >>,
        << ask # Fine, ask >>,
        << BothSides(payload) /\ Top(payload.bid) >= Top(payload.ask), "crossed_book" >> >>)

Visible(levels, lot) ==
  LET q == Quoted(levels)
  IN  Tally([ i \in DOMAIN q |-> q[i].volume * (IF lot = "BOARD" THEN LotSize ELSE 1) ])

Unknown == -1

\* Mutant: a side that is missing counts as one without volume.
VolumeIsEnough(payload) == TRUE

Comparable(payload) == BothSides(payload)

Spread(payload) ==
  IF BothSides(payload) THEN Top(payload.ask) - Top(payload.bid) ELSE Unknown

\* Bid share of the visible volume, in basis points.
Imbalance(payload) ==
  LET bid == Visible(payload.bid, payload.lot)
      total == bid + Visible(payload.ask, payload.lot)
  IN  IF total > 0 /\ Comparable(payload) THEN (bid * 10000) \div total ELSE Unknown

----------------------------------------------------------------------------
(* What is checked of one payload.                                          *)

\* The levels that are there, by their numbers: the first ones, each worse than
\* the one before, and no bid reaches an ask.
Ranks(levels) == { i \in DOMAIN levels : levels[i].price # 0 \/ levels[i].volume # 0 }

Contiguous(levels) == Ranks(levels) = 1..Cardinality(Ranks(levels))

Falling(levels) == \A i, j \in Ranks(levels) : i < j => levels[i].price > levels[j].price

Rising(levels) == \A i, j \in Ranks(levels) : i < j => levels[i].price < levels[j].price

Uncrossed(bid, ask) == \A i \in Ranks(bid), j \in Ranks(ask) : bid[i].price < ask[j].price

\* A book that is accepted is a book: on each side the quotes are the first
\* levels, each worse than the one before, no bid reaches an ask, and what is
\* computed from a side that is missing is unknown rather than a number.
IsBook(payload, recordLot) ==
  BookReason(payload, recordLot) = Fine =>
    /\ Contiguous(payload.bid) /\ Contiguous(payload.ask)
    /\ Falling(payload.bid) /\ Rising(payload.ask) /\ Uncrossed(payload.bid, payload.ask)
    /\ Ranks(payload.bid) = {} \/ Ranks(payload.ask) = {} =>
         Spread(payload) = Unknown /\ Imbalance(payload) = Unknown
    /\ Imbalance(payload) \in 0..10000 \cup { Unknown }
=============================================================================
