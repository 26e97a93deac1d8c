--------------------------- MODULE MCObservations ---------------------------
(***************************************************************************)
(* Five items in front of a plan with support 1..2 and resistance 2, where *)
(* a price can be below, in, at the top of or over the zone; two ticks and *)
(* two seconds confirm, and a delay or a pause of 3 is too long for both.  *)
(***************************************************************************)
EXTENDS Observations

L(price, volume) == [ price |-> price, volume |-> volume ]

Book(bid, ask) == [ bid |-> bid, ask |-> ask, lot |-> "BOARD",
                    simtrade |-> FALSE, suspend |-> FALSE ]

MCPayloads ==
  { Book(<< L(2, 1) >>, << L(3, 1) >>),                        \* a book
    Book(<< L(2, 1) >>, << L(0, 0) >>),                        \* one side
    Book(<< L(3, 1) >>, << L(3, 1) >>) }                       \* no book

\* A book of the past, of now, and of a clock that is ahead.
MCBookAges == { -3, 0, 1 }

\* All sides of up to two levels, and one payload for each early refusal.
Levels == { L(p, v) : p \in { 0, 1, 2, 3 }, v \in { 0, 2 } }
Sides == UNION { [ 1..n -> Levels ] : n \in 0..2 } \cup { << L(1, 1), L(0, 0), L(2, 1) >> }
MCSamples ==
  { Book(b, a) : b \in Sides, a \in Sides } \cup
  { [ Book(<< >>, << >>) EXCEPT !.simtrade = TRUE ], [ Book(<< >>, << >>) EXCEPT !.suspend = TRUE ],
    [ Book(<< >>, << >>) EXCEPT !.lot = "ODD" ] }
=============================================================================
