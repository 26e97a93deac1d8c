------------------------------ MODULE Tallies ------------------------------
(***************************************************************************)
(* What the loops over sums and filters compute, as recursive functions:   *)
(* unlike the folds of the community modules these can be proved about.    *)
(***************************************************************************)
EXTENDS Integers, Sequences

\* The sum of a sequence of integers.
Tally(s) ==
  LET sum[n \in 0 .. Len(s)] == IF n = 0 THEN 0 ELSE sum[n - 1] + s[n]
  IN sum[Len(s)]

\* The members of s that are in S, in their order.
Only(s, S) ==
  LET kept[n \in 0 .. Len(s)] ==
        IF n = 0 THEN << >>
        ELSE IF s[n] \in S THEN Append(kept[n - 1], s[n]) ELSE kept[n - 1]
  IN kept[Len(s)]

\* x into a sorted sequence, after what does not rank above it.
Placed(s, x, rank) ==
  Only(s, { y \in DOMAIN rank : rank[y] <= rank[x] }) \o << x >>
    \o Only(s, { y \in DOMAIN rank : rank[y] > rank[x] })

\* s sorted by rank, a function on its members; equals keep their order.
Sorted(s, rank) ==
  LET sorted[n \in 0 .. Len(s)] ==
        IF n = 0 THEN << >> ELSE Placed(sorted[n - 1], s[n], rank)
  IN sorted[Len(s)]
=============================================================================
