--------------------------- MODULE PortfolioProofs ---------------------------
(***************************************************************************)
(* The books of an account, for every number of days, fills, corporate     *)
(* actions, cash rows, commands and crashes: what is in the projection is  *)
(* what the facts say (BooksHold), every view of the account reconciles    *)
(* with it (ReconcileHolds), and every share was bought before it was sold *)
(* and is sold once (SharesHold).                                          *)
(*                                                                         *)
(* In the order of the module: recursive functions, tallies of sequences,  *)
(* sorting, the rows of the tables and the inductive invariant, lots and   *)
(* matches of a fill, corporate actions, the replay of a rebuild, the      *)
(* actions of Portfolio, and last the views of AccountViews.               *)
(***************************************************************************)
EXTENDS AccountViews, FiniteSetTheorems, SequenceTheorems, WellFoundedInduction, TLAPS

-----------------------------------------------------------------------------
(* Recursive functions. *)

\* A set of numbers that is not empty has a least member: induction over finite
\* sets, as the theorem of the library on strict subsets states it.
LEMMA Least == \A T \in SUBSET Nat : T # {} => \E n \in T : \A m \in T : n <= m
<1> SUFFICES ASSUME NEW T \in SUBSET Nat, T # {}
             PROVE  \E n \in T : \A m \in T : n <= m
  OBVIOUS
<1> DEFINE F == { 1 .. n : n \in T }
           R == StrictSubsetOrdering(Nat)
<1>1. IsWellFoundedOn(R, FiniteSubsetsOf(Nat))
  BY FS_StrictSubsetOrderingWellFounded
<1>2. F \subseteq FiniteSubsetsOf(Nat) /\ F # {}
  <2>1. \A n \in T : IsFiniteSet(1 .. n)
    BY FS_Interval
  <2>2. \A n \in T : 1 .. n \in FiniteSubsetsOf(Nat)
    BY <2>1 DEF FiniteSubsetsOf
  <2> QED BY <2>2
<1>3. \E x \in F : \A y \in F : ~ (<<y, x>> \in R)
  <2> HIDE DEF F, R
  <2> QED BY <1>1, <1>2, WFMin
<1>4. PICK n \in T : \A y \in F : ~ (<<y, 1 .. n>> \in R)
  BY <1>3
<1>5. ASSUME NEW m \in T PROVE n <= m
  <2>1. ~ (<<1 .. m, 1 .. n>> \in R)
    BY <1>4
  <2>2. CASE m < n
    <3>1. 1 .. m \subseteq 1 .. n /\ 1 .. m # 1 .. n
      <4>1. n \in 1 .. n /\ n \notin 1 .. m
        BY <2>2
      <4> QED BY <2>2, <4>1
    <3> QED BY <3>1, <2>1 DEF StrictSubsetOrdering
  <2> QED BY <2>2
<1> QED BY <1>5

\* What holds of 0 and, with any number up to n, of the one after it, holds of
\* all numbers up to n.
LEMMA Upwards ==
  ASSUME NEW n \in Nat, NEW T, 0 \in T, \A i \in 1 .. n : i - 1 \in T => i \in T
  PROVE  0 .. n \subseteq T
<1> DEFINE B == (0 .. n) \ T
<1>1. ASSUME B # {} PROVE FALSE
  <2>1. PICK i \in B : \A j \in B : i <= j
    <3>1. B \in SUBSET Nat
      OBVIOUS
    <3> HIDE DEF B
    <3> QED BY <1>1, <3>1, Least
  <2>2. i \in 1 .. n /\ i \notin T
    BY <2>1
  <2>3. i - 1 \in 0 .. n /\ ~ (i - 1 \in B)
    BY <2>1, <2>2
  <2> QED BY <2>2, <2>3
<1> QED BY <1>1

\* g goes from s0 with a step for each of the numbers up to n.
Runs(g, n, S, s0, step) ==
  /\ g \in [0 .. n -> S]
  /\ g[0] = s0
  /\ \A i \in 1 .. n : g[i] = step[i][g[i - 1]]

\* A function defined by recursion on the number before exists.
LEMMA Recursion ==
  ASSUME NEW n \in Nat, NEW S, NEW s0 \in S, NEW step \in [1 .. n -> [S -> S]]
  PROVE  \E g : Runs(g, n, S, s0, step)
<1> DEFINE T == { k \in 0 .. n : \E g : Runs(g, k, S, s0, step) }
<1>1. 0 \in T
  <2> DEFINE g == [ i \in 0 .. 0 |-> s0 ]
  <2>1. Runs(g, 0, S, s0, step)
    BY DEF Runs
  <2> HIDE DEF g
  <2> QED BY <2>1
<1>2. ASSUME NEW k \in 1 .. n, k - 1 \in T PROVE k \in T
  <2>1. PICK g : Runs(g, k - 1, S, s0, step)
    BY <1>2
  <2>2. /\ g \in [0 .. k - 1 -> S] /\ g[0] = s0
        /\ \A i \in 1 .. k - 1 : g[i] = step[i][g[i - 1]]
    BY <2>1 DEF Runs
  <2>3. k - 1 \in 0 .. k - 1 /\ g[k - 1] \in S /\ step[k][g[k - 1]] \in S
    BY <2>2
  <2> DEFINE h == [ i \in 0 .. k |-> IF i = k THEN step[k][g[k - 1]] ELSE g[i] ]
  <2>4. h \in [0 .. k -> S]
    BY <2>2, <2>3
  <2>5. \A i \in 0 .. k - 1 : h[i] = g[i]
    OBVIOUS
  <2>6. h[k] = step[k][g[k - 1]]
    OBVIOUS
  <2> HIDE DEF h
  <2>7. h[0] = s0 /\ h[k] = step[k][h[k - 1]]
    BY <2>2, <2>3, <2>5, <2>6
  <2>8. ASSUME NEW i \in 1 .. k PROVE h[i] = step[i][h[i - 1]]
    <3>1. CASE i = k
      BY <2>7, <3>1
    <3>2. CASE i # k
      <4>1. i \in 1 .. k - 1 /\ i \in 0 .. k - 1 /\ i - 1 \in 0 .. k - 1
        BY <3>2
      <4> QED BY <2>2, <2>5, <4>1
    <3> QED BY <3>1, <3>2
  <2>9. Runs(h, k, S, s0, step)
    BY <2>4, <2>7, <2>8 DEF Runs
  <2> QED BY <2>9
<1>3. 0 .. n \subseteq T
  <2> HIDE DEF T
  <2> QED BY <1>1, <1>2, Upwards
<1> QED BY <1>3

-----------------------------------------------------------------------------
(* Tally and Only. *)

Sums(g, s) ==
  /\ g \in [0 .. Len(s) -> Int]
  /\ g[0] = 0
  /\ \A i \in 1 .. Len(s) : g[i] = g[i - 1] + s[i]

\* Tally is the last of the partial sums.
LEMMA TallyIs ==
  ASSUME NEW s \in Seq(Int)
  PROVE  \E g : Sums(g, s) /\ Tally(s) = g[Len(s)]
<1> DEFINE n == Len(s)
           sum[i \in 0 .. Len(s)] == IF i = 0 THEN 0 ELSE sum[i - 1] + s[i]
           step == [ i \in 1 .. n |-> [ x \in Int |-> x + s[i] ] ]
<1>1. n \in Nat /\ \A i \in 1 .. n : s[i] \in Int
  BY LenProperties, ElementOfSeq
<1>2. \E g : Runs(g, n, Int, 0, step)
  <2>1. 0 \in Int /\ step \in [1 .. n -> [Int -> Int]]
    BY <1>1
  <2> HIDE DEF step, n
  <2> QED BY <1>1, <2>1, Recursion
<1>3. sum = [ i \in 0 .. n |-> IF i = 0 THEN 0 ELSE sum[i - 1] + s[i] ]
  <2>1. PICK g : Runs(g, n, Int, 0, step)
    BY <1>2
  <2>2. g \in [0 .. n -> Int] /\ g[0] = 0 /\ \A i \in 1 .. n : g[i] = step[i][g[i - 1]]
    BY <2>1 DEF Runs
  <2>a. ASSUME NEW i \in 1 .. n PROVE g[i] = g[i - 1] + s[i]
    <3>1. i - 1 \in 0 .. n
      BY <1>1
    <3>2. g[i - 1] \in Int
      BY <2>2, <3>1
    <3> QED BY <2>2, <3>2
  <2>3. g = [ i \in 0 .. n |-> IF i = 0 THEN 0 ELSE g[i - 1] + s[i] ]
    BY <1>1, <2>2, <2>a
  <2> QED BY <2>3
<1>4. Tally(s) = sum[n]
  BY DEF Tally
<1> HIDE DEF sum, n
<1>5. sum[0] = 0 /\ \A i \in 1 .. n : sum[i] = sum[i - 1] + s[i]
  BY <1>1, <1>3
<1>6. sum \in [0 .. n -> Int]
  <2> DEFINE T == { i \in 0 .. n : sum[i] \in Int }
  <2>1. 0 \in T /\ \A i \in 1 .. n : i - 1 \in T => i \in T
    BY <1>1, <1>5
  <2>2. 0 .. n \subseteq T
    <3> HIDE DEF T
    <3> QED BY <1>1, <2>1, Upwards
  <2> QED BY <1>3, <2>2
<1>7. Sums(sum, s)
  BY <1>5, <1>6 DEF Sums, n
<1> QED BY <1>4, <1>7 DEF n

\* Partial sums are unique.
LEMMA TallyBy ==
  ASSUME NEW s \in Seq(Int), NEW g, Sums(g, s)
  PROVE  Tally(s) = g[Len(s)] /\ Tally(s) \in Int
<1>1. PICK h : Sums(h, s) /\ Tally(s) = h[Len(s)]
  BY TallyIs
<1>2. PICK n : n = Len(s)
  OBVIOUS
<1>3. n \in Nat /\ \A i \in 1 .. n : s[i] \in Int
  BY <1>2, LenProperties, ElementOfSeq
<1>4. /\ g \in [0 .. n -> Int] /\ g[0] = 0 /\ \A i \in 1 .. n : g[i] = g[i - 1] + s[i]
      /\ h \in [0 .. n -> Int] /\ h[0] = 0 /\ \A i \in 1 .. n : h[i] = h[i - 1] + s[i]
  BY <1>1, <1>2 DEF Sums
<1> DEFINE T == { i \in 0 .. n : g[i] = h[i] }
<1>5. 0 \in T /\ \A i \in 1 .. n : i - 1 \in T => i \in T
  BY <1>3, <1>4
<1>6. 0 .. n \subseteq T
  <2> HIDE DEF T
  <2> QED BY <1>3, <1>5, Upwards
<1>7. n \in 0 .. n
  BY <1>3
<1>8. g[n] = h[n] /\ h[n] \in Int
  BY <1>4, <1>6, <1>7
<1> QED BY <1>1, <1>2, <1>8

\* A sum of integers is one.
LEMMA TallyType == ASSUME NEW s \in Seq(Int) PROVE Tally(s) \in Int
BY TallyIs, TallyBy

\* Nothing sums to zero.
LEMMA TallyEmpty == Tally(<< >>) = 0
<1>1. << >> \in Seq(Int) /\ Len(<< >>) = 0
  OBVIOUS
<1>2. PICK g : Sums(g, << >>) /\ Tally(<< >>) = g[Len(<< >>)]
  BY <1>1, TallyIs
<1> QED BY <1>1, <1>2 DEF Sums

\* The sum of two sequences one after the other is the sum of their sums.
LEMMA TallyJoin ==
  ASSUME NEW s \in Seq(Int), NEW t \in Seq(Int)
  PROVE  Tally(s \o t) = Tally(s) + Tally(t)
<1>1. PICK g : Sums(g, s) /\ Tally(s) = g[Len(s)]
  BY TallyIs
<1>2. PICK h : Sums(h, t) /\ Tally(t) = h[Len(t)]
  BY TallyIs
<1>3. PICK m, n : m = Len(s) /\ n = Len(t)
  OBVIOUS
<1>4. m \in Nat /\ n \in Nat
  BY <1>3, LenProperties
<1>5. g \in [0 .. m -> Int] /\ g[0] = 0 /\ \A i \in 1 .. m : g[i] = g[i - 1] + s[i]
  BY <1>1, <1>3 DEF Sums
<1>6. h \in [0 .. n -> Int] /\ h[0] = 0 /\ \A i \in 1 .. n : h[i] = h[i - 1] + t[i]
  BY <1>2, <1>3 DEF Sums
<1>7. PICK u : u = s \o t
  OBVIOUS
<1>8. /\ u \in Seq(Int) /\ Len(u) = m + n
      /\ \A i \in 1 .. m : u[i] = s[i]
      /\ \A i \in 1 .. n : u[m + i] = t[i]
  <2>1. /\ u \in Seq(Int) /\ Len(u) = m + n
        /\ \A i \in 1 .. m + n : u[i] = IF i <= m THEN s[i] ELSE t[i - m]
    BY <1>3, <1>7, ConcatProperties
  <2>2. ASSUME NEW i \in 1 .. n PROVE u[m + i] = t[i]
    <3>1. m + i \in 1 .. m + n /\ ~ (m + i <= m) /\ (m + i) - m = i
      BY <1>4
    <3> QED BY <2>1, <3>1
  <2>3. \A i \in 1 .. m : i \in 1 .. m + n /\ i <= m
    BY <1>4
  <2> QED BY <2>1, <2>2, <2>3
<1> DEFINE f == [ i \in 0 .. m + n |-> IF i <= m THEN g[i] ELSE g[m] + h[i - m] ]
<1>9. \A i \in 0 .. m : i \in 0 .. m + n /\ f[i] = g[i]
  BY <1>4
<1>10. ASSUME NEW i \in 0 .. n PROVE m + i \in 0 .. m + n /\ f[m + i] = g[m] + h[i]
  <2>1. m + i \in 0 .. m + n /\ (m + i) - m = i /\ (m + i <= m => i = 0 /\ m + i = m)
    BY <1>4
  <2>2. g[m] \in Int
    BY <1>4, <1>5
  <2>3. CASE i = 0
    BY <1>6, <1>9, <1>4, <2>2, <2>3
  <2>4. CASE i # 0
    BY <2>1, <2>4
  <2> QED BY <2>1, <2>3, <2>4
<1>11. f \in [0 .. m + n -> Int]
  <2>1. g[m] \in Int
    BY <1>4, <1>5
  <2>2. ASSUME NEW i \in 0 .. m + n PROVE (IF i <= m THEN g[i] ELSE g[m] + h[i - m]) \in Int
    <3>1. CASE i <= m
      BY <1>4, <1>5, <3>1
    <3>2. CASE ~ (i <= m)
      <4>1. i - m \in 0 .. n
        BY <1>4, <3>2
      <4>2. h[i - m] \in Int
        BY <1>6, <4>1
      <4> QED BY <2>1, <3>2, <4>2
    <3> QED BY <3>1, <3>2
  <2> QED BY <2>2
<1> HIDE DEF f
<1>12. ASSUME NEW i \in 1 .. m + n PROVE f[i] = f[i - 1] + u[i]
  <2>1. CASE i <= m
    <3>1. i \in 0 .. m /\ i - 1 \in 0 .. m /\ i \in 1 .. m
      BY <1>4, <2>1
    <3> QED BY <1>5, <1>8, <1>9, <3>1
  <2>2. CASE ~ (i <= m)
    <3>1. PICK k \in 1 .. n : i = m + k
      <4>1. i - m \in 1 .. n /\ i = m + (i - m)
        BY <1>4, <2>2
      <4> QED BY <4>1
    <3>2. k \in 0 .. n /\ k - 1 \in 0 .. n /\ i - 1 = m + (k - 1)
      BY <1>4, <3>1
    <3>3. f[i] = g[m] + h[k] /\ f[i - 1] = g[m] + h[k - 1] /\ u[i] = t[k]
      BY <1>8, <1>10, <3>1, <3>2
    <3>4. h[k] = h[k - 1] + t[k] /\ h[k - 1] \in Int /\ h[k] \in Int
      BY <1>6, <3>1, <3>2
    <3>5. t[k] \in Int /\ g[m] \in Int
      BY <1>3, <1>4, <1>5, <3>1, ElementOfSeq
    <3> QED BY <3>3, <3>4, <3>5
  <2> QED BY <2>1, <2>2
<1>13. Sums(f, u)
  <2>1. f[0] = 0
    BY <1>4, <1>5, <1>9
  <2> QED BY <1>8, <1>11, <1>12, <2>1 DEF Sums
<1>14. Tally(u) = f[m + n]
  BY <1>8, <1>13, TallyBy
<1>15. f[m + n] = g[m] + h[n]
  BY <1>4, <1>10
<1> QED BY <1>1, <1>2, <1>3, <1>7, <1>14, <1>15

\* One number is its own sum.
LEMMA TallyOne == ASSUME NEW x \in Int PROVE Tally(<< x >>) = x
<1>1. PICK s : s = << x >>
  OBVIOUS
<1>2. s \in Seq(Int) /\ Len(s) = 1 /\ s[1] = x
  BY <1>1
<1>3. PICK g : Sums(g, s) /\ Tally(s) = g[Len(s)]
  BY <1>2, TallyIs
<1>4. g[0] = 0 /\ 1 \in 1 .. 1 /\ \A i \in 1 .. 1 : g[i] = g[i - 1] + s[i]
  BY <1>2, <1>3 DEF Sums
<1>5. g[1] = g[1 - 1] + s[1] /\ 1 - 1 = 0
  BY <1>4
<1> QED BY <1>1, <1>2, <1>3, <1>4, <1>5

-----------------------------------------------------------------------------
(* The sum of what each member of a sequence weighs. *)

Weights(w, s) == [ i \in DOMAIN s |-> w[s[i]] ]

Weight(w, s) == Tally(Weights(w, s))

\* The weights of the members of a sequence are a sequence as long.
LEMMA WeightsType ==
  ASSUME NEW S, NEW w \in [S -> Int], NEW s \in Seq(S)
  PROVE  Weights(w, s) \in Seq(Int) /\ Len(Weights(w, s)) = Len(s) /\ Weight(w, s) \in Int
<1>1. Len(s) \in Nat /\ DOMAIN s = 1 .. Len(s) /\ \A i \in 1 .. Len(s) : s[i] \in S
  BY LenProperties, ElementOfSeq
<1>2. PICK n : n = Len(s)
  OBVIOUS
<1>3. Weights(w, s) \in [1 .. n -> Int]
  BY <1>1, <1>2 DEF Weights
<1>4. PICK a : a = Weights(w, s)
  OBVIOUS
<1>5. a \in Seq(Int) /\ DOMAIN a = 1 .. n /\ n \in Nat
  <2>1. n \in Nat
    BY <1>1, <1>2
  <2>2. a \in [1 .. n -> Int] /\ DOMAIN a = 1 .. n
    BY <1>3, <1>4
  <2>3. a \in UNION { [1 .. m -> Int] : m \in Nat }
    BY <2>1, <2>2
  <2> QED BY <2>1, <2>2, <2>3, SeqDef
<1>6. Len(a) = n
  BY <1>5
<1> QED BY <1>2, <1>4, <1>5, <1>6, TallyType DEF Weight

\* Two sequences one after the other weigh what they weigh together.
LEMMA WeightJoin ==
  ASSUME NEW S, NEW w \in [S -> Int], NEW s \in Seq(S), NEW t \in Seq(S)
  PROVE  Weight(w, s \o t) = Weight(w, s) + Weight(w, t)
<1>1. PICK u : u = s \o t
  OBVIOUS
<1>2. PICK m, n : m = Len(s) /\ n = Len(t)
  OBVIOUS
<1>3. /\ m \in Nat /\ n \in Nat /\ DOMAIN s = 1 .. m /\ DOMAIN t = 1 .. n
      /\ u \in Seq(S) /\ Len(u) = m + n /\ DOMAIN u = 1 .. m + n
      /\ \A i \in 1 .. m + n : u[i] = IF i <= m THEN s[i] ELSE t[i - m]
  BY <1>1, <1>2, LenProperties, ConcatProperties
<1>4. PICK a, b, c : a = Weights(w, s) /\ b = Weights(w, t) /\ c = Weights(w, u)
  OBVIOUS
<1>5. /\ a \in Seq(Int) /\ Len(a) = m /\ b \in Seq(Int) /\ Len(b) = n
      /\ c \in Seq(Int) /\ Len(c) = m + n
  BY <1>2, <1>3, <1>4, WeightsType
<1>6. PICK d : d = a \o b
  OBVIOUS
<1>7. /\ d \in Seq(Int) /\ Len(d) = m + n
      /\ \A i \in 1 .. m + n : d[i] = IF i <= m THEN a[i] ELSE b[i - m]
  BY <1>5, <1>6, ConcatProperties
<1>8. ASSUME NEW i \in 1 .. m + n PROVE c[i] = d[i]
  <2>1. c[i] = w[u[i]]
    BY <1>3, <1>4 DEF Weights
  <2>2. CASE i <= m
    <3>1. i \in 1 .. m
      BY <1>3, <2>2
    <3>2. a[i] = w[s[i]]
      BY <1>3, <1>4, <3>1 DEF Weights
    <3> QED BY <1>3, <1>7, <2>1, <2>2, <3>2
  <2>3. CASE ~ (i <= m)
    <3>1. i - m \in 1 .. n
      BY <1>3, <2>3
    <3>2. b[i - m] = w[t[i - m]]
      BY <1>3, <1>4, <3>1 DEF Weights
    <3> QED BY <1>3, <1>7, <2>1, <2>3, <3>2
  <2> QED BY <2>2, <2>3
<1>9. c = d
  <2>1. PICK k : k = m + n
    OBVIOUS
  <2>2. c \in [1 .. k -> Int] /\ d \in [1 .. k -> Int]
    BY <1>5, <1>7, <2>1, LenProperties
  <2>3. \A i \in 1 .. k : c[i] = d[i]
    BY <1>8, <2>1
  <2>4. c = [ i \in 1 .. k |-> c[i] ] /\ d = [ i \in 1 .. k |-> d[i] ]
    BY <2>2
  <2> QED BY <2>3, <2>4, Zenon
<1> QED BY <1>1, <1>4, <1>5, <1>6, <1>9, TallyJoin DEF Weight

\* One member weighs its weight.
LEMMA WeightOne ==
  ASSUME NEW S, NEW w \in [S -> Int], NEW x \in S
  PROVE  Weight(w, << x >>) = w[x]
<1>1. Weights(w, << x >>) = << w[x] >>
  BY DEF Weights
<1> QED BY <1>1, TallyOne DEF Weight

\* An empty sequence weighs nothing.
LEMMA WeightEmpty == \A w : Weight(w, << >>) = 0
<1>1. \A w : Weights(w, << >>) = << >>
  BY DEF Weights
<1> QED BY <1>1, TallyEmpty DEF Weight

-----------------------------------------------------------------------------
\* A member more is its weight more.
LEMMA WeightAppend ==
  ASSUME NEW S, NEW w \in [S -> Int], NEW s \in Seq(S), NEW x \in S
  PROVE  Weight(w, Append(s, x)) = Weight(w, s) + w[x]
<1>1. Append(s, x) = s \o << x >>
  BY AppendIsConcat
<1>2. << x >> \in Seq(S)
  OBVIOUS
<1>3. Weight(w, s \o << x >>) = Weight(w, s) + Weight(w, << x >>)
  BY <1>2, WeightJoin
<1>4. Weight(w, << x >>) = w[x]
  BY WeightOne
<1> QED BY <1>1, <1>3, <1>4

Keeps(g, s, S) ==
  /\ g[0] = << >>
  /\ \A i \in 1 .. Len(s) : g[i] = IF s[i] \in S THEN Append(g[i - 1], s[i]) ELSE g[i - 1]

\* Only is the last of the selections from the first members.
LEMMA OnlyIs ==
  ASSUME NEW T, NEW s \in Seq(T), NEW S
  PROVE  \E g \in [0 .. Len(s) -> Seq(T)] : Keeps(g, s, S) /\ Only(s, S) = g[Len(s)]
<1> DEFINE n == Len(s)
           kept[i \in 0 .. Len(s)] ==
             IF i = 0 THEN << >>
             ELSE IF s[i] \in S THEN Append(kept[i - 1], s[i]) ELSE kept[i - 1]
           step == [ i \in 1 .. n |-> [ x \in Seq(T) |-> IF s[i] \in S THEN Append(x, s[i]) ELSE x ] ]
<1>1. n \in Nat /\ \A i \in 1 .. n : s[i] \in T
  BY LenProperties, ElementOfSeq
<1>2. \E g : Runs(g, n, Seq(T), << >>, step)
  <2>1. \A i \in 1 .. n : \A x \in Seq(T) : Append(x, s[i]) \in Seq(T)
    BY <1>1, AppendProperties
  <2>2. << >> \in Seq(T) /\ step \in [1 .. n -> [Seq(T) -> Seq(T)]]
    BY <2>1
  <2> HIDE DEF step, n
  <2> QED BY <1>1, <2>2, Recursion
<1>3. PICK g : Runs(g, n, Seq(T), << >>, step)
  BY <1>2
<1>4. g \in [0 .. n -> Seq(T)] /\ g[0] = << >> /\ \A i \in 1 .. n : g[i] = step[i][g[i - 1]]
  BY <1>3 DEF Runs
<1>5. ASSUME NEW i \in 1 .. n
      PROVE  g[i] = IF s[i] \in S THEN Append(g[i - 1], s[i]) ELSE g[i - 1]
  <2>1. i - 1 \in 0 .. n
    BY <1>1
  <2>2. g[i - 1] \in Seq(T)
    BY <1>4, <2>1
  <2> QED BY <1>4, <2>2
<1>6. g = [ i \in 0 .. n |-> IF i = 0 THEN << >>
                             ELSE IF s[i] \in S THEN Append(g[i - 1], s[i]) ELSE g[i - 1] ]
  <2>1. \A i \in 0 .. n : g[i] = IF i = 0 THEN << >>
                                ELSE IF s[i] \in S THEN Append(g[i - 1], s[i]) ELSE g[i - 1]
    <3>1. \A i \in 0 .. n : i = 0 \/ i \in 1 .. n
      BY <1>1
    <3>2. ASSUME NEW i \in 1 .. n PROVE i # 0
      OBVIOUS
    <3>3. g[0] = << >>
      BY <1>4
    <3> HIDE DEF n
    <3> QED BY <1>5, <3>1, <3>2, <3>3
  <2>2. g = [ i \in 0 .. n |-> g[i] ]
    BY <1>4
  <2> QED BY <2>1, <2>2
<1>7. kept = [ i \in 0 .. n |-> IF i = 0 THEN << >>
                             ELSE IF s[i] \in S THEN Append(kept[i - 1], s[i]) ELSE kept[i - 1] ]
  BY <1>6
<1>8. Only(s, S) = kept[n]
  BY DEF Only
<1> HIDE DEF kept, n
<1>a. PICK Q, e : Q = Seq(T) /\ e = << >>
  OBVIOUS
<1>b. e \in Q /\ \A x \in Q : \A i \in 1 .. n : Append(x, s[i]) \in Q
  BY <1>1, <1>a, AppendProperties
<1>c. kept[0] = e
  BY <1>1, <1>7, <1>a
<1>d. ASSUME NEW i \in 1 .. n
      PROVE  kept[i] = IF s[i] \in S THEN Append(kept[i - 1], s[i]) ELSE kept[i - 1]
  <2>1. i \in 0 .. n /\ i # 0
    BY <1>1
  <2> QED BY <1>7, <2>1
<1>9. kept[0] = << >>
      /\ \A i \in 1 .. n : kept[i] = IF s[i] \in S THEN Append(kept[i - 1], s[i]) ELSE kept[i - 1]
  BY <1>a, <1>c, <1>d
<1>10. kept \in [0 .. n -> Seq(T)]
  <2> DEFINE U == { i \in 0 .. n : kept[i] \in Q }
  <2>1. 0 \in U
    BY <1>1, <1>b, <1>c
  <2>2. ASSUME NEW i \in 1 .. n, i - 1 \in U PROVE i \in U
    <3>1. kept[i - 1] \in Q /\ i \in 0 .. n
      BY <1>1, <2>2
    <3> QED BY <1>b, <1>d, <3>1
  <2>3. 0 .. n \subseteq U
    <3> HIDE DEF U
    <3> QED BY <1>1, <2>1, <2>2, Upwards
  <2>4. DOMAIN kept = 0 .. n /\ kept = [ i \in 0 .. n |-> kept[i] ]
    BY <1>7
  <2> QED BY <1>a, <2>3, <2>4
<1>11. Keeps(kept, s, S)
  BY <1>9 DEF Keeps, n
<1> QED BY <1>8, <1>10, <1>11 DEF n

\* A selection of a sequence is one, and weighs no more.
LEMMA OnlyType ==
  ASSUME NEW T, NEW s \in Seq(T), NEW S
  PROVE  Only(s, S) \in Seq(T)
<1>1. PICK g \in [0 .. Len(s) -> Seq(T)] : Keeps(g, s, S) /\ Only(s, S) = g[Len(s)]
  BY OnlyIs
<1>2. Len(s) \in 0 .. Len(s)
  BY LenProperties
<1> QED BY <1>1, <1>2

-----------------------------------------------------------------------------
(* Sums. *)

\* Sums of the same numbers, part by part.
LEMMA TallyPlus ==
  ASSUME NEW s \in Seq(Int), NEW t \in Seq(Int), NEW u \in Seq(Int),
         Len(t) = Len(s), Len(u) = Len(s), \A i \in 1 .. Len(s) : u[i] = s[i] + t[i]
  PROVE  Tally(u) = Tally(s) + Tally(t)
<1>1. PICK g : Sums(g, s) /\ Tally(s) = g[Len(s)]
  BY TallyIs
<1>2. PICK h : Sums(h, t) /\ Tally(t) = h[Len(t)]
  BY TallyIs
<1>3. PICK n \in Nat : n = Len(s)
  BY LenProperties
<1>4. /\ g \in [0 .. n -> Int] /\ g[0] = 0 /\ \A i \in 1 .. n : g[i] = g[i - 1] + s[i]
      /\ h \in [0 .. n -> Int] /\ h[0] = 0 /\ \A i \in 1 .. n : h[i] = h[i - 1] + t[i]
  BY <1>1, <1>2, <1>3 DEF Sums
<1>5. \A i \in 1 .. n : s[i] \in Int /\ t[i] \in Int
  BY <1>3, ElementOfSeq
<1> DEFINE f == [ i \in 0 .. n |-> g[i] + h[i] ]
<1>6. f \in [0 .. n -> Int] /\ f[0] = 0
  BY <1>4
<1>7. ASSUME NEW i \in 1 .. n PROVE f[i] = f[i - 1] + u[i]
  <2>1. i \in 0 .. n /\ i - 1 \in 0 .. n
    OBVIOUS
  <2>2. f[i] = g[i] + h[i] /\ f[i - 1] = g[i - 1] + h[i - 1]
    BY <2>1
  <2>3. g[i - 1] \in Int /\ h[i - 1] \in Int
    BY <1>4, <2>1
  <2>4. /\ g[i] = g[i - 1] + s[i] /\ h[i] = h[i - 1] + t[i] /\ u[i] = s[i] + t[i]
        /\ s[i] \in Int /\ t[i] \in Int
    BY <1>3, <1>4, <1>5
  <2> HIDE DEF f
  <2>5. PICK a \in Int, b \in Int, c \in Int, d \in Int :
           a = g[i - 1] /\ b = h[i - 1] /\ c = s[i] /\ d = t[i]
    BY <2>3, <2>4
  <2>6. f[i] = (a + c) + (b + d) /\ f[i - 1] = a + b /\ u[i] = c + d
    BY <2>2, <2>4, <2>5
  <2> QED BY <2>6
<1>8. f[n] = g[n] + h[n]
  OBVIOUS
<1> HIDE DEF f
<1>9. Sums(f, u)
  BY <1>3, <1>6, <1>7 DEF Sums
<1> QED BY <1>1, <1>2, <1>3, <1>8, <1>9, TallyBy

\* A sum without negative parts is not negative.
LEMMA TallyNat ==
  ASSUME NEW s \in Seq(Int), \A i \in 1 .. Len(s) : s[i] >= 0
  PROVE  Tally(s) \in Nat
<1>1. PICK g : Sums(g, s) /\ Tally(s) = g[Len(s)]
  BY TallyIs
<1>2. PICK n \in Nat : n = Len(s)
  BY LenProperties
<1>3. g \in [0 .. n -> Int] /\ g[0] = 0 /\ \A i \in 1 .. n : g[i] = g[i - 1] + s[i]
  BY <1>1, <1>2 DEF Sums
<1>4. \A i \in 1 .. n : s[i] \in Int
  BY <1>2, ElementOfSeq
<1> DEFINE U == { i \in 0 .. n : g[i] \in Nat }
<1>5. 0 \in U /\ \A i \in 1 .. n : i - 1 \in U => i \in U
  BY <1>2, <1>3, <1>4
<1>6. 0 .. n \subseteq U
  <2> HIDE DEF U
  <2> QED BY <1>5, Upwards
<1> QED BY <1>1, <1>2, <1>6

\* A sum of nothing but zeros is zero.
LEMMA TallyZero ==
  ASSUME NEW s \in Seq(Int), \A i \in 1 .. Len(s) : s[i] = 0
  PROVE  Tally(s) = 0
<1>1. PICK n \in Nat : n = Len(s)
  BY LenProperties
<1> DEFINE g == [ i \in 0 .. n |-> 0 ]
<1>2. Sums(g, s) /\ g[n] = 0
  BY <1>1 DEF Sums
<1> HIDE DEF g
<1> QED BY <1>1, <1>2, TallyBy

\* Of a sum with one part that is not zero, the part is the sum.
LEMMA TallySingle ==
  ASSUME NEW s \in Seq(Int), NEW j \in 1 .. Len(s),
         \A i \in 1 .. Len(s) : i # j => s[i] = 0
  PROVE  Tally(s) = s[j]
<1>1. PICK n \in Nat : n = Len(s)
  BY LenProperties
<1>2. s[j] \in Int
  BY ElementOfSeq
<1> DEFINE g == [ i \in 0 .. n |-> IF i < j THEN 0 ELSE s[j] ]
<1>3. g \in [0 .. n -> Int] /\ g[0] = 0 /\ g[n] = s[j]
  BY <1>1, <1>2
<1>4. ASSUME NEW i \in 1 .. n PROVE g[i] = g[i - 1] + s[i]
  <2>1. i \in 0 .. n /\ i - 1 \in 0 .. n
    OBVIOUS
  <2>2. CASE i < j
    BY <1>1, <2>1, <2>2
  <2>3. CASE i = j
    BY <1>1, <1>2, <2>1, <2>3
  <2>4. CASE i > j
    BY <1>1, <1>2, <2>1, <2>4
  <2> QED BY <1>1, <2>2, <2>3, <2>4
<1>5. Sums(g, s)
  <2> HIDE DEF g
  <2> QED BY <1>1, <1>3, <1>4 DEF Sums
<1> HIDE DEF g
<1> QED BY <1>1, <1>3, <1>5, TallyBy

\* A selection weighs what its members weigh in the whole.
LEMMA WeightOnly ==
  ASSUME NEW T, NEW w \in [T -> Int], NEW s \in Seq(T), NEW S, NEW v \in [T -> Int],
         \A x \in T : v[x] = IF x \in S THEN w[x] ELSE 0
  PROVE  Weight(w, Only(s, S)) = Weight(v, s)
<1>a. \A q \in Seq(T), x \in T : Weight(w, Append(q, x)) = Weight(w, q) + w[x]
  BY WeightAppend
<1>1. PICK g \in [0 .. Len(s) -> Seq(T)] : Keeps(g, s, S) /\ Only(s, S) = g[Len(s)]
  BY OnlyIs
<1>2. PICK n \in Nat : n = Len(s)
  BY LenProperties
<1>3. \A i \in 1 .. n : s[i] \in T
  BY <1>2, ElementOfSeq
<1>4. /\ g[0] = << >>
      /\ \A i \in 1 .. n : g[i] = IF s[i] \in S THEN Append(g[i - 1], s[i]) ELSE g[i - 1]
  BY <1>1, <1>2 DEF Keeps
<1>5. PICK a : a = Weights(v, s)
  OBVIOUS
<1>6. a \in Seq(Int) /\ Len(a) = n /\ \A i \in 1 .. n : a[i] = v[s[i]]
  <2>1. DOMAIN s = 1 .. n
    BY <1>2, LenProperties
  <2> QED BY <1>2, <1>5, <2>1, WeightsType DEF Weights
<1> DEFINE h == [ i \in 0 .. n |-> Weight(w, g[i]) ]
<1>7. \A i \in 0 .. n : g[i] \in Seq(T)
  BY <1>1, <1>2
<1>8. h \in [0 .. n -> Int]
  <2>1. \A i \in 0 .. n : Weight(w, g[i]) \in Int
    BY <1>7, WeightsType
  <2> QED BY <2>1
<1>9. h[0] = 0
  BY <1>4, WeightEmpty
<1>10. ASSUME NEW i \in 1 .. n PROVE h[i] = h[i - 1] + a[i]
  <2>1. i \in 0 .. n /\ i - 1 \in 0 .. n
    OBVIOUS
  <2>2. h[i] = Weight(w, g[i]) /\ h[i - 1] = Weight(w, g[i - 1]) /\ h[i - 1] \in Int
    BY <1>8, <2>1
  <2>3. s[i] \in T /\ g[i - 1] \in Seq(T)
    BY <1>3, <1>7, <2>1
  <2> HIDE DEF h
  <2>4. CASE s[i] \in S
    <3>a. g[i] = Append(g[i - 1], s[i])
      BY <1>4, <2>4
    <3>b. a[i] = v[s[i]] /\ v[s[i]] = w[s[i]]
      BY <1>6, <2>3, <2>4
    <3>1. g[i] = Append(g[i - 1], s[i]) /\ a[i] = w[s[i]]
      BY <3>a, <3>b
    <3>c. PICK q \in Seq(T), x \in T : q = g[i - 1] /\ x = s[i]
      BY <2>3
    <3>d. Weight(w, Append(q, x)) = Weight(w, q) + w[x]
      BY <1>a, <3>c
    <3>2. Weight(w, Append(g[i - 1], s[i])) = Weight(w, g[i - 1]) + w[s[i]]
      BY <3>c, <3>d
    <3> QED BY <2>2, <3>1, <3>2
  <2>5. CASE s[i] \notin S
    <3>1. g[i] = g[i - 1] /\ a[i] = 0
      BY <1>4, <1>6, <2>3, <2>5
    <3> QED BY <2>2, <3>1
  <2> QED BY <2>4, <2>5
<1>11. h[n] = Weight(w, g[n])
  OBVIOUS
<1> HIDE DEF h
<1>12. Sums(h, a)
  BY <1>6, <1>8, <1>9, <1>10 DEF Sums
<1>13. Tally(a) = h[n]
  BY <1>6, <1>12, TallyBy
<1> QED BY <1>1, <1>2, <1>5, <1>11, <1>13 DEF Weight

\* A selection that leaves out what weighs nothing weighs what the whole does.
LEMMA WeightItself ==
  ASSUME NEW T, NEW w \in [T -> Int], NEW s \in Seq(T), NEW S,
         \A x \in T : w[x] = IF x \in S THEN w[x] ELSE 0
  PROVE  Weight(w, Only(s, S)) = Weight(w, s)
BY WeightOnly

\* h says at which place of s each member of the selection r stands.
Stands(h, r, s, S) ==
  /\ Len(r) \in Nat
  /\ h \in [1 .. Len(r) -> 1 .. Len(s)]
  /\ \A k \in 1 .. Len(r) : r[k] = s[h[k]] /\ s[h[k]] \in S
  /\ \A k, l \in 1 .. Len(r) : k < l => h[k] < h[l]
  /\ \A i \in 1 .. Len(s) : s[i] \in S => \E k \in 1 .. Len(r) : h[k] = i

\* A selection has the members of S, each once and in their order.
LEMMA OnlyStands ==
  ASSUME NEW T, NEW s \in Seq(T), NEW S
  PROVE  \E h : Stands(h, Only(s, S), s, S)
<1>1. PICK g \in [0 .. Len(s) -> Seq(T)] : Keeps(g, s, S) /\ Only(s, S) = g[Len(s)]
  BY OnlyIs
<1>2. PICK n \in Nat : n = Len(s)
  BY LenProperties
<1>3. /\ g[0] = << >>
      /\ \A i \in 1 .. n : g[i] = IF s[i] \in S THEN Append(g[i - 1], s[i]) ELSE g[i - 1]
  BY <1>1, <1>2 DEF Keeps
<1> DEFINE upTo(m, h) ==
             /\ h \in [1 .. Len(g[m]) -> 1 .. m]
             /\ \A k \in 1 .. Len(g[m]) : g[m][k] = s[h[k]] /\ s[h[k]] \in S
             /\ \A k, l \in 1 .. Len(g[m]) : k < l => h[k] < h[l]
             /\ \A i \in 1 .. m : s[i] \in S => \E k \in 1 .. Len(g[m]) : h[k] = i
           U == { m \in 0 .. n : \E h : upTo(m, h) }
<1>4. \A m \in 0 .. n : g[m] \in Seq(T) /\ Len(g[m]) \in Nat
  BY <1>1, <1>2, LenProperties
<1>a. \A i \in 1 .. n : s[i] \in T
  BY <1>2, ElementOfSeq
<1>5. 0 \in U
  <2>1. Len(g[0]) = 0
    BY <1>3
  <2>2. PICK h : h = [ k \in 1 .. 0 |-> k ]
    OBVIOUS
  <2>3. h \in [1 .. 0 -> 1 .. 0]
    BY <2>2
  <2>4. upTo(0, h)
    BY <2>1, <2>3
  <2> QED BY <2>4
<1>6. ASSUME NEW m \in 1 .. n, m - 1 \in U PROVE m \in U
  <2>1. PICK h : upTo(m - 1, h)
    BY <1>6
  <2>2. m \in 0 .. n /\ m - 1 \in 0 .. n
    OBVIOUS
  <2>3. PICK r, q : r = g[m - 1] /\ q = Len(r)
    OBVIOUS
  <2>4. q \in Nat /\ r \in Seq(T)
    BY <1>4, <2>2, <2>3
  <2>5. /\ h \in [1 .. q -> 1 .. m - 1]
        /\ \A k \in 1 .. q : r[k] = s[h[k]] /\ s[h[k]] \in S
        /\ \A k, l \in 1 .. q : k < l => h[k] < h[l]
        /\ \A i \in 1 .. m - 1 : s[i] \in S => \E k \in 1 .. q : h[k] = i
    BY <2>1, <2>3
  <2>6. CASE s[m] \notin S
    <3>1. g[m] = r
      BY <1>3, <2>3, <2>6
    <3>2. h \in [1 .. q -> 1 .. m]
      BY <2>5
    <3>a. ASSUME NEW i \in 1 .. m, s[i] \in S PROVE \E k \in 1 .. q : h[k] = i
      <4>1. i \in 1 .. m - 1
        BY <2>6, <3>a
      <4> QED BY <2>5, <3>a, <4>1
    <3>3. upTo(m, h)
      BY <2>3, <2>5, <3>1, <3>2, <3>a
    <3> QED BY <2>2, <3>3
  <2>7. CASE s[m] \in S
    <3>1. PICK t : t = Append(r, s[m])
      OBVIOUS
    <3>2. t = g[m] /\ s[m] \in T
      BY <1>3, <1>a, <2>3, <2>7, <3>1
    <3>a. PICK x \in T : x = s[m]
      BY <3>2
    <3>b. Len(Append(r, x)) = Len(r) + 1
          /\ \A k \in 1 .. Len(r) : Append(r, x)[k] = r[k]
          /\ Append(r, x)[Len(r) + 1] = x
      BY <2>4, AppendProperties
    <3>3. Len(t) = q + 1 /\ t[q + 1] = s[m] /\ \A k \in 1 .. q : t[k] = r[k]
      BY <2>3, <3>1, <3>a, <3>b
    <3>4. PICK f : f = [ k \in 1 .. q + 1 |-> IF k = q + 1 THEN m ELSE h[k] ]
      OBVIOUS
    <3>5. f[q + 1] = m /\ \A k \in 1 .. q : f[k] = h[k]
      BY <2>4, <3>4
    <3>6. f \in [1 .. q + 1 -> 1 .. m]
      BY <2>4, <2>5, <3>4
    <3>7. \A k \in 1 .. q + 1 : k \in 1 .. q \/ k = q + 1
      BY <2>4
    <3>8. \A k \in 1 .. q + 1 : t[k] = s[f[k]] /\ s[f[k]] \in S
      BY <2>5, <2>7, <3>3, <3>5, <3>7
    <3>9. ASSUME NEW k \in 1 .. q + 1, NEW l \in 1 .. q + 1, k < l PROVE f[k] < f[l]
      <4>1. k \in 1 .. q /\ h[k] \in 1 .. m - 1
        BY <2>4, <2>5, <3>9
      <4>2. CASE l = q + 1
        BY <3>5, <4>1, <4>2
      <4>3. CASE l \in 1 .. q
        BY <2>5, <3>5, <3>9, <4>1, <4>3
      <4> QED BY <3>7, <4>2, <4>3
    <3>10. ASSUME NEW i \in 1 .. m, s[i] \in S PROVE \E k \in 1 .. q + 1 : f[k] = i
      <4>1. CASE i = m
        BY <2>4, <3>5, <4>1
      <4>2. CASE i # m
        <5>1. PICK k \in 1 .. q : h[k] = i
          BY <2>5, <3>10, <4>2
        <5> QED BY <2>4, <3>5, <5>1
      <4> QED BY <4>1, <4>2
    <3>11. upTo(m, f)
      BY <3>2, <3>3, <3>6, <3>8, <3>9, <3>10
    <3> QED BY <2>2, <3>11
  <2> QED BY <2>6, <2>7
<1>7. n \in U
  <2>1. 0 .. n \subseteq U
    <3> HIDE DEF U
    <3> QED BY <1>5, <1>6, Upwards
  <2>2. n \in 0 .. n
    OBVIOUS
  <2> HIDE DEF U
  <2> QED BY <2>1, <2>2
<1>8. PICK h : upTo(n, h)
  BY <1>7
<1>9. PICK r : r = Only(s, S)
  OBVIOUS
<1>10. r = g[n] /\ Len(r) \in Nat /\ n \in 0 .. n
  BY <1>1, <1>2, <1>4, <1>9
<1>11. /\ h \in [1 .. Len(r) -> 1 .. n]
       /\ \A k \in 1 .. Len(r) : r[k] = s[h[k]] /\ s[h[k]] \in S
       /\ \A k, l \in 1 .. Len(r) : k < l => h[k] < h[l]
       /\ \A i \in 1 .. n : s[i] \in S => \E k \in 1 .. Len(r) : h[k] = i
  BY <1>8, <1>10
<1>12. Stands(h, r, s, S)
  BY <1>2, <1>10, <1>11 DEF Stands
<1> QED BY <1>9, <1>12

\* p lists the places C of n.
Lists(p, n, C) ==
  /\ p \in Seq(1 .. n) /\ Len(p) \in Nat
  /\ \A k \in 1 .. Len(p) : p[k] \in 1 .. n /\ p[k] \in C
  /\ \A k, l \in 1 .. Len(p) : k < l => p[k] < p[l]
  /\ \A i \in 1 .. n : i \in C => \E k \in 1 .. Len(p) : p[k] = i

\* The numbers of the rows are a sequence.
LEMMA Numbers ==
  ASSUME NEW T, NEW rows \in Seq(T)
  PROVE  \E a : /\ a = [ i \in DOMAIN rows |-> i ] /\ a \in Seq(1 .. Len(rows))
                /\ Len(a) = Len(rows) /\ \A i \in 1 .. Len(rows) : a[i] = i
<1>1. PICK n \in Nat : n = Len(rows) /\ DOMAIN rows = 1 .. n
  BY LenProperties
<1>2. PICK a : a = [ i \in DOMAIN rows |-> i ]
  OBVIOUS
<1>3. a \in [1 .. n -> 1 .. n] /\ \A i \in 1 .. n : a[i] = i
  BY <1>1, <1>2
<1>4. a \in Seq(1 .. n) /\ Len(a) = n
  BY <1>3, SeqDef
<1> QED BY <1>1, <1>2, <1>3, <1>4

\* The places of a selection are places of the list.
LEMMA PlacesList ==
  ASSUME NEW T, NEW rows \in Seq(T), NEW C
  PROVE  Lists(Places(rows, C), Len(rows), C)
<1>1. PICK n \in Nat : n = Len(rows)
  BY LenProperties
<1>2. PICK a : /\ a = [ i \in DOMAIN rows |-> i ] /\ a \in Seq(1 .. n)
               /\ Len(a) = n /\ \A i \in 1 .. n : a[i] = i
  BY <1>1, Numbers
<1>3. PICK p : p = Only(a, C)
  OBVIOUS
<1>4. p = Places(rows, C)
  BY <1>2, <1>3 DEF Places
<1>5. p \in Seq(1 .. n)
  BY <1>2, <1>3, OnlyType
<1>6. PICK h : Stands(h, p, a, C)
  BY <1>2, <1>3, OnlyStands
<1>7. /\ Len(p) \in Nat /\ h \in [1 .. Len(p) -> 1 .. n]
      /\ \A k \in 1 .. Len(p) : p[k] = a[h[k]] /\ a[h[k]] \in C
      /\ \A k, l \in 1 .. Len(p) : k < l => h[k] < h[l]
      /\ \A i \in 1 .. n : a[i] \in C => \E k \in 1 .. Len(p) : h[k] = i
  BY <1>2, <1>6 DEF Stands
<1>8. \A k \in 1 .. Len(p) : h[k] \in 1 .. n /\ p[k] = h[k] /\ p[k] \in C
  BY <1>2, <1>7
<1>9. \A i \in 1 .. n : i \in C => \E k \in 1 .. Len(p) : p[k] = i
  BY <1>2, <1>7, <1>8
<1>10. \A k, l \in 1 .. Len(p) : k < l => p[k] < p[l]
  BY <1>7, <1>8
<1>11. Lists(p, n, C)
  BY <1>5, <1>7, <1>8, <1>9, <1>10 DEF Lists
<1> QED BY <1>1, <1>4, <1>11

\* What is zero but at some places sums to the parts at these places.
LEMMA TallyPlaces ==
  ASSUME NEW T, NEW rows \in Seq(T), NEW C, NEW u \in Seq(Int), Len(u) = Len(rows),
         \A i \in 1 .. Len(u) : i \notin C => u[i] = 0
  PROVE  LET p == Places(rows, C) IN Tally([ k \in DOMAIN p |-> u[p[k]] ]) = Tally(u)
<1>1. PICK n \in Nat : n = Len(rows)
  BY LenProperties
<1>2. PICK a : /\ a = [ i \in DOMAIN rows |-> i ] /\ a \in Seq(1 .. n)
               /\ Len(a) = n /\ \A i \in 1 .. n : a[i] = i
  BY <1>1, Numbers
<1>3. PICK p : p = Only(a, C)
  OBVIOUS
<1>4. p = Places(rows, C)
  BY <1>2, <1>3 DEF Places
<1>5. u \in [1 .. n -> Int] /\ Len(u) = n
  BY <1>1, LenProperties
<1>6. \A x \in 1 .. n : u[x] = IF x \in C THEN u[x] ELSE 0
  BY <1>5
<1>7. Weight(u, p) = Weight(u, a)
  <2>1. PICK N : N = 1 .. n
    OBVIOUS
  <2>2. a \in Seq(N) /\ u \in [N -> Int] /\ \A x \in N : u[x] = IF x \in C THEN u[x] ELSE 0
    BY <1>2, <1>5, <1>6, <2>1
  <2>3. Weight(u, Only(a, C)) = Weight(u, a)
    BY <2>2, WeightItself
  <2> QED BY <1>3, <2>3
<1>8. Weights(u, a) = u
  <2>1. DOMAIN a = 1 .. n
    BY <1>2, LenProperties
  <2>2. Weights(u, a) = [ i \in 1 .. n |-> u[i] ]
    BY <1>2, <2>1 DEF Weights
  <2> QED BY <1>5, <2>2
<1>9. Weights(u, p) = [ k \in DOMAIN p |-> u[p[k]] ]
  BY DEF Weights
<1> QED BY <1>4, <1>7, <1>8, <1>9 DEF Weight

-----------------------------------------------------------------------------
(* Sorting. *)

\* The members of s have different keys.
Apart(key, s) == \A i, j \in 1 .. Len(s) : key[s[i]] = key[s[j]] => i = j

\* All members of r are members of s.
Within(r, s) == \A k \in 1 .. Len(r) : \E i \in 1 .. Len(s) : r[k] = s[i]

\* o says where in s each member of r stands, and 0 of x.
Origins(o, r, s, x) ==
  /\ o \in [1 .. Len(r) -> 0 .. Len(s)]
  /\ \A k \in 1 .. Len(r) : r[k] = IF o[k] = 0 THEN x ELSE s[o[k]]
  /\ \A k, l \in 1 .. Len(r) : o[k] = o[l] => k = l

\* The parts of a sequence with x placed in it.
LEMMA PlacedParts ==
  ASSUME NEW T, NEW rank \in [T -> Int], NEW s \in Seq(T), NEW x \in T
  PROVE  Placed(s, x, rank) \in Seq(T) /\ \E o : Origins(o, Placed(s, x, rank), s, x)
<1> DEFINE A == { y \in DOMAIN rank : rank[y] <= rank[x] }
           B == { y \in DOMAIN rank : rank[y] > rank[x] }
<1>1. PICK a, b : a = Only(s, A) /\ b = Only(s, B)
  OBVIOUS
<1>2. PICK h : Stands(h, a, s, A)
  BY <1>1, OnlyStands
<1>3. PICK g : Stands(g, b, s, B)
  BY <1>1, OnlyStands
<1>4. \A y \in T : ~ (y \in A /\ y \in B)
  OBVIOUS
<1>5. PICK q : q = a \o << x >>
  OBVIOUS
<1>6. PICK r : r = q \o b
  OBVIOUS
<1>7. r = Placed(s, x, rank)
  BY <1>1, <1>5, <1>6 DEF Placed
<1> HIDE DEF A, B
<1>8. a \in Seq(T) /\ b \in Seq(T) /\ << x >> \in Seq(T)
  BY <1>1, OnlyType
<1>9. PICK m \in Nat, p \in Nat, n \in Nat : m = Len(a) /\ p = Len(b) /\ n = Len(s)
  BY <1>8, LenProperties
<1>10. /\ q \in Seq(T) /\ Len(q) = m + 1
       /\ \A k \in 1 .. m : q[k] = a[k]
       /\ q[m + 1] = x
  <2>1. q = Append(a, x)
    BY <1>5, <1>8, AppendIsConcat
  <2> QED BY <1>8, <1>9, <2>1, AppendProperties
<1>11. /\ r \in Seq(T) /\ Len(r) = m + 1 + p
       /\ \A k \in 1 .. m + 1 + p : r[k] = IF k <= m + 1 THEN q[k] ELSE b[k - (m + 1)]
  <2>1. /\ q \o b \in Seq(T) /\ Len(q \o b) = Len(q) + Len(b)
        /\ \A k \in 1 .. Len(q) + Len(b) :
             (q \o b)[k] = IF k <= Len(q) THEN q[k] ELSE b[k - Len(q)]
    BY <1>8, <1>10, ConcatProperties
  <2> QED BY <1>6, <1>9, <1>10, <2>1
<1>12. /\ h \in [1 .. m -> 1 .. n]
       /\ \A k \in 1 .. m : a[k] = s[h[k]] /\ s[h[k]] \in A
       /\ \A k, l \in 1 .. m : k < l => h[k] < h[l]
       /\ g \in [1 .. p -> 1 .. n]
       /\ \A k \in 1 .. p : b[k] = s[g[k]] /\ s[g[k]] \in B
       /\ \A k, l \in 1 .. p : k < l => g[k] < g[l]
  BY <1>2, <1>3, <1>9 DEF Stands
<1>13. \A i \in 1 .. n : s[i] \in T
  BY <1>9, ElementOfSeq
<1>14. PICK z : z = m + 1 + p
  OBVIOUS
<1>15. PICK o : o = [ k \in 1 .. z |-> IF k <= m THEN h[k] ELSE IF k = m + 1 THEN 0 ELSE g[k - (m + 1)] ]
  OBVIOUS
<1>16. \A k \in 1 .. z : \/ k \in 1 .. m /\ k <= m + 1 /\ k # m + 1
                         \/ k = m + 1 /\ ~ (k <= m)
                         \/ k - (m + 1) \in 1 .. p /\ ~ (k <= m) /\ k # m + 1 /\ ~ (k <= m + 1)
  BY <1>9, <1>14
<1>17. \A k \in 1 .. z :
         \/ k \in 1 .. m /\ o[k] = h[k] /\ r[k] = a[k]
         \/ k = m + 1 /\ o[k] = 0 /\ r[k] = x
         \/ k - (m + 1) \in 1 .. p /\ o[k] = g[k - (m + 1)] /\ r[k] = b[k - (m + 1)]
  <2> SUFFICES ASSUME NEW k \in 1 .. z
               PROVE  \/ k \in 1 .. m /\ o[k] = h[k] /\ r[k] = a[k]
                      \/ k = m + 1 /\ o[k] = 0 /\ r[k] = x
                      \/ k - (m + 1) \in 1 .. p /\ o[k] = g[k - (m + 1)] /\ r[k] = b[k - (m + 1)]
    OBVIOUS
  <2>1. o[k] = IF k <= m THEN h[k] ELSE IF k = m + 1 THEN 0 ELSE g[k - (m + 1)]
    BY <1>15
  <2>2. r[k] = IF k <= m + 1 THEN q[k] ELSE b[k - (m + 1)]
    BY <1>11, <1>14
  <2>3. CASE k \in 1 .. m /\ k <= m + 1 /\ k # m + 1
    <3>1. k <= m
      BY <1>9, <2>3
    <3>2. o[k] = h[k] /\ r[k] = q[k] /\ q[k] = a[k]
      BY <1>10, <2>1, <2>2, <2>3, <3>1
    <3> QED BY <2>3, <3>2
  <2>4. CASE k = m + 1 /\ ~ (k <= m)
    <3>1. o[k] = 0 /\ k <= m + 1
      BY <1>9, <2>1, <2>4
    <3>2. r[k] = q[m + 1]
      BY <2>2, <2>4, <3>1
    <3> QED BY <1>10, <2>4, <3>1, <3>2
  <2>5. CASE k - (m + 1) \in 1 .. p /\ ~ (k <= m) /\ k # m + 1 /\ ~ (k <= m + 1)
    BY <2>1, <2>2, <2>5
  <2> QED BY <1>16, <2>3, <2>4, <2>5
<1>18. o \in [1 .. z -> 0 .. n]
  <2>a. \A k \in 1 .. m : h[k] \in 0 .. n
    BY <1>9, <1>12
  <2>b. \A k \in 1 .. p : g[k] \in 0 .. n
    BY <1>9, <1>12
  <2>c. 0 \in 0 .. n
    BY <1>9
  <2>1. \A k \in 1 .. z : o[k] \in 0 .. n
    BY <1>17, <2>a, <2>b, <2>c
  <2> QED BY <1>15, <2>1
<1>19. \A k \in 1 .. z : r[k] = IF o[k] = 0 THEN x ELSE s[o[k]]
  <2> SUFFICES ASSUME NEW k \in 1 .. z PROVE r[k] = IF o[k] = 0 THEN x ELSE s[o[k]]
    OBVIOUS
  <2>1. CASE k \in 1 .. m /\ o[k] = h[k] /\ r[k] = a[k]
    <3>1. h[k] \in 1 .. n /\ a[k] = s[h[k]]
      BY <1>12, <2>1
    <3> QED BY <1>9, <2>1, <3>1
  <2>2. CASE k = m + 1 /\ o[k] = 0 /\ r[k] = x
    BY <2>2
  <2>3. CASE k - (m + 1) \in 1 .. p /\ o[k] = g[k - (m + 1)] /\ r[k] = b[k - (m + 1)]
    <3>1. PICK l : l = k - (m + 1)
      OBVIOUS
    <3>2. l \in 1 .. p /\ o[k] = g[l] /\ r[k] = b[l]
      BY <2>3, <3>1
    <3>3. g[l] \in 1 .. n /\ b[l] = s[g[l]]
      BY <1>12, <3>2
    <3> QED BY <1>9, <3>2, <3>3
  <2> QED BY <1>17, <2>1, <2>2, <2>3
<1>20. ASSUME NEW k \in 1 .. z, NEW l \in 1 .. z, o[k] = o[l], k < l PROVE FALSE
  <2>1. CASE l \in 1 .. m /\ o[l] = h[l]
    <3>1. k \in 1 .. m /\ o[k] = h[k]
      BY <1>9, <1>17, <1>20, <2>1
    <3>2. h[k] < h[l] /\ h[k] \in 1 .. n /\ h[l] \in 1 .. n
      BY <1>12, <1>20, <2>1, <3>1
    <3> QED BY <1>20, <2>1, <3>1, <3>2
  <2>2. CASE l = m + 1 /\ o[l] = 0
    <3>a. k \in 1 .. m /\ ~ (k = m + 1) /\ ~ (k - (m + 1) \in 1 .. p)
      BY <1>9, <1>20, <2>2
    <3>1. k \in 1 .. m /\ o[k] = h[k] /\ h[k] \in 1 .. n
      BY <1>12, <1>17, <3>a
    <3> QED BY <1>20, <2>2, <3>1
  <2>3. CASE l - (m + 1) \in 1 .. p /\ o[l] = g[l - (m + 1)]
    <3>1. PICK j : j = l - (m + 1)
      OBVIOUS
    <3>2. j \in 1 .. p /\ o[l] = g[j] /\ g[j] \in 1 .. n /\ s[g[j]] \in B
      BY <1>12, <2>3, <3>1
    <3>3. CASE k \in 1 .. m /\ o[k] = h[k]
      <4>1. s[h[k]] \in A /\ h[k] = g[j] /\ s[g[j]] \in T
        BY <1>12, <1>13, <1>20, <3>2, <3>3
      <4> QED BY <1>4, <3>2, <4>1
    <3>4. CASE k = m + 1 /\ o[k] = 0
      BY <1>20, <3>2, <3>4
    <3>5. CASE k - (m + 1) \in 1 .. p /\ o[k] = g[k - (m + 1)]
      <4>1. PICK i : i = k - (m + 1)
        OBVIOUS
      <4>2. i \in 1 .. p /\ o[k] = g[i] /\ g[i] \in 1 .. n
        BY <1>12, <3>5, <4>1
      <4>3. i < j
        BY <1>9, <1>14, <1>20, <3>1, <4>1
      <4>4. g[i] < g[j]
        BY <1>12, <3>2, <4>2, <4>3
      <4> QED BY <1>20, <3>2, <4>2, <4>4
    <3> QED BY <1>17, <3>3, <3>4, <3>5
  <2> QED BY <1>17, <2>1, <2>2, <2>3
<1>21. \A k, l \in 1 .. z : o[k] = o[l] => k = l
  <2>1. \A k, l \in 1 .. z : k < l \/ l < k \/ k = l
    BY <1>9, <1>14
  <2> QED BY <1>20, <2>1
<1>22. Len(r) = z
  BY <1>11, <1>14
<1>23. Origins(o, r, s, x)
  BY <1>9, <1>18, <1>19, <1>21, <1>22 DEF Origins
<1> QED BY <1>7, <1>11, <1>23

\* One more member keeps the members apart.
LEMMA PlacedApart ==
  ASSUME NEW T, NEW rank \in [T -> Int], NEW s \in Seq(T), NEW x \in T, NEW key,
         Apart(key, s), \A i \in 1 .. Len(s) : key[s[i]] # key[x]
  PROVE  Apart(key, Placed(s, x, rank))
<1>1. PICK r, z : r = Placed(s, x, rank) /\ z = Len(r)
  OBVIOUS
<1>2. PICK n \in Nat : n = Len(s)
  BY LenProperties
<1>3. PICK o \in [1 .. z -> 0 .. n] :
        /\ \A k \in 1 .. z : r[k] = IF o[k] = 0 THEN x ELSE s[o[k]]
        /\ \A k, l \in 1 .. z : o[k] = o[l] => k = l
  <2>1. PICK o : Origins(o, r, s, x)
    BY <1>1, PlacedParts
  <2> QED BY <1>1, <1>2, <2>1 DEF Origins
<1>4. ASSUME NEW k \in 1 .. z, NEW l \in 1 .. z, key[r[k]] = key[r[l]] PROVE k = l
  <2>1. o[k] \in 0 .. n /\ o[l] \in 0 .. n
    BY <1>3
  <2>2. CASE o[k] = 0 /\ o[l] = 0
    BY <1>3, <2>2
  <2>3. CASE o[k] = 0 /\ o[l] # 0
    <3>1. o[l] \in 1 .. n /\ r[k] = x /\ r[l] = s[o[l]]
      BY <1>2, <1>3, <2>1, <2>3
    <3> QED BY <1>2, <1>4, <3>1
  <2>4. CASE o[k] # 0 /\ o[l] = 0
    <3>1. o[k] \in 1 .. n /\ r[l] = x /\ r[k] = s[o[k]]
      BY <1>2, <1>3, <2>1, <2>4
    <3> QED BY <1>2, <1>4, <3>1
  <2>5. CASE o[k] # 0 /\ o[l] # 0
    <3>1. o[k] \in 1 .. n /\ o[l] \in 1 .. n /\ r[k] = s[o[k]] /\ r[l] = s[o[l]]
      BY <1>2, <1>3, <2>1, <2>5
    <3>2. o[k] = o[l]
      BY <1>2, <1>4, <3>1 DEF Apart
    <3> QED BY <1>3, <3>2
  <2> QED BY <2>2, <2>3, <2>4, <2>5
<1> QED BY <1>1, <1>4 DEF Apart

\* g has what is sorted of the first members of s.
Sorts(g, s, rank) ==
  /\ g[0] = << >>
  /\ \A i \in 1 .. Len(s) : g[i] = Placed(g[i - 1], s[i], rank)

\* Sorted is the last of the sequences that grow by one member.
LEMMA SortedIs ==
  ASSUME NEW T, NEW rank \in [T -> Int], NEW s \in Seq(T)
  PROVE  \E g \in [0 .. Len(s) -> Seq(T)] : Sorts(g, s, rank) /\ Sorted(s, rank) = g[Len(s)]
<1> DEFINE n == Len(s)
           sorted[i \in 0 .. Len(s)] ==
             IF i = 0 THEN << >> ELSE Placed(sorted[i - 1], s[i], rank)
           step == [ i \in 1 .. n |-> [ q \in Seq(T) |-> Placed(q, s[i], rank) ] ]
<1>a. \A q \in Seq(T), x \in T : Placed(q, x, rank) \in Seq(T)
  BY PlacedParts
<1>1. n \in Nat /\ \A i \in 1 .. n : s[i] \in T
  BY LenProperties, ElementOfSeq
<1>2. \E g : Runs(g, n, Seq(T), << >>, step)
  <2>1. step \in [1 .. n -> [Seq(T) -> Seq(T)]]
    BY <1>a, <1>1
  <2>2. PICK Q, e : Q = Seq(T) /\ e = << >>
    OBVIOUS
  <2>3. e \in Q /\ step \in [1 .. n -> [Q -> Q]]
    BY <2>1, <2>2
  <2> HIDE DEF step, n
  <2> QED BY <1>1, <2>2, <2>3, Recursion
<1>3. PICK g : Runs(g, n, Seq(T), << >>, step)
  BY <1>2
<1>4. g \in [0 .. n -> Seq(T)] /\ g[0] = << >> /\ \A i \in 1 .. n : g[i] = step[i][g[i - 1]]
  BY <1>3 DEF Runs
<1>5. ASSUME NEW i \in 1 .. n PROVE g[i] = Placed(g[i - 1], s[i], rank)
  <2>1. i - 1 \in 0 .. n
    BY <1>1
  <2>2. g[i - 1] \in Seq(T)
    BY <1>4, <2>1
  <2>3. step[i][g[i - 1]] = Placed(g[i - 1], s[i], rank)
    BY <2>2
  <2> QED BY <1>4, <2>3
<1>6. g = [ i \in 0 .. n |-> IF i = 0 THEN << >> ELSE Placed(g[i - 1], s[i], rank) ]
  <2>1. \A i \in 0 .. n : i = 0 \/ (i \in 1 .. n /\ i # 0)
    BY <1>1
  <2>2. g[0] = << >> /\ g = [ i \in 0 .. n |-> g[i] ]
    BY <1>4
  <2> HIDE DEF n, step
  <2>3. \A i \in 0 .. n : g[i] = IF i = 0 THEN << >> ELSE Placed(g[i - 1], s[i], rank)
    BY <1>5, <2>1, <2>2
  <2> QED BY <2>2, <2>3
<1>7. sorted = [ i \in 0 .. n |-> IF i = 0 THEN << >> ELSE Placed(sorted[i - 1], s[i], rank) ]
  BY <1>6
<1>8. Sorted(s, rank) = sorted[n]
  BY DEF Sorted
<1> HIDE DEF sorted, n, step
<1>9. sorted[0] = << >>
  BY <1>1, <1>7
<1>10. ASSUME NEW i \in 1 .. n PROVE sorted[i] = Placed(sorted[i - 1], s[i], rank)
  <2>1. i \in 0 .. n /\ i # 0
    BY <1>1
  <2> QED BY <1>7, <2>1
<1>11. sorted \in [0 .. n -> Seq(T)]
  <2> DEFINE U == { i \in 0 .. n : sorted[i] \in Seq(T) }
  <2>1. 0 \in U
    <3>1. PICK e : e = << >>
      OBVIOUS
    <3>2. e \in Seq(T)
      BY <3>1
    <3>3. sorted[0] = e
      BY <1>9, <3>1
    <3>4. 0 \in 0 .. n
      BY <1>1
    <3> QED BY <3>2, <3>3, <3>4
  <2>2. ASSUME NEW i \in 1 .. n, i - 1 \in U PROVE i \in U
    <3>1. sorted[i - 1] \in Seq(T) /\ i \in 0 .. n /\ s[i] \in T
      BY <1>1, <2>2
    <3> QED BY <1>a, <1>10, <3>1
  <2>3. 0 .. n \subseteq U
    <3> HIDE DEF U
    <3> QED BY <1>1, <2>1, <2>2, Upwards
  <2>4. DOMAIN sorted = 0 .. n /\ sorted = [ i \in 0 .. n |-> sorted[i] ]
    BY <1>7
  <2> QED BY <2>3, <2>4
<1>12. Sorts(sorted, s, rank)
  BY <1>9, <1>10 DEF Sorts, n
<1> QED BY <1>8, <1>11, <1>12 DEF n

\* A sorted sequence is one.
LEMMA SortedType ==
  ASSUME NEW T, NEW rank \in [T -> Int], NEW s \in Seq(T)
  PROVE  Sorted(s, rank) \in Seq(T)
<1>1. PICK g \in [0 .. Len(s) -> Seq(T)] : Sorts(g, s, rank) /\ Sorted(s, rank) = g[Len(s)]
  BY SortedIs
<1>2. Len(s) \in 0 .. Len(s)
  BY LenProperties
<1> QED BY <1>1, <1>2

\* Sorting keeps the members apart.
LEMMA SortedApart ==
  ASSUME NEW T, NEW rank \in [T -> Int], NEW s \in Seq(T), NEW key, Apart(key, s)
  PROVE  Apart(key, Sorted(s, rank)) /\ Within(Sorted(s, rank), s)
<1>a. \A q \in Seq(T), x \in T : \E o : Origins(o, Placed(q, x, rank), q, x)
  BY PlacedParts
<1>b. \A q \in Seq(T), x \in T :
        Apart(key, q) /\ (\A i \in 1 .. Len(q) : key[q[i]] # key[x])
          => Apart(key, Placed(q, x, rank))
  BY PlacedApart
<1>1. PICK g \in [0 .. Len(s) -> Seq(T)] : Sorts(g, s, rank) /\ Sorted(s, rank) = g[Len(s)]
  BY SortedIs
<1>2. PICK n \in Nat : n = Len(s)
  BY LenProperties
<1>3. \A i \in 1 .. n : s[i] \in T
  BY <1>2, ElementOfSeq
<1>4. g[0] = << >> /\ \A i \in 1 .. n : g[i] = Placed(g[i - 1], s[i], rank)
  BY <1>1, <1>2 DEF Sorts
<1> DEFINE upTo(m) == \A k \in 1 .. Len(g[m]) : \E i \in 1 .. m : g[m][k] = s[i]
           U == { m \in 0 .. n : Apart(key, g[m]) /\ upTo(m) }
<1>5. 0 \in U
  <2>1. Len(g[0]) = 0 /\ 1 .. 0 = {}
    BY <1>4
  <2>2. Apart(key, g[0])
    BY <2>1 DEF Apart
  <2> QED BY <2>1, <2>2
<1>6. ASSUME NEW m \in 1 .. n, m - 1 \in U PROVE m \in U
  <2>1. m \in 0 .. n /\ m - 1 \in 0 .. n /\ s[m] \in T
    BY <1>3
  <2>2. PICK q, x : q = g[m - 1] /\ x = s[m]
    OBVIOUS
  <2>3. q \in Seq(T) /\ x \in T /\ g[m] = Placed(q, x, rank)
    BY <1>1, <1>2, <1>4, <2>1, <2>2
  <2>4. Apart(key, q) /\ \A k \in 1 .. Len(q) : \E i \in 1 .. m - 1 : q[k] = s[i]
    BY <1>6, <2>2
  <2>5. ASSUME NEW k \in 1 .. Len(q) PROVE key[q[k]] # key[x]
    <3>1. PICK i \in 1 .. m - 1 : q[k] = s[i]
      BY <2>4
    <3>2. i \in 1 .. n /\ m \in 1 .. n /\ i # m
      BY <3>1
    <3> QED BY <1>2, <2>2, <3>1, <3>2 DEF Apart
  <2>6. Apart(key, g[m])
    BY <1>b, <2>3, <2>4, <2>5
  <2>7. PICK o : Origins(o, g[m], q, x)
    BY <1>a, <2>3
  <2>8. PICK r, z, p : r = g[m] /\ z = Len(r) /\ p = Len(q)
    OBVIOUS
  <2>9. p \in Nat /\ o \in [1 .. z -> 0 .. p]
        /\ \A k \in 1 .. z : r[k] = IF o[k] = 0 THEN x ELSE q[o[k]]
    BY <2>3, <2>7, <2>8, LenProperties DEF Origins
  <2>10. ASSUME NEW k \in 1 .. z PROVE \E i \in 1 .. m : r[k] = s[i]
    <3>1. CASE o[k] = 0
      <4>1. r[k] = s[m] /\ m \in 1 .. m
        BY <2>2, <2>9, <3>1
      <4> QED BY <4>1
    <3>2. CASE o[k] # 0
      <4>1. o[k] \in 1 .. Len(q) /\ r[k] = q[o[k]]
        BY <2>8, <2>9, <3>2
      <4>2. PICK i \in 1 .. m - 1 : q[o[k]] = s[i]
        BY <2>4, <4>1
      <4>3. i \in 1 .. m
        BY <4>2
      <4> QED BY <4>1, <4>2, <4>3
    <3> QED BY <3>1, <3>2
  <2> QED BY <2>1, <2>6, <2>8, <2>10
<1>7. n \in U
  <2>1. 0 .. n \subseteq U
    <3> HIDE DEF U
    <3> QED BY <1>5, <1>6, Upwards
  <2>2. n \in 0 .. n
    OBVIOUS
  <2> HIDE DEF U
  <2> QED BY <2>1, <2>2
<1> QED BY <1>1, <1>2, <1>7 DEF Within

\* The members of a finite set as a sequence.
LEMMA Listed ==
  ASSUME NEW S, IsFiniteSet(S)
  PROVE  SetToSeq(S) \in Seq(S)
<1>1. PICK n \in Nat : n = Cardinality(S) /\ ExistsBijection(1 .. n, S)
  BY FS_CardinalityType
<1>2. PICK f : f \in Bijection(1 .. n, S)
  BY <1>1 DEF ExistsBijection
<1>3. f \in [1 .. n -> S] /\ IsInjective(f)
  BY <1>2 DEF Bijection, Injection, IsInjective
<1>4. SetToSeq(S) = CHOOSE g \in [1 .. n -> S] : IsInjective(g)
  BY <1>1 DEF SetToSeq
<1>5. SetToSeq(S) \in [1 .. n -> S]
  BY <1>3, <1>4
<1>6. PICK a : a = SetToSeq(S)
  OBVIOUS
<1>7. a \in [1 .. n -> S]
  BY <1>5, <1>6
<1>8. a \in Seq(S)
  BY <1>7, SeqDef
<1> QED BY <1>6, <1>8

\* A sequence is one of its own members.
LEMMA OwnSeq == ASSUME NEW S, NEW s \in Seq(S) PROVE s \in Seq(ToSet(s)) /\ ToSet(s) \subseteq S
<1>1. PICK n \in Nat : n = Len(s) /\ DOMAIN s = 1 .. n /\ s \in [1 .. n -> S]
  BY LenProperties
<1>2. PICK R : R = ToSet(s)
  OBVIOUS
<1>3. R = { s[i] : i \in 1 .. n }
  BY <1>1, <1>2 DEF ToSet
<1>4. s \in [1 .. n -> R]
  BY <1>1, <1>3
<1>5. s \in Seq(R)
  BY <1>4, SeqDef
<1>6. R \subseteq S
  BY <1>1, <1>3
<1> QED BY <1>2, <1>5, <1>6

\* The numbers from 1 to n are a sequence, and so is a function on them.
LEMMA FcnSeq ==
  ASSUME NEW n \in Nat, NEW S, NEW f \in [1 .. n -> S]
  PROVE  f \in Seq(S) /\ Len(f) = n /\ DOMAIN f = 1 .. n
<1>1. f \in Seq(S) /\ DOMAIN f = 1 .. n
  BY SeqDef
<1> QED BY <1>1

\* A table of numbers has one sum, by its rows or by its columns.
LEMMA Exchange ==
  ASSUME NEW m \in Nat, NEW n \in Nat, NEW a \in [1 .. m -> [1 .. n -> Int]]
  PROVE  Tally([ i \in 1 .. m |-> Tally([ j \in 1 .. n |-> a[i][j] ]) ])
           = Tally([ j \in 1 .. n |-> Tally([ i \in 1 .. m |-> a[i][j] ]) ])
<1>0. \A x, y, z \in Seq(Int) :
        Len(x) = n /\ Len(y) = n /\ Len(z) = n /\ (\A j \in 1 .. n : z[j] = x[j] + y[j])
          => Tally(z) = Tally(x) + Tally(y)
  <2> SUFFICES ASSUME NEW x \in Seq(Int), NEW y \in Seq(Int), NEW z \in Seq(Int),
                      Len(x) = n, Len(y) = n, Len(z) = n, \A j \in 1 .. n : z[j] = x[j] + y[j]
               PROVE  Tally(z) = Tally(x) + Tally(y)
    OBVIOUS
  <2>1. Len(y) = Len(x) /\ Len(z) = Len(x) /\ \A j \in 1 .. Len(x) : z[j] = x[j] + y[j]
    OBVIOUS
  <2> QED BY <2>1, TallyPlus
<1> DEFINE row(i) == [ j \in 1 .. n |-> a[i][j] ]
           column(j) == [ i \in 1 .. m |-> a[i][j] ]
           rows == [ i \in 1 .. m |-> Tally(row(i)) ]
           columns == [ j \in 1 .. n |-> Tally(column(j)) ]
           part(j) == CHOOSE g : Sums(g, column(j))
           upTo(k) == [ j \in 1 .. n |-> part(j)[k] ]
           sum == [ k \in 0 .. m |-> Tally(upTo(k)) ]
<1>1. ASSUME NEW i \in 1 .. m PROVE row(i) \in Seq(Int) /\ Len(row(i)) = n
  <2>1. PICK f : f = row(i)
    OBVIOUS
  <2>2. f \in [1 .. n -> Int]
    BY <2>1
  <2> HIDE DEF row
  <2> QED BY <2>1, <2>2, FcnSeq
<1>2. ASSUME NEW j \in 1 .. n PROVE column(j) \in Seq(Int) /\ Len(column(j)) = m
  <2>1. PICK f : f = column(j)
    OBVIOUS
  <2>2. f \in [1 .. m -> Int]
    BY <2>1
  <2> HIDE DEF column
  <2> QED BY <2>1, <2>2, FcnSeq
<1>3. ASSUME NEW j \in 1 .. n
      PROVE  /\ part(j) \in [0 .. m -> Int] /\ part(j)[0] = 0
             /\ \A i \in 1 .. m : part(j)[i] = part(j)[i - 1] + a[i][j]
             /\ Tally(column(j)) = part(j)[m]
  <2>1. PICK c : c = column(j)
    OBVIOUS
  <2>2. c \in Seq(Int) /\ Len(c) = m
    BY <1>2, <2>1
  <2>3. \A i \in 1 .. m : c[i] = a[i][j]
    BY <2>1
  <2>4. PICK g : g = CHOOSE h : Sums(h, c)
    OBVIOUS
  <2>5. part(j) = g
    BY <2>1, <2>4
  <2>6. \E h : Sums(h, c)
    BY <2>2, TallyIs
  <2>7. Sums(g, c)
    BY <2>4, <2>6
  <2>8. Tally(c) = g[m]
    BY <2>2, <2>7, TallyBy
  <2> HIDE DEF part, column
  <2> QED BY <2>1, <2>2, <2>3, <2>5, <2>7, <2>8 DEF Sums
<1> HIDE DEF part
<1>4. ASSUME NEW k \in 0 .. m PROVE upTo(k) \in Seq(Int) /\ Len(upTo(k)) = n
  <2>1. PICK f : f = upTo(k)
    OBVIOUS
  <2>2. \A j \in 1 .. n : part(j)[k] \in Int
    BY <1>3
  <2>3. f \in [1 .. n -> Int]
    BY <2>1, <2>2
  <2> HIDE DEF upTo
  <2> QED BY <2>1, <2>3, FcnSeq
<1>5. sum[0] = 0
  <2>1. PICK f : f = upTo(0)
    OBVIOUS
  <2>2. f \in Seq(Int) /\ Len(f) = n
    BY <1>4, <2>1
  <2>3. \A j \in 1 .. n : f[j] = 0
    BY <1>3, <2>1
  <2>4. Tally(f) = 0
    BY <2>2, <2>3, TallyZero
  <2>5. sum[0] = Tally(upTo(0))
    OBVIOUS
  <2> QED BY <2>1, <2>4, <2>5
<1>6. ASSUME NEW k \in 1 .. m PROVE sum[k] = sum[k - 1] + Tally(row(k))
  <2>1. k \in 0 .. m /\ k - 1 \in 0 .. m
    OBVIOUS
  <2>2. PICK f, g, r : f = upTo(k) /\ g = upTo(k - 1) /\ r = row(k)
    OBVIOUS
  <2>3. /\ f \in Seq(Int) /\ Len(f) = n /\ g \in Seq(Int) /\ Len(g) = n
        /\ r \in Seq(Int) /\ Len(r) = n
    <3> HIDE DEF upTo, row
    <3> QED BY <1>1, <1>4, <2>1, <2>2
  <2>4. \A j \in 1 .. n : f[j] = g[j] + r[j]
    <3> SUFFICES ASSUME NEW j \in 1 .. n PROVE f[j] = g[j] + r[j]
      OBVIOUS
    <3>1. f[j] = part(j)[k] /\ g[j] = part(j)[k - 1] /\ r[j] = a[k][j]
      BY <2>2
    <3> QED BY <1>3, <3>1
  <2>5. Tally(f) = Tally(g) + Tally(r)
    <3> HIDE DEF upTo, row, sum, rows, columns
    <3> QED BY <1>0, <2>3, <2>4
  <2>6. sum[k] = Tally(upTo(k)) /\ sum[k - 1] = Tally(upTo(k - 1))
    BY <2>1
  <2> HIDE DEF sum, upTo, row
  <2> QED BY <2>2, <2>5, <2>6
<1>7. sum \in [0 .. m -> Int]
  <2>1. \A k \in 0 .. m : Tally(upTo(k)) \in Int
    <3> HIDE DEF upTo
    <3> QED BY <1>4, TallyType
  <2> HIDE DEF upTo
  <2> QED BY <2>1
<1>8. PICK s : s = rows
  OBVIOUS
<1>9. s \in Seq(Int) /\ Len(s) = m
  <2>1. \A i \in 1 .. m : Tally(row(i)) \in Int
    <3> HIDE DEF row
    <3> QED BY <1>1, TallyType
  <2>2. s \in [1 .. m -> Int]
    <3> HIDE DEF row
    <3> QED BY <1>8, <2>1
  <2> HIDE DEF rows
  <2> QED BY <2>2, FcnSeq
<1>10. \A i \in 1 .. m : s[i] = Tally(row(i))
  <2> HIDE DEF row
  <2> QED BY <1>8
<1>11. Sums(sum, s)
  <2> HIDE DEF sum, row
  <2> QED BY <1>5, <1>6, <1>7, <1>9, <1>10 DEF Sums
<1>12. Tally(s) = sum[m]
  <2> HIDE DEF sum
  <2> QED BY <1>9, <1>11, TallyBy
<1>13. upTo(m) = columns
  BY <1>3
<1>14. sum[m] = Tally(upTo(m))
  OBVIOUS
<1>15. Tally(rows) = Tally(columns)
  <2> HIDE DEF rows, columns, sum, upTo
  <2> QED BY <1>8, <1>12, <1>13, <1>14
<1> QED BY <1>15

-----------------------------------------------------------------------------
(* The rows of the tables. *)

FillRows ==
  { f \in [ id : Nat, side : {"BUY", "SELL"}, strategy : Buckets, qty : Nat, price : Int,
            at : Nat, lt : BOOLEAN, corp : BOOLEAN, urgent : BOOLEAN ] :
      ~ f.corp => f.qty > 0 }

LotRows ==
  [ fill : Nat, strategy : Buckets, qty : Nat, price : Int, at : Nat, lt : BOOLEAN ]

MatchRows == [ buy : Nat, sell : Nat, qty : Nat, buyPrice : Int, sellPrice : Int ]

CashTypes == {"INITIAL_DEPOSIT", "CASH_ADJUSTMENT", "DIVIDEND", "CAPITAL_REDUCTION_CASH"}

CashRows == [ type : CashTypes, amount : Int, day : Nat ]

BooksType ==
  [ lots : Seq(LotRows), matches : Seq(MatchRows), cash : Int, flows : Int, ok : BOOLEAN ]

Orders == [ strategy : Buckets, qty : Nat \ {0} ]

CommandRows ==
  [ pc : {"idle", "read"} ] \cup [ pc : {"close"}, orders : Seq(Orders) \ { << >> } ]
    \cup [ pc : {"write"}, fills : Seq(FillRows), opening : Int, current : BOOLEAN ]

-----------------------------------------------------------------------------
(* What the books say of the fills F they were computed from. *)

\* Shares of the lots of some fills and strategies, and what a fill adds to the
\* strategies S.
Shares(P) == [ l \in LotRows |-> IF << l.fill, l.strategy >> \in P THEN l.qty ELSE 0 ]
Bought(S) == [ f \in FillRows |-> IF f.strategy \in S THEN Signed(f) ELSE 0 ]
Flows == [ f \in FillRows |-> Flow(f) ]

\* Shares of a BUY and of a SELL in the matches.
ClosedOf(x) == [ m \in MatchRows |-> IF m.buy = x THEN m.qty ELSE 0 ]
SoldOf(x) == [ m \in MatchRows |-> IF m.sell = x THEN m.qty ELSE 0 ]

Ids == [ f \in FillRows |-> f.id ]

\* A BUY of F has the number x and the strategy s.
IsBuy(F, x, s) ==
  \E j \in 1 .. Len(F) : F[j].id = x /\ F[j].side = "BUY" /\ F[j].strategy = s

LotsOf(F, lots) == \A i \in 1 .. Len(lots) : IsBuy(F, lots[i].fill, lots[i].strategy)

MatchOf(F, m) ==
  \E j \in 1 .. Len(F) : /\ F[j].id = m.sell /\ F[j].side = "SELL" /\ ~ F[j].corp
                         /\ IsBuy(F, m.buy, F[j].strategy)

MatchesOf(F, matches) == \A i \in 1 .. Len(matches) : MatchOf(F, matches[i])

BalanceOf(F, lots) ==
  \A S \in SUBSET Buckets : Weight(Bought(S), F) = Weight(Shares(Nat \X S), lots)

BoughtOnce(F, lots, matches) ==
  \A j \in 1 .. Len(F) : F[j].side = "BUY" =>
    Weight(Shares({F[j].id} \X Buckets), lots) + Weight(ClosedOf(F[j].id), matches) <= F[j].qty

SoldOnce(F, matches) ==
  \A j \in 1 .. Len(F) : F[j].side = "SELL" /\ ~ F[j].corp =>
    Weight(SoldOf(F[j].id), matches) = F[j].qty

BooksOf(F, b) ==
  /\ BalanceOf(F, b.lots)
  /\ b.flows = Weight(Flows, F)
  /\ LotsOf(F, b.lots) /\ MatchesOf(F, b.matches)
  /\ BoughtOnce(F, b.lots, b.matches) /\ SoldOnce(F, b.matches)

-----------------------------------------------------------------------------
(* The inductive invariant. *)

Typed ==
  /\ today \in Days
  /\ fills \in Seq(FillRows) /\ ledger \in Seq(CashRows) /\ books \in BooksType
  /\ applied \subseteq CorpActions
  /\ command \in [ Commands -> CommandRows ]
  /\ used \in [ fill : Nat, step : Nat, command : Nat ]
  /\ stale \in BOOLEAN

\* A fill is of a day that has come, or of an action that has been applied.
Dated(f, day, acts) ==
  IF f.corp THEN \E a \in acts : f.at = StartOf(a.ex)
  ELSE \E d \in 1 .. day : f.at = FillTime(d)

\* The fills F on a day, with n numbers given and some actions applied.
FactsOf(F, n, day, acts) ==
  /\ Apart(Ids, F)
  /\ \A j \in 1 .. Len(F) : F[j].id <= n /\ Dated(F[j], day, acts)

LedgerDated(rows, day, acts) ==
  \A i \in 1 .. Len(rows) :
    IF rows[i].type \in {"INITIAL_DEPOSIT", "CASH_ADJUSTMENT"} THEN rows[i].day \in 1 .. day
    ELSE \E a \in acts : rows[i].day = a.ex

Money == [ r \in CashRows |-> r.amount ]

\* What a command has selected were facts, and the opening balance still is if
\* no transaction has come in between.
Selected(cmds, n, day, acts, opening) ==
  \A c \in Commands : cmds[c].pc = "write" =>
    /\ FactsOf(cmds[c].fills, n, day, acts)
    /\ cmds[c].current => cmds[c].opening = opening

PortfolioInv ==
  /\ Typed
  /\ FactsOf(fills, used.fill, today, applied)
  /\ LedgerDated(ledger, today, applied)
  /\ Selected(command, used.fill, today, applied, Weight(Money, ledger))
  /\ books.ok /\ BooksOf(fills, books)
  /\ ~ stale => books.cash = Weight(Money, ledger) + books.flows

-----------------------------------------------------------------------------
(* What a SELL takes from the lots. *)

\* What a SELL takes from the lots of some fills and strategies.
TakenOf(P, lots, f) ==
  Tally([ i \in DOMAIN lots |->
            IF << lots[i].fill, lots[i].strategy >> \in P THEN Taken(lots, f, i) ELSE 0 ])

\* A sequence of rows by its places.
LEMMA Rows ==
  ASSUME NEW S, NEW s \in Seq(S)
  PROVE  Len(s) \in Nat /\ DOMAIN s = 1 .. Len(s) /\ \A i \in 1 .. Len(s) : s[i] \in S
BY LenProperties, ElementOfSeq

\* A number for each row is a sequence of numbers.
LEMMA Column ==
  ASSUME NEW S, NEW s \in Seq(S), NEW u, DOMAIN u = DOMAIN s, u = [ i \in DOMAIN s |-> u[i] ],
         \A i \in 1 .. Len(s) : u[i] \in Int
  PROVE  u \in Seq(Int) /\ Len(u) = Len(s) /\ DOMAIN u = 1 .. Len(s)
<1>1. PICK n : n = Len(s)
  OBVIOUS
<1>2. n \in Nat /\ DOMAIN s = 1 .. n
  BY <1>1, Rows
<1>3. u \in [1 .. n -> Int]
  BY <1>1, <1>2
<1> QED BY <1>1, <1>2, <1>3, FcnSeq

\* A SELL takes from a lot not more than it has, and only from lots of its bucket.
LEMMA TakenType ==
  ASSUME NEW lots \in Seq(LotRows), NEW f \in FillRows
  PROVE  /\ \A i \in 1 .. Len(lots) :
              /\ Taken(lots, f, i) \in 0 .. lots[i].qty
              /\ i \notin Reached(lots, f) => Taken(lots, f, i) = 0
         /\ \A i \in Reached(lots, f) :
              i \in 1 .. Len(lots) /\ lots[i].strategy = f.strategy /\ lots[i].lt = f.lt
<1>1. Len(lots) \in Nat /\ DOMAIN lots = 1 .. Len(lots)
      /\ \A i \in 1 .. Len(lots) : lots[i] \in LotRows
  BY Rows
<1>2. f.qty \in Nat
  BY DEF FillRows
<1>3. ASSUME NEW i \in 1 .. Len(lots)
      PROVE  /\ Taken(lots, f, i) \in 0 .. lots[i].qty
             /\ i \notin Reached(lots, f) => Taken(lots, f, i) = 0
  <2>1. lots[i].qty \in Nat
    BY <1>1 DEF LotRows
  <2>2. PICK u : u = [ j \in DOMAIN lots |->
                         IF j \in Eligible(lots, f) /\ Older(lots, j, i) THEN lots[j].qty ELSE 0 ]
    OBVIOUS
  <2>3. \A j \in 1 .. Len(lots) : u[j] \in Int
    <3> SUFFICES ASSUME NEW j \in 1 .. Len(lots) PROVE u[j] \in Int
      OBVIOUS
    <3>1. lots[j].qty \in Int
      BY <1>1 DEF LotRows
    <3> QED BY <1>1, <2>2, <3>1
  <2>4. u \in Seq(Int)
    BY <2>2, <2>3, Column
  <2>5. PICK t \in Int : t = Tally(u)
    BY <2>4, TallyType
  <2>a. Remaining(lots, f, i) = f.qty - Tally(u)
    BY <2>2 DEF Remaining
  <2>b. f.qty - t \in Int
    BY <1>2
  <2>6. PICK r \in Int : r = Remaining(lots, f, i)
    BY <2>5, <2>a, <2>b
  <2>7. i \in Reached(lots, f) => r > 0
    BY <2>6 DEF Reached
  <2>8. Taken(lots, f, i) = IF i \notin Reached(lots, f) THEN 0
                            ELSE IF lots[i].qty > r THEN r ELSE lots[i].qty
    BY <2>6 DEF Taken
  <2> QED BY <2>1, <2>7, <2>8
<1>4. ASSUME NEW i \in Reached(lots, f)
      PROVE  i \in 1 .. Len(lots) /\ lots[i].strategy = f.strategy /\ lots[i].lt = f.lt
  BY <1>1 DEF Reached, Eligible
<1> QED BY <1>3, <1>4

\* The row k of after is what the SELL f leaves of the lot p[k].
Remnant(after, p, lots, f) ==
  /\ after \in Seq(LotRows) /\ Len(after) = Len(p)
  /\ Len(p) \in Nat /\ DOMAIN p = 1 .. Len(p)
  /\ \A k \in 1 .. Len(p) :
       /\ p[k] \in 1 .. Len(lots)
       /\ after[k].fill = lots[p[k]].fill /\ after[k].strategy = lots[p[k]].strategy
       /\ after[k].qty = lots[p[k]].qty - Taken(lots, f, p[k])

\* The lots after a SELL are lots from before it.
LEMMA SellLots ==
  ASSUME NEW lots \in Seq(LotRows), NEW f \in FillRows
  PROVE  Remnant(LotsAfterSell(lots, f), Left(lots, f), lots, f)
<1>1. PICK n : n = Len(lots)
  OBVIOUS
<1>2. n \in Nat /\ DOMAIN lots = 1 .. n /\ \A i \in 1 .. n : lots[i] \in LotRows
  BY <1>1, Rows
<1>3. PICK C : C = { i \in DOMAIN lots :
                       i \in Reached(lots, f) => lots[i].qty # Taken(lots, f, i) }
  OBVIOUS
<1>4. PICK p : p = Left(lots, f) /\ p = Places(lots, C)
  BY <1>3 DEF Left
<1>5. Lists(p, n, C)
  BY <1>1, <1>4, PlacesList
<1>6. PICK z : z = Len(p)
  OBVIOUS
<1>7. z \in Nat /\ DOMAIN p = 1 .. z /\ \A k \in 1 .. z : p[k] \in 1 .. n
  BY <1>5, <1>6, LenProperties DEF Lists
<1>8. PICK after : after = LotsAfterSell(lots, f)
  OBVIOUS
<1>9. after = [ k \in 1 .. z |-> [ lots[p[k]] EXCEPT !.qty = @ - Taken(lots, f, p[k]) ] ]
  BY <1>4, <1>7, <1>8 DEF LotsAfterSell
<1>10. ASSUME NEW k \in 1 .. z
       PROVE  /\ after[k] \in LotRows /\ after[k].fill = lots[p[k]].fill
              /\ after[k].strategy = lots[p[k]].strategy
              /\ after[k].qty = lots[p[k]].qty - Taken(lots, f, p[k])
  <2>1. PICK i \in 1 .. n : i = p[k]
    BY <1>7
  <2>2. lots[i] \in LotRows
    BY <1>2
  <2>3. PICK t : t = Taken(lots, f, i)
    OBVIOUS
  <2>4. t \in 0 .. lots[i].qty
    BY <1>1, <2>3, TakenType
  <2>5. lots[i].qty - t \in Nat
    BY <2>2, <2>4 DEF LotRows
  <2>6. after[k] = [ lots[i] EXCEPT !.qty = lots[i].qty - t ]
    BY <1>9, <2>1, <2>3
  <2> QED BY <2>1, <2>2, <2>3, <2>5, <2>6 DEF LotRows
<1>11. after \in [1 .. z -> LotRows]
  BY <1>9, <1>10
<1>12. after \in Seq(LotRows) /\ Len(after) = z
  BY <1>7, <1>11, FcnSeq
<1> QED BY <1>1, <1>4, <1>6, <1>7, <1>8, <1>10, <1>12 DEF Remnant

\* What some lots have after a SELL and what it took from them is what they had.
LEMMA SellShares ==
  ASSUME NEW lots \in Seq(LotRows), NEW f \in FillRows, NEW P
  PROVE  /\ Weight(Shares(P), LotsAfterSell(lots, f)) + TakenOf(P, lots, f)
              = Weight(Shares(P), lots)
         /\ Weight(Shares(P), LotsAfterSell(lots, f)) \in Int
         /\ TakenOf(P, lots, f) \in Nat
<1>1. PICK n : n = Len(lots)
  OBVIOUS
<1>2. n \in Nat /\ DOMAIN lots = 1 .. n /\ \A i \in 1 .. n : lots[i] \in LotRows
  BY <1>1, Rows
<1>3. \A i \in 1 .. n : /\ Taken(lots, f, i) \in 0 .. lots[i].qty /\ lots[i].qty \in Nat
                        /\ i \notin Reached(lots, f) => Taken(lots, f, i) = 0
  BY <1>1, <1>2, TakenType DEF LotRows
<1>4. PICK u : u = [ i \in 1 .. n |-> IF << lots[i].fill, lots[i].strategy >> \in P
                                      THEN lots[i].qty - Taken(lots, f, i) ELSE 0 ]
  OBVIOUS
<1>5. PICK t : t = [ i \in 1 .. n |-> IF << lots[i].fill, lots[i].strategy >> \in P
                                      THEN Taken(lots, f, i) ELSE 0 ]
  OBVIOUS
<1>6. PICK w : w = Weights(Shares(P), lots)
  OBVIOUS
<1>7. \A i \in 1 .. n : w[i] = IF << lots[i].fill, lots[i].strategy >> \in P
                               THEN lots[i].qty ELSE 0
  BY <1>2, <1>6 DEF Weights, Shares
<1>8. u \in [1 .. n -> Int] /\ t \in [1 .. n -> Int]
  BY <1>3, <1>4, <1>5
<1>9. u \in Seq(Int) /\ Len(u) = n /\ t \in Seq(Int) /\ Len(t) = n
  BY <1>2, <1>8, FcnSeq
<1>10. w \in Seq(Int) /\ Len(w) = n
  <2>1. Shares(P) \in [LotRows -> Int]
    BY DEF Shares, LotRows
  <2> QED BY <1>1, <1>6, <2>1, WeightsType
<1>11. \A i \in 1 .. n : w[i] = u[i] + t[i]
  BY <1>3, <1>4, <1>5, <1>7
<1>12. Tally(w) = Tally(u) + Tally(t)
  <2>1. Len(t) = Len(u) /\ Len(w) = Len(u) /\ \A i \in 1 .. Len(u) : w[i] = u[i] + t[i]
    BY <1>9, <1>10, <1>11
  <2> QED BY <1>9, <1>10, <2>1, TallyPlus
<1>13. TakenOf(P, lots, f) = Tally(t)
  BY <1>2, <1>5 DEF TakenOf
<1>14. Weight(Shares(P), lots) = Tally(w)
  BY <1>6 DEF Weight
<1>15. PICK C : C = { i \in DOMAIN lots :
                        i \in Reached(lots, f) => lots[i].qty # Taken(lots, f, i) }
  OBVIOUS
<1>16. PICK p : p = Left(lots, f) /\ p = Places(lots, C)
  BY <1>15 DEF Left
<1>17. PICK after : after = LotsAfterSell(lots, f)
  OBVIOUS
<1>18. PICK z : z = Len(p)
  OBVIOUS
<1>19. /\ after \in Seq(LotRows) /\ Len(after) = z /\ z \in Nat /\ DOMAIN p = 1 .. z
       /\ \A k \in 1 .. z : /\ p[k] \in 1 .. n /\ after[k].fill = lots[p[k]].fill
                            /\ after[k].strategy = lots[p[k]].strategy
                            /\ after[k].qty = lots[p[k]].qty - Taken(lots, f, p[k])
  <2>1. Remnant(after, p, lots, f)
    BY <1>16, <1>17, SellLots
  <2> QED BY <1>1, <1>18, <2>1 DEF Remnant
<1>20. \A i \in 1 .. n : i \notin C => u[i] = 0
  <2> SUFFICES ASSUME NEW i \in 1 .. n, i \notin C PROVE u[i] = 0
    OBVIOUS
  <2>1. lots[i].qty = Taken(lots, f, i)
    BY <1>2, <1>15
  <2>2. PICK q \in Nat : q = lots[i].qty
    BY <1>3
  <2> QED BY <1>4, <2>1, <2>2
<1>21. Tally([ k \in DOMAIN p |-> u[p[k]] ]) = Tally(u)
  BY <1>1, <1>9, <1>16, <1>20, TallyPlaces
<1>22. Weights(Shares(P), after) = [ k \in DOMAIN p |-> u[p[k]] ]
  <2>1. DOMAIN after = 1 .. z /\ \A k \in 1 .. z : after[k] \in LotRows
    BY <1>19, Rows
  <2>2. ASSUME NEW k \in 1 .. z PROVE Shares(P)[after[k]] = u[p[k]]
    BY <1>4, <1>19, <2>1 DEF Shares
  <2> QED BY <1>19, <2>1, <2>2 DEF Weights
<1>23. Weight(Shares(P), after) = Tally(u)
  BY <1>21, <1>22 DEF Weight
<1>24. Tally(u) \in Int
  BY <1>9, TallyType
<1>25. Tally(t) \in Nat
  <2>1. \A i \in 1 .. Len(t) : t[i] >= 0
    BY <1>3, <1>5, <1>9
  <2> QED BY <1>9, <2>1, TallyNat
<1> QED BY <1>12, <1>13, <1>14, <1>17, <1>23, <1>24, <1>25

\* The row k of rows matches what the SELL f takes from the lot p[k].
Matching(rows, p, lots, f) ==
  /\ rows \in Seq(MatchRows) /\ Len(rows) = Len(p)
  /\ Len(p) \in Nat /\ DOMAIN p = 1 .. Len(p)
  /\ \A k \in 1 .. Len(p) :
       /\ p[k] \in 1 .. Len(lots)
       /\ rows[k].buy = lots[p[k]].fill /\ lots[p[k]].strategy = f.strategy
       /\ rows[k].sell = f.id /\ rows[k].qty = Taken(lots, f, p[k])

\* The matches of a SELL say what it took from each lot it reached.
LEMMA SellMatches ==
  ASSUME NEW lots \in Seq(LotRows), NEW f \in FillRows
  PROVE  Matching(MatchesOfSell(lots, f), Places(lots, Reached(lots, f)), lots, f)
<1>1. PICK n : n = Len(lots)
  OBVIOUS
<1>2. n \in Nat /\ DOMAIN lots = 1 .. n /\ \A i \in 1 .. n : lots[i] \in LotRows
  BY <1>1, Rows
<1>3. PICK p : p = Places(lots, Reached(lots, f))
  OBVIOUS
<1>4. Lists(p, n, Reached(lots, f))
  BY <1>1, <1>3, PlacesList
<1>5. PICK z : z = Len(p)
  OBVIOUS
<1>6. /\ z \in Nat /\ DOMAIN p = 1 .. z
      /\ \A k \in 1 .. z : p[k] \in 1 .. n /\ p[k] \in Reached(lots, f)
  BY <1>4, <1>5, LenProperties DEF Lists
<1>7. PICK rows : rows = MatchesOfSell(lots, f)
  OBVIOUS
<1>8. rows = [ k \in 1 .. z |->
                 [ buy |-> lots[p[k]].fill, sell |-> f.id, qty |-> Taken(lots, f, p[k]),
                   buyPrice |-> lots[p[k]].price, sellPrice |-> f.price ] ]
  BY <1>3, <1>6, <1>7 DEF MatchesOfSell
<1>9. f.id \in Nat /\ f.price \in Int
  BY DEF FillRows
<1>10. ASSUME NEW k \in 1 .. z
       PROVE  rows[k] \in MatchRows /\ lots[p[k]].strategy = f.strategy
  <2>1. PICK i \in 1 .. n : i = p[k]
    BY <1>6
  <2>2. lots[i] \in LotRows
    BY <1>2
  <2>3. PICK t : t = Taken(lots, f, i)
    OBVIOUS
  <2>4. t \in Nat
    <3>1. lots[i].qty \in Nat /\ t \in 0 .. lots[i].qty
      BY <1>1, <2>2, <2>3, TakenType DEF LotRows
    <3> QED BY <3>1
  <2>5. lots[i].strategy = f.strategy
    BY <1>6, <2>1, TakenType
  <2>6. lots[i].fill \in Nat /\ lots[i].price \in Int
    BY <2>2 DEF LotRows
  <2>7. rows[k] = [ buy |-> lots[i].fill, sell |-> f.id, qty |-> t,
                    buyPrice |-> lots[i].price, sellPrice |-> f.price ]
    BY <1>8, <2>1, <2>3
  <2> QED BY <1>9, <2>1, <2>4, <2>5, <2>6, <2>7 DEF MatchRows
<1>11. rows \in [1 .. z -> MatchRows]
  BY <1>8, <1>10
<1>12. rows \in Seq(MatchRows) /\ Len(rows) = z
  BY <1>6, <1>11, FcnSeq
<1>13. \A k \in 1 .. z : /\ rows[k].buy = lots[p[k]].fill /\ rows[k].sell = f.id
                         /\ rows[k].qty = Taken(lots, f, p[k])
  BY <1>8
<1> QED BY <1>1, <1>3, <1>5, <1>6, <1>7, <1>10, <1>12, <1>13 DEF Matching

\* The matches of a SELL, by the BUYs they close and in all.
LEMMA SellClosed ==
  ASSUME NEW lots \in Seq(LotRows), NEW f \in FillRows, NEW x
  PROVE  /\ Weight(ClosedOf(x), MatchesOfSell(lots, f)) = TakenOf({x} \X Buckets, lots, f)
         /\ Weight(SoldOf(x), MatchesOfSell(lots, f)) = IF x = f.id THEN Matched(lots, f) ELSE 0
<1>1. PICK n : n = Len(lots)
  OBVIOUS
<1>2. n \in Nat /\ DOMAIN lots = 1 .. n /\ \A i \in 1 .. n : lots[i] \in LotRows
  BY <1>1, Rows
<1>3. \A i \in 1 .. n : /\ Taken(lots, f, i) \in Int
                        /\ i \notin Reached(lots, f) => Taken(lots, f, i) = 0
  <2> SUFFICES ASSUME NEW i \in 1 .. n
               PROVE  /\ Taken(lots, f, i) \in Int
                      /\ i \notin Reached(lots, f) => Taken(lots, f, i) = 0
    OBVIOUS
  <2>1. lots[i].qty \in Nat
    BY <1>2 DEF LotRows
  <2>2. Taken(lots, f, i) \in 0 .. lots[i].qty
    BY <1>1, TakenType
  <2> QED BY <1>1, <2>1, <2>2, TakenType
<1>4. PICK p : p = Places(lots, Reached(lots, f))
  OBVIOUS
<1>5. PICK rows, z : rows = MatchesOfSell(lots, f) /\ z = Len(p)
  OBVIOUS
<1>6. /\ rows \in Seq(MatchRows) /\ Len(rows) = z /\ z \in Nat /\ DOMAIN p = 1 .. z
      /\ \A k \in 1 .. z : /\ p[k] \in 1 .. n /\ rows[k].buy = lots[p[k]].fill
                           /\ rows[k].sell = f.id /\ rows[k].qty = Taken(lots, f, p[k])
  BY <1>1, <1>4, <1>5, SellMatches DEF Matching
<1>7. DOMAIN rows = 1 .. z /\ \A k \in 1 .. z : rows[k] \in MatchRows
  BY <1>6, Rows
<1>8. Weight(ClosedOf(x), rows) = TakenOf({x} \X Buckets, lots, f)
  <2>1. PICK u : u = [ i \in 1 .. n |-> IF << lots[i].fill, lots[i].strategy >> \in {x} \X Buckets
                                        THEN Taken(lots, f, i) ELSE 0 ]
    OBVIOUS
  <2>2. u \in [1 .. n -> Int]
    BY <1>3, <2>1
  <2>3. u \in Seq(Int) /\ Len(u) = n
    BY <1>2, <2>2, FcnSeq
  <2>4. \A i \in 1 .. n : i \notin Reached(lots, f) => u[i] = 0
    BY <1>3, <2>1
  <2>5. Tally([ k \in DOMAIN p |-> u[p[k]] ]) = Tally(u)
    BY <1>1, <1>4, <2>3, <2>4, TallyPlaces
  <2>6. ASSUME NEW k \in 1 .. z PROVE ClosedOf(x)[rows[k]] = u[p[k]]
    <3>1. lots[p[k]].strategy \in Buckets
      BY <1>2, <1>6 DEF LotRows
    <3>2. u[p[k]] = IF lots[p[k]].fill = x THEN Taken(lots, f, p[k]) ELSE 0
      BY <1>6, <2>1, <3>1
    <3> QED BY <1>6, <1>7, <3>2 DEF ClosedOf
  <2>7. Weights(ClosedOf(x), rows) = [ k \in DOMAIN p |-> u[p[k]] ]
    BY <1>6, <1>7, <2>6 DEF Weights
  <2>8. TakenOf({x} \X Buckets, lots, f) = Tally(u)
    BY <1>2, <2>1 DEF TakenOf
  <2> QED BY <2>5, <2>7, <2>8 DEF Weight
<1>9. Weight(SoldOf(x), rows) = IF x = f.id THEN Matched(lots, f) ELSE 0
  <2>1. PICK u : u = [ i \in 1 .. n |-> IF x = f.id THEN Taken(lots, f, i) ELSE 0 ]
    OBVIOUS
  <2>2. u \in [1 .. n -> Int]
    BY <1>3, <2>1
  <2>3. u \in Seq(Int) /\ Len(u) = n
    BY <1>2, <2>2, FcnSeq
  <2>4. \A i \in 1 .. n : i \notin Reached(lots, f) => u[i] = 0
    BY <1>3, <2>1
  <2>5. Tally([ k \in DOMAIN p |-> u[p[k]] ]) = Tally(u)
    BY <1>1, <1>4, <2>3, <2>4, TallyPlaces
  <2>6. ASSUME NEW k \in 1 .. z PROVE SoldOf(x)[rows[k]] = u[p[k]]
    BY <1>6, <1>7, <2>1 DEF SoldOf
  <2>7. Weights(SoldOf(x), rows) = [ k \in DOMAIN p |-> u[p[k]] ]
    BY <1>6, <1>7, <2>6 DEF Weights
  <2>8. CASE x = f.id
    <3>1. Matched(lots, f) = Tally(u)
      BY <1>2, <2>1, <2>8 DEF Matched
    <3> QED BY <2>5, <2>7, <2>8, <3>1 DEF Weight
  <2>9. CASE x # f.id
    <3>1. \A i \in 1 .. Len(u) : u[i] = 0
      BY <2>1, <2>3, <2>9
    <3>2. Tally(u) = 0
      BY <2>3, <3>1, TallyZero
    <3> QED BY <2>5, <2>7, <2>9, <3>2 DEF Weight
  <2> QED BY <2>8, <2>9
<1> QED BY <1>5, <1>8, <1>9

\* A SELL takes from its own strategy.
LEMMA SellBucket ==
  ASSUME NEW lots \in Seq(LotRows), NEW f \in FillRows, NEW S
  PROVE  TakenOf(Nat \X S, lots, f) = IF f.strategy \in S THEN Matched(lots, f) ELSE 0
<1>1. PICK n : n = Len(lots)
  OBVIOUS
<1>2. n \in Nat /\ DOMAIN lots = 1 .. n /\ \A i \in 1 .. n : lots[i] \in LotRows
  BY <1>1, Rows
<1>3. \A i \in 1 .. n : i \notin Reached(lots, f) => Taken(lots, f, i) = 0
  BY <1>1, TakenType
<1>4. \A i \in 1 .. n : lots[i].fill \in Nat
  BY <1>2 DEF LotRows
<1>5. ASSUME NEW i \in 1 .. n
      PROVE  (IF << lots[i].fill, lots[i].strategy >> \in Nat \X S THEN Taken(lots, f, i) ELSE 0)
               = IF f.strategy \in S THEN Taken(lots, f, i) ELSE 0
  <2>1. CASE i \in Reached(lots, f)
    <3>1. lots[i].strategy = f.strategy
      BY <2>1, TakenType
    <3> QED BY <1>4, <3>1
  <2>2. CASE i \notin Reached(lots, f)
    BY <1>3, <2>2
  <2> QED BY <2>1, <2>2
<1>6. PICK u : u = [ i \in 1 .. n |-> IF f.strategy \in S THEN Taken(lots, f, i) ELSE 0 ]
  OBVIOUS
<1>7. TakenOf(Nat \X S, lots, f) = Tally(u)
  BY <1>2, <1>5, <1>6 DEF TakenOf
<1>8. CASE f.strategy \in S
  BY <1>2, <1>6, <1>7, <1>8 DEF Matched
<1>9. CASE f.strategy \notin S
  <2>1. u \in [1 .. n -> Int] /\ \A i \in 1 .. n : u[i] = 0
    BY <1>6, <1>9
  <2>2. u \in Seq(Int) /\ Len(u) = n
    BY <1>2, <2>1, FcnSeq
  <2>3. Tally(u) = 0
    BY <2>1, <2>2, TallyZero
  <2> QED BY <1>7, <1>9, <2>3
<1> QED BY <1>8, <1>9

-----------------------------------------------------------------------------
(* A fill keeps the books. *)

\* The cash of a fill is a number.
LEMMA FlowType == \A f \in FillRows : Value(f) \in Int /\ Flow(f) \in Int
<1> SUFFICES ASSUME NEW f \in FillRows PROVE Value(f) \in Int /\ Flow(f) \in Int
  OBVIOUS
<1>a. \A x \in Int, d \in Nat \ {0} : Rounded(x, d) \in Int
  BY DEF Rounded
<1>1. f.qty \in Int /\ f.price \in Int
  BY DEF FillRows
<1>2. f.qty * f.price \in Int
  BY <1>1
<1>3. PICK v \in Int : v = Value(f)
  BY <1>2, <1>a DEF Value
<1>4. v * 1425 \in Int /\ v * 3 \in Int
  BY <1>3
<1>5. PICK r \in Int : r = Rounded(v * 1425, 1000000)
  BY <1>4, <1>a
<1>6. Fee(v) = IF r < 20 THEN 20 ELSE r
  BY <1>5 DEF Fee
<1>7. PICK e \in Int : e = Fee(v)
  BY <1>6
<1>8. PICK t \in Int : t = Tax(v)
  BY <1>4, <1>a DEF Tax
<1>9. Flow(f) = IF f.corp THEN 0 ELSE IF f.side = "BUY" THEN - (v + e) ELSE v - e - t
  BY <1>3, <1>7, <1>8 DEF Flow
<1>10. Flow(f) \in Int
  BY <1>9
<1> QED BY <1>3, <1>10

\* The weights are numbers.
LEMMA WeightTypes ==
  /\ \A P : Shares(P) \in [LotRows -> Int] /\ \A l \in LotRows : Shares(P)[l] >= 0
  /\ \A S : Bought(S) \in [FillRows -> Int]
  /\ Flows \in [FillRows -> Int]
  /\ \A x : ClosedOf(x) \in [MatchRows -> Int] /\ SoldOf(x) \in [MatchRows -> Int]
<1>1. \A P : Shares(P) \in [LotRows -> Int] /\ \A l \in LotRows : Shares(P)[l] >= 0
  BY DEF Shares, LotRows
<1>2. \A S : Bought(S) \in [FillRows -> Int]
  BY DEF Bought, FillRows, Signed
<1>3. Flows \in [FillRows -> Int]
  BY FlowType DEF Flows
<1>4. \A x : ClosedOf(x) \in [MatchRows -> Int] /\ SoldOf(x) \in [MatchRows -> Int]
  BY DEF ClosedOf, SoldOf, MatchRows
<1> QED BY <1>1, <1>2, <1>3, <1>4

\* What weighs nothing in each row weighs nothing.
LEMMA WeightZero ==
  ASSUME NEW S, NEW w \in [S -> Int], NEW s \in Seq(S), \A i \in 1 .. Len(s) : w[s[i]] = 0
  PROVE  Weight(w, s) = 0
<1>1. PICK u : u = Weights(w, s)
  OBVIOUS
<1>2. u \in Seq(Int) /\ Len(u) = Len(s)
  BY <1>1, WeightsType
<1>3. DOMAIN s = 1 .. Len(s)
  BY Rows
<1>4. \A i \in 1 .. Len(u) : u[i] = 0
  BY <1>1, <1>2, <1>3 DEF Weights
<1> QED BY <1>1, <1>2, <1>4, TallyZero DEF Weight

\* The weights of lots, fills and matches add up.
LEMMA LotSums ==
  /\ \A P : \A s \in Seq(LotRows) : Weight(Shares(P), s) \in Int
  /\ \A P : \A s \in Seq(LotRows), l \in LotRows :
       Weight(Shares(P), Append(s, l)) = Weight(Shares(P), s) + Shares(P)[l]
  /\ \A P : \A s, t \in Seq(LotRows) :
       Weight(Shares(P), s \o t) = Weight(Shares(P), s) + Weight(Shares(P), t)
<1> SUFFICES ASSUME NEW P
             PROVE  /\ \A s \in Seq(LotRows) : Weight(Shares(P), s) \in Int
                    /\ \A s \in Seq(LotRows), l \in LotRows :
                         Weight(Shares(P), Append(s, l)) = Weight(Shares(P), s) + Shares(P)[l]
                    /\ \A s, t \in Seq(LotRows) :
                         Weight(Shares(P), s \o t) = Weight(Shares(P), s) + Weight(Shares(P), t)
  OBVIOUS
<1>1. PICK w \in [LotRows -> Int] : w = Shares(P)
  BY WeightTypes
<1>2. \A s \in Seq(LotRows) : Weight(w, s) \in Int
  BY WeightsType
<1>3. \A s \in Seq(LotRows), l \in LotRows : Weight(w, Append(s, l)) = Weight(w, s) + w[l]
  BY WeightAppend
<1>4. \A s, t \in Seq(LotRows) : Weight(w, s \o t) = Weight(w, s) + Weight(w, t)
  BY WeightJoin
<1> QED BY <1>1, <1>2, <1>3, <1>4

\* What fills are worth adds up to a number.
LEMMA FillSums ==
  ASSUME NEW w, w = Flows \/ \E S : w = Bought(S)
  PROVE  /\ \A s \in Seq(FillRows) : Weight(w, s) \in Int
         /\ \A s \in Seq(FillRows), f \in FillRows :
              Weight(w, Append(s, f)) = Weight(w, s) + w[f]
         /\ \A s, t \in Seq(FillRows) : Weight(w, s \o t) = Weight(w, s) + Weight(w, t)
<1>1. w \in [FillRows -> Int]
  BY WeightTypes
<1>2. \A s \in Seq(FillRows) : Weight(w, s) \in Int
  BY <1>1, WeightsType
<1>3. \A s \in Seq(FillRows), f \in FillRows : Weight(w, Append(s, f)) = Weight(w, s) + w[f]
  BY <1>1, WeightAppend
<1>4. \A s, t \in Seq(FillRows) : Weight(w, s \o t) = Weight(w, s) + Weight(w, t)
  BY <1>1, WeightJoin
<1> QED BY <1>2, <1>3, <1>4

\* What matches have taken adds up to a number.
LEMMA MatchSums ==
  ASSUME NEW w, NEW x, w = ClosedOf(x) \/ w = SoldOf(x)
  PROVE  /\ \A s \in Seq(MatchRows) : Weight(w, s) \in Int
         /\ \A s, t \in Seq(MatchRows) : Weight(w, s \o t) = Weight(w, s) + Weight(w, t)
<1>1. w \in [MatchRows -> Int]
  BY WeightTypes
<1>2. \A s \in Seq(MatchRows) : Weight(w, s) \in Int
  BY <1>1, WeightsType
<1>3. \A s, t \in Seq(MatchRows) : Weight(w, s \o t) = Weight(w, s) + Weight(w, t)
  BY <1>1, WeightJoin
<1> QED BY <1>2, <1>3

\* What a fill does to each part of the books.
LEMMA ApplyFillParts ==
  ASSUME NEW b \in BooksType, NEW f \in FillRows
  PROVE  LET after == ApplyFill(b, f)
         IN /\ after.flows = b.flows + Flow(f) /\ after.cash = b.cash + Flow(f)
            /\ f.side = "BUY" => /\ after.lots = Append(b.lots, LotOf(f))
                                 /\ after.matches = b.matches /\ after.ok = b.ok
            /\ f.side = "SELL" =>
                 /\ after.lots = LotsAfterSell(b.lots, f)
                 /\ after.matches = IF f.corp THEN b.matches
                                    ELSE b.matches \o MatchesOfSell(b.lots, f)
                 /\ after.ok = (b.ok /\ Matched(b.lots, f) = f.qty)
            /\ DOMAIN after = DOMAIN b
            /\ after = [ lots |-> after.lots, matches |-> after.matches, cash |-> after.cash,
                         flows |-> after.flows, ok |-> after.ok ]
<1>1. b = [ lots |-> b.lots, matches |-> b.matches, cash |-> b.cash, flows |-> b.flows,
            ok |-> b.ok ]
      /\ b.cash \in Int /\ b.flows \in Int
  BY DEF BooksType
<1>2. f.side \in {"BUY", "SELL"} /\ f.corp \in BOOLEAN
  BY DEF FillRows
<1>3. PICK v \in Int : v = Flow(f)
  BY FlowType
<1>4. f.corp => v = 0
  BY <1>3 DEF Flow
<1>a. PICK lots, rows, enough : /\ lots = LotsAfterSell(b.lots, f)
                                /\ rows = b.matches \o MatchesOfSell(b.lots, f)
                                /\ enough = (b.ok /\ Matched(b.lots, f) = f.qty)
  OBVIOUS
<1>b. b.cash + 0 = b.cash /\ b.flows + 0 = b.flows
  BY <1>1
<1>5. CASE f.side = "BUY" /\ f.corp
  <2>1. ApplyFill(b, f) = [ b EXCEPT !.lots = Append(b.lots, LotOf(f)) ]
    BY <1>5 DEF ApplyFill, MoveShares
  <2> QED BY <1>1, <1>3, <1>4, <1>5, <1>b, <2>1
<1>6. CASE f.side = "BUY" /\ ~ f.corp
  <2>1. PICK m : m = [ b EXCEPT !.lots = Append(b.lots, LotOf(f)) ]
    OBVIOUS
  <2>2. ApplyFill(b, f) = [ m EXCEPT !.cash = m.cash + v, !.flows = m.flows + v ]
    BY <1>3, <1>6, <2>1 DEF ApplyFill, MoveShares
  <2> QED BY <1>1, <1>3, <1>6, <2>1, <2>2
<1>7. CASE f.side = "SELL" /\ f.corp
  <2>1. ApplyFill(b, f) = [ b EXCEPT !.ok = enough, !.lots = lots ]
    BY <1>7, <1>a DEF ApplyFill, MoveShares
  <2> QED BY <1>1, <1>3, <1>4, <1>7, <1>a, <1>b, <2>1
<1>8. CASE f.side = "SELL" /\ ~ f.corp
  <2>1. PICK m : m = [ b EXCEPT !.ok = enough, !.lots = lots ]
    OBVIOUS
  <2>2. MoveShares(b, f) = m
    BY <1>8, <1>a, <2>1 DEF MoveShares
  <2>3. m.matches = b.matches
    BY <1>1, <2>1
  <2>4. PICK q : q = [ m EXCEPT !.cash = m.cash + v, !.flows = m.flows + v ]
    OBVIOUS
  <2>5. q.matches = b.matches
    BY <1>1, <2>1, <2>3, <2>4
  <2>6. ApplyFill(b, f) = [ q EXCEPT !.matches = rows ]
    BY <1>3, <1>8, <1>a, <2>2, <2>4, <2>5 DEF ApplyFill
  <2> QED BY <1>1, <1>3, <1>8, <1>a, <2>1, <2>4, <2>6
<1> QED BY <1>2, <1>5, <1>6, <1>7, <1>8

\* A BUY opens a lot.
LEMMA LotType == \A f \in FillRows : LotOf(f) \in LotRows
BY DEF LotOf, LotRows, FillRows

\* A fill leaves books.
LEMMA ApplyFillType ==
  ASSUME NEW b \in BooksType, NEW f \in FillRows
  PROVE  ApplyFill(b, f) \in BooksType
<1>1. /\ b.lots \in Seq(LotRows) /\ b.matches \in Seq(MatchRows) /\ b.cash \in Int
      /\ b.flows \in Int /\ b.ok \in BOOLEAN
  BY DEF BooksType
<1>2. f.side \in {"BUY", "SELL"} /\ LotOf(f) \in LotRows /\ Flow(f) \in Int
  BY FlowType, LotType DEF FillRows
<1>3. Append(b.lots, LotOf(f)) \in Seq(LotRows)
  BY <1>1, <1>2
<1>4. LotsAfterSell(b.lots, f) \in Seq(LotRows)
  BY <1>1, SellLots DEF Remnant
<1>5. MatchesOfSell(b.lots, f) \in Seq(MatchRows)
  BY <1>1, SellMatches DEF Matching
<1>6. b.matches \o MatchesOfSell(b.lots, f) \in Seq(MatchRows)
  BY <1>1, <1>5
<1>7. PICK after : after = ApplyFill(b, f)
  OBVIOUS
<1>8. /\ after.flows = b.flows + Flow(f) /\ after.cash = b.cash + Flow(f)
      /\ f.side = "BUY" => /\ after.lots = Append(b.lots, LotOf(f))
                           /\ after.matches = b.matches /\ after.ok = b.ok
      /\ f.side = "SELL" =>
           /\ after.lots = LotsAfterSell(b.lots, f)
           /\ after.matches = IF f.corp THEN b.matches
                              ELSE b.matches \o MatchesOfSell(b.lots, f)
           /\ after.ok = (b.ok /\ Matched(b.lots, f) = f.qty)
      /\ after = [ lots |-> after.lots, matches |-> after.matches, cash |-> after.cash,
                   flows |-> after.flows, ok |-> after.ok ]
  BY <1>7, ApplyFillParts
<1>9. after.lots \in Seq(LotRows) /\ after.matches \in Seq(MatchRows) /\ after.ok \in BOOLEAN
  BY <1>1, <1>2, <1>3, <1>4, <1>6, <1>8
<1>10. after.flows \in Int /\ after.cash \in Int
  BY <1>1, <1>2, <1>8
<1>11. after \in BooksType
  BY <1>8, <1>9, <1>10 DEF BooksType
<1> QED BY <1>7, <1>11

\* G has the rows of F, and perhaps more.
Grown(F, G) == Len(F) <= Len(G) /\ \A j \in 1 .. Len(F) : G[j] = F[j]

\* One fact more.
LEMMA GrownAppend ==
  ASSUME NEW S, NEW F \in Seq(S), NEW x \in S
  PROVE  /\ Grown(F, Append(F, x)) /\ Len(Append(F, x)) = Len(F) + 1
         /\ Append(F, x) \in Seq(S) /\ Append(F, x)[Len(F) + 1] = x
BY DEF Grown

\* More facts do not take from the old ones.
LEMMA GrownBuys ==
  ASSUME NEW F \in Seq(FillRows), NEW G \in Seq(FillRows), Grown(F, G)
  PROVE  /\ \A x, s : IsBuy(F, x, s) => IsBuy(G, x, s)
         /\ \A m : MatchOf(F, m) => MatchOf(G, m)
<1>1. PICK n, k : n = Len(F) /\ k = Len(G)
  OBVIOUS
<1>2. n \in Nat /\ k \in Nat /\ n <= k /\ \A j \in 1 .. n : G[j] = F[j] /\ j \in 1 .. k
  BY <1>1, Rows DEF Grown
<1>3. \A x, s : IsBuy(F, x, s) => IsBuy(G, x, s)
  BY <1>1, <1>2 DEF IsBuy
<1>4. \A m : MatchOf(F, m) => MatchOf(G, m)
  BY <1>1, <1>2, <1>3 DEF MatchOf
<1> QED BY <1>3, <1>4

\* Nothing in the books is of a fill that is not there.
LEMMA FreshFill ==
  ASSUME NEW F \in Seq(FillRows), NEW lots \in Seq(LotRows), NEW matches \in Seq(MatchRows),
         LotsOf(F, lots), MatchesOf(F, matches), NEW x, \A j \in 1 .. Len(F) : F[j].id # x
  PROVE  /\ Weight(Shares({x} \X Buckets), lots) = 0
         /\ Weight(ClosedOf(x), matches) = 0 /\ Weight(SoldOf(x), matches) = 0
<1>1. \A i \in 1 .. Len(lots) : lots[i] \in LotRows /\ lots[i].fill # x
  BY Rows DEF LotsOf, IsBuy
<1>2. \A i \in 1 .. Len(lots) : Shares({x} \X Buckets)[lots[i]] = 0
  BY <1>1 DEF Shares
<1>3. \A i \in 1 .. Len(matches) :
        matches[i] \in MatchRows /\ matches[i].buy # x /\ matches[i].sell # x
  BY Rows DEF MatchesOf, MatchOf, IsBuy
<1>4. \A i \in 1 .. Len(matches) : ClosedOf(x)[matches[i]] = 0 /\ SoldOf(x)[matches[i]] = 0
  BY <1>3 DEF ClosedOf, SoldOf
<1>5. Weight(Shares({x} \X Buckets), lots) = 0
  BY <1>2, WeightTypes, WeightZero
<1>6. Weight(ClosedOf(x), matches) = 0
  BY <1>4, WeightTypes, WeightZero
<1>7. Weight(SoldOf(x), matches) = 0
  BY <1>4, WeightTypes, WeightZero
<1> QED BY <1>5, <1>6, <1>7

\* Books and facts agree after a BUY with a number of its own.
LEMMA BuyKeeps ==
  ASSUME NEW F \in Seq(FillRows), NEW b \in BooksType, NEW f \in FillRows, f.side = "BUY",
         \A j \in 1 .. Len(F) : F[j].id # f.id, BooksOf(F, b)
  PROVE  BooksOf(Append(F, f), ApplyFill(b, f))
<1>1. PICK lots, matches : lots = b.lots /\ matches = b.matches
  OBVIOUS
<1>2. /\ lots \in Seq(LotRows) /\ matches \in Seq(MatchRows) /\ b.flows \in Int
      /\ BalanceOf(F, lots) /\ b.flows = Weight(Flows, F) /\ LotsOf(F, lots)
      /\ MatchesOf(F, matches) /\ BoughtOnce(F, lots, matches) /\ SoldOnce(F, matches)
  BY <1>1 DEF BooksOf, BooksType
<1>3. PICK lot \in LotRows : /\ lot = LotOf(f) /\ lot.fill = f.id
                             /\ lot.strategy = f.strategy /\ lot.qty = f.qty
  BY LotType DEF LotOf
<1>4. PICK after : after = ApplyFill(b, f)
  OBVIOUS
<1>5. /\ after.flows = b.flows + Flow(f) /\ after.lots = Append(lots, lot)
      /\ after.matches = matches
  BY <1>1, <1>3, <1>4, ApplyFillParts
<1>6. PICK G \in Seq(FillRows) : G = Append(F, f)
  BY GrownAppend
<1>7. PICK n \in Nat : n = Len(F)
  BY Rows
<1>8. /\ Grown(F, G) /\ Len(G) = n + 1 /\ G[n + 1] = f
      /\ \A j \in 1 .. n : G[j] = F[j] /\ F[j] \in FillRows
  BY <1>6, <1>7, GrownAppend, Rows DEF Grown
<1>9. PICK M \in Seq(LotRows) : M = Append(lots, lot)
  BY <1>2, <1>3, GrownAppend
<1>a. \A P : Weight(Shares(P), M) = Weight(Shares(P), lots) + Shares(P)[lot]
  BY <1>2, <1>3, <1>9, LotSums
<1>b. \A P : Weight(Shares(P), lots) \in Int
  BY <1>2, LotSums
<1>10. BalanceOf(G, M)
  <2> SUFFICES ASSUME NEW S \in SUBSET Buckets
               PROVE  Weight(Bought(S), G) = Weight(Shares(Nat \X S), M)
    BY DEF BalanceOf
  <2>1. Weight(Bought(S), G) = Weight(Bought(S), F) + Bought(S)[f]
    BY <1>6, FillSums
  <2>2. Bought(S)[f] = Shares(Nat \X S)[lot]
    BY <1>3 DEF Bought, Shares, Signed, LotRows
  <2>3. Weight(Bought(S), F) = Weight(Shares(Nat \X S), lots)
    BY <1>2 DEF BalanceOf
  <2> QED BY <1>a, <2>1, <2>2, <2>3
<1>11. after.flows = Weight(Flows, G)
  <2>1. Weight(Flows, G) = Weight(Flows, F) + Flows[f]
    BY <1>6, FillSums
  <2> QED BY <1>2, <1>5, <2>1 DEF Flows
<1>12. LotsOf(G, M)
  <2> SUFFICES ASSUME NEW i \in 1 .. Len(M) PROVE IsBuy(G, M[i].fill, M[i].strategy)
    BY DEF LotsOf
  <2>1. PICK m \in Nat : m = Len(lots)
    BY <1>2, Rows
  <2>2. Len(M) = m + 1 /\ M[m + 1] = lot /\ \A k \in 1 .. m : M[k] = lots[k]
    BY <1>2, <1>3, <1>9, <2>1, GrownAppend DEF Grown
  <2>3. CASE i \in 1 .. m
    <3>1. IsBuy(F, lots[i].fill, lots[i].strategy)
      BY <1>2, <2>1, <2>3 DEF LotsOf
    <3> QED BY <1>8, <2>2, <2>3, <3>1, GrownBuys
  <2>4. CASE i = m + 1
    <3>1. n + 1 \in 1 .. Len(G)
      BY <1>8
    <3> QED BY <1>3, <1>8, <2>2, <2>4, <3>1 DEF IsBuy
  <2> QED BY <2>1, <2>2, <2>3, <2>4
<1>13. MatchesOf(G, matches)
  BY <1>2, <1>8, GrownBuys DEF MatchesOf
<1>14. BoughtOnce(G, M, matches)
  <2> SUFFICES ASSUME NEW j \in 1 .. Len(G), G[j].side = "BUY"
               PROVE  Weight(Shares({G[j].id} \X Buckets), M)
                        + Weight(ClosedOf(G[j].id), matches) <= G[j].qty
    BY DEF BoughtOnce
  <2>1. CASE j \in 1 .. n
    <3>1. PICK x : x = F[j].id /\ x # f.id
      BY <1>7, <2>1
    <3>2. Weight(Shares({x} \X Buckets), lots) + Weight(ClosedOf(x), matches) <= F[j].qty
      BY <1>2, <1>7, <1>8, <2>1, <3>1 DEF BoughtOnce
    <3>3. Shares({x} \X Buckets)[lot] = 0
      BY <1>3, <3>1 DEF Shares
    <3>4. Weight(Shares({x} \X Buckets), M) = Weight(Shares({x} \X Buckets), lots)
      BY <1>a, <1>b, <3>3
    <3> QED BY <1>8, <2>1, <3>1, <3>2, <3>4
  <2>2. CASE j = n + 1
    <3>1. PICK x : x = f.id
      OBVIOUS
    <3>2. Weight(Shares({x} \X Buckets), lots) = 0 /\ Weight(ClosedOf(x), matches) = 0
      BY <1>2, <3>1, FreshFill
    <3>3. Shares({x} \X Buckets)[lot] = f.qty
      BY <1>3, <3>1 DEF Shares, LotRows
    <3>4. f.qty \in Nat
      BY DEF FillRows
    <3>a. 0 + f.qty = f.qty
      BY <3>4
    <3>b. Weight(Shares({x} \X Buckets), M) = Weight(Shares({x} \X Buckets), lots)
                                               + Shares({x} \X Buckets)[lot]
      BY <1>a
    <3>5. Weight(Shares({x} \X Buckets), M) = f.qty
      BY <3>2, <3>3, <3>a, <3>b
    <3>6. f.qty + 0 <= f.qty
      BY <3>4
    <3>7. Weight(Shares({x} \X Buckets), M) + Weight(ClosedOf(x), matches) <= f.qty
      BY <3>2, <3>5, <3>6
    <3>8. G[j] = f /\ G[j].id = x
      BY <1>8, <2>2, <3>1
    <3> QED BY <3>7, <3>8
  <2> QED BY <1>7, <1>8, <2>1, <2>2
<1>15. SoldOnce(G, matches)
  <2> SUFFICES ASSUME NEW j \in 1 .. Len(G), G[j].side = "SELL", ~ G[j].corp
               PROVE  Weight(SoldOf(G[j].id), matches) = G[j].qty
    BY DEF SoldOnce
  <2>1. j \in 1 .. n
    BY <1>7, <1>8
  <2> QED BY <1>2, <1>7, <1>8, <2>1 DEF SoldOnce
<1>16. BooksOf(G, after)
  BY <1>5, <1>9, <1>10, <1>11, <1>12, <1>13, <1>14, <1>15 DEF BooksOf
<1> QED BY <1>4, <1>6, <1>16

\* And after a SELL that finds its shares.
LEMMA SellKeeps ==
  ASSUME NEW F \in Seq(FillRows), NEW b \in BooksType, NEW f \in FillRows, f.side = "SELL",
         \A j \in 1 .. Len(F) : F[j].id # f.id, BooksOf(F, b), ApplyFill(b, f).ok
  PROVE  BooksOf(Append(F, f), ApplyFill(b, f))
<1>1. PICK lots, matches : lots = b.lots /\ matches = b.matches
  OBVIOUS
<1>2. /\ lots \in Seq(LotRows) /\ matches \in Seq(MatchRows) /\ b.flows \in Int
      /\ BalanceOf(F, lots) /\ b.flows = Weight(Flows, F) /\ LotsOf(F, lots)
      /\ MatchesOf(F, matches) /\ BoughtOnce(F, lots, matches) /\ SoldOnce(F, matches)
  BY <1>1 DEF BooksOf, BooksType
<1>3. PICK M, new, total : /\ M = LotsAfterSell(lots, f) /\ new = MatchesOfSell(lots, f)
                           /\ total = IF f.corp THEN matches ELSE matches \o new
  OBVIOUS
<1>4. PICK after : after = ApplyFill(b, f)
  OBVIOUS
<1>5. /\ after.flows = b.flows + Flow(f) /\ after.lots = M /\ after.matches = total
      /\ Matched(lots, f) = f.qty
  BY <1>1, <1>3, <1>4, ApplyFillParts
<1>6. PICK G \in Seq(FillRows) : G = Append(F, f)
  BY GrownAppend
<1>7. PICK n \in Nat : n = Len(F)
  BY Rows
<1>8. /\ Grown(F, G) /\ Len(G) = n + 1 /\ G[n + 1] = f
      /\ \A j \in 1 .. n : G[j] = F[j] /\ F[j] \in FillRows
  BY <1>6, <1>7, GrownAppend, Rows DEF Grown
<1>9. PICK p : p = Left(lots, f)
  OBVIOUS
<1>10. /\ M \in Seq(LotRows) /\ Len(M) = Len(p)
       /\ \A k \in 1 .. Len(p) : /\ p[k] \in 1 .. Len(lots) /\ M[k].fill = lots[p[k]].fill
                                 /\ M[k].strategy = lots[p[k]].strategy
  <2>1. Remnant(M, p, lots, f)
    BY <1>2, <1>3, <1>9, SellLots
  <2> QED BY <2>1 DEF Remnant
<1>11. \A P : /\ Weight(Shares(P), M) + TakenOf(P, lots, f) = Weight(Shares(P), lots)
              /\ Weight(Shares(P), M) \in Int /\ TakenOf(P, lots, f) \in Nat
  BY <1>2, <1>3, SellShares
<1>12. /\ new \in Seq(MatchRows)
       /\ \A k \in 1 .. Len(new) : /\ new[k].sell = f.id
                                   /\ \E i \in 1 .. Len(lots) : /\ new[k].buy = lots[i].fill
                                                                /\ lots[i].strategy = f.strategy
  <2>1. PICK r : r = Places(lots, Reached(lots, f))
    OBVIOUS
  <2>2. Matching(new, r, lots, f)
    BY <1>2, <1>3, <2>1, SellMatches
  <2> QED BY <2>2 DEF Matching
<1>13. total \in Seq(MatchRows)
  BY <1>2, <1>3, <1>12
<1>14. \A x : /\ Weight(ClosedOf(x), total) = Weight(ClosedOf(x), matches)
                   + (IF f.corp THEN 0 ELSE TakenOf({x} \X Buckets, lots, f))
              /\ Weight(SoldOf(x), total) = Weight(SoldOf(x), matches)
                   + (IF ~ f.corp /\ x = f.id THEN f.qty ELSE 0)
              /\ Weight(ClosedOf(x), matches) \in Int /\ Weight(SoldOf(x), matches) \in Int
  <2> SUFFICES ASSUME NEW x
               PROVE  /\ Weight(ClosedOf(x), total) = Weight(ClosedOf(x), matches)
                           + (IF f.corp THEN 0 ELSE TakenOf({x} \X Buckets, lots, f))
                      /\ Weight(SoldOf(x), total) = Weight(SoldOf(x), matches)
                           + (IF ~ f.corp /\ x = f.id THEN f.qty ELSE 0)
                      /\ Weight(ClosedOf(x), matches) \in Int
                      /\ Weight(SoldOf(x), matches) \in Int
    OBVIOUS
  <2>1. PICK v, w : v = ClosedOf(x) /\ w = SoldOf(x)
    OBVIOUS
  <2>2. v \in [MatchRows -> Int] /\ w \in [MatchRows -> Int]
    BY <2>1, WeightTypes
  <2>3. PICK y \in Int, z \in Int : y = Weight(v, matches) /\ z = Weight(w, matches)
    BY <1>2, <2>2, WeightsType
  <2>4. Weight(v, new) = TakenOf({x} \X Buckets, lots, f)
        /\ Weight(w, new) = IF x = f.id THEN f.qty ELSE 0
    BY <1>2, <1>3, <1>5, <2>1, SellClosed
  <2>5. CASE f.corp
    <3>1. total = matches /\ y + 0 = y /\ z + 0 = z
      BY <1>3, <2>5
    <3> QED BY <2>1, <2>3, <2>5, <3>1
  <2>6. CASE ~ f.corp
    <3>1. total = matches \o new
      BY <1>3, <2>6
    <3>2. Weight(v, total) = Weight(v, matches) + Weight(v, new)
      BY <1>2, <1>12, <2>1, <3>1, MatchSums
    <3>3. Weight(w, total) = Weight(w, matches) + Weight(w, new)
      BY <1>2, <1>12, <2>1, <3>1, MatchSums
    <3> QED BY <2>1, <2>3, <2>4, <2>6, <3>2, <3>3
  <2> QED BY <2>5, <2>6
<1>15. BalanceOf(G, M)
  <2> SUFFICES ASSUME NEW S \in SUBSET Buckets
               PROVE  Weight(Bought(S), G) = Weight(Shares(Nat \X S), M)
    BY DEF BalanceOf
  <2>1. Weight(Bought(S), G) = Weight(Bought(S), F) + Bought(S)[f]
    BY <1>6, FillSums
  <2>2. PICK q \in Nat : q = f.qty
    BY DEF FillRows
  <2>3. Bought(S)[f] = IF f.strategy \in S THEN - q ELSE 0
    BY <2>2 DEF Bought, Signed
  <2>4. TakenOf(Nat \X S, lots, f) = IF f.strategy \in S THEN q ELSE 0
    BY <1>2, <1>5, <2>2, SellBucket
  <2>5. Weight(Bought(S), F) = Weight(Shares(Nat \X S), lots)
    BY <1>2 DEF BalanceOf
  <2>6. PICK y \in Int : y = Weight(Shares(Nat \X S), M)
    BY <1>11
  <2>7. Weight(Shares(Nat \X S), lots) = y + IF f.strategy \in S THEN q ELSE 0
    BY <1>11, <2>4, <2>6
  <2> QED BY <2>1, <2>2, <2>3, <2>5, <2>6, <2>7
<1>16. after.flows = Weight(Flows, G)
  <2>1. Weight(Flows, G) = Weight(Flows, F) + Flows[f]
    BY <1>6, FillSums
  <2> QED BY <1>2, <1>5, <2>1 DEF Flows
<1>17. LotsOf(G, M)
  <2> SUFFICES ASSUME NEW k \in 1 .. Len(M) PROVE IsBuy(G, M[k].fill, M[k].strategy)
    BY DEF LotsOf
  <2>1. PICK i \in 1 .. Len(lots) : M[k].fill = lots[i].fill /\ M[k].strategy = lots[i].strategy
    BY <1>10
  <2>2. IsBuy(F, lots[i].fill, lots[i].strategy)
    BY <1>2 DEF LotsOf
  <2> QED BY <1>8, <2>1, <2>2, GrownBuys
<1>18. MatchesOf(G, total)
  <2>1. \A k \in 1 .. Len(matches) : MatchOf(G, matches[k])
    BY <1>2, <1>8, GrownBuys DEF MatchesOf
  <2>2. ASSUME NEW k \in 1 .. Len(new), ~ f.corp PROVE MatchOf(G, new[k])
    <3>1. PICK i \in 1 .. Len(lots) : new[k].buy = lots[i].fill /\ lots[i].strategy = f.strategy
      BY <1>12
    <3>2. IsBuy(F, lots[i].fill, lots[i].strategy)
      BY <1>2 DEF LotsOf
    <3>3. IsBuy(G, new[k].buy, f.strategy)
      BY <1>8, <3>1, <3>2, GrownBuys
    <3>4. n + 1 \in 1 .. Len(G) /\ new[k].sell = f.id
      BY <1>8, <1>12
    <3> QED BY <1>8, <2>2, <3>3, <3>4 DEF MatchOf
  <2>3. CASE f.corp
    BY <1>3, <2>1, <2>3 DEF MatchesOf
  <2>4. CASE ~ f.corp
    <3> SUFFICES ASSUME NEW k \in 1 .. Len(total) PROVE MatchOf(G, total[k])
      BY DEF MatchesOf
    <3>1. PICK m \in Nat, z \in Nat : m = Len(matches) /\ z = Len(new)
      BY <1>2, <1>12, Rows
    <3>2. total = matches \o new
      BY <1>3, <2>4
    <3>3. Len(total) = m + z
          /\ \A i \in 1 .. m + z : total[i] = IF i <= m THEN matches[i] ELSE new[i - m]
      BY <1>2, <1>12, <3>1, <3>2, ConcatProperties
    <3>4. CASE k <= m
      <4>1. k \in 1 .. m
        BY <3>1, <3>4
      <4> QED BY <2>1, <3>1, <3>3, <3>4, <4>1
    <3>5. CASE k > m
      <4>1. k - m \in 1 .. z /\ total[k] = new[k - m]
        BY <3>1, <3>3, <3>5
      <4> QED BY <2>2, <2>4, <3>1, <4>1
    <3> QED BY <3>1, <3>3, <3>4, <3>5
  <2> QED BY <2>3, <2>4
<1>19. BoughtOnce(G, M, total)
  <2> SUFFICES ASSUME NEW j \in 1 .. Len(G), G[j].side = "BUY"
               PROVE  Weight(Shares({G[j].id} \X Buckets), M)
                        + Weight(ClosedOf(G[j].id), total) <= G[j].qty
    BY DEF BoughtOnce
  <2>1. j \in 1 .. n
    BY <1>7, <1>8
  <2>2. PICK x : x = F[j].id
    OBVIOUS
  <2>3. Weight(Shares({x} \X Buckets), lots) + Weight(ClosedOf(x), matches) <= F[j].qty
    BY <1>2, <1>7, <1>8, <2>1, <2>2 DEF BoughtOnce
  <2>4. PICK y \in Int, t \in Nat, c \in Int :
          /\ y = Weight(Shares({x} \X Buckets), M) /\ t = TakenOf({x} \X Buckets, lots, f)
          /\ c = Weight(ClosedOf(x), matches)
    BY <1>11, <1>14
  <2>5. /\ Weight(Shares({x} \X Buckets), lots) = y + t
        /\ Weight(ClosedOf(x), total) = c + (IF f.corp THEN 0 ELSE t)
    BY <1>11, <1>14, <2>4
  <2>6. F[j].qty \in Nat
    BY <1>8, <2>1 DEF FillRows
  <2>7. y + (c + (IF f.corp THEN 0 ELSE t)) <= F[j].qty
    <3>1. (y + t) + c <= F[j].qty
      BY <2>3, <2>4, <2>5
    <3>2. PICK q \in Nat : q = F[j].qty
      BY <2>6
    <3>3. CASE f.corp
      BY <2>4, <3>1, <3>2, <3>3
    <3>4. CASE ~ f.corp
      BY <2>4, <3>1, <3>2, <3>4
    <3> QED BY <3>3, <3>4
  <2> QED BY <1>8, <2>1, <2>2, <2>4, <2>5, <2>7
<1>20. SoldOnce(G, total)
  <2> SUFFICES ASSUME NEW j \in 1 .. Len(G), G[j].side = "SELL", ~ G[j].corp
               PROVE  Weight(SoldOf(G[j].id), total) = G[j].qty
    BY DEF SoldOnce
  <2>1. CASE j \in 1 .. n
    <3>1. PICK x : x = F[j].id /\ x # f.id
      BY <1>7, <2>1
    <3>2. Weight(SoldOf(x), matches) = F[j].qty
      BY <1>2, <1>7, <1>8, <2>1, <3>1 DEF SoldOnce
    <3>3. Weight(SoldOf(x), total) = Weight(SoldOf(x), matches)
      BY <1>14, <3>1
    <3> QED BY <1>8, <2>1, <3>1, <3>2, <3>3
  <2>2. CASE j = n + 1
    <3>1. PICK x : x = f.id
      OBVIOUS
    <3>2. Weight(SoldOf(x), matches) = 0
      BY <1>2, <3>1, FreshFill
    <3>3. f.qty \in Nat /\ ~ f.corp
      BY <1>8, <2>2 DEF FillRows
    <3>4. Weight(SoldOf(x), total) = f.qty
      BY <1>14, <3>1, <3>2, <3>3
    <3> QED BY <1>8, <2>2, <3>1, <3>4
  <2> QED BY <1>7, <1>8, <2>1, <2>2
<1>21. BooksOf(G, after)
  BY <1>5, <1>15, <1>16, <1>17, <1>18, <1>19, <1>20 DEF BooksOf
<1> QED BY <1>4, <1>6, <1>21

\* Books and facts agree after a fill with a number of its own.
LEMMA ApplyFillKeeps ==
  ASSUME NEW F \in Seq(FillRows), NEW b \in BooksType, NEW f \in FillRows,
         \A j \in 1 .. Len(F) : F[j].id # f.id, BooksOf(F, b), ApplyFill(b, f).ok
  PROVE  BooksOf(Append(F, f), ApplyFill(b, f))
<1>1. f.side = "BUY" \/ f.side = "SELL"
  BY DEF FillRows
<1> QED BY <1>1, BuyKeeps, SellKeeps

-----------------------------------------------------------------------------
(* Corporate actions. *)

\* A part of a number of shares, rounded down.
LEMMA PartOf ==
  ASSUME NEW q \in Nat, NEW n \in Nat, NEW d \in Nat \ {0}
  PROVE  (q * n) \div d \in Nat /\ (n <= d => (q * n) \div d <= q)
<1>1. PICK x, m : x = q * n /\ m = x \div d
  OBVIOUS
<1>2. x \in Nat
  BY <1>1
<1>3. m \in Int /\ d * m <= x /\ x < d * (m + 1)
  BY <1>1, <1>2
<1>4. m >= 0
  BY <1>2, <1>3
<1>5. ASSUME n <= d PROVE m <= q
  <2>1. q * n <= q * d
    BY <1>5
  <2>2. d * m <= q * d
    BY <1>1, <1>2, <1>3, <2>1
  <2>3. CASE m > q
    <3>1. PICK e \in Nat : m = q + 1 + e
      BY <1>3, <2>3
    <3>2. d * m = q * d + d + d * e
      BY <3>1
    <3>3. d * e \in Nat /\ q * d \in Nat
      BY <3>1
    <3> QED BY <2>2, <3>2, <3>3
  <2> QED BY <1>3, <2>3
<1> QED BY <1>1, <1>3, <1>4, <1>5

\* What the kinds of actions have.
LEMMA ActionFacts ==
  ASSUME NEW a \in CorpActions
  PROVE  /\ a.type \in {"CASH_DIVIDEND", "STOCK_DIVIDEND", "SPLIT", "CAPITAL_REDUCTION"}
         /\ a.id \in Int /\ a.ex \in Nat /\ a.ex > 0 /\ a.cps \in Nat
         /\ a.num \in Nat /\ a.den \in Nat \ {0}
         /\ Factor(a)[1] \in Nat /\ Factor(a)[2] \in Nat \ {0}
         /\ a.type # "CASH_DIVIDEND" => Factor(a)[1] # 0
         /\ a.type \in {"STOCK_DIVIDEND", "SPLIT"} => Factor(a)[1] - Factor(a)[2] \in Nat
         /\ a.type = "CAPITAL_REDUCTION" => a.num <= a.den
<1>1. a \in ActionRows /\ (a.type = "SPLIT" => a.num >= a.den)
      /\ (a.type = "CAPITAL_REDUCTION" => 1 <= a.num /\ a.num <= a.den)
  BY ActionAssumption
<1>2. /\ a.type \in {"CASH_DIVIDEND", "STOCK_DIVIDEND", "SPLIT", "CAPITAL_REDUCTION"}
      /\ a.id \in Int /\ a.ex \in Nat /\ a.ex > 0 /\ a.cps \in Nat
      /\ a.num \in Nat /\ a.den \in Nat \ {0}
  BY <1>1 DEF ActionRows
<1>3. PICK n \in Nat, d \in Nat \ {0} : n = a.num /\ d = a.den
  BY <1>2
<1>4. CASE a.type = "STOCK_DIVIDEND"
  <2>1. Factor(a)[1] = n + d /\ Factor(a)[2] = d
    BY <1>3, <1>4 DEF Factor
  <2> QED BY <1>2, <1>3, <1>4, <2>1
<1>5. CASE a.type # "STOCK_DIVIDEND"
  <2>1. Factor(a)[1] = n /\ Factor(a)[2] = d
    BY <1>3, <1>5 DEF Factor
  <2> QED BY <1>1, <1>2, <1>3, <1>5, <2>1
<1> QED BY <1>4, <1>5

\* An action leaves a price.
LEMMA PriceType == \A a \in CorpActions, p \in Int : AdjustedPrice(a, p) \in Int
<1> SUFFICES ASSUME NEW a \in CorpActions, NEW p \in Int PROVE AdjustedPrice(a, p) \in Int
  OBVIOUS
<1>1. CASE a.type = "CASH_DIVIDEND"
  BY <1>1, ActionFacts DEF AdjustedPrice
<1>2. CASE a.type # "CASH_DIVIDEND"
  <2>1. PICK m \in Nat \ {0}, d \in Nat : m = Factor(a)[1] /\ d = Factor(a)[2]
    BY <1>2, ActionFacts
  <2>2. PICK x \in Int : x = p * d
    BY <2>1
  <2>3. x \div m \in Int
    BY <2>1, <2>2
  <2> QED BY <1>2, <2>1, <2>2, <2>3 DEF AdjustedPrice
<1> QED BY <1>1, <1>2

\* The bonus of a lot is a number of shares.
LEMMA BonusType ==
  ASSUME NEW a \in CorpActions, a.type \in {"STOCK_DIVIDEND", "SPLIT"}, NEW q \in Nat
  PROVE  Bonus(a, q) \in Nat
<1>1. PICK n \in Nat, d \in Nat \ {0} : n = Factor(a)[1] - Factor(a)[2] /\ d = Factor(a)[2]
  BY ActionFacts
<1> QED BY <1>1, PartOf DEF Bonus

\* What a reduction cancels of a lot is a part of its shares.
LEMMA CancelledType ==
  ASSUME NEW a \in CorpActions, a.type = "CAPITAL_REDUCTION", NEW q \in Nat
  PROVE  Cancelled(a, q) \in 0 .. q
<1>1. PICK n \in Nat, d \in Nat \ {0} : n = a.num /\ d = a.den /\ n <= d
  BY ActionFacts
<1>2. PICK m : m = (q * n) \div d
  OBVIOUS
<1>3. m \in Nat /\ m <= q
  BY <1>1, <1>2, PartOf
<1> QED BY <1>1, <1>2, <1>3 DEF Cancelled

\* The rows of M are those of lots, each with another price.
Repriced(M, lots) ==
  /\ M \in Seq(LotRows) /\ Len(M) = Len(lots)
  /\ \A i \in 1 .. Len(lots) : /\ M[i].fill = lots[i].fill /\ M[i].strategy = lots[i].strategy
                               /\ M[i].qty = lots[i].qty /\ M[i].at = lots[i].at
                               /\ M[i].lt = lots[i].lt

\* New prices leave the shares of the lots as they are.
LEMMA RepriceRows ==
  ASSUME NEW a \in CorpActions, NEW lots \in Seq(LotRows)
  PROVE  Repriced(Reprice(a, lots), lots)
<1>1. PICK n \in Nat : n = Len(lots) /\ DOMAIN lots = 1 .. n /\ \A i \in 1 .. n : lots[i] \in LotRows
  BY Rows
<1>2. PICK M : M = Reprice(a, lots)
  OBVIOUS
<1>3. ASSUME NEW i \in 1 .. n
      PROVE  /\ M[i] \in LotRows /\ M[i].fill = lots[i].fill
             /\ M[i].strategy = lots[i].strategy /\ M[i].qty = lots[i].qty
             /\ M[i].at = lots[i].at /\ M[i].lt = lots[i].lt
  <2>1. PICK l \in LotRows : l = lots[i]
    BY <1>1
  <2>2. PICK p \in Int : p = AdjustedPrice(a, l.price)
    BY PriceType DEF LotRows
  <2>3. M[i] = [ l EXCEPT !.price = p ]
    BY <1>1, <1>2, <2>1, <2>2 DEF Reprice
  <2> QED BY <2>1, <2>2, <2>3 DEF LotRows
<1>4. M \in [1 .. n -> LotRows]
  <2>1. M = [ i \in 1 .. n |-> M[i] ]
    BY <1>1, <1>2 DEF Reprice
  <2> QED BY <1>3, <2>1
<1>5. M \in Seq(LotRows) /\ Len(M) = n
  BY <1>1, <1>4, FcnSeq
<1> QED BY <1>1, <1>2, <1>3, <1>5 DEF Repriced

\* Prices do not change shares.
LEMMA RepricedShares ==
  ASSUME NEW lots \in Seq(LotRows), NEW M, Repriced(M, lots), NEW P
  PROVE  Weight(Shares(P), M) = Weight(Shares(P), lots)
<1>1. PICK n \in Nat : n = Len(lots) /\ DOMAIN lots = 1 .. n /\ \A i \in 1 .. n : lots[i] \in LotRows
  BY Rows
<1>2. /\ M \in Seq(LotRows) /\ DOMAIN M = 1 .. n
      /\ \A i \in 1 .. n : /\ M[i] \in LotRows /\ M[i].fill = lots[i].fill
                           /\ M[i].strategy = lots[i].strategy /\ M[i].qty = lots[i].qty
  BY <1>1, Rows DEF Repriced
<1>3. \A i \in 1 .. n : Shares(P)[M[i]] = Shares(P)[lots[i]]
  BY <1>1, <1>2 DEF Shares
<1>4. Weights(Shares(P), M) = Weights(Shares(P), lots)
  BY <1>1, <1>2, <1>3 DEF Weights
<1> QED BY <1>4 DEF Weight

\* Neither do they change whether books and facts agree.
LEMMA RepriceKeeps ==
  ASSUME NEW a \in CorpActions, NEW b \in BooksType
  PROVE  LET c == ReplayAction(b, a)
         IN /\ c \in BooksType /\ c.ok = b.ok /\ c.cash = b.cash /\ c.flows = b.flows
            /\ \A F \in Seq(FillRows) : BooksOf(F, b) => BooksOf(F, c)
<1>1. PICK lots : lots = b.lots
  OBVIOUS
<1>2. lots \in Seq(LotRows)
  BY <1>1 DEF BooksType
<1>3. PICK M : M = Reprice(a, lots)
  OBVIOUS
<1>4. Repriced(M, lots)
  BY <1>2, <1>3, RepriceRows
<1>5. M \in Seq(LotRows)
  BY <1>4 DEF Repriced
<1>6. PICK c : c = ReplayAction(b, a)
  OBVIOUS
<1>7. c = [ b EXCEPT !.lots = M ]
  BY <1>1, <1>3, <1>6 DEF ReplayAction
<1>8. /\ c \in BooksType /\ c.ok = b.ok /\ c.cash = b.cash /\ c.flows = b.flows
      /\ c.lots = M /\ c.matches = b.matches
  BY <1>5, <1>7 DEF BooksType
<1>9. ASSUME NEW F \in Seq(FillRows), BooksOf(F, b) PROVE BooksOf(F, c)
  <2>1. \A P : Weight(Shares(P), M) = Weight(Shares(P), lots)
    BY <1>2, <1>4, RepricedShares
  <2>2. BalanceOf(F, M)
    BY <1>1, <1>9, <2>1 DEF BooksOf, BalanceOf
  <2>3. LotsOf(F, M)
    BY <1>1, <1>4, <1>9 DEF BooksOf, LotsOf, Repriced
  <2>4. BoughtOnce(F, M, b.matches)
    BY <1>1, <1>9, <2>1 DEF BooksOf, BoughtOnce
  <2> QED BY <1>8, <1>9, <2>2, <2>3, <2>4 DEF BooksOf
<1> QED BY <1>6, <1>8, <1>9

\* The prices of a rebuild, one action after the other.
LEMMA ReplayActionsKeep ==
  ASSUME NEW acts \in Seq(CorpActions), NEW b \in BooksType
  PROVE  LET c == ReplayActions(b, acts)
         IN /\ c \in BooksType /\ c.ok = b.ok /\ c.cash = b.cash /\ c.flows = b.flows
            /\ \A F \in Seq(FillRows) : BooksOf(F, b) => BooksOf(F, c)
<1>a. \A a \in CorpActions, x \in BooksType :
        /\ ReplayAction(x, a) \in BooksType /\ ReplayAction(x, a).ok = x.ok
        /\ ReplayAction(x, a).cash = x.cash /\ ReplayAction(x, a).flows = x.flows
        /\ \A F \in Seq(FillRows) : BooksOf(F, x) => BooksOf(F, ReplayAction(x, a))
  BY RepriceKeeps
<1> DEFINE n == Len(acts)
           done[i \in 0 .. Len(acts)] ==
             IF i = 0 THEN b ELSE ReplayAction(done[i - 1], acts[i])
           step == [ i \in 1 .. n |-> [ x \in BooksType |-> ReplayAction(x, acts[i]) ] ]
<1>1. n \in Nat /\ \A i \in 1 .. n : acts[i] \in CorpActions
  BY Rows
<1>2. \E g : Runs(g, n, BooksType, b, step)
  <2>1. step \in [1 .. n -> [BooksType -> BooksType]]
    BY <1>a, <1>1
  <2> HIDE DEF step, n
  <2> QED BY <1>1, <2>1, Recursion
<1>3. PICK g : Runs(g, n, BooksType, b, step)
  BY <1>2
<1>4. g \in [0 .. n -> BooksType] /\ g[0] = b /\ \A i \in 1 .. n : g[i] = step[i][g[i - 1]]
  BY <1>3 DEF Runs
<1>5. ASSUME NEW i \in 1 .. n PROVE g[i] = ReplayAction(g[i - 1], acts[i])
  <2>1. i - 1 \in 0 .. n
    BY <1>1
  <2>2. g[i - 1] \in BooksType
    BY <1>4, <2>1
  <2>3. step[i][g[i - 1]] = ReplayAction(g[i - 1], acts[i])
    BY <2>2
  <2> QED BY <1>4, <2>3
<1>6. g = [ i \in 0 .. n |-> IF i = 0 THEN b ELSE ReplayAction(g[i - 1], acts[i]) ]
  <2>1. \A i \in 0 .. n : i = 0 \/ (i \in 1 .. n /\ i # 0)
    BY <1>1
  <2>2. g[0] = b /\ g = [ i \in 0 .. n |-> g[i] ]
    BY <1>4
  <2> HIDE DEF n, step
  <2>3. \A i \in 0 .. n : g[i] = IF i = 0 THEN b ELSE ReplayAction(g[i - 1], acts[i])
    BY <1>5, <2>1, <2>2
  <2> QED BY <2>2, <2>3
<1>7. done = [ i \in 0 .. n |-> IF i = 0 THEN b ELSE ReplayAction(done[i - 1], acts[i]) ]
  BY <1>6
<1>8. ReplayActions(b, acts) = done[n]
  BY DEF ReplayActions
<1> HIDE DEF done, n, step
<1>9. done[0] = b
  BY <1>1, <1>7
<1>10. ASSUME NEW i \in 1 .. n PROVE done[i] = ReplayAction(done[i - 1], acts[i])
  <2>1. i \in 0 .. n /\ i # 0
    BY <1>1
  <2> QED BY <1>7, <2>1
<1> DEFINE kept(c) == /\ c \in BooksType /\ c.ok = b.ok /\ c.cash = b.cash /\ c.flows = b.flows
                      /\ \A F \in Seq(FillRows) : BooksOf(F, b) => BooksOf(F, c)
           U == { i \in 0 .. n : kept(done[i]) }
<1>11. 0 \in U
  BY <1>1, <1>9
<1>12. ASSUME NEW i \in 1 .. n, i - 1 \in U PROVE i \in U
  <2>1. i \in 0 .. n /\ acts[i] \in CorpActions
    BY <1>1
  <2>2. PICK x : x = done[i - 1]
    OBVIOUS
  <2>3. kept(x)
    BY <1>12, <2>2
  <2>4. done[i] = ReplayAction(x, acts[i])
    BY <1>10, <2>2
  <2>5. kept(done[i])
    BY <1>a, <2>1, <2>3, <2>4
  <2> QED BY <2>1, <2>5
<1>13. 0 .. n \subseteq U
  <2> HIDE DEF U
  <2> QED BY <1>1, <1>11, <1>12, Upwards
<1>14. n \in 0 .. n
  BY <1>1
<1> QED BY <1>8, <1>13, <1>14

\* The rows of two sequences, one after the other.
LEMMA Joining ==
  ASSUME NEW S, NEW s \in Seq(S), NEW t \in Seq(S), NEW m, NEW n, m = Len(s), n = Len(t)
  PROVE  /\ s \o t \in Seq(S) /\ Len(s \o t) = m + n
         /\ \A i \in 1 .. m + n : (s \o t)[i] = IF i <= m THEN s[i] ELSE t[i - m]
BY ConcatProperties

\* A synthetic fill moves no cash.
LEMMA SyntheticType ==
  ASSUME NEW a \in CorpActions, NEW lot \in LotRows, NEW id \in Nat,
         NEW side \in {"BUY", "SELL"}, NEW qty \in Nat
  PROVE  LET f == SyntheticFill(a, lot, id, side, qty)
         IN /\ f \in FillRows /\ f.id = id /\ f.side = side /\ f.qty = qty
            /\ f.strategy = lot.strategy /\ f.lt = lot.lt /\ f.corp
            /\ f.at = StartOf(a.ex) /\ Flow(f) = 0
<1>1. PICK p \in Int : p = AdjustedPrice(a, lot.price)
  BY PriceType DEF LotRows
<1>2. PICK t \in Nat : t = StartOf(a.ex)
  BY ActionFacts DEF StartOf
<1>3. lot.strategy \in Buckets /\ lot.lt \in BOOLEAN
  BY DEF LotRows
<1>4. PICK f : f = SyntheticFill(a, lot, id, side, qty)
  OBVIOUS
<1>5. f = [ id |-> id, side |-> side, strategy |-> lot.strategy, qty |-> qty, price |-> p,
            at |-> t, lt |-> lot.lt, corp |-> TRUE, urgent |-> FALSE ]
  BY <1>1, <1>2, <1>4 DEF SyntheticFill
<1>6. f \in FillRows
  BY <1>3, <1>5 DEF FillRows
<1>7. Flow(f) = 0
  BY <1>5 DEF Flow
<1> QED BY <1>2, <1>4, <1>5, <1>6, <1>7

\* G has, after the rows of F, some that a corporate action wrote.
LEMMA SyntheticKeep ==
  ASSUME NEW F \in Seq(FillRows), NEW synth \in Seq(FillRows), NEW b \in BooksType,
         NEW M \in Seq(LotRows), BooksOf(F, b),
         \A k \in 1 .. Len(synth) : synth[k].corp /\ Flow(synth[k]) = 0
  PROVE  /\ F \o synth \in Seq(FillRows) /\ Grown(F, F \o synth)
         /\ b.flows = Weight(Flows, F \o synth)
         /\ MatchesOf(F \o synth, b.matches) /\ SoldOnce(F \o synth, b.matches)
<1>1. PICK n \in Nat, z \in Nat : n = Len(F) /\ z = Len(synth)
  BY Rows
<1>2. PICK G : G = F \o synth
  OBVIOUS
<1>3. /\ G \in Seq(FillRows) /\ Len(G) = n + z
      /\ \A i \in 1 .. n + z : G[i] = IF i <= n THEN F[i] ELSE synth[i - n]
  BY <1>1, <1>2, ConcatProperties
<1>4. Grown(F, G)
  BY <1>1, <1>3 DEF Grown
<1>5. b.matches \in Seq(MatchRows) /\ b.flows \in Int /\ b.flows = Weight(Flows, F)
      /\ MatchesOf(F, b.matches) /\ SoldOnce(F, b.matches)
  BY DEF BooksOf, BooksType
<1>6. b.flows = Weight(Flows, G)
  <2>1. \A k \in 1 .. z : Flows[synth[k]] = 0
    BY <1>1, Rows DEF Flows
  <2>2. Weight(Flows, synth) = 0
    BY <1>1, <2>1, WeightTypes, WeightZero
  <2>3. Weight(Flows, G) = Weight(Flows, F) + Weight(Flows, synth)
    BY <1>2, FillSums
  <2> QED BY <1>5, <2>2, <2>3
<1>7. MatchesOf(G, b.matches)
  BY <1>3, <1>4, <1>5, GrownBuys DEF MatchesOf
<1>8. SoldOnce(G, b.matches)
  <2> SUFFICES ASSUME NEW j \in 1 .. Len(G), G[j].side = "SELL", ~ G[j].corp
               PROVE  Weight(SoldOf(G[j].id), b.matches) = G[j].qty
    BY DEF SoldOnce
  <2>1. j <= n
    <3>1. CASE j > n
      <4>1. j - n \in 1 .. z /\ G[j] = synth[j - n]
        BY <1>1, <1>3, <3>1
      <4> QED BY <1>1, <4>1
    <3> QED BY <1>1, <1>3, <3>1
  <2>2. j \in 1 .. n /\ G[j] = F[j]
    BY <1>1, <1>3, <2>1
  <2> QED BY <1>1, <1>5, <2>2 DEF SoldOnce
<1> QED BY <1>2, <1>3, <1>4, <1>6, <1>7, <1>8

\* The fills synth and the lots M of an action agree with the facts F.
Synthesized(F, b, a, next, synth, M) ==
  /\ synth \in Seq(FillRows)
  /\ \A k \in 1 .. Len(synth) : /\ synth[k].id = next + k - 1 /\ synth[k].corp
                                /\ synth[k].at = StartOf(a.ex) /\ Flow(synth[k]) = 0
  /\ M \in Seq(LotRows)
  /\ BalanceOf(F \o synth, M) /\ LotsOf(F \o synth, M)
  /\ BoughtOnce(F \o synth, M, b.matches)

\* A stock dividend or a split: fills and lots of the same shares.
LEMMA BonusKeeps ==
  ASSUME NEW F \in Seq(FillRows), NEW b \in BooksType, NEW a \in CorpActions,
         a.type \in {"STOCK_DIVIDEND", "SPLIT"}, NEW next \in Nat, NEW now \in Nat,
         \A j \in 1 .. Len(F) : F[j].id < next, BooksOf(F, b)
  PROVE  Synthesized(F, b, a, next, BonusFills(a, b.lots, next),
                     WithBonus(a, b.lots, next, now))
<1>1. PICK lots, matches : lots = b.lots /\ matches = b.matches
  OBVIOUS
<1>2. lots \in Seq(LotRows) /\ matches \in Seq(MatchRows) /\ BalanceOf(F, lots)
      /\ LotsOf(F, lots) /\ MatchesOf(F, matches) /\ BoughtOnce(F, lots, matches)
  BY <1>1 DEF BooksOf, BooksType
<1>3. PICK n \in Nat, z \in Nat : n = Len(F) /\ z = Len(lots)
  BY <1>2, Rows
<1>4. DOMAIN lots = 1 .. z /\ \A i \in 1 .. z : lots[i] \in LotRows
  BY <1>2, <1>3, Rows
<1>5. PICK synth, old, new, M : /\ synth = BonusFills(a, lots, next) /\ old = Reprice(a, lots)
                                /\ new = [ i \in DOMAIN synth |-> [ LotOf(synth[i]) EXCEPT !.at = now ] ]
                                /\ M = old \o new
  OBVIOUS
<1>6. M = WithBonus(a, lots, next, now)
  BY <1>5 DEF WithBonus
<1>7. synth = [ i \in 1 .. z |-> SyntheticFill(a, lots[i], next + i - 1, "BUY",
                                               Bonus(a, lots[i].qty)) ]
  BY <1>4, <1>5 DEF BonusFills
<1>8. ASSUME NEW i \in 1 .. z
      PROVE  /\ synth[i] \in FillRows /\ synth[i].id = next + i - 1 /\ synth[i].side = "BUY"
             /\ synth[i].corp /\ synth[i].at = StartOf(a.ex) /\ Flow(synth[i]) = 0
  <2>1. PICK l \in LotRows : l = lots[i]
    BY <1>4
  <2>2. PICK q \in Nat : q = Bonus(a, l.qty)
    BY BonusType DEF LotRows
  <2>3. PICK x \in Nat : x = next + i - 1
    OBVIOUS
  <2>4. synth[i] = SyntheticFill(a, l, x, "BUY", q)
    BY <1>7, <2>1, <2>2, <2>3
  <2> QED BY <2>3, <2>4, SyntheticType
<1>9. synth \in [1 .. z -> FillRows]
  BY <1>7, <1>8
<1>10. synth \in Seq(FillRows) /\ Len(synth) = z /\ DOMAIN synth = 1 .. z
  BY <1>9, FcnSeq
<1>11. ASSUME NEW i \in 1 .. z
       PROVE  /\ new[i] \in LotRows /\ new[i].fill = synth[i].id
              /\ new[i].strategy = synth[i].strategy /\ new[i].qty = synth[i].qty
  <2>1. PICK f \in FillRows : f = synth[i]
    BY <1>8
  <2>2. new[i] = [ LotOf(f) EXCEPT !.at = now ]
    BY <1>5, <1>10, <2>1
  <2>3. LotOf(f) \in LotRows
    BY LotType
  <2> QED BY <2>1, <2>2, <2>3 DEF LotRows, LotOf
<1>12. new \in [1 .. z -> LotRows]
  BY <1>5, <1>10, <1>11
<1>13. new \in Seq(LotRows) /\ Len(new) = z /\ DOMAIN new = 1 .. z
  BY <1>12, FcnSeq
<1>14. Repriced(old, lots)
  BY <1>2, <1>5, RepriceRows
<1>15. old \in Seq(LotRows) /\ Len(old) = z
       /\ \A i \in 1 .. z : old[i].fill = lots[i].fill /\ old[i].strategy = lots[i].strategy
  BY <1>3, <1>14 DEF Repriced
<1>b. PICK y \in Nat : y = z /\ y = Len(new)
  BY <1>3, <1>13
<1>16. M \in Seq(LotRows) /\ Len(M) = z + y
       /\ \A i \in 1 .. z + y : M[i] = IF i <= z THEN old[i] ELSE new[i - z]
  <2>1. z = Len(old) /\ old \in Seq(LotRows) /\ new \in Seq(LotRows)
    BY <1>13, <1>15
  <2>2. PICK t \in Seq(LotRows) : t = new /\ y = Len(t)
    BY <1>b, <2>1
  <2>3. /\ old \o t \in Seq(LotRows) /\ Len(old \o t) = z + y
        /\ \A i \in 1 .. z + y : (old \o t)[i] = IF i <= z THEN old[i] ELSE t[i - z]
    BY <2>1, <2>2, Joining
  <2> QED BY <1>5, <2>2, <2>3
<1>17. PICK G : G = F \o synth
  OBVIOUS
<1>18. /\ G \in Seq(FillRows) /\ Len(G) = n + z
       /\ \A i \in 1 .. n + z : G[i] = IF i <= n THEN F[i] ELSE synth[i - n]
  BY <1>3, <1>10, <1>17, ConcatProperties
<1>19. Grown(F, G)
  BY <1>3, <1>18 DEF Grown
<1>20. \A i \in 1 .. z : n + i \in 1 .. n + z /\ G[n + i] = synth[i]
  BY <1>3, <1>18
<1>21. \A P : Weight(Shares(P), M) = Weight(Shares(P), lots) + Weight(Shares(P), new)
  <2>1. \A P : Weight(Shares(P), old) = Weight(Shares(P), lots)
    BY <1>2, <1>14, RepricedShares
  <2>2. \A P : Weight(Shares(P), M) = Weight(Shares(P), old) + Weight(Shares(P), new)
    BY <1>5, <1>13, <1>15, LotSums
  <2> QED BY <2>1, <2>2
<1>22. BalanceOf(G, M)
  <2> SUFFICES ASSUME NEW S \in SUBSET Buckets
               PROVE  Weight(Bought(S), G) = Weight(Shares(Nat \X S), M)
    BY DEF BalanceOf
  <2>1. Weight(Bought(S), G) = Weight(Bought(S), F) + Weight(Bought(S), synth)
    BY <1>10, <1>17, FillSums
  <2>2. Weight(Bought(S), F) = Weight(Shares(Nat \X S), lots)
    BY <1>2 DEF BalanceOf
  <2>3. ASSUME NEW i \in 1 .. z PROVE Bought(S)[synth[i]] = Shares(Nat \X S)[new[i]]
    BY <1>8, <1>11 DEF Bought, Shares, Signed, LotRows
  <2>4. Weights(Bought(S), synth) = Weights(Shares(Nat \X S), new)
    BY <1>10, <1>13, <2>3 DEF Weights
  <2>5. Weight(Bought(S), synth) = Weight(Shares(Nat \X S), new)
    BY <2>4 DEF Weight
  <2> QED BY <1>21, <2>1, <2>2, <2>5
<1>23. LotsOf(G, M)
  <2> SUFFICES ASSUME NEW i \in 1 .. Len(M) PROVE IsBuy(G, M[i].fill, M[i].strategy)
    BY DEF LotsOf
  <2>1. CASE i <= z
    <3>1. i \in 1 .. z /\ M[i].fill = lots[i].fill /\ M[i].strategy = lots[i].strategy
      BY <1>15, <1>16, <2>1
    <3>2. IsBuy(F, lots[i].fill, lots[i].strategy)
      BY <1>2, <1>3, <3>1 DEF LotsOf
    <3> QED BY <1>18, <1>19, <3>1, <3>2, GrownBuys
  <2>2. CASE i > z
    <3>a. i \in 1 .. z + y /\ z \in Nat /\ y = z
      BY <1>3, <1>b, <1>16
    <3>1. PICK k \in 1 .. z : k = i - z
      BY <2>2, <3>a
    <3>2. M[i] = new[k]
      BY <1>16, <2>2, <3>1
    <3>3. PICK j \in 1 .. Len(G) : j = n + k /\ G[j] = synth[k]
      BY <1>18, <1>20
    <3>4. G[j].id = M[i].fill /\ G[j].side = "BUY" /\ G[j].strategy = M[i].strategy
      BY <1>8, <1>11, <3>2, <3>3
    <3> QED BY <3>4 DEF IsBuy
  <2> QED BY <1>3, <1>b, <1>16, <2>1, <2>2
<1>24. BoughtOnce(G, M, matches)
  <2> SUFFICES ASSUME NEW j \in 1 .. Len(G), G[j].side = "BUY"
               PROVE  Weight(Shares({G[j].id} \X Buckets), M)
                        + Weight(ClosedOf(G[j].id), matches) <= G[j].qty
    BY DEF BoughtOnce
  <2>1. PICK x, P : x = G[j].id /\ P = {x} \X Buckets
    OBVIOUS
  <2>2. PICK c \in Int, e \in Int : c = Weight(ClosedOf(x), matches) /\ e = Weight(Shares(P), lots)
    BY <1>2, LotSums, MatchSums
  <2>3. CASE j <= n
    <3>1. j \in 1 .. n /\ G[j] = F[j]
      BY <1>18, <2>3
    <3>2. x \in Nat /\ x < next
      BY <1>3, <2>1, <3>1, Rows DEF FillRows
    <3>3. \A i \in 1 .. z : new[i].fill # x
      BY <1>8, <1>11, <3>2
    <3>4. \A i \in 1 .. z : Shares(P)[new[i]] = 0
      BY <1>11, <2>1, <3>3 DEF Shares
    <3>5. Weight(Shares(P), new) = 0
      BY <1>13, <3>4, WeightTypes, WeightZero
    <3>6. Weight(Shares(P), M) = e
      BY <1>21, <2>2, <3>5
    <3>7. Weight(Shares(P), lots) + Weight(ClosedOf(x), matches) <= F[j].qty
      BY <1>2, <1>3, <2>1, <3>1 DEF BoughtOnce
    <3> QED BY <2>1, <2>2, <3>1, <3>6, <3>7
  <2>4. CASE j > n
    <3>1. PICK k \in 1 .. z : k = j - n
      BY <1>18, <2>4
    <3>a. G[j] = synth[k]
      BY <1>18, <2>4, <3>1
    <3>2. G[j] = synth[k] /\ x = next + k - 1
      BY <1>8, <2>1, <3>a
    <3>3. \A i \in 1 .. Len(F) : F[i].id # x
      <4>1. \A i \in 1 .. Len(F) : F[i].id \in Nat /\ F[i].id < next
        BY Rows DEF FillRows
      <4> QED BY <3>2, <4>1
    <3>4. Weight(Shares(P), lots) = 0 /\ Weight(ClosedOf(x), matches) = 0
      BY <1>2, <2>1, <3>3, FreshFill
    <3>5. PICK w : w = Weights(Shares(P), new)
      OBVIOUS
    <3>6. w \in Seq(Int) /\ Len(w) = z
      <4>1. PICK v \in [LotRows -> Int] : v = Shares(P)
        BY WeightTypes
      <4> QED BY <1>13, <3>5, <4>1, WeightsType
    <3>7. \A i \in 1 .. z : w[i] = IF i = k THEN synth[k].qty ELSE 0
      <4> SUFFICES ASSUME NEW i \in 1 .. z PROVE w[i] = IF i = k THEN synth[k].qty ELSE 0
        OBVIOUS
      <4>1. w[i] = Shares(P)[new[i]]
        BY <1>13, <3>5 DEF Weights
      <4>2. new[i].fill = next + i - 1 /\ new[i].strategy \in Buckets
        BY <1>8, <1>11 DEF LotRows
      <4>3. new[i].fill = x <=> i = k
        BY <3>2, <4>2
      <4> QED BY <1>11, <2>1, <4>1, <4>2, <4>3 DEF Shares
    <3>8. Tally(w) = synth[k].qty
      BY <3>6, <3>7, TallySingle
    <3>9. Weight(Shares(P), M) = 0 + synth[k].qty
      BY <1>21, <3>4, <3>5, <3>8 DEF Weight
    <3>10. synth[k].qty \in Nat
      BY <1>8 DEF FillRows
    <3>11. (0 + synth[k].qty) + 0 <= synth[k].qty
      BY <3>10
    <3> QED BY <2>1, <3>2, <3>4, <3>9, <3>11
  <2> QED BY <1>3, <1>18, <2>3, <2>4
<1>25. Synthesized(F, b, a, next, synth, M)
  BY <1>1, <1>3, <1>8, <1>10, <1>16, <1>17, <1>22, <1>23, <1>24 DEF Synthesized
<1> QED BY <1>1, <1>5, <1>6, <1>25

\* A capital reduction: a SELL for each lot that loses shares.
LEMMA CancelKeeps ==
  ASSUME NEW F \in Seq(FillRows), NEW b \in BooksType, NEW a \in CorpActions,
         a.type = "CAPITAL_REDUCTION", NEW next \in Nat, next > 0,
         BooksOf(F, b)
  PROVE  Synthesized(F, b, a, next, CancelFills(a, b.lots, next), Reduced(a, b.lots))
<1>1. PICK lots, matches : lots = b.lots /\ matches = b.matches
  OBVIOUS
<1>2. lots \in Seq(LotRows) /\ matches \in Seq(MatchRows) /\ BalanceOf(F, lots)
      /\ LotsOf(F, lots) /\ BoughtOnce(F, lots, matches)
  BY <1>1 DEF BooksOf, BooksType
<1>3. PICK n \in Nat, z \in Nat : n = Len(F) /\ z = Len(lots)
  BY <1>2, Rows
<1>4. DOMAIN lots = 1 .. z /\ \A i \in 1 .. z : lots[i] \in LotRows
  BY <1>2, <1>3, Rows
<1>5. PICK lost : lost = [ i \in 1 .. z |-> Cancelled(a, lots[i].qty) ]
  OBVIOUS
<1>6. \A i \in 1 .. z : lots[i].qty \in Nat /\ lost[i] \in 0 .. lots[i].qty
  BY <1>4, <1>5, CancelledType DEF LotRows
<1>7. PICK C : C = { i \in DOMAIN lots : Cancelled(a, lots[i].qty) > 0 }
  OBVIOUS
<1>8. PICK cut, c : cut = Places(lots, C) /\ c = Len(cut)
  OBVIOUS
<1>9. c \in Nat /\ DOMAIN cut = 1 .. c /\ \A k \in 1 .. c : cut[k] \in 1 .. z
  <2>1. Lists(cut, z, C)
    BY <1>2, <1>3, <1>8, PlacesList
  <2> QED BY <1>8, <2>1, LenProperties DEF Lists
<1>10. PICK synth, M, old : /\ synth = CancelFills(a, lots, next) /\ M = Reduced(a, lots)
                            /\ old = Reprice(a, lots)
  OBVIOUS
<1>11. synth = [ k \in 1 .. c |-> SyntheticFill(a, lots[cut[k]], next + k - 1, "SELL",
                                                Cancelled(a, lots[cut[k]].qty)) ]
  BY <1>7, <1>8, <1>9, <1>10 DEF CancelFills
<1>12. ASSUME NEW k \in 1 .. c
       PROVE  /\ synth[k] \in FillRows /\ synth[k].id = next + k - 1 /\ synth[k].side = "SELL"
              /\ synth[k].corp /\ synth[k].at = StartOf(a.ex) /\ Flow(synth[k]) = 0
              /\ synth[k].strategy = lots[cut[k]].strategy /\ synth[k].qty = lost[cut[k]]
  <2>1. PICK i \in 1 .. z : i = cut[k]
    BY <1>9
  <2>2. PICK l \in LotRows : l = lots[i]
    BY <1>4
  <2>3. PICK q \in Nat : q = Cancelled(a, l.qty) /\ q = lost[i]
    BY <1>5, <1>6, <2>2
  <2>4. PICK x \in Nat : x = next + k - 1
    OBVIOUS
  <2>5. synth[k] = SyntheticFill(a, l, x, "SELL", q)
    BY <1>11, <2>1, <2>2, <2>3, <2>4
  <2>6. PICK f : f = SyntheticFill(a, l, x, "SELL", q)
    OBVIOUS
  <2>7. /\ f \in FillRows /\ f.id = x /\ f.side = "SELL" /\ f.qty = q
        /\ f.strategy = l.strategy /\ f.corp /\ f.at = StartOf(a.ex) /\ Flow(f) = 0
    <3>1. "SELL" \in {"BUY", "SELL"}
      OBVIOUS
    <3>2. \A y \in {"BUY", "SELL"} :
            LET g == SyntheticFill(a, l, x, y, q)
            IN /\ g \in FillRows /\ g.id = x /\ g.side = y /\ g.qty = q
               /\ g.strategy = l.strategy /\ g.corp /\ g.at = StartOf(a.ex) /\ Flow(g) = 0
      BY SyntheticType
    <3> QED BY <2>6, <3>1, <3>2
  <2> QED BY <2>1, <2>2, <2>3, <2>4, <2>5, <2>6, <2>7
<1>13. synth \in [1 .. c -> FillRows]
  BY <1>11, <1>12
<1>14. synth \in Seq(FillRows) /\ Len(synth) = c /\ DOMAIN synth = 1 .. c
  BY <1>9, <1>13, FcnSeq
<1>15. /\ old \in Seq(LotRows) /\ Len(old) = z /\ DOMAIN old = 1 .. z
       /\ \A i \in 1 .. z : /\ old[i] \in LotRows /\ old[i].fill = lots[i].fill
                            /\ old[i].strategy = lots[i].strategy /\ old[i].qty = lots[i].qty
  <2>1. Repriced(old, lots)
    BY <1>2, <1>10, RepriceRows
  <2>2. old \in Seq(LotRows) /\ Len(old) = z
    BY <1>3, <2>1 DEF Repriced
  <2> QED BY <1>3, <2>1, <2>2, Rows DEF Repriced
<1>16. M = [ i \in 1 .. z |-> [ old[i] EXCEPT !.qty = @ - Cancelled(a, @) ] ]
  BY <1>4, <1>10 DEF Reduced
<1>17. ASSUME NEW i \in 1 .. z
       PROVE  /\ M[i] \in LotRows /\ M[i].fill = lots[i].fill
              /\ M[i].strategy = lots[i].strategy /\ M[i].qty = lots[i].qty - lost[i]
  <2>1. PICK l \in LotRows : l = old[i]
    BY <1>15
  <2>2. PICK q : q = lost[i]
    OBVIOUS
  <2>3. q = Cancelled(a, l.qty)
    BY <1>5, <1>15, <2>1, <2>2
  <2>4. l.qty - q \in Nat
    <3>1. PICK e \in Nat : e = lots[i].qty
      BY <1>6
    <3>2. l.qty = e /\ q \in 0 .. e
      BY <1>6, <1>15, <2>1, <2>2, <3>1
    <3> QED BY <3>2
  <2>5. M[i] = [ l EXCEPT !.qty = l.qty - q ]
    BY <1>16, <2>1, <2>3
  <2> QED BY <1>15, <2>1, <2>2, <2>4, <2>5 DEF LotRows
<1>18. M \in [1 .. z -> LotRows]
  BY <1>16, <1>17
<1>19. M \in Seq(LotRows) /\ Len(M) = z /\ DOMAIN M = 1 .. z
  BY <1>18, FcnSeq
<1>20. PICK G : G = F \o synth
  OBVIOUS
<1>21. /\ G \in Seq(FillRows) /\ Len(G) = n + c
       /\ \A i \in 1 .. n + c : G[i] = IF i <= n THEN F[i] ELSE synth[i - n]
  BY <1>3, <1>14, <1>20, Joining
<1>22. Grown(F, G)
  BY <1>3, <1>9, <1>21 DEF Grown
<1>23. ASSUME NEW P
       PROVE  \E u \in Seq(Int) :
                /\ Len(u) = z
                /\ \A i \in 1 .. z : u[i] = IF << lots[i].fill, lots[i].strategy >> \in P
                                            THEN - lost[i] ELSE 0
                /\ Weight(Shares(P), M) = Weight(Shares(P), lots) + Tally(u)
                /\ Weight(Shares(P), M) <= Weight(Shares(P), lots)
                /\ Weight(Shares(P), M) \in Int /\ Weight(Shares(P), lots) \in Int
  <2>1. PICK u : u = [ i \in 1 .. z |-> IF << lots[i].fill, lots[i].strategy >> \in P
                                        THEN - lost[i] ELSE 0 ]
    OBVIOUS
  <2>2. PICK t : t = [ i \in 1 .. z |-> IF << lots[i].fill, lots[i].strategy >> \in P
                                        THEN lost[i] ELSE 0 ]
    OBVIOUS
  <2>3. u \in [1 .. z -> Int] /\ t \in [1 .. z -> Int]
    BY <1>6, <2>1, <2>2
  <2>4. u \in Seq(Int) /\ Len(u) = z /\ t \in Seq(Int) /\ Len(t) = z
    BY <2>3, FcnSeq
  <2>5. PICK w, v : w = Weights(Shares(P), lots) /\ v = Weights(Shares(P), M)
    OBVIOUS
  <2>6. w \in Seq(Int) /\ Len(w) = z /\ v \in Seq(Int) /\ Len(v) = z
    <3>1. PICK f \in [LotRows -> Int] : f = Shares(P)
      BY WeightTypes
    <3> QED BY <1>2, <1>3, <1>19, <2>5, <3>1, WeightsType
  <2>7. ASSUME NEW i \in 1 .. z
        PROVE  /\ w[i] = IF << lots[i].fill, lots[i].strategy >> \in P THEN lots[i].qty ELSE 0
               /\ v[i] = IF << lots[i].fill, lots[i].strategy >> \in P
                         THEN lots[i].qty - lost[i] ELSE 0
    <3>1. w[i] = Shares(P)[lots[i]] /\ v[i] = Shares(P)[M[i]]
      BY <1>4, <1>19, <2>5 DEF Weights
    <3> QED BY <1>4, <1>17, <3>1 DEF Shares
  <2>8. \A i \in 1 .. z : v[i] = w[i] + u[i] /\ w[i] = v[i] + t[i] /\ t[i] >= 0
    <3> SUFFICES ASSUME NEW i \in 1 .. z
                 PROVE  v[i] = w[i] + u[i] /\ w[i] = v[i] + t[i] /\ t[i] >= 0
      OBVIOUS
    <3>1. PICK q \in Nat, r \in Nat : q = lots[i].qty /\ r = lost[i]
      BY <1>6
    <3>2. CASE << lots[i].fill, lots[i].strategy >> \in P
      <4>1. w[i] = q /\ v[i] = q - r
        BY <2>7, <3>1, <3>2
      <4>2. u[i] = - r /\ t[i] = r
        BY <2>1, <2>2, <3>1, <3>2
      <4> QED BY <3>1, <4>1, <4>2
    <3>3. CASE << lots[i].fill, lots[i].strategy >> \notin P
      <4>1. w[i] = 0 /\ v[i] = 0
        BY <2>7, <3>3
      <4>2. u[i] = 0 /\ t[i] = 0
        BY <2>1, <2>2, <3>3
      <4> QED BY <4>1, <4>2
    <3> QED BY <3>2, <3>3
  <2>9. Tally(v) = Tally(w) + Tally(u)
    <3>1. Len(u) = Len(w) /\ Len(v) = Len(w) /\ \A i \in 1 .. Len(w) : v[i] = w[i] + u[i]
      BY <2>4, <2>6, <2>8
    <3> QED BY <2>4, <2>6, <3>1, TallyPlus
  <2>10. Tally(w) = Tally(v) + Tally(t)
    <3>1. Len(t) = Len(v) /\ Len(w) = Len(v) /\ \A i \in 1 .. Len(v) : w[i] = v[i] + t[i]
      BY <2>4, <2>6, <2>8
    <3> QED BY <2>4, <2>6, <3>1, TallyPlus
  <2>11. PICK x \in Int, y \in Int, d \in Nat : x = Tally(v) /\ y = Tally(w) /\ d = Tally(t)
    <3>1. Tally(v) \in Int /\ Tally(w) \in Int
      BY <2>6, TallyType
    <3>2. \A i \in 1 .. Len(t) : t[i] >= 0
      BY <2>4, <2>8
    <3>3. Tally(t) \in Nat
      BY <2>4, <3>2, TallyNat
    <3> QED BY <3>1, <3>3
  <2>12. x <= y
    BY <2>10, <2>11
  <2>13. Weight(Shares(P), M) = x /\ Weight(Shares(P), lots) = y
    BY <2>5, <2>11 DEF Weight
  <2> QED BY <2>1, <2>4, <2>9, <2>11, <2>12, <2>13
<1>24. BalanceOf(G, M)
  <2> SUFFICES ASSUME NEW S \in SUBSET Buckets
               PROVE  Weight(Bought(S), G) = Weight(Shares(Nat \X S), M)
    BY DEF BalanceOf
  <2>1. Weight(Bought(S), G) = Weight(Bought(S), F) + Weight(Bought(S), synth)
    BY <1>14, <1>20, FillSums
  <2>2. Weight(Bought(S), F) = Weight(Shares(Nat \X S), lots)
    BY <1>2 DEF BalanceOf
  <2>3. PICK u \in Seq(Int) :
          /\ Len(u) = z
          /\ \A i \in 1 .. z : u[i] = IF << lots[i].fill, lots[i].strategy >> \in Nat \X S
                                      THEN - lost[i] ELSE 0
          /\ Weight(Shares(Nat \X S), M) = Weight(Shares(Nat \X S), lots) + Tally(u)
    BY <1>23
  <2>4. \A i \in 1 .. Len(u) : i \notin C => u[i] = 0
    <3> SUFFICES ASSUME NEW i \in 1 .. Len(u), i \notin C PROVE u[i] = 0
      OBVIOUS
    <3>d. i \in 1 .. z
      BY <2>3
    <3>a. lost[i] = Cancelled(a, lots[i].qty) /\ i \in DOMAIN lots
      BY <1>4, <1>5, <3>d
    <3>b. ~ (lost[i] > 0)
      BY <1>7, <3>a
    <3>c. PICK e \in Nat : e = lots[i].qty /\ lost[i] \in 0 .. e
      BY <1>6, <3>d
    <3>1. lost[i] = 0
      BY <3>b, <3>c
    <3>2. u[i] = - lost[i] \/ u[i] = 0
      BY <2>3, <3>d
    <3>3. - lost[i] = 0
      <4>1. \A x \in Int : - x = 0 - x
        OBVIOUS
      <4>2. - lost[i] = 0 - lost[i]
        BY <3>c, <4>1
      <4>3. 0 - lost[i] = 0
        BY <3>1
      <4> QED BY <4>2, <4>3
    <3> QED BY <3>2, <3>3
  <2>5. Tally([ k \in DOMAIN cut |-> u[cut[k]] ]) = Tally(u)
    <3>1. Len(u) = Len(lots)
      BY <1>3, <2>3
    <3> QED BY <1>2, <1>8, <2>4, <3>1, TallyPlaces
  <2>6. ASSUME NEW k \in 1 .. c PROVE Bought(S)[synth[k]] = u[cut[k]]
    <3>1. PICK i \in 1 .. z : i = cut[k]
      BY <1>9
    <3>2. PICK f \in FillRows : f = synth[k]
      BY <1>12
    <3>3. f.side = "SELL" /\ f.strategy = lots[i].strategy /\ f.qty = lost[i]
      BY <1>12, <3>1, <3>2
    <3>4. Bought(S)[f] = IF lots[i].strategy \in S THEN - lost[i] ELSE 0
      BY <3>3 DEF Bought, Signed
    <3>5. lots[i].fill \in Nat
      BY <1>4 DEF LotRows
    <3> QED BY <2>3, <3>1, <3>2, <3>4, <3>5
  <2>7. Weights(Bought(S), synth) = [ k \in DOMAIN cut |-> u[cut[k]] ]
    BY <1>9, <1>14, <2>6 DEF Weights
  <2> QED BY <2>1, <2>2, <2>3, <2>5, <2>7 DEF Weight
<1>25. LotsOf(G, M)
  <2> SUFFICES ASSUME NEW i \in 1 .. Len(M) PROVE IsBuy(G, M[i].fill, M[i].strategy)
    BY DEF LotsOf
  <2>1. IsBuy(F, lots[i].fill, lots[i].strategy)
    BY <1>2, <1>3, <1>19 DEF LotsOf
  <2> QED BY <1>17, <1>19, <1>21, <1>22, <2>1, GrownBuys
<1>26. BoughtOnce(G, M, matches)
  <2> SUFFICES ASSUME NEW j \in 1 .. Len(G), G[j].side = "BUY"
               PROVE  Weight(Shares({G[j].id} \X Buckets), M)
                        + Weight(ClosedOf(G[j].id), matches) <= G[j].qty
    BY DEF BoughtOnce
  <2>1. PICK x, P : x = G[j].id /\ P = {x} \X Buckets
    OBVIOUS
  <2>2. j <= n
    <3>1. CASE j > n
      <4>1. j - n \in 1 .. c /\ G[j] = synth[j - n]
        BY <1>3, <1>9, <1>21, <3>1
      <4> QED BY <1>12, <4>1
    <3> QED BY <1>3, <1>9, <1>21, <3>1
  <2>3. j \in 1 .. n /\ G[j] = F[j] /\ F[j] \in FillRows
    BY <1>3, <1>9, <1>21, <2>2, Rows
  <2>4. Weight(Shares(P), lots) + Weight(ClosedOf(x), matches) <= F[j].qty
    BY <1>2, <1>3, <2>1, <2>3 DEF BoughtOnce
  <2>5. PICK y \in Int, w \in Int, e \in Int :
          /\ y = Weight(Shares(P), M) /\ w = Weight(Shares(P), lots)
          /\ e = Weight(ClosedOf(x), matches) /\ y <= w
    <3>1. Weight(ClosedOf(x), matches) \in Int
      BY <1>2, MatchSums
    <3> QED BY <1>23, <3>1
  <2>6. F[j].qty \in Nat
    BY <2>3 DEF FillRows
  <2>7. y + e <= F[j].qty
    BY <2>4, <2>5, <2>6
  <2> QED BY <2>1, <2>3, <2>5, <2>7
<1>27. Synthesized(F, b, a, next, synth, M)
  BY <1>1, <1>12, <1>14, <1>19, <1>20, <1>24, <1>25, <1>26 DEF Synthesized
<1> QED BY <1>1, <1>10, <1>27

\* An action keeps books and facts in agreement.
LEMMA ActionKeeps ==
  ASSUME NEW F \in Seq(FillRows), NEW b \in BooksType, NEW a \in CorpActions,
         NEW next \in Nat, NEW now \in Nat, NEW cash \in Int, next > 0,
         \A j \in 1 .. Len(F) : F[j].id < next, BooksOf(F, b)
  PROVE  LET synth == SyntheticFills(a, b.lots, next)
             after == [ b EXCEPT !.lots = LotsAfterAction(a, b.lots, next, now), !.cash = cash ]
         IN /\ synth \in Seq(FillRows)
            /\ \A k \in 1 .. Len(synth) :
                 /\ synth[k].id = next + k - 1 /\ synth[k].corp /\ synth[k].at = StartOf(a.ex)
            /\ after \in BooksType
            /\ BooksOf(F \o synth, after)
<1>1. PICK lots : lots = b.lots
  OBVIOUS
<1>2. PICK synth, M : /\ synth = SyntheticFills(a, lots, next)
                      /\ M = LotsAfterAction(a, lots, next, now)
  OBVIOUS
<1>3. lots \in Seq(LotRows)
  BY <1>1 DEF BooksType
<1>4. PICK after : after = [ b EXCEPT !.lots = M, !.cash = cash ]
  OBVIOUS
<1>5. CASE a.type = "CASH_DIVIDEND"
  <2>1. synth = << >> /\ M = Reprice(a, lots)
    BY <1>2, <1>5 DEF SyntheticFills, LotsAfterAction
  <2>2. PICK c : c = ReplayAction(b, a)
    OBVIOUS
  <2>3. c \in BooksType /\ c.lots = M /\ BooksOf(F, c) /\ c.matches = b.matches
        /\ c.flows = b.flows
    <3>1. c = [ b EXCEPT !.lots = M ]
      BY <1>1, <2>1, <2>2 DEF ReplayAction
    <3>2. c \in BooksType /\ c.flows = b.flows /\ BooksOf(F, c)
      BY <2>2, RepriceKeeps
    <3>3. c.lots = M /\ c.matches = b.matches
      BY <3>1 DEF BooksType
    <3> QED BY <3>2, <3>3
  <2>4. after \in BooksType /\ after.lots = M /\ after.matches = b.matches
        /\ after.flows = b.flows
    BY <1>4, <2>3 DEF BooksType
  <2>5. F \o synth = F
    BY <2>1
  <2>6. synth \in Seq(FillRows) /\ Len(synth) = 0
    <3>1. << >> \in Seq(FillRows) /\ Len(<< >>) = 0
      OBVIOUS
    <3> QED BY <2>1, <3>1
  <2>7. BooksOf(F, after)
    BY <2>3, <2>4 DEF BooksOf
  <2> QED BY <1>1, <1>2, <1>4, <2>4, <2>5, <2>6, <2>7
<1>6. CASE a.type # "CASH_DIVIDEND"
  <2>a. Synthesized(F, b, a, next, synth, M)
    <3>1. CASE a.type = "CAPITAL_REDUCTION"
      <4>1. synth = CancelFills(a, lots, next) /\ M = Reduced(a, lots)
        BY <1>2, <3>1 DEF SyntheticFills, LotsAfterAction
      <4> QED BY <1>1, <3>1, <4>1, CancelKeeps
    <3>2. CASE a.type \in {"STOCK_DIVIDEND", "SPLIT"}
      <4>1. synth = BonusFills(a, lots, next) /\ M = WithBonus(a, lots, next, now)
        BY <1>2, <3>2 DEF SyntheticFills, LotsAfterAction
      <4> QED BY <1>1, <3>2, <4>1, BonusKeeps
    <3> QED BY <1>6, <3>1, <3>2, ActionFacts
  <2>1. /\ synth \in Seq(FillRows)
        /\ \A k \in 1 .. Len(synth) : /\ synth[k].id = next + k - 1 /\ synth[k].corp
                                      /\ synth[k].at = StartOf(a.ex) /\ Flow(synth[k]) = 0
        /\ M \in Seq(LotRows)
        /\ BalanceOf(F \o synth, M) /\ LotsOf(F \o synth, M)
        /\ BoughtOnce(F \o synth, M, b.matches)
    BY <2>a DEF Synthesized
  <2>2. /\ b.flows = Weight(Flows, F \o synth)
        /\ MatchesOf(F \o synth, b.matches) /\ SoldOnce(F \o synth, b.matches)
    BY <2>1, SyntheticKeep
  <2>3. after \in BooksType /\ after.lots = M /\ after.matches = b.matches
        /\ after.flows = b.flows
    BY <1>4, <2>1 DEF BooksType
  <2>4. BooksOf(F \o synth, after)
    BY <2>1, <2>2, <2>3 DEF BooksOf
  <2> QED BY <1>1, <1>2, <1>4, <2>1, <2>3, <2>4
<1> QED BY <1>5, <1>6

-----------------------------------------------------------------------------
(* The rebuild. *)

\* The fills in the order of their time are fills, each with its number.
LEMMA InTimeRows ==
  ASSUME NEW F \in Seq(FillRows), Apart(Ids, F)
  PROVE  /\ InTime(F) \in Seq(FillRows)
         /\ Apart(Ids, InTime(F)) /\ Within(InTime(F), F)
<1>1. PICK T : T = ToSet(F)
  OBVIOUS
<1>2. F \in Seq(T) /\ T \subseteq FillRows
  BY <1>1, OwnSeq
<1>3. PICK rank : rank = [ f \in T |-> f.at ]
  OBVIOUS
<1>4. rank \in [T -> Int]
  <2>1. \A f \in T : f.at \in Int
    BY <1>2 DEF FillRows
  <2> QED BY <1>3, <2>1
<1>5. InTime(F) = Sorted(F, rank)
  BY <1>1, <1>3 DEF InTime
<1>6. Sorted(F, rank) \in Seq(T)
  BY <1>2, <1>4, SortedType
<1>7. Sorted(F, rank) \in Seq(FillRows)
  BY <1>2, <1>6
<1>8. Apart(Ids, Sorted(F, rank)) /\ Within(Sorted(F, rank), F)
  BY <1>2, <1>4, SortedApart
<1> QED BY <1>5, <1>7, <1>8

\* The actions in their order.
LEMMA InOrderRows ==
  ASSUME NEW A \in SUBSET CorpActions
  PROVE  InOrder(A) \in Seq(CorpActions)
<1>1. IsFiniteSet(A)
  BY FS_Subset, ActionAssumption
<1>2. SetToSeq(A) \in Seq(A)
  BY <1>1, Listed
<1>3. PICK r, q : r = [ a \in A |-> a.id ] /\ q = [ a \in A |-> a.ex ]
  OBVIOUS
<1>4. r \in [A -> Int] /\ q \in [A -> Int]
  <2>1. \A a \in A : a.id \in Int /\ a.ex \in Int
    BY ActionFacts
  <2> QED BY <1>3, <2>1
<1>5. Sorted(SetToSeq(A), r) \in Seq(A)
  BY <1>2, <1>4, SortedType
<1>6. Sorted(Sorted(SetToSeq(A), r), q) \in Seq(A)
  BY <1>4, <1>5, SortedType
<1>7. Sorted(Sorted(SetToSeq(A), r), q) \in Seq(CorpActions)
  BY <1>6
<1> QED BY <1>3, <1>7 DEF InOrder

\* No facts and no books.
LEMMA NothingBooked ==
  ASSUME NEW b, b.lots = << >>, b.matches = << >>, b.flows = 0
  PROVE  BooksOf(<< >>, b)
<1>1. Len(<< >>) = 0
  OBVIOUS
<1>2. BalanceOf(<< >>, b.lots)
  BY WeightEmpty DEF BalanceOf
<1>3. b.flows = Weight(Flows, << >>)
  BY WeightEmpty
<1>4. LotsOf(<< >>, b.lots) /\ MatchesOf(<< >>, b.matches)
  BY <1>1 DEF LotsOf, MatchesOf
<1>5. BoughtOnce(<< >>, b.lots, b.matches) /\ SoldOnce(<< >>, b.matches)
  BY <1>1 DEF BoughtOnce, SoldOnce
<1> QED BY <1>2, <1>3, <1>4, <1>5 DEF BooksOf

\* A rebuild that finds a lot for every SELL agrees with the facts.
LEMMA ReplayKeeps ==
  ASSUME NEW F \in Seq(FillRows), Apart(Ids, F), NEW A \in SUBSET CorpActions, NEW opening \in Int
  PROVE  LET b == Replay(F, A, opening)
         IN /\ b \in BooksType /\ b.cash = opening + b.flows
            /\ b.ok => BooksOf(InTime(F), b)
<1> DEFINE start == [ lots |-> << >>, matches |-> << >>, cash |-> opening, flows |-> 0, ok |-> TRUE ]
           rows == InTime(F)
           acts == InOrder(A)
           due(k) == { a \in A : /\ k > 1 => StartOf(a.ex) > rows[k - 1].at
                                 /\ k <= Len(rows) => StartOf(a.ex) <= rows[k].at }
           done[k \in 0 .. Len(rows)] ==
             IF k = 0 THEN start
             ELSE ApplyFill(ReplayActions(done[k - 1], Only(acts, due(k))), rows[k])
           n == Len(rows)
           next(x, k) == ApplyFill(ReplayActions(x, Only(acts, due(k))), rows[k])
           step == [ k \in 1 .. n |-> [ x \in BooksType |-> next(x, k) ] ]
           prefix(k) == [ i \in 1 .. k |-> rows[i] ]
<1>1. /\ rows \in Seq(FillRows) /\ n \in Nat /\ \A k \in 1 .. n : rows[k] \in FillRows
      /\ Apart(Ids, rows)
  BY InTimeRows, Rows
<1>2. start \in BooksType
  <2>1. << >> \in Seq(LotRows) /\ << >> \in Seq(MatchRows)
    OBVIOUS
  <2> QED BY <2>1 DEF BooksType
<1>a. \A k : Only(acts, due(k)) \in Seq(CorpActions)
  <2>1. acts \in Seq(CorpActions)
    BY InOrderRows
  <2>2. \A S : Only(acts, S) \in Seq(CorpActions)
    <3> HIDE DEF acts
    <3> QED BY <2>1, OnlyType
  <2> HIDE DEF acts, due
  <2> QED BY <2>2
<1>b. \A k : \A x \in BooksType :
        LET c == ReplayActions(x, Only(acts, due(k)))
        IN /\ c \in BooksType /\ c.ok = x.ok /\ c.cash = x.cash /\ c.flows = x.flows
           /\ \A G \in Seq(FillRows) : BooksOf(G, x) => BooksOf(G, c)
  <2>1. \A q \in Seq(CorpActions) : \A x \in BooksType :
          LET c == ReplayActions(x, q)
          IN /\ c \in BooksType /\ c.ok = x.ok /\ c.cash = x.cash /\ c.flows = x.flows
             /\ \A G \in Seq(FillRows) : BooksOf(G, x) => BooksOf(G, c)
    BY ReplayActionsKeep
  <2> HIDE DEF acts, due
  <2> QED BY <1>a, <2>1
<1>c. \A k \in 1 .. n : \A x \in BooksType : next(x, k) \in BooksType
  <2> HIDE DEF rows, acts, due, n
  <2> QED BY <1>1, <1>b, ApplyFillType
<1>3. \E g : Runs(g, n, BooksType, start, step)
  <2>1. step \in [1 .. n -> [BooksType -> BooksType]]
    <3> HIDE DEF next, n
    <3> QED BY <1>c
  <2> HIDE DEF step, n, start
  <2> QED BY <1>1, <1>2, <2>1, Recursion
<1>4. PICK g : Runs(g, n, BooksType, start, step)
  BY <1>3
<1>5. g \in [0 .. n -> BooksType] /\ g[0] = start /\ \A k \in 1 .. n : g[k] = step[k][g[k - 1]]
  <2> HIDE DEF n, start, step
  <2> QED BY <1>4 DEF Runs
<1>6. ASSUME NEW k \in 1 .. n PROVE g[k] = next(g[k - 1], k)
  <2> HIDE DEF n, start, next
  <2>1. k - 1 \in 0 .. n
    BY <1>1
  <2>2. g[k - 1] \in BooksType
    BY <1>5, <2>1
  <2>3. step[k][g[k - 1]] = next(g[k - 1], k)
    BY <2>2
  <2> QED BY <1>5, <2>3
<1>7. g = [ k \in 0 .. n |-> IF k = 0 THEN start ELSE next(g[k - 1], k) ]
  <2> HIDE DEF n, step, start, next
  <2>1. \A k \in 0 .. n : k = 0 \/ (k \in 1 .. n /\ k # 0)
    BY <1>1
  <2>2. g[0] = start /\ g = [ k \in 0 .. n |-> g[k] ]
    BY <1>5
  <2>3. \A k \in 0 .. n : g[k] = IF k = 0 THEN start ELSE next(g[k - 1], k)
    BY <1>6, <2>1, <2>2
  <2> QED BY <2>2, <2>3
<1>8. done = [ k \in 0 .. n |-> IF k = 0 THEN start ELSE next(done[k - 1], k) ]
  <2> HIDE DEF start, rows, acts, due
  <2> QED BY <1>7
<1>9. Replay(F, A, opening) = ReplayActions(done[n], Only(acts, due(n + 1)))
  BY DEF Replay
<1> HIDE DEF done
<1>10. done[0] = start
  <2> HIDE DEF n, step, start, next
  <2> QED BY <1>1, <1>8
<1>11. ASSUME NEW k \in 1 .. n PROVE done[k] = next(done[k - 1], k)
  <2> HIDE DEF n, step, start, next
  <2>1. k \in 0 .. n /\ k # 0
    BY <1>1
  <2> QED BY <1>8, <2>1
<1> HIDE DEF step
<1> DEFINE kept(k) == /\ done[k] \in BooksType /\ done[k].cash = opening + done[k].flows
                      /\ done[k].ok => BooksOf(prefix(k), done[k])
           U == { k \in 0 .. n : kept(k) }
<1>12. 0 \in U
  <2>1. prefix(0) = << >>
    <3> HIDE DEF rows
    <3> QED OBVIOUS
  <2>2. BooksOf(<< >>, start)
    BY NothingBooked
  <2>3. start.cash = opening + start.flows
    OBVIOUS
  <2>4. 0 \in 0 .. n
    <3> HIDE DEF n
    <3> QED BY <1>1
  <2> HIDE DEF n, prefix, start
  <2> QED BY <1>2, <1>10, <2>1, <2>2, <2>3, <2>4
<1>13. ASSUME NEW k \in 1 .. n, k - 1 \in U PROVE k \in U
  <2> HIDE DEF rows, acts, due, n, start
  <2>1. PICK x : x = done[k - 1]
    OBVIOUS
  <2>2. x \in BooksType /\ x.cash = opening + x.flows /\ (x.ok => BooksOf(prefix(k - 1), x))
    BY <1>13, <2>1
  <2>3. PICK c : c = ReplayActions(x, Only(acts, due(k)))
    OBVIOUS
  <2>4. /\ c \in BooksType /\ c.ok = x.ok /\ c.cash = x.cash /\ c.flows = x.flows
        /\ \A G \in Seq(FillRows) : BooksOf(G, x) => BooksOf(G, c)
    BY <1>b, <2>2, <2>3
  <2>5. PICK f \in FillRows : f = rows[k]
    BY <1>1
  <2>6. PICK d : d = ApplyFill(c, f)
    OBVIOUS
  <2>7. done[k] = d
    BY <1>11, <2>1, <2>3, <2>5, <2>6
  <2>8. d \in BooksType
    BY <2>4, <2>6, ApplyFillType
  <2>9. d.cash = opening + d.flows
    <3>1. PICK v \in Int : v = Flow(f)
      BY FlowType
    <3>2. d.flows = c.flows + v /\ d.cash = c.cash + v
      BY <2>4, <2>6, <3>1, ApplyFillParts
    <3>3. PICK y \in Int, z \in Int : y = c.flows /\ z = c.cash
      BY <2>4 DEF BooksType
    <3>4. z = opening + y
      BY <2>2, <2>4, <3>3
    <3> QED BY <3>1, <3>2, <3>3, <3>4
  <2>10. ASSUME d.ok PROVE BooksOf(prefix(k), d)
    <3>1. PICK G : G = prefix(k - 1)
      OBVIOUS
    <3>2. k - 1 \in Nat /\ \A i \in 1 .. k - 1 : i \in 1 .. n /\ i # k
      BY <1>1
    <3>3. G \in [1 .. k - 1 -> FillRows] /\ \A i \in 1 .. k - 1 : G[i] = rows[i]
      BY <1>1, <3>1, <3>2
    <3>4. G \in Seq(FillRows) /\ Len(G) = k - 1
      BY <3>2, <3>3, FcnSeq
    <3>5. \A i \in 1 .. Len(G) : G[i].id # f.id
      <4> SUFFICES ASSUME NEW i \in 1 .. k - 1 PROVE G[i].id # f.id
        BY <3>4
      <4>1. i \in 1 .. n /\ i # k /\ G[i] = rows[i] /\ rows[i] \in FillRows
        BY <1>1, <3>2, <3>3
      <4>2. Ids[rows[i]] = rows[i].id /\ Ids[f] = f.id
        BY <4>1 DEF Ids
      <4> QED BY <1>1, <2>5, <4>1, <4>2 DEF Apart, n
    <3>6. c.ok
      <4>1. d.ok => c.ok
        <5>1. f.side = "BUY" \/ f.side = "SELL"
          BY DEF FillRows
        <5> QED BY <2>4, <2>6, <5>1, ApplyFillParts
      <4> QED BY <2>10, <4>1
    <3>7. BooksOf(G, c)
      BY <2>2, <2>4, <3>1, <3>4, <3>6
    <3>8. BooksOf(Append(G, f), d)
      BY <2>4, <2>6, <2>10, <3>4, <3>5, <3>7, ApplyFillKeeps
    <3>9. prefix(k) = Append(G, f)
      <4>1. PICK H : H = Append(G, f)
        OBVIOUS
      <4>2. /\ H \in Seq(FillRows) /\ Len(H) = Len(G) + 1 /\ H[Len(G) + 1] = f
            /\ \A i \in 1 .. Len(G) : H[i] = G[i]
        BY <3>4, <4>1, AppendProperties
      <4>3. Len(H) = k /\ H[k] = f /\ \A i \in 1 .. k - 1 : H[i] = rows[i]
        BY <1>1, <3>3, <3>4, <4>2
      <4>4. H = [ i \in 1 .. k |-> H[i] ]
        BY <4>2, <4>3, Rows
      <4>5. \A i \in 1 .. k : H[i] = rows[i]
        <5>1. \A i \in 1 .. k : i = k \/ i \in 1 .. k - 1
          BY <1>1
        <5> QED BY <2>5, <4>3, <5>1
      <4> QED BY <4>1, <4>4, <4>5
    <3> QED BY <3>8, <3>9
  <2>11. k \in 0 .. n
    BY <1>1
  <2> HIDE DEF prefix
  <2> QED BY <2>7, <2>8, <2>9, <2>10, <2>11
<1>14. 0 .. n \subseteq U
  <2> HIDE DEF U, n
  <2> QED BY <1>1, <1>12, <1>13, Upwards
<1>15. kept(n)
  <2> HIDE DEF n, kept
  <2> QED BY <1>1, <1>14
<1>16. prefix(n) = rows
  <2> HIDE DEF rows
  <2> QED BY <1>1, Rows
<1>17. PICK x, b : x = done[n] /\ b = Replay(F, A, opening)
  OBVIOUS
<1> HIDE DEF n, rows, start, acts, due, next, prefix
<1>18. /\ b \in BooksType /\ b.ok = x.ok /\ b.cash = x.cash /\ b.flows = x.flows
       /\ \A G \in Seq(FillRows) : BooksOf(G, x) => BooksOf(G, b)
  BY <1>9, <1>15, <1>17, <1>b
<1>19. b.ok => BooksOf(rows, b)
  BY <1>1, <1>15, <1>16, <1>17, <1>18
<1>20. b.cash = opening + b.flows
  BY <1>15, <1>17, <1>18
<1> QED BY <1>17, <1>18, <1>19, <1>20 DEF rows

-----------------------------------------------------------------------------
(* What the facts know of the day. *)

\* Later, with more numbers given and more actions applied, the facts are as well.
LEMMA FactsStay ==
  ASSUME NEW F \in Seq(FillRows), NEW n \in Nat, NEW m \in Nat, n <= m,
         NEW d \in Nat, NEW e \in Nat, d <= e, NEW A, NEW B, A \subseteq B,
         FactsOf(F, n, d, A)
  PROVE  FactsOf(F, m, e, B)
<1> SUFFICES ASSUME NEW j \in 1 .. Len(F) PROVE F[j].id <= m /\ Dated(F[j], e, B)
  BY DEF FactsOf
<1>1. F[j].id <= n /\ Dated(F[j], d, A) /\ F[j].id \in Nat
  BY Rows DEF FactsOf, FillRows
<1>2. Dated(F[j], e, B)
  <2>1. \A x \in 1 .. d : x \in 1 .. e
    OBVIOUS
  <2> QED BY <1>1, <2>1 DEF Dated
<1> QED BY <1>1, <1>2

\* Rows of the ledger keep their dates.
LEMMA LedgerStays ==
  ASSUME NEW L \in Seq(CashRows), NEW d \in Nat, NEW e \in Nat, d <= e,
         NEW A, NEW B, A \subseteq B, LedgerDated(L, d, A)
  PROVE  LedgerDated(L, e, B)
<1>1. \A x \in 1 .. d : x \in 1 .. e
  OBVIOUS
<1> QED BY <1>1 DEF LedgerDated

\* A row more.
LEMMA LedgerRow ==
  ASSUME NEW L \in Seq(CashRows), NEW r \in CashRows, NEW d \in Nat, NEW A,
         LedgerDated(L, d, A),
         IF r.type \in {"INITIAL_DEPOSIT", "CASH_ADJUSTMENT"} THEN r.day \in 1 .. d
         ELSE \E a \in A : r.day = a.ex
  PROVE  Append(L, r) \in Seq(CashRows) /\ LedgerDated(Append(L, r), d, A)
<1>1. PICK M : M = Append(L, r)
  OBVIOUS
<1>2. /\ M \in Seq(CashRows) /\ Len(M) = Len(L) + 1 /\ M[Len(L) + 1] = r
      /\ \A i \in 1 .. Len(L) : M[i] = L[i]
  BY <1>1, AppendProperties
<1>3. \A i \in 1 .. Len(M) : i \in 1 .. Len(L) \/ i = Len(L) + 1
  BY <1>2, Rows
<1> QED BY <1>1, <1>2, <1>3 DEF LedgerDated

\* The amounts of the ledger.
LEMMA MoneySums ==
  /\ Money \in [CashRows -> Int]
  /\ \A L \in Seq(CashRows) : Weight(Money, L) \in Int
  /\ \A L \in Seq(CashRows), r \in CashRows :
       Weight(Money, Append(L, r)) = Weight(Money, L) + r.amount
<1>1. Money \in [CashRows -> Int] /\ \A r \in CashRows : Money[r] = r.amount
  BY DEF Money, CashRows
<1>2. \A L \in Seq(CashRows) : Weight(Money, L) \in Int
  BY <1>1, WeightsType
<1>3. ASSUME NEW L \in Seq(CashRows), NEW r \in CashRows
      PROVE  Weight(Money, Append(L, r)) = Weight(Money, L) + r.amount
  <2>1. Weight(Money, Append(L, r)) = Weight(Money, L) + Money[r]
    BY <1>1, WeightAppend
  <2> QED BY <1>1, <2>1
<1> QED BY <1>1, <1>2, <1>3

\* The balance a rebuild starts from.
LEMMA OpeningIs ==
  ASSUME NEW L \in Seq(CashRows)
  PROVE  Tally([ i \in DOMAIN L |-> L[i].amount ]) = Weight(Money, L)
<1>1. \A i \in DOMAIN L : L[i] \in CashRows
  BY Rows
<1>2. [ i \in DOMAIN L |-> L[i].amount ] = Weights(Money, L)
  BY <1>1 DEF Weights, Money
<1> QED BY <1>2 DEF Weight

\* The number of a fill.
LEMMA IdsOf == \A f \in FillRows : Ids[f] = f.id /\ f.id \in Nat
BY DEF Ids, FillRows

\* A fill with the next number.
LEMMA FactsAppend ==
  ASSUME NEW F \in Seq(FillRows), NEW n \in Nat, NEW d \in Nat, NEW A, FactsOf(F, n, d, A),
         NEW f \in FillRows, f.id = n + 1, Dated(f, d, A)
  PROVE  FactsOf(Append(F, f), n + 1, d, A)
<1>1. PICK G : G = Append(F, f)
  OBVIOUS
<1>2. /\ G \in Seq(FillRows) /\ Len(G) = Len(F) + 1 /\ G[Len(F) + 1] = f
      /\ \A i \in 1 .. Len(F) : G[i] = F[i]
  BY <1>1, AppendProperties
<1>3. \A i \in 1 .. Len(G) : i \in 1 .. Len(F) \/ i = Len(F) + 1
  BY <1>2, Rows
<1>4. \A i \in 1 .. Len(F) : /\ F[i] \in FillRows /\ Ids[F[i]] = F[i].id /\ F[i].id \in Nat
                             /\ F[i].id <= n /\ Dated(F[i], d, A)
  BY IdsOf, Rows DEF FactsOf
<1>5. Ids[f] = n + 1
  BY DEF Ids
<1>6. Apart(Ids, G)
  <2> SUFFICES ASSUME NEW i \in 1 .. Len(G), NEW j \in 1 .. Len(G), Ids[G[i]] = Ids[G[j]]
               PROVE  i = j
    BY DEF Apart
  <2>1. CASE i \in 1 .. Len(F) /\ j \in 1 .. Len(F)
    BY <1>2, <2>1 DEF FactsOf, Apart
  <2>2. CASE i \in 1 .. Len(F) /\ j = Len(F) + 1
    <3>1. PICK x \in Nat : x = F[i].id
      BY <1>4, <2>2
    <3>2. x <= n /\ x = n + 1
      BY <1>2, <1>4, <1>5, <2>2, <3>1
    <3> QED BY <3>2
  <2>3. CASE j \in 1 .. Len(F) /\ i = Len(F) + 1
    <3>1. PICK x \in Nat : x = F[j].id
      BY <1>4, <2>3
    <3>2. x <= n /\ x = n + 1
      BY <1>2, <1>4, <1>5, <2>3, <3>1
    <3> QED BY <3>2
  <2>4. CASE i = Len(F) + 1 /\ j = Len(F) + 1
    BY <2>4
  <2> QED BY <1>3, <2>1, <2>2, <2>3, <2>4
<1>7. \A i \in 1 .. Len(G) : G[i].id <= n + 1 /\ Dated(G[i], d, A)
  <2> SUFFICES ASSUME NEW i \in 1 .. Len(G) PROVE G[i].id <= n + 1 /\ Dated(G[i], d, A)
    OBVIOUS
  <2>1. CASE i \in 1 .. Len(F)
    BY <1>2, <1>4, <2>1
  <2>2. CASE i = Len(F) + 1
    BY <1>2, <2>2
  <2> QED BY <1>3, <2>1, <2>2
<1> QED BY <1>1, <1>6, <1>7 DEF FactsOf

\* The synthetic fills of an action, with the next numbers.
LEMMA FactsJoin ==
  ASSUME NEW F \in Seq(FillRows), NEW n \in Nat, NEW d \in Nat, NEW A, FactsOf(F, n, d, A),
         NEW a, NEW synth \in Seq(FillRows),
         \A k \in 1 .. Len(synth) :
           synth[k].id = (n + 1) + k - 1 /\ synth[k].corp /\ synth[k].at = StartOf(a.ex)
  PROVE  FactsOf(F \o synth, n + Len(synth), d, A \cup {a})
<1>1. PICK m, p : m = Len(F) /\ p = Len(synth)
  OBVIOUS
<1>2. m \in Nat /\ p \in Nat
  BY <1>1, Rows
<1>3. PICK G : G = F \o synth
  OBVIOUS
<1>4. /\ Len(G) = m + p
      /\ \A i \in 1 .. m + p : G[i] = IF i <= m THEN F[i] ELSE synth[i - m]
  BY <1>1, <1>3, Joining
<1>5. \A i \in 1 .. m : /\ F[i] \in FillRows /\ Ids[F[i]] = F[i].id /\ F[i].id \in Nat
                        /\ F[i].id <= n /\ Dated(F[i], d, A)
  BY <1>1, IdsOf, Rows DEF FactsOf
<1>6. \A k \in 1 .. p : /\ synth[k] \in FillRows /\ Ids[synth[k]] = n + k
                        /\ synth[k].id = n + k /\ Dated(synth[k], d, A \cup {a})
  <2> SUFFICES ASSUME NEW k \in 1 .. p
               PROVE  /\ synth[k] \in FillRows /\ Ids[synth[k]] = n + k
                      /\ synth[k].id = n + k /\ Dated(synth[k], d, A \cup {a})
    OBVIOUS
  <2>1. synth[k] \in FillRows
    BY <1>1, Rows
  <2>2. synth[k].id = n + k
    <3>1. (n + 1) + k - 1 = n + k
      BY <1>2
    <3> QED BY <1>1, <3>1
  <2>3. Ids[synth[k]] = synth[k].id
    BY <2>1 DEF Ids
  <2>4. Dated(synth[k], d, A \cup {a})
    BY <1>1 DEF Dated
  <2> QED BY <2>1, <2>2, <2>3, <2>4
<1>7. ASSUME NEW i \in 1 .. m + p
      PROVE  \/ i \in 1 .. m /\ G[i] = F[i] /\ Ids[G[i]] \in Nat /\ Ids[G[i]] <= n
             \/ i > m /\ Ids[G[i]] = n + (i - m) /\ G[i] = synth[i - m] /\ i - m \in 1 .. p
  <2>1. CASE i <= m
    <3>1. i \in 1 .. m
      BY <1>2, <2>1
    <3> QED BY <1>4, <1>5, <3>1, <2>1
  <2>2. CASE i > m
    <3>1. i - m \in 1 .. p /\ ~ (i <= m)
      BY <1>2, <2>2
    <3>2. PICK k \in 1 .. p : k = i - m
      BY <3>1
    <3>3. G[i] = synth[k]
      BY <1>4, <3>1, <3>2
    <3> QED BY <1>6, <2>2, <3>2, <3>3
  <2> QED BY <1>2, <2>1, <2>2
<1>8. Apart(Ids, G)
  <2> SUFFICES ASSUME NEW i \in 1 .. m + p, NEW j \in 1 .. m + p, Ids[G[i]] = Ids[G[j]]
               PROVE  i = j
    BY <1>4 DEF Apart
  <2>1. CASE i \in 1 .. m /\ G[i] = F[i] /\ j \in 1 .. m /\ G[j] = F[j]
    BY <1>1, <2>1 DEF FactsOf, Apart
  <2>2. CASE i > m /\ Ids[G[i]] = n + (i - m) /\ j > m /\ Ids[G[j]] = n + (j - m)
    <3>1. n + (i - m) = n + (j - m)
      BY <2>2
    <3> QED BY <1>2, <3>1
  <2>3. CASE Ids[G[i]] \in Nat /\ Ids[G[i]] <= n /\ j > m /\ Ids[G[j]] = n + (j - m)
    <3>1. PICK x \in Nat : x = Ids[G[i]]
      BY <2>3
    <3>2. x <= n /\ x = n + (j - m)
      BY <2>3, <3>1
    <3> QED BY <1>2, <2>3, <3>2
  <2>4. CASE Ids[G[j]] \in Nat /\ Ids[G[j]] <= n /\ i > m /\ Ids[G[i]] = n + (i - m)
    <3>1. PICK x \in Nat : x = Ids[G[j]]
      BY <2>4
    <3>2. x <= n /\ x = n + (i - m)
      BY <2>4, <3>1
    <3> QED BY <1>2, <2>4, <3>2
  <2> QED BY <1>7, <2>1, <2>2, <2>3, <2>4
<1>9. \A i \in 1 .. m + p : G[i].id <= n + p /\ Dated(G[i], d, A \cup {a})
  <2> SUFFICES ASSUME NEW i \in 1 .. m + p
               PROVE  G[i].id <= n + p /\ Dated(G[i], d, A \cup {a})
    OBVIOUS
  <2>1. CASE i \in 1 .. m /\ G[i] = F[i]
    <3>1. PICK x \in Nat : x = F[i].id
      BY <1>5, <2>1
    <3>2. x <= n + p
      BY <1>2, <1>5, <2>1, <3>1
    <3>3. Dated(F[i], d, A \cup {a})
      BY <1>5, <2>1 DEF Dated
    <3> QED BY <2>1, <3>1, <3>2, <3>3
  <2>2. CASE G[i] = synth[i - m] /\ i - m \in 1 .. p
    <3>1. PICK k \in 1 .. p : k = i - m
      BY <2>2
    <3>2. G[i].id = n + k /\ Dated(G[i], d, A \cup {a})
      BY <1>6, <2>2, <3>1
    <3>3. n + k <= n + p
      BY <1>2
    <3> QED BY <3>2, <3>3
  <2> QED BY <1>7, <2>1, <2>2
<1> QED BY <1>1, <1>3, <1>4, <1>8, <1>9 DEF FactsOf

\* Rows among the facts, each once, are facts.
LEMMA FactsWithin ==
  ASSUME NEW F \in Seq(FillRows), NEW G, Apart(Ids, G), Within(G, F),
         NEW n, NEW d, NEW A, FactsOf(F, n, d, A)
  PROVE  FactsOf(G, n, d, A)
BY DEF FactsOf, Within

-----------------------------------------------------------------------------
(* The commands. *)

\* A command that has selected the facts has selected fills.
LEMMA CommandFacts ==
  ASSUME NEW r \in CommandRows
  PROVE  /\ r.pc \in {"idle", "read", "close", "write"}
         /\ r.pc = "write" => /\ r.fills \in Seq(FillRows) /\ r.opening \in Int
                              /\ r.current \in BOOLEAN
                              /\ [ r EXCEPT !.current = FALSE ] \in CommandRows
                              /\ [ r EXCEPT !.current = FALSE ].pc = "write"
                              /\ [ r EXCEPT !.current = FALSE ].fills = r.fills
                              /\ ~ [ r EXCEPT !.current = FALSE ].current
         /\ r.pc = "close" => r.orders \in Seq(Orders) /\ r.orders # << >>
BY DEF CommandRows

\* What was selected stays selected; one command may be given another row.
LEMMA SelectedStays ==
  ASSUME NEW cmds \in [Commands -> CommandRows], NEW n \in Nat, NEW m \in Nat, n <= m,
         NEW d \in Nat, NEW e \in Nat, d <= e, NEW A, NEW B, A \subseteq B, NEW x,
         Selected(cmds, n, d, A, x), NEW c, NEW r \in CommandRows, r.pc # "write"
  PROVE  /\ Selected(cmds, m, e, B, x)
         /\ [ cmds EXCEPT ![c] = r ] \in [Commands -> CommandRows]
         /\ Selected([ cmds EXCEPT ![c] = r ], m, e, B, x)
<1>1. ASSUME NEW k \in Commands, cmds[k].pc = "write"
      PROVE  FactsOf(cmds[k].fills, m, e, B)
  <2>1. cmds[k].fills \in Seq(FillRows)
    BY <1>1, CommandFacts
  <2>2. FactsOf(cmds[k].fills, n, d, A)
    BY <1>1 DEF Selected
  <2> QED BY <2>1, <2>2, FactsStay
<1>2. Selected(cmds, m, e, B, x)
  BY <1>1 DEF Selected
<1>3. [ cmds EXCEPT ![c] = r ] \in [Commands -> CommandRows]
  OBVIOUS
<1>4. \A k \in Commands : [ cmds EXCEPT ![c] = r ][k] = IF k = c THEN r ELSE cmds[k]
  OBVIOUS
<1>5. Selected([ cmds EXCEPT ![c] = r ], m, e, B, x)
  BY <1>2, <1>4 DEF Selected
<1> QED BY <1>2, <1>3, <1>5

\* Of a command that has been overtaken only the facts it has selected are known.
LEMMA OvertakenStays ==
  ASSUME command \in [Commands -> CommandRows], NEW n \in Nat, NEW m \in Nat, n <= m,
         NEW d \in Nat, NEW e \in Nat, d <= e, NEW A, NEW B, A \subseteq B, NEW x, NEW y,
         Selected(command, n, d, A, x)
  PROVE  Overtaken \in [Commands -> CommandRows] /\ Selected(Overtaken, m, e, B, y)
<1>1. ASSUME NEW c \in Commands
      PROVE  /\ Overtaken[c] \in CommandRows
             /\ Overtaken[c].pc = "write" =>
                  FactsOf(Overtaken[c].fills, m, e, B) /\ ~ Overtaken[c].current
  <2>1. PICK r \in CommandRows : r = command[c]
    OBVIOUS
  <2>2. Overtaken[c] = IF r.pc = "write" THEN [ r EXCEPT !.current = FALSE ] ELSE r
    BY <2>1 DEF Overtaken
  <2>3. CASE r.pc = "write"
    <3>1. FactsOf(r.fills, n, d, A)
      BY <2>1, <2>3 DEF Selected
    <3>2. PICK G \in Seq(FillRows) : G = r.fills
      BY <2>3, CommandFacts
    <3>3. FactsOf(G, m, e, B)
      BY <3>1, <3>2, FactsStay
    <3> QED BY <2>2, <2>3, <3>2, <3>3, CommandFacts
  <2>4. CASE r.pc # "write"
    BY <2>2, <2>4
  <2> QED BY <2>3, <2>4
<1>2. Overtaken \in [Commands -> CommandRows]
  BY <1>1 DEF Overtaken
<1>3. Selected(Overtaken, m, e, B, y)
  BY <1>1 DEF Selected
<1> QED BY <1>2, <1>3

-----------------------------------------------------------------------------
(* The invariant at the start, and one action after the other. *)

\* An account opens with its deposit and no fill.
LEMMA InitKeeps == Init => PortfolioInv
<1> SUFFICES ASSUME Init PROVE PortfolioInv
  OBVIOUS
<1>1. PICK r \in CashRows : r = DepositRow(Deposit, 1)
  BY CashAssumption DEF DepositRow, Row, CashRows, CashTypes
<1>2. r.type = "INITIAL_DEPOSIT" /\ r.day = 1 /\ r.amount = Deposit
  BY <1>1 DEF DepositRow, Row
<1>3. ledger = << r >> /\ Len(<< r >>) = 1 /\ << r >>[1] = r /\ << r >> \in Seq(CashRows)
  BY <1>1 DEF Init
<1>4. Len(<< >>) = 0
  OBVIOUS
<1>5. Typed
  <2>1. today \in Days
    BY MarketAssumption DEF Init, Days
  <2>6. applied \subseteq CorpActions /\ stale \in BOOLEAN
    BY DEF Init
  <2>2. << >> \in Seq(FillRows) /\ << >> \in Seq(LotRows) /\ << >> \in Seq(MatchRows)
    OBVIOUS
  <2>3. books \in BooksType
    BY <2>2, CashAssumption DEF Init, BooksType
  <2>4. command \in [Commands -> CommandRows]
    BY DEF Init, idle, CommandRows
  <2>5. used \in [ fill : Nat, step : Nat, command : Nat ]
    BY DEF Init
  <2> QED BY <1>3, <2>1, <2>2, <2>3, <2>4, <2>5, <2>6 DEF Init, Typed
<1>6. FactsOf(fills, used.fill, today, applied)
  BY <1>4 DEF Init, FactsOf, Apart
<1>7. LedgerDated(ledger, today, applied)
  BY <1>2, <1>3 DEF Init, LedgerDated
<1>8. Selected(command, used.fill, today, applied, Weight(Money, ledger))
  BY DEF Init, Selected, idle
<1>9. books.ok /\ BooksOf(fills, books) /\ books.cash = Deposit /\ books.flows = 0
  BY NothingBooked DEF Init
<1>10. Weight(Money, ledger) = Deposit
  <2>1. Money \in [CashRows -> Int] /\ Money[r] = r.amount
    BY MoneySums DEF Money
  <2> QED BY <1>2, <1>3, <2>1, WeightOne
<1>11. books.cash = Weight(Money, ledger) + books.flows
  BY <1>9, <1>10, CashAssumption
<1> QED BY <1>5, <1>6, <1>7, <1>8, <1>9, <1>11 DEF PortfolioInv

\* Numbers given and commands begun are counted up.
LEMMA UsedType ==
  ASSUME NEW u \in [ fill : Nat, step : Nat, command : Nat ], NEW x \in Nat
  PROVE  /\ u.fill \in Nat /\ u.step \in Nat /\ u.command \in Nat
         /\ LET v == [ u EXCEPT !.fill = x, !.step = u.step + 1 ]
            IN v \in [ fill : Nat, step : Nat, command : Nat ] /\ v.fill = x
         /\ LET v == [ u EXCEPT !.command = u.command + 1, !.step = u.step + 1 ]
            IN v \in [ fill : Nat, step : Nat, command : Nat ] /\ v.fill = u.fill
<1>1. u.fill \in Nat /\ u.step \in Nat /\ u.command \in Nat
  OBVIOUS
<1>2. PICK y \in Nat, z \in Nat : y = u.step + 1 /\ z = u.command + 1
  BY <1>1
<1>3. LET v == [ u EXCEPT !.fill = x, !.step = y ]
      IN v \in [ fill : Nat, step : Nat, command : Nat ] /\ v.fill = x
  OBVIOUS
<1>4. LET v == [ u EXCEPT !.command = z, !.step = y ]
      IN v \in [ fill : Nat, step : Nat, command : Nat ] /\ v.fill = u.fill
  OBVIOUS
<1> QED BY <1>1, <1>2, <1>3, <1>4

\* One fill, booked by whatever action.
LEMMA BookKeeps ==
  ASSUME PortfolioInv, NEW f \in FillRows, f.id = used.fill + 1, Dated(f, today, applied),
         NEW cmds \in [Commands -> CommandRows],
         Selected(cmds, used.fill + 1, today, applied, Weight(Money, ledger)), Book(f, cmds)
  PROVE  PortfolioInv'
<1>1. /\ today \in Nat /\ fills \in Seq(FillRows) /\ books \in BooksType /\ used.fill \in Nat
      /\ ledger \in Seq(CashRows)
  BY DEF PortfolioInv, Typed, Days
<1>2. PICK after : after = ApplyFill(books, f)
  OBVIOUS
<1>3. /\ after.ok /\ books' = after /\ fills' = Append(fills, f) /\ command' = cmds
      /\ used' = [ used EXCEPT !.fill = used.fill + 1, !.step = used.step + 1 ]
      /\ today' = today /\ ledger' = ledger /\ applied' = applied /\ stale' = stale
  BY <1>2 DEF Book
<1>4. after \in BooksType
  BY <1>1, <1>2, ApplyFillType
<1>5. BooksOf(Append(fills, f), after)
  <2>1. ASSUME NEW j \in 1 .. Len(fills) PROVE fills[j].id # f.id
    <3>1. PICK x \in Nat : x = fills[j].id
      BY <1>1, Rows, IdsOf
    <3>2. x <= used.fill
      BY <3>1 DEF PortfolioInv, FactsOf
    <3> QED BY <1>1, <3>1, <3>2
  <2> QED BY <1>1, <1>2, <1>3, <2>1, ApplyFillKeeps DEF PortfolioInv
<1>6. FactsOf(Append(fills, f), used.fill + 1, today, applied)
  BY <1>1, FactsAppend DEF PortfolioInv
<1>7. after.cash = books.cash + Flow(f) /\ after.flows = books.flows + Flow(f)
  BY <1>1, <1>2, ApplyFillParts
<1>8. ~ stale => after.cash = Weight(Money, ledger) + after.flows
  <2>1. PICK c \in Int, g \in Int, v \in Int, w \in Int :
          c = books.cash /\ g = books.flows /\ v = Flow(f) /\ w = Weight(Money, ledger)
    BY <1>1, FlowType, MoneySums DEF BooksType
  <2>2. ~ stale => c = w + g
    BY <2>1 DEF PortfolioInv
  <2> QED BY <1>7, <2>1, <2>2
<1>9. used'.fill = used.fill + 1 /\ used' \in [ fill : Nat, step : Nat, command : Nat ]
  <2>1. used \in [ fill : Nat, step : Nat, command : Nat ] /\ used.fill + 1 \in Nat
    BY <1>1 DEF PortfolioInv, Typed
  <2> QED BY <1>3, <2>1, UsedType
<1>10. Append(fills, f) \in Seq(FillRows)
  BY <1>1
<1>11. Typed'
  <2>1. today' \in Days /\ stale' \in BOOLEAN /\ applied' \subseteq CorpActions
        /\ ledger' \in Seq(CashRows)
    BY <1>3 DEF PortfolioInv, Typed, Days
  <2>2. /\ fills' \in Seq(FillRows) /\ books' \in BooksType
        /\ command' \in [Commands -> CommandRows]
        /\ used' \in [ fill : Nat, step : Nat, command : Nat ]
    BY <1>3, <1>4, <1>9, <1>10
  <2> QED BY <2>1, <2>2 DEF Typed, Days
<1> QED BY <1>3, <1>5, <1>6, <1>8, <1>9, <1>11 DEF PortfolioInv

\* A trade of a day that has come.
LEMMA TradeType ==
  ASSUME PortfolioInv, NEW t \in Trades, NEW s \in Buckets, NEW day \in Days, day <= today,
         NEW lt \in BOOLEAN
  PROVE  LET f == Trade(t[1], s, t[2], day, lt)
         IN /\ f \in FillRows /\ f.id = used.fill + 1 /\ Dated(f, today, applied)
            /\ f.at = FillTime(day)
<1>1. /\ t[1] \in {"BUY", "SELL"} /\ t[2] \in Nat /\ t[2] > 0
      /\ PriceOf[day] \in Nat /\ day \in Nat /\ day \in 1 .. today /\ used.fill \in Nat
  BY MarketAssumption DEF Days, PortfolioInv, Typed
<1>2. PICK f : f = Trade(t[1], s, t[2], day, lt)
  OBVIOUS
<1>3. FillTime(day) \in Nat
  BY <1>1 DEF FillTime
<1>4. f \in FillRows /\ f.id = used.fill + 1 /\ f.at = FillTime(day) /\ ~ f.corp
  BY <1>1, <1>2, <1>3 DEF Trade, FillRows
<1>5. Dated(f, today, applied)
  BY <1>1, <1>4 DEF Dated
<1> QED BY <1>2, <1>4, <1>5

\* Commands that have been overtaken by a fact with the next number.
LEMMA OvertakenNext ==
  ASSUME PortfolioInv, NEW m \in Nat, used.fill <= m, NEW B, applied \subseteq B, NEW y
  PROVE  Overtaken \in [Commands -> CommandRows] /\ Selected(Overtaken, m, today, B, y)
<1>1. today \in Nat /\ used.fill \in Nat /\ command \in [Commands -> CommandRows]
  BY DEF PortfolioInv, Typed, Days
<1>2. Selected(command, used.fill, today, applied, Weight(Money, ledger))
  BY DEF PortfolioInv
<1> QED BY <1>1, <1>2, OvertakenStays

\* A fill of the engine, and a fill that is recorded.
LEMMA PostKeeps ==
  ASSUME PortfolioInv, NEW f \in FillRows, f.id = used.fill + 1, Dated(f, today, applied),
         Post(f)
  PROVE  PortfolioInv'
<1>1. used.fill \in Nat
  BY DEF PortfolioInv, Typed
<1>2. PICK cmds : cmds = Overtaken
  OBVIOUS
<1>3. cmds \in [Commands -> CommandRows]
      /\ Selected(cmds, used.fill + 1, today, applied, Weight(Money, ledger))
  BY <1>1, <1>2, OvertakenNext
<1>4. Book(f, cmds)
  BY <1>2 DEF Post
<1> QED BY <1>3, <1>4, BookKeeps

\* The fact of a fill is stored and its books are kept with it (projection.py:44-49).
LEMMA FillKeeps ==
  ASSUME PortfolioInv, NEW t \in Trades,
         \/ \E strategy \in Strategies : EngineFill(t[1], strategy, t[2])
         \/ \E r \in Recorded, day \in Days : RecordFill(t[1], r[1], t[2], day, r[2])
  PROVE  PortfolioInv'
<1>1. ASSUME NEW s \in Strategies, EngineFill(t[1], s, t[2])
      PROVE  PortfolioInv'
  <2>1. today \in Days /\ today <= today /\ s \in Buckets /\ FALSE \in BOOLEAN
    BY DEF PortfolioInv, Typed, Days, Buckets
  <2>2. PICK f : f = Trade(t[1], s, t[2], today, FALSE)
    OBVIOUS
  <2>3. f \in FillRows /\ f.id = used.fill + 1 /\ Dated(f, today, applied)
    BY <2>1, <2>2, TradeType
  <2>4. Post(f)
    BY <1>1, <2>2 DEF EngineFill
  <2> QED BY <2>3, <2>4, PostKeeps
<1>2. ASSUME NEW r \in Recorded, NEW day \in Days, RecordFill(t[1], r[1], t[2], day, r[2])
      PROVE  PortfolioInv'
  <2>1. r[1] \in Buckets /\ r[2] \in BOOLEAN
    BY MarketAssumption DEF Buckets
  <2>2. PICK f : f = Trade(t[1], r[1], t[2], day, r[2])
    OBVIOUS
  <2>3. day <= today /\ Post(f)
    BY <1>2, <2>2 DEF RecordFill
  <2>4. f \in FillRows /\ f.id = used.fill + 1 /\ Dated(f, today, applied)
    BY <2>1, <2>2, <2>3, TradeType
  <2> QED BY <2>3, <2>4, PostKeeps
<1> QED BY <1>1, <1>2

\* What an action pays is a whole amount, not negative.
LEMMA PayoutType ==
  ASSUME NEW a \in CorpActions, NEW lots \in Seq(LotRows)
  PROVE  Payout(a, lots) \in Nat
<1>1. PICK u : u = [ i \in DOMAIN lots |-> lots[i].qty ]
  OBVIOUS
<1>0. Len(lots) \in Nat /\ DOMAIN lots = 1 .. Len(lots)
      /\ \A i \in 1 .. Len(lots) : lots[i] \in LotRows
  BY Rows
<1>2. \A i \in 1 .. Len(lots) : u[i] \in Nat
  BY <1>0, <1>1 DEF LotRows
<1>3. u \in Seq(Int) /\ Len(u) = Len(lots)
  <2>1. DOMAIN u = DOMAIN lots /\ u = [ i \in DOMAIN lots |-> u[i] ]
    BY <1>1
  <2>2. \A i \in 1 .. Len(lots) : u[i] \in Int
    BY <1>2
  <2> QED BY <2>1, <2>2, Column
<1>4. Tally(u) \in Nat
  <2>1. \A i \in 1 .. Len(u) : u[i] >= 0
    BY <1>2, <1>3
  <2> QED BY <1>3, <2>1, TallyNat
<1>5. PICK n \in Nat : n = Tally(u)
  BY <1>4
<1>6. PICK q \in Nat : q = a.cps
  BY ActionFacts
<1>7. 10000 \in Nat \ {0}
  OBVIOUS
<1>8. (n * q) \div 10000 \in Nat
  BY <1>7, PartOf
<1> QED BY <1>1, <1>5, <1>6, <1>8 DEF Payout

\* A corporate action: the lots, the synthetic fills and the cash.
LEMMA ApplyActionKeeps ==
  ASSUME PortfolioInv, NEW a \in CorpActions, NEW now \in Now, ApplyAction(a, now)
  PROVE  PortfolioInv'
<1>1. /\ today \in Nat /\ today > 0 /\ fills \in Seq(FillRows) /\ books \in BooksType
      /\ used.fill \in Nat /\ ledger \in Seq(CashRows) /\ applied \subseteq CorpActions
      /\ books.lots \in Seq(LotRows)
  BY DEF PortfolioInv, Typed, Days, BooksType
<1>2. PICK next : next = used.fill + 1
  OBVIOUS
<1>3. next \in Nat /\ next > 0
  BY <1>1, <1>2
<1>4. now \in Nat
  BY <1>1 DEF Now, StartOf
<1>5. PICK synth, cash :
        /\ synth = SyntheticFills(a, books.lots, next)
        /\ cash = IF a.type \in {"CASH_DIVIDEND", "CAPITAL_REDUCTION"}
                  THEN Payout(a, books.lots) ELSE 0
  OBVIOUS
<1>6. cash \in Nat
  BY <1>1, <1>5, PayoutType
<1>7. PICK total : total = books.cash + cash
  OBVIOUS
<1>8. total \in Int
  BY <1>1, <1>6, <1>7 DEF BooksType
<1>9. PICK after : after = [ books EXCEPT !.lots = LotsAfterAction(a, books.lots, next, now),
                                          !.cash = total ]
  OBVIOUS
<1>10. /\ synth \in Seq(FillRows)
       /\ \A k \in 1 .. Len(synth) :
            synth[k].id = next + k - 1 /\ synth[k].corp /\ synth[k].at = StartOf(a.ex)
       /\ after \in BooksType /\ BooksOf(fills \o synth, after)
  <2>1. ASSUME NEW j \in 1 .. Len(fills) PROVE fills[j].id < next
    <3>1. PICK x \in Nat : x = fills[j].id
      BY <1>1, Rows, IdsOf
    <3>2. x <= used.fill
      BY <3>1 DEF PortfolioInv, FactsOf
    <3> QED BY <1>1, <1>2, <3>1, <3>2
  <2>2. BooksOf(fills, books)
    BY DEF PortfolioInv
  <2> DEFINE kept(F, b, n, t, x) ==
               LET s == SyntheticFills(a, b.lots, n)
                   c == [ b EXCEPT !.lots = LotsAfterAction(a, b.lots, n, t), !.cash = x ]
               IN /\ s \in Seq(FillRows)
                  /\ \A k \in 1 .. Len(s) :
                       s[k].id = n + k - 1 /\ s[k].corp /\ s[k].at = StartOf(a.ex)
                  /\ c \in BooksType /\ BooksOf(F \o s, c)
  <2> HIDE DEF kept
  <2>3. \A F \in Seq(FillRows), b \in BooksType, n \in Nat, t \in Nat, x \in Int :
          n > 0 /\ (\A j \in 1 .. Len(F) : F[j].id < n) /\ BooksOf(F, b) => kept(F, b, n, t, x)
    <3> SUFFICES ASSUME NEW F \in Seq(FillRows), NEW b \in BooksType, NEW n \in Nat,
                        NEW t \in Nat, NEW x \in Int, n > 0,
                        \A j \in 1 .. Len(F) : F[j].id < n, BooksOf(F, b)
                 PROVE  kept(F, b, n, t, x)
      OBVIOUS
    <3> QED BY ActionKeeps DEF kept
  <2>4. kept(fills, books, next, now, total)
    BY <1>1, <1>3, <1>4, <1>8, <2>1, <2>2, <2>3
  <2> QED BY <1>5, <1>9, <2>4 DEF kept
<1>11. Len(synth) \in Nat
  BY <1>10, Rows
<1>12. /\ books' = after /\ fills' = fills \o synth /\ applied' = applied \cup {a}
       /\ ledger' = (IF cash > 0 THEN Append(ledger, PayoutRow(a, cash)) ELSE ledger)
       /\ used' = [ used EXCEPT !.fill = used.fill + Len(synth), !.step = used.step + 1 ]
       /\ command' = Overtaken /\ today' = today /\ stale' = stale
  BY <1>2, <1>5, <1>7, <1>9 DEF ApplyAction
<1>13. FactsOf(fills \o synth, used.fill + Len(synth), today, applied \cup {a})
  <2>1. FactsOf(fills, used.fill, today, applied)
    BY DEF PortfolioInv
  <2> QED BY <1>1, <1>2, <1>10, <2>1, FactsJoin
<1>14. used'.fill = used.fill + Len(synth) /\ used' \in [ fill : Nat, step : Nat, command : Nat ]
  <2>1. used \in [ fill : Nat, step : Nat, command : Nat ]
    BY DEF PortfolioInv, Typed
  <2>2. used.fill + Len(synth) \in Nat
    BY <1>1, <1>11
  <2> QED BY <1>12, <2>1, <2>2, UsedType
<1>15. /\ ledger' \in Seq(CashRows) /\ LedgerDated(ledger', today, applied \cup {a})
       /\ Weight(Money, ledger') = Weight(Money, ledger) + cash
  <2>1. LedgerDated(ledger, today, applied \cup {a})
    BY <1>1, LedgerStays DEF PortfolioInv
  <2>2. PICK r : r = PayoutRow(a, cash)
    OBVIOUS
  <2>3. r \in CashRows /\ r.amount = cash /\ r.day = a.ex
        /\ r.type \notin {"INITIAL_DEPOSIT", "CASH_ADJUSTMENT"}
    BY <1>6, <2>2, ActionFacts DEF PayoutRow, Row, CashRows, CashTypes
  <2>4. PICK L : L = Append(ledger, r)
    OBVIOUS
  <2>5. L \in Seq(CashRows) /\ LedgerDated(L, today, applied \cup {a})
    BY <1>1, <2>1, <2>3, <2>4, LedgerRow
  <2>6. Weight(Money, L) = Weight(Money, ledger) + cash
    BY <1>1, <2>3, <2>4, MoneySums
  <2>7. CASE cash > 0
    BY <1>12, <2>2, <2>4, <2>5, <2>6, <2>7
  <2>8. CASE ~ (cash > 0)
    <3>1. cash = 0 /\ ledger' = ledger
      BY <1>6, <1>12, <2>8
    <3>2. PICK w \in Int : w = Weight(Money, ledger)
      BY <1>1, MoneySums
    <3> QED BY <1>1, <2>1, <3>1, <3>2
  <2> QED BY <2>7, <2>8
<1>16. PICK w : w = Weight(Money, ledger')
  OBVIOUS
<1>17. /\ Overtaken \in [Commands -> CommandRows]
       /\ Selected(Overtaken, used.fill + Len(synth), today, applied \cup {a}, w)
  <2>1. used.fill + Len(synth) \in Nat /\ used.fill <= used.fill + Len(synth)
    BY <1>1, <1>11
  <2> QED BY <2>1, OvertakenNext
<1>18. after.ok = books.ok /\ after.cash = books.cash + cash /\ after.flows = books.flows
  BY <1>1, <1>7, <1>9 DEF BooksType
<1>19. ~ stale => after.cash = w + after.flows
  <2>1. PICK c \in Int, g \in Int, v \in Int :
          c = books.cash /\ g = books.flows /\ v = Weight(Money, ledger)
    BY <1>1, MoneySums DEF BooksType
  <2>2. ~ stale => c = v + g
    BY <2>1 DEF PortfolioInv
  <2> QED BY <1>6, <1>15, <1>16, <1>18, <2>1, <2>2
<1>20. fills \o synth \in Seq(FillRows)
  BY <1>1, <1>10
<1>21. Typed'
  <2>1. today' \in Days /\ stale' \in BOOLEAN
    BY <1>12 DEF PortfolioInv, Typed, Days
  <2>2. applied' \subseteq CorpActions
    BY <1>1, <1>12
  <2>3. /\ fills' \in Seq(FillRows) /\ ledger' \in Seq(CashRows) /\ books' \in BooksType
        /\ command' \in [Commands -> CommandRows]
        /\ used' \in [ fill : Nat, step : Nat, command : Nat ]
    BY <1>10, <1>12, <1>14, <1>15, <1>17, <1>20
  <2> QED BY <2>1, <2>2, <2>3 DEF Typed, Days
<1>22. books.ok
  BY DEF PortfolioInv
<1> QED BY <1>10, <1>12, <1>13, <1>14, <1>15, <1>16, <1>17, <1>18, <1>19, <1>21, <1>22
         DEF PortfolioInv

-----------------------------------------------------------------------------
(* The days, and the commands. *)

\* Only the commands change.
LEMMA CommandKeeps ==
  ASSUME PortfolioInv, command' \in [Commands -> CommandRows],
         Selected(command', used.fill, today, applied, Weight(Money, ledger)),
         used' \in [ fill : Nat, step : Nat, command : Nat ], used'.fill = used.fill,
         UNCHANGED << today, fills, ledger, books, applied, stale >>
  PROVE  PortfolioInv'
<1>1. /\ today' = today /\ fills' = fills /\ ledger' = ledger /\ books' = books
      /\ applied' = applied /\ stale' = stale
  OBVIOUS
<1>2. Typed'
  <2>1. today' \in Days /\ stale' \in BOOLEAN /\ applied' \subseteq CorpActions
    BY <1>1 DEF PortfolioInv, Typed, Days
  <2>2. fills' \in Seq(FillRows) /\ books' \in BooksType /\ ledger' \in Seq(CashRows)
    BY <1>1 DEF PortfolioInv, Typed
  <2> QED BY <2>1, <2>2 DEF Typed, Days
<1> QED BY <1>1, <1>2 DEF PortfolioInv

\* What was used is as it was.
LEMMA SameUsed ==
  ASSUME PortfolioInv, used' = used
  PROVE  used' \in [ fill : Nat, step : Nat, command : Nat ] /\ used'.fill = used.fill
BY DEF PortfolioInv, Typed

\* A command of which nothing is selected yet.
LEMMA StartKeeps ==
  ASSUME PortfolioInv, NEW c, NEW r \in CommandRows, r.pc # "write"
  PROVE  LET cmds == [ command EXCEPT ![c] = r ]
         IN /\ cmds \in [Commands -> CommandRows]
            /\ Selected(cmds, used.fill, today, applied, Weight(Money, ledger))
<1>1. today \in Nat /\ used.fill \in Nat /\ command \in [Commands -> CommandRows]
  BY DEF PortfolioInv, Typed, Days
<1>2. Selected(command, used.fill, today, applied, Weight(Money, ledger))
  BY DEF PortfolioInv
<1>0. PICK A, x : A = applied /\ x = Weight(Money, ledger)
  OBVIOUS
<1>3. PICK n \in Nat, d \in Nat, cmds \in [Commands -> CommandRows] :
        n = used.fill /\ d = today /\ cmds = command
  BY <1>1
<1>4. n <= n /\ d <= d /\ A \subseteq A /\ Selected(cmds, n, d, A, x)
  BY <1>0, <1>2, <1>3
<1>5. /\ [ cmds EXCEPT ![c] = r ] \in [Commands -> CommandRows]
      /\ Selected([ cmds EXCEPT ![c] = r ], n, d, A, x)
  BY <1>4, SelectedStays
<1> QED BY <1>0, <1>3, <1>5

\* A day goes by.
LEMMA NextDayKeeps ==
  ASSUME PortfolioInv, NextDay
  PROVE  PortfolioInv'
<1>1. /\ today' = today + 1 /\ fills' = fills /\ ledger' = ledger /\ books' = books
      /\ applied' = applied /\ stale' = stale /\ command' = command /\ used' = used
  BY DEF NextDay
<1>2. /\ today \in Nat /\ today + 1 \in Days /\ used.fill \in Nat /\ fills \in Seq(FillRows)
      /\ ledger \in Seq(CashRows) /\ command \in [Commands -> CommandRows]
  BY MarketAssumption DEF PortfolioInv, Typed, Days, NextDay
<1>3. PICK d \in Nat : d = today + 1 /\ today <= d
  BY <1>2
<1>4. FactsOf(fills, used.fill, d, applied)
  BY <1>2, <1>3, FactsStay DEF PortfolioInv
<1>5. LedgerDated(ledger, d, applied)
  BY <1>2, <1>3, LedgerStays DEF PortfolioInv
<1>6. Selected(command, used.fill, d, applied, Weight(Money, ledger))
  <2>1. idle \in CommandRows /\ idle.pc # "write"
    BY DEF idle, CommandRows
  <2>2. Selected(command, used.fill, today, applied, Weight(Money, ledger))
    BY DEF PortfolioInv
  <2>0. PICK A, x : A = applied /\ x = Weight(Money, ledger)
    OBVIOUS
  <2>3. PICK n \in Nat, e \in Nat, cmds \in [Commands -> CommandRows] :
          n = used.fill /\ e = today /\ cmds = command
    BY <1>2
  <2>4. n <= n /\ e <= d /\ A \subseteq A /\ Selected(cmds, n, e, A, x)
    BY <1>3, <2>0, <2>2, <2>3
  <2>5. Selected(cmds, n, d, A, x)
    BY <2>1, <2>4, SelectedStays
  <2> QED BY <2>0, <2>3, <2>5
<1>7. Typed'
  <2>1. stale' \in BOOLEAN /\ applied' \subseteq CorpActions /\ today' \in Days
    BY <1>1, <1>2 DEF PortfolioInv, Typed
  <2>2. fills' \in Seq(FillRows) /\ books' \in BooksType /\ ledger' \in Seq(CashRows)
    BY <1>1 DEF PortfolioInv, Typed
  <2>3. /\ command' \in [Commands -> CommandRows]
        /\ used' \in [ fill : Nat, step : Nat, command : Nat ]
    BY <1>1 DEF PortfolioInv, Typed
  <2> QED BY <2>1, <2>2, <2>3 DEF Typed, Days
<1> QED BY <1>1, <1>3, <1>4, <1>5, <1>6, <1>7 DEF PortfolioInv

\* A rebuild in one transaction.
LEMMA RebuildKeeps ==
  ASSUME PortfolioInv, NEW c \in Commands, RebuildProjections(c)
  PROVE  PortfolioInv'
<1>1. PICK r : r = [ pc |-> "read" ]
  OBVIOUS
<1>2. r \in CommandRows /\ r.pc # "write"
  BY <1>1 DEF CommandRows
<1>3. command' = [ command EXCEPT ![c] = r ]
  BY <1>1 DEF RebuildProjections
<1>4. used' = [ used EXCEPT !.command = used.command + 1, !.step = used.step + 1 ]
  BY DEF RebuildProjections
<1>5. used' \in [ fill : Nat, step : Nat, command : Nat ] /\ used'.fill = used.fill
  <2>1. used \in [ fill : Nat, step : Nat, command : Nat ]
    BY DEF PortfolioInv, Typed
  <2> QED BY <1>4, <2>1, UsedType
<1>6. /\ command' \in [Commands -> CommandRows]
      /\ Selected(command', used.fill, today, applied, Weight(Money, ledger))
  BY <1>2, <1>3, StartKeeps
<1> QED BY <1>5, <1>6, CommandKeeps DEF RebuildProjections

\* A command that changes the facts, and goes on to read them.
LEMMA BeginKeeps ==
  ASSUME PortfolioInv, NEW c \in Commands, Begin(c, "read"), NEW y
  PROVE  /\ command' \in [Commands -> CommandRows]
         /\ Selected(command', used.fill, today, applied, y)
         /\ used' \in [ fill : Nat, step : Nat, command : Nat ] /\ used'.fill = used.fill
<1>1. today \in Nat /\ used.fill \in Nat /\ used \in [ fill : Nat, step : Nat, command : Nat ]
  BY DEF PortfolioInv, Typed, Days
<1>2. PICK cmds, r : cmds = Overtaken /\ r = [ pc |-> "read" ]
  OBVIOUS
<1>3. cmds \in [Commands -> CommandRows] /\ Selected(cmds, used.fill, today, applied, y)
  BY <1>1, <1>2, OvertakenNext
<1>4. r \in CommandRows /\ r.pc # "write"
  BY <1>2 DEF CommandRows
<1>5. /\ command' = [ cmds EXCEPT ![c] = r ]
      /\ used' = [ used EXCEPT !.command = used.command + 1, !.step = used.step + 1 ]
  BY <1>2 DEF Begin
<1>6. /\ [ cmds EXCEPT ![c] = r ] \in [Commands -> CommandRows]
      /\ Selected([ cmds EXCEPT ![c] = r ], used.fill, today, applied, y)
  <2>0. PICK A : A = applied
    OBVIOUS
  <2>1. PICK n \in Nat, d \in Nat : n = used.fill /\ d = today
    BY <1>1
  <2>2. n <= n /\ d <= d /\ A \subseteq A /\ Selected(cmds, n, d, A, y)
    BY <1>3, <2>0, <2>1
  <2>3. /\ [ cmds EXCEPT ![c] = r ] \in [Commands -> CommandRows]
        /\ Selected([ cmds EXCEPT ![c] = r ], n, d, A, y)
    BY <1>3, <1>4, <2>2, SelectedStays
  <2> QED BY <2>0, <2>1, <2>3
<1>7. used' \in [ fill : Nat, step : Nat, command : Nat ] /\ used'.fill = used.fill
  BY <1>1, <1>5, UsedType
<1> QED BY <1>5, <1>6, <1>7

\* The cash commands.
LEMMA CashKeeps ==
  ASSUME PortfolioInv, NEW c \in Commands, Begin(c, "read"),
         NEW L \in Seq(CashRows), LedgerDated(L, today, applied), ledger' = L, stale' = TRUE,
         UNCHANGED << today, fills, books, applied, order >>
  PROVE  PortfolioInv'
<1>1. /\ command' \in [Commands -> CommandRows]
      /\ Selected(command', used.fill, today, applied, Weight(Money, L))
      /\ used' \in [ fill : Nat, step : Nat, command : Nat ] /\ used'.fill = used.fill
  BY BeginKeeps
<1>2. today' = today /\ fills' = fills /\ books' = books /\ applied' = applied
  OBVIOUS
<1>3. Typed'
  <2>1. today' \in Days /\ stale' \in BOOLEAN /\ applied' \subseteq CorpActions
    BY <1>2 DEF PortfolioInv, Typed, Days
  <2>2. fills' \in Seq(FillRows) /\ books' \in BooksType /\ ledger' \in Seq(CashRows)
    BY <1>2 DEF PortfolioInv, Typed
  <2> QED BY <1>1, <2>1, <2>2 DEF Typed, Days
<1> QED BY <1>1, <1>2, <1>3 DEF PortfolioInv

\* account adjust: a fact of the strategy that asks for it.
LEMMA AdjustKeeps ==
  ASSUME PortfolioInv, NEW c \in Commands, NEW amount \in Amounts, Adjust(c, amount)
  PROVE  PortfolioInv'
<1>1. PICK sum \in { amount, - amount } : ledger' = Append(ledger, AdjustmentRow(sum, today))
  BY DEF Adjust
<1>2. sum \in Int
  BY CashAssumption
<1>3. today \in Nat /\ today \in 1 .. today /\ ledger \in Seq(CashRows)
  BY DEF PortfolioInv, Typed, Days
<1>4. PICK r : r = AdjustmentRow(sum, today)
  OBVIOUS
<1>5. r \in CashRows /\ r.type = "CASH_ADJUSTMENT" /\ r.day = today
  BY <1>2, <1>3, <1>4 DEF AdjustmentRow, Row, CashRows, CashTypes
<1>6. Append(ledger, r) \in Seq(CashRows) /\ LedgerDated(Append(ledger, r), today, applied)
  BY <1>3, <1>5, LedgerRow DEF PortfolioInv
<1>7. PICK L : L = Append(ledger, r)
  OBVIOUS
<1>8. L \in Seq(CashRows) /\ LedgerDated(L, today, applied) /\ ledger' = L
  BY <1>1, <1>4, <1>6, <1>7
<1>9. /\ Begin(c, "read") /\ stale' = TRUE
      /\ UNCHANGED << today, fills, books, applied, order >>
  BY DEF Adjust
<1> QED BY <1>8, <1>9, CashKeeps

\* account adjust-cash: a row of the ledger, then a rebuild.
LEMMA AdjustCashKeeps ==
  ASSUME PortfolioInv, NEW c \in Commands, NEW amount \in Amounts, AdjustCash(c, amount)
  PROVE  PortfolioInv'
<1>1. PICK S : S = { r \in ToSet(ledger) : r.type # "INITIAL_DEPOSIT" }
  OBVIOUS
<1>2. PICK M : M = Only(ledger, S)
  OBVIOUS
<1>3. today \in Nat /\ today \in 1 .. today /\ ledger \in Seq(CashRows) /\ amount \in Int
  BY CashAssumption DEF PortfolioInv, Typed, Days
<1>4. M \in Seq(CashRows)
  BY <1>2, <1>3, OnlyType
<1>5. LedgerDated(M, today, applied)
  <2>1. PICK h : Stands(h, M, ledger, S)
    BY <1>2, <1>3, OnlyStands
  <2>2. \A k \in 1 .. Len(M) : h[k] \in 1 .. Len(ledger) /\ M[k] = ledger[h[k]]
    BY <2>1 DEF Stands
  <2> QED BY <2>2 DEF LedgerDated, PortfolioInv
<1>6. PICK r : r = DepositRow(amount, today)
  OBVIOUS
<1>7. r \in CashRows /\ r.type = "INITIAL_DEPOSIT" /\ r.day = today
  BY <1>3, <1>6 DEF DepositRow, Row, CashRows, CashTypes
<1>8. Append(M, r) \in Seq(CashRows) /\ LedgerDated(Append(M, r), today, applied)
  BY <1>3, <1>4, <1>5, <1>7, LedgerRow
<1>9. PICK L : L = Append(M, r)
  OBVIOUS
<1>10. L \in Seq(CashRows) /\ LedgerDated(L, today, applied) /\ ledger' = L
  BY <1>1, <1>2, <1>6, <1>8, <1>9 DEF AdjustCash
<1>11. /\ Begin(c, "read") /\ stale' = TRUE
       /\ UNCHANGED << today, fills, books, applied, order >>
  BY DEF AdjustCash
<1> QED BY <1>10, <1>11, CashKeeps

\* Nothing in the books depends on the flags of the fills.
Flagged(G, F) ==
  /\ G \in Seq(FillRows) /\ Len(G) = Len(F)
  /\ \A i \in 1 .. Len(F) : /\ G[i].id = F[i].id /\ G[i].side = F[i].side
                            /\ G[i].strategy = F[i].strategy /\ G[i].qty = F[i].qty
                            /\ G[i].corp = F[i].corp /\ G[i].price = F[i].price
                            /\ G[i].at = F[i].at

\* New flags leave the shares and the numbers of the fills as they are.
LEMMA FlagRows ==
  ASSUME NEW F \in Seq(FillRows), NEW s, NEW value \in BOOLEAN
  PROVE  Flagged([ i \in DOMAIN F |-> IF F[i].strategy = s THEN [ F[i] EXCEPT !.lt = value ]
                                      ELSE F[i] ], F)
<1>1. PICK n, G : n = Len(F) /\ G = [ i \in DOMAIN F |->
                   IF F[i].strategy = s THEN [ F[i] EXCEPT !.lt = value ] ELSE F[i] ]
  OBVIOUS
<1>2. n \in Nat /\ DOMAIN F = 1 .. n /\ \A i \in 1 .. n : F[i] \in FillRows
  BY <1>1, Rows
<1>3. ASSUME NEW i \in 1 .. n
      PROVE  /\ G[i] \in FillRows /\ G[i].id = F[i].id /\ G[i].side = F[i].side
             /\ G[i].strategy = F[i].strategy /\ G[i].qty = F[i].qty
             /\ G[i].corp = F[i].corp /\ G[i].price = F[i].price /\ G[i].at = F[i].at
  <2>1. PICK f \in FillRows : f = F[i]
    BY <1>2
  <2>2. G[i] = f \/ G[i] = [ f EXCEPT !.lt = value ]
    BY <1>1, <1>2, <2>1
  <2>3. [ f EXCEPT !.lt = value ] \in FillRows
    BY DEF FillRows
  <2>4. /\ [ f EXCEPT !.lt = value ].id = f.id /\ [ f EXCEPT !.lt = value ].side = f.side
        /\ [ f EXCEPT !.lt = value ].strategy = f.strategy
        /\ [ f EXCEPT !.lt = value ].qty = f.qty /\ [ f EXCEPT !.lt = value ].corp = f.corp
        /\ [ f EXCEPT !.lt = value ].price = f.price /\ [ f EXCEPT !.lt = value ].at = f.at
    BY DEF FillRows
  <2> QED BY <2>1, <2>2, <2>3, <2>4
<1>4. G \in [1 .. n -> FillRows]
  <2>1. G = [ i \in 1 .. n |-> G[i] ]
    BY <1>1, <1>2
  <2> QED BY <1>3, <2>1
<1>5. G \in Seq(FillRows) /\ Len(G) = n
  BY <1>2, <1>4, FcnSeq
<1> QED BY <1>1, <1>3, <1>5 DEF Flagged

\* A sum that does not look at the flags is the same after new ones.
LEMMA FlagWeights ==
  ASSUME NEW F \in Seq(FillRows), NEW G, Flagged(G, F)
  PROVE  /\ Weight(Flows, G) = Weight(Flows, F)
         /\ \A S : Weight(Bought(S), G) = Weight(Bought(S), F)
<1>1. /\ G \in Seq(FillRows) /\ DOMAIN G = DOMAIN F
      /\ \A i \in DOMAIN F : F[i] \in FillRows /\ G[i] \in FillRows
  BY Rows DEF Flagged
<1>2. \A i \in DOMAIN F : /\ G[i].side = F[i].side /\ G[i].strategy = F[i].strategy
                          /\ G[i].qty = F[i].qty /\ G[i].corp = F[i].corp
                          /\ G[i].price = F[i].price
  BY Rows DEF Flagged
<1>3. \A i \in DOMAIN F : Flows[G[i]] = Flows[F[i]]
  BY <1>1, <1>2 DEF Flows, Flow, Value
<1>4. \A S : \A i \in DOMAIN F : Bought(S)[G[i]] = Bought(S)[F[i]]
  BY <1>1, <1>2 DEF Bought, Signed
<1>5. Weights(Flows, G) = Weights(Flows, F)
  BY <1>1, <1>3 DEF Weights
<1>6. \A S : Weights(Bought(S), G) = Weights(Bought(S), F)
  BY <1>1, <1>4 DEF Weights
<1> QED BY <1>5, <1>6 DEF Weight

\* Books and facts agree after new flags as they did before.
LEMMA FlagKeeps ==
  ASSUME NEW F \in Seq(FillRows), NEW G, Flagged(G, F)
  PROVE  /\ \A b : BooksOf(F, b) => BooksOf(G, b)
         /\ \A n, d, A : FactsOf(F, n, d, A) => FactsOf(G, n, d, A)
<1>1. /\ G \in Seq(FillRows) /\ Len(G) = Len(F)
      /\ \A i \in 1 .. Len(F) : F[i] \in FillRows /\ G[i] \in FillRows
  BY Rows DEF Flagged
<1>2. \A i \in 1 .. Len(F) : /\ G[i].id = F[i].id /\ G[i].side = F[i].side
                             /\ G[i].strategy = F[i].strategy /\ G[i].qty = F[i].qty
                             /\ G[i].corp = F[i].corp /\ G[i].at = F[i].at
  BY DEF Flagged
<1>3. \A x, s : IsBuy(F, x, s) => IsBuy(G, x, s)
  BY <1>1, <1>2 DEF IsBuy
<1>4. \A lots : LotsOf(F, lots) => LotsOf(G, lots)
  BY <1>3 DEF LotsOf
<1>5. \A m : MatchOf(F, m) => MatchOf(G, m)
  BY <1>1, <1>2, <1>3 DEF MatchOf
<1>6. \A matches : MatchesOf(F, matches) => MatchesOf(G, matches)
  BY <1>5 DEF MatchesOf
<1>7. \A lots, matches : BoughtOnce(F, lots, matches) => BoughtOnce(G, lots, matches)
  BY <1>1, <1>2 DEF BoughtOnce
<1>8. \A matches : SoldOnce(F, matches) => SoldOnce(G, matches)
  BY <1>1, <1>2 DEF SoldOnce
<1>9. \A lots : BalanceOf(F, lots) => BalanceOf(G, lots)
  BY FlagWeights DEF BalanceOf
<1>10. \A b : BooksOf(F, b) => BooksOf(G, b)
  BY <1>4, <1>6, <1>7, <1>8, <1>9, FlagWeights DEF BooksOf
<1>11. \A i \in 1 .. Len(F) : Ids[G[i]] = Ids[F[i]]
  BY <1>1, <1>2, IdsOf
<1>12. \A d, A : \A i \in 1 .. Len(F) : Dated(F[i], d, A) => Dated(G[i], d, A)
  BY <1>2 DEF Dated
<1>13. ASSUME NEW n, NEW d, NEW A, FactsOf(F, n, d, A) PROVE FactsOf(G, n, d, A)
  <2>1. Apart(Ids, G)
    BY <1>1, <1>11, <1>13 DEF FactsOf, Apart
  <2> QED BY <1>1, <1>2, <1>12, <1>13, <2>1 DEF FactsOf
<1> QED BY <1>10, <1>13

\* set_long_term: the flags of a strategy, and a rebuild to come.
LEMMA SetLongTermKeeps ==
  ASSUME PortfolioInv, NEW c \in Commands, NEW s \in Buckets, NEW value \in BOOLEAN,
         SetLongTerm(c, s, value)
  PROVE  PortfolioInv'
<1>1. PICK G : G = [ i \in DOMAIN fills |->
                       IF fills[i].strategy = s THEN [ fills[i] EXCEPT !.lt = value ] ELSE fills[i] ]
  OBVIOUS
<1>2. fills \in Seq(FillRows)
  BY DEF PortfolioInv, Typed
<1>3. Flagged(G, fills)
  BY <1>1, <1>2, FlagRows
<1>4. FactsOf(G, used.fill, today, applied) /\ BooksOf(G, books) /\ G \in Seq(FillRows)
  BY <1>2, <1>3, FlagKeeps DEF PortfolioInv, Flagged
<1>5. /\ Begin(c, "read") /\ fills' = G /\ stale' = TRUE /\ today' = today /\ ledger' = ledger
      /\ books' = books /\ applied' = applied
  BY <1>1 DEF SetLongTerm
<1>6. /\ command' \in [Commands -> CommandRows]
      /\ Selected(command', used.fill, today, applied, Weight(Money, ledger))
      /\ used' \in [ fill : Nat, step : Nat, command : Nat ] /\ used'.fill = used.fill
  BY <1>5, BeginKeeps
<1>7. Typed'
  <2>1. today' \in Days /\ stale' \in BOOLEAN /\ applied' \subseteq CorpActions
    BY <1>5 DEF PortfolioInv, Typed, Days
  <2>2. fills' \in Seq(FillRows) /\ books' \in BooksType /\ ledger' \in Seq(CashRows)
    BY <1>4, <1>5 DEF PortfolioInv, Typed
  <2> QED BY <1>6, <2>1, <2>2 DEF Typed, Days
<1> QED BY <1>4, <1>5, <1>6, <1>7 DEF PortfolioInv

\* What is sold first, and what is left to sell.
LEMMA NextOrder ==
  ASSUME NEW q \in Seq(Orders), q # << >>
  PROVE  /\ Head(q).strategy \in Buckets /\ Head(q).qty \in Nat /\ Head(q).qty > 0
         /\ Tail(q) \in Seq(Orders)
<1>1. Head(q) \in Orders /\ Tail(q) \in Seq(Orders)
  BY HeadTailProperties
<1> QED BY <1>1 DEF Orders

\* What close-all finds: a bucket each, with the shares that are not long-term.
ToSell(lots, s) ==
  Tally([ i \in DOMAIN lots |->
            IF lots[i].strategy = s /\ ~ lots[i].lt THEN lots[i].qty ELSE 0 ])

BucketsToSell(lots) == Only(SetToSeq(Buckets), { s \in Buckets : ToSell(lots, s) > 0 })

OrdersFor(lots) ==
  [ k \in DOMAIN BucketsToSell(lots) |->
      [ strategy |-> BucketsToSell(lots)[k], qty |-> ToSell(lots, BucketsToSell(lots)[k]) ] ]

\* trade close-all asks for whole numbers of shares of known strategies.
LEMMA OrderRows ==
  ASSUME NEW lots \in Seq(LotRows)
  PROVE  OrdersFor(lots) \in Seq(Orders)
<1> DEFINE held(s) == ToSell(lots, s)
<1>0. PICK open : open = BucketsToSell(lots)
  OBVIOUS
<1>1. IsFiniteSet(Buckets)
  <2>1. IsFiniteSet({MANUAL})
    BY FS_Singleton
  <2> QED BY <2>1, MarketAssumption, FS_Union DEF Buckets
<1>2. SetToSeq(Buckets) \in Seq(Buckets)
  BY <1>1, Listed
<1>3. PICK S : S = { s \in Buckets : held(s) > 0 }
  OBVIOUS
<1>4. open \in Seq(Buckets)
  BY <1>0, <1>2, <1>3, OnlyType DEF BucketsToSell
<1>5. \A k \in 1 .. Len(open) : open[k] \in S
  <2>1. PICK h : Stands(h, open, SetToSeq(Buckets), S)
    BY <1>0, <1>2, <1>3, OnlyStands DEF BucketsToSell
  <2> QED BY <2>1 DEF Stands
<1>6. ASSUME NEW s PROVE held(s) \in Int
  <2>0. Len(lots) \in Nat /\ DOMAIN lots = 1 .. Len(lots)
        /\ \A i \in 1 .. Len(lots) : lots[i] \in LotRows
    BY Rows
  <2>1. PICK u : u = [ i \in DOMAIN lots |->
                         IF lots[i].strategy = s /\ ~ lots[i].lt THEN lots[i].qty ELSE 0 ]
    OBVIOUS
  <2>2. \A i \in 1 .. Len(lots) : u[i] \in Int
    BY <2>0, <2>1 DEF LotRows
  <2>3. DOMAIN u = DOMAIN lots /\ u = [ i \in DOMAIN lots |-> u[i] ]
    BY <2>1
  <2>4. u \in Seq(Int)
    BY <2>2, <2>3, Column
  <2> QED BY <2>1, <2>4, TallyType DEF ToSell
<1>7. PICK n : n = Len(open)
  OBVIOUS
<1>8. n \in Nat /\ DOMAIN open = 1 .. n
  BY <1>4, <1>7, Rows
<1>9. ASSUME NEW k \in 1 .. n
      PROVE  [ strategy |-> open[k], qty |-> held(open[k]) ] \in Orders
  <2>1. PICK s \in Buckets : s = open[k] /\ held(s) > 0
    BY <1>3, <1>5, <1>7
  <2>2. PICK q \in Int : q = held(s)
    BY <1>6
  <2>3. q > 0
    BY <2>1, <2>2
  <2>4. q \in Nat \ {0}
    BY <2>3
  <2>5. [ strategy |-> s, qty |-> q ] \in Orders
    BY <2>4 DEF Orders
  <2> QED BY <2>1, <2>2, <2>5
<1>10. PICK orders : orders = [ k \in DOMAIN open |-> [ strategy |-> open[k], qty |-> held(open[k]) ] ]
  OBVIOUS
<1>11. orders \in [1 .. n -> Orders]
  BY <1>8, <1>9, <1>10
<1>12. orders \in Seq(Orders)
  BY <1>8, <1>11, FcnSeq
<1> QED BY <1>0, <1>10, <1>12 DEF OrdersFor

\* trade close-all makes its list.
LEMMA CloseAllKeeps ==
  ASSUME PortfolioInv, NEW c \in Commands, CloseAll(c)
  PROVE  PortfolioInv'
<1>1. PICK orders : orders = OrdersFor(books.lots)
  OBVIOUS
<1>2. books.lots \in Seq(LotRows)
  BY DEF PortfolioInv, Typed, BooksType
<1>3. orders \in Seq(Orders)
  BY <1>1, <1>2, OrderRows
<1>4. /\ orders # << >>
      /\ command' = [ command EXCEPT ![c] = [ pc |-> "close", orders |-> orders ] ]
      /\ used' = [ used EXCEPT !.command = used.command + 1, !.step = used.step + 1 ]
      /\ UNCHANGED << today, fills, ledger, books, applied, stale >>
  BY <1>1 DEF CloseAll, OrdersFor, BucketsToSell, ToSell
<1>5. PICK r : r = [ pc |-> "close", orders |-> orders ]
  OBVIOUS
<1>6. r \in CommandRows /\ r.pc # "write"
  BY <1>3, <1>4, <1>5 DEF CommandRows
<1>7. used' \in [ fill : Nat, step : Nat, command : Nat ] /\ used'.fill = used.fill
  <2>1. used \in [ fill : Nat, step : Nat, command : Nat ]
    BY DEF PortfolioInv, Typed
  <2> QED BY <1>4, <2>1, UsedType
<1>8. /\ command' \in [Commands -> CommandRows]
      /\ Selected(command', used.fill, today, applied, Weight(Money, ledger))
  BY <1>4, <1>5, <1>6, StartKeeps
<1> QED BY <1>4, <1>7, <1>8, CommandKeeps

\* trade close-all sells the next of its list.
LEMMA CloseNextKeeps ==
  ASSUME PortfolioInv, NEW c \in Commands, CloseNext(c)
  PROVE  PortfolioInv'
<1>1. PICK q \in Seq(Orders) : q = command[c].orders /\ q # << >>
  <2>1. PICK r \in CommandRows : r = command[c]
    BY DEF PortfolioInv, Typed
  <2>2. r.pc = "close"
    BY <2>1 DEF CloseNext
  <2> QED BY <2>1, <2>2, CommandFacts
<1>2. PICK o, rest : o = Head(q) /\ rest = Tail(q)
  OBVIOUS
<1>0. rest \in Seq(Orders)
  BY <1>1, <1>2, NextOrder
<1>3. o.strategy \in Buckets /\ o.qty \in Nat /\ o.qty > 0
  BY <1>1, <1>2, NextOrder
<1>4. PICK f : f = [ Trade("SELL", o.strategy, o.qty, today, FALSE) EXCEPT !.urgent = TRUE ]
  OBVIOUS
<1>5. PICK r : r = IF rest = << >> THEN idle ELSE [ pc |-> "close", orders |-> rest ]
  OBVIOUS
<1>6. r \in CommandRows /\ r.pc # "write" /\ idle \in CommandRows /\ idle.pc # "write"
  BY <1>0, <1>5 DEF idle, CommandRows
<1>7. \/ Book(f, [ Overtaken EXCEPT ![c] = r ])
      \/ /\ command' = [ command EXCEPT ![c] = r ] \/ command' = [ command EXCEPT ![c] = idle ]
         /\ UNCHANGED << today, fills, ledger, books, applied, used, stale, order >>
  BY <1>1, <1>2, <1>4, <1>5 DEF CloseNext
<1>8. ASSUME Book(f, [ Overtaken EXCEPT ![c] = r ])
      PROVE  PortfolioInv'
  <2>1. /\ today \in Days /\ today \in Nat /\ today \in 1 .. today /\ used.fill \in Nat
        /\ PriceOf[today] \in Nat
    BY MarketAssumption DEF PortfolioInv, Typed, Days
  <2>2. FillTime(today) \in Nat
    BY <2>1 DEF FillTime
  <2>3. /\ f = [ id |-> used.fill + 1, side |-> "SELL", strategy |-> o.strategy, qty |-> o.qty,
                 price |-> PriceOf[today], at |-> FillTime(today), lt |-> FALSE,
                 corp |-> FALSE, urgent |-> TRUE ]
    BY <1>4 DEF Trade
  <2>4. f \in FillRows /\ f.id = used.fill + 1 /\ ~ f.corp /\ f.at = FillTime(today)
    BY <1>3, <2>1, <2>2, <2>3 DEF FillRows
  <2>5. Dated(f, today, applied)
    BY <2>1, <2>4 DEF Dated
  <2>6. PICK over, cmds : over = Overtaken /\ cmds = [ over EXCEPT ![c] = r ]
    OBVIOUS
  <2>7. PICK n \in Nat, d \in Nat : n = used.fill + 1 /\ d = today
    BY <2>1
  <2>8. PICK A, y : A = applied /\ y = Weight(Money, ledger)
    OBVIOUS
  <2>9. over \in [Commands -> CommandRows] /\ Selected(over, n, d, A, y)
    <3>1. used.fill <= n /\ applied \subseteq A
      BY <2>1, <2>7, <2>8
    <3> QED BY <2>6, <2>7, <3>1, OvertakenNext
  <2>10. cmds \in [Commands -> CommandRows] /\ Selected(cmds, n, d, A, y)
    <3>1. n <= n /\ d <= d /\ A \subseteq A
      OBVIOUS
    <3> QED BY <1>6, <2>6, <2>9, <3>1, SelectedStays
  <2>11. Book(f, cmds)
    BY <1>8, <2>6
  <2> QED BY <2>4, <2>5, <2>7, <2>8, <2>10, <2>11, BookKeeps
<1>9. ASSUME command' = [ command EXCEPT ![c] = r ] \/ command' = [ command EXCEPT ![c] = idle ],
             UNCHANGED << today, fills, ledger, books, applied, used, stale, order >>
      PROVE  PortfolioInv'
  <2>1. /\ command' \in [Commands -> CommandRows]
        /\ Selected(command', used.fill, today, applied, Weight(Money, ledger))
    <3>1. CASE command' = [ command EXCEPT ![c] = r ]
      BY <1>6, <3>1, StartKeeps
    <3>2. CASE command' = [ command EXCEPT ![c] = idle ]
      BY <1>6, <3>2, StartKeeps
    <3> QED BY <1>9, <3>1, <3>2
  <2>2. used' \in [ fill : Nat, step : Nat, command : Nat ] /\ used'.fill = used.fill
    BY <1>9, SameUsed
  <2> QED BY <1>9, <2>1, <2>2, CommandKeeps
<1> QED BY <1>7, <1>8, <1>9

\* A rebuild has read its facts and has not written yet.
LEMMA ReadKeeps ==
  ASSUME PortfolioInv, NEW c \in Commands, Read(c)
  PROVE  PortfolioInv'
<1>1. PICK r : r = [ pc |-> "write", fills |-> fills, opening |-> Opening, current |-> TRUE ]
  OBVIOUS
<1>2. ledger \in Seq(CashRows) /\ fills \in Seq(FillRows)
      /\ command \in [Commands -> CommandRows]
  BY DEF PortfolioInv, Typed
<1>3. Opening = Weight(Money, ledger) /\ Opening \in Int
  BY <1>2, OpeningIs, MoneySums DEF Opening
<1>4. /\ r.fills = fills /\ r.opening = Weight(Money, ledger) /\ r.current /\ r.pc = "write"
      /\ r \in CommandRows
  BY <1>1, <1>2, <1>3 DEF CommandRows
<1>5. /\ command' = [ command EXCEPT ![c] = r ]
      /\ UNCHANGED << today, fills, ledger, books, applied, used, stale, order >>
  BY <1>1 DEF Read
<1>6. command' \in [Commands -> CommandRows]
  BY <1>2, <1>4, <1>5
<1>7. Selected(command', used.fill, today, applied, Weight(Money, ledger))
  <2>1. \A k \in Commands : command'[k] = IF k = c THEN r ELSE command[k]
    BY <1>2, <1>5
  <2> QED BY <1>4, <2>1 DEF PortfolioInv, Selected
<1>8. used' \in [ fill : Nat, step : Nat, command : Nat ] /\ used'.fill = used.fill
  BY <1>5, SameUsed
<1> QED BY <1>5, <1>6, <1>7, <1>8, CommandKeeps

\* The transaction of a rebuild writes what follows from the facts it selected.
LEMMA WriteKeeps ==
  ASSUME PortfolioInv, NEW c \in Commands, Write(c)
  PROVE  PortfolioInv'
<1>1. PICK F, opening : F = command[c].fills /\ opening = command[c].opening
  OBVIOUS
<1>2. /\ today \in Nat /\ used.fill \in Nat /\ applied \subseteq CorpActions
      /\ ledger \in Seq(CashRows) /\ used \in [ fill : Nat, step : Nat, command : Nat ]
  BY DEF PortfolioInv, Typed, Days
<1>3. F \in Seq(FillRows) /\ opening \in Int /\ command[c].current \in BOOLEAN
  <2>1. PICK r \in CommandRows : r = command[c]
    BY DEF PortfolioInv, Typed
  <2>2. r.pc = "write"
    BY <2>1 DEF Write
  <2> QED BY <1>1, <2>1, <2>2, CommandFacts
<1>4. /\ FactsOf(F, used.fill, today, applied)
      /\ command[c].current => opening = Weight(Money, ledger)
  BY <1>1 DEF PortfolioInv, Selected, Write
<1>5. PICK after, G : after = Replay(F, applied, opening) /\ G = InTime(F)
  OBVIOUS
<1>6. /\ after.ok /\ books' = after /\ fills' = G /\ stale' = ~ command[c].current
      /\ command' = [ Overtaken EXCEPT ![c] = idle ]
      /\ today' = today /\ ledger' = ledger /\ applied' = applied /\ used' = used
  BY <1>1, <1>5 DEF Write
<1>7. Apart(Ids, F)
  BY <1>4 DEF FactsOf
<1>8. /\ after \in BooksType /\ after.cash = opening + after.flows
      /\ BooksOf(G, after)
  BY <1>2, <1>3, <1>5, <1>6, <1>7, ReplayKeeps
<1>9. G \in Seq(FillRows) /\ Apart(Ids, G) /\ Within(G, F)
  BY <1>3, <1>5, <1>7, InTimeRows
<1>10. FactsOf(G, used.fill, today, applied)
  BY <1>3, <1>4, <1>9, FactsWithin
<1>11. ~ stale' => after.cash = Weight(Money, ledger) + after.flows
  BY <1>3, <1>4, <1>6, <1>8
<1>12. /\ command' \in [Commands -> CommandRows]
       /\ Selected(command', used.fill, today, applied, Weight(Money, ledger))
  <2>1. PICK over : over = Overtaken
    OBVIOUS
  <2>2. PICK n \in Nat, d \in Nat : n = used.fill /\ d = today
    BY <1>2
  <2>3. PICK A, y : A = applied /\ y = Weight(Money, ledger)
    OBVIOUS
  <2>4. over \in [Commands -> CommandRows] /\ Selected(over, n, d, A, y)
    <3>1. used.fill <= n /\ applied \subseteq A
      BY <1>2, <2>2, <2>3
    <3> QED BY <2>1, <2>2, <3>1, OvertakenNext
  <2>5. idle \in CommandRows /\ idle.pc # "write"
    BY DEF idle, CommandRows
  <2>6. n <= n /\ d <= d /\ A \subseteq A
    OBVIOUS
  <2>7. PICK cmds : cmds = [ over EXCEPT ![c] = idle ]
    OBVIOUS
  <2>8. cmds \in [Commands -> CommandRows] /\ Selected(cmds, n, d, A, y)
    BY <2>4, <2>5, <2>6, <2>7, SelectedStays
  <2> QED BY <1>6, <2>1, <2>2, <2>3, <2>7, <2>8
<1>13. Typed'
  <2>1. today' \in Days /\ stale' \in BOOLEAN /\ applied' \subseteq CorpActions
    BY <1>3, <1>6 DEF PortfolioInv, Typed, Days
  <2>2. fills' \in Seq(FillRows) /\ books' \in BooksType /\ ledger' \in Seq(CashRows)
    BY <1>2, <1>6, <1>8, <1>9
  <2>3. used' \in [ fill : Nat, step : Nat, command : Nat ]
    BY <1>2, <1>6
  <2> QED BY <1>12, <2>1, <2>2, <2>3 DEF Typed, Days
<1> QED BY <1>6, <1>8, <1>10, <1>11, <1>12, <1>13 DEF PortfolioInv

\* A command that fails or dies.
LEMMA EndKeeps ==
  ASSUME PortfolioInv, NEW c \in Commands, WriteFails(c) \/ Crash(c)
  PROVE  PortfolioInv'
<1>1. /\ command' = [ command EXCEPT ![c] = idle ]
      /\ UNCHANGED << today, fills, ledger, books, applied, used, stale, order >>
  BY DEF WriteFails, Crash
<1>2. idle \in CommandRows /\ idle.pc # "write"
  BY DEF idle, CommandRows
<1>3. /\ command' \in [Commands -> CommandRows]
      /\ Selected(command', used.fill, today, applied, Weight(Money, ledger))
  BY <1>1, <1>2, StartKeeps
<1>4. used' \in [ fill : Nat, step : Nat, command : Nat ] /\ used'.fill = used.fill
  BY <1>1, SameUsed
<1> QED BY <1>1, <1>3, <1>4, CommandKeeps

\* The invariant of the books holds at every commit.
THEOREM BooksHold == Spec => []PortfolioInv
<1>1. Init => PortfolioInv
  BY InitKeeps
<1>2. PortfolioInv /\ [Next]_vars => PortfolioInv'
  <2> SUFFICES ASSUME PortfolioInv, [Next]_vars PROVE PortfolioInv'
    OBVIOUS
  <2>1. ASSUME NEW t \in Trades,
               \/ \E strategy \in Strategies : EngineFill(t[1], strategy, t[2])
               \/ \E r \in Recorded, day \in Days : RecordFill(t[1], r[1], t[2], day, r[2])
        PROVE  PortfolioInv'
    BY <2>1, FillKeeps
  <2>2. ASSUME NEW a \in CorpActions, NEW now \in Now, ApplyAction(a, now)
        PROVE  PortfolioInv'
    BY <2>2, ApplyActionKeeps
  <2>3. CASE NextDay
    BY <2>3, NextDayKeeps
  <2>4. ASSUME NEW c \in Commands, RebuildProjections(c)
        PROVE  PortfolioInv'
    BY <2>4, RebuildKeeps
  <2>5. ASSUME NEW c \in Commands, NEW amount \in Amounts,
               AdjustCash(c, amount) \/ Adjust(c, amount)
        PROVE  PortfolioInv'
    BY <2>5, AdjustCashKeeps, AdjustKeeps
  <2>6. ASSUME NEW c \in Commands, NEW s \in Buckets, NEW value \in BOOLEAN,
               SetLongTerm(c, s, value)
        PROVE  PortfolioInv'
    BY <2>6, SetLongTermKeeps
  <2>7. ASSUME NEW c \in Commands, CloseAll(c) \/ CloseNext(c) PROVE PortfolioInv'
    BY <2>7, CloseAllKeeps, CloseNextKeeps
  <2>8. ASSUME NEW c \in Commands, Read(c) \/ Write(c) PROVE PortfolioInv'
    BY <2>8, ReadKeeps, WriteKeeps
  <2>9. ASSUME NEW c \in Commands, WriteFails(c) \/ Crash(c) PROVE PortfolioInv'
    BY <2>9, EndKeeps
  <2>10. CASE UNCHANGED vars
    <3>1. /\ command' = command /\ used' = used
          /\ UNCHANGED << today, fills, ledger, books, applied, stale >>
      BY <2>10 DEF vars
    <3>2. /\ command' \in [Commands -> CommandRows]
          /\ Selected(command', used.fill, today, applied, Weight(Money, ledger))
      BY <3>1 DEF PortfolioInv, Typed
    <3> QED BY <3>1, <3>2, SameUsed, CommandKeeps
  <2> QED BY <2>1, <2>2, <2>3, <2>4, <2>5, <2>6, <2>7, <2>8, <2>9, <2>10 DEF Next
<1> QED BY <1>1, <1>2, PTL DEF Spec

-----------------------------------------------------------------------------
(* What the operator is shown. *)

\* The amounts chosen from a column of a table.
ChosenOf(s, T, t) == [ i \in DOMAIN s |-> IF i \in T THEN t[s[i]] ELSE 0 ]

\* Amounts that are chosen from a column are numbers.
LEMMA Chosen ==
  ASSUME NEW S, NEW s \in Seq(S), NEW T, NEW t \in [S -> Int], NEW u, u = ChosenOf(s, T, t)
  PROVE  u \in Seq(Int) /\ Len(u) = Len(s) /\ DOMAIN u = 1 .. Len(s) /\ Tally(u) \in Int
         /\ \A i \in 1 .. Len(s) : u[i] = IF i \in T THEN t[s[i]] ELSE 0
<1>1. Len(s) \in Nat /\ DOMAIN s = 1 .. Len(s) /\ \A i \in 1 .. Len(s) : s[i] \in S
  BY Rows
<1>2. \A i \in 1 .. Len(s) : u[i] = IF i \in T THEN t[s[i]] ELSE 0
  BY <1>1 DEF ChosenOf
<1>3. \A i \in 1 .. Len(s) : u[i] \in Int
  BY <1>1, <1>2
<1>4. DOMAIN u = DOMAIN s /\ u = [ i \in DOMAIN s |-> u[i] ]
  BY DEF ChosenOf
<1>5. u \in Seq(Int) /\ Len(u) = Len(s) /\ DOMAIN u = 1 .. Len(s)
  BY <1>3, <1>4, Column
<1>6. Tally(u) \in Int
  BY <1>5, TallyType
<1> QED BY <1>2, <1>5, <1>6

\* The net quantity of the fills and the shares held, as weights.
LEMMA NetIs ==
  ASSUME NEW F \in Seq(FillRows), NEW S
  PROVE  NetQty(F, S) = Weight(Bought(S), F) /\ NetQty(F, S) \in Int
<1>1. \A i \in DOMAIN F : F[i] \in FillRows
  BY Rows
<1>2. [ i \in DOMAIN F |-> IF F[i].strategy \in S THEN Signed(F[i]) ELSE 0 ]
        = Weights(Bought(S), F)
  BY <1>1 DEF Weights, Bought
<1>3. NetQty(F, S) = Weight(Bought(S), F)
  BY <1>2 DEF NetQty, Weight
<1> QED BY <1>3, FillSums

\* What is held by the books is what the lots have.
LEMMA HeldIs ==
  ASSUME NEW lots \in Seq(LotRows), NEW S
  PROVE  Held(lots, S) = Weight(Shares(Nat \X S), lots) /\ Held(lots, S) \in Nat
<1>1. \A i \in DOMAIN lots : lots[i] \in LotRows
  BY Rows
<1>2. [ i \in DOMAIN lots |-> IF lots[i].strategy \in S THEN lots[i].qty ELSE 0 ]
        = Weights(Shares(Nat \X S), lots)
  BY <1>1 DEF Weights, Shares, LotRows
<1>3. Held(lots, S) = Weight(Shares(Nat \X S), lots)
  BY <1>2 DEF Held, Weight
<1>4. PICK w : w = Shares(Nat \X S)
  OBVIOUS
<1>5. w \in [LotRows -> Int] /\ \A l \in LotRows : w[l] >= 0
  BY <1>4, WeightTypes
<1>6. PICK u : u = Weights(w, lots)
  OBVIOUS
<1>7. u \in Seq(Int) /\ Len(u) = Len(lots)
  BY <1>5, <1>6, WeightsType
<1>8. \A i \in 1 .. Len(u) : u[i] >= 0
  <2>1. \A i \in 1 .. Len(lots) : lots[i] \in LotRows /\ i \in DOMAIN lots
    BY Rows
  <2> QED BY <1>5, <1>6, <1>7, <2>1 DEF Weights
<1>9. Tally(u) \in Nat
  BY <1>7, <1>8, TallyNat
<1> QED BY <1>3, <1>4, <1>6, <1>9 DEF Weight

\* What is known of the books, as far as the views need it.
LEMMA BooksFacts ==
  ASSUME PortfolioInv
  PROVE  /\ today \in Nat /\ today > 0 /\ today <= LastDay
         /\ fills \in Seq(FillRows) /\ ledger \in Seq(CashRows)
         /\ books.lots \in Seq(LotRows) /\ books.matches \in Seq(MatchRows)
         /\ books.cash \in Int /\ books.flows \in Int
         /\ books.flows = Weight(Flows, fills)
         /\ Opening = Weight(Money, ledger) /\ Opening \in Int
         /\ \A S \in SUBSET Buckets : NetQty(fills, S) = Held(books.lots, S)
<1>1. /\ today \in Nat /\ today > 0 /\ today <= LastDay
      /\ fills \in Seq(FillRows) /\ ledger \in Seq(CashRows)
      /\ books.lots \in Seq(LotRows) /\ books.matches \in Seq(MatchRows)
      /\ books.cash \in Int /\ books.flows \in Int
  BY MarketAssumption DEF PortfolioInv, Typed, Days, BooksType
<1>2. books.flows = Weight(Flows, fills) /\ BalanceOf(fills, books.lots)
  BY DEF PortfolioInv, BooksOf
<1>3. Opening = Weight(Money, ledger) /\ Opening \in Int
  BY <1>1, OpeningIs, MoneySums DEF Opening
<1>4. \A S \in SUBSET Buckets : NetQty(fills, S) = Held(books.lots, S)
  <2> SUFFICES ASSUME NEW S \in SUBSET Buckets PROVE NetQty(fills, S) = Held(books.lots, S)
    OBVIOUS
  <2>1. NetQty(fills, S) = Weight(Bought(S), fills)
    BY <1>1, NetIs
  <2>2. Held(books.lots, S) = Weight(Shares(Nat \X S), books.lots)
    BY <1>1, HeldIs
  <2> QED BY <1>2, <2>1, <2>2 DEF BalanceOf
<1> QED BY <1>1, <1>2, <1>3, <1>4

\* reconcile finds nothing.
LEMMA Reconciled == PortfolioInv => ReconcileOk
<1> SUFFICES ASSUME PortfolioInv PROVE ReconcileOk
  OBVIOUS
<1>1. \A s \in Buckets : NetQty(fills, {s}) = Held(books.lots, {s})
  <2>1. \A s \in Buckets : {s} \in SUBSET Buckets
    OBVIOUS
  <2> QED BY <2>1, BooksFacts
<1>2. NetQty(fills, Buckets) = Held(books.lots, Buckets)
  BY BooksFacts
<1>3. ~ stale => books.cash = Opening + books.flows
  BY BooksFacts DEF PortfolioInv
<1>4. ~ stale => Reconcile = "RECONCILE_OK"
  BY <1>1, <1>2, <1>3 DEF Reconcile
<1>5. \A s \in Buckets : Position(s).qty = Held(books.lots, {s})
  BY DEF Position
<1> QED BY <1>1, <1>4, <1>5 DEF ReconcileOk

\* The days of the facts.
LEMMA FillDays ==
  ASSUME NEW day \in Nat, NEW f, NEW A, Dated(f, day, A), \A a \in A : a.ex \in Nat /\ a.ex <= day
  PROVE  DayOf(f.at) \in Nat /\ DayOf(f.at) <= day /\ (~ f.corp => DayOf(f.at) >= 1)
<1>1. CASE f.corp
  <2>1. PICK a \in A : f.at = StartOf(a.ex)
    BY <1>1 DEF Dated
  <2>2. PICK x \in Nat : x = a.ex /\ x <= day
    OBVIOUS
  <2>3. DayOf(f.at) = x
    <3>1. (2 * x) \div 2 = x
      OBVIOUS
    <3> QED BY <2>1, <2>2, <3>1 DEF DayOf, StartOf
  <2> QED BY <1>1, <2>2, <2>3
<1>2. CASE ~ f.corp
  <2>1. PICK d \in 1 .. day : f.at = FillTime(d)
    BY <1>2 DEF Dated
  <2>2. (2 * d + 1) \div 2 = d
    OBVIOUS
  <2>3. DayOf(f.at) = d
    BY <2>1, <2>2 DEF DayOf, FillTime
  <2> QED BY <2>3
<1> QED BY <1>1, <1>2

\* The cash of a day.
LEMMA CashType ==
  ASSUME PortfolioInv, NEW d
  PROVE  CashAt(d) \in Int /\ SharesAt(d) \in Int /\ CapitalFlow(d) \in Int
<1>1. fills \in Seq(FillRows) /\ ledger \in Seq(CashRows)
  BY BooksFacts
<1>2. \A i \in DOMAIN ledger : ledger[i] \in CashRows /\ Money[ledger[i]] = ledger[i].amount
  BY <1>1, Rows DEF Money
<1>3. \A i \in DOMAIN fills : fills[i] \in FillRows /\ Flows[fills[i]] = Flow(fills[i])
  BY <1>1, Rows DEF Flows
<1>4. Tally([ i \in DOMAIN ledger |-> IF ledger[i].day <= d THEN ledger[i].amount ELSE 0 ]) \in Int
  <2>1. PICK T : T = { i \in DOMAIN ledger : ledger[i].day <= d }
    OBVIOUS
  <2>2. PICK u : u = ChosenOf(ledger, T, Money)
    OBVIOUS
  <2>3. Tally(u) \in Int
    BY <1>1, <2>2, MoneySums, Chosen
  <2>4. u = [ i \in DOMAIN ledger |-> IF ledger[i].day <= d THEN ledger[i].amount ELSE 0 ]
    BY <1>2, <2>1, <2>2 DEF ChosenOf
  <2> QED BY <2>3, <2>4
<1>5. Tally([ i \in DOMAIN fills |-> IF DayOf(fills[i].at) <= d THEN Flow(fills[i]) ELSE 0 ]) \in Int
  <2>1. PICK T : T = { i \in DOMAIN fills : DayOf(fills[i].at) <= d }
    OBVIOUS
  <2>2. PICK u : u = ChosenOf(fills, T, Flows)
    OBVIOUS
  <2>3. Tally(u) \in Int
    BY <1>1, <2>2, WeightTypes, Chosen
  <2>4. u = [ i \in DOMAIN fills |-> IF DayOf(fills[i].at) <= d THEN Flow(fills[i]) ELSE 0 ]
    BY <1>3, <2>1, <2>2 DEF ChosenOf
  <2> QED BY <2>3, <2>4
<1>6. SharesAt(d) \in Int
  <2>1. PICK T, w : T = { i \in DOMAIN fills : DayOf(fills[i].at) <= d } /\ w = Bought(Buckets)
    OBVIOUS
  <2>2. w \in [FillRows -> Int]
    BY <2>1, WeightTypes
  <2>3. PICK u : u = ChosenOf(fills, T, w)
    OBVIOUS
  <2>4. Tally(u) \in Int
    BY <1>1, <2>2, <2>3, Chosen
  <2>5. \A f \in FillRows : w[f] = Signed(f)
    BY <2>1 DEF Bought, FillRows
  <2>6. u = [ i \in DOMAIN fills |-> IF DayOf(fills[i].at) <= d THEN Signed(fills[i]) ELSE 0 ]
    BY <1>3, <2>1, <2>3, <2>5 DEF ChosenOf
  <2> QED BY <2>4, <2>6 DEF SharesAt
<1>7. CapitalFlow(d) \in Int
  <2>1. PICK T : T = { i \in DOMAIN ledger : /\ ledger[i].type \in {"INITIAL_DEPOSIT", "CASH_ADJUSTMENT"}
                                             /\ ledger[i].day = d }
    OBVIOUS
  <2>2. PICK u : u = ChosenOf(ledger, T, Money)
    OBVIOUS
  <2>3. Tally(u) \in Int
    BY <1>1, <2>2, MoneySums, Chosen
  <2>4. u = [ i \in DOMAIN ledger |->
                IF ledger[i].type \in {"INITIAL_DEPOSIT", "CASH_ADJUSTMENT"} /\ ledger[i].day = d
                THEN ledger[i].amount ELSE 0 ]
    BY <1>2, <2>1, <2>2 DEF ChosenOf
  <2> QED BY <2>3, <2>4 DEF CapitalFlow
<1>8. PICK x \in Int, y \in Int :
        /\ x = Tally([ i \in DOMAIN ledger |-> IF ledger[i].day <= d THEN ledger[i].amount ELSE 0 ])
        /\ y = Tally([ i \in DOMAIN fills |-> IF DayOf(fills[i].at) <= d THEN Flow(fills[i]) ELSE 0 ])
  BY <1>4, <1>5
<1>9. CashAt(d) = x + y
  BY <1>8 DEF CashAt
<1> QED BY <1>6, <1>7, <1>8, <1>9

\* By the end of today everything has happened.
LEMMA TodayIs ==
  ASSUME PortfolioInv, NothingEarly
  PROVE  /\ CashAt(today) = Opening + books.flows
         /\ SharesAt(today) = Held(books.lots, Buckets)
<1>1. /\ fills \in Seq(FillRows) /\ ledger \in Seq(CashRows) /\ today \in Nat
      /\ books.flows = Weight(Flows, fills) /\ Opening = Weight(Money, ledger)
  BY BooksFacts
<1>2. \A a \in applied : a.ex \in Nat /\ a.ex <= today
  <2>1. applied \subseteq CorpActions
    BY DEF PortfolioInv, Typed
  <2> QED BY <2>1, ActionFacts DEF NothingEarly
<1>3. ASSUME NEW i \in DOMAIN ledger PROVE ledger[i].day <= today
  <2>1. i \in 1 .. Len(ledger)
    BY <1>1, Rows
  <2>2. \/ ledger[i].day \in 1 .. today
        \/ \E a \in applied : ledger[i].day = a.ex
    BY <2>1 DEF PortfolioInv, LedgerDated
  <2> QED BY <1>1, <1>2, <2>2
<1>4. \A i \in DOMAIN fills : DayOf(fills[i].at) <= today
  <2>1. \A i \in DOMAIN fills : Dated(fills[i], today, applied)
    BY <1>1, Rows DEF PortfolioInv, FactsOf
  <2> QED BY <1>1, <1>2, <2>1, FillDays
<1>5. [ i \in DOMAIN ledger |-> IF ledger[i].day <= today THEN ledger[i].amount ELSE 0 ]
        = Weights(Money, ledger)
  <2>1. \A i \in DOMAIN ledger : Money[ledger[i]] = ledger[i].amount
    BY <1>1, Rows DEF Money
  <2> QED BY <1>3, <2>1 DEF Weights
<1>6. [ i \in DOMAIN fills |-> IF DayOf(fills[i].at) <= today THEN Flow(fills[i]) ELSE 0 ]
        = Weights(Flows, fills)
  <2>1. \A i \in DOMAIN fills : Flows[fills[i]] = Flow(fills[i])
    BY <1>1, Rows DEF Flows
  <2> QED BY <1>4, <2>1 DEF Weights
<1>7. CashAt(today) = Weight(Money, ledger) + Weight(Flows, fills)
  BY <1>5, <1>6 DEF CashAt, Weight
<1>8. SharesAt(today) = NetQty(fills, Buckets)
  <2>1. \A i \in DOMAIN fills : fills[i].strategy \in Buckets
    <3>1. \A i \in DOMAIN fills : fills[i] \in FillRows
      BY <1>1, Rows
    <3> QED BY <3>1 DEF FillRows
  <2>2. [ i \in DOMAIN fills |-> IF DayOf(fills[i].at) <= today THEN Signed(fills[i]) ELSE 0 ]
          = [ i \in DOMAIN fills |-> IF fills[i].strategy \in Buckets THEN Signed(fills[i]) ELSE 0 ]
    BY <1>4, <2>1
  <2> QED BY <2>2 DEF SharesAt, NetQty
<1>9. NetQty(fills, Buckets) = Held(books.lots, Buckets)
  BY BooksFacts
<1> QED BY <1>1, <1>7, <1>8, <1>9

-----------------------------------------------------------------------------
(* The days of the curve. *)

\* The steps from day to day add up to the way from the first day to the last.
LEMMA Telescope ==
  ASSUME NEW n \in Nat, n > 0, NEW e \in [1 .. n -> Int], NEW c \in [1 .. n -> Int],
         NEW u \in [1 .. n -> Int],
         u[1] = 0, \A d \in 2 .. n : u[d] = e[d] - e[d - 1] - c[d]
  PROVE  e[1] - c[1] + Tally(u) = e[n] - Tally(c)
<1>1. /\ e \in Seq(Int) /\ c \in Seq(Int) /\ Len(c) = n /\ u \in Seq(Int) /\ Len(u) = n
      /\ e[1] \in Int /\ c[1] \in Int
  BY FcnSeq
<1>2. PICK w, r, f : /\ w = [ d \in 1 .. n |-> IF d = 1 THEN 0 ELSE e[d] - e[d - 1] ]
                     /\ r = [ d \in 1 .. n |-> IF d = 1 THEN 0 ELSE c[d] ]
                     /\ f = [ d \in 1 .. n |-> IF d = 1 THEN c[1] ELSE 0 ]
  OBVIOUS
<1>3. w \in [1 .. n -> Int]
  <2>1. ASSUME NEW d \in 1 .. n, d # 1 PROVE e[d] - e[d - 1] \in Int
    <3>1. d - 1 \in 1 .. n
      BY <2>1
    <3> QED BY <3>1
  <2> QED BY <1>2, <2>1
<1>4. r \in [1 .. n -> Int] /\ f \in [1 .. n -> Int]
  BY <1>1, <1>2
<1>5. /\ w \in Seq(Int) /\ Len(w) = n /\ r \in Seq(Int) /\ Len(r) = n
      /\ f \in Seq(Int) /\ Len(f) = n
  BY <1>3, <1>4, FcnSeq
<1>6. Tally(w) = Tally(u) + Tally(r)
  <2>1. ASSUME NEW d \in 1 .. n PROVE w[d] = u[d] + r[d]
    <3>1. CASE d = 1
      BY <1>2, <3>1
    <3>2. CASE d # 1
      <4>1. d \in 2 .. n /\ d - 1 \in 1 .. n
        BY <3>2
      <4>2. PICK x \in Int, y \in Int, z \in Int : x = e[d] /\ y = e[d - 1] /\ z = c[d]
        BY <4>1
      <4>3. w[d] = x - y /\ r[d] = z /\ u[d] = x - y - z
        BY <1>2, <3>2, <4>1, <4>2
      <4> QED BY <4>2, <4>3
    <3> QED BY <3>1, <3>2
  <2>2. Len(r) = Len(u) /\ Len(w) = Len(u) /\ \A d \in 1 .. Len(u) : w[d] = u[d] + r[d]
    BY <1>1, <1>5, <2>1
  <2> QED BY <1>1, <1>5, <2>2, TallyPlus
<1>7. Tally(c) = Tally(r) + Tally(f)
  <2>1. \A d \in 1 .. n : c[d] = r[d] + f[d]
    BY <1>1, <1>2
  <2>2. Len(f) = Len(r) /\ Len(c) = Len(r) /\ \A d \in 1 .. Len(r) : c[d] = r[d] + f[d]
    BY <1>1, <1>5, <2>1
  <2> QED BY <1>1, <1>5, <2>2, TallyPlus
<1>8. Tally(f) = c[1]
  <2>1. 1 \in 1 .. Len(f) /\ \A d \in 1 .. Len(f) : d # 1 => f[d] = 0
    BY <1>2, <1>5
  <2>2. Tally(f) = f[1]
    BY <1>5, <2>1, TallySingle
  <2> QED BY <1>2, <1>5, <2>1, <2>2
<1>9. Tally(w) = e[n] - e[1]
  <2>1. PICK g : g = [ d \in 0 .. n |-> IF d = 0 THEN 0 ELSE e[d] - e[1] ]
    OBVIOUS
  <2>2. g \in [0 .. n -> Int]
    <3>1. ASSUME NEW d \in 0 .. n, d # 0 PROVE e[d] - e[1] \in Int
      <4>1. d \in 1 .. n
        BY <3>1
      <4> QED BY <1>1, <4>1
    <3> QED BY <2>1, <3>1
  <2>3. ASSUME NEW d \in 1 .. n PROVE g[d] = g[d - 1] + w[d]
    <3>1. d \in 0 .. n /\ d - 1 \in 0 .. n /\ d # 0
      OBVIOUS
    <3>2. PICK x \in Int, y \in Int : x = e[d] /\ y = e[1]
      BY <1>1
    <3>3. CASE d = 1
      <4>1. w[d] = 0 /\ g[d - 1] = 0 /\ g[d] = e[1] - e[1]
        BY <1>2, <2>1, <3>1, <3>3
      <4> QED BY <1>1, <4>1
    <3>4. CASE d # 1
      <4>1. PICK z \in Int : z = e[d - 1]
        <5>1. d - 1 \in 1 .. n
          BY <3>4
        <5> QED BY <5>1
      <4>2. d - 1 # 0
        BY <3>4
      <4>3. g[d] = x - y /\ g[d - 1] = z - y /\ w[d] = x - z
        BY <1>2, <2>1, <3>1, <3>2, <3>4, <4>1, <4>2
      <4> QED BY <4>3
    <3> QED BY <3>3, <3>4
  <2>4. Sums(g, w)
    <3>1. g[0] = 0
      BY <2>1
    <3>2. g \in [0 .. Len(w) -> Int] /\ \A d \in 1 .. Len(w) : g[d] = g[d - 1] + w[d]
      BY <1>5, <2>2, <2>3
    <3> QED BY <3>1, <3>2 DEF Sums
  <2>5. Tally(w) = g[n]
    BY <1>5, <2>4, TallyBy
  <2>6. n \in 0 .. n /\ n # 0
    OBVIOUS
  <2> QED BY <2>1, <2>5, <2>6
<1>10. Tally(u) \in Int /\ Tally(r) \in Int /\ Tally(c) \in Int
  BY <1>1, <1>5, TallyType
<1>11. e[n] \in Int
  OBVIOUS
<1>12. PICK p \in Int, q \in Int, x \in Int, y \in Int, z \in Int, t \in Int :
         p = e[1] /\ q = c[1] /\ x = Tally(u) /\ y = Tally(r) /\ z = e[n] /\ t = Tally(c)
  BY <1>1, <1>10, <1>11
<1>13. z - p = x + y /\ t = y + q
  BY <1>6, <1>7, <1>8, <1>9, <1>12
<1>14. p - q + x = z - t
  BY <1>13
<1> QED BY <1>12, <1>14

\* The sums of the rows of a table and of its columns.
RowSums(m, n, a) == [ i \in 1 .. m |-> Tally([ j \in 1 .. n |-> a[i][j] ]) ]
ColumnSums(m, n, a) == [ j \in 1 .. n |-> Tally([ i \in 1 .. m |-> a[i][j] ]) ]

\* The sum of a table by its rows is the sum by its columns.
LEMMA SumsExchange ==
  ASSUME NEW m \in Nat, NEW n \in Nat, NEW a \in [1 .. m -> [1 .. n -> Int]]
  PROVE  Tally(RowSums(m, n, a)) = Tally(ColumnSums(m, n, a))
BY Exchange DEF RowSums, ColumnSums

\* What was paid in or drawn on one of the days is what was paid in or drawn.
LEMMA CapitalFlows ==
  ASSUME PortfolioInv
  PROVE  Tally([ d \in 1 .. today |-> CapitalFlow(d) ])
           = AmountOf({"INITIAL_DEPOSIT"}) + AmountOf({"CASH_ADJUSTMENT"})
         /\ AmountOf({"INITIAL_DEPOSIT"}) \in Int /\ AmountOf({"CASH_ADJUSTMENT"}) \in Int
<1> DEFINE both == {"INITIAL_DEPOSIT", "CASH_ADJUSTMENT"}
<1>1. /\ ledger \in Seq(CashRows) /\ today \in Nat
  BY BooksFacts
<1>2. PICK n, L, m : n = Len(ledger) /\ L = ledger /\ m = today
  OBVIOUS
<1>3. /\ n \in Nat /\ m \in Nat /\ L \in Seq(CashRows) /\ DOMAIN L = 1 .. n
      /\ \A i \in 1 .. n : /\ L[i] \in CashRows /\ L[i].amount \in Int
                           /\ L[i].type \in both => L[i].day \in 1 .. m
  <2>1. n \in Nat /\ DOMAIN L = 1 .. n /\ \A i \in 1 .. n : L[i] \in CashRows
    BY <1>1, <1>2, Rows
  <2>2. \A i \in 1 .. n : L[i].type \in both => L[i].day \in 1 .. m
    BY <1>2 DEF PortfolioInv, LedgerDated
  <2> QED BY <1>1, <1>2, <2>1, <2>2 DEF CashRows
<1>4. PICK a : a = [ d \in 1 .. m |-> [ i \in 1 .. n |->
                      IF L[i].type \in both /\ L[i].day = d THEN L[i].amount ELSE 0 ] ]
  OBVIOUS
<1>5. a \in [1 .. m -> [1 .. n -> Int]]
  BY <1>3, <1>4
<1>6. \A d \in 1 .. m, i \in 1 .. n :
        a[d][i] = IF L[i].type \in both /\ L[i].day = d THEN L[i].amount ELSE 0
  BY <1>4
<1>7. [ d \in 1 .. m |-> CapitalFlow(d) ] = RowSums(m, n, a)
  <2> SUFFICES ASSUME NEW d \in 1 .. m
               PROVE  CapitalFlow(d) = Tally([ i \in 1 .. n |-> a[d][i] ])
    BY DEF RowSums
  <2>1. [ i \in 1 .. n |-> a[d][i] ]
          = [ i \in DOMAIN L |-> IF L[i].type \in both /\ L[i].day = d THEN L[i].amount ELSE 0 ]
    BY <1>3, <1>6
  <2> QED BY <1>2, <2>1 DEF CapitalFlow
<1>8. PICK v : v = ColumnSums(m, n, a)
  OBVIOUS
<1>9. Tally([ d \in 1 .. m |-> CapitalFlow(d) ]) = Tally(v)
  BY <1>3, <1>5, <1>7, <1>8, SumsExchange
<1>10. PICK x, y : /\ x = [ i \in 1 .. n |-> IF L[i].type \in {"INITIAL_DEPOSIT"} THEN L[i].amount ELSE 0 ]
                   /\ y = [ i \in 1 .. n |-> IF L[i].type \in {"CASH_ADJUSTMENT"} THEN L[i].amount ELSE 0 ]
  OBVIOUS
<1>11. x \in [1 .. n -> Int] /\ y \in [1 .. n -> Int]
  BY <1>3, <1>10
<1>12. x \in Seq(Int) /\ Len(x) = n /\ y \in Seq(Int) /\ Len(y) = n
  BY <1>3, <1>11, FcnSeq
<1>13. ASSUME NEW i \in 1 .. n PROVE v[i] = x[i] + y[i]
  <2>1. PICK w : w = [ d \in 1 .. m |-> a[d][i] ]
    OBVIOUS
  <2>2. w \in [1 .. m -> Int]
    BY <1>5, <2>1
  <2>3. w \in Seq(Int) /\ Len(w) = m
    BY <1>3, <2>2, FcnSeq
  <2>4. v[i] = Tally(w)
    BY <1>8, <2>1 DEF ColumnSums
  <2>5. CASE L[i].type \in both
    <3>1. PICK d \in 1 .. m : d = L[i].day
      BY <1>3, <2>5
    <3>2. \A k \in 1 .. Len(w) : k # d => w[k] = 0
      BY <1>6, <2>1, <2>3, <3>1
    <3>3. Tally(w) = w[d]
      BY <2>3, <3>2, TallySingle
    <3>4. w[d] = L[i].amount
      BY <1>6, <2>1, <2>5, <3>1
    <3>5. x[i] + y[i] = L[i].amount
      <4>1. CASE L[i].type = "INITIAL_DEPOSIT"
        <5>1. x[i] = L[i].amount /\ y[i] = 0
          BY <1>10, <4>1
        <5> QED BY <1>3, <5>1
      <4>2. CASE L[i].type = "CASH_ADJUSTMENT"
        <5>1. y[i] = L[i].amount /\ x[i] = 0
          BY <1>10, <4>2
        <5> QED BY <1>3, <5>1
      <4> QED BY <2>5, <4>1, <4>2
    <3> QED BY <2>4, <3>3, <3>4, <3>5
  <2>6. CASE L[i].type \notin both
    <3>1. \A k \in 1 .. Len(w) : w[k] = 0
      BY <1>6, <2>1, <2>3, <2>6
    <3>2. Tally(w) = 0
      BY <2>3, <3>1, TallyZero
    <3>3. x[i] = 0 /\ y[i] = 0
      BY <1>10, <2>6
    <3> QED BY <2>4, <3>2, <3>3
  <2> QED BY <2>5, <2>6
<1>14. v \in Seq(Int) /\ Len(v) = n
  <2>1. \A i \in 1 .. n : v[i] \in Int
    BY <1>11, <1>13
  <2>2. v = [ i \in 1 .. n |-> v[i] ]
    BY <1>8 DEF ColumnSums
  <2>3. v \in [1 .. n -> Int]
    BY <2>1, <2>2
  <2> QED BY <1>3, <2>3, FcnSeq
<1>15. Tally(v) = Tally(x) + Tally(y)
  BY <1>12, <1>13, <1>14, TallyPlus
<1>16. AmountOf({"INITIAL_DEPOSIT"}) = Tally(x) /\ AmountOf({"CASH_ADJUSTMENT"}) = Tally(y)
  BY <1>2, <1>3, <1>10 DEF AmountOf
<1>17. Tally(x) \in Int /\ Tally(y) \in Int
  BY <1>12, TallyType
<1> QED BY <1>2, <1>9, <1>15, <1>16, <1>17

\* The equity of a day is a number.
LEMMA EquityType ==
  ASSUME PortfolioInv, NEW d \in 1 .. today
  PROVE  Snapshot(d).equity \in Int
<1>1. PICK s \in Int, c \in Int : s = SharesAt(d) /\ c = CashAt(d)
  BY CashType
<1>2. PICK p \in Nat : p = PriceOf[d]
  BY MarketAssumption, BooksFacts
<1>3. PICK h \in Nat : h = IF s > 0 THEN s ELSE 0
  OBVIOUS
<1>4. 10000 \in Nat \ {0}
  OBVIOUS
<1>5. PICK v \in Nat : v = (h * p) \div 10000
  BY <1>4, PartOf
<1>6. Snapshot(d).equity = c + v
  BY <1>1, <1>2, <1>3, <1>5 DEF Snapshot
<1> QED BY <1>6

\* The curve adds up to the return.
LEMMA CurveSums == PortfolioInv => CurveAddsUp
<1> SUFFICES ASSUME PortfolioInv, ~ stale, NothingEarly
             PROVE  /\ Snapshot(today).cash = Overview.cash
                    /\ Snapshot(today).positions = Overview.positions
                    /\ Curve[1].equity - CapitalFlow(1) + Tally([ d \in 1 .. today |-> Curve[d].pnl ])
                         = Overview.return - AmountOf({"CASH_ADJUSTMENT"})
  BY DEF CurveAddsUp
<1>1. /\ today \in Nat /\ today > 0 /\ today \in 1 .. today /\ 1 \in 1 .. today
      /\ today <= LastDay /\ books.lots \in Seq(LotRows) /\ books.cash \in Int
  BY BooksFacts
<1>2. CashAt(today) = books.cash
  BY TodayIs, BooksFacts DEF PortfolioInv
<1>3. PICK h \in Nat, p \in Nat : /\ h = Held(books.lots, Buckets) /\ p = PriceOf[today]
                                  /\ SharesAt(today) = h
  <2>1. Held(books.lots, Buckets) \in Nat
    BY <1>1, HeldIs
  <2>2. PriceOf[today] \in Nat
    BY <1>1, MarketAssumption
  <2>3. SharesAt(today) = Held(books.lots, Buckets)
    BY TodayIs
  <2> QED BY <2>1, <2>2, <2>3
<1>4. PICK v \in Nat : v = (h * p) \div 10000
  <2>1. 10000 \in Nat \ {0}
    OBVIOUS
  <2> QED BY <2>1, PartOf
<1>5. PICK b \in Int : b = books.cash
  BY <1>1
<1>6. Snapshot(today) = [ cash |-> b, positions |-> v, equity |-> b + v ]
  <2>1. (IF h > 0 THEN h ELSE 0) = h
    OBVIOUS
  <2> QED BY <1>2, <1>3, <1>4, <1>5, <2>1 DEF Snapshot
<1>7. PICK x \in Int, y \in Int :
        x = AmountOf({"INITIAL_DEPOSIT"}) /\ y = AmountOf({"CASH_ADJUSTMENT"})
  BY CapitalFlows
<1>8. Overview = [ cash |-> b, positions |-> v, principal |-> x, return |-> b + v - x ]
  BY <1>3, <1>4, <1>5, <1>7 DEF Overview
<1>9. PICK n \in Nat : n = today
  BY <1>1
<1>10. PICK e, c, u : /\ e = [ d \in 1 .. n |-> Snapshot(d).equity ]
                      /\ c = [ d \in 1 .. n |-> CapitalFlow(d) ]
                      /\ u = [ d \in 1 .. n |-> Curve[d].pnl ]
  OBVIOUS
<1>11. e \in [1 .. n -> Int] /\ c \in [1 .. n -> Int]
  BY <1>9, <1>10, EquityType, CashType
<1>12. ASSUME NEW d \in 1 .. n
       PROVE  /\ Curve[d].equity = e[d]
              /\ Curve[d].pnl = IF d = 1 THEN 0
                                ELSE Snapshot(d).equity - Snapshot(d - 1).equity - CapitalFlow(d)
  BY <1>9, <1>10 DEF Curve
<1>13. u[1] = 0 /\ \A d \in 2 .. n : u[d] = e[d] - e[d - 1] - c[d]
  <2>1. u[1] = 0
    BY <1>1, <1>9, <1>10, <1>12
  <2>2. ASSUME NEW d \in 2 .. n PROVE u[d] = e[d] - e[d - 1] - c[d]
    <3>1. d \in 1 .. n /\ d - 1 \in 1 .. n /\ d # 1
      OBVIOUS
    <3> QED BY <1>10, <1>12, <3>1
  <2> QED BY <2>1, <2>2
<1>14. u \in [1 .. n -> Int]
  <2>1. ASSUME NEW d \in 1 .. n PROVE u[d] \in Int
    <3>1. CASE d = 1
      BY <1>13, <3>1
    <3>2. CASE d # 1
      <4>1. d \in 2 .. n /\ d - 1 \in 1 .. n
        BY <3>2
      <4>2. e[d] \in Int /\ e[d - 1] \in Int /\ c[d] \in Int
        BY <1>11, <4>1
      <4> QED BY <1>13, <4>1, <4>2
    <3> QED BY <3>1, <3>2
  <2> QED BY <1>10, <2>1
<1>15. e[1] - c[1] + Tally(u) = e[n] - Tally(c)
  BY <1>1, <1>9, <1>11, <1>13, <1>14, Telescope
<1>16. Tally(c) = x + y
  BY <1>7, <1>9, <1>10, CapitalFlows
<1>17. e[n] = b + v
  BY <1>1, <1>6, <1>9, <1>10
<1>18. Curve[1].equity = e[1] /\ CapitalFlow(1) = c[1]
  BY <1>1, <1>9, <1>10, <1>12
<1>19. Overview.return - y = (b + v) - (x + y)
  <2>1. Overview.return = b + v - x
    BY <1>8
  <2> QED BY <2>1
<1>20. Curve[1].equity - CapitalFlow(1) + Tally(u) = Overview.return - AmountOf({"CASH_ADJUSTMENT"})
  BY <1>7, <1>15, <1>16, <1>17, <1>18, <1>19
<1> QED BY <1>6, <1>8, <1>9, <1>10, <1>20

\* reconcile passes in every state that no unfinished or overtaken command has
\* left behind, the lots are the fills bought less sold at every commit, and the
\* curve of the snapshots adds up to the return of the overview.
THEOREM ReconcileHolds == Spec => []BooksReconcile
<1>1. PortfolioInv => BooksReconcile
  BY Reconciled, CurveSums DEF BooksReconcile
<1> QED BY <1>1, BooksHold, PTL

-----------------------------------------------------------------------------
(* The matches. *)

\* The two fills of a match, and its net P&L, which is a whole amount.
LEMMA MatchFacts ==
  ASSUME PortfolioInv, NEW k \in 1 .. Len(books.matches)
  PROVE  LET m == books.matches[k]
         IN /\ m \in MatchRows /\ Joined(m)
            /\ \E j \in 1 .. Len(fills) :
                 fills[j].id = m.sell /\ fills[j].side = "SELL" /\ ~ fills[j].corp
<1>1. PICK m \in MatchRows : m = books.matches[k]
  BY BooksFacts, Rows
<1>2. MatchOf(fills, m)
  BY <1>1 DEF PortfolioInv, BooksOf, MatchesOf
<1>3. DOMAIN fills = 1 .. Len(fills)
  BY BooksFacts, Rows
<1>4. Joined(m)
  BY <1>2, <1>3 DEF Joined, MatchOf, IsBuy
<1> QED BY <1>1, <1>2, <1>4 DEF MatchOf

\* The fill with a number.
LEMMA FillIs ==
  ASSUME PortfolioInv, NEW j \in 1 .. Len(fills)
  PROVE  FillOf(fills[j].id) = fills[j] /\ fills[j] \in FillRows
         /\ \A i \in 1 .. Len(fills) : fills[i].id = fills[j].id => i = j
<1>1. /\ DOMAIN fills = 1 .. Len(fills) /\ \A i \in 1 .. Len(fills) : fills[i] \in FillRows
  BY BooksFacts, Rows
<1>2. \A i \in 1 .. Len(fills) : fills[i].id = fills[j].id => i = j
  BY <1>1, IdsOf DEF PortfolioInv, FactsOf, Apart
<1>3. FillOf(fills[j].id) = fills[j]
  <2>1. PICK i : i = CHOOSE x \in DOMAIN fills : fills[x].id = fills[j].id
    OBVIOUS
  <2>2. i \in DOMAIN fills /\ fills[i].id = fills[j].id
    BY <1>1, <2>1
  <2>3. i = j
    BY <1>1, <1>2, <2>2
  <2> QED BY <2>1, <2>3 DEF FillOf
<1> QED BY <1>1, <1>2, <1>3

\* What a match has earned is a number.
LEMMA NetType ==
  ASSUME PortfolioInv, NEW k \in 1 .. Len(books.matches)
  PROVE  Net(books.matches[k]) \in Int /\ Gross(books.matches[k]) \in Int
<1>a. \A x \in Int, d \in Nat \ {0} : Rounded(x, d) \in Int
  BY DEF Rounded
<1>1. PICK m \in MatchRows : m = books.matches[k]
  BY BooksFacts, Rows
<1>2. Gross(m) \in Int
  <2>1. PICK x \in Int, y \in Int, q \in Nat : x = m.sellPrice /\ y = m.buyPrice /\ q = m.qty
    BY DEF MatchRows
  <2>2. PICK z \in Int : z = (x - y) * q
    OBVIOUS
  <2>3. z \div 10000 \in Int
    OBVIOUS
  <2> QED BY <2>1, <2>2, <2>3 DEF Gross
<1>3. PICK j \in 1 .. Len(fills) :
        fills[j].id = m.sell /\ fills[j].side = "SELL" /\ ~ fills[j].corp
  BY <1>1, MatchFacts
<1>4. PICK i \in 1 .. Len(fills) : fills[i].id = m.buy
  <2>1. DOMAIN fills = 1 .. Len(fills)
    BY BooksFacts, Rows
  <2> QED BY <1>1, <2>1, MatchFacts DEF Joined
<1>5. PICK sell \in FillRows : sell = FillOf(m.sell) /\ ~ sell.corp
  BY <1>3, FillIs
<1>6. PICK buy \in FillRows : buy = FillOf(m.buy)
  BY <1>4, FillIs
<1>7. PICK sq \in Nat \ {0} : sq = sell.qty
  BY <1>5 DEF FillRows
<1>8. PICK bq \in Nat \ {0} : bq = IF buy.qty > 0 THEN buy.qty ELSE 1
  BY <1>6 DEF FillRows
<1>9. PICK v \in Int : v = Value(sell)
  BY FlowType
<1>10. PICK fe \in Int : fe = Fee(v)
  <2>1. v * 1425 \in Int /\ 1000000 \in Nat \ {0}
    OBVIOUS
  <2>2. PICK r \in Int : r = Rounded(v * 1425, 1000000)
    BY <1>a, <2>1
  <2>3. Fee(v) = IF r < 20 THEN 20 ELSE r
    BY <2>2 DEF Fee
  <2> QED BY <2>3
<1>11. PICK ta \in Int : ta = Tax(v)
  <2>1. v * 3 \in Int /\ 1000 \in Nat \ {0}
    OBVIOUS
  <2> QED BY <1>a, <2>1 DEF Tax
<1>12. PICK bf \in Int : bf = BuyFee(buy)
  <2>1. PICK q \in Int, p \in Int : q = buy.qty /\ p = buy.price
    BY DEF FillRows
  <2>2. q * p * 57 \in Int /\ 400000000 \in Nat \ {0}
    OBVIOUS
  <2>3. PICK r \in Int : r = Rounded(q * p * 57, 400000000)
    BY <1>a, <2>2
  <2>4. BuyFee(buy) = IF buy.corp THEN 0 ELSE IF r < 20 THEN 20 ELSE r
    BY <2>1, <2>3 DEF BuyFee
  <2> QED BY <2>4
<1>13. PICK mq \in Nat : mq = m.qty
  BY DEF MatchRows
<1>14. PICK num \in Int : num = bf * mq * sq + (fe + ta) * mq * bq
  OBVIOUS
<1>15. PICK den \in Nat \ {0} : den = bq * sq
  OBVIOUS
<1>16. PICK g \in Int, r \in Int : g = Gross(m) /\ r = Rounded(num, den)
  BY <1>2, <1>a
<1>17. Net(m) = g - r
  BY <1>5, <1>6, <1>7, <1>8, <1>9, <1>10, <1>11, <1>12, <1>13, <1>14, <1>15, <1>16 DEF Net
<1> QED BY <1>1, <1>2, <1>16, <1>17

\* Match i is of fill j, sold on a day.
SoldBy(i, j, day) ==
  LET m == books.matches[i]
  IN Joined(m) /\ MatchedOn(m) = day /\ m.sell = fills[j].id

\* The fills sold on a day.
SoldRows(day) ==
  Places(fills, { j \in DOMAIN fills : \E i \in DOMAIN books.matches : SoldBy(i, j, day) })

\* Its shares, and its net P&L.
SharesSold(j, day) ==
  Tally([ i \in DOMAIN books.matches |-> IF SoldBy(i, j, day) THEN books.matches[i].qty ELSE 0 ])

NetSold(j, day) ==
  Tally([ i \in DOMAIN books.matches |-> IF SoldBy(i, j, day) THEN Net(books.matches[i]) ELSE 0 ])

\* A completed trade tells the shares and the earnings of its SELL on that day.
LEMMA TradeIs ==
  ASSUME NEW day
  PROVE  /\ DOMAIN CompletedTrades(day) = DOMAIN SoldRows(day)
         /\ \A k \in DOMAIN SoldRows(day) :
              /\ CompletedTrades(day)[k].sell = fills[SoldRows(day)[k]].id
              /\ CompletedTrades(day)[k].qty = SharesSold(SoldRows(day)[k], day)
              /\ CompletedTrades(day)[k].net = NetSold(SoldRows(day)[k], day)
BY DEF CompletedTrades, SoldRows, SharesSold, NetSold, SoldBy

\* A fill that is not of an action is of a day that has come.
LEMMA TradeDay ==
  ASSUME PortfolioInv, NEW j \in 1 .. Len(fills), ~ fills[j].corp
  PROVE  DayOf(fills[j].at) \in 1 .. today
<1>1. Dated(fills[j], today, applied)
  BY DEF PortfolioInv, FactsOf
<1>2. PICK d \in 1 .. today : fills[j].at = FillTime(d)
  BY <1>1 DEF Dated
<1>3. today \in Nat
  BY BooksFacts
<1>4. (2 * d + 1) \div 2 = d
  BY <1>3
<1> QED BY <1>2, <1>4 DEF DayOf, FillTime

\* The one SELL of a match.
LEMMA SellOf ==
  ASSUME PortfolioInv, NEW i \in 1 .. Len(books.matches)
  PROVE  \E j \in 1 .. Len(fills) :
           /\ fills[j].id = books.matches[i].sell
           /\ fills[j].side = "SELL" /\ ~ fills[j].corp
           /\ MatchedOn(books.matches[i]) = DayOf(fills[j].at)
           /\ \A k \in 1 .. Len(fills) : fills[k].id = books.matches[i].sell => k = j
<1>1. PICK j \in 1 .. Len(fills) :
        /\ fills[j].id = books.matches[i].sell
        /\ fills[j].side = "SELL" /\ ~ fills[j].corp
  BY MatchFacts
<1>2. FillOf(books.matches[i].sell) = fills[j]
      /\ \A k \in 1 .. Len(fills) : fills[k].id = books.matches[i].sell => k = j
  BY <1>1, FillIs
<1> QED BY <1>1, <1>2 DEF MatchedOn

-----------------------------------------------------------------------------
(* No share is sold twice. *)

\* Of a BUY, the shares in its lots and those that were sold are no more than it bought.
LEMMA NoneTwice ==
  ASSUME PortfolioInv, NEW i \in DOMAIN fills, fills[i].side = "BUY"
  PROVE  Tally([ k \in DOMAIN books.lots |->
                   IF books.lots[k].fill = fills[i].id THEN books.lots[k].qty ELSE 0 ])
           + Tally([ k \in DOMAIN books.matches |->
                       IF books.matches[k].buy = fills[i].id THEN books.matches[k].qty ELSE 0 ])
           <= fills[i].qty
<1>1. PICK x, L, M : x = fills[i].id /\ L = books.lots /\ M = books.matches
  OBVIOUS
<1>2. i \in 1 .. Len(fills)
  BY BooksFacts, Rows
<1>3. L \in Seq(LotRows) /\ M \in Seq(MatchRows)
  BY <1>1, BooksFacts
<1>4. [ k \in DOMAIN L |-> IF L[k].fill = x THEN L[k].qty ELSE 0 ]
        = Weights(Shares({x} \X Buckets), L)
  <2>1. \A k \in DOMAIN L : L[k] \in LotRows
    BY <1>3, Rows
  <2> QED BY <2>1 DEF Weights, Shares, LotRows
<1>5. [ k \in DOMAIN M |-> IF M[k].buy = x THEN M[k].qty ELSE 0 ] = Weights(ClosedOf(x), M)
  <2>1. \A k \in DOMAIN M : M[k] \in MatchRows
    BY <1>3, Rows
  <2> QED BY <2>1 DEF Weights, ClosedOf
<1>6. Weight(Shares({x} \X Buckets), L) + Weight(ClosedOf(x), M) <= fills[i].qty
  BY <1>1, <1>2 DEF PortfolioInv, BooksOf, BoughtOnce
<1> QED BY <1>1, <1>4, <1>5, <1>6 DEF Weight

\* Every share sold is in the trades of its day.
LEMMA AllShown ==
  ASSUME PortfolioInv, NEW i \in DOMAIN fills, fills[i].side = "SELL", ~ fills[i].corp,
         fills[i].qty > 0
  PROVE  \E k \in DOMAIN CompletedTrades(DayOf(fills[i].at)) :
           /\ CompletedTrades(DayOf(fills[i].at))[k].sell = fills[i].id
           /\ CompletedTrades(DayOf(fills[i].at))[k].qty = fills[i].qty
<1>1. PICK x, M, day : x = fills[i].id /\ M = books.matches /\ day = DayOf(fills[i].at)
  OBVIOUS
<1>2. i \in 1 .. Len(fills) /\ DOMAIN fills = 1 .. Len(fills)
  BY BooksFacts, Rows
<1>3. M \in Seq(MatchRows) /\ Len(M) \in Nat /\ DOMAIN M = 1 .. Len(M)
      /\ \A k \in 1 .. Len(M) : M[k] \in MatchRows
  BY <1>1, BooksFacts, Rows
<1>4. Weight(SoldOf(x), M) = fills[i].qty
  BY <1>1, <1>2 DEF PortfolioInv, BooksOf, SoldOnce
<1>5. ASSUME NEW k \in 1 .. Len(M)
      PROVE  SoldBy(k, i, day) <=> M[k].sell = x
  <2>1. PICK j \in 1 .. Len(fills) :
          /\ fills[j].id = M[k].sell /\ MatchedOn(M[k]) = DayOf(fills[j].at)
          /\ \A l \in 1 .. Len(fills) : fills[l].id = M[k].sell => l = j
    BY <1>1, SellOf
  <2>2. Joined(M[k])
    BY <1>1, MatchFacts
  <2>3. M[k].sell = x => i = j
    BY <1>1, <1>2, <2>1
  <2> QED BY <1>1, <2>1, <2>2, <2>3 DEF SoldBy
<1>6. SharesSold(i, day) = fills[i].qty
  <2>1. [ k \in DOMAIN M |-> IF SoldBy(k, i, day) THEN M[k].qty ELSE 0 ] = Weights(SoldOf(x), M)
    BY <1>3, <1>5 DEF Weights, SoldOf
  <2> QED BY <1>1, <1>4, <2>1 DEF SharesSold, Weight
<1>7. \E k \in 1 .. Len(M) : M[k].sell = x
  <2> SUFFICES ASSUME \A k \in 1 .. Len(M) : M[k].sell # x PROVE FALSE
    OBVIOUS
  <2>1. PICK w : w = SoldOf(x)
    OBVIOUS
  <2>2. w \in [MatchRows -> Int]
    BY <2>1, WeightTypes
  <2>3. \A k \in 1 .. Len(M) : w[M[k]] = 0
    BY <1>3, <2>1 DEF SoldOf
  <2>4. Weight(w, M) = 0
    BY <1>3, <2>2, <2>3, WeightZero
  <2> QED BY <1>4, <2>1, <2>4
<1>8. PICK C : C = { j \in DOMAIN fills : \E k \in DOMAIN books.matches : SoldBy(k, j, day) }
  OBVIOUS
<1>9. i \in C
  BY <1>1, <1>3, <1>5, <1>7, <1>8
<1>10. PICK p : p = SoldRows(day)
  OBVIOUS
<1>11. p = Places(fills, C)
  BY <1>8, <1>10 DEF SoldRows
<1>12. Lists(p, Len(fills), C)
  BY <1>11, BooksFacts, PlacesList
<1>13. PICK k \in 1 .. Len(p) : p[k] = i
  BY <1>2, <1>9, <1>12 DEF Lists
<1>14. DOMAIN p = 1 .. Len(p)
  <2>1. p \in Seq(1 .. Len(fills))
    BY <1>12 DEF Lists
  <2> QED BY <2>1, Rows
<1>15. /\ k \in DOMAIN CompletedTrades(day)
       /\ CompletedTrades(day)[k].sell = fills[i].id
       /\ CompletedTrades(day)[k].qty = SharesSold(i, day)
  BY <1>10, <1>13, <1>14, TradeIs
<1> QED BY <1>1, <1>6, <1>15

-----------------------------------------------------------------------------
(* The trades of a day and what the curve shows of it. *)

\* What the matches of a day have earned.
RealizedOn(d) ==
  Tally([ i \in DOMAIN books.matches |->
            IF i \in { k \in DOMAIN books.matches : MatchedOn(books.matches[k]) = d }
            THEN Net(books.matches[i]) ELSE 0 ])

\* A day of the curve has the matches of that day.
LEMMA RealizedIs ==
  ASSUME PortfolioInv, NEW d \in 1 .. today
  PROVE  Curve[d].realized = RealizedOn(d)
<1>1. PICK M : M = books.matches
  OBVIOUS
<1>2. M \in Seq(MatchRows) /\ DOMAIN M = 1 .. Len(M) /\ today \in Nat
  BY <1>1, BooksFacts, Rows
<1>3. ASSUME NEW i \in DOMAIN M
      PROVE  (MatchedOn(M[i]) <= d /\ (d = 1 \/ MatchedOn(M[i]) > d - 1)) <=> MatchedOn(M[i]) = d
  <2>1. PICK j \in 1 .. Len(fills) :
          ~ fills[j].corp /\ MatchedOn(M[i]) = DayOf(fills[j].at)
    BY <1>1, <1>2, SellOf
  <2>2. PICK x \in 1 .. today : x = MatchedOn(M[i])
    BY <2>1, TradeDay
  <2>3. x \in Nat /\ d \in Nat /\ x >= 1 /\ d >= 1
    BY <1>2
  <2>4. (x <= d /\ (d = 1 \/ x > d - 1)) <=> x = d
    BY <2>3
  <2> QED BY <2>2, <2>4
<1>4. [ i \in DOMAIN M |-> IF MatchedOn(M[i]) <= d /\ (d = 1 \/ MatchedOn(M[i]) > d - 1)
                           THEN Net(M[i]) ELSE 0 ]
        = [ i \in DOMAIN M |-> IF i \in { k \in DOMAIN M : MatchedOn(M[k]) = d }
                               THEN Net(M[i]) ELSE 0 ]
  BY <1>3
<1> QED BY <1>1, <1>4 DEF Curve, RealizedOn

\* The trades of a day have all the matches of that day, once each.
LEMMA DayIs ==
  ASSUME PortfolioInv, NEW d
  PROVE  DaySummary(d).net = RealizedOn(d)
<1>1. PICK M, n, m : M = books.matches /\ n = Len(fills) /\ m = Len(M)
  OBVIOUS
<1>2. /\ n \in Nat /\ DOMAIN fills = 1 .. n /\ m \in Nat /\ DOMAIN M = 1 .. m
      /\ fills \in Seq(FillRows)
  BY <1>1, BooksFacts, Rows
<1>3. PICK net : net = [ i \in 1 .. m |-> Net(M[i]) ]
  OBVIOUS
<1>4. net \in [1 .. m -> Int]
  BY <1>1, <1>3, NetType
<1>5. PICK a : a = [ j \in 1 .. n |-> [ i \in 1 .. m |-> IF SoldBy(i, j, d) THEN net[i] ELSE 0 ] ]
  OBVIOUS
<1>6. a \in [1 .. n -> [1 .. m -> Int]]
  BY <1>4, <1>5
<1>7. ASSUME NEW j \in 1 .. n PROVE NetSold(j, d) = Tally([ i \in 1 .. m |-> a[j][i] ])
  <2>1. [ i \in 1 .. m |-> a[j][i] ] = [ i \in DOMAIN M |-> IF SoldBy(i, j, d) THEN Net(M[i]) ELSE 0 ]
    BY <1>2, <1>3, <1>5
  <2> QED BY <1>1, <2>1 DEF NetSold
<1>8. PICK u : u = RowSums(n, m, a)
  OBVIOUS
<1>9. \A j \in 1 .. n : u[j] = NetSold(j, d)
  BY <1>7, <1>8 DEF RowSums
<1>10. ASSUME NEW j \in 1 .. n
       PROVE  /\ NetSold(j, d) \in Int
              /\ (\A i \in 1 .. m : ~ SoldBy(i, j, d)) => NetSold(j, d) = 0
  <2>1. PICK w : w = [ i \in 1 .. m |-> a[j][i] ]
    OBVIOUS
  <2>2. w \in [1 .. m -> Int]
    BY <1>6, <2>1
  <2>3. w \in Seq(Int) /\ Len(w) = m
    BY <1>2, <2>2, FcnSeq
  <2>4. NetSold(j, d) = Tally(w)
    BY <1>7, <2>1
  <2>5. ASSUME \A i \in 1 .. m : ~ SoldBy(i, j, d) PROVE NetSold(j, d) = 0
    <3>1. \A i \in 1 .. m : w[i] = 0
      BY <1>5, <2>1, <2>5
    <3> QED BY <2>3, <2>4, <3>1, TallyZero
  <2> QED BY <2>3, <2>4, <2>5, TallyType
<1>11. u \in Seq(Int) /\ Len(u) = n
  <2>1. u = [ j \in 1 .. n |-> u[j] ]
    BY <1>8 DEF RowSums
  <2>2. u \in [1 .. n -> Int]
    BY <1>9, <1>10, <2>1
  <2> QED BY <1>2, <2>2, FcnSeq
<1>12. PICK C : C = { j \in DOMAIN fills : \E i \in DOMAIN books.matches : SoldBy(i, j, d) }
  OBVIOUS
<1>13. PICK p : p = SoldRows(d)
  OBVIOUS
<1>14. p = Places(fills, C)
  BY <1>12, <1>13 DEF SoldRows
<1>15. Tally([ k \in DOMAIN p |-> u[p[k]] ]) = Tally(u)
  <2>1. ASSUME NEW j \in 1 .. Len(u), j \notin C PROVE u[j] = 0
    <3>1. \A i \in 1 .. m : ~ SoldBy(i, j, d)
      BY <1>1, <1>2, <1>11, <1>12, <2>1
    <3> QED BY <1>9, <1>10, <1>11, <3>1
  <2>2. Len(u) = Len(fills)
    BY <1>1, <1>11
  <2> QED BY <1>2, <1>11, <1>14, <2>1, <2>2, TallyPlaces
<1>16. DaySummary(d).net = Tally([ k \in DOMAIN p |-> u[p[k]] ])
  <2>1. DaySummary(d).net
          = Tally([ k \in DOMAIN CompletedTrades(d) |-> CompletedTrades(d)[k].net ])
    BY DEF DaySummary
  <2>2. \A k \in DOMAIN p : p[k] \in 1 .. n
    <3>1. Lists(p, Len(fills), C)
      BY <1>2, <1>14, PlacesList
    <3>2. DOMAIN p = 1 .. Len(p)
      BY <3>1, Rows DEF Lists
    <3> QED BY <1>1, <3>1, <3>2 DEF Lists
  <2>3. \A k \in DOMAIN p : CompletedTrades(d)[k].net = u[p[k]]
    BY <1>9, <1>13, <2>2, TradeIs
  <2>4. DOMAIN CompletedTrades(d) = DOMAIN p
    BY <1>13, TradeIs
  <2>5. [ k \in DOMAIN CompletedTrades(d) |-> CompletedTrades(d)[k].net ]
          = [ k \in DOMAIN p |-> u[p[k]] ]
    BY <2>3, <2>4
  <2> QED BY <2>1, <2>5
<1>17. Tally(u) = Tally(ColumnSums(n, m, a))
  BY <1>2, <1>6, <1>8, SumsExchange
<1>18. ASSUME NEW i \in 1 .. m
       PROVE  Tally([ j \in 1 .. n |-> a[j][i] ]) = IF MatchedOn(M[i]) = d THEN net[i] ELSE 0
  <2>1. PICK j \in 1 .. n :
          /\ fills[j].id = M[i].sell
          /\ \A k \in 1 .. n : fills[k].id = M[i].sell => k = j
    BY <1>1, SellOf
  <2>2. Joined(M[i])
    BY <1>1, MatchFacts
  <2>3. \A k \in 1 .. n : SoldBy(i, k, d) <=> k = j /\ MatchedOn(M[i]) = d
    BY <1>1, <2>1, <2>2 DEF SoldBy
  <2>4. PICK w : w = [ k \in 1 .. n |-> a[k][i] ]
    OBVIOUS
  <2>5. \A k \in 1 .. n : w[k] = IF k = j /\ MatchedOn(M[i]) = d THEN net[i] ELSE 0
    BY <1>5, <2>3, <2>4
  <2>6. w \in [1 .. n -> Int]
    BY <1>6, <2>4
  <2>7. w \in Seq(Int) /\ Len(w) = n
    BY <1>2, <2>6, FcnSeq
  <2>8. \A k \in 1 .. Len(w) : k # j => w[k] = 0
    BY <2>5, <2>7
  <2>9. Tally(w) = w[j]
    BY <2>7, <2>8, TallySingle
  <2> QED BY <2>4, <2>5, <2>9
<1>19. ColumnSums(n, m, a)
         = [ i \in DOMAIN M |-> IF i \in { k \in DOMAIN M : MatchedOn(M[k]) = d }
                                THEN Net(M[i]) ELSE 0 ]
  <2>1. \A i \in 1 .. m : Tally([ j \in 1 .. n |-> a[j][i] ])
                            = IF i \in { k \in DOMAIN M : MatchedOn(M[k]) = d }
                              THEN Net(M[i]) ELSE 0
    BY <1>2, <1>3, <1>18
  <2> QED BY <1>2, <2>1 DEF ColumnSums
<1>20. Tally(ColumnSums(n, m, a)) = RealizedOn(d)
  BY <1>1, <1>19 DEF RealizedOn
<1> QED BY <1>15, <1>16, <1>17, <1>20

\* Nothing is realized on a day without trades.
LEMMA NoneRealized ==
  ASSUME PortfolioInv, NEW d, d \notin CloseDates
  PROVE  RealizedOn(d) = 0
<1>1. PICK M, T : M = books.matches /\ T = { k \in DOMAIN M : MatchedOn(M[k]) = d }
  OBVIOUS
<1>2. DOMAIN M = 1 .. Len(M) /\ Len(M) \in Nat
  BY <1>1, BooksFacts, Rows
<1>3. T = {}
  <2>1. \A k \in DOMAIN M : Joined(M[k])
    BY <1>1, <1>2, MatchFacts
  <2> QED BY <1>1, <2>1 DEF CloseDates
<1>4. PICK u : u = [ i \in DOMAIN M |-> IF i \in T THEN Net(M[i]) ELSE 0 ]
  OBVIOUS
<1>5. u \in Seq(Int) /\ \A i \in 1 .. Len(u) : u[i] = 0
  <2>1. u \in [1 .. Len(M) -> Int] /\ \A i \in 1 .. Len(M) : u[i] = 0
    BY <1>2, <1>3, <1>4
  <2> QED BY <1>2, <2>1, FcnSeq
<1>6. Tally(u) = 0
  BY <1>5, TallyZero
<1> QED BY <1>1, <1>4, <1>6 DEF RealizedOn

\* No share is sold twice, and the views of a day agree, at every commit.
THEOREM SharesHold == Spec => []EveryShareSoldOnce
<1>1. ASSUME PortfolioInv PROVE EveryShareSoldOnce
  <2>1. \A d \in 1 .. today : Curve[d].realized = IF d \in CloseDates THEN DaySummary(d).net ELSE 0
    BY <1>1, RealizedIs, DayIs, NoneRealized
  <2> QED BY <1>1, <2>1, NoneTwice, AllShown DEF EveryShareSoldOnce
<1> QED BY <1>1, BooksHold, PTL
=============================================================================
