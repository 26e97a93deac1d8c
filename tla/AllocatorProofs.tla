-------------------------- MODULE AllocatorProofs --------------------------
(***************************************************************************)
(* What plan() and its preview guarantee for every set of strategies,      *)
(* symbols, signals and limits.  Inv is inductive; the properties that the *)
(* run of MCAllocator checks on small calls follow from it and, where they *)
(* are about the value of the orders, from ValueInv.  The preview is one   *)
(* recursion over the SELLs and one over the BUYs: its lemmas follow a set *)
(* of preview states through each.                                         *)
(***************************************************************************)
EXTENDS OrderPreview, FiniteSetTheorems, SequenceTheorems, WellFoundedInduction, TLAPS

-----------------------------------------------------------------------------
(* Recursive functions. *)

\* A set of numbers that is not empty has a least member: induction over finite
\* sets, as the theorem of the library on strict subsets states it.
LEMMA Least == \A T \in SUBSET Nat : T # {} => \E n \in T : \A m \in T : n <= m
<1> SUFFICES ASSUME NEW T \in SUBSET Nat, T # {}
             PROVE  \E n \in T : \A m \in T : n <= m
  OBVIOUS
<1> DEFINE F == { 1 .. n : n \in T }
           R == StrictSubsetOrdering(Nat)
<1>1. IsWellFoundedOn(R, FiniteSubsetsOf(Nat))
  BY FS_StrictSubsetOrderingWellFounded
<1>2. F \subseteq FiniteSubsetsOf(Nat) /\ F # {}
  <2>1. \A n \in T : IsFiniteSet(1 .. n)
    BY FS_Interval
  <2>2. \A n \in T : 1 .. n \in FiniteSubsetsOf(Nat)
    BY <2>1 DEF FiniteSubsetsOf
  <2> QED BY <2>2
<1>3. \E x \in F : \A y \in F : ~ (<<y, x>> \in R)
  <2> HIDE DEF F, R
  <2> QED BY <1>1, <1>2, WFMin
<1>4. PICK n \in T : \A y \in F : ~ (<<y, 1 .. n>> \in R)
  BY <1>3
<1>5. ASSUME NEW m \in T PROVE n <= m
  <2>1. ~ (<<1 .. m, 1 .. n>> \in R)
    BY <1>4
  <2>2. CASE m < n
    <3>1. 1 .. m \subseteq 1 .. n /\ 1 .. m # 1 .. n
      <4>1. n \in 1 .. n /\ n \notin 1 .. m
        BY <2>2
      <4> QED BY <2>2, <4>1
    <3> QED BY <3>1, <2>1 DEF StrictSubsetOrdering
  <2> QED BY <2>2
<1> QED BY <1>5

\* What holds of 0 and, with any number up to n, of the one after it, holds of
\* all numbers up to n.
LEMMA Upwards ==
  ASSUME NEW n \in Nat, NEW T, 0 \in T, \A i \in 1 .. n : i - 1 \in T => i \in T
  PROVE  0 .. n \subseteq T
<1> DEFINE B == (0 .. n) \ T
<1>1. ASSUME B # {} PROVE FALSE
  <2>1. PICK i \in B : \A j \in B : i <= j
    <3>1. B \in SUBSET Nat
      OBVIOUS
    <3> HIDE DEF B
    <3> QED BY <1>1, <3>1, Least
  <2>2. i \in 1 .. n /\ i \notin T
    BY <2>1
  <2>3. i - 1 \in 0 .. n /\ ~ (i - 1 \in B)
    BY <2>1, <2>2
  <2> QED BY <2>2, <2>3
<1> QED BY <1>1

\* g goes from s0 with a step for each of the numbers up to n.
Runs(g, n, S, s0, step) ==
  /\ g \in [0 .. n -> S]
  /\ g[0] = s0
  /\ \A i \in 1 .. n : g[i] = step[i][g[i - 1]]

\* A function defined by recursion on the number before exists.
LEMMA Recursion ==
  ASSUME NEW n \in Nat, NEW S, NEW s0 \in S, NEW step \in [1 .. n -> [S -> S]]
  PROVE  \E g : Runs(g, n, S, s0, step)
<1> DEFINE T == { k \in 0 .. n : \E g : Runs(g, k, S, s0, step) }
<1>1. 0 \in T
  <2> DEFINE g == [ i \in 0 .. 0 |-> s0 ]
  <2>1. Runs(g, 0, S, s0, step)
    BY DEF Runs
  <2> HIDE DEF g
  <2> QED BY <2>1
<1>2. ASSUME NEW k \in 1 .. n, k - 1 \in T PROVE k \in T
  <2>1. PICK g : Runs(g, k - 1, S, s0, step)
    BY <1>2
  <2>2. /\ g \in [0 .. k - 1 -> S] /\ g[0] = s0
        /\ \A i \in 1 .. k - 1 : g[i] = step[i][g[i - 1]]
    BY <2>1 DEF Runs
  <2>3. k - 1 \in 0 .. k - 1 /\ g[k - 1] \in S /\ step[k][g[k - 1]] \in S
    BY <2>2
  <2> DEFINE h == [ i \in 0 .. k |-> IF i = k THEN step[k][g[k - 1]] ELSE g[i] ]
  <2>4. h \in [0 .. k -> S]
    BY <2>2, <2>3
  <2>5. \A i \in 0 .. k - 1 : h[i] = g[i]
    OBVIOUS
  <2>6. h[k] = step[k][g[k - 1]]
    OBVIOUS
  <2> HIDE DEF h
  <2>7. h[0] = s0 /\ h[k] = step[k][h[k - 1]]
    BY <2>2, <2>3, <2>5, <2>6
  <2>8. ASSUME NEW i \in 1 .. k PROVE h[i] = step[i][h[i - 1]]
    <3>1. CASE i = k
      BY <2>7, <3>1
    <3>2. CASE i # k
      <4>1. i \in 1 .. k - 1 /\ i \in 0 .. k - 1 /\ i - 1 \in 0 .. k - 1
        BY <3>2
      <4> QED BY <2>2, <2>5, <4>1
    <3> QED BY <3>1, <3>2
  <2>9. Runs(h, k, S, s0, step)
    BY <2>4, <2>7, <2>8 DEF Runs
  <2> QED BY <2>9
<1>3. 0 .. n \subseteq T
  <2> HIDE DEF T
  <2> QED BY <1>1, <1>2, Upwards
<1> QED BY <1>3

-----------------------------------------------------------------------------
(* Tally and Only. *)

Sums(g, s) ==
  /\ g \in [0 .. Len(s) -> Int]
  /\ g[0] = 0
  /\ \A i \in 1 .. Len(s) : g[i] = g[i - 1] + s[i]

\* Tally is the last of the partial sums.
LEMMA TallyIs ==
  ASSUME NEW s \in Seq(Int)
  PROVE  \E g : Sums(g, s) /\ Tally(s) = g[Len(s)]
<1> DEFINE n == Len(s)
           sum[i \in 0 .. Len(s)] == IF i = 0 THEN 0 ELSE sum[i - 1] + s[i]
           step == [ i \in 1 .. n |-> [ x \in Int |-> x + s[i] ] ]
<1>1. n \in Nat /\ \A i \in 1 .. n : s[i] \in Int
  BY LenProperties, ElementOfSeq
<1>2. \E g : Runs(g, n, Int, 0, step)
  <2>1. 0 \in Int /\ step \in [1 .. n -> [Int -> Int]]
    BY <1>1
  <2> HIDE DEF step, n
  <2> QED BY <1>1, <2>1, Recursion
<1>3. sum = [ i \in 0 .. n |-> IF i = 0 THEN 0 ELSE sum[i - 1] + s[i] ]
  <2>1. PICK g : Runs(g, n, Int, 0, step)
    BY <1>2
  <2>2. g \in [0 .. n -> Int] /\ g[0] = 0 /\ \A i \in 1 .. n : g[i] = step[i][g[i - 1]]
    BY <2>1 DEF Runs
  <2>a. ASSUME NEW i \in 1 .. n PROVE g[i] = g[i - 1] + s[i]
    <3>1. i - 1 \in 0 .. n
      BY <1>1
    <3>2. g[i - 1] \in Int
      BY <2>2, <3>1
    <3> QED BY <2>2, <3>2
  <2>3. g = [ i \in 0 .. n |-> IF i = 0 THEN 0 ELSE g[i - 1] + s[i] ]
    BY <1>1, <2>2, <2>a
  <2> QED BY <2>3
<1>4. Tally(s) = sum[n]
  BY DEF Tally
<1> HIDE DEF sum, n
<1>5. sum[0] = 0 /\ \A i \in 1 .. n : sum[i] = sum[i - 1] + s[i]
  BY <1>1, <1>3
<1>6. sum \in [0 .. n -> Int]
  <2> DEFINE T == { i \in 0 .. n : sum[i] \in Int }
  <2>1. 0 \in T /\ \A i \in 1 .. n : i - 1 \in T => i \in T
    BY <1>1, <1>5
  <2>2. 0 .. n \subseteq T
    <3> HIDE DEF T
    <3> QED BY <1>1, <2>1, Upwards
  <2> QED BY <1>3, <2>2
<1>7. Sums(sum, s)
  BY <1>5, <1>6 DEF Sums, n
<1> QED BY <1>4, <1>7 DEF n

\* Partial sums are unique.
LEMMA TallyBy ==
  ASSUME NEW s \in Seq(Int), NEW g, Sums(g, s)
  PROVE  Tally(s) = g[Len(s)] /\ Tally(s) \in Int
<1>1. PICK h : Sums(h, s) /\ Tally(s) = h[Len(s)]
  BY TallyIs
<1>2. PICK n : n = Len(s)
  OBVIOUS
<1>3. n \in Nat /\ \A i \in 1 .. n : s[i] \in Int
  BY <1>2, LenProperties, ElementOfSeq
<1>4. /\ g \in [0 .. n -> Int] /\ g[0] = 0 /\ \A i \in 1 .. n : g[i] = g[i - 1] + s[i]
      /\ h \in [0 .. n -> Int] /\ h[0] = 0 /\ \A i \in 1 .. n : h[i] = h[i - 1] + s[i]
  BY <1>1, <1>2 DEF Sums
<1> DEFINE T == { i \in 0 .. n : g[i] = h[i] }
<1>5. 0 \in T /\ \A i \in 1 .. n : i - 1 \in T => i \in T
  BY <1>3, <1>4
<1>6. 0 .. n \subseteq T
  <2> HIDE DEF T
  <2> QED BY <1>3, <1>5, Upwards
<1>7. n \in 0 .. n
  BY <1>3
<1>8. g[n] = h[n] /\ h[n] \in Int
  BY <1>4, <1>6, <1>7
<1> QED BY <1>1, <1>2, <1>8

\* A sum of integers is one.
LEMMA TallyType == ASSUME NEW s \in Seq(Int) PROVE Tally(s) \in Int
BY TallyIs, TallyBy

\* Nothing sums to zero.
LEMMA TallyEmpty == Tally(<< >>) = 0
<1>1. << >> \in Seq(Int) /\ Len(<< >>) = 0
  OBVIOUS
<1>2. PICK g : Sums(g, << >>) /\ Tally(<< >>) = g[Len(<< >>)]
  BY <1>1, TallyIs
<1> QED BY <1>1, <1>2 DEF Sums

\* The sum of two sequences one after the other is the sum of their sums.
LEMMA TallyJoin ==
  ASSUME NEW s \in Seq(Int), NEW t \in Seq(Int)
  PROVE  Tally(s \o t) = Tally(s) + Tally(t)
<1>1. PICK g : Sums(g, s) /\ Tally(s) = g[Len(s)]
  BY TallyIs
<1>2. PICK h : Sums(h, t) /\ Tally(t) = h[Len(t)]
  BY TallyIs
<1>3. PICK m, n : m = Len(s) /\ n = Len(t)
  OBVIOUS
<1>4. m \in Nat /\ n \in Nat
  BY <1>3, LenProperties
<1>5. g \in [0 .. m -> Int] /\ g[0] = 0 /\ \A i \in 1 .. m : g[i] = g[i - 1] + s[i]
  BY <1>1, <1>3 DEF Sums
<1>6. h \in [0 .. n -> Int] /\ h[0] = 0 /\ \A i \in 1 .. n : h[i] = h[i - 1] + t[i]
  BY <1>2, <1>3 DEF Sums
<1>7. PICK u : u = s \o t
  OBVIOUS
<1>8. /\ u \in Seq(Int) /\ Len(u) = m + n
      /\ \A i \in 1 .. m : u[i] = s[i]
      /\ \A i \in 1 .. n : u[m + i] = t[i]
  <2>1. /\ u \in Seq(Int) /\ Len(u) = m + n
        /\ \A i \in 1 .. m + n : u[i] = IF i <= m THEN s[i] ELSE t[i - m]
    BY <1>3, <1>7, ConcatProperties
  <2>2. ASSUME NEW i \in 1 .. n PROVE u[m + i] = t[i]
    <3>1. m + i \in 1 .. m + n /\ ~ (m + i <= m) /\ (m + i) - m = i
      BY <1>4
    <3> QED BY <2>1, <3>1
  <2>3. \A i \in 1 .. m : i \in 1 .. m + n /\ i <= m
    BY <1>4
  <2> QED BY <2>1, <2>2, <2>3
<1> DEFINE f == [ i \in 0 .. m + n |-> IF i <= m THEN g[i] ELSE g[m] + h[i - m] ]
<1>9. \A i \in 0 .. m : i \in 0 .. m + n /\ f[i] = g[i]
  BY <1>4
<1>10. ASSUME NEW i \in 0 .. n PROVE m + i \in 0 .. m + n /\ f[m + i] = g[m] + h[i]
  <2>1. m + i \in 0 .. m + n /\ (m + i) - m = i /\ (m + i <= m => i = 0 /\ m + i = m)
    BY <1>4
  <2>2. g[m] \in Int
    BY <1>4, <1>5
  <2>3. CASE i = 0
    BY <1>6, <1>9, <1>4, <2>2, <2>3
  <2>4. CASE i # 0
    BY <2>1, <2>4
  <2> QED BY <2>1, <2>3, <2>4
<1>11. f \in [0 .. m + n -> Int]
  <2>1. g[m] \in Int
    BY <1>4, <1>5
  <2>2. ASSUME NEW i \in 0 .. m + n PROVE (IF i <= m THEN g[i] ELSE g[m] + h[i - m]) \in Int
    <3>1. CASE i <= m
      BY <1>4, <1>5, <3>1
    <3>2. CASE ~ (i <= m)
      <4>1. i - m \in 0 .. n
        BY <1>4, <3>2
      <4>2. h[i - m] \in Int
        BY <1>6, <4>1
      <4> QED BY <2>1, <3>2, <4>2
    <3> QED BY <3>1, <3>2
  <2> QED BY <2>2
<1> HIDE DEF f
<1>12. ASSUME NEW i \in 1 .. m + n PROVE f[i] = f[i - 1] + u[i]
  <2>1. CASE i <= m
    <3>1. i \in 0 .. m /\ i - 1 \in 0 .. m /\ i \in 1 .. m
      BY <1>4, <2>1
    <3> QED BY <1>5, <1>8, <1>9, <3>1
  <2>2. CASE ~ (i <= m)
    <3>1. PICK k \in 1 .. n : i = m + k
      <4>1. i - m \in 1 .. n /\ i = m + (i - m)
        BY <1>4, <2>2
      <4> QED BY <4>1
    <3>2. k \in 0 .. n /\ k - 1 \in 0 .. n /\ i - 1 = m + (k - 1)
      BY <1>4, <3>1
    <3>3. f[i] = g[m] + h[k] /\ f[i - 1] = g[m] + h[k - 1] /\ u[i] = t[k]
      BY <1>8, <1>10, <3>1, <3>2
    <3>4. h[k] = h[k - 1] + t[k] /\ h[k - 1] \in Int /\ h[k] \in Int
      BY <1>6, <3>1, <3>2
    <3>5. t[k] \in Int /\ g[m] \in Int
      BY <1>3, <1>4, <1>5, <3>1, ElementOfSeq
    <3> QED BY <3>3, <3>4, <3>5
  <2> QED BY <2>1, <2>2
<1>13. Sums(f, u)
  <2>1. f[0] = 0
    BY <1>4, <1>5, <1>9
  <2> QED BY <1>8, <1>11, <1>12, <2>1 DEF Sums
<1>14. Tally(u) = f[m + n]
  BY <1>8, <1>13, TallyBy
<1>15. f[m + n] = g[m] + h[n]
  BY <1>4, <1>10
<1> QED BY <1>1, <1>2, <1>3, <1>7, <1>14, <1>15

\* One number is its own sum.
LEMMA TallyOne == ASSUME NEW x \in Int PROVE Tally(<< x >>) = x
<1>1. PICK s : s = << x >>
  OBVIOUS
<1>2. s \in Seq(Int) /\ Len(s) = 1 /\ s[1] = x
  BY <1>1
<1>3. PICK g : Sums(g, s) /\ Tally(s) = g[Len(s)]
  BY <1>2, TallyIs
<1>4. g[0] = 0 /\ 1 \in 1 .. 1 /\ \A i \in 1 .. 1 : g[i] = g[i - 1] + s[i]
  BY <1>2, <1>3 DEF Sums
<1>5. g[1] = g[1 - 1] + s[1] /\ 1 - 1 = 0
  BY <1>4
<1> QED BY <1>1, <1>2, <1>3, <1>4, <1>5

-----------------------------------------------------------------------------
(* The sum of what each member of a sequence weighs. *)

Weights(w, s) == [ i \in DOMAIN s |-> w[s[i]] ]

Weight(w, s) == Tally(Weights(w, s))

\* The weights of the members of a sequence are a sequence as long.
LEMMA WeightsType ==
  ASSUME NEW S, NEW w \in [S -> Int], NEW s \in Seq(S)
  PROVE  Weights(w, s) \in Seq(Int) /\ Len(Weights(w, s)) = Len(s) /\ Weight(w, s) \in Int
<1>1. Len(s) \in Nat /\ DOMAIN s = 1 .. Len(s) /\ \A i \in 1 .. Len(s) : s[i] \in S
  BY LenProperties, ElementOfSeq
<1>2. PICK n : n = Len(s)
  OBVIOUS
<1>3. Weights(w, s) \in [1 .. n -> Int]
  BY <1>1, <1>2 DEF Weights
<1>4. PICK a : a = Weights(w, s)
  OBVIOUS
<1>5. a \in Seq(Int) /\ DOMAIN a = 1 .. n /\ n \in Nat
  <2>1. n \in Nat
    BY <1>1, <1>2
  <2>2. a \in [1 .. n -> Int] /\ DOMAIN a = 1 .. n
    BY <1>3, <1>4
  <2>3. a \in UNION { [1 .. m -> Int] : m \in Nat }
    BY <2>1, <2>2
  <2> QED BY <2>1, <2>2, <2>3, SeqDef
<1>6. Len(a) = n
  BY <1>5
<1> QED BY <1>2, <1>4, <1>5, <1>6, TallyType DEF Weight

\* Two sequences one after the other weigh what they weigh together.
LEMMA WeightJoin ==
  ASSUME NEW S, NEW w \in [S -> Int], NEW s \in Seq(S), NEW t \in Seq(S)
  PROVE  Weight(w, s \o t) = Weight(w, s) + Weight(w, t)
<1>1. PICK u : u = s \o t
  OBVIOUS
<1>2. PICK m, n : m = Len(s) /\ n = Len(t)
  OBVIOUS
<1>3. /\ m \in Nat /\ n \in Nat /\ DOMAIN s = 1 .. m /\ DOMAIN t = 1 .. n
      /\ u \in Seq(S) /\ Len(u) = m + n /\ DOMAIN u = 1 .. m + n
      /\ \A i \in 1 .. m + n : u[i] = IF i <= m THEN s[i] ELSE t[i - m]
  BY <1>1, <1>2, LenProperties, ConcatProperties
<1>4. PICK a, b, c : a = Weights(w, s) /\ b = Weights(w, t) /\ c = Weights(w, u)
  OBVIOUS
<1>5. /\ a \in Seq(Int) /\ Len(a) = m /\ b \in Seq(Int) /\ Len(b) = n
      /\ c \in Seq(Int) /\ Len(c) = m + n
  BY <1>2, <1>3, <1>4, WeightsType
<1>6. PICK d : d = a \o b
  OBVIOUS
<1>7. /\ d \in Seq(Int) /\ Len(d) = m + n
      /\ \A i \in 1 .. m + n : d[i] = IF i <= m THEN a[i] ELSE b[i - m]
  BY <1>5, <1>6, ConcatProperties
<1>8. ASSUME NEW i \in 1 .. m + n PROVE c[i] = d[i]
  <2>1. c[i] = w[u[i]]
    BY <1>3, <1>4 DEF Weights
  <2>2. CASE i <= m
    <3>1. i \in 1 .. m
      BY <1>3, <2>2
    <3>2. a[i] = w[s[i]]
      BY <1>3, <1>4, <3>1 DEF Weights
    <3> QED BY <1>3, <1>7, <2>1, <2>2, <3>2
  <2>3. CASE ~ (i <= m)
    <3>1. i - m \in 1 .. n
      BY <1>3, <2>3
    <3>2. b[i - m] = w[t[i - m]]
      BY <1>3, <1>4, <3>1 DEF Weights
    <3> QED BY <1>3, <1>7, <2>1, <2>3, <3>2
  <2> QED BY <2>2, <2>3
<1>9. c = d
  <2>1. PICK k : k = m + n
    OBVIOUS
  <2>2. c \in [1 .. k -> Int] /\ d \in [1 .. k -> Int]
    BY <1>5, <1>7, <2>1, LenProperties
  <2>3. \A i \in 1 .. k : c[i] = d[i]
    BY <1>8, <2>1
  <2>4. c = [ i \in 1 .. k |-> c[i] ] /\ d = [ i \in 1 .. k |-> d[i] ]
    BY <2>2
  <2> QED BY <2>3, <2>4, Zenon
<1> QED BY <1>1, <1>4, <1>5, <1>6, <1>9, TallyJoin DEF Weight

\* One member weighs its weight.
LEMMA WeightOne ==
  ASSUME NEW S, NEW w \in [S -> Int], NEW x \in S
  PROVE  Weight(w, << x >>) = w[x]
<1>1. Weights(w, << x >>) = << w[x] >>
  BY DEF Weights
<1> QED BY <1>1, TallyOne DEF Weight

\* An empty sequence weighs nothing.
LEMMA WeightEmpty == \A w : Weight(w, << >>) = 0
<1>1. \A w : Weights(w, << >>) = << >>
  BY DEF Weights
<1> QED BY <1>1, TallyEmpty DEF Weight


-----------------------------------------------------------------------------
Keeps(g, s, S) ==
  /\ g[0] = << >>
  /\ \A i \in 1 .. Len(s) : g[i] = IF s[i] \in S THEN Append(g[i - 1], s[i]) ELSE g[i - 1]

\* Only is the last of the selections from the first members.
LEMMA OnlyIs ==
  ASSUME NEW T, NEW s \in Seq(T), NEW S
  PROVE  \E g \in [0 .. Len(s) -> Seq(T)] : Keeps(g, s, S) /\ Only(s, S) = g[Len(s)]
<1> DEFINE n == Len(s)
           kept[i \in 0 .. Len(s)] ==
             IF i = 0 THEN << >>
             ELSE IF s[i] \in S THEN Append(kept[i - 1], s[i]) ELSE kept[i - 1]
           step == [ i \in 1 .. n |-> [ x \in Seq(T) |-> IF s[i] \in S THEN Append(x, s[i]) ELSE x ] ]
<1>1. n \in Nat /\ \A i \in 1 .. n : s[i] \in T
  BY LenProperties, ElementOfSeq
<1>2. \E g : Runs(g, n, Seq(T), << >>, step)
  <2>1. \A i \in 1 .. n : \A x \in Seq(T) : Append(x, s[i]) \in Seq(T)
    BY <1>1, AppendProperties
  <2>2. << >> \in Seq(T) /\ step \in [1 .. n -> [Seq(T) -> Seq(T)]]
    BY <2>1
  <2> HIDE DEF step, n
  <2> QED BY <1>1, <2>2, Recursion
<1>3. PICK g : Runs(g, n, Seq(T), << >>, step)
  BY <1>2
<1>4. g \in [0 .. n -> Seq(T)] /\ g[0] = << >> /\ \A i \in 1 .. n : g[i] = step[i][g[i - 1]]
  BY <1>3 DEF Runs
<1>5. ASSUME NEW i \in 1 .. n
      PROVE  g[i] = IF s[i] \in S THEN Append(g[i - 1], s[i]) ELSE g[i - 1]
  <2>1. i - 1 \in 0 .. n
    BY <1>1
  <2>2. g[i - 1] \in Seq(T)
    BY <1>4, <2>1
  <2> QED BY <1>4, <2>2
<1>6. g = [ i \in 0 .. n |-> IF i = 0 THEN << >>
                             ELSE IF s[i] \in S THEN Append(g[i - 1], s[i]) ELSE g[i - 1] ]
  <2>1. \A i \in 0 .. n : g[i] = IF i = 0 THEN << >>
                                ELSE IF s[i] \in S THEN Append(g[i - 1], s[i]) ELSE g[i - 1]
    <3>1. \A i \in 0 .. n : i = 0 \/ i \in 1 .. n
      BY <1>1
    <3>2. ASSUME NEW i \in 1 .. n PROVE i # 0
      OBVIOUS
    <3>3. g[0] = << >>
      BY <1>4
    <3> HIDE DEF n
    <3> QED BY <1>5, <3>1, <3>2, <3>3
  <2>2. g = [ i \in 0 .. n |-> g[i] ]
    BY <1>4
  <2> QED BY <2>1, <2>2
<1>7. kept = [ i \in 0 .. n |-> IF i = 0 THEN << >>
                             ELSE IF s[i] \in S THEN Append(kept[i - 1], s[i]) ELSE kept[i - 1] ]
  BY <1>6
<1>8. Only(s, S) = kept[n]
  BY DEF Only
<1> HIDE DEF kept, n
<1>a. PICK Q, e : Q = Seq(T) /\ e = << >>
  OBVIOUS
<1>b. e \in Q /\ \A x \in Q : \A i \in 1 .. n : Append(x, s[i]) \in Q
  BY <1>1, <1>a, AppendProperties
<1>c. kept[0] = e
  BY <1>1, <1>7, <1>a
<1>d. ASSUME NEW i \in 1 .. n
      PROVE  kept[i] = IF s[i] \in S THEN Append(kept[i - 1], s[i]) ELSE kept[i - 1]
  <2>1. i \in 0 .. n /\ i # 0
    BY <1>1
  <2> QED BY <1>7, <2>1
<1>9. kept[0] = << >>
      /\ \A i \in 1 .. n : kept[i] = IF s[i] \in S THEN Append(kept[i - 1], s[i]) ELSE kept[i - 1]
  BY <1>a, <1>c, <1>d
<1>10. kept \in [0 .. n -> Seq(T)]
  <2> DEFINE U == { i \in 0 .. n : kept[i] \in Q }
  <2>1. 0 \in U
    BY <1>1, <1>b, <1>c
  <2>2. ASSUME NEW i \in 1 .. n, i - 1 \in U PROVE i \in U
    <3>1. kept[i - 1] \in Q /\ i \in 0 .. n
      BY <1>1, <2>2
    <3> QED BY <1>b, <1>d, <3>1
  <2>3. 0 .. n \subseteq U
    <3> HIDE DEF U
    <3> QED BY <1>1, <2>1, <2>2, Upwards
  <2>4. DOMAIN kept = 0 .. n /\ kept = [ i \in 0 .. n |-> kept[i] ]
    BY <1>7
  <2> QED BY <1>a, <2>3, <2>4
<1>11. Keeps(kept, s, S)
  BY <1>9 DEF Keeps, n
<1> QED BY <1>8, <1>10, <1>11 DEF n

\* A selection of a sequence is one, and weighs no more.
LEMMA OnlyType ==
  ASSUME NEW T, NEW s \in Seq(T), NEW S
  PROVE  Only(s, S) \in Seq(T)
<1>1. PICK g \in [0 .. Len(s) -> Seq(T)] : Keeps(g, s, S) /\ Only(s, S) = g[Len(s)]
  BY OnlyIs
<1>2. Len(s) \in 0 .. Len(s)
  BY LenProperties
<1> QED BY <1>1, <1>2

-----------------------------------------------------------------------------
(* The operators the actions are built from. *)

\* The fee of an order is a natural number and at least the 20 TWD minimum.
LEMMA FeeType ==
  ASSUME NEW value \in Nat
  PROVE  Fee(value) \in Nat /\ Fee(value) >= 20
<1>1. Rounded(value * 1425, 1000000) \in Int
  BY DEF Rounded
<1> QED
  BY <1>1 DEF Fee

\* The members of a concatenation are the members of its parts.
LEMMA ToSetConcat ==
  ASSUME NEW S, NEW s \in Seq(S), NEW t \in Seq(S)
  PROVE  ToSet(s \o t) = ToSet(s) \cup ToSet(t)
<1>1. DOMAIN s = 1 .. Len(s) /\ DOMAIN t = 1 .. Len(t) /\ Len(s) \in Nat /\ Len(t) \in Nat
  BY LenProperties
<1>2. /\ s \o t \in Seq(S)
      /\ Len(s \o t) = Len(s) + Len(t)
      /\ \A i \in 1 .. Len(s) + Len(t) :
           (s \o t)[i] = IF i <= Len(s) THEN s[i] ELSE t[i - Len(s)]
  BY ConcatProperties
<1>3. DOMAIN (s \o t) = 1 .. Len(s) + Len(t)
  BY <1>2, LenProperties
<1>4. ASSUME NEW x \in ToSet(s \o t) PROVE x \in ToSet(s) \cup ToSet(t)
  BY <1>1, <1>2, <1>3, <1>4 DEF ToSet
<1>5. ASSUME NEW x \in ToSet(s) PROVE x \in ToSet(s \o t)
  <2>1. PICK i \in 1 .. Len(s) : x = s[i]
    BY <1>1 DEF ToSet
  <2>2. i \in 1 .. Len(s) + Len(t) /\ (s \o t)[i] = x
    BY <2>1, <1>1, <1>2
  <2> QED
    BY <2>2, <1>3 DEF ToSet
<1>6. ASSUME NEW x \in ToSet(t) PROVE x \in ToSet(s \o t)
  <2>1. PICK i \in 1 .. Len(t) : x = t[i]
    BY <1>1 DEF ToSet
  <2>2. i + Len(s) \in 1 .. Len(s) + Len(t) /\ (s \o t)[i + Len(s)] = x
    BY <2>1, <1>1, <1>2
  <2> QED
    BY <2>2, <1>3 DEF ToSet
<1> QED
  BY <1>4, <1>5, <1>6

\* A member of a sequence over S is in S.
LEMMA ToSetType ==
  ASSUME NEW S, NEW s \in Seq(S)
  PROVE  ToSet(s) \subseteq S
BY LenProperties, ElementOfSeq DEF ToSet

\* The members of a sequence of at most one element.
LEMMA ToSetShort ==
  ASSUME NEW S
  PROVE  /\ << >> \in Seq(S) /\ ToSet(<< >>) = {}
         /\ \A x \in S : << x >> \in Seq(S) /\ ToSet(<< x >>) = {x}
<1>1. << >> \in Seq(S) /\ ToSet(<< >>) = {}
  BY DEF ToSet
<1>2. ASSUME NEW x \in S PROVE << x >> \in Seq(S) /\ ToSet(<< x >>) = {x}
  <2>1. << x >> \in Seq(S) /\ DOMAIN << x >> = {1} /\ << x >>[1] = x
    OBVIOUS
  <2> QED
    BY <2>1 DEF ToSet
<1> QED
  BY <1>1, <1>2

\* Splitting a quantity into a board-lot and an odd-lot order loses nothing of
\* what the orders say: bucket, side, and that there is something to trade.
LEMMA SplitOrders ==
  ASSUME NEW sig \in Signals, NEW side \in {"SELL", "BUY"}, NEW qty \in Nat \ {0}
  PROVE  /\ SplitLotOrders(sig, side, qty) \in Seq(Orders)
         /\ ToSet(SplitLotOrders(sig, side, qty)) # {}
         /\ \A o \in ToSet(SplitLotOrders(sig, side, qty)) :
              /\ o.side = side /\ o.id = sig.id
              /\ o.strategy = sig.strategy /\ o.symbol = sig.symbol
<1> DEFINE board == (qty \div BoardLot) * BoardLot
           rest  == qty % BoardLot
           boardOrder == [ id |-> sig.id, strategy |-> sig.strategy,
                           symbol |-> sig.symbol, side |-> side,
                           qty |-> board, odd |-> FALSE, price |-> sig.price ]
           restOrder == [ id |-> sig.id, strategy |-> sig.strategy,
                          symbol |-> sig.symbol, side |-> side,
                          qty |-> rest, odd |-> TRUE, price |-> sig.price ]
           first  == IF board > 0 THEN << boardOrder >> ELSE << >>
           second == IF rest > 0 THEN << restOrder >> ELSE << >>
           Of(o) == /\ o.side = side /\ o.id = sig.id
                    /\ o.strategy = sig.strategy /\ o.symbol = sig.symbol
<1>1. board \in Nat /\ rest \in Nat /\ (board > 0 \/ rest > 0)
  BY DEF BoardLot
<1>2. SplitLotOrders(sig, side, qty) = first \o second
  BY DEF SplitLotOrders
<1> HIDE DEF board, rest
<1>3. board > 0 => boardOrder \in Orders /\ Of(boardOrder)
  BY <1>1, SignalsAssumption DEF Orders, IsSignal
<1>4. rest > 0 => restOrder \in Orders /\ Of(restOrder)
  BY <1>1, SignalsAssumption DEF Orders, IsSignal
<1> HIDE DEF boardOrder, restOrder
<1>5. << >> \in Seq(Orders) /\ ToSet(<< >>) = {}
  BY ToSetShort
<1>6. \A x \in Orders : << x >> \in Seq(Orders) /\ ToSet(<< x >>) = {x}
  BY ToSetShort
<1>7. first \in Seq(Orders) /\ ToSet(first) = IF board > 0 THEN {boardOrder} ELSE {}
  BY <1>3, <1>5, <1>6
<1>8. second \in Seq(Orders) /\ ToSet(second) = IF rest > 0 THEN {restOrder} ELSE {}
  BY <1>4, <1>5, <1>6
<1> HIDE DEF first, second
<1>9. first \o second \in Seq(Orders) /\ ToSet(first \o second) = ToSet(first) \cup ToSet(second)
  BY <1>7, <1>8, ToSetConcat, ConcatProperties
<1> QED
  BY <1>1, <1>2, <1>3, <1>4, <1>7, <1>8, <1>9

\* The orders of one action join those planned before; they all name its bucket.
LEMMA OrdersJoin ==
  ASSUME NEW os \in Seq(Orders), NEW sig \in Signals,
         NEW side \in {"SELL", "BUY"}, NEW qty \in Nat \ {0}
  PROVE  LET new == SplitLotOrders(sig, side, qty)
         IN  /\ os \o new \in Seq(Orders)
             /\ ToSet(os \o new) = ToSet(os) \cup ToSet(new)
             /\ ToSet(new) # {}
             /\ \A o \in ToSet(new) : /\ o.side = side /\ o.id = sig.id
                                     /\ o.strategy = sig.strategy /\ o.symbol = sig.symbol
BY SplitOrders, ToSetConcat, ConcatProperties

\* Every planned order is for a bucket.
LEMMA OrderBuckets ==
  ASSUME TypeOK
  PROVE  \A o \in ToSet(orders) : << o.strategy, o.symbol >> \in Buckets
<1>1. \A o \in ToSet(orders) : o \in Orders
  BY ToSetType DEF TypeOK
<1>2. \A o \in Orders : o.strategy \in Strategies /\ o.symbol \in Symbols
  BY DEF Orders
<1> QED
  BY <1>1, <1>2 DEF Buckets

-----------------------------------------------------------------------------
(* The inductive invariant. *)

\* A symbol is netted as soon as it is sold and no BUY of it was planned; the
\* BUYs come after every SELL signal was looked at.
NettingInv ==
  /\ \A b \in Sold : b[2] \in p.netted
  /\ \A b \in Bought : b[2] \notin p.netted
  /\ Bought # {} => sells = << >>

\* A bucket of a symbol that is not netted holds what it held before the plan,
\* or it was empty and a BUY filled it.
BucketInv ==
  /\ \A b \in Bought : input.pos[b] = 0 /\ p.pos[b] > 0
  /\ \A b \in Buckets : b[2] \notin p.netted /\ b \notin Bought => p.pos[b] = input.pos[b]

\* A plan that buys is within the daily limits of the account and of each
\* strategy that buys, and those are approved.
SpentInv ==
  /\ p.gspent >= input.gspent
  /\ Bought # {} => p.gspent <= input.lim.globalDaily
  /\ \A b \in Bought : /\ b[1] \in input.lim.approved
                       /\ p.sspent[b[1]] <= input.lim.strategyDaily[b[1]]

\* The counter of new positions counts the entered buckets.
CountInv ==
  /\ IsFiniteSet(Bought)
  /\ Cardinality(Bought) = p.newCount
  /\ p.newCount <= input.lim.newPerDay

Inv == /\ TypeOK /\ NettingInv /\ BucketInv /\ SpentInv /\ CountInv
       /\ ExitsCloseBuckets /\ EnterOnce /\ OpenPositionLimits

\* The starting locals of every call satisfy the invariant.
LEMMA InvInit == Init => Inv
<1> SUFFICES ASSUME Init PROVE Inv
  OBVIOUS
<1>1. IsInput(input)
  BY InputsAssumption DEF Init
<1>2. orders = << >> /\ ToSet(orders) = {}
  BY ToSetShort DEF Init
<1>3. Sold = {} /\ Bought = {}
  BY <1>2 DEF Sold, Bought
<1>4. TypeOK
  BY <1>1, <1>2 DEF Init, IsInput, TypeOK
<1>5. IsFiniteSet(Bought) /\ Cardinality(Bought) = 0
  BY <1>3, FS_EmptySet
<1>6. input.lim.newPerDay \in Nat
  BY <1>1 DEF IsInput, Limits
<1>7. CountInv /\ OpenPositionLimits
  BY <1>3, <1>5, <1>6 DEF CountInv, OpenPositionLimits, Init
<1>8. NettingInv /\ BucketInv /\ SpentInv
  BY <1>1, <1>3 DEF NettingInv, BucketInv, SpentInv, Init, IsInput
<1>9. ExitsCloseBuckets /\ EnterOnce
  BY <1>2, <1>3 DEF ExitsCloseBuckets, EnterOnce
<1> QED
  BY <1>4, <1>7, <1>8, <1>9 DEF Inv

\* A SELL closes its bucket while nothing has been bought yet.
LEMMA InvSellBucket == Inv /\ SellBucket => Inv'
<1> SUFFICES ASSUME Inv, SellBucket PROVE Inv'
  OBVIOUS
<1> DEFINE sig == Head(sells)
           qty == p.pos[Bucket(sig)]
           new == SplitLotOrders(sig, "SELL", qty)
<1>1. TypeOK /\ IsInput(input) /\ sells # << >>
  BY InputsAssumption DEF Inv, TypeOK, SellBucket
<1>2. sig \in Signals /\ Tail(sells) \in Seq(Signals) /\ IsSignal(sig)
  BY <1>1, HeadTailProperties, SignalsAssumption DEF TypeOK
<1>3. Bucket(sig) \in Buckets /\ qty \in Nat \ {0}
  BY <1>1, <1>2 DEF Bucket, Buckets, IsSignal, TypeOK, SellBucket, SellPossible
<1>4. /\ orders' = orders \o new /\ p' = AfterSell(p, sig)
      /\ sells' = Tail(sells) /\ buys' = buys /\ input' = input
  BY DEF SellBucket, SellOrders
<1> HIDE DEF sig, qty
<1>5. /\ orders' \in Seq(Orders)
      /\ ToSet(orders') = ToSet(orders) \cup ToSet(new)
      /\ ToSet(new) # {}
      /\ \A o \in ToSet(new) : /\ o.side = "SELL" /\ o.id = sig.id
                              /\ o.strategy = sig.strategy /\ o.symbol = sig.symbol
  <2>1. orders \in Seq(Orders)
    BY <1>1 DEF TypeOK
  <2>2. /\ orders \o new \in Seq(Orders)
        /\ ToSet(orders \o new) = ToSet(orders) \cup ToSet(new)
        /\ ToSet(new) # {}
        /\ \A o \in ToSet(new) : /\ o.side = "SELL" /\ o.id = sig.id
                                /\ o.strategy = sig.strategy /\ o.symbol = sig.symbol
    BY <2>1, <1>2, <1>3, OrdersJoin
  <2> HIDE DEF new
  <2> QED
    BY <2>2, <1>4
<1> HIDE DEF new
<1>6. Sold' = Sold \cup {Bucket(sig)}
  BY <1>5 DEF Sold, Bucket
<1>7. Bought = {} /\ Bought' = {}
  <2>1. Bought = {}
    BY <1>1 DEF Inv, NettingInv
  <2>2. Bought' = Bought
    BY <1>5 DEF Bought
  <2> QED
    BY <2>1, <2>2
<1>8. /\ p'.pos = [p.pos EXCEPT ![Bucket(sig)] = 0]
      /\ p'.netted = p.netted \cup {sig.symbol}
      /\ p'.cash = p.cash /\ p'.gspent = p.gspent
      /\ p'.sspent = p.sspent /\ p'.newCount = p.newCount
  BY <1>4, <1>1 DEF AfterSell, TypeOK
<1>9. TypeOK'
  BY <1>1, <1>2, <1>3, <1>4, <1>5, <1>8 DEF TypeOK, IsSignal
<1>10. NettingInv'
  BY <1>6, <1>7, <1>8 DEF Inv, NettingInv, Bucket
<1>11. BucketInv'
  <2>1. Bucket(sig)[2] \in p'.netted /\ p.pos \in [Buckets -> Nat]
    BY <1>1, <1>8 DEF Bucket, TypeOK
  <2>2. ASSUME NEW b \in Buckets, b[2] \notin p'.netted
        PROVE  p'.pos[b] = input.pos[b]
    BY <2>1, <2>2, <1>3, <1>7, <1>8 DEF Inv, BucketInv
  <2> QED
    BY <2>2, <1>4, <1>7 DEF BucketInv
<1>12. SpentInv' /\ CountInv'
  BY <1>4, <1>7, <1>8 DEF Inv, SpentInv, CountInv
<1>13. ExitsCloseBuckets'
  <2>1. \A b \in Sold : b \in Buckets
    BY <1>1, OrderBuckets DEF Sold
  <2> QED
    BY <1>1, <1>3, <1>6, <1>8, <2>1 DEF Inv, ExitsCloseBuckets, TypeOK
<1>14. EnterOnce'
  <2>1. \A o \in ToSet(orders') : o.side # "BUY"
    BY <1>7 DEF Bought
  <2> QED
    BY <1>7, <2>1 DEF EnterOnce
<1>15. OpenPositionLimits'
  BY <1>4, <1>7 DEF Inv, OpenPositionLimits
<1> QED
  BY <1>9, <1>10, <1>11, <1>12, <1>13, <1>14, <1>15 DEF Inv

\* A signal that gets no order leaves every local as it is.
LEMMA InvSkip == Inv /\ (SellNothing \/ BuyBlocked) => Inv'
<1> SUFFICES ASSUME Inv, SellNothing \/ BuyBlocked PROVE Inv'
  OBVIOUS
<1>1. /\ input' = input /\ p' = p /\ orders' = orders
      /\ sells' \in Seq(Signals) /\ buys' \in Seq(Signals)
      /\ sells = << >> => sells' = << >>
  BY HeadTailProperties DEF Inv, TypeOK, SellNothing, BuyBlocked
<1>2. Sold' = Sold /\ Bought' = Bought
  BY <1>1 DEF Sold, Bought
<1>3. TypeOK'
  BY <1>1 DEF Inv, TypeOK
<1>4. NettingInv' /\ BucketInv' /\ SpentInv' /\ CountInv'
  BY <1>1, <1>2 DEF Inv, NettingInv, BucketInv, SpentInv, CountInv
<1>5. ExitsCloseBuckets' /\ EnterOnce' /\ OpenPositionLimits'
  BY <1>1, <1>2 DEF Inv, ExitsCloseBuckets, EnterOnce, OpenPositionLimits
<1> QED
  BY <1>3, <1>4, <1>5 DEF Inv

\* One more element makes a finite set larger by at most one.
LEMMA CardinalityAdd ==
  ASSUME NEW S, IsFiniteSet(S), NEW x, NEW T, T = S \cup {x}
  PROVE  /\ IsFiniteSet(T)
         /\ Cardinality(S) \in Nat
         /\ Cardinality(T) = IF x \in S THEN Cardinality(S) ELSE Cardinality(S) + 1
         /\ Cardinality(T) <= Cardinality(S) + 1
<1>1. Cardinality(S) \in Nat
  BY FS_CardinalityType
<1>2. /\ IsFiniteSet(T)
      /\ Cardinality(T) = IF x \in S THEN Cardinality(S) ELSE Cardinality(S) + 1
  BY FS_AddElement
<1> QED
  BY <1>1, <1>2

\* Entering an empty bucket opens that bucket for its strategy and at most its
\* symbol for the account.
LEMMA OpenAfterBuy ==
  ASSUME NEW pos \in [Buckets -> Nat], NEW bucket \in Buckets, NEW q \in Nat \ {0},
         NEW pos2, pos2 = [pos EXCEPT ![bucket] = @ + q]
  PROVE  /\ IsFiniteSet(OpenSymbols(pos)) /\ IsFiniteSet(OpenSymbols(pos2))
         /\ Cardinality(OpenSymbols(pos2)) <= Cardinality(OpenSymbols(pos)) + 1
         /\ Cardinality(OpenSymbols(pos)) \in Nat
         /\ \A s : /\ Cardinality(OpenBuckets(pos, s)) \in Nat
                   /\ Cardinality(OpenBuckets(pos2, s)) <= Cardinality(OpenBuckets(pos, s)) + 1
                   /\ s # bucket[1] => OpenBuckets(pos2, s) = OpenBuckets(pos, s)
<1>1. pos2 \in [Buckets -> Nat] /\ DOMAIN pos = Buckets /\ DOMAIN pos2 = Buckets
  OBVIOUS
<1>2. pos2[bucket] > 0 /\ \A b \in Buckets : b # bucket => pos2[b] = pos[b]
  <2>1. pos2[bucket] = pos[bucket] + q /\ pos[bucket] \in Nat
    OBVIOUS
  <2> QED
    BY <2>1
<1>3. IsFiniteSet(Buckets)
  BY SymbolsAssumption, FS_Product DEF Buckets
<1>4. OpenSymbols(pos) \subseteq Symbols
  BY <1>1 DEF OpenSymbols, Buckets
<1>5. OpenSymbols(pos2) = OpenSymbols(pos) \cup {bucket[2]}
  BY <1>1, <1>2 DEF OpenSymbols
<1>6. /\ IsFiniteSet(OpenSymbols(pos)) /\ Cardinality(OpenSymbols(pos)) \in Nat
      /\ IsFiniteSet(OpenSymbols(pos2))
      /\ Cardinality(OpenSymbols(pos2)) <= Cardinality(OpenSymbols(pos)) + 1
  <2>1. IsFiniteSet(OpenSymbols(pos)) /\ Cardinality(OpenSymbols(pos)) \in Nat
    BY <1>4, SymbolsAssumption, FS_Subset, FS_CardinalityType
  <2>2. /\ IsFiniteSet(OpenSymbols(pos2))
        /\ Cardinality(OpenSymbols(pos2)) <= Cardinality(OpenSymbols(pos)) + 1
    <3> DEFINE S == OpenSymbols(pos)
               T == OpenSymbols(pos2)
               x == bucket[2]
    <3>1. IsFiniteSet(S) /\ T = S \cup {x}
      BY <2>1, <1>5
    <3> HIDE DEF S, T, x
    <3>2. IsFiniteSet(T) /\ Cardinality(T) <= Cardinality(S) + 1
      BY <3>1, CardinalityAdd
    <3> QED
      BY <3>2 DEF S, T
  <2> QED
    BY <2>1, <2>2
<1>7. ASSUME NEW s
      PROVE  /\ Cardinality(OpenBuckets(pos, s)) \in Nat
             /\ Cardinality(OpenBuckets(pos2, s)) <= Cardinality(OpenBuckets(pos, s)) + 1
             /\ s # bucket[1] => OpenBuckets(pos2, s) = OpenBuckets(pos, s)
  <2>1. OpenBuckets(pos, s) \subseteq Buckets
    BY <1>1 DEF OpenBuckets
  <2>2. IsFiniteSet(OpenBuckets(pos, s)) /\ Cardinality(OpenBuckets(pos, s)) \in Nat
    BY <2>1, <1>3, FS_Subset, FS_CardinalityType
  <2>3. CASE s = bucket[1]
    <3>1. OpenBuckets(pos2, s) = OpenBuckets(pos, s) \cup {bucket}
      BY <2>3, <1>1, <1>2 DEF OpenBuckets
    <3> QED
      BY <3>1, <2>2, <2>3, CardinalityAdd
  <2>4. CASE s # bucket[1]
    <3>1. OpenBuckets(pos2, s) = OpenBuckets(pos, s)
      BY <2>4, <1>1, <1>2 DEF OpenBuckets
    <3> QED
      BY <3>1, <2>2
  <2> QED
    BY <2>3, <2>4
<1> QED
  BY <1>6, <1>7

\* What sizing leaves of the cash and of the two daily limits.
LEMMA SizedLocals ==
  ASSUME TypeOK, IsInput(input), NEW sig, IsSignal(sig), NEW q,
         Sized(p, input.lim, sig, q)
  PROVE  /\ q \in Nat \ {0}
         /\ q * sig.price \in Nat
         /\ p.cash - (q * sig.price + Fee(q * sig.price)) \in Nat
         /\ p.gspent + q * sig.price <= input.lim.globalDaily
         /\ p.sspent[sig.strategy] + q * sig.price
              <= input.lim.strategyDaily[sig.strategy]
<1> DEFINE value == q * sig.price
<1>1. q \in Nat \ {0} /\ sig.price \in Nat
  BY DEF Sized, IsSignal
<1>2. value \in Nat
  BY <1>1
<1>3. Fee(value) \in Nat
  BY <1>2, FeeType
<1>4. /\ p.cash \in Nat /\ p.gspent \in Nat /\ p.sspent[sig.strategy] \in Nat
      /\ input.lim.globalDaily \in Nat /\ input.lim.strategyDaily[sig.strategy] \in Nat
  BY DEF TypeOK, IsInput, IsSignal, Limits
<1>5. /\ value <= input.lim.strategyDaily[sig.strategy] - p.sspent[sig.strategy]
      /\ value <= input.lim.globalDaily - p.gspent
      /\ value + Fee(value) <= p.cash
  BY DEF Sized, Affordable
<1> HIDE DEF value
<1>6. /\ p.cash - (value + Fee(value)) \in Nat
      /\ p.gspent + value <= input.lim.globalDaily
      /\ p.sspent[sig.strategy] + value <= input.lim.strategyDaily[sig.strategy]
  BY <1>2, <1>3, <1>4, <1>5
<1> QED
  BY <1>1, <1>2, <1>6 DEF value

\* A BUY enters one empty bucket of a symbol that is not netted.
LEMMA InvBuyBucket == Inv /\ BuyBucket => Inv'
<1> SUFFICES ASSUME Inv, BuyBucket PROVE Inv'
  OBVIOUS
<1> DEFINE sig == Head(buys)
<1>1. TypeOK /\ IsInput(input) /\ sells = << >> /\ buys # << >> /\ BuyAllowed(p, input.lim, sig)
  BY InputsAssumption DEF Inv, TypeOK, BuyBucket
<1>2. sig \in Signals /\ Tail(buys) \in Seq(Signals) /\ IsSignal(sig)
  BY <1>1, HeadTailProperties, SignalsAssumption DEF TypeOK
<1>3. PICK q : /\ Sized(p, input.lim, sig, q)
               /\ p' = AfterBuy(p, sig, q)
               /\ orders' = orders \o BuyOrders(sig, q)
  BY DEF BuyBucket
<1> DEFINE new == SplitLotOrders(sig, "BUY", q)
           value == q * sig.price
<1>4. /\ orders' = orders \o new
      /\ sells' = sells /\ buys' = Tail(buys) /\ input' = input
  BY <1>3 DEF BuyBucket, BuyOrders
<1> HIDE DEF sig
<1>5. /\ q \in Nat \ {0}
      /\ value \in Nat
      /\ p.cash - (value + Fee(value)) \in Nat
      /\ p.gspent + value <= input.lim.globalDaily
      /\ p.sspent[sig.strategy] + value <= input.lim.strategyDaily[sig.strategy]
  BY <1>1, <1>2, <1>3, SizedLocals
<1>6. Bucket(sig) \in Buckets /\ sig.strategy \in Strategies
      /\ Bucket(sig)[1] = sig.strategy /\ Bucket(sig)[2] = sig.symbol
  BY <1>2 DEF Bucket, Buckets, IsSignal
<1>7. /\ orders' \in Seq(Orders)
      /\ ToSet(orders') = ToSet(orders) \cup ToSet(new)
      /\ ToSet(new) # {}
      /\ \A o \in ToSet(new) : /\ o.side = "BUY" /\ o.id = sig.id
                              /\ o.strategy = sig.strategy /\ o.symbol = sig.symbol
  <2>1. orders \in Seq(Orders)
    BY <1>1 DEF TypeOK
  <2>2. /\ orders \o new \in Seq(Orders)
        /\ ToSet(orders \o new) = ToSet(orders) \cup ToSet(new)
        /\ ToSet(new) # {}
        /\ \A o \in ToSet(new) : /\ o.side = "BUY" /\ o.id = sig.id
                                /\ o.strategy = sig.strategy /\ o.symbol = sig.symbol
    BY <2>1, <1>2, <1>5, OrdersJoin
  <2> HIDE DEF new
  <2> QED
    BY <2>2, <1>4
<1> HIDE DEF new
<1>8. Bought' = Bought \cup {Bucket(sig)}
  BY <1>7 DEF Bought, Bucket
<1>9. Sold' = Sold
  BY <1>7 DEF Sold
<1>10. /\ p'.pos = [p.pos EXCEPT ![Bucket(sig)] = @ + q]
       /\ p'.netted = p.netted
       /\ p'.cash = p.cash - (value + Fee(value))
       /\ p'.gspent = p.gspent + value
       /\ p'.sspent = [p.sspent EXCEPT ![sig.strategy] = @ + value]
       /\ p'.newCount = p.newCount + 1
  BY <1>3 DEF AfterBuy
<1> HIDE DEF value
<1>11. /\ p.pos \in [Buckets -> Nat] /\ p.gspent \in Nat /\ p.newCount \in Nat
       /\ p.sspent \in [Strategies -> Nat]
  BY <1>1 DEF TypeOK
<1>12. /\ p.pos[Bucket(sig)] = 0 /\ p'.pos[Bucket(sig)] = q
       /\ \A b \in Buckets : b # Bucket(sig) => p'.pos[b] = p.pos[b]
  BY <1>1, <1>5, <1>6, <1>10, <1>11 DEF BuyAllowed, NotNetted, NoAdd, WithinOpenLimits
<1>13. \A b \in Bought \cup Sold : b \in Buckets
  BY <1>1, OrderBuckets DEF Bought, Sold
<1>14. Bucket(sig) \notin Bought
  BY <1>12 DEF Inv, BucketInv
<1>15. TypeOK'
  <2>1. p'.pos \in [Buckets -> Nat]
    BY <1>5, <1>6, <1>10, <1>11
  <2>2. p'.cash \in Nat /\ p'.gspent \in Nat /\ p'.newCount \in Nat
    BY <1>5, <1>10, <1>11
  <2>3. p'.sspent \in [Strategies -> Nat]
    BY <1>5, <1>6, <1>10, <1>11
  <2>4. p'.netted \in SUBSET Symbols /\ input' \in Inputs
    BY <1>1, <1>4, <1>10 DEF TypeOK
  <2>5. sells' \in Seq(Signals) /\ buys' \in Seq(Signals)
    BY <1>1, <1>2, <1>4 DEF TypeOK
  <2> QED
    BY <2>1, <2>2, <2>3, <2>4, <2>5, <1>7 DEF TypeOK
<1>16. sig.symbol \notin p.netted /\ sig.strategy \in input.lim.approved
  BY <1>1 DEF BuyAllowed, NotNetted, NoAdd, WithinOpenLimits
<1>17. NettingInv'
  BY <1>1, <1>4, <1>6, <1>8, <1>9, <1>10, <1>16 DEF Inv, NettingInv
<1>18. BucketInv'
  <2>1. input.pos[Bucket(sig)] = 0
    BY <1>6, <1>12, <1>14, <1>16 DEF Inv, BucketInv
  <2>2. ASSUME NEW b \in Bought' PROVE input.pos[b] = 0 /\ p'.pos[b] > 0
    BY <2>1, <1>5, <1>8, <1>12, <1>13 DEF Inv, BucketInv
  <2>3. ASSUME NEW b \in Buckets, b[2] \notin p'.netted, b \notin Bought'
        PROVE  p'.pos[b] = input.pos[b]
    BY <2>3, <1>8, <1>10, <1>12 DEF Inv, BucketInv
  <2> QED
    BY <2>2, <2>3, <1>4 DEF BucketInv
<1>19. SpentInv'
  <2>1. p'.gspent >= input.gspent /\ p'.gspent <= input.lim.globalDaily
    BY <1>1, <1>5, <1>10, <1>11 DEF Inv, SpentInv, IsInput
  <2>2. ASSUME NEW b \in Bought'
        PROVE  b[1] \in input.lim.approved /\ p'.sspent[b[1]] <= input.lim.strategyDaily[b[1]]
    <3>1. CASE b[1] = sig.strategy
      BY <3>1, <1>5, <1>6, <1>10, <1>11, <1>16
    <3>2. CASE b[1] # sig.strategy
      <4>1. b \in Bought /\ b \in Buckets
        BY <3>2, <1>6, <1>8, <1>13
      <4>2. b[1] \in Strategies
        BY <4>1 DEF Buckets
      <4>3. p'.sspent[b[1]] = p.sspent[b[1]]
        BY <3>2, <4>2, <1>10, <1>11
      <4> QED
        BY <4>1, <4>3 DEF Inv, SpentInv
    <3> QED
      BY <3>1, <3>2
  <2> QED
    BY <2>1, <2>2, <1>4 DEF SpentInv
<1>20. CountInv'
  <2>1. /\ IsFiniteSet(Bought') /\ Cardinality(Bought') = Cardinality(Bought) + 1
    BY <1>8, <1>14, CardinalityAdd DEF Inv, CountInv
  <2>2. p'.newCount <= input.lim.newPerDay
    BY <1>1, <1>10, <1>11 DEF BuyAllowed, NotNetted, NoAdd, WithinOpenLimits, IsInput, Limits
  <2> QED
    BY <2>1, <2>2, <1>4, <1>10 DEF Inv, CountInv
<1>21. ExitsCloseBuckets'
  <2>1. ASSUME NEW b \in Sold PROVE b # Bucket(sig)
    BY <1>6, <1>16 DEF Inv, NettingInv
  <2> QED
    BY <2>1, <1>9, <1>12, <1>13 DEF Inv, ExitsCloseBuckets
<1>22. EnterOnce'
  <2>1. \A b \in Bought' : input.pos[b] = 0
    BY <1>4, <1>18 DEF BucketInv
  <2>2. ASSUME NEW o1 \in ToSet(orders'), NEW o2 \in ToSet(orders'),
               o1.side = "BUY", o2.side = "BUY",
               o1.strategy = o2.strategy, o1.symbol = o2.symbol
        PROVE  o1.id = o2.id
    <3>1. \A o \in ToSet(orders) : o.side = "BUY" => << o.strategy, o.symbol >> # Bucket(sig)
      BY <1>14 DEF Bought
    <3>2. \A o \in ToSet(new) : << o.strategy, o.symbol >> = Bucket(sig)
      BY <1>7 DEF Bucket
    <3>3. CASE o1 \in ToSet(orders) /\ o2 \in ToSet(orders)
      BY <2>2, <3>3 DEF Inv, EnterOnce
    <3>4. CASE o1 \in ToSet(new) /\ o2 \in ToSet(new)
      BY <3>4, <1>7
    <3>5. ~ (o1 \in ToSet(orders) /\ o2 \in ToSet(new))
      BY <2>2, <3>1, <3>2
    <3>6. ~ (o1 \in ToSet(new) /\ o2 \in ToSet(orders))
      BY <2>2, <3>1, <3>2
    <3> QED
      BY <2>2, <1>7, <3>3, <3>4, <3>5, <3>6
  <2> QED
    BY <2>1, <2>2, <1>4 DEF EnterOnce
<1>23. OpenPositionLimits'
  <2> DEFINE open == OpenSymbols(p.pos)
             open2 == OpenSymbols(p'.pos)
  <2>1. /\ Cardinality(open2) <= Cardinality(open) + 1
        /\ Cardinality(open) \in Nat
        /\ IsFiniteSet(open2)
        /\ \A s : /\ Cardinality(OpenBuckets(p.pos, s)) \in Nat
                  /\ Cardinality(OpenBuckets(p'.pos, s)) <= Cardinality(OpenBuckets(p.pos, s)) + 1
                  /\ s # Bucket(sig)[1] => OpenBuckets(p'.pos, s) = OpenBuckets(p.pos, s)
    BY <1>5, <1>6, <1>10, <1>11, OpenAfterBuy
  <2>2. /\ Cardinality(open) < input.lim.globalOpen
        /\ Cardinality(OpenBuckets(p.pos, sig.strategy)) < input.lim.strategyOpen[sig.strategy]
    BY <1>1 DEF BuyAllowed, NotNetted, NoAdd, WithinOpenLimits
  <2>3. input.lim.globalOpen \in Nat /\ input.lim.strategyOpen[sig.strategy] \in Nat
    BY <1>1, <1>6 DEF IsInput, Limits
  <2>4. Cardinality(open2) \in Nat
    BY <2>1, FS_CardinalityType
  <2> HIDE DEF open, open2
  <2>5. Cardinality(open2) <= input.lim.globalOpen
    BY <2>1, <2>2, <2>3, <2>4
  <2>6. ASSUME NEW b \in Bought'
        PROVE  Cardinality(OpenBuckets(p'.pos, b[1])) <= input.lim.strategyOpen[b[1]]
    <3>1. CASE b[1] = sig.strategy
      <4> DEFINE now == Cardinality(OpenBuckets(p.pos, sig.strategy))
                 then == Cardinality(OpenBuckets(p'.pos, sig.strategy))
      <4>1. now \in Nat /\ then \in Nat /\ then <= now + 1 /\ now < input.lim.strategyOpen[sig.strategy]
        <5>1. OpenBuckets(p'.pos, sig.strategy) \subseteq Buckets
          BY <1>15 DEF TypeOK, OpenBuckets
        <5>2. IsFiniteSet(Buckets)
          BY SymbolsAssumption, FS_Product DEF Buckets
        <5>3. then \in Nat
          BY <5>1, <5>2, FS_Subset, FS_CardinalityType
        <5> QED
          BY <5>3, <2>1, <2>2
      <4> HIDE DEF now, then
      <4>2. then <= input.lim.strategyOpen[sig.strategy]
        BY <4>1, <2>3
      <4> QED
        BY <3>1, <4>2 DEF then
    <3>2. CASE b[1] # sig.strategy
      <4>1. b \in Bought
        BY <3>2, <1>6, <1>8
      <4>2. OpenBuckets(p'.pos, b[1]) = OpenBuckets(p.pos, b[1])
        BY <3>2, <2>1, <1>6
      <4> QED
        BY <4>1, <4>2 DEF Inv, OpenPositionLimits
    <3> QED
      BY <3>1, <3>2
  <2>7. Cardinality(Bought') <= input.lim.newPerDay
    BY <1>4, <1>20 DEF CountInv
  <2> QED
    BY <2>5, <2>6, <2>7, <1>4 DEF OpenPositionLimits, open2
<1> QED
  BY <1>15, <1>17, <1>18, <1>19, <1>20, <1>21, <1>22, <1>23 DEF Inv

\* The invariant holds throughout every call of plan().
THEOREM InvHolds == Spec => []Inv
<1>1. Inv /\ [Next]_vars => Inv'
  <2> SUFFICES ASSUME Inv, [Next]_vars PROVE Inv'
    OBVIOUS
  <2>1. CASE SellBucket
    BY <2>1, InvSellBucket
  <2>2. CASE SellNothing \/ BuyBlocked
    BY <2>2, InvSkip
  <2>3. CASE BuyBucket
    BY <2>3, InvBuyBucket
  <2>4. CASE UNCHANGED vars
    <3>1. /\ Sold' = Sold /\ Bought' = Bought
      BY <2>4 DEF vars, Sold, Bought
    <3> QED
      BY <2>4, <3>1 DEF vars, Inv, TypeOK, NettingInv, BucketInv, SpentInv, CountInv,
                        ExitsCloseBuckets, EnterOnce, OpenPositionLimits
  <2> QED
    BY <2>1, <2>2, <2>3, <2>4 DEF Next
<1> QED
  BY InvInit, <1>1, PTL DEF Spec

-----------------------------------------------------------------------------
(* What the orders of a plan cost. *)

Cost(strategies) ==
  [ o \in Orders |-> IF o.side = "BUY" /\ o.strategy \in strategies THEN o.qty * o.price ELSE 0 ]

\* The cost of an order is a natural number.
LEMMA CostType == \A S : Cost(S) \in [Orders -> Nat] /\ Cost(S) \in [Orders -> Int]
<1>1. \A o \in Orders : o.qty * o.price \in Nat
  BY DEF Orders
<1> QED BY <1>1 DEF Cost

\* What is bought is what the orders cost.
LEMMA BoughtIsCost ==
  ASSUME orders \in Seq(Orders)
  PROVE  \A S : BoughtValue(S) = Weight(Cost(S), orders)
<1>1. \A i \in DOMAIN orders : orders[i] \in Orders
  BY LenProperties, ElementOfSeq
<1> QED BY <1>1 DEF BoughtValue, Weight, Weights, Cost

\* The board lot and the odd lot of a quantity together cost what the quantity does.
LEMMA SplitCosts ==
  ASSUME NEW sig \in Signals, NEW side \in {"SELL", "BUY"}, NEW qty \in Nat \ {0}
  PROVE  /\ SplitLotOrders(sig, side, qty) \in Seq(Orders)
         /\ \A S : Weight(Cost(S), SplitLotOrders(sig, side, qty))
                     = IF side = "BUY" /\ sig.strategy \in S THEN qty * sig.price ELSE 0
<1> DEFINE board == (qty \div BoardLot) * BoardLot
           rest  == qty % BoardLot
           boardOrder == [ id |-> sig.id, strategy |-> sig.strategy,
                           symbol |-> sig.symbol, side |-> side,
                           qty |-> board, odd |-> FALSE, price |-> sig.price ]
           restOrder == [ id |-> sig.id, strategy |-> sig.strategy,
                          symbol |-> sig.symbol, side |-> side,
                          qty |-> rest, odd |-> TRUE, price |-> sig.price ]
           first  == IF board > 0 THEN << boardOrder >> ELSE << >>
           second == IF rest > 0 THEN << restOrder >> ELSE << >>
           W(S, q) == IF side = "BUY" /\ sig.strategy \in S THEN q * sig.price ELSE 0
<1>1. board \in Nat /\ rest \in Nat /\ board + rest = qty
  BY DEF BoardLot
<1>2. SplitLotOrders(sig, side, qty) = first \o second
  BY DEF SplitLotOrders
<1>3. sig.price \in Nat \ {0} /\ sig.strategy \in Strategies /\ sig.symbol \in Symbols
  BY SignalsAssumption DEF IsSignal
<1> HIDE DEF board, rest
<1>4. board > 0 => boardOrder \in Orders
  BY <1>1, <1>3 DEF Orders
<1>5. rest > 0 => restOrder \in Orders
  BY <1>1, <1>3 DEF Orders
<1>6. \A S : board > 0 => Cost(S)[boardOrder] = W(S, board)
  BY <1>4 DEF Cost
<1>7. \A S : rest > 0 => Cost(S)[restOrder] = W(S, rest)
  BY <1>5 DEF Cost
<1>8. \A S : W(S, 0) = 0 /\ W(S, board) + W(S, rest) = W(S, qty)
  <2>1. PICK a, b, c : a = board /\ b = rest /\ c = sig.price
    OBVIOUS
  <2>2. a \in Nat /\ b \in Nat /\ c \in Nat /\ a + b = qty
    BY <1>1, <1>3, <2>1
  <2>3. 0 * c = 0 /\ a * c + b * c = (a + b) * c
    BY <2>2
  <2>4. 0 * sig.price = 0 /\ board * sig.price + rest * sig.price = qty * sig.price
    BY <2>1, <2>2, <2>3
  <2>5. 0 + 0 = 0
    OBVIOUS
  <2> QED BY <2>4, <2>5, Zenon
<1> HIDE DEF boardOrder, restOrder, W
<1>9. first \in Seq(Orders) /\ \A S : Weight(Cost(S), first) = W(S, board)
  <2>1. CASE board > 0
    <3>1. << boardOrder >> \in Seq(Orders)
      BY <1>4, <2>1
    <3>2. \A S : Weight(Cost(S), << boardOrder >>) = Cost(S)[boardOrder]
      BY <1>4, <2>1, CostType, WeightOne
    <3> QED BY <1>6, <2>1, <3>1, <3>2
  <2>2. CASE ~ (board > 0)
    <3>1. board = 0 /\ first = << >> /\ << >> \in Seq(Orders)
      BY <1>1, <2>2
    <3> QED BY <1>8, <3>1, WeightEmpty
  <2> QED BY <2>1, <2>2
<1>10. second \in Seq(Orders) /\ \A S : Weight(Cost(S), second) = W(S, rest)
  <2>1. CASE rest > 0
    <3>1. << restOrder >> \in Seq(Orders)
      BY <1>5, <2>1
    <3>2. \A S : Weight(Cost(S), << restOrder >>) = Cost(S)[restOrder]
      BY <1>5, <2>1, CostType, WeightOne
    <3> QED BY <1>7, <2>1, <3>1, <3>2
  <2>2. CASE ~ (rest > 0)
    <3>1. rest = 0 /\ second = << >> /\ << >> \in Seq(Orders)
      BY <1>1, <2>2
    <3> QED BY <1>8, <3>1, WeightEmpty
  <2> QED BY <2>1, <2>2
<1> HIDE DEF first, second
<1>11. first \o second \in Seq(Orders)
  BY <1>9, <1>10, ConcatProperties
<1>12. ASSUME NEW S
       PROVE  Weight(Cost(S), first \o second) = Weight(Cost(S), first) + Weight(Cost(S), second)
  <2>1. Cost(S) \in [Orders -> Int]
    BY CostType
  <2> QED BY <1>9, <1>10, <2>1, WeightJoin
<1> QED BY <1>2, <1>8, <1>9, <1>10, <1>11, <1>12 DEF W

\* So a SELL adds nothing to what is bought, and a BUY its value.
LEMMA CostsAfter ==
  ASSUME orders \in Seq(Orders), NEW sig \in Signals, NEW side \in {"SELL", "BUY"},
         NEW qty \in Nat \ {0}, orders' = orders \o SplitLotOrders(sig, side, qty)
  PROVE  \A S : BoughtValue(S)' = BoughtValue(S)
                  + IF side = "BUY" /\ sig.strategy \in S THEN qty * sig.price ELSE 0
<1> DEFINE new == SplitLotOrders(sig, side, qty)
<1>1. new \in Seq(Orders) /\ orders' \in Seq(Orders)
  BY SplitCosts, ConcatProperties
<1>2. \A S : BoughtValue(S)' = Weight(Cost(S), orders')
  <2>1. \A i \in DOMAIN orders' : orders'[i] \in Orders
    BY <1>1, LenProperties, ElementOfSeq
  <2> QED BY <2>1 DEF BoughtValue, Weight, Weights, Cost
<1>3. ASSUME NEW S PROVE Weight(Cost(S), orders \o new) = Weight(Cost(S), orders) + Weight(Cost(S), new)
  <2>1. Cost(S) \in [Orders -> Int]
    BY CostType
  <2> HIDE DEF new
  <2> QED BY <1>1, <2>1, WeightJoin
<1>4. \A S : BoughtValue(S) = Weight(Cost(S), orders)
  BY BoughtIsCost
<1>5. \A S : Weight(Cost(S), new) = IF side = "BUY" /\ sig.strategy \in S THEN qty * sig.price ELSE 0
  BY SplitCosts
<1> QED BY <1>2, <1>3, <1>4, <1>5

\* What the locals of plan() have counted is what the orders cost, with the
\* minimum fee for each entered bucket at least.
ValueInv ==
  /\ p.gspent = input.gspent + BoughtValue(Strategies)
  /\ p.cash + BoughtValue(Strategies) + 20 * Cardinality(Bought) <= input.cash
  /\ \A s \in Strategies :
       /\ p.sspent[s] = input.sspent[s] + BoughtValue({s})
       /\ BoughtValue({s}) > 0 => \E b \in Bought : b[1] = s

\* What is bought is a natural number.
LEMMA BoughtNat == ASSUME orders \in Seq(Orders) PROVE \A S : BoughtValue(S) \in Int
<1>1. \A S : Cost(S) \in [Orders -> Int] /\ BoughtValue(S) = Weight(Cost(S), orders)
  BY CostType, BoughtIsCost
<1>2. ASSUME NEW S PROVE Weight(Cost(S), orders) \in Int
  BY <1>1, WeightsType
<1> QED BY <1>1, <1>2

\* Nothing is bought when the call starts.
LEMMA ValueInit == Init => ValueInv
<1> SUFFICES ASSUME Init PROVE ValueInv
  OBVIOUS
<1>1. IsInput(input) /\ orders = << >> /\ << >> \in Seq(Orders)
  BY InputsAssumption DEF Init
<1>2. ASSUME NEW S PROVE BoughtValue(S) = 0
  <2>1. BoughtValue(S) = Weight(Cost(S), << >>)
    BY <1>1, BoughtIsCost
  <2> QED BY <2>1, WeightEmpty
<1>3. ToSet(orders) = {}
  BY <1>1, ToSetShort
<1>4. Bought = {}
  BY <1>3 DEF Bought
<1>5. Cardinality(Bought) = 0
  BY <1>4, FS_EmptySet
<1>6. p.gspent = input.gspent /\ p.cash = input.cash /\ p.sspent = input.sspent
  BY DEF Init
<1> QED BY <1>1, <1>2, <1>5, <1>6 DEF ValueInv, IsInput

\* A SELL adds nothing to it.
LEMMA ValueSellBucket == Inv /\ ValueInv /\ SellBucket => ValueInv'
<1> SUFFICES ASSUME Inv, ValueInv, SellBucket PROVE ValueInv'
  OBVIOUS
<1> DEFINE sig == Head(sells)
           qty == p.pos[Bucket(sig)]
<1>1. TypeOK /\ sells # << >>
  BY DEF Inv, SellBucket
<1>2. sig \in Signals /\ IsSignal(sig)
  BY <1>1, HeadTailProperties, SignalsAssumption DEF TypeOK
<1>3. qty \in Nat \ {0}
  BY <1>1, <1>2 DEF Bucket, Buckets, IsSignal, TypeOK, SellBucket, SellPossible
<1>4. /\ orders' = orders \o SplitLotOrders(sig, "SELL", qty)
      /\ p' = AfterSell(p, sig) /\ input' = input
  BY DEF SellBucket, SellOrders
<1>5. orders \in Seq(Orders)
  BY <1>1 DEF TypeOK
<1> HIDE DEF sig, qty
<1>6. \A S : BoughtValue(S)' = BoughtValue(S)
  <2>1. \A S : BoughtValue(S)' = BoughtValue(S) + 0
    BY <1>2, <1>3, <1>4, <1>5, CostsAfter
  <2> QED BY <2>1, <1>5, BoughtNat
<1>7. p'.gspent = p.gspent /\ p'.cash = p.cash /\ p'.sspent = p.sspent
  BY <1>4, <1>1 DEF AfterSell, TypeOK
<1>8. Bought' = Bought
  <2>1. /\ ToSet(orders') = ToSet(orders) \cup ToSet(SplitLotOrders(sig, "SELL", qty))
        /\ \A o \in ToSet(SplitLotOrders(sig, "SELL", qty)) : o.side = "SELL"
    <3>1. PICK new : new = SplitLotOrders(sig, "SELL", qty)
      OBVIOUS
    <3>2. new \in Seq(Orders) /\ \A o \in ToSet(new) : o.side = "SELL"
      BY <3>1, <1>2, <1>3, SplitOrders
    <3>3. ToSet(orders \o new) = ToSet(orders) \cup ToSet(new)
      BY <3>2, <1>5, ToSetConcat
    <3> QED BY <3>1, <3>2, <3>3, <1>4
  <2> QED BY <2>1 DEF Bought
<1> QED BY <1>4, <1>6, <1>7, <1>8 DEF ValueInv

\* A signal that gets no order changes nothing.
LEMMA ValueSkip == ValueInv /\ (SellNothing \/ BuyBlocked \/ UNCHANGED vars) => ValueInv'
<1> SUFFICES ASSUME ValueInv, SellNothing \/ BuyBlocked \/ UNCHANGED vars PROVE ValueInv'
  OBVIOUS
<1>1. input' = input /\ p' = p /\ orders' = orders
  BY DEF SellNothing, BuyBlocked, vars
<1>2. Bought' = Bought /\ \A S : BoughtValue(S)' = BoughtValue(S)
  BY <1>1 DEF Bought, BoughtValue
<1> QED BY <1>1, <1>2 DEF ValueInv

\* A BUY adds its value, and the fee is at least the minimum.
LEMMA ValueBuyBucket == Inv /\ ValueInv /\ BuyBucket => ValueInv'
<1> SUFFICES ASSUME Inv, ValueInv, BuyBucket PROVE ValueInv'
  OBVIOUS
<1> DEFINE sig == Head(buys)
<1>1. TypeOK /\ IsInput(input) /\ buys # << >> /\ BuyAllowed(p, input.lim, sig)
  BY InputsAssumption DEF Inv, TypeOK, BuyBucket
<1>2. sig \in Signals /\ IsSignal(sig)
  BY <1>1, HeadTailProperties, SignalsAssumption DEF TypeOK
<1>3. PICK q : /\ Sized(p, input.lim, sig, q)
               /\ p' = AfterBuy(p, sig, q)
               /\ orders' = orders \o BuyOrders(sig, q)
  BY DEF BuyBucket
<1>4. orders' = orders \o SplitLotOrders(sig, "BUY", q) /\ input' = input
      /\ orders \in Seq(Orders)
  BY <1>1, <1>3 DEF BuyBucket, BuyOrders, TypeOK
<1> HIDE DEF sig
<1>5. PICK value : value = q * sig.price
  OBVIOUS
<1>6. q \in Nat \ {0} /\ value \in Nat
  BY <1>1, <1>2, <1>3, <1>5, SizedLocals
<1>7. \A S : BoughtValue(S)' = BoughtValue(S) + IF sig.strategy \in S THEN value ELSE 0
  BY <1>2, <1>4, <1>5, <1>6, CostsAfter
<1>8. \A S : BoughtValue(S) \in Int
  BY <1>4, BoughtNat
<1>9. /\ p'.cash = p.cash - (value + Fee(value))
      /\ p'.gspent = p.gspent + value
      /\ p'.sspent = [p.sspent EXCEPT ![sig.strategy] = @ + value]
  BY <1>3, <1>5 DEF AfterBuy
<1>10. Bought' = Bought \cup {Bucket(sig)}
  <2>1. PICK new : new = SplitLotOrders(sig, "BUY", q)
    OBVIOUS
  <2>2. /\ new \in Seq(Orders) /\ ToSet(new) # {}
        /\ \A o \in ToSet(new) : /\ o.side = "BUY" /\ o.strategy = sig.strategy
                                /\ o.symbol = sig.symbol
    BY <2>1, <1>2, <1>6, SplitOrders
  <2>3. ToSet(orders') = ToSet(orders) \cup ToSet(new)
    BY <2>1, <2>2, <1>4, ToSetConcat
  <2> QED BY <2>2, <2>3 DEF Bought, Bucket
<1>11. Fee(value) \in Nat /\ Fee(value) >= 20
  BY <1>6, FeeType
<1>12. PICK n, m : n = Cardinality(Bought) /\ m = Cardinality(Bought')
  OBVIOUS
<1>13. n \in Nat /\ m \in Nat /\ m <= n + 1
  <2>1. IsFiniteSet(Bought)
    BY DEF Inv, CountInv
  <2>2. IsFiniteSet(Bought') /\ Cardinality(Bought) \in Nat /\ Cardinality(Bought') <= Cardinality(Bought) + 1
    BY <2>1, <1>10, CardinalityAdd
  <2> QED BY <2>2, <1>12, FS_CardinalityType
<1>14. sig.strategy \in Strategies /\ Bucket(sig)[1] = sig.strategy
  BY <1>2 DEF IsSignal, Bucket
<1>15. p'.gspent = input'.gspent + BoughtValue(Strategies)'
  <2>1. p.gspent = input.gspent + BoughtValue(Strategies) /\ input.gspent \in Int
    BY <1>1 DEF ValueInv, IsInput
  <2>2. BoughtValue(Strategies)' = BoughtValue(Strategies) + value
    BY <1>7, <1>14
  <2> QED BY <2>1, <2>2, <1>4, <1>6, <1>8, <1>9
<1>16. p'.cash + BoughtValue(Strategies)' + 20 * Cardinality(Bought') <= input'.cash
  <2>1. p.cash + BoughtValue(Strategies) + 20 * n <= input.cash
    BY <1>12 DEF ValueInv
  <2>2. BoughtValue(Strategies)' = BoughtValue(Strategies) + value
    BY <1>7, <1>14
  <2>3. p.cash \in Int /\ input.cash \in Int
    BY <1>1 DEF IsInput, TypeOK
  <2>4. PICK b : b = BoughtValue(Strategies) /\ b \in Int
    BY <1>8
  <2>5. p.cash - (value + Fee(value)) + (b + value) + 20 * m <= input.cash
    BY <2>1, <2>3, <2>4, <1>6, <1>11, <1>13
  <2> QED BY <2>2, <2>4, <2>5, <1>4, <1>9, <1>12
<1>17. ASSUME NEW s \in Strategies
       PROVE  /\ p'.sspent[s] = input'.sspent[s] + BoughtValue({s})'
              /\ BoughtValue({s})' > 0 => \E b \in Bought' : b[1] = s
  <2>1. /\ p.sspent[s] = input.sspent[s] + BoughtValue({s})
        /\ BoughtValue({s}) > 0 => \E b \in Bought : b[1] = s
    BY DEF ValueInv
  <2>2. p.sspent \in [Strategies -> Nat] /\ input.sspent[s] \in Nat
    BY <1>1 DEF TypeOK, IsInput
  <2>3. CASE s = sig.strategy
    <3>1. BoughtValue({s})' = BoughtValue({s}) + value /\ p'.sspent[s] = p.sspent[s] + value
      BY <2>2, <2>3, <1>7, <1>9
    <3>2. \E b \in Bought' : b[1] = s
      BY <2>3, <1>10, <1>14
    <3> QED BY <2>1, <2>2, <3>1, <3>2, <1>4, <1>6, <1>8
  <2>4. CASE s # sig.strategy
    <3>1. BoughtValue({s})' = BoughtValue({s}) + 0 /\ p'.sspent[s] = p.sspent[s]
      BY <2>2, <2>4, <1>7, <1>9
    <3>2. Bought \subseteq Bought'
      BY <1>10
    <3> QED BY <2>1, <3>1, <3>2, <1>4, <1>8
  <2> QED BY <2>3, <2>4
<1> QED BY <1>15, <1>16, <1>17 DEF ValueInv

\* So what a plan counts as spent is what its orders cost.
THEOREM ValueHolds == Spec => []ValueInv
<1>1. Inv /\ ValueInv /\ [Next]_vars => ValueInv'
  BY ValueSellBucket, ValueSkip, ValueBuyBucket DEF Next
<1> QED BY InvHolds, ValueInit, <1>1, PTL DEF Spec

\* The orders of a plan stay within the limits and the cash.
LEMMA PlanWithinMeans == Inv /\ ValueInv => BuysWithinMeans
<1> SUFFICES ASSUME Inv, ValueInv PROVE BuysWithinMeans
  OBVIOUS
<1>1. TypeOK /\ SpentInv /\ CountInv /\ IsInput(input)
  BY InputsAssumption DEF Inv, TypeOK
<1>2. ASSUME Bought # {}
      PROVE  /\ input.gspent + BoughtValue(Strategies) <= input.lim.globalDaily
             /\ BoughtValue(Strategies) + 20 * Cardinality(Bought) <= input.cash
  <2>1. Cardinality(Bought) \in Nat
    BY <1>1, FS_CardinalityType DEF CountInv
  <2>2. BoughtValue(Strategies) \in Int
    BY <1>1, BoughtNat DEF TypeOK
  <2>3. p.cash \in Nat /\ input.cash \in Nat
    BY <1>1 DEF TypeOK, IsInput
  <2>4. input.gspent + BoughtValue(Strategies) <= input.lim.globalDaily
    BY <1>1, <1>2 DEF ValueInv, SpentInv
  <2>5. p.cash + BoughtValue(Strategies) + 20 * Cardinality(Bought) <= input.cash
    BY DEF ValueInv
  <2> QED BY <2>1, <2>2, <2>3, <2>4, <2>5
<1>3. ASSUME NEW s \in Strategies, BoughtValue({s}) > 0
      PROVE  /\ s \in input.lim.approved
             /\ input.sspent[s] + BoughtValue({s}) <= input.lim.strategyDaily[s]
  <2>1. PICK b \in Bought : b[1] = s
    BY <1>3 DEF ValueInv
  <2> QED BY <2>1, <1>1 DEF ValueInv, SpentInv
<1> QED BY <1>2, <1>3 DEF BuysWithinMeans

-----------------------------------------------------------------------------
(* The preview. *)

PreviewStates ==
  [ cash : Int, spent : Int, new : Nat, bought : Nat, held : [Symbols -> Nat] ]

\* The symbols a preview holds, and those it opened.
HeldIn(v) == { x \in Symbols : v.held[x] > 0 }

OpenedIn(v) == { x \in Symbols : v.held[x] > 0 /\ PreviewStart.held[x] = 0 }

\* A preview before its BUYs.
BeforeBuys ==
  { v \in PreviewStates : /\ v.spent = input.gspent /\ v.new = 0 /\ v.bought = 0
                          /\ OpenedIn(v) = {} }

\* A preview whose BUYs are within some limits.
WithinLimits(lim) ==
  { v \in PreviewStates :
      /\ v.spent = input.gspent + v.bought
      /\ v.bought > 0 => v.spent <= lim.daily /\ v.cash >= 0
      /\ Cardinality(OpenedIn(v)) <= v.new
      /\ v.new <= MaxNewBuys
      /\ OpenedIn(v) # {} => Cardinality(HeldIn(v)) <= lim.open }

\* Fee and tax are integers.
LEMMA TaxType == ASSUME NEW value \in Nat PROVE Fee(value) \in Int /\ Tax(value) \in Int
<1>1. \A a, d \in Nat : d # 0 => Rounded(a, d) \in Int
  BY DEF Rounded
<1> QED BY <1>1 DEF Fee, Tax

\* A sequence of natural numbers sums to one.
LEMMA TallyNat == ASSUME NEW s \in Seq(Nat) PROVE Tally(s) \in Nat
<1>1. PICK n : n = Len(s)
  OBVIOUS
<1>2. n \in Nat /\ DOMAIN s = 1 .. n /\ \A i \in 1 .. n : s[i] \in Nat
  BY <1>1, LenProperties, ElementOfSeq
<1>3. s \in Seq(Int)
  <2>1. s \in [1 .. n -> Int]
    <3>1. s \in [1 .. n -> Nat]
      BY <1>1, LenProperties
    <3> QED BY <3>1
  <2> QED BY <1>2, <2>1, SeqDef
<1>4. PICK g : Sums(g, s) /\ Tally(s) = g[Len(s)]
  BY <1>3, TallyIs
<1>5. g \in [0 .. n -> Int] /\ g[0] = 0 /\ \A i \in 1 .. n : g[i] = g[i - 1] + s[i]
  BY <1>1, <1>4 DEF Sums
<1> DEFINE T == { i \in 0 .. n : g[i] \in Nat }
<1>6. 0 \in T /\ \A i \in 1 .. n : i - 1 \in T => i \in T
  BY <1>2, <1>5
<1>7. 0 .. n \subseteq T
  <2> HIDE DEF T
  <2> QED BY <1>2, <1>6, Upwards
<1>8. n \in 0 .. n
  BY <1>2
<1> QED BY <1>1, <1>4, <1>7, <1>8

\* The strategies in some order.
LEMMA StrategiesListed ==
  \E n \in Nat : SetToSeq(Strategies) \in [1 .. n -> Strategies]
<1>1. PICK n \in Nat : n = Cardinality(Strategies) /\ ExistsBijection(1 .. n, Strategies)
  BY SymbolsAssumption, FS_CardinalityType
<1>2. PICK f : f \in Bijection(1 .. n, Strategies)
  BY <1>1 DEF ExistsBijection
<1>3. f \in [1 .. n -> Strategies] /\ IsInjective(f)
  BY <1>2 DEF Bijection, Injection, IsInjective
<1>4. SetToSeq(Strategies) = CHOOSE g \in [1 .. n -> Strategies] : IsInjective(g)
  BY <1>1 DEF SetToSeq
<1> QED BY <1>3, <1>4

\* What the account holds of each symbol at the start is a natural number.
LEMMA StartFine == ASSUME IsInput(input) PROVE PreviewStart \in BeforeBuys
<1>1. PICK n \in Nat : SetToSeq(Strategies) \in [1 .. n -> Strategies]
  BY StrategiesListed
<1>2. PICK list : list = SetToSeq(Strategies)
  OBVIOUS
<1> DEFINE row(x) == [ i \in DOMAIN list |-> input.pos[<< list[i], x >>] ]
<1>3. ASSUME NEW x \in Symbols PROVE Tally(row(x)) \in Nat
  <2>1. \A i \in 1 .. n : << list[i], x >> \in Buckets
    BY <1>1, <1>2 DEF Buckets
  <2>2. input.pos \in [Buckets -> Nat]
    BY DEF IsInput
  <2>3. row(x) \in [1 .. n -> Nat]
    BY <1>1, <1>2, <2>1, <2>2
  <2>4. PICK a : a = row(x)
    OBVIOUS
  <2>5. a \in [1 .. n -> Nat]
    BY <2>3, <2>4
  <2>6. a \in Seq(Nat)
    BY <2>5, SeqDef
  <2> HIDE DEF row
  <2> QED BY <2>4, <2>6, TallyNat
<1>4. PreviewStart = [ cash |-> input.cash, spent |-> input.gspent, new |-> 0, bought |-> 0,
                       held |-> [ x \in Symbols |-> Tally(row(x)) ] ]
  BY <1>2 DEF PreviewStart
<1> HIDE DEF row
<1>5. PreviewStart \in PreviewStates
  BY <1>3, <1>4 DEF PreviewStates, IsInput
<1>6. /\ PreviewStart.spent = input.gspent /\ PreviewStart.new = 0
      /\ PreviewStart.bought = 0
  BY <1>4
<1>7. OpenedIn(PreviewStart) = {}
  BY DEF OpenedIn
<1> QED BY <1>5, <1>6, <1>7 DEF BeforeBuys

\* A SELL opens nothing.
LEMMA SellPreviewed ==
  ASSUME NEW sig \in Signals, NEW v \in BeforeBuys
  PROVE  PreviewSell(v, sig) \in BeforeBuys
<1>1. v \in PreviewStates /\ sig.symbol \in Symbols /\ sig.price \in Nat
  BY SignalsAssumption DEF BeforeBuys, IsSignal
<1>2. CASE v.held[sig.symbol] = 0
  BY <1>2 DEF PreviewSell
<1>3. CASE v.held[sig.symbol] # 0
  <2>1. PICK value : value = v.held[sig.symbol] * sig.price
    OBVIOUS
  <2>2. value \in Nat
    <3>1. v.held[sig.symbol] \in Nat
      BY <1>1 DEF PreviewStates
    <3> QED BY <1>1, <2>1, <3>1
  <2>3. PICK w : w = PreviewSell(v, sig)
    OBVIOUS
  <2>4. w = [ v EXCEPT !.cash = @ + value - Fee(value) - Tax(value), !.held[sig.symbol] = 0 ]
    BY <1>3, <2>1, <2>3 DEF PreviewSell
  <2>5. /\ w \in PreviewStates
        /\ w.spent = v.spent /\ w.new = v.new /\ w.bought = v.bought
        /\ w.held = [ v.held EXCEPT ![sig.symbol] = 0 ]
    <3>1. v.cash + value - Fee(value) - Tax(value) \in Int
      BY <1>1, <2>2, TaxType DEF PreviewStates
    <3>2. [ v.held EXCEPT ![sig.symbol] = 0 ] \in [Symbols -> Nat]
      BY <1>1 DEF PreviewStates
    <3> QED BY <1>1, <2>4, <3>1, <3>2 DEF PreviewStates
  <2>6. \A x \in Symbols : w.held[x] > 0 => v.held[x] > 0
    BY <1>1, <2>5 DEF PreviewStates
  <2>7. OpenedIn(w) = {}
    BY <2>6 DEF BeforeBuys, OpenedIn
  <2> QED BY <2>3, <2>5, <2>7 DEF BeforeBuys
<1> QED BY <1>2, <1>3

IsPreviewLimit(lim) == lim.order \in Nat /\ lim.daily \in Nat /\ lim.open \in Nat

\* A BUY that fits with one share has a size, the largest that fits.
LEMMA MostExists ==
  ASSUME NEW lim, IsPreviewLimit(lim), NEW sig \in Signals, NEW v, Fits(v, lim, sig, 1)
  PROVE  \E q \in 1 .. (lim.order \div sig.price) :
            Fits(v, lim, sig, q) /\ ~ Fits(v, lim, sig, q + 1)
<1>1. PICK b, c, top : b = lim.order /\ c = sig.price /\ top = b \div c
  OBVIOUS
<1>2. b \in Nat /\ c \in Nat \ {0}
  BY <1>1, SignalsAssumption DEF IsPreviewLimit, IsSignal
<1>3. \A q \in Nat : Fits(v, lim, sig, q) => q * c <= b
  BY <1>1 DEF Fits
<1>4. top \in Nat /\ ~ ((top + 1) * c <= b)
  BY <1>1, <1>2
<1> SUFFICES ASSUME \A q \in 1 .. top : Fits(v, lim, sig, q) => Fits(v, lim, sig, q + 1)
             PROVE  FALSE
  BY <1>1
<1> DEFINE T == { i \in Nat : Fits(v, lim, sig, i + 1) }
<1>5. 0 \in T
  <2>1. 0 + 1 = 1
    OBVIOUS
  <2> QED BY <2>1
<1>6. ASSUME NEW i \in 1 .. top, i - 1 \in T PROVE i \in T
  <2>1. (i - 1) + 1 = i /\ i \in Nat
    BY <1>4
  <2> QED BY <1>6, <2>1
<1>7. top \in T
  <2> HIDE DEF T
  <2>1. 0 .. top \subseteq T
    BY <1>4, <1>5, <1>6, Upwards
  <2> QED BY <1>4, <2>1
<1> QED BY <1>3, <1>4, <1>7

\* A BUY keeps the preview within its limits.
LEMMA BuyPreviewed ==
  ASSUME IsInput(input), NEW lim, IsPreviewLimit(lim), NEW sig \in Signals, NEW v \in WithinLimits(lim)
  PROVE  PreviewBuy(lim, v, sig) \in WithinLimits(lim)
<1>1. v \in PreviewStates /\ sig.symbol \in Symbols /\ sig.price \in Nat \ {0}
  BY SignalsAssumption DEF WithinLimits, IsSignal
<1>2. CASE ~ (Fits(v, lim, sig, 1) /\ MayOpen(v, lim, sig))
  BY <1>2 DEF PreviewBuy
<1>3. CASE Fits(v, lim, sig, 1) /\ MayOpen(v, lim, sig)
  <2> DEFINE chosen == CHOOSE q \in 1 .. (lim.order \div sig.price) :
                         Fits(v, lim, sig, q) /\ ~ Fits(v, lim, sig, q + 1)
  <2>1. PICK most : most = chosen
    OBVIOUS
  <2>2. most \in 1 .. (lim.order \div sig.price) /\ Fits(v, lim, sig, most)
    BY <1>3, <2>1, MostExists
  <2>3. PICK value, x : value = most * sig.price /\ x = sig.symbol
    OBVIOUS
  <2>4. PICK w : w = PreviewBuy(lim, v, sig)
    OBVIOUS
  <2>5. w = [ v EXCEPT !.cash = @ - (value + Fee(value)),
                       !.spent = @ + value, !.bought = @ + value, !.held[x] = @ + most,
                       !.new = IF v.held[x] = 0 THEN @ + 1 ELSE @ ]
    BY <1>3, <2>1, <2>3, <2>4 DEF PreviewBuy
  <2> HIDE DEF chosen
  <2>6. most \in Nat /\ most > 0 /\ value \in Nat /\ value > 0
    BY <1>1, <2>2, <2>3
  <2>7. value <= lim.daily - v.spent /\ value + Fee(value) <= v.cash
    BY <2>2, <2>3 DEF Fits
  <2>8. Fee(value) \in Nat
    BY <2>6, FeeType
  <2>9. /\ v.cash \in Int /\ v.spent \in Int /\ v.new \in Nat /\ v.bought \in Nat
        /\ v.held \in [Symbols -> Nat] /\ x \in Symbols
    BY <1>1, <2>3 DEF PreviewStates
  <2>10. /\ w.cash = v.cash - (value + Fee(value))
         /\ w.spent = v.spent + value /\ w.bought = v.bought + value
         /\ w.held = [ v.held EXCEPT ![x] = @ + most ]
         /\ w.new = IF v.held[x] = 0 THEN v.new + 1 ELSE v.new
         /\ w = [ cash |-> w.cash, spent |-> w.spent, new |-> w.new, bought |-> w.bought,
                  held |-> w.held ]
    BY <1>1, <2>5 DEF PreviewStates
  <2>11. w \in PreviewStates
    <3>1. w.held \in [Symbols -> Nat]
      BY <2>6, <2>9, <2>10
    <3>2. w.cash \in Int /\ w.spent \in Int /\ w.bought \in Nat /\ w.new \in Nat
      BY <2>6, <2>8, <2>9, <2>10
    <3> QED BY <2>10, <3>1, <3>2 DEF PreviewStates
  <2>12. /\ w.spent = input.gspent + w.bought
         /\ w.spent <= lim.daily /\ w.cash >= 0
    <3>1. v.spent = input.gspent + v.bought /\ input.gspent \in Nat
      BY DEF WithinLimits, IsInput
    <3>2. lim.daily \in Nat
      BY DEF IsPreviewLimit
    <3>3. w.spent = input.gspent + w.bought
      BY <2>6, <2>9, <2>10, <3>1
    <3> QED BY <2>6, <2>7, <2>8, <2>9, <2>10, <3>2, <3>3
  <2>13. w.held[x] > 0 /\ \A y \in Symbols : y # x => w.held[y] = v.held[y]
    BY <2>6, <2>9, <2>10
  <2>14. /\ IsFiniteSet(HeldIn(v)) /\ IsFiniteSet(OpenedIn(v))
         /\ Cardinality(HeldIn(v)) \in Nat /\ Cardinality(OpenedIn(v)) \in Nat
    <3>1. HeldIn(v) \subseteq Symbols /\ OpenedIn(v) \subseteq Symbols
      BY DEF HeldIn, OpenedIn
    <3> QED BY <3>1, SymbolsAssumption, FS_Subset, FS_CardinalityType
  <2>15. /\ Cardinality(OpenedIn(w)) <= w.new /\ w.new <= MaxNewBuys
         /\ OpenedIn(w) # {} => Cardinality(HeldIn(w)) <= lim.open
    <3>1. /\ Cardinality(OpenedIn(v)) <= v.new /\ v.new <= MaxNewBuys
          /\ OpenedIn(v) # {} => Cardinality(HeldIn(v)) <= lim.open
      BY DEF WithinLimits
    <3>2. CASE v.held[x] = 0
      <4>1. Cardinality(HeldIn(v)) < lim.open /\ v.new < MaxNewBuys /\ lim.open \in Nat
        BY <1>3, <2>3, <3>2 DEF MayOpen, HeldIn, IsPreviewLimit
      <4>2. HeldIn(w) = HeldIn(v) \cup {x}
        BY <2>9, <2>13 DEF HeldIn
      <4>3. Cardinality(HeldIn(w)) <= Cardinality(HeldIn(v)) + 1 /\ Cardinality(HeldIn(w)) \in Nat
        BY <2>14, <4>2, CardinalityAdd, FS_CardinalityType
      <4>4. OpenedIn(w) = OpenedIn(v) \/ OpenedIn(w) = OpenedIn(v) \cup {x}
        BY <2>9, <2>13, <3>2 DEF OpenedIn
      <4>5. Cardinality(OpenedIn(w)) <= Cardinality(OpenedIn(v)) + 1 /\ Cardinality(OpenedIn(w)) \in Nat
        <5>1. CASE OpenedIn(w) = OpenedIn(v)
          BY <2>14, <5>1
        <5>2. CASE OpenedIn(w) = OpenedIn(v) \cup {x}
          BY <2>14, <5>2, CardinalityAdd, FS_CardinalityType
        <5> QED BY <4>4, <5>1, <5>2
      <4>6. w.new = v.new + 1 /\ MaxNewBuys \in Nat
        BY <2>10, <3>2 DEF MaxNewBuys
      <4> QED BY <2>9, <2>14, <3>1, <4>1, <4>3, <4>5, <4>6
    <3>3. CASE v.held[x] # 0
      <4>1. v.held[x] > 0
        BY <2>9, <3>3
      <4>2. HeldIn(w) = HeldIn(v) /\ OpenedIn(w) = OpenedIn(v)
        BY <2>9, <2>13, <4>1 DEF HeldIn, OpenedIn
      <4>3. w.new = v.new
        BY <2>10, <3>3
      <4> QED BY <3>1, <4>2, <4>3
    <3> QED BY <3>2, <3>3
  <2> QED BY <2>4, <2>11, <2>12, <2>15 DEF WithinLimits
<1> QED BY <1>2, <1>3

\* A preview before its BUYs is within any limits.
LEMMA BeforeIsWithin ==
  ASSUME IsInput(input), NEW lim, NEW v \in BeforeBuys
  PROVE  v \in WithinLimits(lim)
<1>1. v \in PreviewStates /\ v.spent = input.gspent /\ v.new = 0 /\ v.bought = 0 /\ OpenedIn(v) = {}
  BY DEF BeforeBuys
<1>2. Cardinality(OpenedIn(v)) = 0
  BY <1>1, FS_EmptySet
<1>3. input.gspent + 0 = input.gspent
  BY DEF IsInput
<1> QED BY <1>1, <1>2, <1>3 DEF WithinLimits, MaxNewBuys

\* A loop over SELL signals stays in a set of previews that each of them stays in.
LEMMA SellsPreviewed ==
  ASSUME NEW P, NEW v \in P, NEW signals, Len(signals) \in Nat,
         \A i \in 1 .. Len(signals) : \A a \in P : PreviewSell(a, signals[i]) \in P
  PROVE  PreviewSells(v, signals) \in P
<1> DEFINE n == Len(signals)
           next(a, i) == CHOOSE b \in { PreviewSell(last, signals[i]) : last \in {a} } : TRUE
           after[i \in 0 .. Len(signals)] ==
             IF i = 0 THEN v
             ELSE CHOOSE b \in { PreviewSell(last, signals[i]) : last \in {after[i - 1]} } : TRUE
           step == [ i \in 1 .. n |-> [ a \in P |-> PreviewSell(a, signals[i]) ] ]
<1>1. n \in Nat
  OBVIOUS
<1>2. \A a, i : next(a, i) = PreviewSell(a, signals[i])
  OBVIOUS
<1>3. PreviewSells(v, signals) = after[n]
  BY DEF PreviewSells
<1>4. \E g : Runs(g, n, P, v, step)
  <2>1. step \in [1 .. n -> [P -> P]]
    OBVIOUS
  <2> HIDE DEF step, n
  <2> QED BY <1>1, <2>1, Recursion
<1>5. PICK g : Runs(g, n, P, v, step)
  BY <1>4
<1>6. g \in [0 .. n -> P] /\ g[0] = v /\ \A i \in 1 .. n : g[i] = step[i][g[i - 1]]
  BY <1>5 DEF Runs
<1>7. ASSUME NEW i \in 1 .. n PROVE g[i] = next(g[i - 1], i)
  <2>1. i - 1 \in 0 .. n
    BY <1>1
  <2>2. g[i - 1] \in P
    BY <1>6, <2>1
  <2> QED BY <1>2, <1>6, <2>2
<1> HIDE DEF next
<1>8. after = [ i \in 0 .. n |-> IF i = 0 THEN v ELSE next(after[i - 1], i) ]
  <2>1. g = [ i \in 0 .. n |-> IF i = 0 THEN v ELSE next(g[i - 1], i) ]
    BY <1>1, <1>6, <1>7
  <2>2. \E f : f = [ i \in 0 .. n |-> IF i = 0 THEN v ELSE next(f[i - 1], i) ]
    BY <2>1
  <2> QED BY <2>2 DEF next
<1> HIDE DEF after, n
<1>9. after[0] = v /\ \A i \in 1 .. n : after[i] = PreviewSell(after[i - 1], signals[i])
  BY <1>1, <1>2, <1>8 DEF next
<1> DEFINE U == { i \in 0 .. n : after[i] \in P }
<1>10. 0 \in U
  BY <1>1, <1>9
<1>11. \A i \in 1 .. n : i - 1 \in U => i \in U
  BY <1>1, <1>9 DEF n
<1>12. 0 .. n \subseteq U
  <2> HIDE DEF U
  <2> QED BY <1>1, <1>10, <1>11, Upwards
<1>13. n \in 0 .. n
  BY <1>1
<1> QED BY <1>3, <1>12, <1>13

\* A loop over BUY signals stays in a set of previews that each of them stays in.
LEMMA BuysPreviewed ==
  ASSUME NEW P, NEW lim, NEW v \in P, NEW signals, Len(signals) \in Nat,
         \A i \in 1 .. Len(signals) : \A a \in P : PreviewBuy(lim, a, signals[i]) \in P
  PROVE  PreviewBuys(lim, v, signals) \in P
<1> DEFINE n == Len(signals)
           next(a, i) == CHOOSE b \in { PreviewBuy(lim, last, signals[i]) : last \in {a} } : TRUE
           after[i \in 0 .. Len(signals)] ==
             IF i = 0 THEN v
             ELSE CHOOSE b \in { PreviewBuy(lim, last, signals[i]) : last \in {after[i - 1]} } : TRUE
           step == [ i \in 1 .. n |-> [ a \in P |-> PreviewBuy(lim, a, signals[i]) ] ]
<1>1. n \in Nat
  OBVIOUS
<1>2. \A a, i : next(a, i) = PreviewBuy(lim, a, signals[i])
  OBVIOUS
<1>3. PreviewBuys(lim, v, signals) = after[n]
  BY DEF PreviewBuys
<1>4. \E g : Runs(g, n, P, v, step)
  <2>1. step \in [1 .. n -> [P -> P]]
    OBVIOUS
  <2> HIDE DEF step, n
  <2> QED BY <1>1, <2>1, Recursion
<1>5. PICK g : Runs(g, n, P, v, step)
  BY <1>4
<1>6. g \in [0 .. n -> P] /\ g[0] = v /\ \A i \in 1 .. n : g[i] = step[i][g[i - 1]]
  BY <1>5 DEF Runs
<1>7. ASSUME NEW i \in 1 .. n PROVE g[i] = next(g[i - 1], i)
  <2>1. i - 1 \in 0 .. n
    BY <1>1
  <2>2. g[i - 1] \in P
    BY <1>6, <2>1
  <2> QED BY <1>2, <1>6, <2>2
<1> HIDE DEF next
<1>8. after = [ i \in 0 .. n |-> IF i = 0 THEN v ELSE next(after[i - 1], i) ]
  <2>1. g = [ i \in 0 .. n |-> IF i = 0 THEN v ELSE next(g[i - 1], i) ]
    BY <1>1, <1>6, <1>7
  <2>2. \E f : f = [ i \in 0 .. n |-> IF i = 0 THEN v ELSE next(f[i - 1], i) ]
    BY <2>1
  <2> QED BY <2>2 DEF next
<1> HIDE DEF after, n
<1>9. after[0] = v /\ \A i \in 1 .. n : after[i] = PreviewBuy(lim, after[i - 1], signals[i])
  BY <1>1, <1>2, <1>8 DEF next
<1> DEFINE U == { i \in 0 .. n : after[i] \in P }
<1>10. 0 \in U
  BY <1>1, <1>9
<1>11. \A i \in 1 .. n : i - 1 \in U => i \in U
  BY <1>1, <1>9 DEF n
<1>12. 0 .. n \subseteq U
  <2> HIDE DEF U
  <2> QED BY <1>1, <1>10, <1>11, Upwards
<1>13. n \in 0 .. n
  BY <1>1
<1> QED BY <1>3, <1>12, <1>13

\* A preview keeps to its limits.
LEMMA PreviewFine == ASSUME IsInput(input) PROVE PreviewWithinMeans
<1> SUFFICES ASSUME NEW s \in Strategies
             PROVE  LET v == Preview(s)
                        lim == PreviewLimits(s)
                        opened == { x \in Symbols : v.held[x] > 0 /\ PreviewStart.held[x] = 0 }
                    IN /\ v.bought > 0 => input.gspent + v.bought <= lim.daily /\ v.cash >= 0
                       /\ opened # {} => Cardinality({ x \in Symbols : v.held[x] > 0 }) <= lim.open
                       /\ Cardinality(opened) <= MaxNewBuys
  BY DEF PreviewWithinMeans
<1>1. PICK lim : lim = PreviewLimits(s)
  OBVIOUS
<1>2. IsPreviewLimit(lim)
  BY <1>1 DEF PreviewLimits, IsPreviewLimit, IsInput, Limits
<1>3. PICK own : own = { sig \in Signals : sig.strategy = s }
  OBVIOUS
<1>4. PICK ss, bs : ss = Only(input.sells, own) /\ bs = Only(input.buys, own)
  OBVIOUS
<1>5. ss \in Seq(Signals) /\ bs \in Seq(Signals)
  BY <1>4, OnlyType DEF IsInput
<1>6. /\ Len(ss) \in Nat /\ \A i \in 1 .. Len(ss) : ss[i] \in Signals
      /\ Len(bs) \in Nat /\ \A i \in 1 .. Len(bs) : bs[i] \in Signals
  BY <1>5, LenProperties, ElementOfSeq
<1>7. PICK u : u = PreviewSells(PreviewStart, ss)
  OBVIOUS
<1>8. u \in BeforeBuys
  <2>1. PICK P : P = BeforeBuys
    OBVIOUS
  <2>2. PreviewStart \in P /\ \A i \in 1 .. Len(ss) : \A a \in P : PreviewSell(a, ss[i]) \in P
    BY <1>6, <2>1, StartFine, SellPreviewed
  <2>3. PreviewSells(PreviewStart, ss) \in P
    BY <1>6, <2>2, SellsPreviewed
  <2> QED BY <1>7, <2>1, <2>3
<1>9. PICK v : v = PreviewBuys(lim, u, bs)
  OBVIOUS
<1>10. v \in WithinLimits(lim)
  <2>1. PICK P : P = WithinLimits(lim)
    OBVIOUS
  <2>2. u \in P /\ \A i \in 1 .. Len(bs) : \A a \in P : PreviewBuy(lim, a, bs[i]) \in P
    BY <1>2, <1>6, <1>8, <2>1, BeforeIsWithin, BuyPreviewed
  <2>3. PreviewBuys(lim, u, bs) \in P
    BY <1>6, <2>2, BuysPreviewed
  <2> QED BY <1>9, <2>1, <2>3
<1>11. v = Preview(s)
  BY <1>1, <1>3, <1>4, <1>7, <1>9 DEF Preview
<1>12. /\ v.bought > 0 => input.gspent + v.bought <= lim.daily /\ v.cash >= 0
       /\ OpenedIn(v) # {} => Cardinality(HeldIn(v)) <= lim.open
       /\ Cardinality(OpenedIn(v)) <= MaxNewBuys
  <2>1. /\ v.spent = input.gspent + v.bought
        /\ v.bought > 0 => v.spent <= lim.daily /\ v.cash >= 0
        /\ Cardinality(OpenedIn(v)) <= v.new /\ v.new <= MaxNewBuys /\ v.new \in Nat
        /\ OpenedIn(v) # {} => Cardinality(HeldIn(v)) <= lim.open
    BY <1>10 DEF WithinLimits, PreviewStates
  <2>2. IsFiniteSet(OpenedIn(v))
    <3>1. OpenedIn(v) \subseteq Symbols
      BY DEF OpenedIn
    <3> QED BY <3>1, SymbolsAssumption, FS_Subset
  <2>3. Cardinality(OpenedIn(v)) \in Nat
    BY <2>2, FS_CardinalityType
  <2> QED BY <2>1, <2>3 DEF MaxNewBuys
<1> QED BY <1>1, <1>11, <1>12 DEF OpenedIn, HeldIn

-----------------------------------------------------------------------------
(* The properties. *)

\* Locals and orders keep their types; the cash left to BUYs never goes below
\* zero.
THEOREM TypeCorrect == Spec => []TypeOK
BY InvHolds, PTL DEF Inv

\* No plan sells and buys one symbol, across strategies (same-day netting).
THEOREM NeverWashTrade == Spec => []NoWashTrade
<1>1. Inv => NoWashTrade
  BY DEF Inv, NettingInv, NoWashTrade
<1> QED
  BY InvHolds, <1>1, PTL

\* No plan adds to a held bucket or enters one by two signals.
THEOREM NeverAdd == Spec => []EnterOnce
BY InvHolds, PTL DEF Inv

\* A sold bucket is empty at the end of the plan.
THEOREM ExitsClose == Spec => []ExitsCloseBuckets
BY InvHolds, PTL DEF Inv

\* A plan that buys respects the limits of open and of new positions.
THEOREM PositionLimits == Spec => []OpenPositionLimits
BY InvHolds, PTL DEF Inv

\* A plan that buys counts no more spent than the account's daily limit and no
\* more than the daily limit of each strategy that buys.
THEOREM SpentLimits == Spec => []SpentInv
BY InvHolds, PTL DEF Inv

\* Neither the plan nor its preview spends what is not there.
THEOREM MeansHold == Spec => []SpendingWithinMeans
<1>1. Inv /\ ValueInv => SpendingWithinMeans
  <2> SUFFICES ASSUME Inv, ValueInv PROVE SpendingWithinMeans
    OBVIOUS
  <2>1. BuysWithinMeans
    BY PlanWithinMeans
  <2>2. IsInput(input)
    BY InputsAssumption DEF Inv, TypeOK
  <2>3. PreviewWithinMeans
    BY <2>2, PreviewFine
  <2> QED BY <2>1, <2>3 DEF SpendingWithinMeans
<1> QED BY InvHolds, ValueHolds, <1>1, PTL
=============================================================================
