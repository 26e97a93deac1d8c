-------------------------- MODULE ExecutionProofs --------------------------
(***************************************************************************)
(* Proofs about Execution: the types, that a leg of a signal is booked     *)
(* once, that cash and shares are the opening books moved by the fills,    *)
(* that the engine keeps to the limits of the day over every rerun, that   *)
(* it never overdraws, that the exits are done when the stage is marked,   *)
(* and that the entries stay within the limit of open symbols.             *)
(*                                                                         *)
(* The lemmas come first: recursive functions; the sum of a sequence and   *)
(* the selection from one (Tallies); what the allocator's plan buys within *)
(* the limits (AllocatorOps); what fills add to the sums the properties    *)
(* are made of.  Then the inductive invariant Inv, one lemma for each way  *)
(* a step can move each part of it, and its theorems.  The last two        *)
(* theorems need more of the plan, what it sells and where it buys, and    *)
(* the invariant Closes, which says what the orders left to book are.      *)
(***************************************************************************)
EXTENDS Execution, FiniteSetTheorems, SequenceTheorems, WellFoundedInduction, TLAPS

-----------------------------------------------------------------------------
(* Recursive functions. *)

\* A set of numbers that is not empty has a least member: induction over finite
\* sets, as the theorem of the library on strict subsets states it.
LEMMA Least == \A T \in SUBSET Nat : T # {} => \E n \in T : \A m \in T : n <= m
<1> SUFFICES ASSUME NEW T \in SUBSET Nat, T # {}
             PROVE  \E n \in T : \A m \in T : n <= m
  OBVIOUS
<1> DEFINE F == { 1 .. n : n \in T }
           R == StrictSubsetOrdering(Nat)
<1>1. IsWellFoundedOn(R, FiniteSubsetsOf(Nat))
  BY FS_StrictSubsetOrderingWellFounded
<1>2. F \subseteq FiniteSubsetsOf(Nat) /\ F # {}
  <2>1. \A n \in T : IsFiniteSet(1 .. n)
    BY FS_Interval
  <2>2. \A n \in T : 1 .. n \in FiniteSubsetsOf(Nat)
    BY <2>1 DEF FiniteSubsetsOf
  <2> QED BY <2>2
<1>3. \E x \in F : \A y \in F : ~ (<<y, x>> \in R)
  <2> HIDE DEF F, R
  <2> QED BY <1>1, <1>2, WFMin
<1>4. PICK n \in T : \A y \in F : ~ (<<y, 1 .. n>> \in R)
  BY <1>3
<1>5. ASSUME NEW m \in T PROVE n <= m
  <2>1. ~ (<<1 .. m, 1 .. n>> \in R)
    BY <1>4
  <2>2. CASE m < n
    <3>1. 1 .. m \subseteq 1 .. n /\ 1 .. m # 1 .. n
      <4>1. n \in 1 .. n /\ n \notin 1 .. m
        BY <2>2
      <4> QED BY <2>2, <4>1
    <3> QED BY <3>1, <2>1 DEF StrictSubsetOrdering
  <2> QED BY <2>2
<1> QED BY <1>5

\* What holds of 0 and, with any number up to n, of the one after it, holds of
\* all numbers up to n.
LEMMA Upwards ==
  ASSUME NEW n \in Nat, NEW T, 0 \in T, \A i \in 1 .. n : i - 1 \in T => i \in T
  PROVE  0 .. n \subseteq T
<1> DEFINE B == (0 .. n) \ T
<1>1. ASSUME B # {} PROVE FALSE
  <2>1. PICK i \in B : \A j \in B : i <= j
    <3>1. B \in SUBSET Nat
      OBVIOUS
    <3> HIDE DEF B
    <3> QED BY <1>1, <3>1, Least
  <2>2. i \in 1 .. n /\ i \notin T
    BY <2>1
  <2>3. i - 1 \in 0 .. n /\ ~ (i - 1 \in B)
    BY <2>1, <2>2
  <2> QED BY <2>2, <2>3
<1> QED BY <1>1

\* g goes from s0 with a step for each of the numbers up to n.
Runs(g, n, S, s0, step) ==
  /\ g \in [0 .. n -> S]
  /\ g[0] = s0
  /\ \A i \in 1 .. n : g[i] = step[i][g[i - 1]]

\* A function defined by recursion on the number before exists.
LEMMA Recursion ==
  ASSUME NEW n \in Nat, NEW S, NEW s0 \in S, NEW step \in [1 .. n -> [S -> S]]
  PROVE  \E g : Runs(g, n, S, s0, step)
<1> DEFINE T == { k \in 0 .. n : \E g : Runs(g, k, S, s0, step) }
<1>1. 0 \in T
  <2> DEFINE g == [ i \in 0 .. 0 |-> s0 ]
  <2>1. Runs(g, 0, S, s0, step)
    BY DEF Runs
  <2> HIDE DEF g
  <2> QED BY <2>1
<1>2. ASSUME NEW k \in 1 .. n, k - 1 \in T PROVE k \in T
  <2>1. PICK g : Runs(g, k - 1, S, s0, step)
    BY <1>2
  <2>2. /\ g \in [0 .. k - 1 -> S] /\ g[0] = s0
        /\ \A i \in 1 .. k - 1 : g[i] = step[i][g[i - 1]]
    BY <2>1 DEF Runs
  <2>3. k - 1 \in 0 .. k - 1 /\ g[k - 1] \in S /\ step[k][g[k - 1]] \in S
    BY <2>2
  <2> DEFINE h == [ i \in 0 .. k |-> IF i = k THEN step[k][g[k - 1]] ELSE g[i] ]
  <2>4. h \in [0 .. k -> S]
    BY <2>2, <2>3
  <2>5. \A i \in 0 .. k - 1 : h[i] = g[i]
    OBVIOUS
  <2>6. h[k] = step[k][g[k - 1]]
    OBVIOUS
  <2> HIDE DEF h
  <2>7. h[0] = s0 /\ h[k] = step[k][h[k - 1]]
    BY <2>2, <2>3, <2>5, <2>6
  <2>8. ASSUME NEW i \in 1 .. k PROVE h[i] = step[i][h[i - 1]]
    <3>1. CASE i = k
      BY <2>7, <3>1
    <3>2. CASE i # k
      <4>1. i \in 1 .. k - 1 /\ i \in 0 .. k - 1 /\ i - 1 \in 0 .. k - 1
        BY <3>2
      <4> QED BY <2>2, <2>5, <4>1
    <3> QED BY <3>1, <3>2
  <2>9. Runs(h, k, S, s0, step)
    BY <2>4, <2>7, <2>8 DEF Runs
  <2> QED BY <2>9
<1>3. 0 .. n \subseteq T
  <2> HIDE DEF T
  <2> QED BY <1>1, <1>2, Upwards
<1> QED BY <1>3

-----------------------------------------------------------------------------
(* Tally and Only. *)

Sums(g, s) ==
  /\ g \in [0 .. Len(s) -> Int]
  /\ g[0] = 0
  /\ \A i \in 1 .. Len(s) : g[i] = g[i - 1] + s[i]

\* Tally is the last of the partial sums.
LEMMA TallyIs ==
  ASSUME NEW s \in Seq(Int)
  PROVE  \E g : Sums(g, s) /\ Tally(s) = g[Len(s)]
<1> DEFINE n == Len(s)
           sum[i \in 0 .. Len(s)] == IF i = 0 THEN 0 ELSE sum[i - 1] + s[i]
           step == [ i \in 1 .. n |-> [ x \in Int |-> x + s[i] ] ]
<1>1. n \in Nat /\ \A i \in 1 .. n : s[i] \in Int
  BY LenProperties, ElementOfSeq
<1>2. \E g : Runs(g, n, Int, 0, step)
  <2>1. 0 \in Int /\ step \in [1 .. n -> [Int -> Int]]
    BY <1>1
  <2> HIDE DEF step, n
  <2> QED BY <1>1, <2>1, Recursion
<1>3. sum = [ i \in 0 .. n |-> IF i = 0 THEN 0 ELSE sum[i - 1] + s[i] ]
  <2>1. PICK g : Runs(g, n, Int, 0, step)
    BY <1>2
  <2>2. g \in [0 .. n -> Int] /\ g[0] = 0 /\ \A i \in 1 .. n : g[i] = step[i][g[i - 1]]
    BY <2>1 DEF Runs
  <2>a. ASSUME NEW i \in 1 .. n PROVE g[i] = g[i - 1] + s[i]
    <3>1. i - 1 \in 0 .. n
      BY <1>1
    <3>2. g[i - 1] \in Int
      BY <2>2, <3>1
    <3> QED BY <2>2, <3>2
  <2>3. g = [ i \in 0 .. n |-> IF i = 0 THEN 0 ELSE g[i - 1] + s[i] ]
    BY <1>1, <2>2, <2>a
  <2> QED BY <2>3
<1>4. Tally(s) = sum[n]
  BY DEF Tally
<1> HIDE DEF sum, n
<1>5. sum[0] = 0 /\ \A i \in 1 .. n : sum[i] = sum[i - 1] + s[i]
  BY <1>1, <1>3
<1>6. sum \in [0 .. n -> Int]
  <2> DEFINE T == { i \in 0 .. n : sum[i] \in Int }
  <2>1. 0 \in T /\ \A i \in 1 .. n : i - 1 \in T => i \in T
    BY <1>1, <1>5
  <2>2. 0 .. n \subseteq T
    <3> HIDE DEF T
    <3> QED BY <1>1, <2>1, Upwards
  <2> QED BY <1>3, <2>2
<1>7. Sums(sum, s)
  BY <1>5, <1>6 DEF Sums, n
<1> QED BY <1>4, <1>7 DEF n

\* Partial sums are unique.
LEMMA TallyBy ==
  ASSUME NEW s \in Seq(Int), NEW g, Sums(g, s)
  PROVE  Tally(s) = g[Len(s)] /\ Tally(s) \in Int
<1>1. PICK h : Sums(h, s) /\ Tally(s) = h[Len(s)]
  BY TallyIs
<1>2. PICK n : n = Len(s)
  OBVIOUS
<1>3. n \in Nat /\ \A i \in 1 .. n : s[i] \in Int
  BY <1>2, LenProperties, ElementOfSeq
<1>4. /\ g \in [0 .. n -> Int] /\ g[0] = 0 /\ \A i \in 1 .. n : g[i] = g[i - 1] + s[i]
      /\ h \in [0 .. n -> Int] /\ h[0] = 0 /\ \A i \in 1 .. n : h[i] = h[i - 1] + s[i]
  BY <1>1, <1>2 DEF Sums
<1> DEFINE T == { i \in 0 .. n : g[i] = h[i] }
<1>5. 0 \in T /\ \A i \in 1 .. n : i - 1 \in T => i \in T
  BY <1>3, <1>4
<1>6. 0 .. n \subseteq T
  <2> HIDE DEF T
  <2> QED BY <1>3, <1>5, Upwards
<1>7. n \in 0 .. n
  BY <1>3
<1>8. g[n] = h[n] /\ h[n] \in Int
  BY <1>4, <1>6, <1>7
<1> QED BY <1>1, <1>2, <1>8

\* A sum of integers is one.
LEMMA TallyType == ASSUME NEW s \in Seq(Int) PROVE Tally(s) \in Int
BY TallyIs, TallyBy

\* Nothing sums to zero.
LEMMA TallyEmpty == Tally(<< >>) = 0
<1>1. << >> \in Seq(Int) /\ Len(<< >>) = 0
  OBVIOUS
<1>2. PICK g : Sums(g, << >>) /\ Tally(<< >>) = g[Len(<< >>)]
  BY <1>1, TallyIs
<1> QED BY <1>1, <1>2 DEF Sums

\* The sum of two sequences one after the other is the sum of their sums.
LEMMA TallyJoin ==
  ASSUME NEW s \in Seq(Int), NEW t \in Seq(Int)
  PROVE  Tally(s \o t) = Tally(s) + Tally(t)
<1>1. PICK g : Sums(g, s) /\ Tally(s) = g[Len(s)]
  BY TallyIs
<1>2. PICK h : Sums(h, t) /\ Tally(t) = h[Len(t)]
  BY TallyIs
<1>3. PICK m, n : m = Len(s) /\ n = Len(t)
  OBVIOUS
<1>4. m \in Nat /\ n \in Nat
  BY <1>3, LenProperties
<1>5. g \in [0 .. m -> Int] /\ g[0] = 0 /\ \A i \in 1 .. m : g[i] = g[i - 1] + s[i]
  BY <1>1, <1>3 DEF Sums
<1>6. h \in [0 .. n -> Int] /\ h[0] = 0 /\ \A i \in 1 .. n : h[i] = h[i - 1] + t[i]
  BY <1>2, <1>3 DEF Sums
<1>7. PICK u : u = s \o t
  OBVIOUS
<1>8. /\ u \in Seq(Int) /\ Len(u) = m + n
      /\ \A i \in 1 .. m : u[i] = s[i]
      /\ \A i \in 1 .. n : u[m + i] = t[i]
  <2>1. /\ u \in Seq(Int) /\ Len(u) = m + n
        /\ \A i \in 1 .. m + n : u[i] = IF i <= m THEN s[i] ELSE t[i - m]
    BY <1>3, <1>7, ConcatProperties
  <2>2. ASSUME NEW i \in 1 .. n PROVE u[m + i] = t[i]
    <3>1. m + i \in 1 .. m + n /\ ~ (m + i <= m) /\ (m + i) - m = i
      BY <1>4
    <3> QED BY <2>1, <3>1
  <2>3. \A i \in 1 .. m : i \in 1 .. m + n /\ i <= m
    BY <1>4
  <2> QED BY <2>1, <2>2, <2>3
<1> DEFINE f == [ i \in 0 .. m + n |-> IF i <= m THEN g[i] ELSE g[m] + h[i - m] ]
<1>9. \A i \in 0 .. m : i \in 0 .. m + n /\ f[i] = g[i]
  BY <1>4
<1>10. ASSUME NEW i \in 0 .. n PROVE m + i \in 0 .. m + n /\ f[m + i] = g[m] + h[i]
  <2>1. m + i \in 0 .. m + n /\ (m + i) - m = i /\ (m + i <= m => i = 0 /\ m + i = m)
    BY <1>4
  <2>2. g[m] \in Int
    BY <1>4, <1>5
  <2>3. CASE i = 0
    BY <1>6, <1>9, <1>4, <2>2, <2>3
  <2>4. CASE i # 0
    BY <2>1, <2>4
  <2> QED BY <2>1, <2>3, <2>4
<1>11. f \in [0 .. m + n -> Int]
  <2>1. g[m] \in Int
    BY <1>4, <1>5
  <2>2. ASSUME NEW i \in 0 .. m + n PROVE (IF i <= m THEN g[i] ELSE g[m] + h[i - m]) \in Int
    <3>1. CASE i <= m
      BY <1>4, <1>5, <3>1
    <3>2. CASE ~ (i <= m)
      <4>1. i - m \in 0 .. n
        BY <1>4, <3>2
      <4>2. h[i - m] \in Int
        BY <1>6, <4>1
      <4> QED BY <2>1, <3>2, <4>2
    <3> QED BY <3>1, <3>2
  <2> QED BY <2>2
<1> HIDE DEF f
<1>12. ASSUME NEW i \in 1 .. m + n PROVE f[i] = f[i - 1] + u[i]
  <2>1. CASE i <= m
    <3>1. i \in 0 .. m /\ i - 1 \in 0 .. m /\ i \in 1 .. m
      BY <1>4, <2>1
    <3> QED BY <1>5, <1>8, <1>9, <3>1
  <2>2. CASE ~ (i <= m)
    <3>1. PICK k \in 1 .. n : i = m + k
      <4>1. i - m \in 1 .. n /\ i = m + (i - m)
        BY <1>4, <2>2
      <4> QED BY <4>1
    <3>2. k \in 0 .. n /\ k - 1 \in 0 .. n /\ i - 1 = m + (k - 1)
      BY <1>4, <3>1
    <3>3. f[i] = g[m] + h[k] /\ f[i - 1] = g[m] + h[k - 1] /\ u[i] = t[k]
      BY <1>8, <1>10, <3>1, <3>2
    <3>4. h[k] = h[k - 1] + t[k] /\ h[k - 1] \in Int /\ h[k] \in Int
      BY <1>6, <3>1, <3>2
    <3>5. t[k] \in Int /\ g[m] \in Int
      BY <1>3, <1>4, <1>5, <3>1, ElementOfSeq
    <3> QED BY <3>3, <3>4, <3>5
  <2> QED BY <2>1, <2>2
<1>13. Sums(f, u)
  <2>1. f[0] = 0
    BY <1>4, <1>5, <1>9
  <2> QED BY <1>8, <1>11, <1>12, <2>1 DEF Sums
<1>14. Tally(u) = f[m + n]
  BY <1>8, <1>13, TallyBy
<1>15. f[m + n] = g[m] + h[n]
  BY <1>4, <1>10
<1> QED BY <1>1, <1>2, <1>3, <1>7, <1>14, <1>15

\* One number is its own sum.
LEMMA TallyOne == ASSUME NEW x \in Int PROVE Tally(<< x >>) = x
<1>1. PICK s : s = << x >>
  OBVIOUS
<1>2. s \in Seq(Int) /\ Len(s) = 1 /\ s[1] = x
  BY <1>1
<1>3. PICK g : Sums(g, s) /\ Tally(s) = g[Len(s)]
  BY <1>2, TallyIs
<1>4. g[0] = 0 /\ 1 \in 1 .. 1 /\ \A i \in 1 .. 1 : g[i] = g[i - 1] + s[i]
  BY <1>2, <1>3 DEF Sums
<1>5. g[1] = g[1 - 1] + s[1] /\ 1 - 1 = 0
  BY <1>4
<1> QED BY <1>1, <1>2, <1>3, <1>4, <1>5

-----------------------------------------------------------------------------
(* The sum of what each member of a sequence weighs. *)

Weights(w, s) == [ i \in DOMAIN s |-> w[s[i]] ]

Weight(w, s) == Tally(Weights(w, s))

\* The weights of the members of a sequence are a sequence as long.
LEMMA WeightsType ==
  ASSUME NEW S, NEW w \in [S -> Int], NEW s \in Seq(S)
  PROVE  Weights(w, s) \in Seq(Int) /\ Len(Weights(w, s)) = Len(s) /\ Weight(w, s) \in Int
<1>1. Len(s) \in Nat /\ DOMAIN s = 1 .. Len(s) /\ \A i \in 1 .. Len(s) : s[i] \in S
  BY LenProperties, ElementOfSeq
<1>2. PICK n : n = Len(s)
  OBVIOUS
<1>3. Weights(w, s) \in [1 .. n -> Int]
  BY <1>1, <1>2 DEF Weights
<1>4. PICK a : a = Weights(w, s)
  OBVIOUS
<1>5. a \in Seq(Int) /\ DOMAIN a = 1 .. n /\ n \in Nat
  <2>1. n \in Nat
    BY <1>1, <1>2
  <2>2. a \in [1 .. n -> Int] /\ DOMAIN a = 1 .. n
    BY <1>3, <1>4
  <2>3. a \in UNION { [1 .. m -> Int] : m \in Nat }
    BY <2>1, <2>2
  <2> QED BY <2>1, <2>2, <2>3, SeqDef
<1>6. Len(a) = n
  BY <1>5
<1> QED BY <1>2, <1>4, <1>5, <1>6, TallyType DEF Weight

\* Two sequences one after the other weigh what they weigh together.
LEMMA WeightJoin ==
  ASSUME NEW S, NEW w \in [S -> Int], NEW s \in Seq(S), NEW t \in Seq(S)
  PROVE  Weight(w, s \o t) = Weight(w, s) + Weight(w, t)
<1>1. PICK u : u = s \o t
  OBVIOUS
<1>2. PICK m, n : m = Len(s) /\ n = Len(t)
  OBVIOUS
<1>3. /\ m \in Nat /\ n \in Nat /\ DOMAIN s = 1 .. m /\ DOMAIN t = 1 .. n
      /\ u \in Seq(S) /\ Len(u) = m + n /\ DOMAIN u = 1 .. m + n
      /\ \A i \in 1 .. m + n : u[i] = IF i <= m THEN s[i] ELSE t[i - m]
  BY <1>1, <1>2, LenProperties, ConcatProperties
<1>4. PICK a, b, c : a = Weights(w, s) /\ b = Weights(w, t) /\ c = Weights(w, u)
  OBVIOUS
<1>5. /\ a \in Seq(Int) /\ Len(a) = m /\ b \in Seq(Int) /\ Len(b) = n
      /\ c \in Seq(Int) /\ Len(c) = m + n
  BY <1>2, <1>3, <1>4, WeightsType
<1>6. PICK d : d = a \o b
  OBVIOUS
<1>7. /\ d \in Seq(Int) /\ Len(d) = m + n
      /\ \A i \in 1 .. m + n : d[i] = IF i <= m THEN a[i] ELSE b[i - m]
  BY <1>5, <1>6, ConcatProperties
<1>8. ASSUME NEW i \in 1 .. m + n PROVE c[i] = d[i]
  <2>1. c[i] = w[u[i]]
    BY <1>3, <1>4 DEF Weights
  <2>2. CASE i <= m
    <3>1. i \in 1 .. m
      BY <1>3, <2>2
    <3>2. a[i] = w[s[i]]
      BY <1>3, <1>4, <3>1 DEF Weights
    <3> QED BY <1>3, <1>7, <2>1, <2>2, <3>2
  <2>3. CASE ~ (i <= m)
    <3>1. i - m \in 1 .. n
      BY <1>3, <2>3
    <3>2. b[i - m] = w[t[i - m]]
      BY <1>3, <1>4, <3>1 DEF Weights
    <3> QED BY <1>3, <1>7, <2>1, <2>3, <3>2
  <2> QED BY <2>2, <2>3
<1>9. c = d
  <2>1. PICK k : k = m + n
    OBVIOUS
  <2>2. c \in [1 .. k -> Int] /\ d \in [1 .. k -> Int]
    BY <1>5, <1>7, <2>1, LenProperties
  <2>3. \A i \in 1 .. k : c[i] = d[i]
    BY <1>8, <2>1
  <2>4. c = [ i \in 1 .. k |-> c[i] ] /\ d = [ i \in 1 .. k |-> d[i] ]
    BY <2>2
  <2> QED BY <2>3, <2>4, Zenon
<1> QED BY <1>1, <1>4, <1>5, <1>6, <1>9, TallyJoin DEF Weight

\* One member weighs its weight.
LEMMA WeightOne ==
  ASSUME NEW S, NEW w \in [S -> Int], NEW x \in S
  PROVE  Weight(w, << x >>) = w[x]
<1>1. Weights(w, << x >>) = << w[x] >>
  BY DEF Weights
<1> QED BY <1>1, TallyOne DEF Weight

\* An empty sequence weighs nothing.
LEMMA WeightEmpty == \A w : Weight(w, << >>) = 0
<1>1. \A w : Weights(w, << >>) = << >>
  BY DEF Weights
<1> QED BY <1>1, TallyEmpty DEF Weight

\* A member at the end adds its weight.
LEMMA WeightAppend ==
  ASSUME NEW S, NEW w \in [S -> Int], NEW s \in Seq(S), NEW x \in S
  PROVE  Weight(w, Append(s, x)) = Weight(w, s) + w[x]
<1>1. Append(s, x) = s \o << x >>
  BY AppendIsConcat
<1>2. << x >> \in Seq(S)
  OBVIOUS
<1>3. Weight(w, s \o << x >>) = Weight(w, s) + Weight(w, << x >>)
  BY <1>2, WeightJoin
<1>4. Weight(w, << x >>) = w[x]
  BY WeightOne
<1> QED BY <1>1, <1>3, <1>4

\* The first member and the others weigh what the sequence weighs.
LEMMA WeightTail ==
  ASSUME NEW S, NEW w \in [S -> Int], NEW s \in Seq(S), s # << >>
  PROVE  /\ Head(s) \in S /\ Tail(s) \in Seq(S)
         /\ Weight(w, s) = w[Head(s)] + Weight(w, Tail(s))
<1>1. Head(s) \in S /\ Tail(s) \in Seq(S) /\ << Head(s) >> \in Seq(S)
  BY HeadTailProperties
<1>2. s = << Head(s) >> \o Tail(s)
  BY HeadTailProperties, ConcatProperties
<1>3. Weight(w, << Head(s) >>) = w[Head(s)]
  BY <1>1, WeightOne
<1>4. Weight(w, << Head(s) >> \o Tail(s)) = Weight(w, << Head(s) >>) + Weight(w, Tail(s))
  BY <1>1, WeightJoin
<1> QED BY <1>1, <1>2, <1>3, <1>4

-----------------------------------------------------------------------------
Keeps(g, s, S) ==
  /\ g[0] = << >>
  /\ \A i \in 1 .. Len(s) : g[i] = IF s[i] \in S THEN Append(g[i - 1], s[i]) ELSE g[i - 1]

\* Only is the last of the selections from the first members.
LEMMA OnlyIs ==
  ASSUME NEW T, NEW s \in Seq(T), NEW S
  PROVE  \E g \in [0 .. Len(s) -> Seq(T)] : Keeps(g, s, S) /\ Only(s, S) = g[Len(s)]
<1> DEFINE n == Len(s)
           kept[i \in 0 .. Len(s)] ==
             IF i = 0 THEN << >>
             ELSE IF s[i] \in S THEN Append(kept[i - 1], s[i]) ELSE kept[i - 1]
           step == [ i \in 1 .. n |-> [ x \in Seq(T) |-> IF s[i] \in S THEN Append(x, s[i]) ELSE x ] ]
<1>1. n \in Nat /\ \A i \in 1 .. n : s[i] \in T
  BY LenProperties, ElementOfSeq
<1>2. \E g : Runs(g, n, Seq(T), << >>, step)
  <2>1. \A i \in 1 .. n : \A x \in Seq(T) : Append(x, s[i]) \in Seq(T)
    BY <1>1, AppendProperties
  <2>2. << >> \in Seq(T) /\ step \in [1 .. n -> [Seq(T) -> Seq(T)]]
    BY <2>1
  <2> HIDE DEF step, n
  <2> QED BY <1>1, <2>2, Recursion
<1>3. PICK g : Runs(g, n, Seq(T), << >>, step)
  BY <1>2
<1>4. g \in [0 .. n -> Seq(T)] /\ g[0] = << >> /\ \A i \in 1 .. n : g[i] = step[i][g[i - 1]]
  BY <1>3 DEF Runs
<1>5. ASSUME NEW i \in 1 .. n
      PROVE  g[i] = IF s[i] \in S THEN Append(g[i - 1], s[i]) ELSE g[i - 1]
  <2>1. i - 1 \in 0 .. n
    BY <1>1
  <2>2. g[i - 1] \in Seq(T)
    BY <1>4, <2>1
  <2> QED BY <1>4, <2>2
<1>6. g = [ i \in 0 .. n |-> IF i = 0 THEN << >>
                             ELSE IF s[i] \in S THEN Append(g[i - 1], s[i]) ELSE g[i - 1] ]
  <2>1. \A i \in 0 .. n : g[i] = IF i = 0 THEN << >>
                                ELSE IF s[i] \in S THEN Append(g[i - 1], s[i]) ELSE g[i - 1]
    <3>1. \A i \in 0 .. n : i = 0 \/ i \in 1 .. n
      BY <1>1
    <3>2. ASSUME NEW i \in 1 .. n PROVE i # 0
      OBVIOUS
    <3>3. g[0] = << >>
      BY <1>4
    <3> HIDE DEF n
    <3> QED BY <1>5, <3>1, <3>2, <3>3
  <2>2. g = [ i \in 0 .. n |-> g[i] ]
    BY <1>4
  <2> QED BY <2>1, <2>2
<1>7. kept = [ i \in 0 .. n |-> IF i = 0 THEN << >>
                             ELSE IF s[i] \in S THEN Append(kept[i - 1], s[i]) ELSE kept[i - 1] ]
  BY <1>6
<1>8. Only(s, S) = kept[n]
  BY DEF Only
<1> HIDE DEF kept, n
<1>a. PICK Q, e : Q = Seq(T) /\ e = << >>
  OBVIOUS
<1>b. e \in Q /\ \A x \in Q : \A i \in 1 .. n : Append(x, s[i]) \in Q
  BY <1>1, <1>a, AppendProperties
<1>c. kept[0] = e
  BY <1>1, <1>7, <1>a
<1>d. ASSUME NEW i \in 1 .. n
      PROVE  kept[i] = IF s[i] \in S THEN Append(kept[i - 1], s[i]) ELSE kept[i - 1]
  <2>1. i \in 0 .. n /\ i # 0
    BY <1>1
  <2> QED BY <1>7, <2>1
<1>9. kept[0] = << >>
      /\ \A i \in 1 .. n : kept[i] = IF s[i] \in S THEN Append(kept[i - 1], s[i]) ELSE kept[i - 1]
  BY <1>a, <1>c, <1>d
<1>10. kept \in [0 .. n -> Seq(T)]
  <2> DEFINE U == { i \in 0 .. n : kept[i] \in Q }
  <2>1. 0 \in U
    BY <1>1, <1>b, <1>c
  <2>2. ASSUME NEW i \in 1 .. n, i - 1 \in U PROVE i \in U
    <3>1. kept[i - 1] \in Q /\ i \in 0 .. n
      BY <1>1, <2>2
    <3> QED BY <1>b, <1>d, <3>1
  <2>3. 0 .. n \subseteq U
    <3> HIDE DEF U
    <3> QED BY <1>1, <2>1, <2>2, Upwards
  <2>4. DOMAIN kept = 0 .. n /\ kept = [ i \in 0 .. n |-> kept[i] ]
    BY <1>7
  <2> QED BY <1>a, <2>3, <2>4
<1>11. Keeps(kept, s, S)
  BY <1>9 DEF Keeps, n
<1> QED BY <1>8, <1>10, <1>11 DEF n

\* A selection of a sequence is one, and weighs no more.
LEMMA OnlyType ==
  ASSUME NEW T, NEW s \in Seq(T), NEW S
  PROVE  Only(s, S) \in Seq(T)
<1>1. PICK g \in [0 .. Len(s) -> Seq(T)] : Keeps(g, s, S) /\ Only(s, S) = g[Len(s)]
  BY OnlyIs
<1>2. Len(s) \in 0 .. Len(s)
  BY LenProperties
<1> QED BY <1>1, <1>2

\* What is selected from a sequence weighs no more than the whole.
LEMMA OnlyWeighsLess ==
  ASSUME NEW T, NEW s \in Seq(T), NEW S, NEW w \in [T -> Nat]
  PROVE  Weight(w, Only(s, S)) <= Weight(w, s)
<1>1. PICK n : n = Len(s)
  OBVIOUS
<1>2. PICK g \in [0 .. n -> Seq(T)] : Keeps(g, s, S) /\ Only(s, S) = g[n]
  BY <1>1, OnlyIs
<1>3. n \in Nat /\ DOMAIN s = 1 .. n /\ \A i \in 1 .. n : s[i] \in T /\ w[s[i]] \in Nat
  BY <1>1, LenProperties, ElementOfSeq
<1>4. w \in [T -> Int]
  OBVIOUS
<1>5. PICK a : a = Weights(w, s)
  OBVIOUS
<1>6. a \in Seq(Int) /\ Len(a) = n /\ \A i \in 1 .. n : a[i] = w[s[i]]
  BY <1>1, <1>3, <1>4, <1>5, WeightsType DEF Weights
<1>7. PICK h : Sums(h, a) /\ Tally(a) = h[n]
  BY <1>6, TallyIs
<1>8. h \in [0 .. n -> Int] /\ h[0] = 0 /\ \A i \in 1 .. n : h[i] = h[i - 1] + a[i]
  BY <1>6, <1>7 DEF Sums
<1> DEFINE U == { i \in 0 .. n : Weight(w, g[i]) <= h[i] }
<1>9. 0 \in U
  BY <1>1, <1>2, <1>3, <1>8, WeightEmpty DEF Keeps
<1>10. ASSUME NEW i \in 1 .. n, i - 1 \in U PROVE i \in U
  <2>1. i - 1 \in 0 .. n /\ i \in 0 .. n /\ g[i - 1] \in Seq(T) /\ h[i - 1] \in Int
    BY <1>2, <1>3, <1>8
  <2>2. g[i] = IF s[i] \in S THEN Append(g[i - 1], s[i]) ELSE g[i - 1]
    BY <1>1, <1>2 DEF Keeps
  <2>3. Weight(w, Append(g[i - 1], s[i])) = Weight(w, g[i - 1]) + w[s[i]]
    BY <1>3, <1>4, <2>1, WeightAppend
  <2>4. Weight(w, g[i - 1]) \in Int
    BY <1>4, <2>1, WeightsType
  <2>5. h[i] = h[i - 1] + w[s[i]] /\ w[s[i]] \in Nat /\ Weight(w, g[i - 1]) <= h[i - 1]
    BY <1>3, <1>6, <1>8, <1>10
  <2>6. Weight(w, g[i]) <= h[i]
    <3>1. PICK p, q, v : p = Weight(w, g[i - 1]) /\ q = h[i - 1] /\ v = w[s[i]]
      OBVIOUS
    <3>2. Weight(w, g[i]) \in {p, p + v}
      BY <2>2, <2>3, <3>1
    <3>3. p \in Int /\ q \in Int /\ v \in Nat /\ p <= q /\ h[i] = q + v
      BY <2>1, <2>4, <2>5, <3>1
    <3> QED BY <3>2, <3>3
  <2> QED BY <2>1, <2>6
<1>11. 0 .. n \subseteq U
  <2> HIDE DEF U
  <2> QED BY <1>3, <1>9, <1>10, Upwards
<1>12. n \in U
  BY <1>3, <1>11
<1> QED BY <1>2, <1>5, <1>7, <1>12 DEF Weight

-----------------------------------------------------------------------------
(* plan(): the types of its orders, and what they buy within the limits. *)

OrderItems ==
  [ id : STRING, strategy : Strategies, symbol : Symbols, side : Sides,
    qty : Nat \ {0}, odd : BOOLEAN, price : Nat \ {0} ]

\* Orders for the signals, at their prices.
OrdersOf(sigs) ==
  { o \in OrderItems : \E sig \in sigs : o.symbol = sig.symbol /\ o.price = sig.price }

PlanStates ==
  [ pos : [Strategies \X Symbols -> Nat], cash : Int, gspent : Nat,
    sspent : [Strategies -> Nat], netted : SUBSET Symbols, newCount : Nat ]

Buys(strategies) == [ o \in OrderItems |-> Entered(o, strategies) ]

Plans(p0, lim, sigs) ==
  { acc \in [ p : PlanStates, orders : Seq(OrdersOf(sigs)) ] :
      /\ acc.p.gspent = p0.gspent + Weight(Buys(Strategies), acc.orders)
      /\ acc.p.gspent = p0.gspent \/ acc.p.gspent <= lim.globalDaily
      /\ \A s \in Strategies :
           /\ acc.p.sspent[s] = p0.sspent[s] + Weight(Buys({s}), acc.orders)
           /\ acc.p.sspent[s] = p0.sspent[s] \/ acc.p.sspent[s] <= lim.strategyDaily[s] }

\* Fee and tax of a value are natural numbers.
LEMMA FeeType == ASSUME NEW value \in Nat PROVE Fee(value) \in Nat /\ Tax(value) \in Nat
<1>1. \A a, d \in Nat : d # 0 => Rounded(a, d) \in Nat
  BY DEF Rounded
<1>2. value * 1425 \in Nat /\ value * 3 \in Nat
  OBVIOUS
<1>3. Rounded(value * 1425, 1000000) \in Nat /\ Rounded(value * 3, 1000) \in Nat
  BY <1>1, <1>2
<1> QED BY <1>3 DEF Fee, Tax

\* What an order or fill enters is a natural number.
LEMMA EnteredType ==
  ASSUME NEW o, o.qty \in Nat, o.price \in Nat, NEW S
  PROVE  Entered(o, S) \in Nat
<1>1. o.qty * o.price \in Nat
  OBVIOUS
<1> QED BY <1>1 DEF Entered, Value

\* The weights of orders are natural numbers.
LEMMA BuysType == \A S : Buys(S) \in [OrderItems -> Nat] /\ Buys(S) \in [OrderItems -> Int]
BY EnteredType DEF Buys, OrderItems

\* Orders of signals are orders.
LEMMA OrdersAre == \A sigs : OrdersOf(sigs) \subseteq OrderItems /\ Seq(OrdersOf(sigs)) \subseteq Seq(OrderItems)
<1>1. \A sigs : OrdersOf(sigs) \subseteq OrderItems
  BY DEF OrdersOf
<1>2. ASSUME NEW sigs, NEW s \in Seq(OrdersOf(sigs)) PROVE s \in Seq(OrderItems)
  <2>1. PICK n \in Nat : s \in [1 .. n -> OrdersOf(sigs)]
    BY SeqDef
  <2>2. s \in [1 .. n -> OrderItems]
    BY <1>1, <2>1
  <2> QED BY <2>2, SeqDef
<1> QED BY <1>1, <1>2

\* The board lot and the odd lot of a quantity together are worth the quantity.
LEMMA Split ==
  ASSUME NEW sigs \in SUBSET SignalItems, NEW sig \in sigs, NEW side \in Sides,
         NEW qty \in Nat \ {0}
  PROVE  /\ SplitLotOrders(sig, side, qty) \in Seq(OrdersOf(sigs))
         /\ \A S : Weight(Buys(S), SplitLotOrders(sig, side, qty))
                     = IF side = "BUY" /\ sig.strategy \in S THEN qty * sig.price ELSE 0
<1> DEFINE board == (qty \div BoardLot) * BoardLot
           rest  == qty % BoardLot
           boardOrder == [ id |-> sig.id, strategy |-> sig.strategy,
                           symbol |-> sig.symbol, side |-> side,
                           qty |-> board, odd |-> FALSE, price |-> sig.price ]
           restOrder == [ id |-> sig.id, strategy |-> sig.strategy,
                          symbol |-> sig.symbol, side |-> side,
                          qty |-> rest, odd |-> TRUE, price |-> sig.price ]
           first  == IF board > 0 THEN << boardOrder >> ELSE << >>
           second == IF rest > 0 THEN << restOrder >> ELSE << >>
           W(S, q) == IF side = "BUY" /\ sig.strategy \in S THEN q * sig.price ELSE 0
           Q == OrdersOf(sigs)
<1>1. board \in Nat /\ rest \in Nat /\ board + rest = qty
  BY DEF BoardLot
<1>2. SplitLotOrders(sig, side, qty) = first \o second
  BY DEF SplitLotOrders
<1>3. sig.price \in Nat \ {0} /\ sig.id \in STRING /\ sig.strategy \in Strategies
      /\ sig.symbol \in Symbols
  BY DEF SignalItems
<1> HIDE DEF board, rest
<1>4. board > 0 => boardOrder \in Q
  BY <1>1, <1>3 DEF OrdersOf, OrderItems
<1>5. rest > 0 => restOrder \in Q
  BY <1>1, <1>3 DEF OrdersOf, OrderItems
<1>6. \A S : board > 0 => Buys(S)[boardOrder] = W(S, board)
  BY <1>4, OrdersAre DEF Buys, Entered, Value
<1>7. \A S : rest > 0 => Buys(S)[restOrder] = W(S, rest)
  BY <1>5, OrdersAre DEF Buys, Entered, Value
<1>8. \A S : W(S, 0) = 0 /\ W(S, board) + W(S, rest) = W(S, qty)
  <2>1. PICK a, b, c : a = board /\ b = rest /\ c = sig.price
    OBVIOUS
  <2>2. a \in Nat /\ b \in Nat /\ c \in Nat /\ a + b = qty
    BY <1>1, <1>3, <2>1
  <2>3. 0 * c = 0 /\ a * c + b * c = (a + b) * c
    BY <2>2
  <2>4. 0 * sig.price = 0 /\ board * sig.price + rest * sig.price = qty * sig.price
    BY <2>1, <2>2, <2>3
  <2>5. 0 + 0 = 0
    OBVIOUS
  <2> QED BY <2>4, <2>5, Zenon
<1> HIDE DEF boardOrder, restOrder, W, Q
<1>9. first \in Seq(Q) /\ \A S : Weight(Buys(S), first) = W(S, board)
  <2>1. CASE board > 0
    <3>1. << boardOrder >> \in Seq(Q)
      BY <1>4, <2>1
    <3>2. boardOrder \in OrderItems
      BY <1>4, <2>1, OrdersAre DEF Q
    <3>3. \A S : Weight(Buys(S), << boardOrder >>) = Buys(S)[boardOrder]
      BY <3>2, BuysType, WeightOne
    <3> QED BY <1>6, <2>1, <3>1, <3>3
  <2>2. CASE ~ (board > 0)
    <3>1. board = 0 /\ first = << >> /\ << >> \in Seq(Q)
      BY <1>1, <2>2
    <3> QED BY <1>8, <3>1, WeightEmpty
  <2> QED BY <2>1, <2>2
<1>10. second \in Seq(Q) /\ \A S : Weight(Buys(S), second) = W(S, rest)
  <2>1. CASE rest > 0
    <3>1. << restOrder >> \in Seq(Q)
      BY <1>5, <2>1
    <3>2. restOrder \in OrderItems
      BY <1>5, <2>1, OrdersAre DEF Q
    <3>3. \A S : Weight(Buys(S), << restOrder >>) = Buys(S)[restOrder]
      BY <3>2, BuysType, WeightOne
    <3> QED BY <1>7, <2>1, <3>1, <3>3
  <2>2. CASE ~ (rest > 0)
    <3>1. rest = 0 /\ second = << >> /\ << >> \in Seq(Q)
      BY <1>1, <2>2
    <3> QED BY <1>8, <3>1, WeightEmpty
  <2> QED BY <2>1, <2>2
<1> HIDE DEF first, second
<1>11. first \o second \in Seq(Q)
  BY <1>9, <1>10, ConcatProperties
<1>12. first \in Seq(OrderItems) /\ second \in Seq(OrderItems)
  BY <1>9, <1>10, OrdersAre DEF Q
<1>13. ASSUME NEW S
       PROVE  Weight(Buys(S), first \o second) = Weight(Buys(S), first) + Weight(Buys(S), second)
  <2>1. Buys(S) \in [OrderItems -> Int]
    BY BuysType
  <2> QED BY <1>12, <2>1, WeightJoin
<1> QED BY <1>2, <1>8, <1>9, <1>10, <1>11, <1>13 DEF W, Q

\* An order that can be afforded has a size, the largest that can be.
LEMMA SizeExists ==
  ASSUME NEW lim \in Limits, NEW sig \in SignalItems, NEW p, Affordable(p, lim, sig, 1),
         NEW top, top = lim.budget[sig.strategy] \div sig.price
  PROVE  \E k \in 0 .. top : Sized(p, lim, sig, top - k)
<1>1. PICK b, c : b = lim.budget[sig.strategy] /\ c = sig.price
  OBVIOUS
<1>2. b \in Nat /\ c \in Nat \ {0} /\ top = b \div c
  BY <1>1 DEF Limits, SignalItems
<1>3. \A q \in Nat : Affordable(p, lim, sig, q) => q * c <= b
  BY <1>1 DEF Affordable
<1>4. top \in Nat /\ ~ ((top + 1) * c <= b)
  BY <1>2
<1>5. top >= 1
  <2>1. 1 * c <= b
    BY <1>3
  <2>2. CASE top = 0
    BY <1>2, <1>4, <2>1, <2>2
  <2> QED BY <1>4, <2>2
<1>6. PICK q \in 1 .. top : Affordable(p, lim, sig, q) /\ ~ Affordable(p, lim, sig, q + 1)
  <2> SUFFICES ASSUME \A q \in 1 .. top : Affordable(p, lim, sig, q) => Affordable(p, lim, sig, q + 1)
               PROVE  FALSE
    OBVIOUS
  <2> DEFINE T == { i \in Nat : Affordable(p, lim, sig, i + 1) }
  <2>1. 0 \in T
    <3>1. 0 + 1 = 1
      OBVIOUS
    <3> QED BY <3>1
  <2>2. ASSUME NEW i \in 1 .. top, i - 1 \in T PROVE i \in T
    <3>1. (i - 1) + 1 = i /\ i \in Nat
      BY <1>4
    <3> QED BY <2>2, <3>1
  <2>3. top \in T
    <3> HIDE DEF T
    <3>1. 0 .. top \subseteq T
      BY <1>4, <2>1, <2>2, Upwards
    <3> QED BY <1>4, <3>1
  <2> QED BY <1>3, <1>4, <2>3
<1>7. top - q \in 0 .. top /\ top - (top - q) = q
  BY <1>4
<1>8. Sized(p, lim, sig, q)
  BY <1>1, <1>2, <1>6 DEF Sized
<1> QED BY <1>7, <1>8

-----------------------------------------------------------------------------
\* The parts of a plan state.
LEMMA StateParts ==
  ASSUME NEW p \in PlanStates
  PROVE  /\ p = [ pos |-> p.pos, cash |-> p.cash, gspent |-> p.gspent, sspent |-> p.sspent,
                  netted |-> p.netted, newCount |-> p.newCount ]
         /\ p.pos \in [Strategies \X Symbols -> Nat] /\ p.cash \in Int /\ p.gspent \in Nat
         /\ p.sspent \in [Strategies -> Nat] /\ p.netted \in SUBSET Symbols
         /\ p.newCount \in Nat
BY DEF PlanStates

\* A planned SELL leaves a plan state that has spent what it had.
LEMMA SellState ==
  ASSUME NEW p \in PlanStates, NEW sig \in SignalItems, NEW r, r = AfterSell(p, sig)
  PROVE  r \in PlanStates /\ r.gspent = p.gspent /\ r.sspent = p.sspent
<1>1. Bucket(sig) \in Strategies \X Symbols /\ sig.symbol \in Symbols
  BY DEF SignalItems, Bucket
<1>2. PICK c : c = Bucket(sig)
  OBVIOUS
<1>3. PICK ps, nt : ps = [ p.pos EXCEPT ![c] = 0 ] /\ nt = p.netted \cup {sig.symbol}
  OBVIOUS
<1>4. ps \in [Strategies \X Symbols -> Nat] /\ nt \in SUBSET Symbols
  BY <1>1, <1>2, <1>3, StateParts
<1>5. r = [ pos |-> ps, cash |-> p.cash, gspent |-> p.gspent, sspent |-> p.sspent,
            netted |-> nt, newCount |-> p.newCount ]
  <2>1. r = [ [ p EXCEPT !.pos = ps ] EXCEPT !.netted = nt ]
    BY <1>2, <1>3, StateParts DEF AfterSell
  <2>2. PICK m : m = [ p EXCEPT !.pos = ps ]
    OBVIOUS
  <2>3. m = [ pos |-> ps, cash |-> p.cash, gspent |-> p.gspent, sspent |-> p.sspent,
              netted |-> p.netted, newCount |-> p.newCount ]
    BY <2>2, StateParts
  <2>4. r = [ m EXCEPT !.netted = nt ]
    BY <2>1, <2>2
  <2> QED BY <2>3, <2>4
<1> QED BY <1>4, <1>5, StateParts DEF PlanStates

BuyOf(p, sig, v, r) ==
  /\ v \in Nat /\ r \in PlanStates /\ r.gspent = p.gspent + v
  /\ \A s \in Strategies : r.sspent[s] = p.sspent[s] + IF s = sig.strategy THEN v ELSE 0

\* A planned BUY leaves a plan state that has spent its value more.
LEMMA BuyState ==
  ASSUME NEW p \in PlanStates, NEW sig \in SignalItems, NEW q \in Nat, NEW v,
         v = q * sig.price, NEW r, r = AfterBuy(p, sig, q)
  PROVE  BuyOf(p, sig, v, r)
<1>1. /\ Bucket(sig) \in Strategies \X Symbols /\ sig.strategy \in Strategies
      /\ sig.price \in Nat
  BY DEF SignalItems, Bucket
<1>2. v \in Nat
  <2>1. PICK c : c = sig.price
    OBVIOUS
  <2>2. q * c \in Nat
    BY <1>1, <2>1
  <2> QED BY <2>1, <2>2
<1>3. Fee(v) \in Nat
  BY <1>2, FeeType
<1>4. PICK b, z : b = Bucket(sig) /\ z = sig.strategy
  OBVIOUS
<1>5. PICK ps, ca, gs, ss, nc :
        /\ ps = [ p.pos EXCEPT ![b] = @ + q ] /\ ca = p.cash - (v + Fee(v))
        /\ gs = p.gspent + v /\ ss = [ p.sspent EXCEPT ![z] = @ + v ] /\ nc = p.newCount + 1
  OBVIOUS
<1>6. ps \in [Strategies \X Symbols -> Nat]
  BY <1>1, <1>4, <1>5, StateParts
<1>7. ss \in [Strategies -> Nat]
      /\ \A s \in Strategies : ss[s] = p.sspent[s] + IF s = z THEN v ELSE 0
  <2>1. \A s \in Strategies : p.sspent[s] \in Nat
    BY StateParts
  <2> QED BY <1>1, <1>2, <1>4, <1>5, <2>1, StateParts
<1>8. ca \in Int /\ gs \in Nat /\ nc \in Nat
  BY <1>2, <1>3, <1>5, StateParts
<1>9. r = [ pos |-> ps, cash |-> ca, gspent |-> gs, sspent |-> ss,
            netted |-> p.netted, newCount |-> nc ]
  BY <1>4, <1>5 DEF AfterBuy
<1>10. r \in PlanStates
  BY <1>6, <1>7, <1>8, <1>9, StateParts DEF PlanStates
<1> QED BY <1>2, <1>4, <1>5, <1>7, <1>9, <1>10 DEF BuyOf

\* The orders of one more signal.
MoreOf(sigs, sig, side, qty, orders, more) ==
  /\ more \in Seq(OrdersOf(sigs))
  /\ \A S : /\ Weight(Buys(S), orders) \in Int
            /\ Weight(Buys(S), more) = Weight(Buys(S), orders)
                 + IF side = "BUY" /\ sig.strategy \in S THEN qty * sig.price ELSE 0

\* The orders of one signal add its value to what the plan buys.
LEMMA MoreOrders ==
  ASSUME NEW sigs \in SUBSET SignalItems, NEW sig \in sigs, NEW side \in Sides,
         NEW qty \in Nat \ {0}, NEW orders \in Seq(OrdersOf(sigs)),
         NEW more, more = orders \o SplitLotOrders(sig, side, qty)
  PROVE  MoreOf(sigs, sig, side, qty, orders, more)
<1>1. PICK new : new = SplitLotOrders(sig, side, qty)
  OBVIOUS
<1>2. /\ new \in Seq(OrdersOf(sigs))
      /\ \A S : Weight(Buys(S), new)
                  = IF side = "BUY" /\ sig.strategy \in S THEN qty * sig.price ELSE 0
  BY <1>1, Split
<1>3. more \in Seq(OrdersOf(sigs))
  BY <1>1, <1>2, ConcatProperties
<1>4. orders \in Seq(OrderItems) /\ new \in Seq(OrderItems)
  BY <1>2, OrdersAre
<1>5. ASSUME NEW S
      PROVE  Weight(Buys(S), orders) \in Int
             /\ Weight(Buys(S), more) = Weight(Buys(S), orders) + Weight(Buys(S), new)
  <2>1. Buys(S) \in [OrderItems -> Int]
    BY BuysType
  <2> QED BY <1>1, <1>4, <2>1, WeightJoin, WeightsType
<1> QED BY <1>2, <1>3, <1>5 DEF MoreOf

\* A SELL signal keeps a plan within the limits.
LEMMA SellPlanned ==
  ASSUME NEW sigs \in SUBSET SignalItems, NEW sig \in sigs, NEW p0, NEW lim,
         NEW acc \in Plans(p0, lim, sigs)
  PROVE  PlanSell(acc, sig) \in Plans(p0, lim, sigs)
<1>1. CASE ~ SellPossible(acc.p, sig)
  BY <1>1 DEF PlanSell
<1>2. CASE SellPossible(acc.p, sig)
  <2>1. PICK next : next = PlanSell(acc, sig)
    OBVIOUS
  <2>2. /\ acc.p \in PlanStates /\ acc.orders \in Seq(OrdersOf(sigs))
        /\ Bucket(sig) \in Strategies \X Symbols /\ sig.symbol \in Symbols
    BY DEF Plans, SignalItems, Bucket
  <2>3. PICK q : q = acc.p.pos[Bucket(sig)]
    OBVIOUS
  <2>4. q \in Nat \ {0}
    BY <1>2, <2>2, <2>3 DEF SellPossible, PlanStates
  <2>5. /\ next = [ p |-> next.p, orders |-> next.orders ]
        /\ next.p = AfterSell(acc.p, sig)
        /\ next.orders = acc.orders \o SplitLotOrders(sig, "SELL", q)
    BY <1>2, <2>1, <2>3 DEF PlanSell, SellOrders
  <2>6. next.p \in PlanStates /\ next.p.gspent = acc.p.gspent /\ next.p.sspent = acc.p.sspent
    BY <2>2, <2>5, SellState
  <2>7. /\ next.orders \in Seq(OrdersOf(sigs))
        /\ \A S : Weight(Buys(S), next.orders) = Weight(Buys(S), acc.orders)
    <3>1. "SELL" \in Sides
      BY DEF Sides
    <3>2. PICK old, more, side : old = acc.orders /\ more = next.orders /\ side = "SELL"
      OBVIOUS
    <3>3. side \in Sides /\ old \in Seq(OrdersOf(sigs)) /\ more = old \o SplitLotOrders(sig, side, q)
      BY <2>2, <2>5, <3>1, <3>2
    <3>4. MoreOf(sigs, sig, side, q, old, more)
      BY <2>4, <3>3, MoreOrders
    <3>a. /\ more \in Seq(OrdersOf(sigs))
          /\ \A S : /\ Weight(Buys(S), old) \in Int
                    /\ Weight(Buys(S), more) = Weight(Buys(S), old)
                         + IF side = "BUY" /\ sig.strategy \in S THEN q * sig.price ELSE 0
      BY <3>4 DEF MoreOf
    <3>5. ASSUME NEW S PROVE Weight(Buys(S), more) = Weight(Buys(S), old)
      BY <3>2, <3>a
    <3> QED BY <3>2, <3>a, <3>5
  <2>8. next \in [ p : PlanStates, orders : Seq(OrdersOf(sigs)) ]
    BY <2>5, <2>6, <2>7
  <2> QED BY <2>1, <2>6, <2>7, <2>8 DEF Plans
<1> QED BY <1>1, <1>2

\* A BUY signal keeps a plan within the limits: its size respects what they leave.
LEMMA BuyPlanned ==
  ASSUME NEW sigs \in SUBSET SignalItems, NEW sig \in sigs, NEW p0 \in PlanStates,
         NEW lim \in Limits, NEW acc \in Plans(p0, lim, sigs)
  PROVE  PlanBuy(lim, acc, sig) \in Plans(p0, lim, sigs)
<1>1. CASE ~ (BuyAllowed(acc.p, lim, sig) /\ Affordable(acc.p, lim, sig, 1))
  BY <1>1 DEF PlanBuy
<1>2. CASE BuyAllowed(acc.p, lim, sig) /\ Affordable(acc.p, lim, sig, 1)
  <2>1. PICK next : next = PlanBuy(lim, acc, sig)
    OBVIOUS
  <2>2. /\ acc.p \in PlanStates /\ acc.orders \in Seq(OrdersOf(sigs))
        /\ Bucket(sig) \in Strategies \X Symbols /\ sig.strategy \in Strategies
        /\ sig.price \in Nat \ {0} /\ sig \in SignalItems
    BY DEF Plans, SignalItems, Bucket
  <2> DEFINE top == lim.budget[sig.strategy] \div sig.price
             q   == top - CHOOSE k \in 0 .. top : Sized(acc.p, lim, sig, top - k)
  <2>3. Sized(acc.p, lim, sig, q)
    BY <1>2, <2>2, SizeExists
  <2>4. q \in Nat \ {0} /\ Affordable(acc.p, lim, sig, q)
    <3> HIDE DEF q
    <3>1. q \in 1 .. top /\ Affordable(acc.p, lim, sig, q)
      BY <2>3 DEF Sized
    <3>2. PICK m : m = top
      OBVIOUS
    <3> QED BY <3>1, <3>2
  <2>5. /\ next = [ p |-> next.p, orders |-> next.orders ]
        /\ next.p = AfterBuy(acc.p, sig, q)
        /\ next.orders = acc.orders \o SplitLotOrders(sig, "BUY", q)
    BY <1>2, <2>1 DEF PlanBuy, BuyOrders
  <2> HIDE DEF q
  <2>6. PICK v : v = q * sig.price
    OBVIOUS
  <2>7. v \in Nat /\ next.p \in PlanStates /\ next.p.gspent = acc.p.gspent + v
        /\ \A s \in Strategies :
             next.p.sspent[s] = acc.p.sspent[s] + IF s = sig.strategy THEN v ELSE 0
    <3>1. PICK p, r : p = acc.p /\ r = next.p
      OBVIOUS
    <3>2. p \in PlanStates /\ q \in Nat /\ r = AfterBuy(p, sig, q)
      BY <2>2, <2>4, <2>5, <3>1
    <3>3. BuyOf(p, sig, v, r)
      BY <2>2, <2>6, <3>2, BuyState
    <3> QED BY <3>1, <3>3 DEF BuyOf
  <2>10. /\ v <= lim.globalDaily - acc.p.gspent
         /\ v <= lim.strategyDaily[sig.strategy] - acc.p.sspent[sig.strategy]
    BY <2>4, <2>6 DEF Affordable
  <2>11. /\ next.orders \in Seq(OrdersOf(sigs))
         /\ \A S : /\ Weight(Buys(S), acc.orders) \in Int
                   /\ Weight(Buys(S), next.orders)
                        = Weight(Buys(S), acc.orders) + IF sig.strategy \in S THEN v ELSE 0
    <3>1. "BUY" \in Sides
      BY DEF Sides
    <3>2. PICK old, more, side : old = acc.orders /\ more = next.orders /\ side = "BUY"
      OBVIOUS
    <3>3. side \in Sides /\ old \in Seq(OrdersOf(sigs)) /\ more = old \o SplitLotOrders(sig, side, q)
      BY <2>2, <2>5, <3>1, <3>2
    <3>4. MoreOf(sigs, sig, side, q, old, more)
      BY <2>4, <3>3, MoreOrders
    <3>a. /\ more \in Seq(OrdersOf(sigs))
          /\ \A S : /\ Weight(Buys(S), old) \in Int
                    /\ Weight(Buys(S), more) = Weight(Buys(S), old)
                         + IF side = "BUY" /\ sig.strategy \in S THEN q * sig.price ELSE 0
      BY <3>4 DEF MoreOf
    <3>5. ASSUME NEW S
          PROVE  Weight(Buys(S), more) = Weight(Buys(S), old) + IF sig.strategy \in S THEN v ELSE 0
      BY <2>6, <3>2, <3>a
    <3> QED BY <3>2, <3>a, <3>5
  <2>12. next \in [ p : PlanStates, orders : Seq(OrdersOf(sigs)) ]
    BY <2>5, <2>7, <2>11
  <2>13. /\ next.p.gspent = p0.gspent + Weight(Buys(Strategies), next.orders)
         /\ next.p.gspent <= lim.globalDaily
    <3>1. acc.p.gspent = p0.gspent + Weight(Buys(Strategies), acc.orders)
      BY DEF Plans
    <3>2. Weight(Buys(Strategies), next.orders) = Weight(Buys(Strategies), acc.orders) + v
      BY <2>2, <2>11
    <3>3. acc.p.gspent \in Int /\ p0.gspent \in Int
      BY <2>2, StateParts
    <3>4. lim.globalDaily \in Int
      BY DEF Limits
    <3>5. Weight(Buys(Strategies), acc.orders) \in Int
      BY <2>11
    <3> QED BY <2>7, <2>10, <3>1, <3>2, <3>3, <3>4, <3>5
  <2>14. ASSUME NEW s \in Strategies
         PROVE  /\ next.p.sspent[s] = p0.sspent[s] + Weight(Buys({s}), next.orders)
                /\ next.p.sspent[s] = p0.sspent[s] \/ next.p.sspent[s] <= lim.strategyDaily[s]
    <3>1. /\ acc.p.sspent[s] = p0.sspent[s] + Weight(Buys({s}), acc.orders)
          /\ acc.p.sspent[s] = p0.sspent[s] \/ acc.p.sspent[s] <= lim.strategyDaily[s]
      BY DEF Plans
    <3>2. Weight(Buys({s}), next.orders)
            = Weight(Buys({s}), acc.orders) + IF s = sig.strategy THEN v ELSE 0
      BY <2>11
    <3>3. acc.p.sspent[s] \in Int /\ p0.sspent[s] \in Int
      BY <2>2, StateParts
    <3>4. lim.strategyDaily[s] \in Int
      BY DEF Limits
    <3>5. Weight(Buys({s}), acc.orders) \in Int
      BY <2>11
    <3> QED BY <2>7, <2>10, <3>1, <3>2, <3>3, <3>4, <3>5
  <2> QED BY <2>1, <2>12, <2>13, <2>14 DEF Plans
<1> QED BY <1>1, <1>2

\* g goes through the states of a plan, all of them in P.
SellSteps(g, P, acc, sells) ==
  /\ g \in [0 .. Len(sells) -> P]
  /\ g[0] = acc /\ AfterSells(acc, sells) = g[Len(sells)]
  /\ \A i \in 1 .. Len(sells) : g[i] = PlanSell(g[i - 1], sells[i])

\* AfterSells goes through a state of P for each signal, if planning stays in P.
LEMMA SellsRun ==
  ASSUME NEW P, NEW acc \in P, NEW sells, Len(sells) \in Nat,
         \A i \in 1 .. Len(sells) : \A a \in P : PlanSell(a, sells[i]) \in P
  PROVE  \E g : SellSteps(g, P, acc, sells)
<1> DEFINE n == Len(sells)
           next(a, i) == CHOOSE b \in { PlanSell(last, sells[i]) : last \in {a} } : TRUE
           after[i \in 0 .. Len(sells)] ==
             IF i = 0 THEN acc
             ELSE CHOOSE b \in { PlanSell(last, sells[i]) : last \in {after[i - 1]} } : TRUE
           step == [ i \in 1 .. n |-> [ a \in P |-> PlanSell(a, sells[i]) ] ]
<1>1. n \in Nat
  OBVIOUS
<1>3. \A a, i : next(a, i) = PlanSell(a, sells[i])
  OBVIOUS
<1>4. AfterSells(acc, sells) = after[n]
  BY DEF AfterSells
<1>5. \E g : Runs(g, n, P, acc, step)
  <2>1. step \in [1 .. n -> [P -> P]]
    OBVIOUS
  <2> HIDE DEF step, n
  <2> QED BY <1>1, <2>1, Recursion
<1>6. PICK g : Runs(g, n, P, acc, step)
  BY <1>5
<1>7. g \in [0 .. n -> P] /\ g[0] = acc /\ \A i \in 1 .. n : g[i] = step[i][g[i - 1]]
  BY <1>6 DEF Runs
<1>8. ASSUME NEW i \in 1 .. n PROVE g[i] = next(g[i - 1], i)
  <2>1. i - 1 \in 0 .. n
    BY <1>1
  <2>2. g[i - 1] \in P
    BY <1>7, <2>1
  <2> QED BY <1>3, <1>7, <2>2
<1> HIDE DEF next
<1>9. after = [ i \in 0 .. n |-> IF i = 0 THEN acc ELSE next(after[i - 1], i) ]
  <2>1. g = [ i \in 0 .. n |-> IF i = 0 THEN acc ELSE next(g[i - 1], i) ]
    BY <1>1, <1>7, <1>8
  <2>2. \E f : f = [ i \in 0 .. n |-> IF i = 0 THEN acc ELSE next(f[i - 1], i) ]
    BY <2>1
  <2> QED BY <2>2 DEF next
<1> HIDE DEF after, n
<1>10. after[0] = acc /\ \A i \in 1 .. n : after[i] = PlanSell(after[i - 1], sells[i])
  BY <1>1, <1>3, <1>9 DEF next
<1>11. after \in [0 .. n -> P]
  <2> DEFINE U == { i \in 0 .. n : after[i] \in P }
  <2>1. 0 \in U
    BY <1>1, <1>10
  <2>2. \A i \in 1 .. n : i - 1 \in U => i \in U
    BY <1>1, <1>10 DEF n
  <2>3. 0 .. n \subseteq U
    <3> HIDE DEF U
    <3> QED BY <1>1, <2>1, <2>2, Upwards
  <2>4. after = [ i \in 0 .. n |-> after[i] ]
    BY <1>9
  <2> QED BY <2>3, <2>4
<1>12. SellSteps(after, P, acc, sells)
  BY <1>4, <1>10, <1>11 DEF n, SellSteps
<1> QED BY <1>12

\* g goes through the states of a plan, all of them in P.
BuySteps(g, P, acc, lim, buys) ==
  /\ g \in [0 .. Len(buys) -> P]
  /\ g[0] = acc /\ AfterBuys(acc, lim, buys) = g[Len(buys)]
  /\ \A i \in 1 .. Len(buys) : g[i] = PlanBuy(lim, g[i - 1], buys[i])

\* And so does AfterBuys.
LEMMA BuysRun ==
  ASSUME NEW P, NEW acc \in P, NEW lim, NEW buys, Len(buys) \in Nat,
         \A i \in 1 .. Len(buys) : \A a \in P : PlanBuy(lim, a, buys[i]) \in P
  PROVE  \E g : BuySteps(g, P, acc, lim, buys)
<1> DEFINE n == Len(buys)
           next(a, i) == CHOOSE b \in { PlanBuy(lim, last, buys[i]) : last \in {a} } : TRUE
           after[i \in 0 .. Len(buys)] ==
             IF i = 0 THEN acc
             ELSE CHOOSE b \in { PlanBuy(lim, last, buys[i]) : last \in {after[i - 1]} } : TRUE
           step == [ i \in 1 .. n |-> [ a \in P |-> PlanBuy(lim, a, buys[i]) ] ]
<1>1. n \in Nat
  OBVIOUS
<1>3. \A a, i : next(a, i) = PlanBuy(lim, a, buys[i])
  OBVIOUS
<1>4. AfterBuys(acc, lim, buys) = after[n]
  BY DEF AfterBuys
<1>5. \E g : Runs(g, n, P, acc, step)
  <2>1. step \in [1 .. n -> [P -> P]]
    OBVIOUS
  <2> HIDE DEF step, n
  <2> QED BY <1>1, <2>1, Recursion
<1>6. PICK g : Runs(g, n, P, acc, step)
  BY <1>5
<1>7. g \in [0 .. n -> P] /\ g[0] = acc /\ \A i \in 1 .. n : g[i] = step[i][g[i - 1]]
  BY <1>6 DEF Runs
<1>8. ASSUME NEW i \in 1 .. n PROVE g[i] = next(g[i - 1], i)
  <2>1. i - 1 \in 0 .. n
    BY <1>1
  <2>2. g[i - 1] \in P
    BY <1>7, <2>1
  <2> QED BY <1>3, <1>7, <2>2
<1> HIDE DEF next
<1>9. after = [ i \in 0 .. n |-> IF i = 0 THEN acc ELSE next(after[i - 1], i) ]
  <2>1. g = [ i \in 0 .. n |-> IF i = 0 THEN acc ELSE next(g[i - 1], i) ]
    BY <1>1, <1>7, <1>8
  <2>2. \E f : f = [ i \in 0 .. n |-> IF i = 0 THEN acc ELSE next(f[i - 1], i) ]
    BY <2>1
  <2> QED BY <2>2 DEF next
<1> HIDE DEF after, n
<1>10. after[0] = acc /\ \A i \in 1 .. n : after[i] = PlanBuy(lim, after[i - 1], buys[i])
  BY <1>1, <1>3, <1>9 DEF next
<1>11. after \in [0 .. n -> P]
  <2> DEFINE U == { i \in 0 .. n : after[i] \in P }
  <2>1. 0 \in U
    BY <1>1, <1>10
  <2>2. \A i \in 1 .. n : i - 1 \in U => i \in U
    BY <1>1, <1>10 DEF n
  <2>3. 0 .. n \subseteq U
    <3> HIDE DEF U
    <3> QED BY <1>1, <2>1, <2>2, Upwards
  <2>4. after = [ i \in 0 .. n |-> after[i] ]
    BY <1>9
  <2> QED BY <2>3, <2>4
<1>12. BuySteps(after, P, acc, lim, buys)
  BY <1>4, <1>10, <1>11 DEF n, BuySteps
<1> QED BY <1>12

\* So a list of SELL signals keeps a plan within the limits.
LEMMA SellsPlanned ==
  ASSUME NEW sigs \in SUBSET SignalItems, NEW sells \in Seq(sigs), NEW p0, NEW lim,
         NEW acc \in Plans(p0, lim, sigs)
  PROVE  AfterSells(acc, sells) \in Plans(p0, lim, sigs)
<1>1. Len(sells) \in Nat /\ \A i \in 1 .. Len(sells) : sells[i] \in sigs
  BY LenProperties, ElementOfSeq
<1>2. PICK P : P = Plans(p0, lim, sigs)
  OBVIOUS
<1>3. \A i \in 1 .. Len(sells) : \A a \in P : PlanSell(a, sells[i]) \in P
  BY <1>1, <1>2, SellPlanned
<1>7. acc \in P
  BY <1>2
<1>4. PICK g : SellSteps(g, P, acc, sells)
  BY <1>1, <1>3, <1>7, SellsRun
<1>5. PICK n : n = Len(sells)
  OBVIOUS
<1>6. g \in [0 .. n -> P] /\ n \in 0 .. n /\ AfterSells(acc, sells) = g[n]
  BY <1>1, <1>4, <1>5 DEF SellSteps
<1> QED BY <1>2, <1>6

\* And a list of BUY signals.
LEMMA BuysPlanned ==
  ASSUME NEW sigs \in SUBSET SignalItems, NEW buys \in Seq(sigs), NEW p0 \in PlanStates,
         NEW lim \in Limits, NEW acc \in Plans(p0, lim, sigs)
  PROVE  AfterBuys(acc, lim, buys) \in Plans(p0, lim, sigs)
<1>1. Len(buys) \in Nat /\ \A i \in 1 .. Len(buys) : buys[i] \in sigs
  BY LenProperties, ElementOfSeq
<1>2. PICK P : P = Plans(p0, lim, sigs)
  OBVIOUS
<1>3. \A i \in 1 .. Len(buys) : \A a \in P : PlanBuy(lim, a, buys[i]) \in P
  BY <1>1, <1>2, BuyPlanned
<1>7. acc \in P
  BY <1>2
<1>4. PICK g : BuySteps(g, P, acc, lim, buys)
  BY <1>1, <1>3, <1>7, BuysRun
<1>5. PICK n : n = Len(buys)
  OBVIOUS
<1>6. g \in [0 .. n -> P] /\ n \in 0 .. n /\ AfterBuys(acc, lim, buys) = g[n]
  BY <1>1, <1>4, <1>5 DEF BuySteps
<1> QED BY <1>2, <1>6

\* A sequence is one of its own members.
LEMMA OwnSeq == ASSUME NEW S, NEW s \in Seq(S) PROVE s \in Seq(ToSet(s)) /\ ToSet(s) \subseteq S
<1>1. DOMAIN s = 1 .. Len(s) /\ Len(s) \in Nat /\ s \in [1 .. Len(s) -> S]
  BY LenProperties
<1>2. s \in [1 .. Len(s) -> ToSet(s)] /\ ToSet(s) \subseteq S
  BY <1>1 DEF ToSet
<1> QED BY <1>1, <1>2, SeqDef

\* A sequence over a set is one over any larger set.
LEMMA SeqWidens == ASSUME NEW S, NEW T, S \subseteq T, NEW s \in Seq(S) PROVE s \in Seq(T)
<1>1. PICK n \in Nat : s \in [1 .. n -> S]
  BY SeqDef
<1>2. s \in [1 .. n -> T]
  BY <1>1
<1> QED BY <1>2, SeqDef

\* The orders of plan() are those of a plan within the limits.
LEMMA PlanIsOf ==
  ASSUME NEW sigs \in SUBSET SignalItems, NEW sells \in Seq(sigs), NEW buys \in Seq(sigs),
         NEW p0 \in PlanStates, NEW lim \in Limits
  PROVE  \E acc \in Plans(p0, lim, sigs) : Plan(p0, lim, sells, buys) = acc.orders
<1>1. PICK a : a = [ p |-> p0, orders |-> << >> ]
  OBVIOUS
<1>2. a \in Plans(p0, lim, sigs)
  <2>1. << >> \in Seq(OrdersOf(sigs))
    OBVIOUS
  <2>2. a \in [ p : PlanStates, orders : Seq(OrdersOf(sigs)) ] /\ a.p = p0 /\ a.orders = << >>
    BY <1>1, <2>1
  <2>3. p0.gspent \in Nat /\ \A s \in Strategies : p0.sspent[s] \in Nat
    BY StateParts
  <2> QED BY <2>2, <2>3, WeightEmpty DEF Plans
<1>3. PICK b : b = AfterSells(a, sells)
  OBVIOUS
<1>4. b \in Plans(p0, lim, sigs)
  BY <1>2, <1>3, SellsPlanned
<1>5. PICK c : c = AfterBuys(b, lim, buys)
  OBVIOUS
<1>6. c \in Plans(p0, lim, sigs)
  BY <1>4, <1>5, BuysPlanned
<1>7. Plan(p0, lim, sells, buys) = c.orders
  BY <1>1, <1>3, <1>5 DEF Plan
<1> QED BY <1>6, <1>7

-----------------------------------------------------------------------------
(* The inductive invariant. *)

\* The operator's keys are those of his commands, and no key is there twice.
KeysInv ==
  /\ \A i \in 1 .. Len(fills) :
       fills[i].key[1] = "manual" => fills[i].key[2] < used.commands
  /\ ExecuteOnce

\* What a process that is booking may still buy.
Due(x, strategies) == Bought(proc[x].todo, strategies)

\* While no command works on the account in another's way, at most one process
\* is booking, and what it has left to book is within the limits of the day.
Keeping(strategies, limit) ==
  /\ Spent(strategies) <= limit
  /\ \A x \in Procs : proc[x].pc = "booking" => Spent(strategies) + Due(x, strategies) <= limit

LimitsInv ==
  ~ overlapped =>
    /\ \A x, y \in Procs : proc[x].pc = "booking" /\ proc[y].pc = "booking" => x = y
    /\ Flat /\ EngineOnly =>
         /\ Keeping(Strategies, scenario.lim.globalDaily)
         /\ \A s \in Strategies : Keeping({s}, scenario.lim.strategyDaily[s])

Inv == TypeOK /\ KeysInv /\ BooksBalance /\ LimitsInv

-----------------------------------------------------------------------------
(* Fills. *)

AllFills == EngineFills \cup OperatorFills

Money           == [ f \in AllFills |-> Received(f) ]
Stock(b)        == [ f \in AllFills |-> Taken(f, b) ]
Entering(S)     == [ f \in AllFills |-> Entered(f, S) ]

\* The types of what the fields of a fill amount to.
LEMMA FillParts ==
  ASSUME NEW f \in AllFills
  PROVE  /\ f.strategy \in Strategies \cup {MANUAL} /\ f.symbol \in Symbols /\ f.side \in Sides
         /\ f.qty \in Nat \ {0} /\ f.price \in Nat \ {0} /\ Of(f) \in Buckets
         /\ Value(f) \in Nat /\ Cost(f) \in Nat /\ Proceeds(f) \in Int
<1>1. /\ f.strategy \in Strategies \cup {MANUAL} /\ f.symbol \in Symbols /\ f.side \in Sides
      /\ f.qty \in Nat \ {0} /\ f.price \in Nat \ {0}
  BY DEF AllFills, EngineFills, OperatorFills, FillItems
<1>2. Of(f) \in Buckets
  BY <1>1 DEF Of, Buckets
<1>3. Value(f) \in Nat
  <2>1. PICK q, p : q = f.qty /\ p = f.price
    OBVIOUS
  <2>2. q * p \in Nat
    BY <1>1, <2>1
  <2> QED BY <2>1, <2>2 DEF Value
<1>4. Fee(Value(f)) \in Nat /\ Tax(Value(f)) \in Nat
  BY <1>3, FeeType
<1> QED BY <1>1, <1>2, <1>3, <1>4 DEF Cost, Proceeds

\* What a fill brings in cash, in shares and in entries, as weights.
LEMMA FillWeights ==
  /\ Money \in [AllFills -> Int]
  /\ \A b : Stock(b) \in [AllFills -> Int]
  /\ \A S : Entering(S) \in [AllFills -> Nat] /\ Entering(S) \in [AllFills -> Int]
<1>1. ASSUME NEW f \in AllFills
      PROVE  /\ Received(f) \in Int /\ \A b : Taken(f, b) \in Int
             /\ \A S : Entered(f, S) \in Nat
  <2>1. f.qty \in Nat /\ Value(f) \in Nat /\ Cost(f) \in Nat /\ Proceeds(f) \in Int
    BY FillParts
  <2> QED BY <2>1 DEF Received, Taken, Entered
<1> QED BY <1>1 DEF Money, Stock, Entering

\* The sums of the model are weights of the fills.
LEMMA FillSums ==
  ASSUME NEW s \in Seq(AllFills)
  PROVE  /\ Tally([ i \in DOMAIN s |-> Received(s[i]) ]) = Weight(Money, s)
         /\ \A b : Tally([ i \in DOMAIN s |-> Taken(s[i], b) ]) = Weight(Stock(b), s)
         /\ \A S : Bought(s, S) = Weight(Entering(S), s)
<1>1. \A i \in DOMAIN s : s[i] \in AllFills
  BY LenProperties, ElementOfSeq
<1>2. [ i \in DOMAIN s |-> Received(s[i]) ] = Weights(Money, s)
  BY <1>1 DEF Weights, Money
<1>3. \A b : [ i \in DOMAIN s |-> Taken(s[i], b) ] = Weights(Stock(b), s)
  BY <1>1 DEF Weights, Stock
<1>4. \A S : [ i \in DOMAIN s |-> Entered(s[i], S) ] = Weights(Entering(S), s)
  BY <1>1 DEF Weights, Entering
<1> QED BY <1>2, <1>3, <1>4 DEF Weight, Bought

\* One more fill: what it adds to the sums the invariant is made of.
Adds(s, f, t) ==
  /\ t \in Seq(AllFills) /\ Len(t) = Len(s) + 1 /\ t[Len(t)] = f
  /\ \A i \in 1 .. Len(s) : t[i] = s[i]
  /\ Tally([ i \in DOMAIN t |-> Received(t[i]) ])
       = Tally([ i \in DOMAIN s |-> Received(s[i]) ]) + Received(f)
  /\ \A b : Tally([ i \in DOMAIN t |-> Taken(t[i], b) ])
              = Tally([ i \in DOMAIN s |-> Taken(s[i], b) ]) + Taken(f, b)
  /\ \A S : Bought(t, S) = Bought(s, S) + Entered(f, S)

\* What one more fill adds.
LEMMA OneMore ==
  ASSUME NEW s \in Seq(AllFills), NEW f \in AllFills, NEW t, t = Append(s, f)
  PROVE  Adds(s, f, t)
<1>1. /\ t \in Seq(AllFills) /\ Len(t) = Len(s) + 1 /\ t[Len(t)] = f
      /\ \A i \in 1 .. Len(s) : t[i] = s[i]
  BY AppendProperties
<1>2. Weight(Money, t) = Weight(Money, s) + Money[f]
  BY FillWeights, WeightAppend
<1>3. ASSUME NEW b PROVE Weight(Stock(b), t) = Weight(Stock(b), s) + Stock(b)[f]
  <2>1. Stock(b) \in [AllFills -> Int]
    BY FillWeights
  <2> QED BY <2>1, WeightAppend
<1>4. ASSUME NEW S PROVE Weight(Entering(S), t) = Weight(Entering(S), s) + Entering(S)[f]
  <2>1. Entering(S) \in [AllFills -> Int]
    BY FillWeights
  <2> QED BY <2>1, WeightAppend
<1>5. Money[f] = Received(f) /\ (\A b : Stock(b)[f] = Taken(f, b))
      /\ \A S : Entering(S)[f] = Entered(f, S)
  BY DEF Money, Stock, Entering
<1>6. Tally([ i \in DOMAIN t |-> Received(t[i]) ])
        = Tally([ i \in DOMAIN s |-> Received(s[i]) ]) + Received(f)
  BY <1>1, <1>2, <1>5, FillSums
<1>7. \A b : Tally([ i \in DOMAIN t |-> Taken(t[i], b) ])
               = Tally([ i \in DOMAIN s |-> Taken(s[i], b) ]) + Taken(f, b)
  BY <1>1, <1>3, <1>5, FillSums
<1>8. \A S : Bought(t, S) = Bought(s, S) + Entered(f, S)
  BY <1>1, <1>4, <1>5, FillSums
<1> QED BY <1>1, <1>6, <1>7, <1>8 DEF Adds

\* What is left of a list of fills.
Leaves(s, f, t) ==
  /\ f \in EngineFills /\ t \in Seq(EngineFills)
  /\ \A S : Bought(s, S) = Entered(f, S) + Bought(t, S) /\ Entered(f, S) \in Nat

\* What the next fill of a list leaves.
LEMMA OneLess ==
  ASSUME NEW s \in Seq(EngineFills), s # << >>, NEW f, f = Head(s), NEW t, t = Tail(s)
  PROVE  Leaves(s, f, t)
<1>1. f \in EngineFills /\ t \in Seq(EngineFills)
  BY HeadTailProperties
<1>2. s \in Seq(AllFills) /\ t \in Seq(AllFills) /\ f \in AllFills
  BY <1>1, SeqWidens DEF AllFills
<1>3. ASSUME NEW S PROVE Bought(s, S) = Entered(f, S) + Bought(t, S) /\ Entered(f, S) \in Nat
  <2>1. Entering(S) \in [AllFills -> Int] /\ Entering(S)[f] = Entered(f, S) /\ Entered(f, S) \in Nat
    <3>1. Entering(S) \in [AllFills -> Nat] /\ Entering(S) \in [AllFills -> Int]
      BY FillWeights
    <3>2. Entering(S)[f] = Entered(f, S)
      BY <1>2 DEF Entering
    <3> QED BY <1>2, <3>1, <3>2
  <2>2. Weight(Entering(S), s) = Entering(S)[f] + Weight(Entering(S), t)
    BY <1>2, <2>1, WeightTail
  <2> QED BY <1>2, <2>1, <2>2, FillSums
<1> QED BY <1>1, <1>3 DEF Leaves

-----------------------------------------------------------------------------
(* What a plan leaves to book. *)

\* A sequence of natural weights weighs a natural number.
LEMMA WeightNat ==
  ASSUME NEW S, NEW w \in [S -> Nat], NEW s \in Seq(S)
  PROVE  Weight(w, s) \in Nat
<1>1. PICK n, a : n = Len(s) /\ a = Weights(w, s)
  OBVIOUS
<1>2. n \in Nat /\ DOMAIN s = 1 .. n /\ \A i \in 1 .. n : w[s[i]] \in Nat
  BY <1>1, LenProperties, ElementOfSeq
<1>3. w \in [S -> Int]
  OBVIOUS
<1>4. a \in Seq(Int) /\ Len(a) = n /\ \A i \in 1 .. n : a[i] \in Nat
  BY <1>1, <1>2, <1>3, WeightsType DEF Weights
<1>5. PICK g : Sums(g, a) /\ Tally(a) = g[n]
  BY <1>4, TallyIs
<1>6. g[0] = 0 /\ \A i \in 1 .. n : g[i] = g[i - 1] + a[i]
  BY <1>4, <1>5 DEF Sums
<1> DEFINE T == { i \in 0 .. n : g[i] \in Nat }
<1>7. 0 \in T /\ \A i \in 1 .. n : i - 1 \in T => i \in T
  BY <1>2, <1>4, <1>6
<1>8. 0 .. n \subseteq T
  <2> HIDE DEF T
  <2> QED BY <1>2, <1>7, Upwards
<1> QED BY <1>1, <1>2, <1>5, <1>8 DEF Weight

\* What fills have entered is a natural number.
LEMMA BoughtNat == ASSUME NEW s \in Seq(AllFills) PROVE \A S : Bought(s, S) \in Nat
<1>1. ASSUME NEW S PROVE Weight(Entering(S), s) \in Nat
  <2>1. Entering(S) \in [AllFills -> Nat]
    BY FillWeights
  <2> QED BY <2>1, WeightNat
<1> QED BY <1>1, FillSums

\* The fills that are booked and those that are left are fills.
LEMMA FillsAre == TypeOK => fills \in Seq(AllFills) /\ \A x \in Procs : proc[x].todo \in Seq(AllFills)
<1> SUFFICES ASSUME TypeOK PROVE fills \in Seq(AllFills) /\ \A x \in Procs : proc[x].todo \in Seq(AllFills)
  OBVIOUS
<1>1. fills \in Seq(AllFills) /\ \A x \in Procs : proc[x].todo \in Seq(EngineFills)
  BY DEF TypeOK, AllFills, Executors
<1>2. EngineFills \subseteq AllFills
  BY DEF AllFills
<1> QED BY <1>1, <1>2, SeqWidens

\* The parts of the day that a plan is made from.
LEMMA DayIs ==
  ASSUME TypeOK
  PROVE  /\ scenario.lim \in Limits
         /\ scenario.price \in [Symbols -> Nat \ {0}]
         /\ Signals \subseteq SignalItems
         /\ scenario.sells \in Seq(Signals) /\ scenario.buys \in Seq(Signals)
<1>1. IsScenario(scenario)
  BY ScenariosAssumption DEF TypeOK
<1>2. scenario.sells \in Seq(SignalItems) /\ scenario.buys \in Seq(SignalItems)
  BY <1>1 DEF IsScenario
<1>3. PICK u, v : u = scenario.sells /\ v = scenario.buys
  OBVIOUS
<1>4. /\ u \in Seq(ToSet(u)) /\ ToSet(u) \subseteq SignalItems
      /\ v \in Seq(ToSet(v)) /\ ToSet(v) \subseteq SignalItems
  BY <1>2, <1>3, OwnSeq
<1>5. ToSet(u) \subseteq Signals /\ ToSet(v) \subseteq Signals /\ Signals \subseteq SignalItems
  BY <1>3, <1>4 DEF Signals
<1>6. u \in Seq(Signals) /\ v \in Seq(Signals)
  BY <1>4, <1>5, SeqWidens
<1> QED BY <1>1, <1>3, <1>5, <1>6 DEF IsScenario

\* A plan made on the books of the day keeps to its limits.
LEMMA PlannedIs ==
  ASSUME TypeOK, NEW x \in Procs, NEW sells, sells = Exits, NEW buys, buys = Entries(x),
         NEW orders, orders = Planned(x, sells, buys)
  PROVE  \E acc \in Plans(SpentBefore, Approved(x), Signals) : orders = acc.orders
<1>1. sells \in Seq(Signals)
  BY DayIs, OnlyType DEF Exits
<1>2. buys \in Seq(Signals)
  BY DayIs, OnlyType DEF Entries
<1>3. SpentBefore \in PlanStates
  <2>1. Ordinary \in [Strategies \X Symbols -> Nat]
    <3>1. \A b \in Strategies \X Symbols : b \in Buckets
      BY DEF Buckets
    <3> QED BY <3>1 DEF Ordinary, TypeOK
  <2>2. \A S : Spent(S) \in Nat
    BY FillsAre, BoughtNat DEF Spent
  <2>3. cash \in Int
    BY DEF TypeOK
  <2> QED BY <2>1, <2>2, <2>3 DEF SpentBefore, PlanState, PlanStates
<1>4. Approved(x) \in Limits
  <2>1. proc[x].manifests \in SUBSET Strategies
    BY DEF TypeOK, Executors
  <2> QED BY <2>1, DayIs DEF Approved, Limits
<1>5. Signals \in SUBSET SignalItems
  BY DayIs
<1> QED BY <1>1, <1>2, <1>3, <1>4, <1>5, PlanIsOf DEF Planned

\* A fill of an order is one of the engine, and at flat prices enters as much.
LEMMA FilledIs ==
  ASSUME TypeOK, NEW o \in OrdersOf(Signals)
  PROVE  /\ Filled(o) \in EngineFills
         /\ Flat => \A S : Entered(Filled(o), S) = Entered(o, S)
<1>1. o \in OrderItems /\ \E sig \in Signals : o.symbol = sig.symbol /\ o.price = sig.price
  BY DEF OrdersOf
<1>2. /\ o.id \in STRING /\ o.strategy \in Strategies /\ o.symbol \in Symbols /\ o.side \in Sides
      /\ o.qty \in Nat \ {0} /\ o.odd \in BOOLEAN
  BY <1>1 DEF OrderItems
<1>3. scenario.price[o.symbol] \in Nat \ {0}
  BY <1>2, DayIs
<1>4. << "order", o.id, o.odd >> \in {"order"} \X STRING \X BOOLEAN
  BY <1>2
<1>5. Filled(o) \in EngineFills
  BY <1>2, <1>3, <1>4 DEF Filled, EngineFills, FillItems
<1>6. ASSUME Flat, NEW S PROVE Entered(Filled(o), S) = Entered(o, S)
  <2>1. scenario.price[o.symbol] = o.price
    BY <1>1, <1>6 DEF Flat
  <2> QED BY <2>1 DEF Filled, Entered, Value
<1> QED BY <1>5, <1>6

\* What is executed of a list of orders enters no more than they do.
LEMMA ExecutedIs ==
  ASSUME TypeOK, NEW orders \in Seq(OrdersOf(Signals))
  PROVE  /\ Executed(orders) \in Seq(EngineFills)
         /\ Flat => \A S : Bought(Executed(orders), S) <= Weight(Buys(S), orders)
<1> DEFINE X == { o \in ToSet(orders) : o.side \notin scenario.unfilled[o.symbol] }
<1>1. PICK t : t = Only(orders, X)
  OBVIOUS
<1>2. t \in Seq(OrdersOf(Signals))
  BY <1>1, OnlyType
<1>3. PICK n : n = Len(t)
  OBVIOUS
<1>4. n \in Nat /\ DOMAIN t = 1 .. n /\ \A i \in 1 .. n : t[i] \in OrdersOf(Signals)
  BY <1>2, <1>3, LenProperties, ElementOfSeq
<1>5. PICK e : e = Executed(orders)
  OBVIOUS
<1>6. e = [ i \in 1 .. n |-> Filled(t[i]) ]
  BY <1>1, <1>4, <1>5 DEF Executed
<1>7. \A i \in 1 .. n : Filled(t[i]) \in EngineFills
  BY <1>4, FilledIs
<1>8. e \in [1 .. n -> EngineFills]
  BY <1>6, <1>7
<1>9. e \in Seq(EngineFills)
  BY <1>4, <1>8, SeqDef
<1>10. ASSUME Flat, NEW S PROVE Bought(e, S) <= Weight(Buys(S), orders)
  <2>1. Buys(S) \in [OrderItems -> Nat]
    BY BuysType
  <2>2. orders \in Seq(OrderItems)
    BY OrdersAre
  <2>3. Weight(Buys(S), t) <= Weight(Buys(S), orders)
    BY <1>1, <2>1, <2>2, OnlyWeighsLess
  <2>4. ASSUME NEW i \in 1 .. n PROVE Entered(e[i], S) = Buys(S)[t[i]]
    <3>1. t[i] \in OrdersOf(Signals) /\ t[i] \in OrderItems
      BY <1>4, OrdersAre
    <3>2. Entered(Filled(t[i]), S) = Entered(t[i], S)
      BY <1>10, <3>1, FilledIs
    <3>3. Buys(S)[t[i]] = Entered(t[i], S)
      BY <3>1 DEF Buys
    <3> QED BY <1>6, <3>2, <3>3
  <2>5. [ i \in DOMAIN e |-> Entered(e[i], S) ] = Weights(Buys(S), t)
    BY <1>4, <1>6, <2>4 DEF Weights
  <2> QED BY <2>3, <2>5 DEF Bought, Weight
<1> QED BY <1>5, <1>9, <1>10

\* While only the engine books, it is the strategies of the registry that spend.
LEMMA EngineSpends == TypeOK /\ EngineOnly => Spent(Strategies \cup {MANUAL}) = Spent(Strategies)
<1> SUFFICES ASSUME TypeOK, EngineOnly
             PROVE  Spent(Strategies \cup {MANUAL}) = Spent(Strategies)
  OBVIOUS
<1>1. ASSUME NEW i \in DOMAIN fills
      PROVE  Entered(fills[i], Strategies \cup {MANUAL}) = Entered(fills[i], Strategies)
  <2>1. fills[i] \in AllFills
    BY FillsAre, LenProperties, ElementOfSeq
  <2>2. fills[i] \in ToSet(fills)
    BY DEF ToSet
  <2>3. fills[i].key[1] # "manual"
    BY <2>2 DEF EngineOnly, Engine
  <2>4. fills[i] \notin OperatorFills
    BY <2>3 DEF OperatorFills, FillItems
  <2>5. fills[i].strategy \in Strategies
    BY <2>1, <2>4 DEF AllFills, EngineFills, FillItems
  <2> QED BY <2>5 DEF Entered
<1> QED BY <1>1 DEF Spent, Bought

-----------------------------------------------------------------------------
(* The steps, and what they do to the parts of the invariant. *)

\* Nothing is booked, and no process has more to book than it had.
Quiet ==
  /\ proc' \in [Procs -> Executors]
  /\ \A y \in Procs : proc'[y].pc = "booking" =>
       proc[y].pc = "booking" /\ \A S : Bought(proc'[y].todo, S) <= Bought(proc[y].todo, S)

\* The next fill of a process that is booking.
LEMMA NextFill ==
  ASSUME TypeOK, NEW x \in Procs, Ready(x), NEW f, f = Next1(x)
  PROVE  /\ Leaves(proc[x].todo, f, Tail(proc[x].todo))
         /\ f \in EngineFills /\ f \in AllFills /\ Tail(proc[x].todo) \in Seq(EngineFills)
<1>1. proc[x].todo \in Seq(EngineFills) /\ proc[x].todo # << >>
  BY DEF TypeOK, Executors, Ready
<1>2. Leaves(proc[x].todo, f, Tail(proc[x].todo))
  BY <1>1, OneLess DEF Next1
<1> QED BY <1>2 DEF Leaves, AllFills

\* What a process is after it stops or takes its next fill.
LEMMA Procedures ==
  ASSUME TypeOK, NEW x \in Procs
  PROVE  /\ [ proc EXCEPT ![x] = idle ] \in [Procs -> Executors]
         /\ Ready(x) =>
              /\ Done1(x) \in [Procs -> Executors]
              /\ Done1(x)[x].todo = Tail(proc[x].todo) /\ Done1(x)[x].pc = "booking"
         /\ \A y \in Procs \ {x} : [ proc EXCEPT ![x] = idle ][y] = proc[y]
                                   /\ Done1(x)[y] = proc[y]
<1>1. proc \in [Procs -> Executors]
  BY DEF TypeOK
<1>2. idle \in Executors
  <2>1. << >> \in Seq(EngineFills)
    OBVIOUS
  <2> QED BY <2>1 DEF idle, Executors
<1>3. ASSUME Ready(x)
      PROVE  /\ Done1(x) \in [Procs -> Executors]
             /\ Done1(x)[x].todo = Tail(proc[x].todo) /\ Done1(x)[x].pc = "booking"
  <2>1. Tail(proc[x].todo) \in Seq(EngineFills)
    BY <1>3, NextFill
  <2> QED BY <1>1, <1>3, <2>1 DEF Done1, Executors, Ready
<1>4. \A y \in Procs \ {x} : [ proc EXCEPT ![x] = idle ][y] = proc[y] /\ Done1(x)[y] = proc[y]
  BY <1>1 DEF Done1
<1> QED BY <1>1, <1>2, <1>3, <1>4

\* The steps of a process that book nothing.
LEMMA QuietSteps ==
  ASSUME TypeOK, NEW x \in Procs,
         \/ Start(x) \/ BookDuplicate(x) \/ SkipBuy(x) \/ SkipSell(x)
         \/ FailSell(x) \/ Finish(x) \/ Crash(x)
  PROVE  Quiet
<1>1. proc \in [Procs -> Executors]
  BY DEF TypeOK
<1>2. CASE Start(x)
  <2>1. PICK p : p = [ proc[x] EXCEPT !.pc = "loaded",
                        !.manifests = { s \in Strategies : manifest[s] = scenario.approval[s] } ]
    OBVIOUS
  <2>2. p \in Executors /\ p.pc = "loaded"
    BY <1>1, <2>1 DEF Executors
  <2>3. proc' = [ proc EXCEPT ![x] = p ]
    BY <1>1, <1>2, <2>1 DEF Start
  <2>4. proc' \in [Procs -> Executors] /\ proc'[x].pc = "loaded"
        /\ \A y \in Procs \ {x} : proc'[y] = proc[y]
    BY <1>1, <2>2, <2>3
  <2>5. \A y \in Procs : proc[y].todo \in Seq(AllFills)
    BY FillsAre
  <2>6. \A y \in Procs : \A S : Bought(proc[y].todo, S) <= Bought(proc[y].todo, S)
    <3>1. \A y \in Procs : \A S : Bought(proc[y].todo, S) \in Nat
      BY <2>5, BoughtNat
    <3> QED BY <3>1
  <2> QED BY <2>4, <2>6 DEF Quiet
<1>3. \A y \in Procs : \A S : Bought(proc[y].todo, S) <= Bought(proc[y].todo, S)
  <2>1. \A y \in Procs : \A S : Bought(proc[y].todo, S) \in Nat
    BY FillsAre, BoughtNat
  <2> QED BY <2>1
<1>4. CASE proc' = [ proc EXCEPT ![x] = idle ]
  <2>1. proc'[x].pc = "idle"
    BY <1>1, <1>4 DEF idle
  <2> QED BY <1>3, <1>4, <2>1, Procedures DEF Quiet
<1>5. CASE Ready(x) /\ proc' = Done1(x)
  <2>1. PICK f : f = Next1(x)
    OBVIOUS
  <2>2. Leaves(proc[x].todo, f, Tail(proc[x].todo)) /\ Tail(proc[x].todo) \in Seq(EngineFills)
    BY <1>5, <2>1, NextFill
  <2>3. ASSUME NEW S PROVE Bought(Tail(proc[x].todo), S) <= Bought(proc[x].todo, S)
    <3>1. Bought(proc[x].todo, S) = Entered(f, S) + Bought(Tail(proc[x].todo), S)
          /\ Entered(f, S) \in Nat
      BY <2>2 DEF Leaves
    <3>2. Tail(proc[x].todo) \in Seq(AllFills)
      BY <2>2, SeqWidens DEF AllFills
    <3>3. Bought(Tail(proc[x].todo), S) \in Nat
      BY <3>2, BoughtNat
    <3> QED BY <3>1, <3>3
  <2>4. proc[x].pc = "booking"
    BY <1>5 DEF Ready
  <2> QED BY <1>3, <1>5, <2>3, <2>4, Procedures DEF Quiet
<1> QED BY <1>2, <1>4, <1>5
        DEF BookDuplicate, SkipBuy, SkipSell, FailSell, Finish, Crash, New

\* A fill of the engine is booked and leaves the list of its process.
Books(x, f) ==
  /\ Leaves(proc[x].todo, f, Tail(proc[x].todo)) /\ Tail(proc[x].todo) \in Seq(AllFills)
  /\ f \in EngineFills /\ f \in AllFills
  /\ f.key \notin Keys(fills)
  /\ Adds(fills, f, fills')
  /\ proc' \in [Procs -> Executors]
  /\ proc'[x].todo = Tail(proc[x].todo) /\ proc[x].pc = "booking"
  /\ \A y \in Procs \ {x} : proc'[y] = proc[y]
  /\ cash' = cash + Received(f)
  /\ pos' \in [Buckets -> Nat]
  /\ \A b \in Buckets : pos'[b] = pos[b] + Taken(f, b)
  /\ f.side = "BUY" => cash' >= 0

\* The steps of a process that book a fill.
LEMMA BookingSteps ==
  ASSUME TypeOK, NEW x \in Procs, BookBuy(x) \/ BookSell(x)
  PROVE  Books(x, Next1(x))
<1>1. PICK f : f = Next1(x)
  OBVIOUS
<1>2. Ready(x) /\ f.key \notin Keys(fills) /\ fills' = Append(fills, f) /\ proc' = Done1(x)
  BY <1>1 DEF BookBuy, BookSell, New
<1>3. /\ Leaves(proc[x].todo, f, Tail(proc[x].todo))
      /\ f \in EngineFills /\ f \in AllFills /\ Tail(proc[x].todo) \in Seq(EngineFills)
  BY <1>1, <1>2, NextFill
<1>4. Tail(proc[x].todo) \in Seq(AllFills)
  BY <1>3, SeqWidens DEF AllFills
<1>5. Adds(fills, f, fills')
  BY <1>2, <1>3, FillsAre, OneMore
<1>6. /\ proc' \in [Procs -> Executors] /\ proc'[x].todo = Tail(proc[x].todo)
      /\ proc[x].pc = "booking" /\ \A y \in Procs \ {x} : proc'[y] = proc[y]
  BY <1>2, Procedures DEF Ready
<1>7. /\ Of(f) \in Buckets /\ f.qty \in Nat \ {0} /\ Cost(f) \in Nat /\ Proceeds(f) \in Int
      /\ cash \in Int /\ pos \in [Buckets -> Nat]
  BY <1>3, FillParts DEF TypeOK
<1>8. CASE BookBuy(x)
  <2>1. /\ f.side = "BUY" /\ Cost(f) <= cash
        /\ pos' = [ pos EXCEPT ![Of(f)] = @ + f.qty ] /\ cash' = cash - Cost(f)
    BY <1>1, <1>8 DEF BookBuy, Enough, Paid
  <2>2. cash' = cash + Received(f) /\ cash' >= 0
    BY <1>7, <2>1 DEF Received
  <2>3. pos' \in [Buckets -> Nat] /\ \A b \in Buckets : pos'[b] = pos[b] + Taken(f, b)
    BY <1>7, <2>1 DEF Taken
  <2> QED BY <1>1, <1>2, <1>3, <1>4, <1>5, <1>6, <2>2, <2>3 DEF Books
<1>9. CASE BookSell(x)
  <2>1. /\ f.side = "SELL" /\ pos[Of(f)] >= f.qty
        /\ pos' = [ pos EXCEPT ![Of(f)] = @ - f.qty ] /\ cash' = cash + Proceeds(f)
    BY <1>1, <1>9 DEF BookSell, Shares
  <2>2. cash' = cash + Received(f)
    BY <2>1 DEF Received
  <2>3. pos' \in [Buckets -> Nat] /\ \A b \in Buckets : pos'[b] = pos[b] + Taken(f, b)
    BY <1>7, <2>1 DEF Taken
  <2>4. f.side # "BUY"
    BY <2>1
  <2> QED BY <1>1, <1>2, <1>3, <1>4, <1>5, <1>6, <2>2, <2>3, <2>4 DEF Books
<1> QED BY <1>8, <1>9

\* A fill of the operator is booked.
Records(f) ==
  /\ f \in OperatorFills /\ f \in AllFills
  /\ f.key = << "manual", used.commands >>
  /\ Adds(fills, f, fills')
  /\ cash' = cash + Received(f)
  /\ pos' \in [Buckets -> Nat]
  /\ \A b \in Buckets : pos'[b] = pos[b] + Taken(f, b)

\* The step of the operator that books a fill.
LEMMA RecordingStep ==
  ASSUME TypeOK, NEW m \in ManualFills, RecordFill(m)
  PROVE  \E f : Records(f)
<1>1. PICK f : f = [ key |-> << "manual", used.commands >>, strategy |-> m.strategy,
                     symbol |-> m.symbol, side |-> m.side, qty |-> m.qty, price |-> m.price ]
  OBVIOUS
<1>2. /\ f.strategy = m.strategy /\ f.symbol = m.symbol /\ f.side = m.side /\ f.qty = m.qty
      /\ f.price = m.price /\ f.key = << "manual", used.commands >>
  BY <1>1
<1>3. f \in OperatorFills /\ f \in AllFills
  <2>1. used.commands \in Nat
    BY BoundsAssumption DEF TypeOK
  <2>2. << "manual", used.commands >> \in {"manual"} \X Nat
    BY <2>1
  <2>3. IsManualFill(m)
    BY ManualAssumption
  <2> QED BY <1>1, <2>2, <2>3 DEF IsManualFill, OperatorFills, FillItems, AllFills
<1>4. /\ Of(f) \in Buckets /\ f.qty \in Nat \ {0} /\ Cost(f) \in Nat /\ Proceeds(f) \in Int
      /\ cash \in Int /\ pos \in [Buckets -> Nat] /\ f.side \in {"BUY", "SELL"}
  BY <1>3, FillParts DEF TypeOK, Sides
<1>5. Of(m) = Of(f) /\ Cost(m) = Cost(f) /\ Proceeds(m) = Proceeds(f)
  BY <1>2 DEF Of, Cost, Proceeds, Value
<1>6. /\ fills' = Append(fills, f)
      /\ f.side = "SELL" => pos[Of(f)] >= f.qty
      /\ pos' = [ pos EXCEPT ![Of(f)] = IF f.side = "BUY" THEN @ + f.qty ELSE @ - f.qty ]
      /\ cash' = IF f.side = "BUY" THEN cash - Cost(f) ELSE cash + Proceeds(f)
  BY <1>1, <1>2, <1>5 DEF RecordFill, Shares, Paid
<1>7. Adds(fills, f, fills')
  BY <1>3, <1>6, FillsAre, OneMore
<1>8. cash' = cash + Received(f)
  BY <1>4, <1>6 DEF Received
<1>9. pos' \in [Buckets -> Nat] /\ \A b \in Buckets : pos'[b] = pos[b] + Taken(f, b)
  BY <1>4, <1>6 DEF Taken
<1> QED BY <1>2, <1>3, <1>7, <1>8, <1>9 DEF Records

-----------------------------------------------------------------------------
(* The initial states and the types. *)

\* Initially nothing is booked and no process runs.
LEMMA InitInv == Init => Inv
<1> SUFFICES ASSUME Init PROVE Inv
  OBVIOUS
<1>1. IsScenario(scenario)
  BY ScenariosAssumption DEF Init
<1>2. fills = << >> /\ Len(fills) = 0 /\ DOMAIN fills = {} /\ ToSet(fills) = {}
  BY DEF Init, ToSet
<1>3. TypeOK
  <2>1. << >> \in Seq(EngineFills) /\ << >> \in Seq(EngineFills \cup OperatorFills)
    OBVIOUS
  <2>2. proc \in [Procs -> Executors]
    BY <2>1 DEF Init, idle, Executors
  <2>3. used \in [ crashes : 0 .. MaxCrashes, commands : 0 .. MaxCommands, pending : 0 .. MaxPending ]
    BY BoundsAssumption DEF Init
  <2>4. pos \in [Buckets -> Nat] /\ lt \in [Buckets -> Nat] /\ cash \in Int /\ bars \subseteq Symbols
    BY <1>1 DEF Init, IsScenario
  <2> QED BY <2>1, <2>2, <2>3, <2>4 DEF Init, TypeOK
<1>4. KeysInv
  BY <1>2 DEF KeysInv, ExecuteOnce
<1>5. BooksBalance
  <2>1. [ i \in DOMAIN fills |-> Received(fills[i]) ] = << >>
        /\ \A b : [ i \in DOMAIN fills |-> Taken(fills[i], b) ] = << >>
    BY <1>2
  <2>2. cash \in Int /\ scenario.cash = cash /\ \A b \in Buckets : pos[b] \in Nat
        /\ lt[b] = 0 /\ scenario.pos[b] = pos[b]
    BY <1>3 DEF Init, TypeOK
  <2> QED BY <2>1, <2>2, TallyEmpty DEF BooksBalance
<1>6. LimitsInv
  <2>1. \A x \in Procs : proc[x].pc # "booking"
    BY DEF Init, idle
  <2>2. \A S : Spent(S) = 0
    <3>1. \A S : [ i \in DOMAIN fills |-> Entered(fills[i], S) ] = << >>
      BY <1>2
    <3> QED BY <3>1, TallyEmpty DEF Spent, Bought
  <2>3. scenario.lim.globalDaily \in Nat /\ \A s \in Strategies : scenario.lim.strategyDaily[s] \in Nat
    BY <1>1 DEF IsScenario, Limits
  <2> QED BY <2>1, <2>2, <2>3 DEF LimitsInv, Keeping
<1> QED BY <1>3, <1>4, <1>5, <1>6 DEF Inv

\* What planning leaves to book is of a plan within the limits.
LEMMA PlanStep ==
  ASSUME TypeOK, NEW x \in Procs, PlanBundles(x)
  PROVE  /\ proc' \in [Procs -> Executors]
         /\ \A y \in Procs \ {x} : proc'[y] = proc[y]
         /\ proc'[x].pc = "booking" =>
              /\ overlapped' = (overlapped \/ Booking)
              /\ \E acc \in Plans(SpentBefore, Approved(x), Signals) :
                   Flat => \A S : Bought(proc'[x].todo, S) <= Weight(Buys(S), acc.orders)
         /\ proc'[x].pc # "booking" => overlapped' = overlapped
         /\ run' \in {run, "WAITING"}
<1>1. PICK sells, buys, orders :
        /\ sells = Exits /\ buys = Entries(x) /\ orders = Planned(x, sells, buys)
        /\ \/ /\ proc' = [ proc EXCEPT ![x].pc = "booking", ![x].todo = Executed(orders) ]
              /\ overlapped' = (overlapped \/ Booking)
              /\ UNCHANGED run
           \/ /\ proc' = [ proc EXCEPT ![x] = idle ]
              /\ run' = IF x = "daily" THEN "WAITING" ELSE run
              /\ UNCHANGED overlapped
  BY DEF PlanBundles
<1>2. PICK acc \in Plans(SpentBefore, Approved(x), Signals) : orders = acc.orders
  BY <1>1, PlannedIs
<1>3. orders \in Seq(OrdersOf(Signals))
  BY <1>2 DEF Plans
<1>4. PICK e : e = Executed(orders)
  OBVIOUS
<1>5. e \in Seq(EngineFills) /\ (Flat => \A S : Bought(e, S) <= Weight(Buys(S), orders))
  BY <1>3, <1>4, ExecutedIs
<1>6. proc \in [Procs -> Executors]
  BY DEF TypeOK
<1>7. CASE /\ proc' = [ proc EXCEPT ![x].pc = "booking", ![x].todo = e ]
           /\ overlapped' = (overlapped \/ Booking)
           /\ UNCHANGED run
  <2>1. PICK p : p = [ proc[x] EXCEPT !.pc = "booking", !.todo = e ]
    OBVIOUS
  <2>2. p \in Executors /\ p.pc = "booking" /\ p.todo = e
    BY <1>5, <1>6, <2>1 DEF Executors
  <2>3. proc' = [ proc EXCEPT ![x] = p ]
    BY <1>6, <1>7, <2>1
  <2>4. proc' \in [Procs -> Executors] /\ proc'[x] = p /\ \A y \in Procs \ {x} : proc'[y] = proc[y]
    BY <1>6, <2>2, <2>3
  <2> QED BY <1>2, <1>5, <1>7, <2>2, <2>4
<1>8. CASE /\ proc' = [ proc EXCEPT ![x] = idle ]
           /\ run' = IF x = "daily" THEN "WAITING" ELSE run
           /\ UNCHANGED overlapped
  <2>1. proc'[x].pc = "idle"
    BY <1>6, <1>8 DEF idle
  <2> QED BY <1>8, <2>1, Procedures
<1> QED BY <1>1, <1>4, <1>7, <1>8

\* Every step keeps the types.
LEMMA TypeStep == TypeOK /\ [Next]_vars => TypeOK'
<1> SUFFICES ASSUME TypeOK, [Next]_vars PROVE TypeOK'
  OBVIOUS
<1>1. /\ scenario \in Scenarios
      /\ pos \in [Buckets -> Nat] /\ lt \in [Buckets -> Nat]
      /\ cash \in Int
      /\ fills \in Seq(EngineFills \cup OperatorFills)
      /\ run \in {"PENDING", "WAITING", "FAILED", "COMPLETED"}
      /\ rejected \subseteq { sig.id : sig \in Signals }
      /\ bars \subseteq Symbols
      /\ proc \in [Procs -> Executors]
      /\ used \in [ crashes : 0 .. MaxCrashes, commands : 0 .. MaxCommands, pending : 0 .. MaxPending ]
      /\ overlapped \in BOOLEAN
  BY DEF TypeOK
<1>2. MaxCrashes \in Nat /\ MaxCommands \in Nat /\ MaxPending \in Nat
  BY BoundsAssumption
<1>3. CASE UNCHANGED vars
  BY <1>1, <1>3 DEF vars, books, TypeOK, Signals
<1>4. ASSUME NEW x \in Procs, Start(x) PROVE TypeOK'
  <2>1. proc' \in [Procs -> Executors]
    BY <1>4, QuietSteps DEF Quiet
  <2>2. used' \in [ crashes : 0 .. MaxCrashes, commands : 0 .. MaxCommands, pending : 0 .. MaxPending ]
    <3>1. used.pending + (IF x = "pending" THEN 1 ELSE 0) \in 0 .. MaxPending
      BY <1>1, <1>2, <1>4 DEF Start, MayStart
    <3> QED BY <1>1, <1>4, <3>1 DEF Start
  <2> QED BY <1>1, <1>4, <2>1, <2>2 DEF Start, books, TypeOK, Signals
<1>5. ASSUME NEW x \in Procs, PlanBundles(x) PROVE TypeOK'
  <2>1. proc' \in [Procs -> Executors] /\ run' \in {run, "WAITING"}
    BY <1>5, PlanStep
  <2>2. overlapped' \in BOOLEAN
    BY <1>1, <1>5 DEF PlanBundles
  <2> QED BY <1>1, <1>5, <2>1, <2>2 DEF PlanBundles, books, TypeOK, Signals
<1>6. ASSUME NEW x \in Procs, BookDuplicate(x) \/ SkipBuy(x) \/ SkipSell(x) \/ FailSell(x) \/ Finish(x)
      PROVE  TypeOK'
  <2>1. proc' \in [Procs -> Executors]
    BY <1>6, QuietSteps DEF Quiet
  <2>2. run' \in {"PENDING", "WAITING", "FAILED", "COMPLETED"}
    BY <1>1, <1>6 DEF BookDuplicate, SkipBuy, SkipSell, FailSell, Finish
  <2>3. UNCHANGED << scenario, books, rejected, bars, used, overlapped >>
    BY <1>6 DEF BookDuplicate, SkipBuy, SkipSell, FailSell, Finish
  <2> QED BY <1>1, <2>1, <2>2, <2>3 DEF books, TypeOK, Signals
<1>7. ASSUME NEW x \in Procs, BookBuy(x) \/ BookSell(x) PROVE TypeOK'
  <2>1. Books(x, Next1(x))
    BY <1>7, BookingSteps
  <2>2. /\ proc' \in [Procs -> Executors] /\ pos' \in [Buckets -> Nat]
        /\ fills' \in Seq(EngineFills \cup OperatorFills)
    BY <2>1 DEF Books, Adds, AllFills
  <2>3. cash' \in Int
    <3>1. Received(Next1(x)) \in Int
      <4>1. Cost(Next1(x)) \in Nat /\ Proceeds(Next1(x)) \in Int
        BY <2>1, FillParts DEF Books
      <4> QED BY <4>1 DEF Received
    <3> QED BY <1>1, <2>1, <3>1 DEF Books
  <2>4. UNCHANGED << scenario, lt, run, rejected, bars, used, overlapped >>
    BY <1>7 DEF BookBuy, BookSell
  <2> QED BY <1>1, <2>2, <2>3, <2>4 DEF TypeOK, Signals
<1>8. ASSUME NEW x \in Procs, Crash(x) PROVE TypeOK'
  <2>1. proc' \in [Procs -> Executors]
    BY <1>8, QuietSteps DEF Quiet
  <2>2. used' \in [ crashes : 0 .. MaxCrashes, commands : 0 .. MaxCommands, pending : 0 .. MaxPending ]
    <3>1. used.crashes + 1 \in 0 .. MaxCrashes
      BY <1>1, <1>2, <1>8 DEF Crash
    <3> QED BY <1>1, <1>8, <3>1 DEF Crash
  <2> QED BY <1>1, <1>8, <2>1, <2>2 DEF Crash, books, TypeOK, Signals
<1>9. ASSUME Command
      PROVE  /\ used' \in [ crashes : 0 .. MaxCrashes, commands : 0 .. MaxCommands,
                            pending : 0 .. MaxPending ]
             /\ overlapped' \in BOOLEAN
  <2>1. used.commands + 1 \in 0 .. MaxCommands
    BY <1>1, <1>2, <1>9 DEF Command
  <2> QED BY <1>1, <1>9, <2>1 DEF Command
<1>10. ASSUME NEW sig \in Signals, RejectSignal(sig) \/ UnRejectSignal(sig) PROVE TypeOK'
  <2>1. Command /\ UNCHANGED << scenario, books, run, bars, proc >>
    BY <1>10 DEF RejectSignal, UnRejectSignal
  <2>2. rejected' \subseteq { s.id : s \in Signals }
    BY <1>1, <1>10 DEF RejectSignal, UnRejectSignal
  <2> QED BY <1>1, <1>9, <2>1, <2>2 DEF books, TypeOK, Signals
<1>11. ASSUME NEW s \in Strategies, ChangeApproval(s) PROVE TypeOK'
  BY <1>1, <1>9, <1>11 DEF ChangeApproval, books, TypeOK, Signals
<1>12. ASSUME NEW b \in Buckets, SetLongTerm(b) PROVE TypeOK'
  <2>1. pos' \in [Buckets -> Nat] /\ lt' \in [Buckets -> Nat]
    BY <1>1, <1>12 DEF SetLongTerm
  <2> QED BY <1>1, <1>9, <1>12, <2>1 DEF SetLongTerm, TypeOK, Signals
<1>13. ASSUME NEW m \in ManualFills, RecordFill(m) PROVE TypeOK'
  <2>1. PICK f : Records(f)
    BY <1>13, RecordingStep
  <2>2. pos' \in [Buckets -> Nat] /\ fills' \in Seq(EngineFills \cup OperatorFills)
    BY <2>1 DEF Records, Adds, AllFills
  <2>3. cash' \in Int
    <3>1. Received(f) \in Int
      <4>1. Cost(f) \in Nat /\ Proceeds(f) \in Int
        BY <2>1, FillParts DEF Records
      <4> QED BY <4>1 DEF Received
    <3> QED BY <1>1, <2>1, <3>1 DEF Records
  <2>4. Command /\ UNCHANGED << scenario, lt, run, rejected, bars, proc >>
    BY <1>13 DEF RecordFill
  <2> QED BY <1>1, <1>9, <2>2, <2>3, <2>4 DEF TypeOK, Signals
<1>14. CASE BarArrives
  BY <1>1, <1>14 DEF BarArrives, books, TypeOK, Signals
<1> QED BY <1>3, <1>4, <1>5, <1>6, <1>7, <1>8, <1>10, <1>11, <1>12, <1>13, <1>14
        DEF Next, Work, Operator

-----------------------------------------------------------------------------
(* The steps that leave the books alone, for all other parts. *)

\* Nothing is booked or moved, and the operator's keys are at most more.
Idle ==
  /\ UNCHANGED << scenario, books >>
  /\ used.commands <= used'.commands

\* The keys of the operator are numbered below his next command.
LEMMA ManualKeys ==
  ASSUME TypeOK, KeysInv, NEW i \in 1 .. Len(fills), fills[i].key[1] = "manual"
  PROVE  fills[i].key[2] \in Nat /\ fills[i].key[2] < used.commands
<1>1. fills[i] \in AllFills
  BY FillsAre, ElementOfSeq
<1>2. fills[i] \in OperatorFills
  BY <1>1 DEF AllFills, EngineFills, FillItems
<1> QED BY <1>2 DEF KeysInv, OperatorFills, FillItems

\* A step that books nothing keeps the keys.
LEMMA IdleKeys == Idle /\ TypeOK /\ TypeOK' /\ KeysInv => KeysInv'
<1> SUFFICES ASSUME Idle, TypeOK, TypeOK', KeysInv PROVE KeysInv'
  OBVIOUS
<1>1. used.commands \in Int /\ used'.commands \in Int /\ fills' = fills /\ used.commands <= used'.commands
  BY DEF Idle, books, TypeOK
<1>2. ExecuteOnce'
  BY <1>1 DEF KeysInv, ExecuteOnce
<1>3. \A i \in 1 .. Len(fills) : fills[i].key[1] = "manual" =>
        fills[i].key[2] \in Nat /\ fills[i].key[2] < used.commands
  BY ManualKeys
<1> QED BY <1>1, <1>2, <1>3 DEF KeysInv

\* A step that moves nothing keeps the books.
LEMMA IdleBooks == Idle /\ BooksBalance => BooksBalance'
BY DEF Idle, books, BooksBalance

-----------------------------------------------------------------------------
(* The keys and the books, step by step. *)

\* A fill with a key of its own keeps the keys distinct.
LEMMA OneMoreKey ==
  ASSUME KeysInv, NEW f, Adds(fills, f, fills'), fills \in Seq(AllFills),
         \A i \in 1 .. Len(fills) : fills[i].key # f.key
  PROVE  ExecuteOnce'
<1>1. PICK n, t : n = Len(fills) /\ t = fills'
  OBVIOUS
<1>2. /\ t \in Seq(AllFills) /\ Len(t) = n + 1 /\ t[n + 1] = f /\ n \in Nat
      /\ \A i \in 1 .. n : t[i] = fills[i]
  BY <1>1, LenProperties DEF Adds
<1>3. DOMAIN t = 1 .. n + 1 /\ DOMAIN fills = 1 .. n
  BY <1>1, <1>2, LenProperties
<1>4. ASSUME NEW i \in DOMAIN t, NEW j \in DOMAIN t, t[i].key = t[j].key
      PROVE  i = j
  <2>1. \A k \in 1 .. n + 1 : k = n + 1 \/ k \in 1 .. n
    BY <1>2
  <2>2. CASE i \in 1 .. n /\ j \in 1 .. n
    BY <1>2, <1>3, <1>4, <2>2 DEF KeysInv, ExecuteOnce
  <2>3. CASE i = n + 1 /\ j \in 1 .. n
    BY <1>1, <1>2, <1>4, <2>3
  <2>4. CASE i \in 1 .. n /\ j = n + 1
    BY <1>1, <1>2, <1>4, <2>4
  <2> QED BY <1>3, <2>1, <2>2, <2>3, <2>4
<1> QED BY <1>1, <1>4 DEF ExecuteOnce

\* A fill of the engine has a key that is not booked.
LEMMA BookedKeys ==
  ASSUME TypeOK, KeysInv, NEW x \in Procs, NEW f, Books(x, f), UNCHANGED used
  PROVE  KeysInv'
<1>1. fills \in Seq(AllFills) /\ DOMAIN fills = 1 .. Len(fills) /\ Len(fills) \in Nat
  BY FillsAre, LenProperties
<1>2. \A i \in 1 .. Len(fills) : fills[i].key # f.key
  BY <1>1 DEF Books, Keys, ToSet
<1>3. Adds(fills, f, fills')
  BY DEF Books
<1>4. ExecuteOnce'
  BY <1>1, <1>2, <1>3, OneMoreKey
<1>5. f.key[1] = "order"
  BY DEF Books, EngineFills, FillItems
<1>6. ASSUME NEW i \in 1 .. Len(fills'), fills'[i].key[1] = "manual"
      PROVE  fills'[i].key[2] < used'.commands
  <2>1. i \in 1 .. Len(fills) \/ fills'[i] = f
    BY <1>1, <1>3 DEF Adds
  <2>2. i \in 1 .. Len(fills) /\ fills'[i] = fills[i]
    BY <1>3, <1>5, <1>6, <2>1 DEF Adds
  <2> QED BY <1>6, <2>2 DEF KeysInv
<1> QED BY <1>4, <1>6 DEF KeysInv

\* A fill of the operator has a new number, and no key of the engine.
LEMMA RecordedKeys ==
  ASSUME TypeOK, KeysInv, NEW f, Records(f), used'.commands = used.commands + 1
  PROVE  KeysInv'
<1>1. /\ fills \in Seq(AllFills) /\ Len(fills) \in Nat /\ used.commands \in Nat
      /\ f.key[1] = "manual" /\ f.key[2] = used.commands
  BY FillsAre, LenProperties, BoundsAssumption DEF TypeOK, Records
<1>2. ASSUME NEW i \in 1 .. Len(fills) PROVE fills[i].key # f.key
  <2>1. CASE fills[i].key[1] = "manual"
    <3>1. fills[i].key[2] \in Nat /\ fills[i].key[2] < used.commands
      BY <2>1, ManualKeys
    <3> QED BY <1>1, <3>1
  <2>2. CASE fills[i].key[1] # "manual"
    BY <1>1, <2>2
  <2> QED BY <2>1, <2>2
<1>3. Adds(fills, f, fills')
  BY DEF Records
<1>4. ExecuteOnce'
  BY <1>1, <1>2, <1>3, OneMoreKey
<1>5. ASSUME NEW i \in 1 .. Len(fills'), fills'[i].key[1] = "manual"
      PROVE  fills'[i].key[2] < used'.commands
  <2>1. fills'[i] = f \/ (i \in 1 .. Len(fills) /\ fills'[i] = fills[i])
    BY <1>1, <1>3 DEF Adds
  <2>2. CASE fills'[i] = f
    BY <1>1, <2>2
  <2>3. CASE i \in 1 .. Len(fills) /\ fills'[i] = fills[i]
    <3>1. fills[i].key[2] \in Nat /\ fills[i].key[2] < used.commands
      BY <1>5, <2>3, ManualKeys
    <3> QED BY <1>1, <2>3, <3>1
  <2> QED BY <2>1, <2>2, <2>3
<1> QED BY <1>4, <1>5 DEF KeysInv

\* A fill moves the cash and its bucket by what it adds to their sums.
LEMMA MovedBooks ==
  ASSUME TypeOK, BooksBalance, NEW f \in AllFills, Adds(fills, f, fills'),
         cash' = cash + Received(f), \A b \in Buckets : pos'[b] = pos[b] + Taken(f, b),
         UNCHANGED << scenario, lt >>
  PROVE  BooksBalance'
<1>1. IsScenario(scenario)
  BY ScenariosAssumption DEF TypeOK
<1>2. fills \in Seq(AllFills) /\ cash \in Int /\ scenario.cash \in Int
  BY <1>1, FillsAre DEF TypeOK, IsScenario
<1>3. cash' = scenario'.cash + Tally([ i \in DOMAIN fills' |-> Received(fills'[i]) ])
  <2>1. PICK u, v : /\ u = Tally([ i \in DOMAIN fills |-> Received(fills[i]) ])
                    /\ v = Tally([ i \in DOMAIN fills' |-> Received(fills'[i]) ])
    OBVIOUS
  <2>2. v = u + Received(f) /\ cash = scenario.cash + u
    BY <2>1 DEF Adds, BooksBalance
  <2>3. u \in Int
    <3>1. u = Weight(Money, fills)
      BY <1>2, <2>1, FillSums
    <3> QED BY <1>2, <3>1, FillWeights, WeightsType
  <2>4. Received(f) \in Int
    <3>1. Cost(f) \in Nat /\ Proceeds(f) \in Int
      BY FillParts
    <3> QED BY <3>1 DEF Received
  <2>5. cash' = scenario.cash + v
    BY <1>2, <2>2, <2>3, <2>4
  <2> QED BY <2>1, <2>5
<1>4. ASSUME NEW b \in Buckets
      PROVE  pos'[b] + lt'[b]
               = scenario'.pos[b] + Tally([ i \in DOMAIN fills' |-> Taken(fills'[i], b) ])
  <2>1. PICK u, v : /\ u = Tally([ i \in DOMAIN fills |-> Taken(fills[i], b) ])
                    /\ v = Tally([ i \in DOMAIN fills' |-> Taken(fills'[i], b) ])
    OBVIOUS
  <2>2. v = u + Taken(f, b) /\ pos[b] + lt[b] = scenario.pos[b] + u
    BY <2>1 DEF Adds, BooksBalance
  <2>3. u \in Int
    <3>1. u = Weight(Stock(b), fills)
      BY <1>2, <2>1, FillSums
    <3>2. Stock(b) \in [AllFills -> Int]
      BY FillWeights
    <3> QED BY <1>2, <3>1, <3>2, WeightsType
  <2>4. Taken(f, b) \in Int
    <3>1. f.qty \in Nat
      BY FillParts
    <3> QED BY <3>1 DEF Taken
  <2>5. pos[b] \in Nat /\ lt[b] \in Nat /\ scenario.pos[b] \in Nat
    BY <1>1 DEF TypeOK, IsScenario
  <2>6. pos'[b] + lt[b] = scenario.pos[b] + v
    BY <2>2, <2>3, <2>4, <2>5
  <2> QED BY <2>1, <2>6
<1> QED BY <1>3, <1>4 DEF BooksBalance

\* A long-term flag moves shares within their bucket.
LEMMA FlaggedBooks ==
  ASSUME TypeOK, BooksBalance, NEW b \in Buckets, SetLongTerm(b)
  PROVE  BooksBalance'
<1>1. /\ pos \in [Buckets -> Nat] /\ lt \in [Buckets -> Nat]
      /\ lt' = [ lt EXCEPT ![b] = @ + pos[b] ] /\ pos' = [ pos EXCEPT ![b] = 0 ]
      /\ UNCHANGED << scenario, cash, fills >>
  BY DEF TypeOK, SetLongTerm
<1>2. \A c \in Buckets : pos'[c] + lt'[c] = pos[c] + lt[c]
  BY <1>1
<1> QED BY <1>1, <1>2 DEF BooksBalance

-----------------------------------------------------------------------------
(* The limits, step by step. *)

\* What is spent and what is due are natural numbers.
LEMMA Amounts ==
  ASSUME TypeOK, NEW S
  PROVE  Spent(S) \in Nat /\ \A x \in Procs : Due(x, S) \in Nat
BY FillsAre, BoughtNat DEF Spent, Due

\* The daily limits are natural numbers.
LEMMA DayLimits ==
  ASSUME TypeOK
  PROVE  /\ scenario.lim.globalDaily \in Nat
         /\ \A s \in Strategies : scenario.lim.strategyDaily[s] \in Nat
BY DayIs DEF Limits

\* A step that books nothing keeps a limit.
LEMMA KeptByQuiet ==
  ASSUME TypeOK, TypeOK', Quiet, fills' = fills, NEW S, NEW l \in Nat, Keeping(S, l)
  PROVE  Keeping(S, l)'
<1>1. Spent(S)' = Spent(S) /\ Spent(S) <= l /\ Spent(S) \in Nat
  BY Amounts DEF Spent, Keeping
<1>2. ASSUME NEW y \in Procs, proc'[y].pc = "booking" PROVE Spent(S)' + Due(y, S)' <= l
  <2>1. proc[y].pc = "booking" /\ Due(y, S)' <= Due(y, S)
    BY <1>2 DEF Quiet, Due
  <2>2. Due(y, S) \in Nat /\ Due(y, S)' \in Nat
    <3>1. Bought(proc[y].todo, S) \in Nat
      BY FillsAre, BoughtNat
    <3>2. proc'[y].todo \in Seq(AllFills)
      <4>1. proc'[y].todo \in Seq(EngineFills)
        BY DEF Quiet, Executors
      <4> QED BY <4>1, SeqWidens DEF AllFills
    <3>3. Bought(proc'[y].todo, S) \in Nat
      BY <3>2, BoughtNat
    <3> QED BY <3>1, <3>3 DEF Due
  <2>3. Spent(S) + Due(y, S) <= l
    BY <2>1 DEF Keeping
  <2> QED BY <1>1, <2>1, <2>2, <2>3
<1> QED BY <1>1, <1>2 DEF Keeping

\* And all of them.
LEMMA QuietLimits ==
  ASSUME TypeOK, TypeOK', LimitsInv, Quiet, UNCHANGED << scenario, fills >>,
         overlapped => overlapped'
  PROVE  LimitsInv'
<1> SUFFICES ASSUME ~ overlapped'
             PROVE  /\ \A x, y \in Procs :
                         proc'[x].pc = "booking" /\ proc'[y].pc = "booking" => x = y
                    /\ (Flat /\ EngineOnly)' =>
                         /\ Keeping(Strategies, scenario.lim.globalDaily)'
                         /\ \A s \in Strategies : Keeping({s}, scenario.lim.strategyDaily[s])'
  BY DEF LimitsInv
<1>1. ~ overlapped
  OBVIOUS
<1>2. \A x, y \in Procs : proc'[x].pc = "booking" /\ proc'[y].pc = "booking" => x = y
  BY <1>1 DEF LimitsInv, Quiet
<1>3. ASSUME (Flat /\ EngineOnly)'
      PROVE  /\ Keeping(Strategies, scenario.lim.globalDaily)'
             /\ \A s \in Strategies : Keeping({s}, scenario.lim.strategyDaily[s])'
  <2>1. Flat /\ EngineOnly
    BY <1>3 DEF Flat, EngineOnly, Signals
  <2>2. PICK l, m : l = scenario.lim.globalDaily /\ m = scenario.lim.strategyDaily
    OBVIOUS
  <2>3. l \in Nat /\ (\A s \in Strategies : m[s] \in Nat)
        /\ scenario'.lim.globalDaily = l /\ scenario'.lim.strategyDaily = m
    BY <2>2, DayLimits
  <2>4. Keeping(Strategies, l) /\ \A s \in Strategies : Keeping({s}, m[s])
    BY <1>1, <2>1, <2>2 DEF LimitsInv
  <2>5. Keeping(Strategies, l)'
    BY <2>3, <2>4, KeptByQuiet
  <2>6. ASSUME NEW s \in Strategies PROVE Keeping({s}, m[s])'
    <3>1. PICK k, S : k = m[s] /\ S = {s}
      OBVIOUS
    <3>2. k \in Nat /\ Keeping(S, k)
      BY <2>3, <2>4, <3>1
    <3>3. Keeping(S, k)'
      BY <3>2, KeptByQuiet
    <3> QED BY <3>1, <3>3
  <2>7. Keeping(Strategies, scenario.lim.globalDaily)'
    BY <2>3, <2>5 DEF Keeping
  <2>8. \A s \in Strategies : Keeping({s}, scenario.lim.strategyDaily[s])'
    BY <2>3, <2>6 DEF Keeping
  <2> QED BY <2>7, <2>8
<1> QED BY <1>2, <1>3

\* A booked fill is spent and no longer due: a limit is kept.
LEMMA KeptByBooking ==
  ASSUME TypeOK, NEW x \in Procs, NEW f, Books(x, f), NEW S, NEW l \in Nat, Keeping(S, l),
         \A y \in Procs : proc[y].pc = "booking" => y = x
  PROVE  Keeping(S, l)'
<1>1. Spent(S)' = Spent(S) + Entered(f, S) /\ Spent(S) \in Nat
  BY Amounts DEF Spent, Books, Adds
<1>2. /\ proc[x].pc = "booking" /\ Due(x, S) = Entered(f, S) + Due(x, S)'
      /\ Entered(f, S) \in Nat
  BY DEF Due, Books, Leaves
<1>3. Due(x, S)' \in Nat
  <2>1. Bought(Tail(proc[x].todo), S) \in Nat
    BY BoughtNat DEF Books
  <2> QED BY <2>1 DEF Due, Books
<1>4. Spent(S) + Due(x, S) <= l
  BY <1>2 DEF Keeping
<1>5. Spent(S)' + Due(x, S)' <= l /\ Spent(S)' <= l
  <2>1. PICK a, b, c : a = Spent(S) /\ b = Entered(f, S) /\ c = Due(x, S)'
    OBVIOUS
  <2> QED BY <1>1, <1>2, <1>3, <1>4, <2>1
<1>6. ASSUME NEW y \in Procs, proc'[y].pc = "booking" PROVE y = x
  BY <1>6 DEF Books
<1> QED BY <1>5, <1>6 DEF Keeping

\* And all of them.
LEMMA BookingLimits ==
  ASSUME TypeOK, LimitsInv, NEW x \in Procs, NEW f, Books(x, f),
         UNCHANGED << scenario, overlapped >>
  PROVE  LimitsInv'
<1> SUFFICES ASSUME ~ overlapped
             PROVE  /\ \A y, z \in Procs :
                         proc'[y].pc = "booking" /\ proc'[z].pc = "booking" => y = z
                    /\ (Flat /\ EngineOnly)' =>
                         /\ Keeping(Strategies, scenario.lim.globalDaily)'
                         /\ \A s \in Strategies : Keeping({s}, scenario.lim.strategyDaily[s])'
  BY DEF LimitsInv
<1>1. proc[x].pc = "booking" /\ \A y \in Procs : proc[y].pc = "booking" => y = x
  BY DEF LimitsInv, Books
<1>2. \A y, z \in Procs : proc'[y].pc = "booking" /\ proc'[z].pc = "booking" => y = z
  BY <1>1 DEF Books
<1>3. ASSUME (Flat /\ EngineOnly)'
      PROVE  /\ Keeping(Strategies, scenario.lim.globalDaily)'
             /\ \A s \in Strategies : Keeping({s}, scenario.lim.strategyDaily[s])'
  <2>1. Flat
    BY <1>3 DEF Flat, Signals
  <2>2. EngineOnly
    <3>1. fills \in Seq(AllFills) /\ DOMAIN fills = 1 .. Len(fills) /\ Len(fills) \in Nat
      BY FillsAre, LenProperties
    <3>2. DOMAIN fills' = 1 .. Len(fills) + 1 /\ \A i \in 1 .. Len(fills) : fills'[i] = fills[i]
      BY LenProperties DEF Books, Adds
    <3>3. \A g \in ToSet(fills) : g \in ToSet(fills')
      BY <3>1, <3>2 DEF ToSet
    <3> QED BY <1>3, <3>3 DEF EngineOnly, Engine
  <2>3. PICK l, m : l = scenario.lim.globalDaily /\ m = scenario.lim.strategyDaily
    OBVIOUS
  <2>4. l \in Nat /\ (\A s \in Strategies : m[s] \in Nat)
        /\ scenario'.lim.globalDaily = l /\ scenario'.lim.strategyDaily = m
    BY <2>3, DayLimits
  <2>5. Keeping(Strategies, l) /\ \A s \in Strategies : Keeping({s}, m[s])
    BY <2>1, <2>2, <2>3 DEF LimitsInv
  <2>6. Keeping(Strategies, l)'
    BY <1>1, <2>4, <2>5, KeptByBooking
  <2>7. ASSUME NEW s \in Strategies PROVE Keeping({s}, m[s])'
    <3>1. PICK k, S : k = m[s] /\ S = {s}
      OBVIOUS
    <3>2. k \in Nat /\ Keeping(S, k)
      BY <2>4, <2>5, <3>1
    <3>3. Keeping(S, k)'
      BY <1>1, <3>2, KeptByBooking
    <3> QED BY <3>1, <3>3
  <2>8. Keeping(Strategies, scenario.lim.globalDaily)'
    BY <2>4, <2>6 DEF Keeping
  <2>9. \A s \in Strategies : Keeping({s}, scenario.lim.strategyDaily[s])'
    BY <2>4, <2>7 DEF Keeping
  <2> QED BY <2>8, <2>9
<1> QED BY <1>2, <1>3

\* The fills a process is about to book fit in what is left of the day.
LEMMA KeptByPlan ==
  ASSUME TypeOK, NEW x \in Procs, fills' = fills, NEW S, NEW l \in Nat, Keeping(S, l),
         \A y \in Procs : proc'[y].pc = "booking" => y = x,
         NEW w \in Nat, Due(x, S)' <= w, Due(x, S)' \in Nat,
         NEW g, g = Spent(S) + w, g = Spent(S) \/ g <= l
  PROVE  Keeping(S, l)'
<1>1. Spent(S)' = Spent(S) /\ Spent(S) \in Nat /\ Spent(S) <= l
  BY Amounts DEF Spent, Keeping
<1>2. Spent(S) + Due(x, S)' <= l
  BY <1>1
<1> QED BY <1>1, <1>2 DEF Keeping

\* A plan keeps the limits: what it leaves to book, with what is spent, is within
\* them, and it alone is booked unless commands overlap.
LEMMA PlanLimits ==
  ASSUME TypeOK, TypeOK', LimitsInv, NEW x \in Procs, PlanBundles(x)
  PROVE  LimitsInv'
<1>1. /\ proc' \in [Procs -> Executors]
      /\ \A y \in Procs \ {x} : proc'[y] = proc[y]
      /\ proc'[x].pc = "booking" =>
           /\ overlapped' = (overlapped \/ Booking)
           /\ \E acc \in Plans(SpentBefore, Approved(x), Signals) :
                Flat => \A S : Bought(proc'[x].todo, S) <= Weight(Buys(S), acc.orders)
      /\ proc'[x].pc # "booking" => overlapped' = overlapped
  BY PlanStep
<1>2. UNCHANGED << scenario, fills >>
  BY DEF PlanBundles, books
<1>3. CASE proc'[x].pc # "booking"
  <2>1. \A y \in Procs : \A S : Bought(proc[y].todo, S) <= Bought(proc[y].todo, S)
    <3>1. \A y \in Procs : \A S : Bought(proc[y].todo, S) \in Nat
      BY FillsAre, BoughtNat
    <3> QED BY <3>1
  <2>2. Quiet
    BY <1>1, <1>3, <2>1 DEF Quiet
  <2> QED BY <1>1, <1>2, <1>3, <2>2, QuietLimits
<1>4. CASE proc'[x].pc = "booking" /\ ~ overlapped'
  <2>1. ~ overlapped /\ \A y \in Procs : proc[y].pc # "booking"
    BY <1>1, <1>4 DEF Booking
  <2>2. \A y \in Procs : proc'[y].pc = "booking" => y = x
    BY <1>1, <2>1
  <2>3. ASSUME (Flat /\ EngineOnly)'
        PROVE  /\ Keeping(Strategies, scenario.lim.globalDaily)'
               /\ \A s \in Strategies : Keeping({s}, scenario.lim.strategyDaily[s])'
    <3>1. Flat /\ EngineOnly
      BY <1>2, <2>3 DEF Flat, EngineOnly, Signals
    <3>2. PICK acc \in Plans(SpentBefore, Approved(x), Signals) :
            \A S : Bought(proc'[x].todo, S) <= Weight(Buys(S), acc.orders)
      BY <1>1, <1>4, <3>1
    <3>3. PICK l, m : l = scenario.lim.globalDaily /\ m = scenario.lim.strategyDaily
      OBVIOUS
    <3>4. l \in Nat /\ (\A s \in Strategies : m[s] \in Nat)
          /\ scenario'.lim.globalDaily = l /\ scenario'.lim.strategyDaily = m
      BY <1>2, <3>3, DayLimits
    <3>5. Keeping(Strategies, l) /\ \A s \in Strategies : Keeping({s}, m[s])
      BY <2>1, <3>1, <3>3 DEF LimitsInv
    <3>6. Approved(x).globalDaily = l /\ Approved(x).strategyDaily = m
      BY <3>3, DayIs DEF Approved, Limits
    <3>7. /\ SpentBefore.gspent = Spent(Strategies)
          /\ \A s \in Strategies : SpentBefore.sspent[s] = Spent({s})
      BY <3>1, EngineSpends DEF SpentBefore, PlanState
    <3>8. /\ acc.orders \in Seq(OrdersOf(Signals))
          /\ acc.p.gspent = SpentBefore.gspent + Weight(Buys(Strategies), acc.orders)
          /\ acc.p.gspent = SpentBefore.gspent \/ acc.p.gspent <= Approved(x).globalDaily
          /\ \A s \in Strategies :
               /\ acc.p.sspent[s] = SpentBefore.sspent[s] + Weight(Buys({s}), acc.orders)
               /\ \/ acc.p.sspent[s] = SpentBefore.sspent[s]
                  \/ acc.p.sspent[s] <= Approved(x).strategyDaily[s]
      BY DEF Plans
    <3>9. ASSUME NEW S
          PROVE  /\ Weight(Buys(S), acc.orders) \in Nat
                 /\ Due(x, S)' \in Nat /\ Due(x, S)' <= Weight(Buys(S), acc.orders)
      <4>1. Buys(S) \in [OrderItems -> Nat] /\ acc.orders \in Seq(OrderItems)
        BY <3>8, BuysType, OrdersAre
      <4>2. proc'[x].todo \in Seq(AllFills)
        <5>1. proc'[x].todo \in Seq(EngineFills)
          BY <1>1 DEF Executors
        <5> QED BY <5>1, SeqWidens DEF AllFills
      <4> QED BY <3>2, <4>1, <4>2, WeightNat, BoughtNat DEF Due
    <3>10. Keeping(Strategies, l)'
      <4>1. PICK w, g : w = Weight(Buys(Strategies), acc.orders) /\ g = acc.p.gspent
        OBVIOUS
      <4>2. /\ w \in Nat /\ Due(x, Strategies)' <= w /\ Due(x, Strategies)' \in Nat
            /\ g = Spent(Strategies) + w /\ (g = Spent(Strategies) \/ g <= l)
        BY <3>6, <3>7, <3>8, <3>9, <4>1
      <4> QED BY <1>2, <2>2, <3>4, <3>5, <4>2, KeptByPlan
    <3>11. ASSUME NEW s \in Strategies PROVE Keeping({s}, m[s])'
      <4>1. PICK w, g, S, k : /\ w = Weight(Buys({s}), acc.orders) /\ g = acc.p.sspent[s]
                              /\ S = {s} /\ k = m[s]
        OBVIOUS
      <4>2. /\ w \in Nat /\ Due(x, S)' <= w /\ Due(x, S)' \in Nat
            /\ g = Spent(S) + w /\ (g = Spent(S) \/ g <= k)
        BY <3>6, <3>7, <3>8, <3>9, <4>1
      <4>3. k \in Nat /\ Keeping(S, k)
        BY <3>4, <3>5, <4>1
      <4>4. Keeping(S, k)'
        BY <1>2, <2>2, <4>2, <4>3, KeptByPlan
      <4> QED BY <4>1, <4>4
    <3>12. Keeping(Strategies, scenario.lim.globalDaily)'
      BY <3>4, <3>10 DEF Keeping
    <3>13. \A s \in Strategies : Keeping({s}, scenario.lim.strategyDaily[s])'
      BY <3>4, <3>11 DEF Keeping
    <3> QED BY <3>12, <3>13
  <2> QED BY <2>2, <2>3 DEF LimitsInv
<1>5. CASE overlapped'
  BY <1>5 DEF LimitsInv
<1> QED BY <1>3, <1>4, <1>5

-----------------------------------------------------------------------------
\* Every step keeps the invariant.
LEMMA InvStep == Inv /\ [Next]_vars => Inv'
<1> SUFFICES ASSUME Inv, [Next]_vars PROVE Inv'
  OBVIOUS
<1>1. TypeOK /\ TypeOK' /\ KeysInv /\ BooksBalance /\ LimitsInv
  BY TypeStep DEF Inv
<1>2. /\ proc' = proc => Quiet
      /\ used.commands \in Nat
  <2>1. \A y \in Procs : \A S : Bought(proc[y].todo, S) \in Nat
    BY <1>1, FillsAre, BoughtNat
  <2>2. ASSUME proc' = proc PROVE Quiet
    <3>1. \A y \in Procs : \A S : Bought(proc[y].todo, S) <= Bought(proc[y].todo, S)
      BY <2>1
    <3>2. proc \in [Procs -> Executors]
      BY <1>1 DEF TypeOK
    <3> QED BY <2>2, <3>1, <3>2 DEF Quiet
  <2> QED BY <1>1, <2>2, BoundsAssumption DEF TypeOK
<1>3. ASSUME Idle, Quiet, overlapped => overlapped' PROVE Inv'
  BY <1>1, <1>3, IdleKeys, IdleBooks, QuietLimits DEF Inv, Idle, books
<1>4. CASE UNCHANGED vars
  BY <1>2, <1>3, <1>4 DEF vars, Idle, books
<1>5. ASSUME NEW x \in Procs,
             \/ Start(x) \/ BookDuplicate(x) \/ SkipBuy(x) \/ SkipSell(x)
             \/ FailSell(x) \/ Finish(x) \/ Crash(x)
      PROVE  Inv'
  <2>1. Quiet
    BY <1>1, <1>5, QuietSteps
  <2>2. UNCHANGED << scenario, books, overlapped >> /\ used'.commands = used.commands
    <3>1. CASE Start(x)
      BY <1>1, <3>1 DEF Start, TypeOK
    <3>2. CASE Crash(x)
      BY <1>1, <3>2 DEF Crash, TypeOK
    <3> QED BY <1>5, <3>1, <3>2 DEF BookDuplicate, SkipBuy, SkipSell, FailSell, Finish
  <2>3. Idle
    BY <1>2, <2>2 DEF Idle
  <2> QED BY <1>3, <2>1, <2>2, <2>3
<1>6. ASSUME NEW x \in Procs, PlanBundles(x) PROVE Inv'
  <2>1. Idle
    BY <1>2, <1>6 DEF Idle, PlanBundles
  <2>2. KeysInv' /\ BooksBalance'
    BY <1>1, <2>1, IdleKeys, IdleBooks
  <2> QED BY <1>1, <1>6, <2>2, PlanLimits DEF Inv
<1>7. ASSUME NEW x \in Procs, BookBuy(x) \/ BookSell(x) PROVE Inv'
  <2>1. PICK f : f = Next1(x)
    OBVIOUS
  <2>2. Books(x, f)
    BY <1>1, <1>7, <2>1, BookingSteps
  <2>3. UNCHANGED << scenario, lt, used, overlapped >>
    BY <1>7 DEF BookBuy, BookSell
  <2>4. KeysInv'
    BY <1>1, <2>2, <2>3, BookedKeys
  <2>5. BooksBalance'
    BY <1>1, <2>2, <2>3, MovedBooks DEF Books
  <2>6. LimitsInv'
    BY <1>1, <2>2, <2>3, BookingLimits
  <2> QED BY <1>1, <2>4, <2>5, <2>6 DEF Inv
<1>8. ASSUME Command
      PROVE  used'.commands = used.commands + 1 /\ (overlapped => overlapped')
  BY <1>1, <1>8 DEF Command, TypeOK
<1>9. ASSUME Command, UNCHANGED << scenario, books, proc >> PROVE Inv'
  BY <1>2, <1>3, <1>8, <1>9 DEF Idle
<1>10. ASSUME NEW b \in Buckets, SetLongTerm(b) PROVE Inv'
  <2>1. Command /\ UNCHANGED << scenario, cash, fills, proc >>
    BY <1>10 DEF SetLongTerm
  <2>2. KeysInv'
    <3>1. \A i \in 1 .. Len(fills) : fills[i].key[1] = "manual" =>
            fills[i].key[2] \in Nat /\ fills[i].key[2] < used.commands
      BY <1>1, ManualKeys
    <3> QED BY <1>1, <1>2, <1>8, <2>1, <3>1 DEF KeysInv, ExecuteOnce
  <2>3. BooksBalance'
    BY <1>1, <1>10, FlaggedBooks
  <2>4. LimitsInv'
    BY <1>1, <1>2, <1>8, <2>1, QuietLimits
  <2> QED BY <1>1, <2>2, <2>3, <2>4 DEF Inv
<1>11. ASSUME NEW m \in ManualFills, RecordFill(m) PROVE Inv'
  <2>1. PICK f : Records(f)
    BY <1>1, <1>11, RecordingStep
  <2>2. Command /\ UNCHANGED << scenario, lt, proc >>
    BY <1>11 DEF RecordFill
  <2>3. KeysInv'
    BY <1>1, <1>8, <2>1, <2>2, RecordedKeys
  <2>4. BooksBalance'
    BY <1>1, <2>1, <2>2, MovedBooks DEF Records
  <2>5. ~ EngineOnly'
    <3>1. f \in ToSet(fills')
      <4>1. fills \in Seq(AllFills) /\ Len(fills) \in Nat
        BY <1>1, FillsAre, LenProperties
      <4>2. fills' \in Seq(AllFills) /\ Len(fills') = Len(fills) + 1 /\ fills'[Len(fills')] = f
        BY <2>1 DEF Records, Adds
      <4>3. Len(fills') \in DOMAIN fills'
        BY <4>1, <4>2, LenProperties
      <4> QED BY <4>2, <4>3 DEF ToSet
    <3>2. f.key[1] = "manual"
      BY <2>1 DEF Records
    <3> QED BY <3>1, <3>2 DEF EngineOnly, Engine
  <2>6. LimitsInv'
    <3>1. ~ overlapped' => ~ overlapped
      BY <1>8, <2>2
    <3>2. ~ overlapped => \A x, y \in Procs : proc[x].pc = "booking" /\ proc[y].pc = "booking" => x = y
      BY <1>1 DEF LimitsInv
    <3> QED BY <2>2, <2>5, <3>1, <3>2 DEF LimitsInv
  <2> QED BY <1>1, <2>3, <2>4, <2>6 DEF Inv
<1>12. ASSUME NEW sig \in Signals, RejectSignal(sig) \/ UnRejectSignal(sig) PROVE Inv'
  BY <1>9, <1>12 DEF RejectSignal, UnRejectSignal
<1>13. ASSUME NEW s \in Strategies, ChangeApproval(s) PROVE Inv'
  BY <1>9, <1>13 DEF ChangeApproval
<1>14. CASE BarArrives
  BY <1>2, <1>3, <1>14 DEF BarArrives, Idle
<1> QED BY <1>4, <1>5, <1>6, <1>7, <1>10, <1>11, <1>12, <1>13, <1>14
        DEF Next, Work, Operator

\* The invariant holds of every reachable state.
THEOREM Invariance == Spec => []Inv
<1>1. Init => Inv
  BY InitInv
<1>2. Inv /\ [Next]_vars => Inv'
  BY InvStep
<1> QED BY <1>1, <1>2, PTL DEF Spec

-----------------------------------------------------------------------------
(* The properties. *)

\* Every variable keeps its type: a booked fill is one of the engine's or one of
\* the operator's, and no bucket goes below zero, whoever books on it.
THEOREM TypesHold == Spec => []TypeOK
<1>1. Inv => TypeOK
  BY DEF Inv
<1> QED BY <1>1, Invariance, PTL

\* One leg of one signal is booked once, whatever is started again after a crash
\* and however run-daily and execute-pending interleave.
THEOREM ExecutedOnce == Spec => []ExecuteOnce
<1>1. Inv => ExecuteOnce
  BY DEF Inv, KeysInv
<1> QED BY <1>1, Invariance, PTL

\* Cash and shares are the opening books moved by the fills, each once.
THEOREM BooksAlwaysBalance == Spec => []BooksBalance
<1>1. Inv => BooksBalance
  BY DEF Inv
<1> QED BY <1>1, Invariance, PTL

\* At flat prices, commands one after the other keep the engine's entries of the
\* day within the limits, over every rerun.
THEOREM LimitsAlwaysHold == Spec => []DailyLimitsHold
<1>1. Inv => DailyLimitsHold
  <2> SUFFICES ASSUME Inv, ~ overlapped, Flat, EngineOnly
               PROVE  /\ Spent(Strategies) <= scenario.lim.globalDaily
                      /\ \A s \in Strategies : Spent({s}) <= scenario.lim.strategyDaily[s]
    BY DEF DailyLimitsHold
  <2> QED BY DEF Inv, LimitsInv, Keeping
<1> QED BY <1>1, Invariance, PTL

\* No BUY of the engine leaves the balance negative, whatever the operator does
\* to the cash while the plan is booked.
THEOREM NeverOverdrawn == Spec => EngineNeverOverdraws
<1> DEFINE Covered == Len(fills') > Len(fills) /\ Engine(fills'[Len(fills')]) /\ cash' < 0
                        => fills'[Len(fills')].side = "SELL"
<1>1. Inv /\ [Next]_vars => [Covered]_vars
  <2> SUFFICES ASSUME Inv, [Next]_vars, Len(fills') > Len(fills),
                      Engine(fills'[Len(fills')]), cash' < 0
               PROVE  fills'[Len(fills')].side = "SELL"
    OBVIOUS
  <2>1. TypeOK /\ TypeOK' /\ Len(fills) \in Nat
    BY TypeStep, FillsAre, LenProperties DEF Inv
  <2>2. \A x \in Procs : BookBuy(x) \/ BookSell(x) => Books(x, Next1(x))
    BY <2>1, BookingSteps
  <2>3. \A m \in ManualFills : RecordFill(m) => \E f : Records(f)
    BY <2>1, RecordingStep
  <2>4. \/ \E x \in Procs : BookBuy(x) \/ BookSell(x)
        \/ \E m \in ManualFills : RecordFill(m)
        \/ fills' = fills
    BY DEF vars, books, Next, Work, Operator, Start, PlanBundles, BookDuplicate, SkipBuy,
       SkipSell,
           FailSell, Finish, Crash, RejectSignal, UnRejectSignal, ChangeApproval, SetLongTerm,
           BarArrives
  <2>5. CASE fills' = fills
    BY <2>1, <2>5
  <2>6. ASSUME NEW m \in ManualFills, RecordFill(m) PROVE FALSE
    <3>1. PICK f : Records(f)
      BY <2>3, <2>6
    <3> QED BY <3>1 DEF Records, Adds, Engine
  <2>7. ASSUME NEW x \in Procs, BookBuy(x) \/ BookSell(x)
        PROVE  fills'[Len(fills')].side = "SELL"
    <3>1. PICK f : f = Next1(x)
      OBVIOUS
    <3>2. Books(x, f)
      BY <2>2, <2>7, <3>1
    <3>3. f.side \in Sides /\ fills'[Len(fills')] = f /\ cash' \in Int
      BY <2>1, <3>2, FillParts DEF Books, Adds, TypeOK
    <3>4. f.side # "BUY"
      BY <3>2, <3>3 DEF Books
    <3> QED BY <3>3, <3>4 DEF Sides
  <2> QED BY <2>4, <2>5, <2>6, <2>7
<1>2. Spec => [][Next]_vars
  BY DEF Spec
<1> QED BY <1>1, <1>2, Invariance, PTL DEF EngineNeverOverdraws, Covered

-----------------------------------------------------------------------------
(* The exits and the open symbols: where the members of a selection are. *)

\* t are the members of s in S: where each of them is in s.
Picks(t, s, S, e) ==
  /\ e \in [DOMAIN t -> DOMAIN s]
  /\ \A i, j \in DOMAIN t : i < j => e[i] < e[j]
  /\ \A i \in DOMAIN t : t[i] = s[e[i]] /\ t[i] \in S
  /\ \A k \in DOMAIN s : s[k] \in S => \E i \in DOMAIN t : e[i] = k

\* A selection keeps the order, and all that is selected.
LEMMA OnlyPicks ==
  ASSUME NEW T, NEW s \in Seq(T), NEW S
  PROVE  \E e : Picks(Only(s, S), s, S, e)
<1>1. PICK n : n = Len(s)
  OBVIOUS
<1>2. PICK g \in [0 .. n -> Seq(T)] : Keeps(g, s, S) /\ Only(s, S) = g[n]
  BY <1>1, OnlyIs
<1>3. n \in Nat /\ DOMAIN s = 1 .. n
  BY <1>1, LenProperties
<1>4. g[0] = << >> /\ \A i \in 1 .. n : g[i] = IF s[i] \in S THEN Append(g[i - 1], s[i]) ELSE g[i - 1]
  BY <1>1, <1>2 DEF Keeps
<1> DEFINE Good(t, m, e) ==
             /\ e \in [DOMAIN t -> 1 .. m]
             /\ \A i, j \in DOMAIN t : i < j => e[i] < e[j]
             /\ \A i \in DOMAIN t : t[i] = s[e[i]] /\ t[i] \in S
             /\ \A k \in 1 .. m : s[k] \in S => \E i \in DOMAIN t : e[i] = k
           U == { i \in 0 .. n : \E e : Good(g[i], i, e) }
<1>5. 0 \in U
  <2> DEFINE e == [ i \in {} |-> 0 ]
  <2>1. DOMAIN g[0] = {} /\ e \in [{} -> 1 .. 0]
    BY <1>4
  <2>2. Good(g[0], 0, e)
    BY <2>1
  <2>3. \E x : Good(g[0], 0, x)
    <3> HIDE DEF Good, e
    <3> QED BY <2>2
  <2>4. 0 \in 0 .. n
    BY <1>3
  <2> HIDE DEF Good
  <2> QED BY <2>3, <2>4
<1>6. ASSUME NEW m \in 1 .. n, m - 1 \in U PROVE m \in U
  <2>1. PICK a, c : a = g[m - 1] /\ c = g[m]
    OBVIOUS
  <2>2. a \in Seq(T) /\ m - 1 \in 0 .. n /\ m \in 0 .. n
    BY <1>2, <1>3, <2>1
  <2>3. PICK e : Good(a, m - 1, e)
    BY <1>6, <2>1
  <2>4. PICK l : l = Len(a)
    OBVIOUS
  <2>5. l \in Nat /\ DOMAIN a = 1 .. l
    BY <2>2, <2>4, LenProperties
  <2>6. /\ e \in [1 .. l -> 1 .. m - 1]
        /\ \A i, j \in 1 .. l : i < j => e[i] < e[j]
        /\ \A i \in 1 .. l : a[i] = s[e[i]] /\ a[i] \in S
        /\ \A k \in 1 .. m - 1 : s[k] \in S => \E i \in 1 .. l : e[i] = k
    BY <2>3, <2>5
  <2>7. CASE s[m] \notin S
    <3>1. c = a
      BY <1>4, <2>1, <2>7
    <3>2. e \in [1 .. l -> 1 .. m]
      BY <2>6
    <3>3. \A k \in 1 .. m : s[k] \in S => k \in 1 .. m - 1
      BY <2>7
    <3>4. Good(c, m, e)
      BY <2>5, <2>6, <3>1, <3>2, <3>3
    <3> QED BY <2>1, <2>2, <3>4
  <2>8. CASE s[m] \in S
    <3>1. c = Append(a, s[m]) /\ s[m] \in T
      BY <1>1, <1>4, <2>1, <2>8, ElementOfSeq
    <3>2. DOMAIN c = 1 .. l + 1 /\ c[l + 1] = s[m] /\ \A i \in 1 .. l : c[i] = a[i]
      BY <2>2, <2>4, <2>5, <3>1, AppendProperties, LenProperties
    <3> DEFINE f == [ i \in 1 .. l + 1 |-> IF i = l + 1 THEN m ELSE e[i] ]
    <3>3. f[l + 1] = m /\ \A i \in 1 .. l : f[i] = e[i] /\ e[i] \in 1 .. m - 1
      BY <2>5, <2>6
    <3>4. \A i \in 1 .. l + 1 : i = l + 1 \/ i \in 1 .. l
      BY <2>5
    <3>5. f \in [1 .. l + 1 -> 1 .. m]
      BY <2>5, <2>6
    <3> HIDE DEF f
    <3>6. ASSUME NEW i \in 1 .. l + 1, NEW j \in 1 .. l + 1, i < j PROVE f[i] < f[j]
      <4>1. i \in 1 .. l
        BY <2>5, <3>6
      <4>2. CASE j = l + 1
        BY <3>3, <4>1, <4>2
      <4>3. CASE j \in 1 .. l
        BY <2>6, <3>3, <3>6, <4>1, <4>3
      <4> QED BY <3>4, <4>2, <4>3
    <3>7. \A i \in 1 .. l + 1 : c[i] = s[f[i]] /\ c[i] \in S
      BY <2>6, <2>8, <3>2, <3>3, <3>4
    <3>8. ASSUME NEW k \in 1 .. m, s[k] \in S PROVE \E i \in 1 .. l + 1 : f[i] = k
      <4>1. CASE k = m
        BY <2>5, <3>3, <4>1
      <4>2. CASE k # m
        <5>1. PICK i \in 1 .. l : e[i] = k
          BY <2>6, <3>8, <4>2
        <5> QED BY <2>5, <3>3, <5>1
      <4> QED BY <4>1, <4>2
    <3>9. Good(c, m, f)
      BY <3>2, <3>5, <3>6, <3>7, <3>8
    <3> QED BY <2>1, <2>2, <3>9
  <2> QED BY <2>7, <2>8
<1>7. n \in U
  <2> HIDE DEF U
  <2>1. 0 .. n \subseteq U
    BY <1>3, <1>5, <1>6, Upwards
  <2> QED BY <1>3, <2>1
<1>8. PICK e : Good(g[n], n, e)
  BY <1>7
<1>9. Picks(g[n], s, S, e)
  BY <1>3, <1>8 DEF Picks
<1> QED BY <1>2, <1>9

-----------------------------------------------------------------------------
(* The legs of an exit. *)

Sells(f, b) == f.side = "SELL" /\ Of(f) = b

\* The SELLs of a bucket in s are one exit of n shares: a board lot, then an odd
\* lot, each if there is any.
Legs(s, odds, b, n) ==
  /\ \A i \in DOMAIN s : Sells(s[i], b) =>
       /\ s[i].qty = IF s[i] \in odds THEN n % BoardLot ELSE n - (n % BoardLot)
       /\ s[i] \in odds /\ n >= BoardLot =>
            \E j \in DOMAIN s : j < i /\ Sells(s[j], b) /\ s[j] \notin odds
       /\ \A j \in DOMAIN s : Sells(s[j], b) /\ (s[i] \in odds <=> s[j] \in odds) => i = j
  /\ n >= BoardLot => \E i \in DOMAIN s : Sells(s[i], b) /\ s[i] \notin odds
  /\ n % BoardLot # 0 => \E i \in DOMAIN s : Sells(s[i], b) /\ s[i] \in odds

\* The SELLs of the bucket in t are those in s, in their order.
Along(e, s, odds, t, odds2, b) ==
  /\ \A j \in DOMAIN t : Sells(t[j], b) =>
       /\ e[j] \in DOMAIN s /\ Sells(s[e[j]], b) /\ s[e[j]].qty = t[j].qty
       /\ s[e[j]] \in odds <=> t[j] \in odds2
  /\ \A i, j \in DOMAIN t : Sells(t[i], b) /\ Sells(t[j], b) =>
       /\ e[i] < e[j] => i < j
       /\ e[i] = e[j] => i = j
  /\ \A i \in DOMAIN s : Sells(s[i], b) => \E j \in DOMAIN t : Sells(t[j], b) /\ e[j] = i

\* The legs that sell n shares stay those when orders that do not sell them are
\* dropped.
LEMMA LegsAlong ==
  ASSUME NEW e, NEW s, NEW odds, NEW t, NEW odds2, NEW b, NEW n,
         Along(e, s, odds, t, odds2, b), Legs(s, odds, b, n)
  PROVE  Legs(t, odds2, b, n)
<1>1. ASSUME NEW j \in DOMAIN t, Sells(t[j], b)
      PROVE  /\ t[j].qty = IF t[j] \in odds2 THEN n % BoardLot ELSE n - (n % BoardLot)
             /\ t[j] \in odds2 /\ n >= BoardLot =>
                  \E k \in DOMAIN t : k < j /\ Sells(t[k], b) /\ t[k] \notin odds2
             /\ \A k \in DOMAIN t : Sells(t[k], b) /\ (t[j] \in odds2 <=> t[k] \in odds2) => j = k
  <2>1. /\ e[j] \in DOMAIN s /\ Sells(s[e[j]], b) /\ s[e[j]].qty = t[j].qty
        /\ s[e[j]] \in odds <=> t[j] \in odds2
    BY <1>1 DEF Along
  <2>2. t[j].qty = IF t[j] \in odds2 THEN n % BoardLot ELSE n - (n % BoardLot)
    BY <2>1 DEF Legs
  <2>3. ASSUME t[j] \in odds2, n >= BoardLot
        PROVE  \E k \in DOMAIN t : k < j /\ Sells(t[k], b) /\ t[k] \notin odds2
    <3>1. PICK i \in DOMAIN s : i < e[j] /\ Sells(s[i], b) /\ s[i] \notin odds
      BY <2>1, <2>3 DEF Legs
    <3>2. PICK k \in DOMAIN t : Sells(t[k], b) /\ e[k] = i
      BY <3>1 DEF Along
    <3>3. k < j /\ t[k] \notin odds2
      BY <1>1, <3>1, <3>2 DEF Along
    <3> QED BY <3>2, <3>3
  <2>4. ASSUME NEW k \in DOMAIN t, Sells(t[k], b), t[j] \in odds2 <=> t[k] \in odds2 PROVE j = k
    <3>1. /\ e[k] \in DOMAIN s /\ Sells(s[e[k]], b) /\ (s[e[k]] \in odds <=> t[k] \in odds2)
      BY <2>4 DEF Along
    <3>2. e[j] = e[k]
      BY <2>1, <2>4, <3>1 DEF Legs
    <3> QED BY <1>1, <2>4, <3>2 DEF Along
  <2> QED BY <2>2, <2>3, <2>4
<1>2. ASSUME NEW i \in DOMAIN s, Sells(s[i], b)
      PROVE  \E j \in DOMAIN t : Sells(t[j], b) /\ (t[j] \in odds2 <=> s[i] \in odds)
  <2>1. PICK j \in DOMAIN t : Sells(t[j], b) /\ e[j] = i
    BY <1>2 DEF Along
  <2>2. s[e[j]] \in odds <=> t[j] \in odds2
    BY <2>1 DEF Along
  <2> QED BY <2>1, <2>2
<1>3. n >= BoardLot => \E j \in DOMAIN t : Sells(t[j], b) /\ t[j] \notin odds2
  BY <1>2 DEF Legs
<1>4. n % BoardLot # 0 => \E j \in DOMAIN t : Sells(t[j], b) /\ t[j] \in odds2
  BY <1>2 DEF Legs
<1> QED BY <1>1, <1>3, <1>4 DEF Legs

OddOrders == { o \in OrderItems : o.odd }

\* The orders are the signal's, on one side.
AllOf(u, sig, side) ==
  \A k \in DOMAIN u :
    /\ u[k] \in OrderItems
    /\ u[k].id = sig.id /\ u[k].strategy = sig.strategy /\ u[k].symbol = sig.symbol
    /\ u[k].side = side

\* The orders of a signal: at least one, and for an exit its legs.
LEMMA SplitLegs ==
  ASSUME NEW sig \in SignalItems, NEW side \in Sides, NEW q \in Nat \ {0},
         NEW u, u = SplitLotOrders(sig, side, q)
  PROVE  /\ u \in Seq(OrderItems) /\ u # << >> /\ DOMAIN u # {} /\ AllOf(u, sig, side)
         /\ side = "SELL" => Legs(u, OddOrders, Bucket(sig), q)
<1> DEFINE board == (q \div BoardLot) * BoardLot
           rest  == q % BoardLot
           first == [ id |-> sig.id, strategy |-> sig.strategy,
                      symbol |-> sig.symbol, side |-> side,
                      qty |-> board, odd |-> FALSE, price |-> sig.price ]
           second == [ id |-> sig.id, strategy |-> sig.strategy,
                       symbol |-> sig.symbol, side |-> side,
                       qty |-> rest, odd |-> TRUE, price |-> sig.price ]
<1>1. /\ board \in Nat /\ rest \in Nat /\ board = q - rest /\ (board > 0 \/ rest > 0)
      /\ board > 0 <=> q >= BoardLot
  BY DEF BoardLot
<1>2. u = (IF board > 0 THEN << first >> ELSE << >>) \o (IF rest > 0 THEN << second >> ELSE << >>)
  BY DEF SplitLotOrders
<1>3. sig.price \in Nat \ {0} /\ sig.id \in STRING /\ sig.strategy \in Strategies
      /\ sig.symbol \in Symbols
  BY DEF SignalItems
<1> HIDE DEF board, rest
<1>4. board > 0 => first \in OrderItems /\ first \notin OddOrders
  BY <1>1, <1>3 DEF OrderItems, OddOrders
<1>5. rest > 0 => second \in OrderItems /\ second \in OddOrders
  BY <1>1, <1>3 DEF OrderItems, OddOrders
<1>6. /\ Of(first) = Bucket(sig) /\ first.side = side /\ first.qty = board
      /\ first.id = sig.id /\ first.strategy = sig.strategy /\ first.symbol = sig.symbol
      /\ Of(second) = Bucket(sig) /\ second.side = side /\ second.qty = rest
      /\ second.id = sig.id /\ second.strategy = sig.strategy /\ second.symbol = sig.symbol
  BY DEF Of, Bucket
<1> HIDE DEF first, second
<1>7. CASE board > 0 /\ rest > 0
  <2>1. PICK a, c : a = << first >> /\ c = << second >>
    OBVIOUS
  <2>a. /\ a \in Seq(OrderItems) /\ Len(a) = 1 /\ a[1] = first
        /\ c \in Seq(OrderItems) /\ Len(c) = 1 /\ c[1] = second
    BY <1>4, <1>5, <1>7, <2>1
  <2>b. u = a \o c
    BY <1>2, <1>7, <2>1
  <2>m. PICK m, n : m = Len(a) /\ n = Len(c)
    OBVIOUS
  <2>c. /\ u \in Seq(OrderItems) /\ Len(u) = m + n
        /\ \A i \in 1 .. m + n : u[i] = IF i <= m THEN a[i] ELSE c[i - m]
    BY <2>a, <2>b, <2>m, ConcatProperties
  <2>2. u \in Seq(OrderItems) /\ DOMAIN u = {1, 2} /\ u[1] = first /\ u[2] = second /\ u # << >>
    <3>1. Len(u) = 2 /\ m = 1 /\ n = 1
      BY <2>a, <2>m, <2>c
    <3>2. u[1] = first /\ u[2] = second
      BY <2>a, <2>c, <3>1
    <3>3. DOMAIN u = 1 .. 2 /\ 1 .. 2 = {1, 2}
      BY <2>c, <3>1, LenProperties
    <3>4. u # << >>
      BY <3>1
    <3> QED BY <2>c, <3>2, <3>3, <3>4
  <2>3. AllOf(u, sig, side)
    BY <1>4, <1>5, <1>6, <1>7, <2>2 DEF AllOf
  <2>4. side = "SELL" => Legs(u, OddOrders, Bucket(sig), q)
    BY <1>1, <1>4, <1>5, <1>6, <1>7, <2>2 DEF Legs, Sells, rest
  <2> QED BY <2>2, <2>3, <2>4
<1>8. CASE board > 0 /\ rest = 0
  <2>1. u = << first >>
    BY <1>1, <1>2, <1>8
  <2>2. u \in Seq(OrderItems) /\ DOMAIN u = {1} /\ u[1] = first /\ u # << >>
    BY <1>4, <1>8, <2>1
  <2>3. AllOf(u, sig, side)
    BY <1>4, <1>6, <1>8, <2>2 DEF AllOf
  <2>4. side = "SELL" => Legs(u, OddOrders, Bucket(sig), q)
    BY <1>1, <1>4, <1>6, <1>8, <2>2 DEF Legs, Sells, rest
  <2> QED BY <2>2, <2>3, <2>4
<1>9. CASE board = 0
  <2>1. u = << second >> /\ rest > 0
    BY <1>1, <1>2, <1>9
  <2>2. u \in Seq(OrderItems) /\ DOMAIN u = {1} /\ u[1] = second /\ u # << >>
    BY <1>5, <2>1
  <2>3. AllOf(u, sig, side)
    BY <1>5, <1>6, <2>1, <2>2 DEF AllOf
  <2>4. side = "SELL" => Legs(u, OddOrders, Bucket(sig), q)
    BY <1>1, <1>5, <1>6, <1>9, <2>1, <2>2 DEF Legs, Sells, rest
  <2> QED BY <2>2, <2>3, <2>4
<1> QED BY <1>1, <1>7, <1>8, <1>9

\* Orders that sell nothing of a bucket leave its legs as they are, before or after.
LEMMA LegsFirst ==
  ASSUME NEW T, NEW s \in Seq(T), NEW u \in Seq(T), NEW odds, NEW b, NEW n,
         \A k \in DOMAIN u : ~ Sells(u[k], b), Legs(s, odds, b, n)
  PROVE  Legs(s \o u, odds, b, n)
<1>1. PICK t : t = s \o u
  OBVIOUS
<1>2. PICK l, m : l = Len(s) /\ m = Len(u)
  OBVIOUS
<1>3. /\ l \in Nat /\ m \in Nat /\ DOMAIN s = 1 .. l /\ DOMAIN u = 1 .. m /\ DOMAIN t = 1 .. l + m
      /\ \A i \in 1 .. l + m : t[i] = IF i <= l THEN s[i] ELSE u[i - l]
  BY <1>1, <1>2, ConcatProperties, LenProperties
<1>4. ASSUME NEW i \in 1 .. l + m, Sells(t[i], b) PROVE i \in 1 .. l /\ t[i] = s[i]
  <2>1. CASE i <= l
    BY <1>3, <2>1
  <2>2. CASE ~ (i <= l)
    <3>1. i - l \in 1 .. m /\ t[i] = u[i - l]
      BY <1>3, <2>2
    <3> QED BY <1>3, <1>4, <3>1
  <2> QED BY <2>1, <2>2
<1>5. \A i \in 1 .. l : i \in 1 .. l + m /\ t[i] = s[i]
  BY <1>3
<1> DEFINE e == [ i \in 1 .. l + m |-> i ]
<1>6. \A i \in 1 .. l + m : e[i] = i
  OBVIOUS
<1> HIDE DEF e
<1>7. Along(e, s, odds, t, odds, b)
  BY <1>3, <1>4, <1>5, <1>6 DEF Along
<1> QED BY <1>1, <1>7, LegsAlong

\* The legs that sell n shares stay those after orders that sell none of them.
LEMMA LegsLast ==
  ASSUME NEW T, NEW s \in Seq(T), NEW u \in Seq(T), NEW odds, NEW b, NEW n,
         \A k \in DOMAIN s : ~ Sells(s[k], b), Legs(u, odds, b, n)
  PROVE  Legs(s \o u, odds, b, n)
<1>1. PICK t : t = s \o u
  OBVIOUS
<1>2. PICK l, m : l = Len(s) /\ m = Len(u)
  OBVIOUS
<1>3. /\ l \in Nat /\ m \in Nat /\ DOMAIN s = 1 .. l /\ DOMAIN u = 1 .. m /\ DOMAIN t = 1 .. l + m
      /\ \A i \in 1 .. l + m : t[i] = IF i <= l THEN s[i] ELSE u[i - l]
  BY <1>1, <1>2, ConcatProperties, LenProperties
<1>4. ASSUME NEW i \in 1 .. l + m, Sells(t[i], b) PROVE i - l \in 1 .. m /\ t[i] = u[i - l]
  <2>1. CASE i <= l
    <3>1. i \in 1 .. l /\ t[i] = s[i]
      BY <1>3, <2>1
    <3> QED BY <1>3, <1>4, <3>1
  <2>2. CASE ~ (i <= l)
    BY <1>3, <2>2
  <2> QED BY <2>1, <2>2
<1>5. ASSUME NEW k \in 1 .. m PROVE l + k \in 1 .. l + m /\ t[l + k] = u[k] /\ (l + k) - l = k
  <2>1. l + k \in 1 .. l + m /\ ~ (l + k <= l) /\ (l + k) - l = k
    BY <1>3
  <2> QED BY <1>3, <2>1
<1> DEFINE e == [ i \in 1 .. l + m |-> i - l ]
<1>6. \A i \in 1 .. l + m : e[i] = i - l
  OBVIOUS
<1> HIDE DEF e
<1>7. Along(e, u, odds, t, odds, b)
  <2>1. \A j \in DOMAIN t : Sells(t[j], b) => e[j] \in DOMAIN u /\ u[e[j]] = t[j]
    BY <1>3, <1>4, <1>6
  <2>2. \A i, j \in DOMAIN t : (e[i] < e[j] => i < j) /\ (e[i] = e[j] => i = j)
    BY <1>3, <1>6
  <2>3. \A i \in DOMAIN u : \E j \in DOMAIN t : e[j] = i /\ t[j] = u[i]
    BY <1>3, <1>5, <1>6
  <2> QED BY <2>1, <2>2, <2>3 DEF Along
<1> QED BY <1>1, <1>7, LegsAlong

-----------------------------------------------------------------------------
(* What the SELL list of a plan leaves. *)

\* Where the members of s are in t, if u follows.
Joined(s, u, t, l) ==
  /\ l \in Nat /\ DOMAIN s = 1 .. l
  /\ \A i \in DOMAIN t : (i \in DOMAIN s /\ t[i] = s[i]) \/ (i - l \in DOMAIN u /\ t[i] = u[i - l])
  /\ \A i \in DOMAIN s : i \in DOMAIN t /\ t[i] = s[i]
  /\ \A k \in DOMAIN u : l + k \in DOMAIN t /\ t[l + k] = u[k] /\ k \in Nat \ {0}
  /\ DOMAIN t \subseteq Nat \ {0}

\* What a concatenation is made of, without the operator.
LEMMA JoinParts ==
  ASSUME NEW T, NEW s \in Seq(T), NEW u \in Seq(T), NEW t, t = s \o u, NEW l, l = Len(s)
  PROVE  t \in Seq(T) /\ Joined(s, u, t, l)
<1>1. PICK m, v : m = Len(u) /\ v = t
  OBVIOUS
<1>2. /\ l \in Nat /\ m \in Nat /\ DOMAIN s = 1 .. l /\ DOMAIN u = 1 .. m
      /\ v \in Seq(T) /\ DOMAIN v = 1 .. l + m
      /\ \A i \in 1 .. l + m : v[i] = IF i <= l THEN s[i] ELSE u[i - l]
  BY <1>1, ConcatProperties, LenProperties
<1>3. ASSUME NEW i \in 1 .. l + m
      PROVE  (i \in 1 .. l /\ v[i] = s[i]) \/ (i - l \in 1 .. m /\ v[i] = u[i - l])
  <2>1. CASE i <= l
    BY <1>2, <2>1
  <2>2. CASE ~ (i <= l)
    BY <1>2, <2>2
  <2> QED BY <2>1, <2>2
<1>4. ASSUME NEW k \in 1 .. m PROVE l + k \in 1 .. l + m /\ v[l + k] = u[k]
  <2>1. l + k \in 1 .. l + m /\ ~ (l + k <= l) /\ (l + k) - l = k
    BY <1>2
  <2> QED BY <1>2, <2>1
<1>5. \A i \in 1 .. l : i \in 1 .. l + m /\ v[i] = s[i]
  BY <1>2
<1>6. (\A k \in 1 .. m : k \in Nat \ {0}) /\ 1 .. l + m \subseteq Nat \ {0}
  BY <1>2
<1>7. \A k \in 1 .. m : l + k \in 1 .. l + m /\ v[l + k] = u[k] /\ k \in Nat \ {0}
  BY <1>4, <1>6
<1>8. Joined(s, u, v, l)
  BY <1>2, <1>3, <1>5, <1>6, <1>7 DEF Joined
<1> QED BY <1>1, <1>2, <1>8

\* The order is one of a signal.
Places(o, sigs) == \E sig \in sigs : o.id = sig.id /\ Bucket(sig) = Of(o)

\* Exits for the signals: a bucket is untouched, or its symbol is netted, nothing
\* is left and the orders sell what it held.
Sellings(p0, sigs) ==
  { acc \in [ p : PlanStates, orders : Seq(OrderItems) ] :
      /\ \A k \in DOMAIN acc.orders : acc.orders[k].side = "SELL" /\ Places(acc.orders[k], sigs)
      /\ \A b \in Strategies \X Symbols :
           \/ /\ acc.p.pos[b] = p0.pos[b]
              /\ \A k \in DOMAIN acc.orders : Of(acc.orders[k]) # b
           \/ /\ acc.p.pos[b] = 0 /\ b[2] \in acc.p.netted
              /\ Legs(acc.orders, OddOrders, b, p0.pos[b]) }

\* The parts of the state after an exit.
LEMMA SellParts ==
  ASSUME NEW p \in PlanStates, NEW sig \in SignalItems, NEW r, r = AfterSell(p, sig)
  PROVE  /\ r \in PlanStates /\ Bucket(sig) \in Strategies \X Symbols
         /\ r.pos[Bucket(sig)] = 0 /\ sig.symbol \in r.netted /\ p.netted \subseteq r.netted
         /\ \A b \in Strategies \X Symbols : b # Bucket(sig) => r.pos[b] = p.pos[b]
<1>1. r \in PlanStates
  BY SellState
<1>2. PICK c, y : c = Bucket(sig) /\ y = sig.symbol
  OBVIOUS
<1>3. c \in Strategies \X Symbols
  BY <1>2 DEF SignalItems, Bucket
<1>4. PICK ps, nt : ps = [ p.pos EXCEPT ![c] = 0 ] /\ nt = p.netted \cup {y}
  OBVIOUS
<1>5. r = [ [ p EXCEPT !.pos = ps ] EXCEPT !.netted = nt ]
  BY <1>2, <1>4, StateParts DEF AfterSell
<1>6. r.pos = ps /\ r.netted = nt
  BY <1>5, StateParts
<1>7. ps[c] = 0 /\ \A b \in Strategies \X Symbols : b # c => ps[b] = p.pos[b]
  BY <1>3, <1>4, StateParts
<1> QED BY <1>1, <1>2, <1>3, <1>4, <1>6, <1>7

\* The bucket of the signal holds nothing, and no bucket that held nothing does.
Emptied(acc, next, sig) ==
  /\ next.p.pos[Bucket(sig)] = 0
  /\ \A b \in Strategies \X Symbols : acc.p.pos[b] = 0 => next.p.pos[b] = 0

\* One more SELL signal.
LEMMA SellAdded ==
  ASSUME NEW sigs \in SUBSET SignalItems, NEW sig \in sigs, NEW p0 \in PlanStates,
         NEW acc \in Sellings(p0, sigs), NEW next, next = PlanSell(acc, sig)
  PROVE  next \in Sellings(p0, sigs) /\ Emptied(acc, next, sig)
<1>1. PICK bk : bk = Bucket(sig)
  OBVIOUS
<1>2. /\ acc.p \in PlanStates /\ acc.orders \in Seq(OrderItems) /\ sig \in SignalItems
      /\ bk \in Strategies \X Symbols /\ bk[2] = sig.symbol
  BY <1>1 DEF Sellings, SignalItems, Bucket
<1>3. PICK q : q = acc.p.pos[bk]
  OBVIOUS
<1>4. q \in Nat
  BY <1>2, <1>3, StateParts
<1>5. CASE ~ SellPossible(acc.p, sig)
  <2>1. next = acc
    BY <1>5 DEF PlanSell
  <2>2. q = 0
    BY <1>1, <1>3, <1>4, <1>5 DEF SellPossible
  <2> QED BY <1>1, <1>3, <2>1, <2>2 DEF Emptied
<1>6. CASE SellPossible(acc.p, sig)
  <2>1. q \in Nat \ {0}
    BY <1>1, <1>3, <1>4, <1>6 DEF SellPossible
  <2>2. PICK side, u : side = "SELL" /\ u = SplitLotOrders(sig, side, q)
    OBVIOUS
  <2>3. /\ next = [ p |-> next.p, orders |-> next.orders ]
        /\ next.p = AfterSell(acc.p, sig) /\ next.orders = acc.orders \o u
    <3>1. next = [ p |-> AfterSell(acc.p, sig), orders |-> acc.orders \o SellOrders(acc.p, sig) ]
      BY <1>6 DEF PlanSell
    <3>2. SellOrders(acc.p, sig) = u
      BY <1>1, <1>3, <2>2 DEF SellOrders
    <3> QED BY <3>1, <3>2
  <2>4. /\ u \in Seq(OrderItems) /\ AllOf(u, sig, side) /\ Legs(u, OddOrders, bk, q)
    BY <1>1, <1>2, <2>1, <2>2, SplitLegs DEF Sides
  <2>5. /\ next.p \in PlanStates /\ next.p.pos[bk] = 0 /\ bk[2] \in next.p.netted
        /\ acc.p.netted \subseteq next.p.netted
        /\ \A b \in Strategies \X Symbols : b # bk => next.p.pos[b] = acc.p.pos[b]
    BY <1>1, <1>2, <2>3, SellParts
  <2>6. PICK s, t, l : s = acc.orders /\ t = next.orders /\ l = Len(s)
    OBVIOUS
  <2>7. s \in Seq(OrderItems) /\ t = s \o u /\ t \in Seq(OrderItems) /\ Joined(s, u, t, l)
    BY <1>2, <2>3, <2>4, <2>6, JoinParts
  <2>8. \A k \in DOMAIN u : u[k].side = "SELL" /\ Of(u[k]) = bk /\ u[k].id = sig.id
    BY <1>1, <2>2, <2>4 DEF AllOf, Of, Bucket
  <2>9. ASSUME NEW k \in DOMAIN t PROVE t[k].side = "SELL" /\ Places(t[k], sigs)
    <3>1. CASE k \in DOMAIN s /\ t[k] = s[k]
      BY <2>6, <3>1 DEF Sellings
    <3>2. CASE k - l \in DOMAIN u /\ t[k] = u[k - l]
      BY <1>1, <2>8, <3>2 DEF Places
    <3> QED BY <2>7, <3>1, <3>2 DEF Joined
  <2>10. ASSUME NEW b \in Strategies \X Symbols
         PROVE  \/ /\ next.p.pos[b] = p0.pos[b]
                   /\ \A k \in DOMAIN t : Of(t[k]) # b
                \/ /\ next.p.pos[b] = 0 /\ b[2] \in next.p.netted
                   /\ Legs(t, OddOrders, b, p0.pos[b])
    <3>1. \/ acc.p.pos[b] = p0.pos[b] /\ \A k \in DOMAIN s : Of(s[k]) # b
          \/ acc.p.pos[b] = 0 /\ b[2] \in acc.p.netted /\ Legs(s, OddOrders, b, p0.pos[b])
      BY <2>6 DEF Sellings
    <3>2. CASE b = bk
      <4>1. p0.pos[bk] = q /\ \A k \in DOMAIN s : Of(s[k]) # bk
        BY <1>3, <2>1, <3>1, <3>2
      <4>2. \A k \in DOMAIN s : ~ Sells(s[k], bk)
        BY <4>1 DEF Sells
      <4>3. Legs(t, OddOrders, bk, q)
        BY <2>4, <2>7, <4>2, LegsLast
      <4> QED BY <2>5, <3>2, <4>1, <4>3
    <3>3. CASE b # bk
      <4>1. \A k \in DOMAIN u : ~ Sells(u[k], b) /\ Of(u[k]) # b
        BY <2>8, <3>3 DEF Sells
      <4>2. CASE acc.p.pos[b] = p0.pos[b] /\ \A k \in DOMAIN s : Of(s[k]) # b
        <5>1. \A k \in DOMAIN t : Of(t[k]) # b
          BY <2>7, <4>1, <4>2 DEF Joined
        <5> QED BY <2>5, <3>3, <4>2, <5>1
      <4>3. CASE acc.p.pos[b] = 0 /\ b[2] \in acc.p.netted /\ Legs(s, OddOrders, b, p0.pos[b])
        <5>1. Legs(t, OddOrders, b, p0.pos[b])
          BY <2>4, <2>7, <4>1, <4>3, LegsFirst
        <5> QED BY <2>5, <3>3, <4>3, <5>1
      <4> QED BY <3>1, <4>2, <4>3
    <3> QED BY <3>2, <3>3
  <2>11. next \in [ p : PlanStates, orders : Seq(OrderItems) ]
    BY <2>3, <2>5, <2>6, <2>7
  <2>12. next \in Sellings(p0, sigs)
    BY <2>6, <2>9, <2>10, <2>11 DEF Sellings
  <2>13. \A b \in Strategies \X Symbols : acc.p.pos[b] = 0 => next.p.pos[b] = 0
    BY <2>5
  <2> QED BY <1>1, <2>5, <2>12, <2>13 DEF Emptied
<1> QED BY <1>5, <1>6

\* The SELL list: in the end no bucket of a signal holds anything.
LEMMA AllSold ==
  ASSUME NEW sells \in Seq(SignalItems), NEW p0 \in PlanStates, NEW acc, NEW last,
         acc = [ p |-> p0, orders |-> << >> ], last = AfterSells(acc, sells)
  PROVE  /\ last \in Sellings(p0, ToSet(sells))
         /\ \A sig \in ToSet(sells) : last.p.pos[Bucket(sig)] = 0
<1>1. PICK sigs, n : sigs = ToSet(sells) /\ n = Len(sells)
  OBVIOUS
<1>2. /\ n \in Nat /\ DOMAIN sells = 1 .. n /\ sigs \in SUBSET SignalItems
      /\ \A i \in 1 .. n : sells[i] \in sigs
  BY <1>1, LenProperties, OwnSeq DEF ToSet
<1>3. acc \in Sellings(p0, sigs)
  <2>1. << >> \in Seq(OrderItems) /\ DOMAIN << >> = {}
    OBVIOUS
  <2>2. acc \in [ p : PlanStates, orders : Seq(OrderItems) ] /\ acc.p = p0 /\ acc.orders = << >>
    BY <2>1
  <2> QED BY <2>1, <2>2 DEF Sellings
<1>4. PICK P : P = Sellings(p0, sigs)
  OBVIOUS
<1>5. \A i \in 1 .. n : \A a \in P : PlanSell(a, sells[i]) \in P
  BY <1>2, <1>4, SellAdded
<1>6. acc \in P
  BY <1>3, <1>4
<1>7. PICK g : SellSteps(g, P, acc, sells)
  BY <1>1, <1>2, <1>5, <1>6, SellsRun
<1>8. /\ g \in [0 .. n -> P] /\ last = g[n]
      /\ \A i \in 1 .. n : g[i] = PlanSell(g[i - 1], sells[i])
  BY <1>1, <1>7 DEF SellSteps
<1>9. \A i \in 1 .. n : Bucket(sells[i]) \in Strategies \X Symbols
  BY <1>2 DEF Bucket, SignalItems
<1> DEFINE U == { i \in 0 .. n : \A j \in 1 .. i : g[i].p.pos[Bucket(sells[j])] = 0 }
<1>10. 0 \in U
  BY <1>2
<1>11. ASSUME NEW i \in 1 .. n, i - 1 \in U PROVE i \in U
  <2>1. i - 1 \in 0 .. n /\ i \in 0 .. n
    BY <1>2
  <2>2. PICK a, c : a = g[i - 1] /\ c = g[i]
    OBVIOUS
  <2>3. a \in Sellings(p0, sigs) /\ c = PlanSell(a, sells[i]) /\ sells[i] \in sigs
    BY <1>2, <1>4, <1>8, <2>1, <2>2
  <2>4. /\ c.p.pos[Bucket(sells[i])] = 0
        /\ \A b \in Strategies \X Symbols : a.p.pos[b] = 0 => c.p.pos[b] = 0
    <3>1. PICK z : z = sells[i]
      OBVIOUS
    <3>2. z \in sigs /\ c = PlanSell(a, z)
      BY <2>3, <3>1
    <3>3. Emptied(a, c, z)
      BY <1>2, <2>3, <3>2, SellAdded
    <3> QED BY <3>1, <3>3 DEF Emptied
  <2>5. ASSUME NEW j \in 1 .. i PROVE c.p.pos[Bucket(sells[j])] = 0
    <3>1. CASE j = i
      BY <2>4, <3>1
    <3>2. CASE j # i
      <4>1. j \in 1 .. i - 1 /\ j \in 1 .. n
        BY <1>2, <3>2
      <4>2. a.p.pos[Bucket(sells[j])] = 0
        BY <1>11, <2>2, <4>1
      <4> QED BY <1>9, <2>4, <4>1, <4>2
    <3> QED BY <3>1, <3>2
  <2> QED BY <2>1, <2>2, <2>5
<1>12. n \in U
  <2> HIDE DEF U
  <2>1. 0 .. n \subseteq U
    BY <1>2, <1>10, <1>11, Upwards
  <2> QED BY <1>2, <2>1
<1>13. ASSUME NEW sig \in ToSet(sells) PROVE last.p.pos[Bucket(sig)] = 0
  <2>1. PICK j \in 1 .. n : sells[j] = sig
    BY <1>2 DEF ToSet
  <2> QED BY <1>8, <1>12, <2>1
<1>14. last \in P
  BY <1>2, <1>8
<1> QED BY <1>1, <1>4, <1>13, <1>14

-----------------------------------------------------------------------------
(* What the BUY list of a plan leaves. *)

\* Entries that follow first: each of a bucket that held nothing, in a symbol that
\* is not netted, and while they are made the open symbols are within the limit.
Enters(first, acc, sigs, more) ==
  /\ acc.orders = first.orders \o more
  /\ \A k \in DOMAIN more :
       /\ more[k].side = "BUY" /\ Places(more[k], sigs)
       /\ Of(more[k]) \in Strategies \X Symbols
       /\ first.p.pos[Of(more[k])] = 0 /\ Of(more[k])[2] \notin first.p.netted
       /\ acc.p.pos[Of(more[k])] > 0

Buyings(first, lim, sigs) ==
  { acc \in [ p : PlanStates, orders : Seq(OrderItems) ] :
      /\ acc.p.netted = first.p.netted
      /\ \A b \in Strategies \X Symbols : first.p.pos[b] <= acc.p.pos[b]
      /\ \E more \in Seq(OrderItems) :
           /\ Enters(first, acc, sigs, more)
           /\ more # << >> => Cardinality(OpenSymbols(acc.p.pos)) <= lim.globalOpen }

\* Open symbols are finitely many, and fewer if all of them are open elsewhere.
LEMMA OpenFinite ==
  ASSUME NEW a, DOMAIN a = Strategies \X Symbols
  PROVE  /\ IsFiniteSet(OpenSymbols(a)) /\ OpenSymbols(a) \subseteq Symbols
         /\ Cardinality(OpenSymbols(a)) \in Nat
         /\ \A T \in SUBSET OpenSymbols(a) :
              Cardinality(T) \in Nat /\ Cardinality(T) <= Cardinality(OpenSymbols(a))
<1>1. OpenSymbols(a) \subseteq Symbols
  BY DEF OpenSymbols
<1>2. IsFiniteSet(OpenSymbols(a))
  BY <1>1, SymbolsAssumption, FS_Subset
<1> QED BY <1>1, <1>2, FS_Subset, FS_CardinalityType

\* The parts of the state after an entry.
LEMMA BuyParts ==
  ASSUME NEW p \in PlanStates, NEW sig \in SignalItems, NEW q \in Nat \ {0},
         NEW r, r = AfterBuy(p, sig, q)
  PROVE  /\ r \in PlanStates /\ Bucket(sig) \in Strategies \X Symbols
         /\ r.pos[Bucket(sig)] = p.pos[Bucket(sig)] + q /\ r.netted = p.netted
         /\ \A b \in Strategies \X Symbols : b # Bucket(sig) => r.pos[b] = p.pos[b]
<1>1. r \in PlanStates
  BY BuyState DEF BuyOf
<1>2. PICK c : c = Bucket(sig)
  OBVIOUS
<1>3. c \in Strategies \X Symbols
  BY <1>2 DEF SignalItems, Bucket
<1>4. PICK ps : ps = [ p.pos EXCEPT ![c] = @ + q ]
  OBVIOUS
<1>5. r.pos = ps /\ r.netted = p.netted
  BY <1>2, <1>4 DEF AfterBuy
<1>6. ps[c] = p.pos[c] + q /\ \A b \in Strategies \X Symbols : b # c => ps[b] = p.pos[b]
  BY <1>3, <1>4, StateParts
<1> QED BY <1>1, <1>2, <1>3, <1>5, <1>6

\* next is the plan acc with the entry of q shares of sig added.
Enlarges(acc, sig, q, next) ==
  next = [ p |-> AfterBuy(acc.p, sig, q),
           orders |-> acc.orders \o SplitLotOrders(sig, "BUY", q) ]

\* What a BUY signal that is not blocked does.
LEMMA BuySize ==
  ASSUME NEW lim \in Limits, NEW sig \in SignalItems, NEW acc, NEW next,
         next = PlanBuy(lim, acc, sig),
         BuyAllowed(acc.p, lim, sig), Affordable(acc.p, lim, sig, 1)
  PROVE  \E q \in Nat \ {0} : Enlarges(acc, sig, q, next)
<1> DEFINE top == lim.budget[sig.strategy] \div sig.price
           q   == top - CHOOSE k \in 0 .. top : Sized(acc.p, lim, sig, top - k)
<1>1. Sized(acc.p, lim, sig, q)
  BY SizeExists
<1>2. Enlarges(acc, sig, q, next)
  BY DEF PlanBuy, BuyOrders, Enlarges
<1> HIDE DEF q
<1>3. q \in 1 .. top
  BY <1>1 DEF Sized
<1>4. PICK m : m = top
  OBVIOUS
<1>5. q \in Nat \ {0}
  BY <1>3, <1>4
<1> QED BY <1>2, <1>5

\* One more BUY signal.
LEMMA BuyAdded ==
  ASSUME NEW sigs \in SUBSET SignalItems, NEW sig \in sigs, NEW first, NEW lim \in Limits,
         first.p \in PlanStates, first.orders \in Seq(OrderItems),
         NEW acc \in Buyings(first, lim, sigs), NEW next, next = PlanBuy(lim, acc, sig)
  PROVE  next \in Buyings(first, lim, sigs)
<1>1. CASE ~ (BuyAllowed(acc.p, lim, sig) /\ Affordable(acc.p, lim, sig, 1))
  BY <1>1 DEF PlanBuy
<1>2. CASE BuyAllowed(acc.p, lim, sig) /\ Affordable(acc.p, lim, sig, 1)
  <2>1. PICK bk, side : bk = Bucket(sig) /\ side = "BUY"
    OBVIOUS
  <2>2. /\ acc.p \in PlanStates /\ acc.orders \in Seq(OrderItems) /\ sig \in SignalItems
        /\ acc.p.netted = first.p.netted
        /\ \A b \in Strategies \X Symbols : first.p.pos[b] <= acc.p.pos[b]
    BY DEF Buyings
  <2>3. PICK more \in Seq(OrderItems) : Enters(first, acc, sigs, more)
    BY DEF Buyings
  <2>4. PICK q \in Nat \ {0} : Enlarges(acc, sig, q, next)
    BY <1>2, <2>2, BuySize
  <2>5. PICK u : u = SplitLotOrders(sig, side, q)
    OBVIOUS
  <2>6. /\ next = [ p |-> next.p, orders |-> next.orders ]
        /\ next.p = AfterBuy(acc.p, sig, q) /\ next.orders = acc.orders \o u
    BY <2>1, <2>4, <2>5 DEF Enlarges
  <2>7. u \in Seq(OrderItems) /\ AllOf(u, sig, side) /\ u # << >>
    BY <2>1, <2>2, <2>5, SplitLegs DEF Sides
  <2>8. /\ next.p \in PlanStates /\ bk \in Strategies \X Symbols
        /\ next.p.pos[bk] = acc.p.pos[bk] + q /\ next.p.netted = acc.p.netted
        /\ \A b \in Strategies \X Symbols : b # bk => next.p.pos[b] = acc.p.pos[b]
    BY <2>1, <2>2, <2>6, BuyParts
  <2>9. /\ acc.p.pos[bk] = 0 /\ bk[2] \notin acc.p.netted
        /\ Cardinality(OpenSymbols(acc.p.pos)) < lim.globalOpen
    BY <1>2, <2>1 DEF BuyAllowed, NotNetted, NoAdd, WithinOpenLimits, Bucket
  <2>10. /\ \A b \in Strategies \X Symbols :
              first.p.pos[b] \in Nat /\ acc.p.pos[b] \in Nat /\ next.p.pos[b] \in Nat
         /\ DOMAIN acc.p.pos = Strategies \X Symbols
         /\ DOMAIN next.p.pos = Strategies \X Symbols
    BY <2>2, <2>8, StateParts
  <2>11. ASSUME NEW b \in Strategies \X Symbols
         PROVE  first.p.pos[b] <= next.p.pos[b] /\ (acc.p.pos[b] > 0 => next.p.pos[b] > 0)
    <3>1. first.p.pos[b] <= acc.p.pos[b] /\ next.p.pos[b] \in {acc.p.pos[b], acc.p.pos[b] + q}
      BY <2>2, <2>8
    <3> QED BY <2>1, <2>10, <3>1
  <2>12. first.p.pos[bk] = 0 /\ bk[2] \notin first.p.netted /\ next.p.pos[bk] > 0
    BY <2>2, <2>8, <2>9, <2>10
  <2>13. PICK all, l : all = more \o u /\ l = Len(more)
    OBVIOUS
  <2>14. all \in Seq(OrderItems) /\ Joined(more, u, all, l)
    BY <2>7, <2>13, JoinParts
  <2>15. next.orders = first.orders \o all
    <3>1. acc.orders = first.orders \o more
      BY <2>3 DEF Enters
    <3>2. PICK a, c : a = first.orders /\ c = more
      OBVIOUS
    <3>3. a \in Seq(OrderItems) /\ c \in Seq(OrderItems)
      BY <3>2
    <3>4. (a \o c) \o u = a \o (c \o u)
      BY <2>7, <3>3, ConcatAssociative
    <3> QED BY <2>6, <2>13, <3>1, <3>2, <3>4
  <2>16. \A k \in DOMAIN u : u[k].side = "BUY" /\ Of(u[k]) = bk /\ Places(u[k], sigs)
    BY <2>1, <2>7 DEF AllOf, Of, Bucket, Places
  <2>17. ASSUME NEW k \in DOMAIN all
         PROVE  /\ all[k].side = "BUY" /\ Places(all[k], sigs)
                /\ Of(all[k]) \in Strategies \X Symbols
                /\ first.p.pos[Of(all[k])] = 0 /\ Of(all[k])[2] \notin first.p.netted
                /\ next.p.pos[Of(all[k])] > 0
    <3>1. CASE k \in DOMAIN more /\ all[k] = more[k]
      BY <2>3, <2>11, <3>1 DEF Enters
    <3>2. CASE k - l \in DOMAIN u /\ all[k] = u[k - l]
      BY <2>8, <2>12, <2>16, <3>2
    <3> QED BY <2>14, <3>1, <3>2 DEF Joined
  <2>18. Enters(first, next, sigs, all)
    BY <2>15, <2>17 DEF Enters
  <2>19. Cardinality(OpenSymbols(next.p.pos)) <= lim.globalOpen
    <3>1. PICK S, T, x : S = OpenSymbols(acc.p.pos) /\ T = OpenSymbols(next.p.pos) /\ x = bk[2]
      OBVIOUS
    <3>2. ASSUME NEW y \in T PROVE y \in S \cup {x}
      <4>1. PICK c \in Strategies \X Symbols : next.p.pos[c] > 0 /\ y = c[2]
        BY <2>10, <3>1 DEF OpenSymbols
      <4>2. CASE c = bk
        BY <3>1, <4>1, <4>2
      <4>3. CASE c # bk
        <5>1. acc.p.pos[c] > 0
          BY <2>8, <4>1, <4>3
        <5> QED BY <2>10, <3>1, <4>1, <5>1 DEF OpenSymbols
      <4> QED BY <4>2, <4>3
    <3>3. IsFiniteSet(S) /\ Cardinality(S) \in Nat
      BY <2>10, <3>1, OpenFinite
    <3>v. PICK V : V = S \cup {x}
      OBVIOUS
    <3>4. IsFiniteSet(V) /\ Cardinality(V) \in Nat /\ Cardinality(V) <= Cardinality(S) + 1
      <4>1. IsFiniteSet(V) /\ (Cardinality(V) = Cardinality(S) \/ Cardinality(V) = Cardinality(S) + 1)
        BY <3>3, <3>v, FS_AddElement
      <4> QED BY <3>3, <4>1
    <3>t. T \in SUBSET V
      BY <3>2, <3>v
    <3>5. Cardinality(T) <= Cardinality(V) /\ Cardinality(T) \in Nat
      <4>1. Cardinality(T) <= Cardinality(V)
        BY <3>4, <3>t, FS_Subset
      <4>2. Cardinality(T) \in Nat
        BY <2>10, <3>1, OpenFinite
      <4> QED BY <4>1, <4>2
    <3>6. lim.globalOpen \in Nat
      BY DEF Limits
    <3> QED BY <2>9, <3>1, <3>3, <3>4, <3>5, <3>6
  <2>20. next \in [ p : PlanStates, orders : Seq(OrderItems) ]
    <3>1. next.orders \in Seq(OrderItems)
      BY <2>2, <2>6, <2>7, ConcatProperties
    <3> QED BY <2>6, <2>8, <3>1
  <2> QED BY <2>2, <2>8, <2>11, <2>14, <2>18, <2>19, <2>20 DEF Buyings
<1> QED BY <1>1, <1>2

\* The BUY list.
LEMMA AllEntered ==
  ASSUME NEW buys \in Seq(SignalItems), NEW lim \in Limits, NEW first,
         first \in [ p : PlanStates, orders : Seq(OrderItems) ],
         NEW last, last = AfterBuys(first, lim, buys)
  PROVE  last \in Buyings(first, lim, ToSet(buys))
<1>1. PICK sigs, n : sigs = ToSet(buys) /\ n = Len(buys)
  OBVIOUS
<1>2. /\ n \in Nat /\ sigs \in SUBSET SignalItems
      /\ \A i \in 1 .. n : buys[i] \in sigs
  BY <1>1, LenProperties, OwnSeq DEF ToSet
<1>3. first.p \in PlanStates /\ first.orders \in Seq(OrderItems)
  OBVIOUS
<1>4. first \in Buyings(first, lim, sigs)
  <2>1. << >> \in Seq(OrderItems) /\ DOMAIN << >> = {}
    OBVIOUS
  <2>2. first.orders = first.orders \o << >>
    BY <1>3, ConcatEmptySeq
  <2>3. Enters(first, first, sigs, << >>)
    BY <2>1, <2>2 DEF Enters
  <2>4. \A b \in Strategies \X Symbols : first.p.pos[b] <= first.p.pos[b]
    <3>1. \A b \in Strategies \X Symbols : first.p.pos[b] \in Nat
      BY <1>3, StateParts
    <3> QED BY <3>1
  <2> QED BY <2>1, <2>3, <2>4 DEF Buyings
<1>5. PICK P : P = Buyings(first, lim, sigs)
  OBVIOUS
<1>6. \A i \in 1 .. n : \A a \in P : PlanBuy(lim, a, buys[i]) \in P
  BY <1>2, <1>3, <1>5, BuyAdded
<1>7. first \in P
  BY <1>4, <1>5
<1>8. PICK g : BuySteps(g, P, first, lim, buys)
  BY <1>1, <1>2, <1>6, <1>7, BuysRun
<1>9. g \in [0 .. n -> P] /\ last = g[n] /\ n \in 0 .. n
  BY <1>1, <1>2, <1>8 DEF BuySteps
<1> QED BY <1>1, <1>5, <1>9

-----------------------------------------------------------------------------
(* The shape of a plan. *)

\* SELLs come before BUYs.
SellsFirst(t) ==
  \A i, j \in DOMAIN t : i < j /\ t[j].side = "SELL" => t[i].side = "SELL"

\* No bucket is both entered and left.
OneWay(t) ==
  \A i, j \in DOMAIN t : t[i].side = "SELL" /\ t[j].side = "BUY" => Of(t[i]) # Of(t[j])

\* Symbols of the buckets that are held and not left, or entered.
KeptOpen(a, t) ==
  { b[2] : b \in { c \in Strategies \X Symbols :
                     \/ a[c] > 0 /\ \A i \in DOMAIN t : ~ Sells(t[i], c)
                     \/ \E i \in DOMAIN t : t[i].side = "BUY" /\ Of(t[i]) = c } }

\* What a plan for holdings a is: the exits of the signals in S and entries for
\* signals in B, of buckets that hold nothing.
Shaped(t, a, limit, S, B) ==
  /\ t \in Seq(OrderItems)
  /\ \A i \in DOMAIN t : Places(t[i], IF t[i].side = "SELL" THEN S ELSE B)
  /\ SellsFirst(t) /\ OneWay(t)
  /\ \A i \in DOMAIN t : t[i].side = "SELL" => Legs(t, OddOrders, Of(t[i]), a[Of(t[i])])
  /\ \A i \in DOMAIN t : t[i].side = "BUY" => a[Of(t[i])] = 0
  /\ \A sig \in S : Legs(t, OddOrders, Bucket(sig), a[Bucket(sig)])
  /\ (\E i \in DOMAIN t : t[i].side = "BUY") => Cardinality(KeptOpen(a, t)) <= limit

\* A bucket of nothing needs no orders.
LEMMA NoLegs ==
  ASSUME NEW s, NEW odds, NEW b, \A i \in DOMAIN s : ~ Sells(s[i], b)
  PROVE  Legs(s, odds, b, 0)
BY DEF Legs, BoardLot

\* A bucket of something needs an order.
LEMMA SomeLegs ==
  ASSUME NEW s, NEW odds, NEW b, NEW n \in Nat \ {0}, Legs(s, odds, b, n)
  PROVE  \E i \in DOMAIN s : Sells(s[i], b)
<1>1. n >= BoardLot \/ n % BoardLot # 0
  BY DEF BoardLot
<1> QED BY <1>1 DEF Legs

\* plan() makes such plans.
LEMMA PlanShape ==
  ASSUME NEW p0 \in PlanStates, NEW lim \in Limits,
         NEW sells \in Seq(SignalItems), NEW buys \in Seq(SignalItems),
         NEW orders, orders = Plan(p0, lim, sells, buys)
  PROVE  Shaped(orders, p0.pos, lim.globalOpen, ToSet(sells), ToSet(buys))
<1>1. PICK S, B, a : S = ToSet(sells) /\ B = ToSet(buys) /\ a = p0.pos
  OBVIOUS
<1>2. PICK start : start = [ p |-> p0, orders |-> << >> ]
  OBVIOUS
<1>3. PICK first : first = AfterSells(start, sells)
  OBVIOUS
<1>4. PICK last : last = AfterBuys(first, lim, buys)
  OBVIOUS
<1>5. orders = last.orders
  BY <1>2, <1>3, <1>4 DEF Plan
<1>6. /\ first \in Sellings(p0, S)
      /\ \A sig \in S : first.p.pos[Bucket(sig)] = 0
  BY <1>1, <1>2, <1>3, AllSold
<1>7. /\ first \in [ p : PlanStates, orders : Seq(OrderItems) ]
      /\ \A k \in DOMAIN first.orders :
           first.orders[k].side = "SELL" /\ Places(first.orders[k], S)
      /\ \A b \in Strategies \X Symbols :
           \/ /\ first.p.pos[b] = a[b]
              /\ \A k \in DOMAIN first.orders : Of(first.orders[k]) # b
           \/ /\ first.p.pos[b] = 0 /\ b[2] \in first.p.netted
              /\ Legs(first.orders, OddOrders, b, a[b])
  BY <1>1, <1>6 DEF Sellings
<1>8. last \in Buyings(first, lim, B)
  BY <1>1, <1>4, <1>7, AllEntered
<1>9. PICK more \in Seq(OrderItems) :
        /\ Enters(first, last, B, more)
        /\ more # << >> => Cardinality(OpenSymbols(last.p.pos)) <= lim.globalOpen
  BY <1>8 DEF Buyings
<1>10. PICK s, l : s = first.orders /\ l = Len(first.orders)
  OBVIOUS
<1>11. PICK t : t = orders
  OBVIOUS
<1>12. s \in Seq(OrderItems) /\ t \in Seq(OrderItems) /\ Joined(s, more, t, l)
  <2>1. t = s \o more
    BY <1>5, <1>9, <1>10, <1>11 DEF Enters
  <2>2. s \in Seq(OrderItems) /\ l = Len(s)
    BY <1>7, <1>10
  <2> QED BY <2>1, <2>2, JoinParts
<1>13. \A k \in DOMAIN more :
         /\ more[k].side = "BUY" /\ Places(more[k], B)
         /\ Of(more[k]) \in Strategies \X Symbols
         /\ first.p.pos[Of(more[k])] = 0 /\ Of(more[k])[2] \notin first.p.netted
         /\ last.p.pos[Of(more[k])] > 0
  BY <1>9 DEF Enters
<1>14. /\ DOMAIN s = 1 .. l /\ l \in Nat /\ DOMAIN t \subseteq Nat
       /\ \A i \in DOMAIN t : \/ i \in DOMAIN s /\ t[i] = s[i] /\ t[i].side = "SELL"
                              \/ i - l \in DOMAIN more /\ t[i] = more[i - l] /\ t[i].side = "BUY"
       /\ \A i \in DOMAIN s : i \in DOMAIN t /\ t[i] = s[i]
       /\ \A k \in DOMAIN more : k \in Nat \ {0}
  BY <1>7, <1>10, <1>12, <1>13 DEF Joined
<1>15. ASSUME NEW i \in DOMAIN t
       PROVE  /\ t[i].side = "SELL" => i \in DOMAIN s /\ t[i] = s[i]
              /\ t[i].side = "BUY" => \E k \in DOMAIN more : i = k + l /\ t[i] = more[k]
  BY <1>14
<1>16. \A b : \A k \in DOMAIN more : ~ Sells(more[k], b)
  BY <1>13 DEF Sells
<1>17. \A b, n : Legs(s, OddOrders, b, n) => Legs(t, OddOrders, b, n)
  <2>1. t = s \o more
    BY <1>5, <1>9, <1>10, <1>11 DEF Enters
  <2> QED BY <1>12, <1>16, <2>1, LegsFirst
<1>18. ASSUME NEW i \in DOMAIN t, t[i].side = "SELL"
       PROVE  /\ Places(t[i], S) /\ Of(t[i]) \in Strategies \X Symbols
              /\ first.p.pos[Of(t[i])] = 0 /\ Of(t[i])[2] \in first.p.netted
              /\ Legs(t, OddOrders, Of(t[i]), a[Of(t[i])])
  <2>1. i \in DOMAIN s /\ t[i] = s[i]
    BY <1>15, <1>18
  <2>2. t[i] \in OrderItems
    BY <1>12, <2>1, LenProperties, ElementOfSeq
  <2>3. Of(t[i]) \in Strategies \X Symbols
    BY <2>2 DEF OrderItems, Of
  <2>4. PICK b : b = Of(t[i])
    OBVIOUS
  <2>5. ~ \A k \in DOMAIN s : Of(s[k]) # b
    BY <2>1, <2>4
  <2>6. first.p.pos[b] = 0 /\ b[2] \in first.p.netted /\ Legs(s, OddOrders, b, a[b])
    BY <1>7, <1>10, <2>3, <2>4, <2>5
  <2>7. Places(t[i], S)
    BY <1>7, <1>10, <2>1
  <2>8. Legs(t, OddOrders, b, a[b])
    BY <1>17, <2>6
  <2> QED BY <2>3, <2>4, <2>6, <2>7, <2>8
<1>19. ASSUME NEW i \in DOMAIN t, t[i].side = "BUY"
       PROVE  /\ Places(t[i], B) /\ a[Of(t[i])] = 0 /\ Of(t[i])[2] \notin first.p.netted
              /\ Of(t[i]) \in Strategies \X Symbols /\ last.p.pos[Of(t[i])] > 0
  <2>1. PICK k \in DOMAIN more : i = k + l /\ t[i] = more[k]
    BY <1>15, <1>19
  <2>2. PICK b : b = Of(t[i])
    OBVIOUS
  <2>3. /\ Places(t[i], B) /\ b \in Strategies \X Symbols
        /\ first.p.pos[b] = 0 /\ b[2] \notin first.p.netted /\ last.p.pos[b] > 0
    BY <1>13, <2>1, <2>2
  <2>4. a[b] = 0
    BY <1>7, <2>3
  <2> QED BY <2>2, <2>3, <2>4
<1>20. \A i \in DOMAIN t : Places(t[i], IF t[i].side = "SELL" THEN S ELSE B)
  BY <1>14, <1>18, <1>19
<1>21. SellsFirst(t)
  <2> SUFFICES ASSUME NEW i \in DOMAIN t, NEW j \in DOMAIN t, i < j, t[j].side = "SELL"
               PROVE  t[i].side = "SELL"
    BY DEF SellsFirst
  <2>1. j \in 1 .. l
    BY <1>14, <1>15
  <2>2. t[i].side # "BUY"
    <3> SUFFICES ASSUME t[i].side = "BUY" PROVE FALSE
      OBVIOUS
    <3>1. PICK k \in DOMAIN more : i = k + l
      BY <1>15
    <3> QED BY <1>14, <2>1, <3>1
  <2> QED BY <1>14, <2>2
<1>22. OneWay(t)
  BY <1>18, <1>19 DEF OneWay
<1>23. \A sig \in S : Legs(t, OddOrders, Bucket(sig), a[Bucket(sig)])
  <2> SUFFICES ASSUME NEW sig \in S PROVE Legs(t, OddOrders, Bucket(sig), a[Bucket(sig)])
    OBVIOUS
  <2>1. PICK b : b = Bucket(sig)
    OBVIOUS
  <2>2. b \in Strategies \X Symbols
    <3>1. sig \in SignalItems
      BY <1>1, OwnSeq
    <3> QED BY <2>1, <3>1 DEF SignalItems, Bucket
  <2>3. first.p.pos[b] = 0
    BY <1>6, <2>1
  <2>4. CASE a[b] = 0 /\ \A k \in DOMAIN s : Of(s[k]) # b
    <3>1. \A k \in DOMAIN s : ~ Sells(s[k], b)
      BY <2>4 DEF Sells
    <3>2. Legs(s, OddOrders, b, 0)
      BY <3>1, NoLegs
    <3> QED BY <1>17, <2>1, <2>4, <3>2
  <2>5. CASE Legs(s, OddOrders, b, a[b])
    BY <1>17, <2>1, <2>5
  <2> QED BY <1>7, <1>10, <2>2, <2>3, <2>4, <2>5
<1>24. ASSUME NEW i \in DOMAIN t, t[i].side = "BUY"
       PROVE  Cardinality(KeptOpen(a, t)) <= lim.globalOpen
  <2>1. more # << >>
    BY <1>15, <1>24
  <2>2. PICK O : O = OpenSymbols(last.p.pos)
    OBVIOUS
  <2>3. last.p \in PlanStates /\ \A b \in Strategies \X Symbols : first.p.pos[b] <= last.p.pos[b]
    BY <1>8 DEF Buyings
  <2>4. /\ DOMAIN last.p.pos = Strategies \X Symbols
        /\ \A b \in Strategies \X Symbols :
             a[b] \in Nat /\ first.p.pos[b] \in Nat /\ last.p.pos[b] \in Nat
    BY <1>1, <1>7, <2>3, StateParts
  <2>5. ASSUME NEW c \in Strategies \X Symbols,
               \/ a[c] > 0 /\ \A j \in DOMAIN t : ~ Sells(t[j], c)
               \/ \E j \in DOMAIN t : t[j].side = "BUY" /\ Of(t[j]) = c
        PROVE  last.p.pos[c] > 0
    <3>1. CASE a[c] > 0 /\ \A j \in DOMAIN t : ~ Sells(t[j], c)
      <4>1. \A k \in DOMAIN s : ~ Sells(s[k], c)
        BY <1>14, <3>1
      <4>2. ~ Legs(s, OddOrders, c, a[c])
        BY <2>4, <3>1, <4>1, SomeLegs
      <4>3. first.p.pos[c] = a[c]
        BY <1>7, <1>10, <4>2
      <4> QED BY <2>3, <2>4, <3>1, <4>3
    <3>2. CASE \E j \in DOMAIN t : t[j].side = "BUY" /\ Of(t[j]) = c
      BY <1>19, <3>2
    <3> QED BY <2>5, <3>1, <3>2
  <2>6. KeptOpen(a, t) \subseteq O
    BY <2>2, <2>4, <2>5 DEF KeptOpen, OpenSymbols
  <2>7. PICK K : K = KeptOpen(a, t)
    OBVIOUS
  <2>8. Cardinality(K) <= Cardinality(O) /\ Cardinality(K) \in Nat /\ Cardinality(O) \in Nat
    <3>1. K \in SUBSET O
      BY <2>6, <2>7
    <3> QED BY <2>2, <2>4, <3>1, OpenFinite
  <2>9. Cardinality(O) <= lim.globalOpen
    BY <1>9, <2>1, <2>2
  <2>10. lim.globalOpen \in Nat
    BY DEF Limits
  <2> QED BY <2>7, <2>8, <2>9, <2>10
<1>25. \A i \in DOMAIN t : t[i].side = "SELL" => Legs(t, OddOrders, Of(t[i]), a[Of(t[i])])
  BY <1>18
<1>26. \A i \in DOMAIN t : t[i].side = "BUY" => a[Of(t[i])] = 0
  BY <1>19
<1>27. (\E i \in DOMAIN t : t[i].side = "BUY") => Cardinality(KeptOpen(a, t)) <= lim.globalOpen
  BY <1>24
<1>28. Shaped(t, a, lim.globalOpen, S, B)
  BY <1>12, <1>20, <1>21, <1>22, <1>23, <1>25, <1>26, <1>27 DEF Shaped
<1> QED BY <1>1, <1>11, <1>28

-----------------------------------------------------------------------------
(* The shape of what is left to book of it. *)

OddFills == { f \in EngineFills : f.key[3] }

CanTrade(o) == o.side \notin scenario.unfilled[o.symbol]

\* t are the fills of the orders in s that can trade: where each order is in s.
Prices(t, s, e) ==
  /\ e \in [DOMAIN t -> DOMAIN s]
  /\ \A i, j \in DOMAIN t : i < j => e[i] < e[j]
  /\ \A i \in DOMAIN t : t[i] = Filled(s[e[i]]) /\ CanTrade(s[e[i]])
  /\ \A k \in DOMAIN s : CanTrade(s[k]) => \E i \in DOMAIN t : e[i] = k

\* A fill is of the bucket, the side and the leg of its order.
LEMMA FilledParts ==
  ASSUME TypeOK, NEW o \in OrderItems, NEW f, f = Filled(o)
  PROVE  /\ f \in EngineFills
         /\ Of(f) = Of(o) /\ f.side = o.side /\ f.qty = o.qty /\ f.symbol = o.symbol
         /\ f.key[2] = o.id /\ (f \in OddFills <=> o \in OddOrders)
<1>1. /\ o.id \in STRING /\ o.strategy \in Strategies /\ o.symbol \in Symbols /\ o.side \in Sides
      /\ o.qty \in Nat \ {0} /\ o.odd \in BOOLEAN
  BY DEF OrderItems
<1>2. scenario.price[o.symbol] \in Nat \ {0}
  BY <1>1, DayIs
<1>3. << "order", o.id, o.odd >> \in {"order"} \X STRING \X BOOLEAN
  BY <1>1
<1>4. /\ f.key = << "order", o.id, o.odd >> /\ f.strategy = o.strategy /\ f.symbol = o.symbol
      /\ f.side = o.side /\ f.qty = o.qty
  BY DEF Filled
<1>5. f \in EngineFills
  BY <1>1, <1>2, <1>3 DEF Filled, EngineFills, FillItems
<1>6. Of(f) = Of(o)
  BY <1>4 DEF Of
<1>7. f.key[2] = o.id /\ f.key[3] = o.odd
  BY <1>4
<1> QED BY <1>4, <1>5, <1>6, <1>7 DEF OddFills, OddOrders

\* What is executed of a list of orders.
LEMMA ExecutedAt ==
  ASSUME TypeOK, NEW s \in Seq(OrderItems), NEW t, t = Executed(s)
  PROVE  t \in Seq(EngineFills) /\ \E e : Prices(t, s, e)
<1> DEFINE X == { o \in ToSet(s) : CanTrade(o) }
<1>1. PICK u : u = Only(s, X)
  OBVIOUS
<1>2. u \in Seq(OrderItems)
  BY <1>1, OnlyType
<1>3. PICK n : n = Len(u)
  OBVIOUS
<1>4. n \in Nat /\ DOMAIN u = 1 .. n /\ \A i \in 1 .. n : u[i] \in OrderItems
  BY <1>2, <1>3, LenProperties, ElementOfSeq
<1>5. t = [ i \in 1 .. n |-> Filled(u[i]) ]
  BY <1>1, <1>4 DEF Executed, CanTrade
<1>6. \A i \in 1 .. n : Filled(u[i]) \in EngineFills
  BY <1>4, FilledParts
<1>7. t \in [1 .. n -> EngineFills]
  BY <1>5, <1>6
<1>8. t \in Seq(EngineFills)
  BY <1>4, <1>7, SeqDef
<1>9. PICK e : Picks(u, s, X, e)
  <2> HIDE DEF X
  <2> QED BY <1>1, OnlyPicks
<1>10. /\ e \in [DOMAIN u -> DOMAIN s]
       /\ \A i, j \in DOMAIN u : i < j => e[i] < e[j]
       /\ \A i \in DOMAIN u : u[i] = s[e[i]] /\ u[i] \in X
       /\ \A k \in DOMAIN s : s[k] \in X => \E i \in DOMAIN u : e[i] = k
  BY <1>9 DEF Picks
<1>11. DOMAIN t = DOMAIN u
  BY <1>4, <1>5
<1>12. \A k \in DOMAIN s : s[k] \in ToSet(s)
  BY DEF ToSet
<1>13. Prices(t, s, e)
  <2>1. \A i \in DOMAIN t : t[i] = Filled(s[e[i]]) /\ CanTrade(s[e[i]])
    BY <1>4, <1>5, <1>10, <1>11
  <2>2. \A k \in DOMAIN s : CanTrade(s[k]) => \E i \in DOMAIN t : e[i] = k
    BY <1>10, <1>11, <1>12
  <2> QED BY <1>10, <1>11, <2>1, <2>2 DEF Prices
<1> QED BY <1>8, <1>13

-----------------------------------------------------------------------------
\* What a plan leaves to book for holdings a: the exits that can trade, and
\* entries of buckets that hold nothing.
DueFor(t, a, limit, S, B) ==
  /\ t \in Seq(EngineFills)
  /\ \A i \in DOMAIN t :
       \E sig \in (IF t[i].side = "SELL" THEN S ELSE B) :
         t[i].key[2] = sig.id /\ Bucket(sig) = Of(t[i])
  /\ SellsFirst(t) /\ OneWay(t)
  /\ \A i \in DOMAIN t : t[i].side = "SELL" => Legs(t, OddFills, Of(t[i]), a[Of(t[i])])
  /\ \A i \in DOMAIN t : t[i].side = "BUY" => a[Of(t[i])] = 0
  /\ \A sig \in S : Tradable(sig.symbol) => Legs(t, OddFills, Bucket(sig), a[Bucket(sig)])
  /\ (\A y \in Symbols : Tradable(y)) /\ (\E i \in DOMAIN t : t[i].side = "BUY")
       => Cardinality(KeptOpen(a, t)) <= limit

\* The legs of a bucket that can be sold are all executed.
LEMMA LegsTraded ==
  ASSUME TypeOK, NEW s \in Seq(OrderItems), NEW t, NEW e, Prices(t, s, e),
         t \in Seq(EngineFills), NEW b, "SELL" \notin scenario.unfilled[b[2]], NEW n, Legs(s, OddOrders, b, n)
  PROVE  Legs(t, OddFills, b, n)
<1>1. /\ e \in [DOMAIN t -> DOMAIN s]
      /\ \A i, j \in DOMAIN t : i < j => e[i] < e[j]
      /\ \A i \in DOMAIN t : t[i] = Filled(s[e[i]]) /\ CanTrade(s[e[i]])
      /\ \A k \in DOMAIN s : CanTrade(s[k]) => \E i \in DOMAIN t : e[i] = k
  BY DEF Prices
<1>2. ASSUME NEW j \in DOMAIN t
      PROVE  /\ e[j] \in DOMAIN s /\ (Sells(t[j], b) <=> Sells(s[e[j]], b))
             /\ s[e[j]].qty = t[j].qty /\ (s[e[j]] \in OddOrders <=> t[j] \in OddFills)
  <2>1. PICK k \in DOMAIN s : k = e[j]
    BY <1>1
  <2>2. s[k] \in OrderItems
    BY <2>1, LenProperties, ElementOfSeq
  <2>3. PICK o, f : o = s[k] /\ f = t[j]
    OBVIOUS
  <2>4. f = Filled(o) /\ o \in OrderItems
    BY <1>1, <2>1, <2>2, <2>3
  <2>5. Of(f) = Of(o) /\ f.side = o.side /\ f.qty = o.qty /\ (f \in OddFills <=> o \in OddOrders)
    BY <2>4, FilledParts
  <2> QED BY <2>1, <2>3, <2>5 DEF Sells
<1>3. ASSUME NEW i \in DOMAIN s, Sells(s[i], b)
      PROVE  \E j \in DOMAIN t : Sells(t[j], b) /\ e[j] = i
  <2>1. CanTrade(s[i])
    BY <1>3 DEF CanTrade, Sells, Of
  <2>2. PICK j \in DOMAIN t : e[j] = i
    BY <1>1, <2>1
  <2> QED BY <1>2, <1>3, <2>2
<1>4. ASSUME NEW i \in DOMAIN t, NEW j \in DOMAIN t
      PROVE  /\ e[i] < e[j] => i < j
             /\ e[i] = e[j] => i = j
  <2>1. DOMAIN t \subseteq Int /\ DOMAIN s \subseteq Int
    <3>1. DOMAIN s = 1 .. Len(s) /\ DOMAIN t = 1 .. Len(t)
      BY LenProperties
    <3> QED BY <3>1
  <2> QED BY <1>1, <2>1
<1>5. Along(e, s, OddOrders, t, OddFills, b)
  BY <1>2, <1>3, <1>4 DEF Along
<1> QED BY <1>5, LegsAlong

\* What is executed of such a plan is due.
LEMMA ExecutedShape ==
  ASSUME TypeOK, NEW s, NEW a, NEW limit, NEW S, NEW B, Shaped(s, a, limit, S, B),
         \A sig \in S : Bucket(sig)[2] = sig.symbol,
         NEW t, t = Executed(s)
  PROVE  DueFor(t, a, limit, S, B)
<1>1. /\ s \in Seq(OrderItems)
      /\ \A i \in DOMAIN s : Places(s[i], IF s[i].side = "SELL" THEN S ELSE B)
      /\ SellsFirst(s) /\ OneWay(s)
      /\ \A i \in DOMAIN s : s[i].side = "SELL" => Legs(s, OddOrders, Of(s[i]), a[Of(s[i])])
      /\ \A i \in DOMAIN s : s[i].side = "BUY" => a[Of(s[i])] = 0
      /\ \A sig \in S : Legs(s, OddOrders, Bucket(sig), a[Bucket(sig)])
      /\ (\E i \in DOMAIN s : s[i].side = "BUY") => Cardinality(KeptOpen(a, s)) <= limit
  BY DEF Shaped
<1>2. PICK e : Prices(t, s, e)
  BY <1>1, ExecutedAt
<1>3. t \in Seq(EngineFills)
  BY <1>1, ExecutedAt
<1>4. /\ e \in [DOMAIN t -> DOMAIN s]
      /\ \A i, j \in DOMAIN t : i < j => e[i] < e[j]
      /\ \A i \in DOMAIN t : t[i] = Filled(s[e[i]]) /\ CanTrade(s[e[i]])
      /\ \A k \in DOMAIN s : CanTrade(s[k]) => \E i \in DOMAIN t : e[i] = k
  BY <1>2 DEF Prices
<1>5. ASSUME NEW i \in DOMAIN t
      PROVE  /\ e[i] \in DOMAIN s
             /\ Of(t[i]) = Of(s[e[i]]) /\ t[i].side = s[e[i]].side /\ t[i].key[2] = s[e[i]].id
             /\ t[i].side \notin scenario.unfilled[Of(t[i])[2]]
  <2>1. PICK k \in DOMAIN s : k = e[i]
    BY <1>4
  <2>2. s[k] \in OrderItems
    BY <1>1, <2>1, LenProperties, ElementOfSeq
  <2>3. PICK o, f : o = s[k] /\ f = t[i]
    OBVIOUS
  <2>4. f = Filled(o) /\ o \in OrderItems /\ CanTrade(o)
    BY <1>4, <2>1, <2>2, <2>3
  <2>5. Of(f) = Of(o) /\ f.side = o.side /\ f.key[2] = o.id /\ f.symbol = o.symbol
    BY <2>4, FilledParts
  <2>6. f.side \notin scenario.unfilled[Of(f)[2]]
    BY <2>4, <2>5 DEF CanTrade, Of
  <2> QED BY <2>1, <2>3, <2>5, <2>6
<1>6. ASSUME NEW i \in DOMAIN t
      PROVE  \E sig \in (IF t[i].side = "SELL" THEN S ELSE B) :
               t[i].key[2] = sig.id /\ Bucket(sig) = Of(t[i])
  <2>1. PICK k \in DOMAIN s : k = e[i]
    BY <1>5
  <2>2. Places(s[k], IF s[k].side = "SELL" THEN S ELSE B)
    BY <1>1
  <2>3. Of(t[i]) = Of(s[k]) /\ t[i].side = s[k].side /\ t[i].key[2] = s[k].id
    BY <1>5, <2>1
  <2>4. PICK X : X = IF s[k].side = "SELL" THEN S ELSE B
    OBVIOUS
  <2>5. \E sig \in X : s[k].id = sig.id /\ Bucket(sig) = Of(s[k])
    BY <2>2, <2>4 DEF Places
  <2>6. \E sig \in X : t[i].key[2] = sig.id /\ Bucket(sig) = Of(t[i])
    BY <2>3, <2>5
  <2>7. X = IF t[i].side = "SELL" THEN S ELSE B
    BY <2>3, <2>4
  <2> QED BY <2>6, <2>7
<1>7. SellsFirst(t)
  BY <1>1, <1>4, <1>5 DEF SellsFirst
<1>8. OneWay(t)
  BY <1>1, <1>5 DEF OneWay
<1>9. ASSUME NEW i \in DOMAIN t, t[i].side = "SELL"
      PROVE  Legs(t, OddFills, Of(t[i]), a[Of(t[i])])
  <2>1. PICK b : b = Of(t[i])
    OBVIOUS
  <2>2. e[i] \in DOMAIN s /\ s[e[i]].side = "SELL" /\ Of(s[e[i]]) = b
    BY <1>5, <1>9, <2>1
  <2>3. Legs(s, OddOrders, b, a[b])
    BY <1>1, <2>2
  <2>4. "SELL" \notin scenario.unfilled[b[2]]
    BY <1>5, <1>9, <2>1
  <2>5. Legs(t, OddFills, b, a[b])
    BY <1>1, <1>2, <1>3, <2>3, <2>4, LegsTraded
  <2> QED BY <2>1, <2>5
<1>10. ASSUME NEW i \in DOMAIN t, t[i].side = "BUY" PROVE a[Of(t[i])] = 0
  <2>1. PICK k \in DOMAIN s : k = e[i]
    BY <1>5
  <2>2. s[k].side = "BUY" /\ Of(s[k]) = Of(t[i])
    BY <1>5, <1>10, <2>1
  <2>3. a[Of(s[k])] = 0
    BY <1>1, <2>2
  <2> QED BY <2>2, <2>3
<1>11. ASSUME NEW sig \in S, Tradable(sig.symbol)
       PROVE  Legs(t, OddFills, Bucket(sig), a[Bucket(sig)])
  <2>1. PICK b : b = Bucket(sig)
    OBVIOUS
  <2>2. "SELL" \notin scenario.unfilled[b[2]]
    BY <1>11, <2>1 DEF Tradable
  <2>3. Legs(s, OddOrders, b, a[b])
    BY <1>1, <2>1
  <2>4. Legs(t, OddFills, b, a[b])
    BY <1>1, <1>2, <1>3, <2>2, <2>3, LegsTraded
  <2> QED BY <2>1, <2>4
<1>12. ASSUME \A y \in Symbols : Tradable(y), NEW j \in DOMAIN t, t[j].side = "BUY"
       PROVE  Cardinality(KeptOpen(a, t)) <= limit
  <2>1. ASSUME NEW k \in DOMAIN s PROVE \E i \in DOMAIN t : e[i] = k
    <3>1. s[k] \in OrderItems
      BY <1>1, LenProperties, ElementOfSeq
    <3>2. s[k].symbol \in Symbols
      BY <3>1 DEF OrderItems
    <3>3. CanTrade(s[k])
      BY <1>12, <3>2 DEF CanTrade, Tradable
    <3> QED BY <1>4, <3>3
  <2>2. ASSUME NEW c
        PROVE  /\ (\E i \in DOMAIN t : Sells(t[i], c)) <=> (\E k \in DOMAIN s : Sells(s[k], c))
               /\ (\E i \in DOMAIN t : t[i].side = "BUY" /\ Of(t[i]) = c)
                    <=> (\E k \in DOMAIN s : s[k].side = "BUY" /\ Of(s[k]) = c)
    <3>1. \A i \in DOMAIN t : e[i] \in DOMAIN s /\ (Sells(t[i], c) <=> Sells(s[e[i]], c))
      BY <1>5 DEF Sells
    <3>2. \A i \in DOMAIN t : e[i] \in DOMAIN s /\ t[i].side = s[e[i]].side /\ Of(t[i]) = Of(s[e[i]])
      BY <1>5
    <3>3. (\E i \in DOMAIN t : Sells(t[i], c)) <=> (\E k \in DOMAIN s : Sells(s[k], c))
      BY <2>1, <3>1
    <3>4. (\E i \in DOMAIN t : t[i].side = "BUY" /\ Of(t[i]) = c)
            <=> (\E k \in DOMAIN s : s[k].side = "BUY" /\ Of(s[k]) = c)
      BY <2>1, <3>2
    <3> QED BY <3>3, <3>4
  <2>3. KeptOpen(a, t) = KeptOpen(a, s)
    <3> DEFINE P(c, v) == \/ a[c] > 0 /\ ~ \E i \in DOMAIN v : Sells(v[i], c)
                          \/ \E i \in DOMAIN v : v[i].side = "BUY" /\ Of(v[i]) = c
    <3>1. \A c \in Strategies \X Symbols : P(c, t) <=> P(c, s)
      BY <2>2
    <3>2. \A v : KeptOpen(a, v) = { b[2] : b \in { c \in Strategies \X Symbols : P(c, v) } }
      BY DEF KeptOpen
    <3>3. { c \in Strategies \X Symbols : P(c, t) } = { c \in Strategies \X Symbols : P(c, s) }
      BY <3>1
    <3> HIDE DEF P
    <3> QED BY <3>2, <3>3
  <2>4. \E i \in DOMAIN s : s[i].side = "BUY"
    BY <1>5, <1>12
  <2> QED BY <1>1, <2>3, <2>4
<1>13. (\A y \in Symbols : Tradable(y)) /\ (\E i \in DOMAIN t : t[i].side = "BUY")
         => Cardinality(KeptOpen(a, t)) <= limit
  BY <1>12
<1>14. \A i \in DOMAIN t : t[i].side = "SELL" => Legs(t, OddFills, Of(t[i]), a[Of(t[i])])
  BY <1>9
<1>15. \A i \in DOMAIN t : t[i].side = "BUY" => a[Of(t[i])] = 0
  BY <1>10
<1>16. \A sig \in S : Tradable(sig.symbol) => Legs(t, OddFills, Bucket(sig), a[Bucket(sig)])
  BY <1>11
<1> QED BY <1>3, <1>6, <1>7, <1>8, <1>13, <1>14, <1>15, <1>16 DEF DueFor

-----------------------------------------------------------------------------
\* The signals that a plan is made from are signals of the day; no exit that is
\* not rejected is left out.
LEMMA PlannedSignals ==
  ASSUME TypeOK, NEW x \in Procs
  PROVE  /\ Exits \in Seq(SignalItems) /\ ToSet(Exits) \subseteq ToSet(scenario.sells)
         /\ \A sig \in ToSet(scenario.sells) : Unrejected(sig) => sig \in ToSet(Exits)
         /\ Entries(x) \in Seq(SignalItems) /\ ToSet(Entries(x)) \subseteq ToSet(scenario.buys)
<1>1. PICK u, v : u = scenario.sells /\ v = scenario.buys
  OBVIOUS
<1>2. u \in Seq(SignalItems) /\ v \in Seq(SignalItems)
  BY <1>1, ScenariosAssumption DEF TypeOK, IsScenario
<1> DEFINE X == { sig \in ToSet(u) : Unrejected(sig) }
           Y == { sig \in ToSet(v) :
                    Unrejected(sig) /\ (x = "daily" => sig.strategy \in scenario.pipeline) }
<1>3. PICK p, q : p = Only(u, X) /\ q = Only(v, Y)
  OBVIOUS
<1>4. p = Exits /\ q = Entries(x)
  BY <1>1, <1>3 DEF Exits, Entries
<1>5. p \in Seq(SignalItems) /\ q \in Seq(SignalItems)
  <2> HIDE DEF X, Y
  <2> QED BY <1>2, <1>3, OnlyType
<1>6. PICK e : Picks(p, u, X, e)
  <2> HIDE DEF X
  <2> QED BY <1>2, <1>3, OnlyPicks
<1>7. PICK g : Picks(q, v, Y, g)
  <2> HIDE DEF Y
  <2> QED BY <1>2, <1>3, OnlyPicks
<1>8. ToSet(p) \subseteq X /\ ToSet(q) \subseteq Y
  <2> HIDE DEF X, Y
  <2> QED BY <1>6, <1>7 DEF Picks, ToSet
<1>9. ASSUME NEW sig \in X PROVE sig \in ToSet(p)
  <2>1. PICK k \in DOMAIN u : u[k] = sig
    BY DEF ToSet
  <2>2. PICK i \in DOMAIN p : e[i] = k
    <3> HIDE DEF X
    <3> QED BY <1>6, <2>1 DEF Picks
  <2>3. p[i] = sig
    <3> HIDE DEF X
    <3> QED BY <1>6, <2>1, <2>2 DEF Picks
  <2> QED BY <2>3 DEF ToSet
<1>10. \A sig \in ToSet(u) : Unrejected(sig) => sig \in ToSet(p)
  BY <1>9
<1> QED BY <1>1, <1>4, <1>5, <1>8, <1>10

\* What planning leaves to book is due for the books as they are.
LEMMA PlanDue ==
  ASSUME TypeOK, NEW x \in Procs, PlanBundles(x), proc'[x].pc = "booking"
  PROVE  DueFor(proc'[x].todo, Ordinary, scenario.lim.globalOpen, ToSet(Exits), ToSet(Entries(x)))
<1>1. PICK sells, buys, orders :
        /\ sells = Exits /\ buys = Entries(x) /\ orders = Planned(x, sells, buys)
        /\ \/ proc' = [ proc EXCEPT ![x].pc = "booking", ![x].todo = Executed(orders) ]
           \/ proc' = [ proc EXCEPT ![x] = idle ]
  BY DEF PlanBundles
<1>2. proc \in [Procs -> Executors]
  BY DEF TypeOK
<1>3. proc' # [ proc EXCEPT ![x] = idle ]
  BY <1>2 DEF idle
<1>4. proc'[x].todo = Executed(orders)
  BY <1>1, <1>2, <1>3 DEF Executors
<1>5. SpentBefore \in PlanStates /\ SpentBefore.pos = Ordinary
  <2>1. Ordinary \in [Strategies \X Symbols -> Nat]
    <3>1. \A b \in Strategies \X Symbols : b \in Buckets
      BY DEF Buckets
    <3> QED BY <3>1 DEF Ordinary, TypeOK
  <2>2. \A S : Spent(S) \in Nat
    BY FillsAre, BoughtNat DEF Spent
  <2>3. cash \in Int
    BY DEF TypeOK
  <2> QED BY <2>1, <2>2, <2>3 DEF SpentBefore, PlanState, PlanStates
<1>6. Approved(x) \in Limits /\ Approved(x).globalOpen = scenario.lim.globalOpen
  <2>1. proc[x].manifests \in SUBSET Strategies
    BY DEF TypeOK, Executors
  <2> QED BY <2>1, DayIs DEF Approved, Limits
<1>7. sells \in Seq(SignalItems) /\ buys \in Seq(SignalItems)
  BY <1>1, PlannedSignals
<1>8. PICK p0, lim : p0 = SpentBefore /\ lim = Approved(x)
  OBVIOUS
<1>9. orders = Plan(p0, lim, sells, buys)
  BY <1>1, <1>8 DEF Planned
<1>10. Shaped(orders, p0.pos, lim.globalOpen, ToSet(sells), ToSet(buys))
  BY <1>5, <1>6, <1>7, <1>8, <1>9, PlanShape
<1>11. \A sig : Bucket(sig)[2] = sig.symbol
  BY DEF Bucket
<1>12. PICK a, l, t : a = Ordinary /\ l = scenario.lim.globalOpen /\ t = Executed(orders)
  OBVIOUS
<1>13. Shaped(orders, a, l, ToSet(sells), ToSet(buys))
  BY <1>5, <1>6, <1>8, <1>10, <1>12
<1>14. DueFor(t, a, l, ToSet(sells), ToSet(buys))
  BY <1>11, <1>12, <1>13, ExecutedShape
<1> QED BY <1>1, <1>4, <1>12, <1>14

-----------------------------------------------------------------------------
(* The invariant of the exits. *)

\* A bucket holds nothing but what was bought today.
Settled(b) == OperatorBought(b) \/ pos[b] <= BoughtToday(b)

SoldToday(b) == \E f \in ToSet(fills) : Engine(f) /\ Sells(f, b)

\* The fill is one of a signal of the day.
Named(f) ==
  \E sig \in ToSet(IF f.side = "SELL" THEN scenario.sells ELSE scenario.buys) :
    f.key[2] = sig.id /\ Bucket(sig) = Of(f)

\* The bucket will be settled by the SELLs in todo, or is settled and sold already.
Leaving(todo, b) == Legs(todo, OddFills, b, pos[b]) \/ Settled(b)

Closing(todo, b) == Legs(todo, OddFills, b, pos[b]) \/ (SoldToday(b) /\ Settled(b))

\* Every exit that was not rejected and can trade is under way or done, an entry
\* is of a bucket that holds nothing old, and the batch ends within the limit of
\* open symbols.
Pending(todo) ==
  /\ SellsFirst(todo) /\ OneWay(todo)
  /\ \A i \in DOMAIN todo : todo[i].side = "SELL" => Closing(todo, Of(todo[i]))
  /\ \A i \in DOMAIN todo : todo[i].side = "BUY" => pos[Of(todo[i])] <= BoughtToday(Of(todo[i]))
  /\ \A sig \in ToSet(scenario.sells) :
       Unrejected(sig) /\ Tradable(sig.symbol) => Leaving(todo, Bucket(sig))
  /\ (\A s \in Symbols : Tradable(s)) /\ ~ BothWays(fills)
       /\ (\E i \in DOMAIN todo : todo[i].side = "BUY")
     => Cardinality(KeptOpen(pos, todo)) <= scenario.lim.globalOpen

\* Fills of the engine are of signals.
NamesInv ==
  /\ \A f \in ToSet(fills) : Engine(f) => Named(f)
  /\ \A x \in Procs : \A i \in DOMAIN proc[x].todo : Named(proc[x].todo[i])

\* The engine leaves nothing of a bucket it sold, but an odd lot that is still to
\* be sold.
Left(f) == Settled(Of(f)) \/ (f.key[3] = FALSE /\ pos[Of(f)] < BoardLot)

SoldInv == \A f \in ToSet(fills) : Engine(f) /\ f.side = "SELL" => Left(f)

ExitsInv ==
  ~ overlapped =>
    /\ SoldInv
    /\ \A x \in Procs : proc[x].pc = "booking" => Pending(proc[x].todo)

-----------------------------------------------------------------------------
Adding(b) == [ f \in AllFills |-> Added(f, b) ]

\* What was bought of a bucket is a number, and one more fill adds what it adds.
LEMMA BoughtType == ASSUME TypeOK PROVE \A b : BoughtToday(b) \in Nat
<1>1. ASSUME NEW b PROVE BoughtToday(b) \in Nat
  <2>1. \A f \in AllFills : Added(f, b) \in Nat
    BY FillParts DEF Added
  <2>2. Adding(b) \in [AllFills -> Nat]
    BY <2>1 DEF Adding
  <2>3. \A i \in DOMAIN fills : fills[i] \in AllFills
    BY FillsAre, LenProperties, ElementOfSeq
  <2>4. [ i \in DOMAIN fills |-> Added(fills[i], b) ] = Weights(Adding(b), fills)
    BY <2>3 DEF Weights, Adding
  <2> QED BY <2>2, <2>4, FillsAre, WeightNat DEF BoughtToday, Weight
<1> QED BY <1>1

\* A fill adds its shares to what its bucket bought today, if it is a BUY of the day.
LEMMA BoughtMore ==
  ASSUME TypeOK, NEW f \in AllFills, fills' = Append(fills, f)
  PROVE  \A b : BoughtToday(b)' = BoughtToday(b) + Added(f, b)
<1>1. ASSUME NEW b PROVE BoughtToday(b)' = BoughtToday(b) + Added(f, b)
  <2>1. \A g \in AllFills : Added(g, b) \in Int
    BY FillParts DEF Added
  <2>2. Adding(b) \in [AllFills -> Int] /\ Adding(b)[f] = Added(f, b)
    BY <2>1 DEF Adding
  <2>3. PICK s, t : s = fills /\ t = Append(s, f)
    OBVIOUS
  <2>4. s \in Seq(AllFills) /\ t \in Seq(AllFills)
    BY <2>3, FillsAre, AppendProperties
  <2>5. \A u \in Seq(AllFills) : \A i \in DOMAIN u : u[i] \in AllFills
    BY LenProperties, ElementOfSeq
  <2>6. \A u \in Seq(AllFills) : [ i \in DOMAIN u |-> Added(u[i], b) ] = Weights(Adding(b), u)
    BY <2>5 DEF Weights, Adding
  <2>7. Weight(Adding(b), t) = Weight(Adding(b), s) + Adding(b)[f]
    BY <2>2, <2>3, <2>4, WeightAppend
  <2>8. BoughtToday(b) = Weight(Adding(b), s)
    BY <2>3, <2>4, <2>6 DEF BoughtToday, Weight
  <2>9. BoughtToday(b)' = Weight(Adding(b), t)
    <3>1. BoughtToday(b)' = Tally([ i \in DOMAIN t |-> Added(t[i], b) ])
      BY <2>3 DEF BoughtToday
    <3> QED BY <2>4, <2>6, <3>1 DEF Weight
  <2> QED BY <2>2, <2>7, <2>8, <2>9
<1> QED BY <1>1

\* No BUY, nothing bought.
LEMMA NoneBought ==
  ASSUME TypeOK, NEW b, \A f \in ToSet(fills) : ~ (f.side = "BUY" /\ Of(f) = b)
  PROVE  BoughtToday(b) = 0
<1>1. PICK n : n = Len(fills)
  OBVIOUS
<1>2. n \in Nat /\ DOMAIN fills = 1 .. n
  BY <1>1, FillsAre, LenProperties
<1>3. \A i \in 1 .. n : Added(fills[i], b) = 0
  <2>1. \A i \in 1 .. n : fills[i] \in ToSet(fills)
    BY <1>2 DEF ToSet
  <2> QED BY <2>1 DEF Added
<1>4. PICK s : s = [ i \in DOMAIN fills |-> Added(fills[i], b) ]
  OBVIOUS
<1>5. s \in Seq(Int) /\ DOMAIN s = 1 .. n /\ \A i \in 1 .. n : s[i] = 0
  <2>1. s \in [1 .. n -> Int] /\ \A i \in 1 .. n : s[i] = 0
    BY <1>2, <1>3, <1>4
  <2> QED BY <1>2, <2>1, SeqDef
<1>6. Len(s) = n
  BY <1>2, <1>5
<1> DEFINE g == [ i \in 0 .. n |-> 0 ]
<1>7. g \in [0 .. n -> Int] /\ g[0] = 0 /\ g[n] = 0 /\ \A i \in 1 .. n : g[i] = g[i - 1] + s[i]
  BY <1>2, <1>5
<1> HIDE DEF g
<1>8. Sums(g, s)
  BY <1>6, <1>7 DEF Sums
<1>9. Tally(s) = g[n]
  BY <1>5, <1>6, <1>8, TallyBy
<1> QED BY <1>4, <1>7, <1>9 DEF BoughtToday

\* One more fill is one more member.
LEMMA AppendSet ==
  ASSUME TypeOK, NEW f \in AllFills, fills' = Append(fills, f)
  PROVE  /\ ToSet(fills') = ToSet(fills) \cup {f}
         /\ ~ BothWays(fills') => ~ BothWays(fills)
<1>1. PICK n, t : n = Len(fills) /\ t = fills'
  OBVIOUS
<1>2. n \in Nat /\ DOMAIN fills = 1 .. n
  BY <1>1, FillsAre, LenProperties
<1>3. DOMAIN t = 1 .. n + 1 /\ t[n + 1] = f /\ \A i \in 1 .. n : t[i] = fills[i]
  <2>1. /\ t \in Seq(AllFills) /\ Len(t) = n + 1 /\ t[n + 1] = f
        /\ \A i \in 1 .. n : t[i] = fills[i]
    BY <1>1, FillsAre, AppendProperties
  <2> QED BY <2>1, LenProperties
<1>4. ToSet(t) = ToSet(fills) \cup {f}
  <2>1. \A i \in 1 .. n + 1 : i = n + 1 \/ i \in 1 .. n
    BY <1>2
  <2>2. n + 1 \in 1 .. n + 1 /\ \A i \in 1 .. n : i \in 1 .. n + 1
    BY <1>2
  <2> QED BY <1>2, <1>3, <2>1, <2>2 DEF ToSet
<1> QED BY <1>1, <1>4 DEF BothWays

\* A bucket that the engine sold and that is settled is empty, unless it was
\* traded both ways.
LEMMA SettledEmpty ==
  ASSUME TypeOK, NEW b \in Buckets, SoldToday(b), Settled(b), ~ BothWays(fills)
  PROVE  pos[b] = 0
<1>1. PICK g \in ToSet(fills) : g.side = "SELL" /\ Of(g) = b
  BY DEF SoldToday, Sells
<1>2. \A f \in ToSet(fills) : ~ (f.side = "BUY" /\ Of(f) = b)
  BY <1>1 DEF BothWays
<1>3. BoughtToday(b) = 0
  BY <1>2, NoneBought
<1>4. pos[b] \in Nat
  BY DEF TypeOK
<1> QED BY <1>2, <1>3, <1>4 DEF Settled, OperatorBought

-----------------------------------------------------------------------------
(* The list that is left to book, one fill later. *)

\* Where the members of a list are after the first is taken.
LEMMA TailParts ==
  ASSUME NEW T, NEW t \in Seq(T), t # << >>, NEW r, r = Tail(t), NEW f, f = Head(t)
  PROVE  /\ r \in Seq(T) /\ 1 \in DOMAIN t /\ f = t[1] /\ f \in T
         /\ DOMAIN t \subseteq Nat \ {0} /\ DOMAIN r \subseteq Nat \ {0}
         /\ \A i \in DOMAIN r : i + 1 \in DOMAIN t /\ r[i] = t[i + 1]
         /\ \A i \in DOMAIN t : i = 1 \/ (i - 1 \in DOMAIN r /\ r[i - 1] = t[i])
<1>1. PICK n : n = Len(t)
  OBVIOUS
<1>2. n \in Nat /\ DOMAIN t = 1 .. n /\ n # 0
  <2>1. n \in Nat /\ DOMAIN t = 1 .. n
    BY <1>1, LenProperties
  <2>2. n # 0
    BY <1>1
  <2> QED BY <2>1, <2>2
<1>3. f = t[1] /\ f \in T
  BY HeadTailProperties
<1>4. /\ r \in Seq(T) /\ Len(r) = n - 1
      /\ \A i \in 1 .. n - 1 : r[i] = t[i + 1]
  <2>1. r \in Seq(T) /\ Len(r) = n - 1 /\ \A i \in 1 .. Len(r) : r[i] = t[i + 1]
    BY <1>1, HeadTailProperties
  <2> QED BY <2>1
<1>5. DOMAIN r = 1 .. n - 1
  BY <1>4, LenProperties
<1>6. ASSUME NEW i \in 1 .. n - 1 PROVE i + 1 \in 1 .. n /\ r[i] = t[i + 1]
  BY <1>2, <1>4
<1>7. ASSUME NEW i \in 1 .. n PROVE i = 1 \/ (i - 1 \in 1 .. n - 1 /\ r[i - 1] = t[i])
  <2>1. CASE i # 1
    <3>1. i - 1 \in 1 .. n - 1 /\ (i - 1) + 1 = i
      BY <1>2, <2>1
    <3> QED BY <1>4, <3>1
  <2> QED BY <2>1
<1> QED BY <1>2, <1>3, <1>4, <1>5, <1>6, <1>7

\* The order of the sides stays.
LEMMA TailShape ==
  ASSUME NEW T, NEW t \in Seq(T), t # << >>, NEW r, r = Tail(t), SellsFirst(t), OneWay(t)
  PROVE  SellsFirst(r) /\ OneWay(r)
<1>1. /\ DOMAIN r \subseteq Nat \ {0}
      /\ \A i \in DOMAIN r : i + 1 \in DOMAIN t /\ r[i] = t[i + 1]
  BY TailParts
<1>2. SellsFirst(r)
  <2> SUFFICES ASSUME NEW i \in DOMAIN r, NEW j \in DOMAIN r, i < j, r[j].side = "SELL"
               PROVE  r[i].side = "SELL"
    BY DEF SellsFirst
  <2>1. i + 1 < j + 1
    BY <1>1
  <2>2. t[j + 1].side = "SELL" /\ i + 1 \in DOMAIN t /\ j + 1 \in DOMAIN t
    BY <1>1
  <2>3. t[i + 1].side = "SELL"
    BY <2>1, <2>2 DEF SellsFirst
  <2> QED BY <1>1, <2>3
<1>3. OneWay(r)
  BY <1>1 DEF OneWay
<1> QED BY <1>2, <1>3

\* A fill that does not sell the bucket leaves its legs.
LEMMA LegsTail ==
  ASSUME NEW T, NEW t \in Seq(T), t # << >>, NEW r, r = Tail(t), NEW f, f = Head(t),
         NEW odds, NEW b, NEW n, ~ Sells(f, b), Legs(t, odds, b, n)
  PROVE  Legs(r, odds, b, n)
<1> DEFINE e == [ j \in DOMAIN r |-> j + 1 ]
<1>1. /\ f = t[1] /\ DOMAIN t \subseteq Nat \ {0} /\ DOMAIN r \subseteq Nat \ {0}
      /\ \A i \in DOMAIN r : i + 1 \in DOMAIN t /\ r[i] = t[i + 1]
      /\ \A i \in DOMAIN t : i = 1 \/ (i - 1 \in DOMAIN r /\ r[i - 1] = t[i])
  BY TailParts
<1>2. \A j \in DOMAIN r : e[j] = j + 1
  OBVIOUS
<1> HIDE DEF e
<1>3. ASSUME NEW i \in DOMAIN r, NEW j \in DOMAIN r
      PROVE  (e[i] < e[j] => i < j) /\ (e[i] = e[j] => i = j)
  BY <1>1, <1>2
<1>4. ASSUME NEW i \in DOMAIN t, Sells(t[i], b)
      PROVE  \E j \in DOMAIN r : Sells(r[j], b) /\ e[j] = i
  <2>1. i # 1
    BY <1>1, <1>4
  <2>2. i - 1 \in DOMAIN r /\ r[i - 1] = t[i] /\ (i - 1) + 1 = i
    BY <1>1, <2>1
  <2> QED BY <1>2, <1>4, <2>2
<1>5. \A j \in DOMAIN r : e[j] \in DOMAIN t /\ t[e[j]] = r[j]
  BY <1>1, <1>2
<1>6. Along(e, t, odds, r, odds, b)
  BY <1>3, <1>4, <1>5 DEF Along
<1> QED BY <1>6, LegsAlong

\* The fill sold all n shares of the bucket, or its board lot and r sells the rest.
LegsAfter(f, r, odds, b, n) ==
  \/ f.qty = n
  \/ f \notin odds /\ f.qty = n - (n % BoardLot) /\ Legs(r, odds, b, n % BoardLot)

\* A fill that sells the bucket sells all of it, or the board lot.
LEMMA LegsHead ==
  ASSUME NEW T, NEW t \in Seq(T), t # << >>, NEW r, r = Tail(t), NEW f, f = Head(t),
         NEW odds, NEW b, NEW n \in Nat, Sells(f, b), Legs(t, odds, b, n)
  PROVE  LegsAfter(f, r, odds, b, n)
<1>1. /\ f = t[1] /\ 1 \in DOMAIN t /\ DOMAIN t \subseteq Nat \ {0} /\ DOMAIN r \subseteq Nat \ {0}
      /\ \A i \in DOMAIN r : i + 1 \in DOMAIN t /\ r[i] = t[i + 1]
      /\ \A i \in DOMAIN t : i = 1 \/ (i - 1 \in DOMAIN r /\ r[i - 1] = t[i])
  BY TailParts
<1>2. PICK m : m = n % BoardLot
  OBVIOUS
<1>3. m \in 0 .. BoardLot - 1 /\ m <= n /\ m % BoardLot = m /\ (n < BoardLot => m = n)
  BY <1>2 DEF BoardLot
<1>4. /\ \A i \in DOMAIN t : Sells(t[i], b) =>
           /\ t[i].qty = IF t[i] \in odds THEN m ELSE n - m
           /\ t[i] \in odds /\ n >= BoardLot =>
                \E j \in DOMAIN t : j < i /\ Sells(t[j], b) /\ t[j] \notin odds
           /\ \A j \in DOMAIN t : Sells(t[j], b) /\ (t[i] \in odds <=> t[j] \in odds) => i = j
      /\ m # 0 => \E i \in DOMAIN t : Sells(t[i], b) /\ t[i] \in odds
  BY <1>2 DEF Legs
<1>5. CASE f \in odds
  <2>1. f.qty = m
    BY <1>1, <1>4, <1>5
  <2>2. \A j \in DOMAIN t : ~ (j < 1)
    BY <1>1
  <2>3. ~ (n >= BoardLot)
    BY <1>1, <1>4, <1>5, <2>2
  <2>4. n < BoardLot
    BY <2>3 DEF BoardLot
  <2> QED BY <1>3, <2>1, <2>4 DEF LegsAfter
<1>6. CASE f \notin odds
  <2>1. f.qty = n - m
    BY <1>1, <1>4, <1>6
  <2>2. ASSUME NEW j \in DOMAIN r, Sells(r[j], b) PROVE r[j] \in odds /\ r[j].qty = m
    <3>1. j + 1 \in DOMAIN t /\ r[j] = t[j + 1] /\ j + 1 # 1
      BY <1>1
    <3>2. r[j] \in odds
      <4>1. SUFFICES ASSUME r[j] \notin odds PROVE FALSE
        OBVIOUS
      <4>2. Sells(t[j + 1], b) /\ (t[1] \in odds <=> t[j + 1] \in odds)
        BY <1>1, <1>6, <2>2, <3>1, <4>1
      <4> QED BY <1>1, <1>4, <3>1, <4>2
    <3> QED BY <1>4, <2>2, <3>1, <3>2
  <2>3. ASSUME NEW i \in DOMAIN r, NEW j \in DOMAIN r, Sells(r[i], b), Sells(r[j], b) PROVE i = j
    <3>1. /\ i + 1 \in DOMAIN t /\ r[i] = t[i + 1] /\ j + 1 \in DOMAIN t /\ r[j] = t[j + 1]
          /\ i \in Nat /\ j \in Nat
      BY <1>1
    <3>2. r[i] \in odds /\ r[j] \in odds
      BY <2>2, <2>3
    <3>3. i + 1 = j + 1
      BY <1>4, <2>3, <3>1, <3>2
    <3> QED BY <3>1, <3>3
  <2>4. m # 0 => \E j \in DOMAIN r : Sells(r[j], b) /\ r[j] \in odds
    <3> SUFFICES ASSUME m # 0 PROVE \E j \in DOMAIN r : Sells(r[j], b) /\ r[j] \in odds
      OBVIOUS
    <3>1. PICK i \in DOMAIN t : Sells(t[i], b) /\ t[i] \in odds
      BY <1>4
    <3>2. i # 1
      BY <1>1, <1>6, <3>1
    <3> QED BY <1>1, <3>1, <3>2
  <2>5. ~ (m >= BoardLot)
    BY <1>3 DEF BoardLot
  <2>6. Legs(r, odds, b, m)
    BY <1>3, <2>2, <2>3, <2>4, <2>5 DEF Legs
  <2> QED BY <1>2, <1>6, <2>1, <2>6 DEF LegsAfter
<1> QED BY <1>5, <1>6

-----------------------------------------------------------------------------
(* What a step does to the buckets. *)

\* A fill is booked and moves the shares of its bucket.
Booked(f) ==
  /\ f \in AllFills /\ fills' = Append(fills, f)
  /\ \A b \in Buckets : pos'[b] = pos[b] + Taken(f, b)

\* Nothing is booked, and no bucket gets more.
Shrinks == fills' = fills /\ \A b \in Buckets : pos'[b] <= pos[b]

\* What is bought today, settled or sold stays so.
LEMMA Stays ==
  ASSUME TypeOK, TypeOK', NEW b \in Buckets, Shrinks \/ \E f : Booked(f)
  PROVE  /\ pos[b] <= BoughtToday(b) => pos'[b] <= BoughtToday(b)'
         /\ Settled(b) => Settled(b)'
         /\ SoldToday(b) => SoldToday(b)'
<1>1. pos[b] \in Nat /\ pos'[b] \in Nat /\ BoughtToday(b) \in Nat
  BY BoughtType DEF TypeOK
<1>2. CASE Shrinks
  <2>1. fills' = fills /\ pos'[b] <= pos[b]
    BY <1>2 DEF Shrinks
  <2>2. /\ BoughtToday(b)' = BoughtToday(b) /\ (OperatorBought(b)' <=> OperatorBought(b))
        /\ (SoldToday(b)' <=> SoldToday(b))
    BY <2>1 DEF BoughtToday, OperatorBought, SoldToday
  <2>3. pos[b] <= BoughtToday(b) => pos'[b] <= BoughtToday(b)'
    BY <1>1, <2>1, <2>2
  <2> QED BY <2>2, <2>3 DEF Settled
<1>3. ASSUME NEW f, Booked(f)
      PROVE  /\ pos[b] <= BoughtToday(b) => pos'[b] <= BoughtToday(b)'
             /\ Settled(b) => Settled(b)'
             /\ SoldToday(b) => SoldToday(b)'
  <2>1. f \in AllFills /\ fills' = Append(fills, f) /\ pos'[b] = pos[b] + Taken(f, b)
    BY <1>3 DEF Booked
  <2>2. BoughtToday(b)' = BoughtToday(b) + Added(f, b)
    BY <2>1, BoughtMore
  <2>3. f.qty \in Nat /\ f.side \in {"BUY", "SELL"}
    BY <2>1, FillParts DEF Sides
  <2>4. Added(f, b) \in Nat /\ Taken(f, b) \in Int /\ Taken(f, b) <= Added(f, b)
    BY <2>3 DEF Added, Taken
  <2>5. pos[b] <= BoughtToday(b) => pos'[b] <= BoughtToday(b)'
    <3>1. PICK u, v : u = Added(f, b) /\ v = Taken(f, b)
      OBVIOUS
    <3> QED BY <1>1, <2>1, <2>2, <2>4, <3>1
  <2>6. ToSet(fills') = ToSet(fills) \cup {f}
    BY <2>1, AppendSet
  <2>7. (OperatorBought(b) => OperatorBought(b)') /\ (SoldToday(b) => SoldToday(b)')
    BY <2>6 DEF OperatorBought, SoldToday
  <2> QED BY <2>5, <2>7 DEF Settled
<1> QED BY <1>2, <1>3

\* The fills of the day are fills.
LEMMA FillMembers == TypeOK => \A g \in ToSet(fills) : g \in AllFills
<1> SUFFICES ASSUME TypeOK, NEW g \in ToSet(fills) PROVE g \in AllFills
  OBVIOUS
<1>1. \A i \in DOMAIN fills : fills[i] \in AllFills
  BY FillsAre, LenProperties, ElementOfSeq
<1> QED BY <1>1 DEF ToSet

\* A bucket that shrinks or is settled keeps what was sold of it sold.
LEMMA LeftStays ==
  ASSUME TypeOK, TypeOK', Shrinks \/ \E f : Booked(f), NEW g \in AllFills, Left(g),
         pos'[Of(g)] <= pos[Of(g)] \/ Settled(Of(g))'
  PROVE  Left(g)'
<1>1. PICK b : b = Of(g)
  OBVIOUS
<1>2. b \in Buckets
  BY <1>1, FillParts
<1>3. pos[b] \in Nat /\ pos'[b] \in Nat /\ BoardLot \in Nat
  BY <1>2 DEF TypeOK, BoardLot
<1>4. Settled(b) => Settled(b)'
  BY <1>2, Stays
<1>5. Settled(b) \/ (g.key[3] = FALSE /\ pos[b] < BoardLot)
  BY <1>1 DEF Left
<1>6. pos'[b] <= pos[b] \/ Settled(b)'
  <2>1. pos'[b] <= pos[b] \/ Settled(Of(g))'
    BY <1>1
  <2> QED BY <1>1, <2>1 DEF Settled, OperatorBought, BoughtToday
<1>7. Settled(b)' \/ (g.key[3] = FALSE /\ pos'[b] < BoardLot)
  BY <1>3, <1>4, <1>5, <1>6
<1>8. Settled(Of(g))' <=> Settled(b)'
  BY <1>1 DEF Settled, OperatorBought, BoughtToday
<1> QED BY <1>1, <1>7, <1>8 DEF Left

\* The engine's fills stay of what is sold or settled.
LEMMA SoldShrinks == ASSUME TypeOK, TypeOK', Shrinks, SoldInv PROVE SoldInv'
<1>1. fills' = fills /\ \A b \in Buckets : pos'[b] <= pos[b]
  BY DEF Shrinks
<1>2. ASSUME NEW g \in ToSet(fills), Engine(g), g.side = "SELL" PROVE Left(g)'
  <2>1. g \in AllFills /\ Of(g) \in Buckets
    BY FillMembers, FillParts
  <2>2. Left(g)
    BY <1>2 DEF SoldInv
  <2> QED BY <1>1, <2>1, <2>2, LeftStays
<1> QED BY <1>1, <1>2 DEF SoldInv

\* A booked fill keeps SoldInv: a sale of the engine leaves what it planned to
\* leave, and a BUY comes after its bucket is settled.
LEMMA SoldBooked ==
  ASSUME TypeOK, TypeOK', NEW f, Booked(f), SoldInv,
         Engine(f) /\ f.side = "SELL" => Left(f)',
         f.side = "BUY" => Settled(Of(f))'
  PROVE  SoldInv'
<1>1. f \in AllFills /\ fills' = Append(fills, f) /\ \A b \in Buckets : pos'[b] = pos[b] + Taken(f, b)
  BY DEF Booked
<1>2. ToSet(fills') = ToSet(fills) \cup {f}
  BY <1>1, AppendSet
<1>3. f.qty \in Nat /\ f.side \in {"BUY", "SELL"}
  BY <1>1, FillParts DEF Sides
<1>4. ASSUME NEW g \in ToSet(fills), Engine(g), g.side = "SELL" PROVE Left(g)'
  <2>1. g \in AllFills /\ Of(g) \in Buckets
    BY FillMembers, FillParts
  <2>2. Left(g)
    BY <1>4 DEF SoldInv
  <2>3. CASE Of(g) = Of(f) /\ f.side = "BUY"
    <3>1. Settled(Of(f))'
      BY <2>3
    <3>2. Settled(Of(g))'
      BY <2>3, <3>1 DEF Settled, OperatorBought, BoughtToday
    <3> QED BY <2>1, <2>2, <3>2, LeftStays
  <2>4. CASE ~ (Of(g) = Of(f) /\ f.side = "BUY")
    <3>1. PICK b : b = Of(g)
      OBVIOUS
    <3>2. pos[b] \in Nat /\ pos'[b] = pos[b] + Taken(f, b)
      BY <1>1, <2>1, <3>1 DEF TypeOK
    <3>3. Taken(f, b) \in Int /\ Taken(f, b) <= 0
      BY <1>3, <2>4, <3>1 DEF Taken
    <3>4. pos'[Of(g)] <= pos[Of(g)]
      BY <3>1, <3>2, <3>3
    <3> QED BY <2>1, <2>2, <3>4, LeftStays
  <2> QED BY <2>3, <2>4
<1>5. ASSUME NEW g \in ToSet(fills'), Engine(g), g.side = "SELL" PROVE Left(g)'
  <2>1. CASE g = f
    BY <1>5, <2>1 DEF Left, Settled, OperatorBought, BoughtToday
  <2> QED BY <1>2, <1>4, <1>5, <2>1
<1> QED BY <1>5 DEF SoldInv

-----------------------------------------------------------------------------
(* What is pending behind the next fill. *)

\* The process has t to book, f first and r behind it.
Takes(x, t, f, r) ==
  /\ t = proc[x].todo /\ t \in Seq(EngineFills) /\ t # << >>
  /\ f = Head(t) /\ r = Tail(t) /\ f \in EngineFills /\ r \in Seq(EngineFills)

\* The parts of a list and of what is behind its first fill.
LEMMA TakesParts ==
  ASSUME NEW x, NEW t, NEW f, NEW r, Takes(x, t, f, r)
  PROVE  /\ 1 \in DOMAIN t /\ f = t[1] /\ f.side \in {"BUY", "SELL"}
         /\ DOMAIN t \subseteq Nat \ {0} /\ DOMAIN r \subseteq Nat \ {0}
         /\ \A i \in DOMAIN t : t[i] \in EngineFills /\ Of(t[i]) \in Buckets
         /\ \A i \in DOMAIN r : i + 1 \in DOMAIN t /\ r[i] = t[i + 1]
         /\ \A i \in DOMAIN t : i = 1 \/ (i - 1 \in DOMAIN r /\ r[i - 1] = t[i])
<1>1. t \in Seq(EngineFills) /\ t # << >> /\ r = Tail(t) /\ f = Head(t) /\ f \in EngineFills
  BY DEF Takes
<1>2. f.side \in {"BUY", "SELL"}
  BY <1>1, FillParts DEF AllFills, Sides
<1>3. \A i \in DOMAIN t : t[i] \in EngineFills
  BY <1>1, LenProperties, ElementOfSeq
<1>4. \A i \in DOMAIN t : Of(t[i]) \in Buckets
  BY <1>3, FillParts DEF AllFills
<1> QED BY <1>1, <1>2, <1>3, <1>4, TailParts

\* Fewer symbols are kept open.
LEMMA FewerOpen ==
  ASSUME NEW a, NEW t, NEW a2, NEW r, KeptOpen(a2, r) \subseteq KeptOpen(a, t)
  PROVE  \A n \in Nat : Cardinality(KeptOpen(a, t)) <= n => Cardinality(KeptOpen(a2, r)) <= n
<1>1. KeptOpen(a, t) \subseteq Symbols
  BY DEF KeptOpen
<1>2. IsFiniteSet(KeptOpen(a, t))
  BY <1>1, SymbolsAssumption, FS_Subset
<1>3. /\ Cardinality(KeptOpen(a2, r)) \in Nat /\ Cardinality(KeptOpen(a, t)) \in Nat
      /\ Cardinality(KeptOpen(a2, r)) <= Cardinality(KeptOpen(a, t))
  BY <1>2, FS_Subset, FS_CardinalityType
<1> QED BY <1>3

\* The limit of open symbols is a number.
LEMMA OpenLimit == TypeOK => scenario.lim.globalOpen \in Nat
BY DayIs DEF Limits

\* The buckets of the day's exits are buckets, and their signals differ.
LEMMA SellBuckets == TypeOK => \A sig \in ToSet(scenario.sells) : Bucket(sig) \in Buckets
<1> SUFFICES ASSUME TypeOK, NEW sig \in ToSet(scenario.sells) PROVE Bucket(sig) \in Buckets
  OBVIOUS
<1>1. PICK s : s = scenario.sells
  OBVIOUS
<1>2. s \in Seq(SignalItems)
  BY <1>1, DayIs
<1>3. \A i \in DOMAIN s : s[i] \in SignalItems
  BY <1>2, LenProperties, ElementOfSeq
<1>4. sig \in SignalItems
  BY <1>1, <1>3 DEF ToSet
<1> QED BY <1>4 DEF SignalItems, Bucket, Buckets

\* What stays pending behind a fill that leaves all other buckets alone.
LEMMA PendingBehind ==
  ASSUME TypeOK, TypeOK', UNCHANGED << scenario, rejected >>, Shrinks \/ \E g : Booked(g),
         NEW x \in Procs, NEW t, NEW f, NEW r, Takes(x, t, f, r), Pending(t),
         NEW d \in Buckets, d = Of(f), \A b \in Buckets : b # d => pos'[b] = pos[b],
         \A sig \in ToSet(scenario.sells) :
           Unrejected(sig) /\ Tradable(sig.symbol) /\ Bucket(sig) = d => Leaving(r, d)',
         \A i \in DOMAIN r : r[i].side = "SELL" => Of(r[i]) # d \/ Closing(r, d)',
         ~ BothWays(fills') => KeptOpen(pos', r) \subseteq KeptOpen(pos, t)
  PROVE  Pending(r)'
<1>1. /\ f = t[1] /\ 1 \in DOMAIN t
      /\ \A i \in DOMAIN t : Of(t[i]) \in Buckets
      /\ \A i \in DOMAIN r : i + 1 \in DOMAIN t /\ r[i] = t[i + 1]
  BY TakesParts
<1>2. t \in Seq(EngineFills) /\ t # << >> /\ r = Tail(t) /\ f = Head(t)
  BY DEF Takes
<1>3. SellsFirst(r) /\ OneWay(r)
  BY <1>2, TailShape DEF Pending
<1>4. ASSUME NEW b \in Buckets, b # d
      PROVE  /\ Legs(t, OddFills, b, pos[b]) => Legs(r, OddFills, b, pos'[b])
             /\ Leaving(t, b) => Leaving(r, b)'
             /\ Closing(t, b) => Closing(r, b)'
  <2>1. ~ Sells(f, b) /\ pos'[b] = pos[b]
    BY <1>4 DEF Sells
  <2>2. PICK n : n = pos[b]
    OBVIOUS
  <2>3. Legs(t, OddFills, b, n) => Legs(r, OddFills, b, n)
    BY <1>2, <2>1, LegsTail
  <2>4. Legs(t, OddFills, b, pos[b]) => Legs(r, OddFills, b, pos'[b])
    BY <2>1, <2>2, <2>3
  <2>5. (Settled(b) => Settled(b)') /\ (SoldToday(b) => SoldToday(b)')
    BY <1>4, Stays
  <2> QED BY <2>4, <2>5 DEF Leaving, Closing
<1>5. ASSUME NEW i \in DOMAIN r, r[i].side = "SELL" PROVE Closing(r, Of(r[i]))'
  <2>1. PICK b : b = Of(r[i])
    OBVIOUS
  <2>2. b \in Buckets /\ Closing(t, b)
    BY <1>1, <1>5, <2>1 DEF Pending
  <2>3. Closing(r, b)'
    <3>1. CASE b = d
      BY <1>5, <2>1, <3>1
    <3>2. CASE b # d
      BY <1>4, <2>2, <3>2
    <3> QED BY <3>1, <3>2
  <2> QED BY <2>1, <2>3
<1>6. ASSUME NEW i \in DOMAIN r, r[i].side = "BUY"
      PROVE  pos'[Of(r[i])] <= BoughtToday(Of(r[i]))'
  <2>1. PICK b : b = Of(r[i])
    OBVIOUS
  <2>2. b \in Buckets /\ pos[b] <= BoughtToday(b)
    BY <1>1, <1>6, <2>1 DEF Pending
  <2>3. pos'[b] <= BoughtToday(b)'
    BY <2>2, Stays
  <2> QED BY <2>1, <2>3
<1>7. ASSUME NEW sig \in ToSet(scenario.sells), Unrejected(sig), Tradable(sig.symbol)
      PROVE  Leaving(r, Bucket(sig))'
  <2>1. PICK b : b = Bucket(sig)
    OBVIOUS
  <2>2. b \in Buckets
    BY <1>7, <2>1, SellBuckets
  <2>3. Leaving(t, b)
    BY <1>7, <2>1 DEF Pending
  <2>4. Leaving(r, b)'
    <3>1. CASE b = d
      BY <1>7, <2>1, <3>1
    <3>2. CASE b # d
      BY <1>4, <2>2, <2>3, <3>2
    <3> QED BY <3>1, <3>2
  <2> QED BY <2>1, <2>4
<1>8. ASSUME \A s \in Symbols : Tradable(s), ~ BothWays(fills'),
             NEW i \in DOMAIN r, r[i].side = "BUY"
      PROVE  Cardinality(KeptOpen(pos', r)) <= scenario.lim.globalOpen
  <2>1. ~ BothWays(fills)
    <3>1. CASE Shrinks
      BY <1>8, <3>1 DEF Shrinks
    <3>2. ASSUME NEW g, Booked(g) PROVE ~ BothWays(fills)
      BY <1>8, <3>2, AppendSet DEF Booked
    <3> QED BY <3>1, <3>2
  <2>2. i + 1 \in DOMAIN t /\ t[i + 1].side = "BUY"
    BY <1>1, <1>8
  <2>3. Cardinality(KeptOpen(pos, t)) <= scenario.lim.globalOpen
    BY <1>8, <2>1, <2>2 DEF Pending
  <2> QED BY <1>8, <2>3, FewerOpen, OpenLimit
<1>9. /\ \A sig : Unrejected(sig)' <=> Unrejected(sig)
      /\ \A s : Tradable(s)' <=> Tradable(s)
  BY DEF Unrejected, Tradable
<1> QED BY <1>3, <1>5, <1>6, <1>7, <1>8, <1>9 DEF Pending

\* Behind an entry no exit is left.
LEMMA PendingBuy ==
  ASSUME TypeOK, TypeOK', UNCHANGED << scenario, rejected >>, Shrinks \/ \E g : Booked(g),
         NEW x \in Procs, NEW t, NEW f, NEW r, Takes(x, t, f, r), Pending(t), f.side = "BUY",
         NEW d \in Buckets, d = Of(f), \A b \in Buckets : b # d => pos'[b] = pos[b],
         pos'[d] = pos[d] \/ Settled(d)'
  PROVE  Pending(r)'
<1>1. /\ 1 \in DOMAIN t /\ f = t[1] /\ DOMAIN t \subseteq Nat \ {0} /\ DOMAIN r \subseteq Nat \ {0}
      /\ \A i \in DOMAIN r : i + 1 \in DOMAIN t /\ r[i] = t[i + 1]
      /\ \A i \in DOMAIN t : i = 1 \/ (i - 1 \in DOMAIN r /\ r[i - 1] = t[i])
  BY TakesParts
<1>2. ASSUME NEW i \in DOMAIN t PROVE t[i].side # "SELL"
  <2>1. CASE i = 1
    BY <1>1, <2>1
  <2>2. CASE i # 1
    <3>1. 1 < i
      BY <1>1, <2>2
    <3> QED BY <1>1, <3>1 DEF Pending, SellsFirst
  <2> QED BY <2>1, <2>2
<1>3. \A i \in DOMAIN r : r[i].side # "SELL"
  BY <1>1, <1>2
<1>4. ASSUME NEW sig \in ToSet(scenario.sells),
             Unrejected(sig), Tradable(sig.symbol), Bucket(sig) = d
      PROVE  Leaving(r, d)'
  <2>1. Leaving(t, d)
    BY <1>4 DEF Pending
  <2>2. Settled(d) => Settled(d)'
    BY Stays
  <2>3. CASE Settled(d)'
    BY <2>3 DEF Leaving
  <2>4. CASE Legs(t, OddFills, d, pos[d]) /\ pos'[d] = pos[d]
    <3>1. PICK n : n = pos[d]
      OBVIOUS
    <3>2. n \in Nat
      BY <3>1 DEF TypeOK
    <3>3. n = 0
      <4>1. \A i \in DOMAIN t : ~ Sells(t[i], d)
        BY <1>2 DEF Sells
      <4> QED BY <2>4, <3>1, <3>2, <4>1, SomeLegs
    <3>4. Legs(r, OddFills, d, n)
      <4>1. \A i \in DOMAIN r : ~ Sells(r[i], d)
        BY <1>3 DEF Sells
      <4> QED BY <3>3, <4>1, NoLegs
    <3> QED BY <2>4, <3>1, <3>4 DEF Leaving
  <2> QED BY <2>1, <2>2, <2>3, <2>4 DEF Leaving
<1>5. ASSUME NEW c \in Strategies \X Symbols,
             \/ pos'[c] > 0 /\ \A i \in DOMAIN r : ~ Sells(r[i], c)
             \/ \E i \in DOMAIN r : r[i].side = "BUY" /\ Of(r[i]) = c
      PROVE  \/ pos[c] > 0 /\ \A i \in DOMAIN t : ~ Sells(t[i], c)
             \/ \E i \in DOMAIN t : t[i].side = "BUY" /\ Of(t[i]) = c
  <2>1. c \in Buckets
    BY DEF Buckets
  <2>2. CASE c = d
    BY <1>1, <2>2
  <2>3. CASE c # d
    <3>1. pos'[c] = pos[c] /\ \A i \in DOMAIN t : ~ Sells(t[i], c)
      BY <1>2, <2>1, <2>3 DEF Sells
    <3> QED BY <1>1, <1>5, <3>1
  <2> QED BY <2>2, <2>3
<1>6. KeptOpen(pos', r) \subseteq KeptOpen(pos, t)
  BY <1>5 DEF KeptOpen
<1> QED BY <1>3, <1>4, <1>6, PendingBehind

\* Behind a leg of an exit, the bucket is still to be closed, or closed.
LEMMA PendingSell ==
  ASSUME TypeOK, TypeOK', UNCHANGED << scenario, rejected >>, Shrinks \/ \E g : Booked(g),
         NEW x \in Procs, NEW t, NEW f, NEW r, Takes(x, t, f, r), Pending(t), f.side = "SELL",
         NEW d \in Buckets, d = Of(f), \A b \in Buckets : b # d => pos'[b] = pos[b],
         Closing(r, d)', ~ BothWays(fills') /\ SoldToday(d)' /\ Settled(d)' => pos'[d] = 0
  PROVE  Pending(r)'
<1>1. /\ 1 \in DOMAIN t /\ f = t[1]
      /\ \A i \in DOMAIN r : i + 1 \in DOMAIN t /\ r[i] = t[i + 1]
      /\ \A i \in DOMAIN t : i = 1 \/ (i - 1 \in DOMAIN r /\ r[i - 1] = t[i])
  BY TakesParts
<1>2. Leaving(r, d)'
  BY DEF Closing, Leaving
<1>3. ASSUME ~ BothWays(fills'), NEW c \in Strategies \X Symbols,
             \/ pos'[c] > 0 /\ \A i \in DOMAIN r : ~ Sells(r[i], c)
             \/ \E i \in DOMAIN r : r[i].side = "BUY" /\ Of(r[i]) = c
      PROVE  \/ pos[c] > 0 /\ \A i \in DOMAIN t : ~ Sells(t[i], c)
             \/ \E i \in DOMAIN t : t[i].side = "BUY" /\ Of(t[i]) = c
  <2>1. c \in Buckets
    BY DEF Buckets
  <2>2. CASE c = d
    <3>1. \A i \in DOMAIN r : ~ (r[i].side = "BUY" /\ Of(r[i]) = c)
      BY <1>1, <2>2 DEF Pending, OneWay
    <3>2. pos'[d] > 0 /\ \A i \in DOMAIN r : ~ Sells(r[i], d)
      BY <1>3, <2>2, <3>1
    <3>3. PICK n : n = pos'[d]
      OBVIOUS
    <3>4. n \in Nat \ {0}
      BY <3>2, <3>3 DEF TypeOK
    <3>5. ~ Legs(r, OddFills, d, n)
      BY <3>2, <3>4, SomeLegs
    <3>6. SoldToday(d)' /\ Settled(d)'
      BY <3>3, <3>5 DEF Closing
    <3> QED BY <1>3, <3>2, <3>6
  <2>3. CASE c # d
    <3>1. pos'[c] = pos[c] /\ ~ Sells(f, c)
      BY <2>1, <2>3 DEF Sells
    <3> QED BY <1>1, <1>3, <3>1
  <2> QED BY <2>2, <2>3
<1>4. ~ BothWays(fills') => KeptOpen(pos', r) \subseteq KeptOpen(pos, t)
  BY <1>3 DEF KeptOpen
<1> QED BY <1>2, <1>4, PendingBehind

\* A settled bucket that was sold is empty, after one more SELL too.
LEMMA EmptyThen ==
  ASSUME TypeOK, TypeOK', NEW d \in Buckets,
         \/ fills' = fills /\ pos'[d] = pos[d]
         \/ \E g : Booked(g) /\ Sells(g, d)
  PROVE  ~ BothWays(fills') /\ SoldToday(d)' /\ Settled(d)' => pos'[d] = 0
<1> SUFFICES ASSUME ~ BothWays(fills'), SoldToday(d)', Settled(d)' PROVE pos'[d] = 0
  OBVIOUS
<1>1. CASE fills' = fills /\ pos'[d] = pos[d]
  <2>1. SoldToday(d) /\ Settled(d) /\ ~ BothWays(fills)
    BY <1>1 DEF SoldToday, Settled, OperatorBought, BoughtToday
  <2> QED BY <1>1, <2>1, SettledEmpty
<1>2. ASSUME NEW g, Booked(g), Sells(g, d) PROVE pos'[d] = 0
  <2>1. g \in AllFills /\ fills' = Append(fills, g) /\ g.side = "SELL" /\ Of(g) = d
    BY <1>2 DEF Booked, Sells
  <2>2. ToSet(fills') = ToSet(fills) \cup {g}
    BY <2>1, AppendSet
  <2>3. \A h \in ToSet(fills') : ~ (h.side = "BUY" /\ Of(h) = d)
    BY <2>1, <2>2 DEF BothWays
  <2>4. BoughtToday(d) = 0
    BY <2>2, <2>3, NoneBought
  <2>5. Added(g, d) = 0
    BY <2>1 DEF Added
  <2>6. BoughtToday(d)' = 0
    BY <2>1, <2>4, <2>5, BoughtMore
  <2>7. ~ OperatorBought(d)'
    BY <2>3 DEF OperatorBought
  <2>8. pos'[d] \in Nat /\ pos'[d] <= 0
    BY <2>6, <2>7 DEF TypeOK, Settled
  <2> QED BY <2>8
<1> QED BY <1>1, <1>2

-----------------------------------------------------------------------------
(* The steps that take a fill. *)

\* Signals of the day: an id is of one signal, on one side.
LEMMA SignalIds ==
  ASSUME TypeOK, NEW sig \in ToSet(scenario.sells)
  PROVE  /\ \A other \in ToSet(scenario.buys) : other.id # sig.id
         /\ \A other \in ToSet(scenario.sells) : other.id = sig.id => other = sig
<1>1. IsScenario(scenario)
  BY ScenariosAssumption DEF TypeOK
<1>2. PICK i \in DOMAIN scenario.sells : sig = scenario.sells[i]
  BY DEF ToSet
<1>3. ASSUME NEW other \in ToSet(scenario.buys) PROVE other.id # sig.id
  <2>1. PICK j \in DOMAIN scenario.buys : other = scenario.buys[j]
    BY DEF ToSet
  <2> QED BY <1>1, <1>2, <2>1 DEF IsScenario
<1>4. ASSUME NEW other \in ToSet(scenario.sells), other.id = sig.id PROVE other = sig
  <2>1. PICK j \in DOMAIN scenario.sells : other = scenario.sells[j]
    BY DEF ToSet
  <2>2. PICK ids : ids = [ k \in DOMAIN scenario.sells |-> scenario.sells[k].id ]
    OBVIOUS
  <2>3. IsInjective(ids) /\ DOMAIN ids = DOMAIN scenario.sells /\ ids[i] = ids[j]
    BY <1>1, <1>2, <1>4, <2>1, <2>2 DEF IsScenario
  <2>4. i = j
    BY <2>3 DEF IsInjective
  <2> QED BY <1>2, <2>1, <2>4
<1> QED BY <1>3, <1>4

\* Which fills are the engine's.
LEMMA EngineIs ==
  ASSUME NEW f \in AllFills
  PROVE  /\ f \in EngineFills <=> Engine(f)
         /\ f \in OperatorFills <=> ~ Engine(f)
         /\ f \in EngineFills => f.key[3] \in BOOLEAN
BY DEF AllFills, EngineFills, OperatorFills, FillItems, Engine

\* What the first fill sells of a bucket that holds less than a board lot.
LEMMA LegsQty ==
  ASSUME NEW T, NEW t \in Seq(T), t # << >>, NEW f, f = Head(t), NEW odds, NEW b,
         NEW n \in Nat, n < BoardLot, Sells(f, b), Legs(t, odds, b, n)
  PROVE  f.qty = IF f \in odds THEN n ELSE 0
<1>1. f = t[1] /\ 1 \in DOMAIN t
  BY TailParts
<1>2. f.qty = IF f \in odds THEN n % BoardLot ELSE n - (n % BoardLot)
  BY <1>1 DEF Legs
<1>3. n % BoardLot = n
  BY DEF BoardLot
<1> QED BY <1>2, <1>3

\* A leg of an exit that is dropped is one of a bucket that was sold today and is
\* settled.
LEMMA DroppedSell ==
  ASSUME TypeOK, NamesInv, SoldInv, NEW x \in Procs, BookDuplicate(x) \/ SkipSell(x),
         NEW t, NEW f, NEW r, Takes(x, t, f, r), f = Next1(x), f.side = "SELL",
         NEW d \in Buckets, d = Of(f), Closing(t, d)
  PROVE  SoldToday(d) /\ Settled(d)
<1>1. t \in Seq(EngineFills) /\ t # << >> /\ f = Head(t) /\ f \in EngineFills /\ 1 \in DOMAIN t
      /\ f = t[1] /\ t = proc[x].todo
  BY TakesParts DEF Takes
<1>2. f \in AllFills /\ f.qty \in Nat \ {0} /\ Sells(f, d)
  BY <1>1, FillParts DEF AllFills, Sells
<1>3. PICK n : n = pos[d]
  OBVIOUS
<1>4. n \in Nat
  BY <1>3 DEF TypeOK
<1>5. CASE SkipSell(x)
  <2>1. n = 0
    BY <1>3, <1>5 DEF SkipSell, LongTermProtected
  <2>2. ~ Legs(t, OddFills, d, n)
    <3>1. n < BoardLot
      BY <2>1 DEF BoardLot
    <3> QED BY <1>1, <1>2, <1>4, <2>1, <3>1, LegsQty
  <2> QED BY <1>3, <2>2 DEF Closing
<1>6. CASE BookDuplicate(x)
  <2>1. PICK g \in ToSet(fills) : g.key = f.key
    BY <1>6 DEF BookDuplicate, Keys
  <2>2. g \in AllFills /\ g.side \in {"BUY", "SELL"} /\ Engine(g)
    <3>1. g \in AllFills
      BY FillMembers
    <3>2. Engine(g)
      BY <1>1, <1>2, <2>1, EngineIs DEF Engine
    <3> QED BY <3>1, <3>2, FillParts DEF Sides
  <2>3. Named(f) /\ Named(g)
    BY <1>1, <2>2 DEF NamesInv
  <2>4. PICK sig \in ToSet(scenario.sells) : f.key[2] = sig.id /\ Bucket(sig) = Of(f)
    BY <2>3 DEF Named
  <2>5. PICK other \in ToSet(IF g.side = "SELL" THEN scenario.sells ELSE scenario.buys) :
          g.key[2] = other.id /\ Bucket(other) = Of(g)
    BY <2>3 DEF Named
  <2>6. g.side = "SELL" /\ other = sig
    BY <2>1, <2>2, <2>4, <2>5, SignalIds
  <2>7. Sells(g, d)
    BY <2>4, <2>5, <2>6 DEF Sells
  <2>8. SoldToday(d)
    BY <2>2, <2>7 DEF SoldToday
  <2>9. CASE Settled(d)
    BY <2>8, <2>9
  <2>10. CASE ~ Settled(d)
    <3>1. Left(g)
      BY <2>2, <2>6 DEF SoldInv
    <3>2. g.key[3] = FALSE /\ n < BoardLot
      BY <1>3, <2>7, <2>10, <3>1 DEF Left, Sells
    <3>3. f \notin OddFills
      BY <2>1, <3>2 DEF OddFills
    <3>4. ~ Legs(t, OddFills, d, n)
      BY <1>1, <1>2, <1>4, <3>2, <3>3, LegsQty
    <3> QED BY <1>3, <3>4 DEF Closing
  <2> QED BY <2>9, <2>10
<1> QED BY <1>5, <1>6

\* The process takes f from t and keeps r.
Took(x, t, f, r) ==
  /\ Takes(x, t, f, r) /\ proc'[x].todo = r /\ f \in AllFills /\ Of(f) \in Buckets
  /\ f.side \in {"BUY", "SELL"} /\ f.qty \in Nat \ {0}
  /\ proc[x].pc = "booking" /\ proc'[x].pc = "booking"
  /\ \A y \in Procs \ {x} : proc'[y] = proc[y]

\* What a step that takes the next fill of a process does to its list.
LEMMA Taking ==
  ASSUME TypeOK, NEW x \in Procs, Ready(x), proc' = Done1(x),
         NEW t, t = proc[x].todo, NEW f, f = Next1(x), NEW r, r = Tail(t)
  PROVE  Took(x, t, f, r)
<1>1. /\ f \in EngineFills /\ f \in AllFills /\ Tail(proc[x].todo) \in Seq(EngineFills)
  BY NextFill
<1>2. t \in Seq(EngineFills) /\ t # << >> /\ f = Head(t)
  BY DEF TypeOK, Executors, Ready, Next1
<1>3. Of(f) \in Buckets /\ f.side \in {"BUY", "SELL"} /\ f.qty \in Nat \ {0}
  BY <1>1, FillParts DEF Sides
<1> QED BY <1>1, <1>2, <1>3, Procedures DEF Took, Takes, Ready

\* What is pending of a list is pending of the process that has the list.
LEMMA PendingNext ==
  ASSUME NEW x, NEW r, r = proc'[x].todo, Pending(r)'
  PROVE  Pending(proc[x].todo)'
BY DEF Pending, Closing, Leaving, Legs, KeptOpen, SoldToday, Settled, OperatorBought, BoughtToday,
       Unrejected, Tradable, SellsFirst, OneWay, BothWays

\* A fill that is dropped keeps the rest pending.
LEMMA DropPending ==
  ASSUME TypeOK, TypeOK', NamesInv, SoldInv, NEW x \in Procs,
         BookDuplicate(x) \/ SkipBuy(x) \/ SkipSell(x), Pending(proc[x].todo)
  PROVE  Pending(proc[x].todo)'
<1>1. PICK t, f, r, d : t = proc[x].todo /\ f = Next1(x) /\ r = Tail(t) /\ d = Of(f)
  OBVIOUS
<1>2. /\ Ready(x) /\ proc' = Done1(x)
      /\ UNCHANGED << scenario, pos, fills, rejected >>
  BY DEF BookDuplicate, SkipBuy, SkipSell, New, books
<1>3. /\ Takes(x, t, f, r) /\ proc'[x].todo = r /\ d \in Buckets /\ f.side \in {"BUY", "SELL"}
  <2>1. Takes(x, t, f, r) /\ proc'[x].todo = r /\ Of(f) \in Buckets /\ f.side \in {"BUY", "SELL"}
    <3>1. Took(x, t, f, r)
      BY <1>1, <1>2, Taking
    <3> QED BY <3>1 DEF Took
  <2> QED BY <1>1, <2>1
<1>4. Pending(t)
  BY <1>1
<1>5. Shrinks
  <2>1. \A b \in Buckets : pos[b] \in Nat
    BY DEF TypeOK
  <2> QED BY <1>2, <2>1 DEF Shrinks
<1>6. CASE f.side = "BUY"
  <2>1. Pending(r)'
    BY <1>1, <1>2, <1>3, <1>4, <1>5, <1>6, PendingBuy
  <2> QED BY <1>3, <2>1, PendingNext
<1>7. CASE f.side = "SELL"
  <2>1. Closing(t, d)
    BY <1>1, <1>3, <1>4, <1>7, TakesParts DEF Pending
  <2>2. BookDuplicate(x) \/ SkipSell(x)
    BY <1>1, <1>7 DEF SkipBuy
  <2>3. SoldToday(d) /\ Settled(d)
    BY <1>1, <1>3, <1>7, <2>1, <2>2, DroppedSell
  <2>4. SoldToday(d)' /\ Settled(d)'
    BY <1>3, <1>5, <2>3, Stays
  <2>5. Closing(r, d)'
    BY <2>4 DEF Closing
  <2>6. ~ BothWays(fills') /\ SoldToday(d)' /\ Settled(d)' => pos'[d] = 0
    BY <1>2, <1>3, EmptyThen
  <2>7. Pending(r)'
    BY <1>1, <1>2, <1>3, <1>4, <1>5, <1>7, <2>5, <2>6, PendingSell
  <2> QED BY <1>3, <2>7, PendingNext
<1> QED BY <1>3, <1>6, <1>7

\* A fill that is booked moves the shares of its bucket only.
LEMMA BooksBooked ==
  ASSUME TypeOK, NEW x \in Procs, BookBuy(x) \/ BookSell(x),
         NEW t, t = proc[x].todo, NEW f, f = Next1(x), NEW r, r = Tail(t)
  PROVE  /\ Took(x, t, f, r) /\ Booked(f) /\ UNCHANGED << scenario, rejected, overlapped >>
         /\ \A b \in Buckets : b # Of(f) => pos'[b] = pos[b]
<1>1. Ready(x) /\ proc' = Done1(x) /\ fills' = Append(fills, f)
      /\ UNCHANGED << scenario, rejected, overlapped >>
  BY DEF BookBuy, BookSell, New
<1>2. Took(x, t, f, r)
  BY <1>1, Taking
<1>3. Books(x, f)
  BY BookingSteps
<1>4. Booked(f)
  BY <1>1, <1>3 DEF Books, Booked
<1>5. ASSUME NEW b \in Buckets, b # Of(f) PROVE pos'[b] = pos[b]
  <2>1. pos'[b] = pos[b] + Taken(f, b) /\ pos[b] \in Nat
    BY <1>4 DEF Booked, TypeOK
  <2> QED BY <1>5, <2>1 DEF Taken
<1> QED BY <1>1, <1>2, <1>4, <1>5

\* An entry that is booked leaves its bucket with what is bought today.
LEMMA BuyPending ==
  ASSUME TypeOK, TypeOK', SoldInv, NEW x \in Procs, BookBuy(x), Pending(proc[x].todo)
  PROVE  Pending(proc[x].todo)' /\ SoldInv'
<1>1. PICK t, f, r : t = proc[x].todo /\ f = Next1(x) /\ r = Tail(t)
  OBVIOUS
<1>2. PICK d : d = Of(f)
  OBVIOUS
<1>3. /\ Took(x, t, f, r) /\ Booked(f) /\ UNCHANGED << scenario, rejected >>
      /\ \A b \in Buckets : b # d => pos'[b] = pos[b]
  BY <1>1, <1>2, BooksBooked
<1>4. Takes(x, t, f, r) /\ proc'[x].todo = r /\ d \in Buckets /\ f.side = "BUY" /\ Pending(t)
  BY <1>1, <1>2, <1>3 DEF Took, BookBuy
<1>5. pos[d] <= BoughtToday(d)
  BY <1>2, <1>4, TakesParts DEF Pending
<1>6. Settled(d)'
  BY <1>3, <1>4, <1>5, Stays DEF Settled
<1>7. Pending(r)'
  BY <1>2, <1>3, <1>4, <1>6, PendingBuy
<1>8. SoldInv'
  <2>1. f.side # "SELL"
    BY <1>4
  <2>2. Settled(Of(f))'
    BY <1>2, <1>6
  <2> QED BY <1>3, <2>1, <2>2, SoldBooked
<1> QED BY <1>4, <1>7, <1>8, PendingNext

\* A leg of an exit that is booked leaves its bucket with the other leg, or with
\* what is bought today.
LEMMA SellPending ==
  ASSUME TypeOK, TypeOK', SoldInv, NEW x \in Procs, BookSell(x), Pending(proc[x].todo)
  PROVE  Pending(proc[x].todo)' /\ SoldInv'
<1>1. PICK t, f, r : t = proc[x].todo /\ f = Next1(x) /\ r = Tail(t)
  OBVIOUS
<1>2. PICK d : d = Of(f)
  OBVIOUS
<1>3. /\ Took(x, t, f, r) /\ Booked(f) /\ UNCHANGED << scenario, rejected >>
      /\ \A b \in Buckets : b # d => pos'[b] = pos[b]
  BY <1>1, <1>2, BooksBooked
<1>4. /\ Takes(x, t, f, r) /\ proc'[x].todo = r /\ d \in Buckets /\ f.side = "SELL" /\ Pending(t)
      /\ f \in AllFills /\ f.qty \in Nat \ {0}
  BY <1>1, <1>2, <1>3 DEF Took, BookSell
<1>5. /\ t \in Seq(EngineFills) /\ t # << >> /\ f = Head(t) /\ r = Tail(t) /\ f \in EngineFills
      /\ Engine(f) /\ Sells(f, d)
  BY <1>2, <1>4, EngineIs DEF Takes, Sells
<1>6. Closing(t, d)
  BY <1>2, <1>4, TakesParts DEF Pending
<1>7. SoldToday(d)'
  <2>1. ToSet(fills') = ToSet(fills) \cup {f}
    BY <1>3, AppendSet DEF Booked
  <2> QED BY <1>5, <2>1 DEF SoldToday
<1>8. PICK n, m : n = pos[d] /\ m = pos'[d]
  OBVIOUS
<1>9. n \in Nat /\ m = n - f.qty
  <2>1. Taken(f, d) = - f.qty
    BY <1>2, <1>4 DEF Taken
  <2>2. m = n + Taken(f, d)
    BY <1>3, <1>4, <1>8 DEF Booked
  <2>3. n \in Nat
    BY <1>4, <1>8 DEF TypeOK
  <2> QED BY <1>4, <2>1, <2>2, <2>3
<1>10. Closing(r, d)' /\ Left(f)'
  <2>1. CASE Settled(d)'
    <3>1. Settled(Of(f))'
      BY <1>2, <2>1
    <3> QED BY <1>7, <2>1, <3>1 DEF Closing, Left
  <2>2. CASE Settled(d)
    <3>1. Settled(d)'
      BY <1>3, <1>4, <2>2, Stays
    <3> QED BY <2>1, <3>1
  <2>3. CASE f.qty = n
    <3>1. m = 0
      BY <1>9, <2>3
    <3>2. BoughtToday(d)' = BoughtToday(d) + Added(f, d)
      BY <1>3, <1>4, BoughtMore DEF Booked
    <3>3. BoughtToday(d) \in Nat /\ Added(f, d) \in Nat
      BY <1>4, BoughtType DEF Added
    <3>4. 0 <= BoughtToday(d)'
      BY <3>2, <3>3
    <3>5. Settled(d)'
      BY <1>8, <3>1, <3>4 DEF Settled
    <3> QED BY <2>1, <3>5
  <2>4. CASE /\ f \notin OddFills /\ f.qty = n - (n % BoardLot)
             /\ Legs(r, OddFills, d, n % BoardLot)
    <3>1. PICK k : k = n % BoardLot
      OBVIOUS
    <3>2. k \in 0 .. BoardLot - 1 /\ k <= n
      BY <1>9, <3>1 DEF BoardLot
    <3>3. m = k /\ m < BoardLot
      BY <1>9, <2>4, <3>1, <3>2 DEF BoardLot
    <3>4. Closing(r, d)'
      <4>1. Legs(r, OddFills, d, m)
        BY <2>4, <3>1, <3>3
      <4> QED BY <1>8, <4>1 DEF Closing
    <3>5. f.key[3] = FALSE
      BY <1>4, <1>5, <2>4, EngineIs DEF OddFills
    <3>6. pos'[Of(f)] < BoardLot
      BY <1>2, <1>8, <3>3
    <3>7. Left(f)'
      BY <3>5, <3>6 DEF Left
    <3> QED BY <3>4, <3>7
  <2>5. Legs(t, OddFills, d, n) \/ Settled(d)
    BY <1>6, <1>8 DEF Closing
  <2>6. ASSUME Legs(t, OddFills, d, n)
        PROVE  \/ f.qty = n
               \/ /\ f \notin OddFills /\ f.qty = n - (n % BoardLot)
                  /\ Legs(r, OddFills, d, n % BoardLot)
    <3>1. PICK odds : odds = OddFills
      OBVIOUS
    <3>2. t \in Seq(EngineFills) /\ t # << >> /\ f = Head(t) /\ r = Tail(t) /\ n \in Nat
          /\ Sells(f, d) /\ Legs(t, odds, d, n)
      BY <1>5, <1>9, <2>6, <3>1
    <3>3. LegsAfter(f, r, odds, d, n)
      BY <3>2, LegsHead
    <3> QED BY <3>1, <3>3 DEF LegsAfter
  <2> QED BY <2>2, <2>3, <2>4, <2>5, <2>6
<1>11. ~ BothWays(fills') /\ SoldToday(d)' /\ Settled(d)' => pos'[d] = 0
  BY <1>3, <1>4, <1>5, EmptyThen
<1>12. Pending(r)'
  BY <1>2, <1>3, <1>4, <1>10, <1>11, PendingSell
<1>13. SoldInv'
  <2>1. f.side # "BUY"
    BY <1>4
  <2> QED BY <1>3, <1>10, <2>1, SoldBooked
<1> QED BY <1>4, <1>12, <1>13, PendingNext

-----------------------------------------------------------------------------
(* The steps that plan or rest. *)

\* What is pending stays so if nothing it depends on changes.
LEMMA PendingSame ==
  ASSUME NEW t, UNCHANGED << scenario, pos, fills, rejected >>, Pending(t)
  PROVE  Pending(t)'
BY DEF Pending, Closing, Leaving, SoldToday, Settled, OperatorBought, BoughtToday, Unrejected, Tradable

\* A plan leaves such a list, of signals of the day.
LEMMA PlanPending ==
  ASSUME TypeOK, NEW x \in Procs, PlanBundles(x), proc'[x].pc = "booking"
  PROVE  Pending(proc[x].todo)' /\ \A i \in DOMAIN proc'[x].todo : Named(proc'[x].todo[i])
<1>1. PICK t, a, limit, S, B :
        /\ t = proc'[x].todo /\ a = Ordinary /\ limit = scenario.lim.globalOpen
        /\ S = ToSet(Exits) /\ B = ToSet(Entries(x))
  OBVIOUS
<1>2. DueFor(t, a, limit, S, B)
  BY <1>1, PlanDue
<1>3. /\ t \in Seq(EngineFills)
      /\ \A i \in DOMAIN t :
           \E sig \in (IF t[i].side = "SELL" THEN S ELSE B) :
             t[i].key[2] = sig.id /\ Bucket(sig) = Of(t[i])
      /\ SellsFirst(t) /\ OneWay(t)
      /\ \A i \in DOMAIN t : t[i].side = "SELL" => Legs(t, OddFills, Of(t[i]), a[Of(t[i])])
      /\ \A i \in DOMAIN t : t[i].side = "BUY" => a[Of(t[i])] = 0
      /\ \A sig \in S : Tradable(sig.symbol) => Legs(t, OddFills, Bucket(sig), a[Bucket(sig)])
      /\ (\A y \in Symbols : Tradable(y)) /\ (\E i \in DOMAIN t : t[i].side = "BUY")
           => Cardinality(KeptOpen(a, t)) <= limit
  BY <1>2 DEF DueFor
<1>4. /\ S \subseteq ToSet(scenario.sells) /\ B \subseteq ToSet(scenario.buys)
      /\ \A sig \in ToSet(scenario.sells) : Unrejected(sig) => sig \in S
  BY <1>1, PlannedSignals
<1>5. \A i \in DOMAIN t : Of(t[i]) \in Strategies \X Symbols
  <2>1. \A i \in DOMAIN t : t[i] \in EngineFills
    BY <1>3, LenProperties, ElementOfSeq
  <2> QED BY <2>1 DEF EngineFills, FillItems, Of
<1>6. \A b \in Strategies \X Symbols : a[b] = pos[b]
  BY <1>1 DEF Ordinary
<1>7. ASSUME NEW i \in DOMAIN t, t[i].side = "SELL" PROVE Closing(t, Of(t[i]))
  <2>1. PICK b : b = Of(t[i])
    OBVIOUS
  <2>2. Legs(t, OddFills, b, a[b]) /\ a[b] = pos[b]
    BY <1>3, <1>5, <1>6, <1>7, <2>1
  <2>3. Closing(t, b)
    BY <2>2 DEF Closing
  <2> QED BY <2>1, <2>3
<1>8. ASSUME NEW i \in DOMAIN t, t[i].side = "BUY" PROVE pos[Of(t[i])] <= BoughtToday(Of(t[i]))
  <2>1. PICK b : b = Of(t[i])
    OBVIOUS
  <2>2. pos[b] = 0
    BY <1>3, <1>5, <1>6, <1>8, <2>1
  <2>3. BoughtToday(b) \in Nat
    BY BoughtType
  <2> QED BY <2>1, <2>2, <2>3
<1>9. ASSUME NEW sig \in ToSet(scenario.sells), Unrejected(sig), Tradable(sig.symbol)
      PROVE  Leaving(t, Bucket(sig))
  <2>1. PICK b : b = Bucket(sig)
    OBVIOUS
  <2>2. b \in Strategies \X Symbols
    <3>1. sig \in SignalItems
      BY <1>9, DayIs DEF Signals
    <3> QED BY <2>1, <3>1 DEF SignalItems, Bucket
  <2>3. Legs(t, OddFills, b, a[b]) /\ a[b] = pos[b]
    BY <1>3, <1>4, <1>6, <1>9, <2>1, <2>2
  <2>4. Leaving(t, b)
    BY <2>3 DEF Leaving
  <2> QED BY <2>1, <2>4
<1>10. KeptOpen(a, t) = KeptOpen(pos, t)
  BY <1>6 DEF KeptOpen
<1>11. Pending(t)
  BY <1>1, <1>3, <1>7, <1>8, <1>9, <1>10 DEF Pending
<1>12. Pending(t)'
  <2>1. UNCHANGED << scenario, pos, fills, rejected >>
    BY DEF PlanBundles, books
  <2> QED BY <1>11, <2>1, PendingSame
<1>13. \A i \in DOMAIN t : Named(t[i])
  BY <1>3, <1>4 DEF Named
<1> QED BY <1>1, <1>12, <1>13, PendingNext

-----------------------------------------------------------------------------
\* Nothing is booked, no bucket gets more, a process that books goes on with the
\* books and the list it had.
Rests ==
  /\ UNCHANGED scenario /\ Shrinks /\ (overlapped => overlapped')
  /\ \A y \in Procs : proc'[y].todo \in {proc[y].todo, << >>}
  /\ \A y \in Procs : proc'[y].pc = "booking" /\ ~ overlapped' =>
       /\ proc[y].pc = "booking" /\ proc'[y].todo = proc[y].todo
       /\ UNCHANGED << pos, rejected >>

\* Which fills are of the day's signals depends on the scenario alone.
LEMMA NamedSame == ASSUME UNCHANGED scenario PROVE \A f : Named(f)' <=> Named(f)
BY DEF Named

\* A step that books nothing and plans nothing keeps both.
LEMMA RestKeeps ==
  ASSUME TypeOK, TypeOK', NamesInv, ExitsInv, Rests
  PROVE  NamesInv' /\ ExitsInv'
<1>1. /\ UNCHANGED << scenario, fills >> /\ Shrinks /\ (overlapped => overlapped')
      /\ \A y \in Procs : proc'[y].todo \in {proc[y].todo, << >>}
      /\ \A y \in Procs : proc'[y].pc = "booking" /\ ~ overlapped' =>
           /\ proc[y].pc = "booking" /\ proc'[y].todo = proc[y].todo
           /\ UNCHANGED << pos, rejected >>
  BY DEF Rests, Shrinks
<1>2. NamesInv'
  <2>1. \A y \in Procs : \A i \in DOMAIN proc'[y].todo : Named(proc'[y].todo[i])
    BY <1>1 DEF NamesInv
  <2>2. \A f \in ToSet(fills) : Engine(f) => Named(f)
    BY DEF NamesInv
  <2> QED BY <1>1, <2>1, <2>2, NamedSame DEF NamesInv
<1>3. ASSUME ~ overlapped' PROVE SoldInv'
  BY <1>1, <1>3, SoldShrinks DEF ExitsInv
<1>4. ASSUME ~ overlapped', NEW y \in Procs, proc'[y].pc = "booking" PROVE Pending(proc[y].todo)'
  <2>1. proc[y].pc = "booking" /\ proc'[y].todo = proc[y].todo /\ UNCHANGED << pos, rejected >>
    BY <1>1, <1>4
  <2>2. PICK t : t = proc[y].todo
    OBVIOUS
  <2>3. Pending(t)
    BY <1>1, <1>4, <2>1, <2>2 DEF ExitsInv
  <2>4. Pending(t)'
    BY <1>1, <2>1, <2>3, PendingSame
  <2> QED BY <2>1, <2>2, <2>4, PendingNext
<1>5. ExitsInv'
  BY <1>3, <1>4 DEF ExitsInv
<1> QED BY <1>2, <1>5

\* A process takes its next fill, and what is booked is named.
LEMMA NamesTaken ==
  ASSUME TypeOK, NamesInv, NEW x \in Procs, NEW t, t = proc[x].todo, NEW f, NEW r, Took(x, t, f, r),
         UNCHANGED scenario, ToSet(fills') \subseteq ToSet(fills) \cup {f}
  PROVE  NamesInv'
<1>1. /\ Takes(x, t, f, r) /\ proc'[x].todo = r /\ \A y \in Procs \ {x} : proc'[y] = proc[y]
  BY DEF Took
<1>2. /\ 1 \in DOMAIN t /\ f = t[1]
      /\ \A i \in DOMAIN r : i + 1 \in DOMAIN t /\ r[i] = t[i + 1]
  BY <1>1, TakesParts
<1>3. \A i \in DOMAIN t : Named(t[i])
  BY DEF NamesInv
<1>4. Named(f) /\ \A i \in DOMAIN r : Named(r[i])
  BY <1>2, <1>3
<1>5. \A y \in Procs : \A i \in DOMAIN proc'[y].todo : Named(proc'[y].todo[i])
  BY <1>1, <1>4 DEF NamesInv
<1>6. \A g \in ToSet(fills') : Engine(g) => Named(g)
  BY <1>4 DEF NamesInv
<1> QED BY <1>5, <1>6, NamedSame DEF NamesInv

\* The steps that take the next fill of a process.
LEMMA TakeKeeps ==
  ASSUME TypeOK, TypeOK', LimitsInv, NamesInv, ExitsInv, NEW x \in Procs,
         \/ BookDuplicate(x) \/ SkipBuy(x) \/ SkipSell(x) \/ BookBuy(x) \/ BookSell(x)
  PROVE  NamesInv' /\ ExitsInv'
<1>1. PICK t, f, r : t = proc[x].todo /\ f = Next1(x) /\ r = Tail(t)
  OBVIOUS
<1>2. UNCHANGED << scenario, overlapped >> /\ Ready(x) /\ proc' = Done1(x)
  BY DEF BookDuplicate, SkipBuy, SkipSell, BookBuy, BookSell, New
<1>3. Took(x, t, f, r)
  BY <1>1, <1>2, Taking
<1>4. proc[x].pc = "booking" /\ \A y \in Procs \ {x} : proc'[y] = proc[y]
  BY <1>3 DEF Took
<1>5. ToSet(fills') \subseteq ToSet(fills) \cup {f}
  <2>1. CASE fills' = fills
    BY <2>1
  <2>2. CASE BookBuy(x) \/ BookSell(x)
    <3>1. Booked(f)
      BY <1>1, <2>2, BooksBooked
    <3> QED BY <3>1, AppendSet DEF Booked
  <2> QED BY <2>1, <2>2 DEF BookDuplicate, SkipBuy, SkipSell, books
<1>6. NamesInv'
  BY <1>1, <1>2, <1>3, <1>5, NamesTaken
<1>7. ASSUME ~ overlapped PROVE SoldInv' /\ Pending(proc[x].todo)'
  <2>1. SoldInv /\ Pending(proc[x].todo)
    BY <1>4, <1>7 DEF ExitsInv
  <2>2. CASE BookDuplicate(x) \/ SkipBuy(x) \/ SkipSell(x)
    <3>1. Pending(proc[x].todo)'
      BY <2>1, <2>2, DropPending
    <3>2. fills' = fills /\ pos' = pos
      BY <2>2 DEF BookDuplicate, SkipBuy, SkipSell, books
    <3>3. Shrinks
      <4>1. \A b \in Buckets : pos[b] \in Nat
        BY DEF TypeOK
      <4> QED BY <3>2, <4>1 DEF Shrinks
    <3>4. SoldInv'
      BY <2>1, <3>3, SoldShrinks
    <3> QED BY <3>1, <3>4
  <2>3. CASE BookBuy(x)
    BY <2>1, <2>3, BuyPending
  <2>4. CASE BookSell(x)
    BY <2>1, <2>4, SellPending
  <2> QED BY <2>2, <2>3, <2>4
<1>8. ASSUME ~ overlapped, NEW y \in Procs, proc'[y].pc = "booking" PROVE y = x
  BY <1>4, <1>8 DEF LimitsInv
<1>9. ExitsInv'
  BY <1>2, <1>7, <1>8 DEF ExitsInv
<1> QED BY <1>6, <1>9

\* Planning.
LEMMA PlanKeeps ==
  ASSUME TypeOK, TypeOK', NamesInv, ExitsInv, NEW x \in Procs, PlanBundles(x)
  PROVE  NamesInv' /\ ExitsInv'
<1>1. /\ \A y \in Procs \ {x} : proc'[y] = proc[y]
      /\ proc'[x].pc = "booking" => overlapped' = (overlapped \/ Booking)
      /\ proc'[x].pc # "booking" => overlapped' = overlapped
  BY PlanStep
<1>2. UNCHANGED << scenario, pos, fills, rejected >>
  BY DEF PlanBundles, books
<1>3. Shrinks
  <2>1. \A b \in Buckets : pos[b] \in Nat
    BY DEF TypeOK
  <2> QED BY <1>2, <2>1 DEF Shrinks
<1>4. CASE proc'[x].pc = "booking"
  <2>1. Pending(proc[x].todo)' /\ \A i \in DOMAIN proc'[x].todo : Named(proc'[x].todo[i])
    BY <1>4, PlanPending
  <2>2. \A y \in Procs : \A i \in DOMAIN proc'[y].todo : Named(proc'[y].todo[i])
    BY <1>1, <2>1 DEF NamesInv
  <2>3. \A g \in ToSet(fills) : Engine(g) => Named(g)
    BY DEF NamesInv
  <2>4. NamesInv'
    BY <1>2, <2>2, <2>3, NamedSame DEF NamesInv
  <2>5. ASSUME ~ overlapped' PROVE SoldInv' /\ \A y \in Procs : proc'[y].pc = "booking" => y = x
    <3>1. ~ overlapped /\ \A y \in Procs : proc[y].pc # "booking"
      BY <1>1, <1>4, <2>5 DEF Booking
    <3>2. SoldInv'
      BY <1>3, <3>1, SoldShrinks DEF ExitsInv
    <3> QED BY <1>1, <3>1, <3>2
  <2>6. ExitsInv'
    BY <2>1, <2>5 DEF ExitsInv
  <2> QED BY <2>4, <2>6
<1>5. CASE proc'[x].pc # "booking"
  <2>1. proc' = [ proc EXCEPT ![x] = idle ]
    <3>1. \/ proc' = [ proc EXCEPT ![x] = idle ]
          \/ \E o : proc' = [ proc EXCEPT ![x].pc = "booking", ![x].todo = Executed(o) ]
      BY DEF PlanBundles
    <3>2. ASSUME NEW o, proc' = [ proc EXCEPT ![x].pc = "booking", ![x].todo = Executed(o) ]
          PROVE  FALSE
      BY <1>5, <3>2 DEF TypeOK, Executors
    <3> QED BY <3>1, <3>2
  <2>2. proc'[x].todo = << >>
    BY <2>1 DEF TypeOK, idle
  <2>3. Rests
    BY <1>1, <1>2, <1>3, <1>5, <2>2 DEF Rests
  <2> QED BY <2>3, RestKeeps
<1> QED BY <1>4, <1>5

\* A fill of the operator.
LEMMA RecordKeeps ==
  ASSUME TypeOK, TypeOK', NamesInv, ExitsInv, NEW m \in ManualFills, RecordFill(m)
  PROVE  NamesInv' /\ ExitsInv'
<1>1. PICK f : /\ Booked(f) /\ ~ Engine(f)
  <2>1. PICK f : Records(f)
    BY RecordingStep
  <2>2. fills' = Append(fills, f)
    <3>1. fills' = Append(fills, [ key |-> << "manual", used.commands >>, strategy |-> m.strategy,
                              symbol |-> m.symbol, side |-> m.side, qty |-> m.qty,
                              price |-> m.price ])
      BY DEF RecordFill
    <3>2. PICK g : /\ fills' = Append(fills, g)
                   /\ g = [ key |-> << "manual", used.commands >>, strategy |-> m.strategy,
                            symbol |-> m.symbol, side |-> m.side, qty |-> m.qty,
                            price |-> m.price ]
      BY <3>1
    <3>3. fills'[Len(fills')] = g /\ fills'[Len(fills')] = f
      <4>1. fills \in Seq(AllFills) /\ Len(fills) \in Nat
        BY FillsAre, LenProperties
      <4> QED BY <2>1, <3>2, <4>1 DEF Records, Adds
    <3> QED BY <3>2, <3>3
  <2>3. f \in AllFills /\ ~ Engine(f)
    BY <2>1, EngineIs DEF Records
  <2> QED BY <2>1, <2>2, <2>3 DEF Booked, Records
<1>2. /\ UNCHANGED << scenario, proc >> /\ overlapped' = (overlapped \/ Booking)
  BY DEF RecordFill, Command
<1>3. f \in AllFills /\ ToSet(fills') = ToSet(fills) \cup {f}
  BY <1>1, AppendSet DEF Booked
<1>4. NamesInv'
  <2>1. \A g \in ToSet(fills') : Engine(g) => Named(g)
    BY <1>1, <1>3 DEF NamesInv
  <2>2. \A y \in Procs : \A i \in DOMAIN proc'[y].todo : Named(proc'[y].todo[i])
    BY <1>2 DEF NamesInv
  <2> QED BY <1>2, <2>1, <2>2, NamedSame DEF NamesInv
<1>5. ASSUME ~ overlapped' PROVE SoldInv' /\ \A y \in Procs : proc'[y].pc # "booking"
  <2>1. ~ overlapped /\ \A y \in Procs : proc[y].pc # "booking"
    BY <1>2, <1>5 DEF Booking
  <2>2. f.side = "BUY" => Settled(Of(f))'
    BY <1>1, <1>3 DEF Settled, OperatorBought
  <2>3. SoldInv'
    BY <1>1, <2>1, <2>2, SoldBooked DEF ExitsInv
  <2> QED BY <1>2, <2>1, <2>3
<1>6. ExitsInv'
  BY <1>5 DEF ExitsInv
<1> QED BY <1>4, <1>6

-----------------------------------------------------------------------------
(* All steps, and the properties. *)

\* The invariant with what the exits need.
Closes == Inv /\ NamesInv /\ ExitsInv

\* Initially nothing is booked or to be booked.
LEMMA ClosesInit == Init => Closes
<1> SUFFICES ASSUME Init PROVE Closes
  OBVIOUS
<1>1. ToSet(fills) = {}
  BY DEF Init, ToSet
<1>2. \A y \in Procs : proc[y].pc # "booking" /\ DOMAIN proc[y].todo = {}
  BY DEF Init, idle
<1>3. NamesInv /\ ExitsInv
  BY <1>1, <1>2 DEF NamesInv, ExitsInv, SoldInv
<1> QED BY <1>3, InitInv DEF Closes

\* Every step keeps it.
LEMMA ClosesStep == Closes /\ [Next]_vars => Closes'
<1> SUFFICES ASSUME Closes, [Next]_vars PROVE NamesInv' /\ ExitsInv'
  BY InvStep DEF Closes
<1>1. TypeOK /\ TypeOK' /\ LimitsInv /\ NamesInv /\ ExitsInv
  BY TypeStep DEF Closes, Inv
<1>2. \A b \in Buckets : pos[b] \in Nat
  BY <1>1 DEF TypeOK
<1>3. proc \in [Procs -> Executors]
  BY <1>1 DEF TypeOK
<1>4. ASSUME UNCHANGED << scenario, pos, fills, rejected >>, overlapped => overlapped',
             \/ proc' = proc
             \/ \E x \in Procs : Start(x) \/ proc' = [ proc EXCEPT ![x] = idle ]
      PROVE  NamesInv' /\ ExitsInv'
  <2>1. Shrinks
    BY <1>2, <1>4 DEF Shrinks
  <2>2. \A y \in Procs :
          /\ proc'[y].todo \in {proc[y].todo, << >>}
          /\ proc'[y].pc = "booking" => proc[y].pc = "booking" /\ proc'[y].todo = proc[y].todo
    <3>1. CASE proc' = proc
      BY <3>1
    <3>2. ASSUME NEW x \in Procs, proc' = [ proc EXCEPT ![x] = idle ]
          PROVE  \A y \in Procs : proc'[y] = proc[y] \/ proc'[y] = idle
      BY <1>3, <3>2
    <3>3. ASSUME NEW x \in Procs, Start(x)
          PROVE  \A y \in Procs :
                   \/ proc'[y] = proc[y]
                   \/ proc'[y].pc = "loaded" /\ proc'[y].todo = proc[y].todo
      BY <1>3, <3>3 DEF Start, Executors
    <3> QED BY <1>4, <3>1, <3>2, <3>3 DEF idle
  <2>3. Rests
    BY <1>4, <2>1, <2>2 DEF Rests
  <2> QED BY <1>1, <2>3, RestKeeps
<1>5. ASSUME Command, UNCHANGED << scenario, fills, proc >>, \A b \in Buckets : pos'[b] <= pos[b]
      PROVE  NamesInv' /\ ExitsInv'
  <2>1. Shrinks
    BY <1>5 DEF Shrinks
  <2>2. overlapped' = (overlapped \/ Booking)
    BY <1>5 DEF Command
  <2>3. Rests
    BY <1>5, <2>1, <2>2 DEF Rests, Booking
  <2> QED BY <1>1, <2>3, RestKeeps
<1>6. CASE UNCHANGED vars
  BY <1>4, <1>6 DEF vars, books
<1>7. ASSUME NEW x \in Procs, Start(x) \/ FailSell(x) \/ Finish(x) \/ Crash(x)
      PROVE  NamesInv' /\ ExitsInv'
  <2>1. UNCHANGED << scenario, pos, fills, rejected, overlapped >>
    BY <1>7 DEF Start, FailSell, Finish, Crash, books
  <2>2. Start(x) \/ proc' = [ proc EXCEPT ![x] = idle ]
    BY <1>7 DEF FailSell, Finish, Crash
  <2> QED BY <1>4, <2>1, <2>2
<1>8. ASSUME NEW x \in Procs, PlanBundles(x) PROVE NamesInv' /\ ExitsInv'
  BY <1>1, <1>8, PlanKeeps
<1>9. ASSUME NEW x \in Procs,
             \/ BookDuplicate(x) \/ SkipBuy(x) \/ SkipSell(x) \/ BookBuy(x) \/ BookSell(x)
      PROVE  NamesInv' /\ ExitsInv'
  BY <1>1, <1>9, TakeKeeps
<1>10. ASSUME Command, UNCHANGED << scenario, books, proc >> PROVE NamesInv' /\ ExitsInv'
  BY <1>2, <1>5, <1>10 DEF books
<1>11. ASSUME NEW sig \in Signals, RejectSignal(sig) \/ UnRejectSignal(sig)
       PROVE  NamesInv' /\ ExitsInv'
  BY <1>10, <1>11 DEF RejectSignal, UnRejectSignal
<1>12. ASSUME NEW s \in Strategies, ChangeApproval(s) PROVE NamesInv' /\ ExitsInv'
  BY <1>10, <1>12 DEF ChangeApproval
<1>13. ASSUME NEW b \in Buckets, SetLongTerm(b) PROVE NamesInv' /\ ExitsInv'
  <2>1. Command /\ UNCHANGED << scenario, fills, proc >> /\ pos' = [ pos EXCEPT ![b] = 0 ]
    BY <1>13 DEF SetLongTerm
  <2>2. \A c \in Buckets : pos'[c] <= pos[c]
    BY <1>1, <1>2, <2>1 DEF TypeOK
  <2> QED BY <1>5, <2>1, <2>2
<1>14. ASSUME NEW m \in ManualFills, RecordFill(m) PROVE NamesInv' /\ ExitsInv'
  BY <1>1, <1>14, RecordKeeps
<1>15. CASE BarArrives
  BY <1>4, <1>15 DEF BarArrives, books
<1> QED BY <1>6, <1>7, <1>8, <1>9, <1>11, <1>12, <1>13, <1>14, <1>15 DEF Next, Work, Operator

\* Every reachable state has the invariant the two theorems follow from.
LEMMA ClosesAlways == Spec => []Closes
BY ClosesInit, ClosesStep, PTL DEF Spec

\* When run-daily marks the stage, every exit that could trade has sold what its
\* bucket held in the morning, over every crash, rerun and command.
THEOREM ExitsDone == Spec => ExitsDoneAtCompletion
<1> DEFINE Done == run' = "COMPLETED" /\ run # "COMPLETED" /\ ~ overlapped
                     => \A sig \in ToSet(scenario.sells) :
                          sig.id \notin rejected /\ Tradable(sig.symbol)
                            /\ ~ OperatorBought(Bucket(sig))
                          => pos[Bucket(sig)] <= BoughtToday(Bucket(sig))
<1>1. Closes /\ [Next]_vars => [Done]_vars
  <2> SUFFICES ASSUME Closes, [Next]_vars, run' = "COMPLETED", run # "COMPLETED", ~ overlapped,
                      NEW sig \in ToSet(scenario.sells), sig.id \notin rejected,
                      Tradable(sig.symbol), ~ OperatorBought(Bucket(sig))
               PROVE  pos[Bucket(sig)] <= BoughtToday(Bucket(sig))
    OBVIOUS
  <2>1. TypeOK /\ ExitsInv
    BY DEF Closes, Inv
  <2>2. Finish("daily")
    <3>1. \E x \in Procs : Finish(x)
      BY DEF vars, Next, Work, Operator, Start, PlanBundles, BookDuplicate, BookBuy, SkipBuy,
             BookSell, SkipSell, FailSell, Crash, RejectSignal, UnRejectSignal,
             ChangeApproval, SetLongTerm, RecordFill, BarArrives
    <3> QED BY <3>1 DEF Finish, Procs
  <2>3. PICK b, t : b = Bucket(sig) /\ t = proc["daily"].todo
    OBVIOUS
  <2>4. t = << >> /\ Pending(t)
    BY <2>1, <2>2, <2>3 DEF ExitsInv, Finish, Procs
  <2>5. Leaving(t, b)
    BY <2>3, <2>4 DEF Pending, Unrejected
  <2>6. b \in Buckets /\ BoughtToday(b) \in Nat
    BY <2>1, <2>3, SellBuckets, BoughtType
  <2>7. PICK n : n = pos[b]
    OBVIOUS
  <2>8. n \in Nat
    BY <2>1, <2>6, <2>7 DEF TypeOK
  <2>9. n <= BoughtToday(b)
    <3>1. CASE Legs(t, OddFills, b, n)
      <4>1. \A i \in DOMAIN t : ~ Sells(t[i], b)
        BY <2>4
      <4>2. n = 0
        BY <2>8, <3>1, <4>1, SomeLegs
      <4> QED BY <2>6, <4>2
    <3>2. CASE Settled(b)
      BY <2>3, <2>7, <3>2 DEF Settled
    <3> QED BY <2>5, <2>7, <3>1, <3>2 DEF Leaving
  <2> QED BY <2>3, <2>7, <2>9
<1>2. Spec => [][Next]_vars
  BY DEF Spec
<1> QED BY <1>1, <1>2, ClosesAlways, PTL DEF ExitsDoneAtCompletion, Done

\* The open symbols of the engine, seen from the buckets.
LEMMA OpenIs ==
  ASSUME TypeOK
  PROVE  /\ DOMAIN Ordinary = Strategies \X Symbols
         /\ OpenSymbols(Ordinary) = { b[2] : b \in { c \in Strategies \X Symbols : pos[c] > 0 } }
<1>1. DOMAIN Ordinary = Strategies \X Symbols /\ \A c \in Strategies \X Symbols : Ordinary[c] = pos[c]
  BY DEF Ordinary
<1> QED BY <1>1 DEF OpenSymbols

\* An entry is of one of the buckets that are held and not left, or to be entered.
LEMMA EntersWithin ==
  ASSUME TypeOK, TypeOK', NEW x \in Procs, BookBuy(x),
         NEW t, t = proc[x].todo, Pending(t)
  PROVE  /\ { b[2] : b \in { c \in Strategies \X Symbols : pos'[c] > 0 } } \subseteq KeptOpen(pos, t)
         /\ \E i \in DOMAIN t : t[i].side = "BUY"
<1>1. PICK f, r : f = Next1(x) /\ r = Tail(t)
  OBVIOUS
<1>2. PICK d : d = Of(f)
  OBVIOUS
<1>3. Took(x, t, f, r) /\ \A b \in Buckets : b # d => pos'[b] = pos[b]
  BY <1>1, <1>2, BooksBooked
<1>4. Takes(x, t, f, r) /\ f.side = "BUY"
  BY <1>1, <1>3 DEF Took, BookBuy
<1>5. 1 \in DOMAIN t /\ f = t[1] /\ DOMAIN t \subseteq Nat \ {0}
  BY <1>4, TakesParts
<1>6. ASSUME NEW i \in DOMAIN t PROVE t[i].side # "SELL"
  <2>1. CASE i = 1
    BY <1>4, <1>5, <2>1
  <2>2. CASE i # 1
    <3>1. 1 < i
      BY <1>5, <2>2
    <3> QED BY <1>4, <1>5, <3>1 DEF Pending, SellsFirst
  <2> QED BY <2>1, <2>2
<1>7. ASSUME NEW c \in Strategies \X Symbols, pos'[c] > 0
      PROVE  \/ pos[c] > 0 /\ \A i \in DOMAIN t : ~ Sells(t[i], c)
             \/ \E i \in DOMAIN t : t[i].side = "BUY" /\ Of(t[i]) = c
  <2>1. CASE c = d
    BY <1>2, <1>4, <1>5, <2>1
  <2>2. CASE c # d
    <3>1. c \in Buckets
      BY DEF Buckets
    <3> QED BY <1>3, <1>6, <1>7, <2>2, <3>1 DEF Sells
  <2> QED BY <2>1, <2>2
<1> QED BY <1>4, <1>5, <1>7 DEF KeptOpen

\* No BUY takes the account beyond its limit of open symbols, wherever a crash cut
\* a batch, until a bucket is traded both ways.
THEOREM OpenLimitKept == Spec => OpenLimitHolds
<1> DEFINE Kept == /\ ~ overlapped /\ \A s \in Symbols : Tradable(s)
                   /\ Cardinality(OpenSymbols(Ordinary')) > Cardinality(OpenSymbols(Ordinary))
                   /\ used' = used /\ ~ BothWays(fills')
                   => Cardinality(OpenSymbols(Ordinary')) <= scenario.lim.globalOpen
<1>1. Closes /\ [Next]_vars => [Kept]_vars
  <2> SUFFICES ASSUME Closes, [Next]_vars, ~ overlapped, \A s \in Symbols : Tradable(s),
                      Cardinality(OpenSymbols(Ordinary')) > Cardinality(OpenSymbols(Ordinary)),
                      used' = used, ~ BothWays(fills')
               PROVE  Cardinality(OpenSymbols(Ordinary')) <= scenario.lim.globalOpen
    OBVIOUS
  <2>1. TypeOK /\ TypeOK' /\ ExitsInv
    BY TypeStep DEF Closes, Inv
  <2>2. PICK N, M : N = OpenSymbols(Ordinary) /\ M = OpenSymbols(Ordinary')
    OBVIOUS
  <2>3. N = { b[2] : b \in { c \in Strategies \X Symbols : pos[c] > 0 } }
    BY <2>1, <2>2, OpenIs
  <2>4. M = { b[2] : b \in { c \in Strategies \X Symbols : pos'[c] > 0 } }
    <3>1. PICK a : a = Ordinary'
      OBVIOUS
    <3>2. DOMAIN a = Strategies \X Symbols /\ \A c \in Strategies \X Symbols : a[c] = pos'[c]
      BY <3>1 DEF Ordinary
    <3>3. M = OpenSymbols(a)
      BY <2>2, <3>1
    <3> QED BY <3>2, <3>3 DEF OpenSymbols
  <2>5. IsFiniteSet(N) /\ Cardinality(N) \in Nat
    <3>1. N \subseteq Symbols
      BY <2>3
    <3> QED BY <3>1, SymbolsAssumption, FS_Subset, FS_CardinalityType
  <2>6. ~ (M \subseteq N)
    <3>1. SUFFICES ASSUME M \subseteq N PROVE FALSE
      OBVIOUS
    <3>2. Cardinality(M) <= Cardinality(N) /\ Cardinality(M) \in Nat
      BY <2>5, <3>1, FS_Subset, FS_CardinalityType
    <3> QED BY <2>2, <2>5, <3>2
  <2>7. PICK c \in Strategies \X Symbols : pos'[c] > 0 /\ ~ (pos[c] > 0)
    BY <2>3, <2>4, <2>6
  <2>8. pos'[c] # pos[c] /\ c \in Buckets
    BY <2>7 DEF Buckets
  <2>9. ~ Command
    <3>1. used.commands \in Nat
      BY <2>1, BoundsAssumption DEF TypeOK
    <3>2. ASSUME Command PROVE used'.commands = used.commands + 1
      BY <2>1, <3>2 DEF Command, TypeOK
    <3> QED BY <2>1, <3>1, <3>2
  <2>10. \E x \in Procs : BookBuy(x) \/ BookSell(x)
    BY <2>8, <2>9 DEF vars, books, Next, Work, Operator, Start, PlanBundles, BookDuplicate,
         SkipBuy, SkipSell, FailSell, Finish, Crash, RejectSignal, UnRejectSignal,
         ChangeApproval, SetLongTerm, RecordFill, BarArrives
  <2>11. PICK x \in Procs : BookBuy(x) \/ BookSell(x)
    BY <2>10
  <2>12. PICK t, f, r : t = proc[x].todo /\ f = Next1(x) /\ r = Tail(t)
    OBVIOUS
  <2>13. Took(x, t, f, r) /\ Booked(f)
    BY <2>1, <2>11, <2>12, BooksBooked
  <2>14. BookBuy(x)
    <3>1. SUFFICES ASSUME BookSell(x) PROVE FALSE
      BY <2>11
    <3>2. f.side = "SELL" /\ f.qty \in Nat \ {0}
      BY <2>12, <2>13, <3>1 DEF BookSell, Took
    <3>3. pos'[c] = pos[c] + Taken(f, c) /\ pos[c] \in Nat
      BY <2>1, <2>8, <2>13 DEF Booked, TypeOK
    <3>4. Taken(f, c) \in Int /\ Taken(f, c) <= 0
      BY <3>2 DEF Taken
    <3> QED BY <2>7, <3>3, <3>4
  <2>15. Pending(t)
    BY <2>1, <2>12, <2>13 DEF ExitsInv, Took
  <2>16. M \subseteq KeptOpen(pos, t) /\ \E i \in DOMAIN t : t[i].side = "BUY"
    BY <2>1, <2>4, <2>12, <2>14, <2>15, EntersWithin
  <2>17. ~ BothWays(fills)
    BY <2>1, <2>13, AppendSet DEF Booked
  <2>18. Cardinality(KeptOpen(pos, t)) <= scenario.lim.globalOpen
    BY <2>15, <2>16, <2>17 DEF Pending
  <2>19. IsFiniteSet(KeptOpen(pos, t))
    <3>1. KeptOpen(pos, t) \subseteq Symbols
      BY DEF KeptOpen
    <3> QED BY <3>1, SymbolsAssumption, FS_Subset
  <2>20. /\ Cardinality(M) <= Cardinality(KeptOpen(pos, t))
         /\ Cardinality(M) \in Nat /\ Cardinality(KeptOpen(pos, t)) \in Nat
    BY <2>16, <2>19, FS_Subset, FS_CardinalityType
  <2>21. scenario.lim.globalOpen \in Nat
    BY <2>1, OpenLimit
  <2> QED BY <2>2, <2>18, <2>20, <2>21
<1>2. Spec => [][Next]_vars
  BY DEF Spec
<1> QED BY <1>1, <1>2, ClosesAlways, PTL DEF OpenLimitHolds, Kept
=============================================================================
