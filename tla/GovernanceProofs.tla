-------------------------- MODULE GovernanceProofs --------------------------
(***************************************************************************)
(* What the governance of research and of approvals guarantees: formal     *)
(* research for any number of researchers, runs, configurations, policies  *)
(* and days, wherever runs die and in whatever order their commits and     *)
(* those of builds, seeds and gates interleave; the approvals directory    *)
(* for any number of terminals, strategies and approvals, wherever         *)
(* commands overlap or die.  The two share no state.                       *)
(***************************************************************************)
EXTENDS Research, Approvals, FiniteSetTheorems, TLAPS

-----------------------------------------------------------------------------
(* Formal research: the inductive invariant.                                *)

Stages == { "computed", "recorded", "counted", "persisted" }

RunsOf ==
  [ pc : Stages, config : Configs, version : Versions \cup {None}, trials : Nat ]

\* The tables have their types; the day is one of the calendar.
TypeInv ==
  /\ today \in Days
  /\ policy = [ v \in Versions |-> policy[v] ]
  /\ gates \in [ GateKeys -> Qualities \cup {None} ]
  /\ runs \in [ Researchers -> {NoRun} \cup RunsOf ]
  /\ IsFiniteSet(ledger)

\* Rows that were not ranked are in versions named diagnostic only.
PolicyInv ==
  \A v \in Versions \ DiagnosticNames : \A r \in policy[v] : r.reason = "LIQUIDITY"

\* A configuration is in the ledger before its trials are counted, and stays.
LedgerInv ==
  /\ \A p \in Researchers : runs[p].pc \in Stages \ {"computed"} => runs[p].config \in ledger
  /\ Seen \subseteq ledger

\* A verdict other than INVALID was judged by the thresholds that are registered
\* still, on a version that is not diagnostic.
VerdictInv ==
  \A u \in verdicts :
    /\ u.config \in Configs /\ u.version \in Versions \cup {None} /\ u.quality \in Qualities
    /\ u.verdict # "INVALID" =>
         /\ ~ IsDiagnostic(u.version)
         /\ u.gate = gates[GateKey(u.config)] /\ u.gate \in Qualities \ {None}
         /\ u.verdict = IF u.quality < u.gate THEN "REJECTED" ELSE "RESEARCH_PASS"

Inv == TypeInv /\ PolicyInv /\ LedgerInv /\ VerdictInv

-----------------------------------------------------------------------------
(* The calendar and the policies. *)

\* The days are 1 to the last one.
LEMMA DaysAreCounted == Days = 1 .. LastDay /\ 1 \in Days /\ LastDay \in Nat
<1>1. Days = 1 .. Len(MonthOf) /\ Len(MonthOf) \in Nat /\ Len(MonthOf) >= 1
  BY CalendarAssumption DEF Days
<1>2. \A y \in Days : Len(MonthOf) >= y
  BY <1>1
<1>3. LastDay \in Days /\ \A y \in Days : LastDay >= y
  BY <1>1, <1>2 DEF LastDay, Max
<1>4. LastDay = Len(MonthOf)
  <2>1. PICK n \in Nat : n = Len(MonthOf)
    BY <1>1
  <2>2. LastDay \in 1 .. n /\ n \in 1 .. n
    BY <1>1, <1>3, <2>1
  <2> QED BY <1>1, <1>3, <2>1, <2>2
<1> QED
  BY <1>1, <1>4

\* Whatever was synced, a build ranks from the data.
LEMMA BuiltIsRanked ==
  ASSUME NEW d \in Days, NEW w \in Windows, NEW r \in Built[d][w]
  PROVE  r.reason = "LIQUIDITY"
<1>1. r \in Rows(Upto(d), w)
  BY DEF Built
<1> QED
  BY <1>1 DEF Rows

\* Rows are added to one version and taken from none.
LEMMA InsertAdds ==
  ASSUME NEW v \in Versions, NEW rows, policy = [ u \in Versions |-> policy[u] ],
         policy' = Insert(v, rows)
  PROVE  /\ policy' = [ u \in Versions |-> policy'[u] ]
         /\ \A u \in Versions : policy'[u] \subseteq policy[u] \cup (IF u = v THEN rows ELSE {})
BY DEF Insert

\* Building, seeding and syncing keep the versions that are not diagnostic free
\* of fixed lists.
LEMMA UniverseStep ==
  ASSUME TypeInv, PolicyInv, UniverseNext
  PROVE  /\ today' \in Days /\ policy' = [ v \in Versions |-> policy'[v] ]
         /\ PolicyInv'
<1>1. ASSUME NEW v \in Versions, NEW w \in Windows, BuildUniverse(v, w)
      PROVE  today' \in Days /\ policy' = [ u \in Versions |-> policy'[u] ] /\ PolicyInv'
  <2>1. policy' = Insert(v, Built[today][w]) /\ today' = today
    BY <1>1 DEF BuildUniverse
  <2>2. /\ policy' = [ u \in Versions |-> policy'[u] ]
        /\ \A u \in Versions :
             policy'[u] \subseteq policy[u] \cup (IF u = v THEN Built[today][w] ELSE {})
    BY <2>1, InsertAdds DEF TypeInv
  <2>3. \A r \in Built[today][w] : r.reason = "LIQUIDITY"
    BY BuiltIsRanked DEF TypeInv
  <2> QED
    BY <2>1, <2>2, <2>3 DEF TypeInv, PolicyInv
<1>2. ASSUME NEW v \in Versions, SeedDiagnostic(v, today)
      PROVE  today' \in Days /\ policy' = [ u \in Versions |-> policy'[u] ] /\ PolicyInv'
  <2> DEFINE rows == { [ symbol |-> s, from |-> today, to |-> Open, known |-> today,
                         reason |-> "FIXED_LIST" ] : s \in Fixed }
  <2>1. policy' = Insert(v, rows) /\ today' = today /\ v \in DiagnosticNames
    BY <1>2 DEF SeedDiagnostic, MaySeed
  <2> HIDE DEF rows
  <2>2. /\ policy' = [ u \in Versions |-> policy'[u] ]
        /\ \A u \in Versions : policy'[u] \subseteq policy[u] \cup (IF u = v THEN rows ELSE {})
    BY <2>1, InsertAdds DEF TypeInv
  <2> QED
    BY <2>1, <2>2 DEF TypeInv, PolicyInv
<1>3. ASSUME SyncDay
      PROVE  today' \in Days /\ policy' = [ u \in Versions |-> policy'[u] ] /\ PolicyInv'
  <2>1. today' \in Days
    BY <1>3, DaysAreCounted DEF TypeInv, SyncDay
  <2> QED
    BY <1>3, <2>1 DEF TypeInv, PolicyInv, SyncDay
<1> QED
  BY <1>1, <1>2, <1>3 DEF UniverseNext

-----------------------------------------------------------------------------
(* The steps of a run. *)

\* What the rest of a step leaves alone.
LEMMA GateStep ==
  ASSUME Inv, NEW k \in GateKeys, NEW q \in Qualities, RegisterGate(k, q)
  PROVE  Inv'
<1>1. gates' \in [ GateKeys -> Qualities \cup {None} ]
  BY DEF Inv, TypeInv, RegisterGate, FirstWins
<1>2. \A j \in GateKeys : gates[j] # None => gates'[j] = gates[j]
  BY DEF Inv, TypeInv, RegisterGate, FirstWins
<1>3. VerdictInv'
  <2> SUFFICES ASSUME NEW u \in verdicts
               PROVE  /\ u.config \in Configs /\ u.version \in Versions \cup {None}
                      /\ u.quality \in Qualities
                      /\ u.verdict # "INVALID" =>
                           /\ ~ IsDiagnostic(u.version)
                           /\ u.gate = gates'[GateKey(u.config)] /\ u.gate \in Qualities \ {None}
                           /\ u.verdict = IF u.quality < u.gate THEN "REJECTED"
                                          ELSE "RESEARCH_PASS"
    BY DEF VerdictInv, RegisterGate
  <2>1. u.config \in Configs /\ GateKey(u.config) \in GateKeys
    BY DEF Inv, VerdictInv, GateKeys
  <2> QED
    BY <1>2, <2>1 DEF Inv, VerdictInv
<1> QED
  BY <1>1, <1>3 DEF Inv, TypeInv, PolicyInv, LedgerInv, Seen, RegisterGate, universe

LEMMA StartStep ==
  ASSUME Inv, NEW p \in Researchers, NEW c \in Configs, NEW v \in Versions \cup {None},
         StartRun(p, c, v)
  PROVE  Inv'
<1>1. [ pc |-> "computed", config |-> c, version |-> v, trials |-> 0 ] \in RunsOf
  BY DEF RunsOf, Stages
<1> QED
  BY <1>1 DEF Inv, TypeInv, PolicyInv, LedgerInv, VerdictInv, Seen, StartRun, Become, universe

\* A run that is at work has the type of one.
LEMMA RunType ==
  ASSUME TypeInv, NEW p \in Researchers, runs[p].pc \in Stages
  PROVE  runs[p] \in RunsOf
BY DEF TypeInv, NoRun, Stages

LEMMA RecordStep ==
  ASSUME Inv, NEW p \in Researchers, Record(p)
  PROVE  Inv'
<1>1. runs[p] \in RunsOf /\ runs[p].pc = "computed"
  BY RunType DEF Inv, Record, Stages
<1>2. /\ [ runs[p] EXCEPT !.pc = "recorded" ] \in RunsOf
      /\ [ runs[p] EXCEPT !.pc = "recorded" ].config = runs[p].config
  BY <1>1 DEF RunsOf, Stages
<1>3. IsFiniteSet(ledger') /\ ledger' = ledger \cup { runs[p].config }
  BY FS_AddElement DEF Inv, TypeInv, Record, Recorded
<1>4. TypeInv'
  BY <1>2, <1>3 DEF Inv, TypeInv, Record, Become, universe
<1>5. LedgerInv'
  BY <1>2, <1>3 DEF Inv, TypeInv, LedgerInv, Seen, Record, Become, universe
<1> QED
  BY <1>4, <1>5 DEF Inv, PolicyInv, VerdictInv, Record, universe

LEMMA CountStep ==
  ASSUME Inv, NEW p \in Researchers, CountTrials(p)
  PROVE  Inv'
<1> DEFINE n == Trials(ledger, runs[p].config)
<1>1. runs[p] \in RunsOf /\ runs[p].pc = "recorded"
  BY RunType DEF Inv, CountTrials, Stages
<1>2. n \in Nat
  BY FS_CardinalityType, FS_Intersection DEF Inv, TypeInv, Trials
<1> HIDE DEF n
<1>3. /\ [ runs[p] EXCEPT !.pc = "counted", !.trials = n ] \in RunsOf
      /\ [ runs[p] EXCEPT !.pc = "counted", !.trials = n ].config = runs[p].config
  BY <1>1, <1>2 DEF RunsOf, Stages
<1>4. /\ runs' = [ runs EXCEPT ![p] = [ runs[p] EXCEPT !.pc = "counted", !.trials = n ] ]
      /\ UNCHANGED << universe, gates, ledger, begun, verdicts >>
  BY DEF CountTrials, Become, n
<1>5. TypeInv'
  BY <1>3, <1>4 DEF Inv, TypeInv, universe
<1>6. LedgerInv'
  BY <1>1, <1>3, <1>4 DEF Inv, TypeInv, LedgerInv, Seen, Stages
<1> QED
  BY <1>4, <1>5, <1>6 DEF Inv, PolicyInv, VerdictInv, universe

LEMMA PersistStep ==
  ASSUME Inv, NEW p \in Researchers, PersistFingerprint(p)
  PROVE  Inv'
<1>1. runs[p] \in RunsOf /\ runs[p].pc = "counted"
  BY RunType DEF Inv, PersistFingerprint, Stages
<1>2. /\ [ runs[p] EXCEPT !.pc = "persisted", !.trials = 0 ] \in RunsOf
      /\ [ runs[p] EXCEPT !.pc = "persisted", !.trials = 0 ].config = runs[p].config
  BY <1>1 DEF RunsOf, Stages
<1>3. TypeInv'
  BY <1>2 DEF Inv, TypeInv, PersistFingerprint, Become, universe
<1>4. LedgerInv'
  BY <1>1, <1>2 DEF Inv, TypeInv, LedgerInv, Seen, Stages, PersistFingerprint, Become
<1> QED
  BY <1>3, <1>4 DEF Inv, PolicyInv, VerdictInv, PersistFingerprint, universe

LEMMA DieStep ==
  ASSUME Inv, NEW p \in Researchers, DieInRun(p)
  PROVE  Inv'
<1>1. NoRun.pc \notin Stages
  BY DEF NoRun, Stages
<1> QED
  BY <1>1 DEF Inv, TypeInv, PolicyInv, LedgerInv, VerdictInv, Seen, DieInRun, Become, universe

LEMMA VerdictStep ==
  ASSUME Inv, NEW p \in Researchers, GiveVerdict(p)
  PROVE  Inv'
<1> DEFINE run == runs[p]
           gate == gates[GateKey(run.config)]
<1>1. run \in RunsOf /\ run.pc = "persisted" /\ run.config \in ledger
  BY RunType DEF Inv, LedgerInv, GiveVerdict, Stages
<1>2. run.config \in Configs /\ run.version \in Versions \cup {None}
      /\ gate \in Qualities \cup {None}
  BY <1>1 DEF Inv, TypeInv, RunsOf, GateKeys
<1>3. PICK q \in Qualities, covers \in BOOLEAN :
        verdicts' = verdicts \cup
          { [ config |-> run.config, version |-> run.version, quality |-> q, gate |-> gate,
              verdict |-> Judge(run.version, q, covers, gate) ] }
  BY DEF GiveVerdict
<1> DEFINE u == [ config |-> run.config, version |-> run.version, quality |-> q, gate |-> gate,
                  verdict |-> Judge(run.version, q, covers, gate) ]
<1>4. Judge(run.version, q, covers, gate) # "INVALID" =>
        /\ ~ IsDiagnostic(run.version) /\ gate \in Qualities \ {None}
        /\ Judge(run.version, q, covers, gate)
             = IF q < gate THEN "REJECTED" ELSE "RESEARCH_PASS"
  BY <1>2 DEF Judge
<1>5. UNCHANGED << universe, gates, ledger, begun >> /\ runs' = [ runs EXCEPT ![p] = NoRun ]
  BY DEF GiveVerdict, Become
<1>6. VerdictInv'
  BY <1>2, <1>3, <1>4, <1>5 DEF Inv, VerdictInv
<1>7. LedgerInv'
  BY <1>1, <1>3, <1>5 DEF Inv, TypeInv, LedgerInv, Seen, NoRun, Stages
<1> QED
  BY <1>5, <1>6, <1>7 DEF Inv, TypeInv, PolicyInv, universe

-----------------------------------------------------------------------------
(* The theorems. *)

\* The inductive invariant of research: what ties ledger, gates and versions to
\* the results that were given.
THEOREM ResearchInv == Spec => []Inv
<1>1. Init => Inv
  <2> SUFFICES ASSUME Init PROVE Inv
    OBVIOUS
  <2>1. IsFiniteSet(ledger) /\ NoRun.pc \notin Stages
    BY FS_EmptySet DEF Init, NoRun, Stages
  <2> QED
    BY <2>1, DaysAreCounted DEF Init, UniverseInit, Inv, TypeInv, PolicyInv, LedgerInv,
      VerdictInv, Seen
<1>2. Inv /\ [Next]_vars => Inv'
  <2> SUFFICES ASSUME Inv, [Next]_vars PROVE Inv'
    OBVIOUS
  <2>1. CASE UniverseNext /\ UNCHANGED research
    <3>1. UNCHANGED << gates, ledger, runs, begun, verdicts >>
      BY <2>1 DEF research
    <3> QED
      BY <2>1, <3>1, UniverseStep DEF Inv, TypeInv, LedgerInv, VerdictInv, Seen
  <2>2. CASE \E k \in GateKeys, q \in Qualities : RegisterGate(k, q)
    BY <2>2, GateStep
  <2>3. CASE \E p \in Researchers, c \in Configs, v \in Versions \cup {None} : StartRun(p, c, v)
    BY <2>3, StartStep
  <2>4. CASE \E p \in Researchers : \/ Record(p) \/ CountTrials(p) \/ PersistFingerprint(p)
                                    \/ GiveVerdict(p) \/ DieInRun(p)
    BY <2>4, RecordStep, CountStep, PersistStep, VerdictStep, DieStep
  <2>5. CASE UNCHANGED vars
    BY <2>5 DEF vars, universe, research, Inv, TypeInv, PolicyInv, LedgerInv, VerdictInv, Seen
  <2> QED
    BY <2>1, <2>2, <2>3, <2>4, <2>5 DEF Next
<1> QED
  BY <1>1, <1>2, PTL DEF Spec

\* No threshold is moved under a result: whoever registers what and when, all
\* judgements of one version of a strategy used the same thresholds.
THEOREM VerdictsAlwaysStand == Spec => []VerdictsStand
<1>1. Inv => VerdictsStand
  <2> SUFFICES ASSUME Inv, NEW u \in verdicts, NEW w \in verdicts,
                      u.verdict # "INVALID", w.verdict # "INVALID",
                      GateKey(u.config) = GateKey(w.config)
               PROVE  /\ u.gate = w.gate
                      /\ u.verdict = "RESEARCH_PASS" /\ w.quality >= u.quality
                           => w.verdict = "RESEARCH_PASS"
    BY DEF VerdictsStand
  <2>1. u.gate = w.gate
    BY DEF Inv, VerdictInv
  <2>2. u.gate \in Int /\ u.quality \in Int /\ w.quality \in Int
    BY QualitiesAssumption DEF Inv, VerdictInv
  <2>3. /\ u.verdict = IF u.quality < u.gate THEN "REJECTED" ELSE "RESEARCH_PASS"
        /\ w.verdict = IF w.quality < w.gate THEN "REJECTED" ELSE "RESEARCH_PASS"
    BY DEF Inv, VerdictInv
  <2> QED
    BY <2>1, <2>2, <2>3
<1> QED
  BY <1>1, ResearchInv, PTL

\* No run passes on a list picked by hand, whatever is built and seeded while
\* it runs.
THEOREM PassesArePointInTime == Spec => []PassIsPointInTime
<1>1. Inv => PassIsPointInTime
  <2> SUFFICES ASSUME Inv, NEW u \in verdicts, u.verdict = "RESEARCH_PASS"
               PROVE  /\ u.version # None /\ u.gate # None
                      /\ \A r \in policy[u.version] : r.reason = "LIQUIDITY"
    BY DEF PassIsPointInTime
  <2>1. ~ IsDiagnostic(u.version) /\ u.version \in Versions \cup {None} /\ u.gate # None
    BY DEF Inv, VerdictInv
  <2>2. u.version \in Versions \ DiagnosticNames /\ u.version # None
    BY <2>1 DEF IsDiagnostic
  <2> QED
    BY <2>1, <2>2 DEF Inv, PolicyInv
<1> QED
  BY <1>1, ResearchInv, PTL

\* Every configuration somebody has a result of counts as a trial of the next
\* run of its family, whatever ran or died in between.
THEOREM TrialsAreCounted == Spec => TrialsNeverUnderstated
<1>1. Inv /\ [Next]_vars =>
        \A p \in Researchers :
          runs[p].pc = "recorded" /\ runs'[p].pc = "counted" =>
            runs'[p].trials >= Cardinality((Seen \cup {runs[p].config}) \cap Family(runs[p].config))
  <2> SUFFICES ASSUME Inv, [Next]_vars, NEW p \in Researchers,
                      runs[p].pc = "recorded", runs'[p].pc = "counted"
               PROVE  runs'[p].trials
                        >= Cardinality((Seen \cup {runs[p].config}) \cap Family(runs[p].config))
    OBVIOUS
  <2> DEFINE c == runs[p].config
  <2>1. CountTrials(p)
    <3>1. runs' # runs /\ runs[p] # runs'[p]
      OBVIOUS
    <3>2. ~ (UniverseNext /\ UNCHANGED research) /\ ~ UNCHANGED vars
      BY <3>1 DEF vars, research
    <3>3. \A k \in GateKeys, q \in Qualities : ~ RegisterGate(k, q)
      BY <3>1 DEF RegisterGate
    <3>4. PICK o \in Researchers :
            \/ \E d \in Configs, v \in Versions \cup {None} : StartRun(o, d, v)
            \/ Record(o) \/ CountTrials(o) \/ PersistFingerprint(o) \/ GiveVerdict(o)
            \/ DieInRun(o)
      BY <3>2, <3>3 DEF Next
    <3>5. PICK run : runs' = [ runs EXCEPT ![o] = run ]
      BY <3>4 DEF StartRun, Record, CountTrials, PersistFingerprint, GiveVerdict, DieInRun,
        Become
    <3>6. o = p
      BY <3>1, <3>5 DEF Inv, TypeInv
    <3>7. \A d \in Configs, v \in Versions \cup {None} : ~ StartRun(p, d, v)
      BY DEF StartRun
    <3>8. ~ Record(p) /\ ~ PersistFingerprint(p) /\ ~ GiveVerdict(p)
      BY DEF Record, PersistFingerprint, GiveVerdict
    <3>9. ~ DieInRun(p)
      BY DEF DieInRun, Become, NoRun, Inv, TypeInv
    <3> QED
      BY <3>4, <3>6, <3>7, <3>8, <3>9
  <2>2. runs'[p].trials = Cardinality(ledger \cap Family(c))
    BY <2>1, RunType DEF CountTrials, Become, Trials, Inv, TypeInv, RunsOf, Stages
  <2>3. Seen \cup {c} \subseteq ledger
    BY DEF Inv, LedgerInv, Stages
  <2>4. /\ IsFiniteSet(ledger \cap Family(c))
        /\ (Seen \cup {c}) \cap Family(c) \subseteq ledger \cap Family(c)
    BY <2>3, FS_Intersection DEF Inv, TypeInv
  <2>5. /\ Cardinality(ledger \cap Family(c)) \in Nat
        /\ Cardinality((Seen \cup {c}) \cap Family(c)) \in Nat
        /\ Cardinality((Seen \cup {c}) \cap Family(c)) <= Cardinality(ledger \cap Family(c))
    BY <2>4, FS_Subset, FS_CardinalityType
  <2> QED
    BY <2>2, <2>5
<1> QED
  BY <1>1, ResearchInv, PTL DEF Spec, TrialsNeverUnderstated
-----------------------------------------------------------------------------
(* Rankings are point-in-time. *)

\* Of two days on which a build may see the bars, d is the earlier.
LEMMA SameBars ==
  ASSUME NEW e \in Days, NEW d \in 1 .. e
  PROVE  /\ d \in Days
         /\ \A s \in Symbols, u \in Days : u <= d => Upto(e)[s][u] = Upto(d)[s][u]
         /\ \A s \in Symbols, u \in Days : u > d => Upto(d)[s][u] = 0
<1>1. Days \subseteq Int /\ d \in Days
  BY DaysAreCounted
<1> QED BY <1>1 DEF Upto

\* The sessions up to d are the same, and what sees nothing later knows no other.
LEMMA SameSessions ==
  ASSUME NEW e \in Days, NEW d \in 1 .. e, NEW u \in Days
  PROVE  /\ u <= d => (Session(Upto(e), u) <=> Session(Upto(d), u))
         /\ Session(Upto(d), u) => u <= d
<1>1. u \in Int /\ d \in Int
  BY DaysAreCounted
<1>2. CASE u <= d
  <2>1. \A s \in Symbols : Upto(e)[s][u] = Upto(d)[s][u]
    BY <1>2, SameBars
  <2> QED BY <2>1, <1>2 DEF Session
<1>3. CASE u > d
  <2>1. \A s \in Symbols : Upto(d)[s][u] = 0
    BY <1>3, SameBars
  <2> QED BY <2>1, <1>3, <1>1 DEF Session
<1> QED BY <1>1, <1>2, <1>3

\* The rankings of the earlier build are those of the later one up to its day.
LEMMA SameRebalances ==
  ASSUME NEW e \in Days, NEW d \in 1 .. e, NEW w \in Windows
  PROVE  /\ Rebalances(Upto(e), w) \subseteq Days
         /\ Rebalances(Upto(d), w) = { r \in Rebalances(Upto(e), w) : r <= d }
<1> DEFINE A == Upto(e)
           B == Upto(d)
<1>1. w[1] .. w[2] \subseteq Days /\ Days \subseteq Int
      /\ w[1] \in Int /\ w[2] \in Int /\ d \in Int
  BY WindowsAssumption, DaysAreCounted
<1>2. \A r \in w[1] .. w[2] : r <= d => (r \in Rebalances(A, w) <=> r \in Rebalances(B, w))
  <2> SUFFICES ASSUME NEW r \in w[1] .. w[2], r <= d
               PROVE  r \in Rebalances(A, w) <=> r \in Rebalances(B, w)
    OBVIOUS
  <2>1. \A t \in w[1] .. r - 1 : t \in w[1] .. w[2] /\ t <= d
    BY <1>1
  <2>2. \A t \in w[1] .. r - 1 : Session(A, t) <=> Session(B, t)
    BY <2>1, <1>1, SameSessions
  <2>3. Session(A, r) <=> Session(B, r)
    BY <1>1, SameSessions
  <2> HIDE DEF A, B
  <2> QED BY <2>2, <2>3 DEF Rebalances
<1>3. \A r \in Rebalances(B, w) : r <= d
  <2>1. \A r \in w[1] .. w[2] : Session(B, r) => r <= d
    BY <1>1, SameSessions
  <2> HIDE DEF A, B
  <2> QED BY <2>1 DEF Rebalances
<1>4. Rebalances(A, w) \subseteq w[1] .. w[2] /\ Rebalances(B, w) \subseteq w[1] .. w[2]
  BY DEF Rebalances
<1> HIDE DEF A, B
<1>5. Rebalances(A, w) \subseteq Days /\ Rebalances(B, w) = { r \in Rebalances(A, w) : r <= d }
  BY <1>1, <1>2, <1>3, <1>4
<1> QED BY <1>5 DEF A, B

\* A ranking looks at sessions up to its day, and these are the same.
LEMMA SameTrailing ==
  ASSUME NEW e \in Days, NEW d \in 1 .. e, NEW r \in Days, r <= d
  PROVE  /\ Trailing(Upto(e), r) = Trailing(Upto(d), r)
         /\ \A t \in Trailing(Upto(e), r) : t \in Days /\ t <= d
<1> DEFINE A == Upto(e)
           B == Upto(d)
<1>1. Days \subseteq Int /\ r \in Int /\ d \in Int
      /\ \A t \in 1 .. r : t \in Days /\ t <= d
  BY DaysAreCounted
<1>2. \A t \in 1 .. r : Session(A, t) <=> Session(B, t)
  BY <1>1, SameSessions
<1> HIDE DEF A, B
<1>3. \A t \in 1 .. r : { u \in t .. r : Session(A, u) } = { u \in t .. r : Session(B, u) }
  BY <1>2, <1>1
<1>4. Trailing(A, r) = Trailing(B, r) /\ Trailing(A, r) \subseteq 1 .. r
  BY <1>2, <1>3 DEF Trailing
<1> QED BY <1>4, <1>1 DEF A, B

\* A ranking on a day that both builds have seen.
LEMMA SameRanking ==
  ASSUME NEW e \in Days, NEW d \in 1 .. e, NEW r \in Days, r <= d
  PROVE  Ranked(Upto(e), r) = Ranked(Upto(d), r)
<1> DEFINE A == Upto(e)
           B == Upto(d)
           days == Trailing(A, r)
<1>1. Trailing(B, r) = days
  BY SameTrailing
<1>2. \A s \in Symbols, t \in days : A[s][t] = B[s][t]
  BY SameTrailing, SameBars
<1> HIDE DEF A, B, days
<1>3. \A s \in Symbols : TradedOn(A, s, days) = TradedOn(B, s, days)
  BY <1>2 DEF TradedOn
<1>4. \A s \in Symbols : [ t \in days |-> A[s][t] ] = [ t \in days |-> B[s][t] ]
  BY <1>2
<1>5. \A s \in Symbols : Amount(A, s, days) = Amount(B, s, days)
  BY <1>4 DEF Amount
<1>6. \A s, t \in Symbols : Ahead(A, days, t, s) <=> Ahead(B, days, t, s)
  BY <1>3, <1>5 DEF Ahead
<1> DEFINE C(bars) == { s \in Symbols : Cardinality(TradedOn(bars, s, days)) >= MinSessions }
           Better(bars, s) == { t \in C(bars) : Ahead(bars, days, t, s) }
<1>7. C(A) = C(B) /\ C(A) \subseteq Symbols
  BY <1>3
<1> HIDE DEF C
<1>8. \A s \in Symbols : Better(A, s) = Better(B, s)
  BY <1>6, <1>7
<1>9. /\ Ranked(A, r) = { s \in C(A) : Cardinality(Better(A, s)) < TopN }
      /\ Ranked(B, r) = { s \in C(B) : Cardinality(Better(B, s)) < TopN }
  BY <1>1 DEF Ranked, C, days
<1> HIDE DEF Better
<1>10. Ranked(A, r) = Ranked(B, r)
  BY <1>7, <1>8, <1>9
<1> QED BY <1>10 DEF A, B

\* A set of days that is not empty has a first.
LEMMA FirstDay == \A T \in SUBSET Days : T # {} => Min(T) \in T /\ \A t \in T : Min(T) <= t
<1> SUFFICES ASSUME NEW T \in SUBSET Days, T # {}
             PROVE  Min(T) \in T /\ \A t \in T : Min(T) <= t
  OBVIOUS
<1> DEFINE F == { 1 .. n : n \in T }
           R == StrictSubsetOrdering(Nat)
<1>1. T \subseteq Nat
  BY DaysAreCounted
<1>2. IsWellFoundedOn(R, FiniteSubsetsOf(Nat))
  BY FS_StrictSubsetOrderingWellFounded
<1>3. F \subseteq FiniteSubsetsOf(Nat) /\ F # {}
  <2>1. \A n \in T : 1 .. n \in FiniteSubsetsOf(Nat)
    BY <1>1, FS_Interval DEF FiniteSubsetsOf
  <2> QED BY <2>1
<1>4. \E x \in F : \A y \in F : ~ (<< y, x >> \in R)
  <2> HIDE DEF F, R
  <2> QED BY <1>2, <1>3, WFMin
<1>5. PICK n \in T : \A y \in F : ~ (<< y, 1 .. n >> \in R)
  BY <1>4
<1>6. ASSUME NEW m \in T, m < n PROVE FALSE
  <2>1. n \in 1 .. n /\ n \notin 1 .. m /\ 1 .. m \subseteq 1 .. n
    BY <1>6, <1>1
  <2>2. << 1 .. m, 1 .. n >> \in R
    BY <2>1, <1>1 DEF StrictSubsetOrdering
  <2> QED BY <2>2, <1>5
<1>7. \A m \in T : n <= m
  BY <1>6, <1>1
<1> QED BY <1>7 DEF Min

\* Up to d a ranking is in force that no later one up to d has replaced, however
\* many the build knows.
LEMMA SameForce ==
  ASSUME NEW T \in SUBSET Days, NEW d \in Days, NEW r \in T, r <= d
  PROVE  LET to == EffectiveTo(T, r)
         IN  (to = Open \/ to >= d) <=> \A t \in T : t > r => t > d
<1> DEFINE L == { t \in T : t > r }
<1>1. Days \subseteq Int /\ d \in Int /\ r \in Int /\ T \subseteq Int
  BY DaysAreCounted
<1>2. CASE L = {}
  <2>1. EffectiveTo(T, r) = Open
    BY <1>2 DEF EffectiveTo
  <2> QED BY <2>1, <1>2
<1>3. CASE L # {}
  <2>1. PICK next \in L : next = Min(L) /\ \A t \in L : next <= t
    BY <1>3, FirstDay
  <2>2. EffectiveTo(T, r) = next - 1
    BY <1>3, <2>1 DEF EffectiveTo
  <2>3. L \subseteq Int /\ next \in Int
    BY <1>1
  <2>4. next - 1 # Open
    BY <2>3, OpenAssumption
  <2> HIDE DEF L
  <2>5. next - 1 >= d <=> \A t \in L : t > d
    BY <2>1, <2>3, <1>1
  <2>6. (EffectiveTo(T, r) = Open \/ EffectiveTo(T, r) >= d) <=> \A t \in L : t > d
    BY <2>2, <2>4, <2>5
  <2> QED BY <2>6 DEF L
<1> QED BY <1>2, <1>3

\* Who is in a policy on day d was ranked on a day of its own no later than d and
\* is not replaced by then.
LEMMA InForceIs ==
  ASSUME NEW e \in Days, NEW d \in 1 .. e, NEW w \in Windows, NEW s
  PROVE  s \in InForce(Rows(Upto(e), w), d) <=>
           \E r \in Rebalances(Upto(e), w) :
             /\ r <= d /\ s \in Ranked(Upto(e), r)
             /\ \A t \in Rebalances(Upto(e), w) : t > r => t > d
<1> DEFINE T == Rebalances(Upto(e), w)
           Row(x, r) == [ symbol |-> x, from |-> r, to |-> EffectiveTo(T, r), known |-> r,
                          reason |-> "LIQUIDITY" ]
<1>1. T \subseteq Days /\ d \in Days
  BY SameRebalances, SameBars
<1>2. \A q : q \in Rows(Upto(e), w) <=> \E r \in T : \E x \in Ranked(Upto(e), r) : q = Row(x, r)
  BY DEF Rows
<1>3. \A r \in T : r <= d =>
        (EffectiveTo(T, r) = Open \/ EffectiveTo(T, r) >= d <=> \A t \in T : t > r => t > d)
  BY <1>1, SameForce
<1>4. \A x, r : /\ Row(x, r).symbol = x /\ Row(x, r).from = r /\ Row(x, r).known = r
                /\ Row(x, r).to = EffectiveTo(T, r)
  OBVIOUS
<1>5. s \in InForce(Rows(Upto(e), w), d) <=>
        \E q \in Rows(Upto(e), w) : /\ s = q.symbol /\ q.known <= d /\ q.from <= d
                                    /\ (q.to = Open \/ q.to >= d)
  BY DEF InForce
<1> HIDE DEF T, Row
<1>6. s \in InForce(Rows(Upto(e), w), d) <=>
        \E r \in T : /\ r <= d /\ s \in Ranked(Upto(e), r)
                     /\ (EffectiveTo(T, r) = Open \/ EffectiveTo(T, r) >= d)
  BY <1>2, <1>4, <1>5
<1> QED BY <1>3, <1>6 DEF T

\* A build that has seen later bars says of day d what a build on day d says.
LEMMA BuildsAgree ==
  ASSUME NEW e \in Days, NEW d \in 1 .. e, NEW w \in Windows
  PROVE  InForce(Built[e][w], d) = InForce(Built[d][w], d)
<1>1. d \in Days /\ d \in 1 .. d /\ Days \subseteq Int
  BY DaysAreCounted
<1>2. Built[e][w] = Rows(Upto(e), w) /\ Built[d][w] = Rows(Upto(d), w)
  BY <1>1 DEF Built
<1> DEFINE T == Rebalances(Upto(e), w)
           D == Rebalances(Upto(d), w)
<1>3. T \subseteq Days /\ D = { r \in T : r <= d }
  BY SameRebalances
<1>4. \A r \in D : Ranked(Upto(e), r) = Ranked(Upto(d), r)
  BY <1>3, SameRanking
<1>5. ASSUME NEW s
      PROVE  s \in InForce(Rows(Upto(e), w), d) <=> s \in InForce(Rows(Upto(d), w), d)
  <2>1. s \in InForce(Rows(Upto(e), w), d) <=>
          \E r \in T : r <= d /\ s \in Ranked(Upto(e), r) /\ \A t \in T : t > r => t > d
    BY InForceIs
  <2>2. s \in InForce(Rows(Upto(d), w), d) <=>
          \E r \in D : r <= d /\ s \in Ranked(Upto(d), r) /\ \A t \in D : t > r => t > d
    BY <1>1, InForceIs
  <2> HIDE DEF T, D
  <2>3. \A r \in D : (\A t \in T : t > r => t > d) <=> (\A t \in D : t > r => t > d)
    <3>1. T \subseteq Int /\ d \in Int
      BY <1>1, <1>3
    <3>2. \A r \in D : \A t \in D : t <= d
      BY <1>3
    <3>3. \A t \in T : t \notin D => t > d
      BY <1>3, <3>1
    <3> QED BY <1>3, <3>1, <3>2, <3>3
  <2> QED BY <2>1, <2>2, <2>3, <1>3, <1>4
<1> QED BY <1>2, <1>5 DEF InForce

\* build_liquidity_policy: membership on a day is decided by the bars up to that
\* day, whatever is synced and built later (PointInTime), for every calendar, every
\* table of amounts and every window.
THEOREM MembershipIsPointInTime == Spec => []PointInTime
<1>1. Inv => PointInTime
  BY BuildsAgree DEF Inv, TypeInv, PointInTime
<1> QED BY <1>1, ResearchInv, PTL

-----------------------------------------------------------------------------
(* The approvals directory: the inductive invariant.                        *)

Points == { "idle", "store", "fill", "read", "open", "write", "replace" }

CommandsOf ==
  [ pc : Points, what : { "none", "activate", "deactivate" }, id : Ids \cup {Nothing},
    strategy : Strategies \cup {Nothing}, next : Entries, fd : Inodes \cup {0} ]

DailyRunsOf == [ pc : { "idle", "load" }, entries : Entries, todo : SUBSET Strategies, loaded : Entries ]

FilesTypeInv ==
  /\ manifests \in [ Ids -> { "missing", "empty", "whole" } ]
  /\ inodes \in [ Inodes -> Entries \cup { Empty, Torn } ]
  /\ mapAt \in Inodes \cup {0} /\ tmpAt \in Inodes \cup {0}
  /\ command \in [ Operators -> CommandsOf ]
  /\ daily \in DailyRunsOf
  /\ day \in Nat
  /\ told \in Entries

\* What a command is about.
TargetInv ==
  \A p \in Operators :
    LET c == command[p]
    IN /\ c.pc # "idle" => c.what \in { "activate", "deactivate" } /\ c.strategy \in Strategies
       /\ c.what = "activate" => c.id \in Ids /\ c.strategy = StrategyOf[c.id]
       /\ c.pc \in { "store", "fill" } => c.what = "activate"
       /\ c.pc = "write" => c.fd # 0

\* Every entry names a manifest that has been stored, for its strategy.
Stored(entries) ==
  \A s \in DOMAIN entries : manifests[entries[s]] # "missing" /\ StrategyOf[entries[s]] = s

\* Nothing that is in a file or is going to be written names an approval that
\* was not stored.
StoredInv ==
  /\ \A i \in Inodes : Readable(i) => Stored(inodes[i])
  /\ \A p \in Operators :
       /\ Stored(command[p].next)
       /\ command[p].what = "activate" /\ command[p].pc \notin { "idle", "store" } =>
            manifests[command[p].id] # "missing"

\* The map as the command wants it.
Wanted(c, entries) ==
  IF c.what = "activate" THEN With(entries, c.strategy, c.id) ELSE Without(entries, c.strategy)

\* One command after the other: the map is what was told, the temporary file of
\* the command at work is its own.
SerialInv ==
  ~overlapped =>
    /\ mapAt # 0 => Readable(mapAt)
    /\ Found = told
    /\ mapAt # 0 => mapAt # tmpAt
    /\ \A p, q \in Operators : command[p].pc # "idle" /\ command[q].pc # "idle" => p = q
    /\ \A p \in Operators :
         LET c == command[p]
         IN /\ c.pc \in { "open", "write", "replace" } => c.next = Wanted(c, told)
            /\ c.pc = "write" => c.fd = tmpAt /\ inodes[c.fd] = Empty
            /\ c.pc = "replace" => tmpAt # 0 /\ inodes[tmpAt] = c.next

\* The report says what it found on its day.
ReportInv ==
  /\ daily.todo \subseteq DOMAIN daily.entries
  /\ report.day \in Nat /\ report.loaded \in Entries
  /\ \A s \in DOMAIN report.loaded : report.status[s] = Preflight(report.loaded[s], report.day)

FilesInv == FilesTypeInv /\ TargetInv /\ StoredInv /\ SerialInv /\ ReportInv

-----------------------------------------------------------------------------
(* Entries and inodes. *)

\* An entry names an approval of Ids for one of the strategies.
LEMMA EntriesType ==
  ASSUME NEW e \in Entries
  PROVE  DOMAIN e \subseteq Strategies /\ \A s \in DOMAIN e : e[s] \in Ids
BY DEF Entries

\* The empty map is a map.
LEMMA NoEntriesType == NoEntries \in Entries /\ DOMAIN NoEntries = {}
<1>1. DOMAIN NoEntries = {} /\ NoEntries = [ i \in {} |-> i ]
  BY DEF NoEntries
<1>2. [ i \in {} |-> i ] \in [ {} -> Ids ]
  OBVIOUS
<1>3. {} \in SUBSET Strategies
  OBVIOUS
<1> QED
  BY <1>1, <1>2, <1>3 DEF Entries

\* A map with one entry put into it.
LEMMA WithType ==
  ASSUME NEW e \in Entries, NEW s \in Strategies, NEW a \in Ids
  PROVE  /\ With(e, s, a) \in Entries
         /\ DOMAIN With(e, s, a) = DOMAIN e \cup {s}
         /\ With(e, s, a)[s] = a /\ \A t \in DOMAIN e \ {s} : With(e, s, a)[t] = e[t]
<1>1. DOMAIN e \cup {s} \in SUBSET Strategies
  BY EntriesType
<1>2. With(e, s, a) \in [ DOMAIN e \cup {s} -> Ids ]
  BY EntriesType DEF With
<1> QED
  BY <1>1, <1>2 DEF Entries, With

\* A map with one entry taken out.
LEMMA WithoutType ==
  ASSUME NEW e \in Entries, NEW s \in Strategies
  PROVE  /\ Without(e, s) \in Entries
         /\ DOMAIN Without(e, s) = DOMAIN e \ {s}
         /\ \A t \in DOMAIN e \ {s} : Without(e, s)[t] = e[t]
<1>1. DOMAIN e \ {s} \in SUBSET Strategies
  BY EntriesType
<1>2. Without(e, s) \in [ DOMAIN e \ {s} -> Ids ]
  BY EntriesType DEF Without
<1> QED
  BY <1>1, <1>2 DEF Entries, Without

\* There are more inodes than names and open files, so a new file finds one.
LEMMA FreshInode ==
  ASSUME FilesTypeInv, tmpAt = 0
  PROVE  Fresh \in Inodes /\ Fresh \notin InUse /\ Fresh # 0
<1> DEFINE n == Cardinality(Operators)
           open == { command[p].fd : p \in Operators }
<1>1. n \in Nat
  BY FilesAssumption, FS_CardinalityType
<1>2. IsFiniteSet(open) /\ Cardinality(open) \in Nat /\ Cardinality(open) <= n
  <2>1. [ p \in Operators |-> command[p].fd ] \in Surjection(Operators, open)
    BY DEF Surjection
  <2> QED
    BY <2>1, FilesAssumption, FS_Surjection, FS_CardinalityType
<1>3. IsFiniteSet(open \cup {mapAt}) /\ Cardinality(open \cup {mapAt}) <= n + 1
      /\ Cardinality(open \cup {mapAt}) \in Nat
  <2> HIDE DEF n, open
  <2>1. /\ IsFiniteSet(open \cup {mapAt})
        /\ Cardinality(open \cup {mapAt})
             = IF mapAt \in open THEN Cardinality(open) ELSE Cardinality(open) + 1
    BY <1>2, FS_AddElement
  <2> QED
    BY <2>1, <1>1, <1>2
<1>4. Inodes = 1 .. n + 2 /\ Cardinality(Inodes) = n + 2
  BY <1>1, FS_Interval DEF Inodes
<1>5. PICK i \in Inodes : i \notin open \cup {mapAt}
  <2> SUFFICES ASSUME Inodes \subseteq open \cup {mapAt} PROVE FALSE
    OBVIOUS
  <2>1. Cardinality(Inodes) <= Cardinality(open \cup {mapAt})
    BY <1>3, FS_Subset
  <2> QED
    BY <2>1, <1>1, <1>3, <1>4
<1>6. i # 0 /\ i \notin InUse
  BY <1>1, <1>4, <1>5 DEF InUse
<1> QED
  BY <1>1, <1>4, <1>6 DEF Fresh

-----------------------------------------------------------------------------
(* The steps of a command. *)

\* The calls of an activation and of a deactivation, in their order.
LEMMA CallOrder ==
  ASSUME NEW c
  PROVE  /\ c.what = "activate" =>
              /\ After(c, "begin") = "store" /\ After(c, "store") = "fill" /\ After(c, "fill") = "read"
              /\ After(c, "read") = "open" /\ After(c, "open") = "write"
              /\ After(c, "write") = "replace" /\ After(c, "replace") = "idle"
         /\ c.what # "activate" =>
              /\ After(c, "begin") = "read" /\ After(c, "read") = "open" /\ After(c, "open") = "write"
              /\ After(c, "write") = "replace" /\ After(c, "replace") = "idle"
BY DEF After, ActivateOrder, DeactivateOrder

\* A command that is at rest again: an entry less to keep track of.
LEMMA IdleIsACommand ==
  Idle \in CommandsOf /\ Stored(Idle.next)
BY NoEntriesType DEF Idle, CommandsOf, Points, Stored

\* A command begins: it has nothing to write yet.
LEMMA BeginKeeps ==
  ASSUME FilesInv, NEW p \in Operators, Begin(p)
  PROVE  FilesInv'
<1> USE DEF FilesInv
<1>1. PICK c : /\ c \in CommandsOf /\ c.pc \in { "store", "read" } /\ c.next = NoEntries
               /\ c.what \in { "activate", "deactivate" } /\ c.strategy \in Strategies
               /\ c.what = "activate" => c.pc = "store" /\ c.id \in Ids /\ c.strategy = StrategyOf[c.id]
               /\ c.pc = "store" => c.what = "activate"
               /\ command' = [ command EXCEPT ![p] = c ]
  <2>1. ASSUME NEW a \in Ids,
               Step(p, Request("activate", a, StrategyOf[a]))
        PROVE  \E c : /\ c \in CommandsOf /\ c.pc \in { "store", "read" } /\ c.next = NoEntries
                      /\ c.what \in { "activate", "deactivate" } /\ c.strategy \in Strategies
                      /\ c.what = "activate" => c.pc = "store" /\ c.id \in Ids /\ c.strategy = StrategyOf[c.id]
                      /\ c.pc = "store" => c.what = "activate"
                      /\ command' = [ command EXCEPT ![p] = c ]
    <3> DEFINE c == [ pc |-> "store", what |-> "activate", id |-> a, strategy |-> StrategyOf[a],
                      next |-> NoEntries, fd |-> 0 ]
    <3>1. command' = [ command EXCEPT ![p] = c ]
      <4> DEFINE b == Request("activate", a, StrategyOf[a])
      <4>1. b.pc = "begin" /\ After(b, "begin") = "store" /\ [ b EXCEPT !.pc = "store" ] = c
        BY CallOrder DEF Request
      <4>2. Step(p, b)
        BY <2>1
      <4> HIDE DEF b, c
      <4> QED
        BY <4>1, <4>2 DEF Step
    <3>2. c \in CommandsOf
      BY IdsAssumption, NoEntriesType DEF CommandsOf, Points
    <3> QED
      BY <3>1, <3>2, IdsAssumption
  <2>2. ASSUME NEW s \in Strategies,
               Step(p, Request("deactivate", Nothing, s))
        PROVE  \E c : /\ c \in CommandsOf /\ c.pc \in { "store", "read" } /\ c.next = NoEntries
                      /\ c.what \in { "activate", "deactivate" } /\ c.strategy \in Strategies
                      /\ c.what = "activate" => c.pc = "store" /\ c.id \in Ids /\ c.strategy = StrategyOf[c.id]
                      /\ c.pc = "store" => c.what = "activate"
                      /\ command' = [ command EXCEPT ![p] = c ]
    <3> DEFINE c == [ pc |-> "read", what |-> "deactivate", id |-> Nothing, strategy |-> s,
                      next |-> NoEntries, fd |-> 0 ]
    <3>1. command' = [ command EXCEPT ![p] = c ]
      <4> DEFINE b == Request("deactivate", Nothing, s)
      <4>1. b.pc = "begin" /\ After(b, "begin") = "read" /\ [ b EXCEPT !.pc = "read" ] = c
        BY CallOrder DEF Request
      <4>2. Step(p, b)
        BY <2>2
      <4> HIDE DEF b, c
      <4> QED
        BY <4>1, <4>2 DEF Step
    <3>2. c \in CommandsOf
      BY NoEntriesType DEF CommandsOf, Points
    <3> QED
      BY <3>1, <3>2
  <2> QED
    BY <2>1, <2>2 DEF Begin
<1>2. UNCHANGED << manifests, inodes, mapAt, tmpAt, daily, report, day, told >>
  BY DEF Begin, files
<1>3. ~overlapped' => ~overlapped /\ \A q \in Operators : command[q].pc = "idle"
  BY DEF Begin
<1>4. FilesTypeInv'
  BY <1>1, <1>2 DEF FilesTypeInv
<1>5. TargetInv'
  BY <1>1 DEF TargetInv, FilesTypeInv
<1>6. StoredInv'
  <2>1. Stored(NoEntries)'
    BY NoEntriesType DEF Stored
  <2> QED
    BY <1>1, <1>2, <2>1 DEF StoredInv, Stored, FilesTypeInv, Readable
<1>7. SerialInv'
  BY <1>1, <1>2, <1>3 DEF SerialInv, FilesTypeInv, Readable, Found
<1>8. ReportInv'
  BY <1>2 DEF ReportInv
<1> QED
  BY <1>4, <1>5, <1>6, <1>7, <1>8

\* The manifest is stored before anything names it.
LEMMA StoreKeeps ==
  ASSUME FilesInv, NEW p \in Operators, StoreManifest(p)
  PROVE  FilesInv'
<1> USE DEF FilesInv
<1> DEFINE c == command[p]
           d == [ c EXCEPT !.pc = After(c, c.pc) ]
<1>1. /\ c \in CommandsOf /\ c.pc \in { "store", "fill" } /\ c.what = "activate" /\ c.id \in Ids
      /\ command' = [ command EXCEPT ![p] = d ]
      /\ UNCHANGED << inodes, mapAt, tmpAt, daily, report, day, told, overlapped >>
  BY DEF StoreManifest, Step, ghosts, FilesTypeInv, TargetInv
<1>2. d.pc \in { "fill", "read" } /\ d \in CommandsOf
      /\ d.what = c.what /\ d.id = c.id /\ d.strategy = c.strategy /\ d.next = c.next /\ d.fd = c.fd
  BY <1>1, CallOrder DEF CommandsOf, Points
<1>3. /\ manifests' \in [ Ids -> { "missing", "empty", "whole" } ]
      /\ manifests'[c.id] # "missing"
      /\ \A a \in Ids : manifests[a] # "missing" => manifests'[a] # "missing"
  BY <1>1 DEF StoreManifest, FilesTypeInv
<1> HIDE DEF d
<1>4. FilesTypeInv'
  BY <1>1, <1>2, <1>3 DEF FilesTypeInv
<1>5. TargetInv'
  BY <1>1, <1>2 DEF TargetInv, FilesTypeInv
<1>6. \A e \in Entries : Stored(e) => Stored(e)'
  BY <1>3, EntriesType DEF Stored
<1>7. StoredInv'
  <2>1. \A i \in Inodes : Readable(i)' => Stored(inodes[i])'
    BY <1>1, <1>6 DEF StoredInv, FilesTypeInv, Readable
  <2>2. \A q \in Operators : Stored(command[q].next)'
    BY <1>1, <1>2, <1>6 DEF StoredInv, FilesTypeInv, CommandsOf
  <2>3. ASSUME NEW q \in Operators, command'[q].what = "activate",
               command'[q].pc \notin { "idle", "store" }
        PROVE  manifests'[command'[q].id] # "missing"
    BY <1>1, <1>2, <1>3, <2>3 DEF StoredInv, FilesTypeInv, TargetInv
  <2> QED
    BY <2>1, <2>2, <2>3 DEF StoredInv
<1>8. SerialInv'
  BY <1>1, <1>2 DEF SerialInv, FilesTypeInv, Readable, Found
<1>9. ReportInv'
  BY <1>1 DEF ReportInv
<1> QED
  BY <1>4, <1>5, <1>7, <1>8, <1>9

\* What is found is an entry for each strategy that was stored.
LEMMA FoundIsStored ==
  ASSUME FilesInv, mapAt = 0 \/ Readable(mapAt)
  PROVE  Found \in Entries /\ Stored(Found)
<1>1. CASE mapAt = 0
  BY <1>1, NoEntriesType DEF Found, Stored
<1>2. CASE mapAt # 0
  BY <1>2 DEF Found, Readable, FilesInv, FilesTypeInv, StoredInv
<1> QED
  BY <1>1, <1>2

\* A map stays one of stored approvals when a stored one is put into it, or one
\* is taken out.
LEMMA StoredMaps ==
  ASSUME NEW e \in Entries, Stored(e), NEW s \in Strategies
  PROVE  /\ Without(e, s) \in Entries /\ Stored(Without(e, s))
         /\ \A a \in Ids : manifests[a] # "missing" /\ StrategyOf[a] = s =>
              With(e, s, a) \in Entries /\ Stored(With(e, s, a))
<1>1. Without(e, s) \in Entries /\ Stored(Without(e, s))
  <2>1. /\ Without(e, s) \in Entries /\ DOMAIN Without(e, s) = DOMAIN e \ {s}
        /\ \A t \in DOMAIN e \ {s} : Without(e, s)[t] = e[t]
    BY WithoutType
  <2> QED
    BY <2>1 DEF Stored
<1>2. ASSUME NEW a \in Ids, manifests[a] # "missing", StrategyOf[a] = s
      PROVE  With(e, s, a) \in Entries /\ Stored(With(e, s, a))
  <2>1. /\ With(e, s, a) \in Entries /\ DOMAIN With(e, s, a) = DOMAIN e \cup {s}
        /\ With(e, s, a)[s] = a /\ \A t \in DOMAIN e \ {s} : With(e, s, a)[t] = e[t]
    BY <1>2, WithType
  <2> QED
    BY <1>2, <2>1 DEF Stored
<1> QED
  BY <1>1, <1>2

\* A command that ends here leaves nothing but its files.
LEMMA StopKeeps ==
  ASSUME FilesInv, NEW p \in Operators, Stop(p),
         UNCHANGED << files, daily, report, day, told, overlapped >>
  PROVE  FilesInv'
<1> USE DEF FilesInv
<1>1. /\ command' = [ command EXCEPT ![p] = Idle ] /\ Idle \in CommandsOf /\ Stored(Idle.next)
      /\ Idle.pc = "idle" /\ Idle.what = "none"
  BY IdleIsACommand DEF Stop, Idle
<1>2. UNCHANGED << manifests, inodes, mapAt, tmpAt, daily, report, day, told, overlapped >>
  BY DEF files
<1>3. FilesTypeInv'
  BY <1>1, <1>2 DEF FilesTypeInv
<1>4. TargetInv'
  BY <1>1 DEF TargetInv, FilesTypeInv
<1>5. StoredInv'
  BY <1>1, <1>2 DEF StoredInv, Stored, FilesTypeInv, Readable
<1>6. SerialInv'
  BY <1>1, <1>2 DEF SerialInv, FilesTypeInv, Readable, Found
<1>7. ReportInv'
  BY <1>2 DEF ReportInv
<1> QED
  BY <1>3, <1>4, <1>5, <1>6, <1>7

\* The map is read: what the command is going to write is known.
LEMMA ReadKeeps ==
  ASSUME FilesInv, NEW p \in Operators, ReadMap(p)
  PROVE  FilesInv'
<1> USE DEF FilesInv
<1> DEFINE c == command[p]
           next == IF c.what = "activate" THEN With(Found, c.strategy, c.id) ELSE Without(Found, c.strategy)
           r == [ c EXCEPT !.next = next ]
           d == [ c EXCEPT !.pc = "open", !.next = next ]
<1>1. CASE Stop(p)
  BY <1>1, StopKeeps DEF ReadMap, ghosts
<1>2. CASE (mapAt = 0 \/ Readable(mapAt)) /\ Step(p, r)
  <2>1. /\ c \in CommandsOf /\ c.pc = "read" /\ c.what \in { "activate", "deactivate" }
        /\ c.strategy \in Strategies
        /\ c.what = "activate" => /\ c.id \in Ids /\ c.strategy = StrategyOf[c.id]
                                  /\ manifests[c.id] # "missing"
    BY DEF ReadMap, FilesTypeInv, TargetInv, StoredInv
  <2>2. next \in Entries /\ Stored(next)
    <3>1. CASE c.what = "activate"
      BY <3>1, <1>2, <2>1, FoundIsStored, StoredMaps
    <3>2. CASE c.what # "activate"
      BY <3>2, <1>2, <2>1, FoundIsStored, StoredMaps
    <3> QED
      BY <3>1, <3>2
  <2>3. next = Wanted(c, Found)
    BY DEF Wanted
  <2>4. command' = [ command EXCEPT ![p] = d ]
    <3> HIDE DEF next
    <3>1. r.pc = "read" /\ After(r, "read") = "open"
      BY <2>1, CallOrder DEF CommandsOf
    <3>2. [ r EXCEPT !.pc = "open" ] = d
      BY <2>1 DEF CommandsOf
    <3> HIDE DEF r, d
    <3> QED
      BY <1>2, <3>1, <3>2 DEF Step
  <2>5. UNCHANGED << manifests, inodes, mapAt, tmpAt, daily, report, day, told, overlapped >>
    BY DEF ReadMap, files, ghosts
  <2> HIDE DEF next, r
  <2>6. /\ d \in CommandsOf /\ d.pc = "open" /\ d.what = c.what /\ d.id = c.id
        /\ d.strategy = c.strategy /\ d.next = next
    BY <2>1, <2>2 DEF CommandsOf, Points
  <2> HIDE DEF d
  <2>7. FilesTypeInv'
    BY <2>4, <2>5, <2>6 DEF FilesTypeInv
  <2>8. TargetInv'
    BY <2>1, <2>4, <2>6 DEF TargetInv, FilesTypeInv
  <2>9. StoredInv'
    BY <2>1, <2>2, <2>4, <2>5, <2>6 DEF StoredInv, Stored, FilesTypeInv, Readable
  <2>10. d.next = Wanted(d, Found)
    BY <2>3, <2>6 DEF Wanted
  <2>11. SerialInv'
    BY <2>1, <2>4, <2>5, <2>6, <2>10 DEF SerialInv, FilesTypeInv, Readable, Found
  <2>12. ReportInv'
    BY <2>5 DEF ReportInv
  <2> QED
    BY <2>7, <2>8, <2>9, <2>11, <2>12
<1> QED
  BY <1>1, <1>2 DEF ReadMap

\* Inodes are numbered from 1: 0 is no inode.
LEMMA NoInodeZero == \A i \in Inodes : i # 0
<1>1. Cardinality(Operators) \in Nat
  BY FilesAssumption, FS_CardinalityType
<1> QED
  BY <1>1 DEF Inodes

\* The temporary file is opened: it is never the file of the map while commands
\* are run one after the other.
LEMMA OpenKeeps ==
  ASSUME FilesInv, NEW p \in Operators, OpenTemp(p)
  PROVE  FilesInv'
<1> USE DEF FilesInv
<1> DEFINE c == command[p]
           i == IF tmpAt = 0 THEN Fresh ELSE tmpAt
           r == [ c EXCEPT !.fd = i ]
           d == [ c EXCEPT !.pc = "write", !.fd = i ]
<1>1. c \in CommandsOf /\ c.pc = "open" /\ c.what \in { "activate", "deactivate" } /\ c.strategy \in Strategies
  BY DEF OpenTemp, FilesTypeInv, TargetInv
<1>2. /\ inodes' = [ inodes EXCEPT ![i] = Empty ] /\ tmpAt' = i /\ Step(p, r)
      /\ UNCHANGED << manifests, mapAt, daily, report, day, told, overlapped >>
  BY DEF OpenTemp, Target, ghosts
<1>3. i \in Inodes /\ i # 0
  BY FreshInode, NoInodeZero DEF FilesTypeInv
<1>4. ~overlapped /\ mapAt # 0 => mapAt # i
  BY FreshInode DEF SerialInv, InUse
<1> HIDE DEF i
<1>5. /\ d \in CommandsOf /\ d.pc = "write" /\ d.what = c.what /\ d.id = c.id
      /\ d.strategy = c.strategy /\ d.next = c.next /\ d.fd = i
  BY <1>1, <1>3 DEF CommandsOf, Points
<1>6. command' = [ command EXCEPT ![p] = d ]
  <2>1. r.pc = "open" /\ After(r, "open") = "write"
    BY <1>1, CallOrder DEF CommandsOf
  <2>2. [ r EXCEPT !.pc = "write" ] = d
    BY <1>1 DEF CommandsOf
  <2> HIDE DEF r, d
  <2> QED
    BY <1>2, <2>1, <2>2 DEF Step
<1> HIDE DEF r, d
<1>7. FilesTypeInv'
  BY <1>2, <1>3, <1>5, <1>6 DEF FilesTypeInv
<1>8. TargetInv'
  BY <1>1, <1>3, <1>5, <1>6 DEF TargetInv, FilesTypeInv
<1>9. StoredInv'
  <2>1. \A j \in Inodes : Readable(j)' => Stored(inodes[j])'
    <3> TAKE j \in Inodes
    <3>1. CASE j = i
      BY <3>1, <1>2 DEF Readable, FilesTypeInv
    <3>2. CASE j # i
      BY <3>2, <1>2, <1>3 DEF Readable, FilesTypeInv, StoredInv, Stored
    <3> QED
      BY <3>1, <3>2
  <2>2. \A q \in Operators :
          /\ Stored(command[q].next)'
          /\ command'[q].what = "activate" /\ command'[q].pc \notin { "idle", "store" } =>
               manifests'[command'[q].id] # "missing"
    BY <1>1, <1>2, <1>5, <1>6 DEF StoredInv, Stored, FilesTypeInv
  <2> QED
    BY <2>1, <2>2 DEF StoredInv
<1>10. SerialInv'
  <2> SUFFICES ASSUME ~overlapped'
               PROVE  /\ mapAt' # 0 => Readable(mapAt)'
                      /\ Found' = told'
                      /\ mapAt' # 0 => mapAt' # tmpAt'
                      /\ \A o, q \in Operators : command'[o].pc # "idle" /\ command'[q].pc # "idle" => o = q
                      /\ \A q \in Operators :
                           LET e == command'[q]
                           IN /\ e.pc \in { "open", "write", "replace" } => e.next = Wanted(e, told')
                              /\ e.pc = "write" => e.fd = tmpAt' /\ inodes'[e.fd] = Empty
                              /\ e.pc = "replace" => tmpAt' # 0 /\ inodes'[tmpAt'] = e.next
    BY DEF SerialInv, Wanted
  <2>1. ~overlapped
    BY <1>2
  <2>2. (mapAt' # 0 => Readable(mapAt)') /\ Found' = told' /\ (mapAt' # 0 => mapAt' # tmpAt')
    BY <1>2, <1>3, <1>4, <2>1 DEF SerialInv, Readable, Found, FilesTypeInv
  <2>3. \A o, q \in Operators : command'[o].pc # "idle" /\ command'[q].pc # "idle" => o = q
    BY <1>1, <1>6, <2>1 DEF SerialInv, FilesTypeInv
  <2>4. \A q \in Operators : q # p => command'[q].pc = "idle"
    BY <1>1, <1>6, <2>1 DEF SerialInv, FilesTypeInv
  <2>5. command'[p] = d
    BY <1>6 DEF FilesTypeInv
  <2>6. d.next = Wanted(d, told') /\ inodes'[i] = Empty /\ tmpAt' = i
    BY <1>1, <1>2, <1>3, <1>5, <2>1 DEF SerialInv, FilesTypeInv, Wanted
  <2> QED
    BY <1>5, <2>2, <2>3, <2>4, <2>5, <2>6
<1>11. ReportInv'
  BY <1>2 DEF ReportInv
<1> QED
  BY <1>7, <1>8, <1>9, <1>10, <1>11

\* The text is written: what can be read of the file afterwards is this text.
LEMMA WriteKeeps ==
  ASSUME FilesInv, NEW p \in Operators, WriteTemp(p)
  PROVE  FilesInv'
<1> USE DEF FilesInv
<1> DEFINE c == command[p]
           i == c.fd
           text == Overwritten(inodes[i], c.next)
           r == [ c EXCEPT !.fd = 0 ]
           d == [ c EXCEPT !.pc = "replace", !.fd = 0 ]
<1>1. /\ c \in CommandsOf /\ c.pc = "write" /\ c.what \in { "activate", "deactivate" }
      /\ c.strategy \in Strategies /\ i \in Inodes /\ i # 0
  BY DEF WriteTemp, FilesTypeInv, TargetInv, CommandsOf
<1>2. /\ inodes' = [ inodes EXCEPT ![i] = text ] /\ Step(p, r)
      /\ UNCHANGED << manifests, mapAt, tmpAt, daily, report, day, told, overlapped >>
  BY DEF WriteTemp, ghosts
<1>3. /\ text \in Entries \cup { Empty, Torn }
      /\ text \in { Empty, Torn } \/ text = c.next
      /\ inodes[i] = Empty => text = c.next
  BY <1>1 DEF Overwritten, CommandsOf
<1> HIDE DEF text, i
<1>4. /\ d \in CommandsOf /\ d.pc = "replace" /\ d.what = c.what /\ d.id = c.id
      /\ d.strategy = c.strategy /\ d.next = c.next
  BY <1>1 DEF CommandsOf, Points
<1>5. command' = [ command EXCEPT ![p] = d ]
  <2>1. r.pc = "write" /\ After(r, "write") = "replace"
    BY <1>1, CallOrder DEF CommandsOf
  <2>2. [ r EXCEPT !.pc = "replace" ] = d
    BY <1>1 DEF CommandsOf
  <2> HIDE DEF r, d
  <2> QED
    BY <1>2, <2>1, <2>2 DEF Step
<1> HIDE DEF r, d
<1>6. FilesTypeInv'
  BY <1>1, <1>2, <1>3, <1>4, <1>5 DEF FilesTypeInv
<1>7. TargetInv'
  BY <1>1, <1>4, <1>5 DEF TargetInv, FilesTypeInv
<1>8. StoredInv'
  <2>1. \A j \in Inodes : Readable(j)' => Stored(inodes[j])'
    <3> TAKE j \in Inodes
    <3>1. CASE j = i
      BY <3>1, <1>2, <1>3 DEF Readable, FilesTypeInv, StoredInv, Stored
    <3>2. CASE j # i
      BY <3>2, <1>2 DEF Readable, FilesTypeInv, StoredInv, Stored
    <3> QED
      BY <3>1, <3>2
  <2>2. \A q \in Operators :
          /\ Stored(command[q].next)'
          /\ command'[q].what = "activate" /\ command'[q].pc \notin { "idle", "store" } =>
               manifests'[command'[q].id] # "missing"
    BY <1>1, <1>2, <1>4, <1>5 DEF StoredInv, Stored, FilesTypeInv
  <2> QED
    BY <2>1, <2>2 DEF StoredInv
<1>9. SerialInv'
  <2> SUFFICES ASSUME ~overlapped'
               PROVE  /\ mapAt' # 0 => Readable(mapAt)'
                      /\ Found' = told'
                      /\ mapAt' # 0 => mapAt' # tmpAt'
                      /\ \A o, q \in Operators : command'[o].pc # "idle" /\ command'[q].pc # "idle" => o = q
                      /\ \A q \in Operators :
                           LET e == command'[q]
                           IN /\ e.pc \in { "open", "write", "replace" } => e.next = Wanted(e, told')
                              /\ e.pc = "write" => e.fd = tmpAt' /\ inodes'[e.fd] = Empty
                              /\ e.pc = "replace" => tmpAt' # 0 /\ inodes'[tmpAt'] = e.next
    BY DEF SerialInv, Wanted
  <2>1. ~overlapped /\ i = tmpAt /\ inodes[i] = Empty
    BY <1>1, <1>2 DEF SerialInv, i
  <2>2. (mapAt' # 0 => Readable(mapAt)') /\ Found' = told' /\ (mapAt' # 0 => mapAt' # tmpAt')
    BY <1>1, <1>2, <2>1 DEF SerialInv, Readable, Found, FilesTypeInv
  <2>3. \A o, q \in Operators : command'[o].pc # "idle" /\ command'[q].pc # "idle" => o = q
    BY <1>1, <1>5, <2>1 DEF SerialInv, FilesTypeInv
  <2>4. \A q \in Operators : q # p => command'[q].pc = "idle"
    BY <1>1, <1>5, <2>1 DEF SerialInv, FilesTypeInv
  <2>5. command'[p] = d
    BY <1>5 DEF FilesTypeInv
  <2>6. d.next = Wanted(d, told') /\ tmpAt' # 0 /\ inodes'[tmpAt'] = d.next
    BY <1>1, <1>2, <1>3, <1>4, <2>1 DEF SerialInv, FilesTypeInv, Wanted
  <2> QED
    BY <1>4, <2>2, <2>3, <2>4, <2>5, <2>6
<1>10. ReportInv'
  BY <1>2 DEF ReportInv
<1> QED
  BY <1>6, <1>7, <1>8, <1>9, <1>10

\* The name is moved: what is told is what the command wanted.
LEMMA ReplaceKeeps ==
  ASSUME FilesInv, NEW p \in Operators, ReplaceMap(p)
  PROVE  FilesInv'
<1> USE DEF FilesInv
<1> DEFINE c == command[p]
           d == [ c EXCEPT !.pc = "idle" ]
<1>1. /\ c \in CommandsOf /\ c.pc = "replace" /\ c.what \in { "activate", "deactivate" }
      /\ c.strategy \in Strategies
      /\ c.what = "activate" => c.id \in Ids
  BY DEF ReplaceMap, FilesTypeInv, TargetInv
<1>2. Step(p, c) /\ UNCHANGED << manifests, inodes, daily, report, day, overlapped >>
  BY DEF ReplaceMap
<1>3. \/ tmpAt = 0 /\ UNCHANGED << mapAt, tmpAt, told >>
      \/ tmpAt # 0 /\ mapAt' = tmpAt /\ tmpAt' = 0 /\ told' = Wanted(c, told)
  BY DEF ReplaceMap, Wanted
<1>4. command' = [ command EXCEPT ![p] = d ]
  BY <1>1, <1>2, CallOrder DEF Step
<1>5. d \in CommandsOf /\ d.pc = "idle" /\ d.what = c.what /\ d.id = c.id
      /\ d.strategy = c.strategy /\ d.next = c.next
  BY <1>1 DEF CommandsOf, Points
<1> HIDE DEF d
<1>6. FilesTypeInv'
  <2>1. With(told, c.strategy, c.id) \in Entries \/ c.what # "activate"
    BY <1>1, WithType DEF FilesTypeInv
  <2>2. Without(told, c.strategy) \in Entries
    BY <1>1, WithoutType DEF FilesTypeInv
  <2>3. told' \in Entries
    BY <1>3, <2>1, <2>2 DEF Wanted, FilesTypeInv
  <2> QED
    BY <1>2, <1>3, <1>4, <1>5, <2>3 DEF FilesTypeInv
<1>7. TargetInv'
  BY <1>4, <1>5 DEF TargetInv, FilesTypeInv
<1>8. StoredInv'
  BY <1>2, <1>4, <1>5 DEF StoredInv, Stored, FilesTypeInv, Readable
<1>9. SerialInv'
  <2> SUFFICES ASSUME ~overlapped'
               PROVE  /\ mapAt' # 0 => Readable(mapAt)'
                      /\ Found' = told'
                      /\ mapAt' # 0 => mapAt' # tmpAt'
                      /\ \A q \in Operators : command'[q].pc = "idle"
    BY DEF SerialInv
  <2>1. ~overlapped /\ tmpAt # 0 /\ inodes[tmpAt] = c.next /\ c.next = Wanted(c, told)
    BY <1>1, <1>2 DEF SerialInv
  <2>2. c.next \in Entries
    BY <1>1 DEF CommandsOf
  <2>3. mapAt' = tmpAt /\ tmpAt' = 0 /\ told' = c.next /\ inodes'[mapAt'] = c.next
    BY <1>2, <1>3, <2>1
  <2>4. (mapAt' # 0 => Readable(mapAt)') /\ Found' = told' /\ (mapAt' # 0 => mapAt' # tmpAt')
    BY <2>1, <2>2, <2>3, FilesAssumption DEF Readable, Found
  <2>5. \A q \in Operators : command'[q].pc = "idle"
    BY <1>1, <1>4, <1>5, <2>1 DEF SerialInv, FilesTypeInv
  <2> QED
    BY <2>4, <2>5
<1>10. ReportInv'
  BY <1>2 DEF ReportInv
<1> QED
  BY <1>6, <1>7, <1>8, <1>9, <1>10

-----------------------------------------------------------------------------
(* The daily run. *)

\* What the daily run does to its own state leaves the files alone.
LEMMA DailyKeeps ==
  ASSUME FilesInv, daily' \in DailyRunsOf, day' \in Nat, ReportInv', UNCHANGED << files, command, ghosts >>
  PROVE  FilesInv'
<1> USE DEF FilesInv
<1>1. UNCHANGED << manifests, inodes, mapAt, tmpAt, command, told, overlapped >>
  BY DEF files, ghosts
<1>2. FilesTypeInv'
  BY <1>1 DEF FilesTypeInv
<1>3. TargetInv' /\ StoredInv' /\ SerialInv'
  BY <1>1 DEF TargetInv, StoredInv, Stored, SerialInv, Readable, Found, Wanted
<1> QED
  BY <1>2, <1>3

\* The run loads entries, whatever the map and the legacy pointer hold.
LEMMA LoadMapKeeps ==
  ASSUME FilesInv, LoadMap
  PROVE  FilesInv'
<1>1. UNCHANGED << files, command, report, day, ghosts >>
  BY DEF LoadMap
<1>2. CASE UNCHANGED daily
  BY <1>1, <1>2, DailyKeeps DEF FilesInv, FilesTypeInv, ReportInv, Preflight
<1>3. CASE ~UNCHANGED daily
  <2> DEFINE e == IF mapAt = 0 THEN LegacyEntries ELSE Found
  <2>1. /\ mapAt = 0 \/ Readable(mapAt)
        /\ daily' = [ pc |-> "load", entries |-> e, todo |-> DOMAIN e, loaded |-> NoEntries ]
    BY <1>3 DEF LoadMap
  <2>2. LegacyEntries \in Entries
    BY IdsAssumption, NoEntriesType, WithType DEF LegacyEntries
  <2>3. e \in Entries
    BY <2>1, <2>2, FoundIsStored
  <2>4. DOMAIN e \subseteq Strategies
    BY <2>3, EntriesType
  <2> HIDE DEF e
  <2>5. daily' \in DailyRunsOf /\ daily'.todo \subseteq DOMAIN daily'.entries
    BY <2>1, <2>3, <2>4, NoEntriesType DEF DailyRunsOf
  <2> QED
    BY <1>1, <2>5, DailyKeeps DEF FilesInv, FilesTypeInv, ReportInv
<1> QED
  BY <1>2, <1>3

\* A manifest is loaded, left out, or ends the run.
LEMMA LoadManifestKeeps ==
  ASSUME FilesInv, NEW s \in Strategies, LoadManifest(s)
  PROVE  FilesInv'
<1> DEFINE a == daily.entries[s]
<1>1. UNCHANGED << files, command, report, day, ghosts >>
  BY DEF LoadManifest
<1>2. /\ daily \in DailyRunsOf /\ s \in daily.todo /\ s \in DOMAIN daily.entries
      /\ daily.todo \subseteq DOMAIN daily.entries /\ daily.loaded \in Entries
  BY DEF LoadManifest, FilesInv, FilesTypeInv, ReportInv, DailyRunsOf
<1>3. a \in Ids
  BY <1>2, EntriesType DEF DailyRunsOf
<1>4. With(daily.loaded, s, a) \in Entries
  BY <1>2, <1>3, WithType
<1>5. daily' \in DailyRunsOf /\ daily'.todo \subseteq DOMAIN daily'.entries
  <2>1. CASE manifests[a] = "whole"
    BY <2>1, <1>2, <1>4 DEF LoadManifest, DailyRunsOf
  <2>2. CASE manifests[a] = "missing"
    BY <2>2, <1>2 DEF LoadManifest, DailyRunsOf
  <2>3. CASE manifests[a] \notin { "whole", "missing" }
    BY <2>3, NoEntriesType DEF LoadManifest, Resting, DailyRunsOf
  <2> QED
    BY <2>1, <2>2, <2>3
<1> QED
  BY <1>1, <1>5, DailyKeeps DEF FilesInv, FilesTypeInv, ReportInv

\* The report is about the day it is made on.
LEMMA ReportKeeps ==
  ASSUME FilesInv, Report
  PROVE  FilesInv'
<1>1. UNCHANGED << files, command, day, ghosts >> /\ daily' = Resting
  BY DEF Report
<1>2. /\ report'.day = day /\ report'.loaded = daily.loaded
      /\ report'.status = [ s \in Strategies |->
                              IF s \in DOMAIN daily.loaded THEN Preflight(daily.loaded[s], day) ELSE "MISSING" ]
  BY DEF Report
<1>3. daily.loaded \in Entries /\ day \in Nat
  BY DEF FilesInv, FilesTypeInv, DailyRunsOf
<1>4. DOMAIN daily.loaded \subseteq Strategies
  BY <1>3, EntriesType
<1>5. \A s \in DOMAIN report'.loaded : report'.status[s] = Preflight(report'.loaded[s], report'.day)
  BY <1>2, <1>4
<1>6. Resting \in DailyRunsOf /\ Resting.todo \subseteq DOMAIN Resting.entries
  BY NoEntriesType DEF Resting, DailyRunsOf
<1>7. ReportInv'
  BY <1>1, <1>2, <1>3, <1>5, <1>6 DEF ReportInv, Preflight, Refusal, InWindow, ExpiresSoon, SessionsBetween
<1> QED
  BY <1>1, <1>3, <1>6, <1>7, DailyKeeps

-----------------------------------------------------------------------------
(* The theorems. *)

\* The invariant holds in every state: what is on disk, what the commands are
\* about to write and what was told belong together (store.py:57-93).
THEOREM ApprovalsInv == ApprovalsSpec => []FilesInv
<1>1. ApprovalsInit => FilesInv
  <2> SUFFICES ASSUME ApprovalsInit PROVE FilesInv
    OBVIOUS
  <2>1. /\ mapAt = 0 /\ tmpAt = 0 /\ daily = Resting /\ day = 1 /\ told = NoEntries
        /\ manifests \in [ Ids -> { "missing", "empty", "whole" } ]
        /\ inodes = [ i \in Inodes |-> Empty ] /\ command = [ p \in Operators |-> Idle ]
        /\ report.day = 0 /\ report.loaded = NoEntries
    BY DEF ApprovalsInit
  <2>2. Resting \in DailyRunsOf /\ Resting.todo \subseteq DOMAIN Resting.entries
    BY NoEntriesType DEF Resting, DailyRunsOf
  <2>3. Idle.pc = "idle" /\ Idle.what = "none"
    BY DEF Idle
  <2>4. FilesTypeInv
    BY <2>1, <2>2, IdleIsACommand, NoEntriesType DEF FilesTypeInv
  <2>5. TargetInv
    BY <2>1, <2>3 DEF TargetInv
  <2>6. StoredInv
    BY <2>1, <2>3, IdleIsACommand DEF StoredInv, Readable
  <2>7. SerialInv
    BY <2>1, <2>3 DEF SerialInv, Found
  <2>8. ReportInv
    BY <2>1, <2>2, NoEntriesType DEF ReportInv
  <2> QED
    BY <2>4, <2>5, <2>6, <2>7, <2>8 DEF FilesInv
<1>2. FilesInv /\ [ApprovalsNext]_approvals => FilesInv'
  <2> SUFFICES ASSUME FilesInv, [ApprovalsNext]_approvals PROVE FilesInv'
    OBVIOUS
  <2>1. ASSUME NEW p \in Operators,
               Begin(p) \/ StoreManifest(p) \/ ReadMap(p) \/ OpenTemp(p) \/ WriteTemp(p) \/ ReplaceMap(p)
        PROVE  FilesInv'
    BY <2>1, BeginKeeps, StoreKeeps, ReadKeeps, OpenKeeps, WriteKeeps, ReplaceKeeps
  <2>2. ASSUME NEW p \in Operators, Die(p)
        PROVE  FilesInv'
    BY <2>2, StopKeeps DEF Die, ghosts
  <2>3. CASE LoadMap \/ Report \/ \E s \in Strategies : LoadManifest(s)
    BY <2>3, LoadMapKeeps, LoadManifestKeeps, ReportKeeps
  <2>4. CASE NextDay
    <3>1. daily' = daily /\ report' = report /\ day' = day + 1 /\ UNCHANGED << files, command, ghosts >>
      BY <2>4 DEF NextDay
    <3>2. ReportInv'
      BY <3>1 DEF FilesInv, ReportInv, Preflight, Refusal, InWindow, ExpiresSoon, SessionsBetween
    <3> QED
      BY <3>1, <3>2, DailyKeeps DEF FilesInv, FilesTypeInv
  <2>5. CASE UNCHANGED approvals
    <3>1. daily' = daily /\ report' = report /\ day' = day /\ UNCHANGED << files, command, ghosts >>
      BY <2>5 DEF approvals, files, ghosts
    <3>2. ReportInv'
      BY <3>1 DEF FilesInv, ReportInv, Preflight, Refusal, InWindow, ExpiresSoon, SessionsBetween
    <3> QED
      BY <3>1, <3>2, DailyKeeps DEF FilesInv, FilesTypeInv
  <2> QED
    BY <2>1, <2>2, <2>3, <2>4, <2>5 DEF ApprovalsNext
<1> QED
  BY <1>1, <1>2, PTL DEF ApprovalsSpec

\* For any number of terminals: while commands are run one after the other, the
\* active map is whole and says what the finished commands say, wherever a
\* command died (store.py:72, 89-93).
THEOREM LastWordAlwaysHolds == ApprovalsSpec => []LastWordHolds
<1>1. FilesInv => LastWordHolds
  BY DEF FilesInv, SerialInv, LastWordHolds
<1> QED
  BY <1>1, ApprovalsInv, PTL

\* However commands overlap and wherever they die, a readable map names only
\* approvals whose manifests were stored, for their strategies (store.py:57-72).
THEOREM ActiveIsAlwaysStored == ApprovalsSpec => []ActiveIsStored
<1>1. FilesInv => ActiveIsStored
  BY FoundIsStored DEF ActiveIsStored, Stored
<1> QED
  BY <1>1, ApprovalsInv, PTL

\* Whatever the validity dates are, the warning period (two sessions or more)
\* covers the next morning: what the report calls ACTIVE is not refused then
\* (runners/simulation.py:161-168, validator.py:43-54).
THEOREM ActiveAlwaysLasts == ApprovalsSpec => []ActiveLastsUntilTheOpen
<1>1. FilesInv => ActiveLastsUntilTheOpen
  <2> SUFFICES ASSUME FilesInv, day = report.day + 1, NEW s \in DOMAIN report.loaded, report.status[s] = "ACTIVE"
               PROVE  Refusal(report.loaded[s], day, "simulation") = "NONE"
    BY DEF ActiveLastsUntilTheOpen
  <2> DEFINE a == report.loaded[s]
             d == report.day
  <2>1. a \in Ids /\ From[a] \in Nat /\ Until[a] \in Nat /\ d \in Nat /\ Warning >= 2 /\ Warning \in Nat
    BY EntriesType, IdsAssumption, WarningAssumption DEF FilesInv, ReportInv
  <2>2. Preflight(a, d) = "ACTIVE"
    BY DEF FilesInv, ReportInv
  <2>3. a \notin Revoked /\ Refusal(a, d, "simulation") = "NONE" /\ ~ExpiresSoon(a, d)
    BY <2>2 DEF Preflight, Refusal
  <2>4. a \notin Untrusted /\ ~(d < From[a]) /\ "simulation" \in Modes[a]
    BY <2>1, <2>3 DEF Refusal, InWindow
  <2>5. Until[a] - d + 1 > Warning
    BY <2>1, <2>3 DEF ExpiresSoon, SessionsBetween
  <2> QED
    BY <2>1, <2>3, <2>4, <2>5 DEF Refusal, InWindow
<1> QED
  BY <1>1, ApprovalsInv, PTL
=============================================================================
