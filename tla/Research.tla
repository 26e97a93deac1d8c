------------------------------ MODULE Research ------------------------------
(***************************************************************************)
(* Formal research on one database: researchers run backtests of entry     *)
(* strategies on the fixed list or on a universe policy, each run records  *)
(* itself in research_ledger, counts the trials of its family, persists    *)
(* its fingerprint and is judged by the thresholds registered for its      *)
(* strategy and version.                                                   *)
(*                                                                         *)
(* A run commits three times, and may die or meet others' commits between  *)
(* any two.  A configuration is [id, version, params]; the quality of a    *)
(* run stands for its statistics, a threshold for the five of a gate.      *)
(***************************************************************************)
EXTENDS Universe

CONSTANTS Researchers, Configs,
          FamilyOf,              \* STRATEGY_FAMILIES, for each id
          Active,                \* ids that have an active manifest
          Qualities, None,
          MaxRuns                \* bound

ASSUME QualitiesAssumption == Qualities \subseteq Int

VARIABLES gates,      \* regime_gate_thresholds
          ledger,     \* the distinct configurations of research_ledger
          runs,       \* the run of each researcher
          begun,      \* runs begun
          verdicts    \* results given: printed and written to a file

research == << gates, ledger, runs, begun, verdicts >>
vars == << universe, research >>

GateKey(c) == << c.id, c.version >>
GateKeys == { GateKey(c) : c \in Configs }
NoRun == [ pc |-> "idle" ]

Init ==
  /\ UniverseInit
  /\ gates = [ k \in GateKeys |-> None ]
  /\ ledger = {} /\ begun = 0
  /\ runs = [ p \in Researchers |-> NoRun ]
  /\ verdicts = {}

Become(p, run) == runs' = [ runs EXCEPT ![p] = run ]

\* Only a fixed list and a version named diagnostic give a diagnostic snapshot.
\* Mutant: any policy counts as point-in-time.
OnlyWithoutPolicy(v) == v = None

IsDiagnostic(v) == v = None \/ v \in DiagnosticNames

----------------------------------------------------------------------------
(* set_regime_gate_thresholds.                                              *)

\* Mutant: the thresholds can be set again.
LastWins(k, q) == q

FirstWins(k, q) == IF gates[k] = None THEN q ELSE gates[k]

RegisterGate(k, q) ==
  /\ gates' = [ gates EXCEPT ![k] = FirstWins(k, q) ]
  /\ UNCHANGED << universe, ledger, runs, begun, verdicts >>

----------------------------------------------------------------------------
(* cmd_backtest_run and the end of BacktestRunner.run.                      *)

\* Without an active manifest, or on a version nobody is in, there is no run.
StartRun(p, c, v) ==
  /\ runs[p].pc = "idle" /\ begun < MaxRuns
  /\ c.id \in Active
  /\ v # None => AllSymbols(v) # {}
  /\ begun' = begun + 1
  /\ Become(p, [ pc |-> "computed", config |-> c, version |-> v, trials |-> 0 ])
  /\ UNCHANGED << universe, gates, ledger, verdicts >>

Family(c) == { d \in Configs : FamilyOf[d.id] = FamilyOf[c.id] }

\* count_research_trials.
\* Mutant: a strategy's own configurations only.
OwnTrials(entries, c) == Cardinality({ d \in entries : d.id = c.id })

Trials(entries, c) == Cardinality(entries \cap Family(c))

Recorded(c) == ledger \cup {c}

Record(p) ==
  /\ runs[p].pc = "computed"
  /\ ledger' = Recorded(runs[p].config)
  /\ Become(p, [ runs[p] EXCEPT !.pc = "recorded" ])
  /\ UNCHANGED << universe, gates, begun, verdicts >>

CountTrials(p) ==
  /\ runs[p].pc = "recorded"
  /\ Become(p, [ runs[p] EXCEPT !.pc = "counted", !.trials = Trials(ledger, runs[p].config) ])
  /\ UNCHANGED << universe, gates, ledger, begun, verdicts >>

\* The row of run_fingerprints: nothing in this module reads it back.
PersistFingerprint(p) ==
  /\ runs[p].pc = "counted"
  /\ Become(p, [ runs[p] EXCEPT !.pc = "persisted", !.trials = 0 ])
  /\ UNCHANGED << universe, gates, ledger, begun, verdicts >>

\* evaluate_verdict.
Judge(v, q, covers, gate) ==
  IF IsDiagnostic(v) \/ ~covers \/ gate = None THEN "INVALID"
  ELSE IF q < gate THEN "REJECTED" ELSE "RESEARCH_PASS"

\* The gate is read at the very end, and what the run came to is looked at
\* nowhere before: its quality, and whether its window covers 2022.
GiveVerdict(p) ==
  LET run == runs[p]
      gate == gates[GateKey(run.config)]
  IN /\ run.pc = "persisted"
     /\ \E q \in Qualities, covers \in BOOLEAN :
          verdicts' = verdicts \cup
            { [ config |-> run.config, version |-> run.version, quality |-> q, gate |-> gate,
                verdict |-> Judge(run.version, q, covers, gate) ] }
     /\ Become(p, NoRun)
     /\ UNCHANGED << universe, gates, ledger, begun >>

DieInRun(p) ==
  /\ runs[p].pc # "idle"
  /\ Become(p, NoRun)
  /\ UNCHANGED << universe, gates, ledger, begun, verdicts >>

----------------------------------------------------------------------------

Next ==
  \/ UniverseNext /\ UNCHANGED research
  \/ \E k \in GateKeys, q \in Qualities : RegisterGate(k, q)
  \/ \E p \in Researchers :
       \/ \E c \in Configs, v \in Versions \cup {None} : StartRun(p, c, v)
       \/ Record(p) \/ CountTrials(p) \/ PersistFingerprint(p) \/ GiveVerdict(p) \/ DieInRun(p)

Spec == Init /\ [][Next]_vars

----------------------------------------------------------------------------
(* Properties.                                                              *)

\* Configurations somebody has a result of.
Seen == { u.config : u \in verdicts }

\* The trials a run is deflated by include every configuration of its family
\* that anybody has seen a result of, whatever ran or died meanwhile
\* (backtest.py:343-351, research_ledger.py:38-49).
TrialsNeverUnderstated ==
  [][ \A p \in Researchers :
        runs[p].pc = "recorded" /\ runs'[p].pc = "counted" =>
          runs'[p].trials >= Cardinality((Seen \cup {runs[p].config}) \cap Family(runs[p].config)) ]_vars

\* Two judgements of one version of a strategy used the same thresholds, so
\* that no run passes where a better one was rejected (verdict.py:43-60).
VerdictsStand ==
  \A u, w \in { x \in verdicts : x.verdict # "INVALID" } :
    GateKey(u.config) = GateKey(w.config) =>
      /\ u.gate = w.gate
      /\ u.verdict = "RESEARCH_PASS" /\ w.quality >= u.quality => w.verdict = "RESEARCH_PASS"

\* A run passes only on symbols that were ranked from the data: nobody in its
\* version came from a list picked by hand, also when policies were built and
\* seeded while it ran (fingerprint.py:94-100, universe_policy.py:44,
\* liquidity_universe.py:68, verdict.py:66-75).
PassIsPointInTime ==
  \A u \in verdicts :
    u.verdict = "RESEARCH_PASS" =>
      /\ u.version # None /\ u.gate # None
      /\ \A r \in policy[u.version] : r.reason = "LIQUIDITY"
==============================================================================
