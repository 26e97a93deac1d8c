----------------------------- MODULE MCResearch -----------------------------
(***************************************************************************)
(* Two months of two days, three symbols, rankings of one, built over the  *)
(* first month or over both, and built again; a strategy with two          *)
(* parameter sets and a challenger of its family; two researchers with two *)
(* runs between them.                                                      *)
(***************************************************************************)
EXTENDS Research, TLC

CONSTANTS s1, s2, s3, liquid, fixedlist, r1, r2

Alike == Permutations(Researchers)

MCMonthOf == << 1, 1, 2, 2 >>
MCOrder == [ s \in { s1, s2, s3 } |-> IF s = s1 THEN 1 ELSE IF s = s2 THEN 2 ELSE 3 ]
MCWindows == { << 1, 2 >>, << 1, 4 >> }
MCTable ==
  [ s \in { s1, s2, s3 } |-> CASE s = s1 -> << 2, 2, 1, 1 >>
                               [] s = s2 -> << 1, 1, 3, 3 >>
                               [] s = s3 -> << 0, 3, 2, 0 >> ]

Config(i, n) == [ id |-> i, version |-> 1, params |-> n ]
MCConfigs == { Config("breakout", 1), Config("breakout", 2), Config("shadow", 1) }
MCFamilyOf == [ i \in { "breakout", "shadow" } |-> "breakout" ]
==============================================================================
