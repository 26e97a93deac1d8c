----------------------------- MODULE MCApprovals -----------------------------
(***************************************************************************)
(* Two strategies, three approvals, two of them for one strategy, one of   *)
(* these revoked, and a legacy pointer to the third; two terminals with    *)
(* three commands between them; three days, in which one approval begins   *)
(* and one ends.                                                           *)
(***************************************************************************)
EXTENDS Approvals

CONSTANTS breakout, rider, first, renewed, other

MCStrategies == { breakout, rider }
MCIds == { first, renewed, other }
MCStrategyOf == [ a \in MCIds |-> IF a = other THEN rider ELSE breakout ]
MCFrom == [ a \in MCIds |-> IF a = other THEN 2 ELSE 0 ]
MCUntil == [ a \in MCIds |-> IF a = first THEN 3 ELSE 6 ]
MCModes == [ a \in MCIds |-> IF a = renewed THEN {"backtest"} ELSE {"backtest", "simulation"} ]
==============================================================================
