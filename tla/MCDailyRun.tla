----------------------------- MODULE MCDailyRun -----------------------------
(***************************************************************************)
(* DailyRun on two days and two accounts: sim trades automatically and has *)
(* retired the strategy pullback, of which it still holds u; cathay trades *)
(* by hand.  u, which both hold, is stopped out on day 1.  The bar of w,   *)
(* which day 1 picks, is late on day 2; that of the index on day 1.  w is  *)
(* in the universe of sim only, and not among the symbols of the settings. *)
(***************************************************************************)
EXTENDS DailyRun

MCAccounts == {"cathay", "sim"}
MCSymbols  == {"u", "v", "w"}
MCUniverse == [ a \in MCAccounts |-> IF a = "sim" THEN {"u", "v", "w"} ELSE {"u", "v"} ]
MCFixedUniverse == {"u", "v"}
MCAuto     == {"sim"}
MCExitStrategies == << "pullback", "trend" >>

MCPipeline ==
  [ a \in MCAccounts |-> IF a = "sim" THEN << "trend" >> ELSE << "trend", "pullback" >> ]

MCOpening == [ a \in MCAccounts |-> {<< "pullback", "u" >>} ]

MCPicks ==
  { << 1, "trend", "u" >>, << 1, "trend", "v" >>, << 1, "pullback", "v" >>, << 1, "trend", "w" >> }
MCStops == { << 1, "u" >> }
MCLate  == { << 1, INDEX >>, << 2, "w" >> }

MCManualTrades ==
  { [ account |-> "cathay", side |-> "SELL", bucket |-> << "pullback", "u" >> ],
    [ account |-> "cathay", side |-> "BUY", bucket |-> << "trend", "v" >> ] }

(* The account sim alone, with the bar of v late on day 2 as well. *)
SimOnly     == {"sim"}
SimUniverse == [ a \in SimOnly |-> MCUniverse[a] ]
SimPipeline == [ a \in SimOnly |-> MCPipeline[a] ]
SimOpening  == [ a \in SimOnly |-> MCOpening[a] ]
SimLate     == MCLate \cup {<< 2, "v" >>}
SimTrades ==
  { [ account |-> "sim", side |-> "SELL", bucket |-> << "pullback", "u" >> ],
    [ account |-> "sim", side |-> "BUY", bucket |-> << "trend", "v" >> ] }
=============================================================================
