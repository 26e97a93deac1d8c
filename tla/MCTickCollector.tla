-------------------------- MODULE MCTickCollector --------------------------
(***************************************************************************)
(* TickCollector with the Tick and the BidAsk topic of one symbol.         *)
(***************************************************************************)
EXTENDS TickCollector

MCCodes == { "up", "down", "reconnected" }
=============================================================================
