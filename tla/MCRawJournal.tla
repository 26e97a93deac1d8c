---------------------------- MODULE MCRawJournal ----------------------------
(***************************************************************************)
(* Three sessions of the collector, three compressions and three faults on *)
(* one raw file: a record can be torn in one session and joined in the     *)
(* next, a run can die at any step and another one meet what it left.      *)
(***************************************************************************)
EXTENDS RawJournal
=============================================================================
