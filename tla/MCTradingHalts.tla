--------------------------- MODULE MCTradingHalts ---------------------------
(* Instances of TradingHalts: one symbol, under its own and under global    *)
(* pauses, with a clock, a change of day and restarts, or with the faults   *)
(* of the state file.                                                       *)
EXTENDS TradingHalts, TLC

CONSTANT s1

MCSymbols == {s1}
=============================================================================
