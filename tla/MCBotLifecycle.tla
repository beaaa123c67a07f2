--------------------------- MODULE MCBotLifecycle ---------------------------
(* Instances of BotLifecycle: the trading loop, one task with a stop hook,   *)
(* and one call each of run(), stop() and flatten_and_stop().                *)
EXTENDS BotLifecycle, TLC

CONSTANTS s1, s2

MCSymbols == {s1}
MCTwoSymbols == {s1, s2}
=============================================================================
