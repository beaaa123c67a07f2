---------------------------- MODULE MCTradeIdeas ----------------------------
(* Instances of TradeIdeas with one event lane, a wide and a tight budget:  *)
(* two ideas, or one whose record can be revised.                           *)
EXTENDS TradeIdeas, Sequences, TLC

CONSTANTS d1, d2

MCRevisions == <<[risk |-> 1, notional |-> 1, eligible |-> TRUE]>>
MCTwoRevisions == MCRevisions \o <<[risk |-> 2, notional |-> 1, eligible |-> TRUE]>>
MCBudgets == {[perIdea |-> 1, daily |-> 2, notional |-> 2, slots |-> 2, drawdown |-> None],
              [perIdea |-> 1, daily |-> 1, notional |-> 1, slots |-> 1, drawdown |-> 0]}
MCIdeas == {d1, d2}
Symmetric == Permutations(MCIdeas)
=============================================================================
