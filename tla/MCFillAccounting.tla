-------------------------- MODULE MCFillAccounting --------------------------
(* Instances of FillAccounting: an account that holds one unit; an own sell *)
(* order that can turn it short in two executions at different prices, and  *)
(* somebody else's buy order.                                               *)
EXTENDS FillAccounting

CONSTANTS c1, c2, v1, v2

MCKeys == {c1, c2, v1, v2}
MCClient == (v1 :> c1) @@ (v2 :> c2)
MCSide == (v1 :> "sell") @@ (v2 :> "buy")
MCPlan ==
    (v1 :> <<[size |-> 1, price |-> 12], [size |-> 1, price |-> 24]>>)
    @@ (v2 :> <<[size |-> 1, price |-> 36]>>)
MCOpening == [quantity |-> 1, entry |-> 12, realized |-> 0]
MCPayloads == [side: {"buy", "sell"}, quantity: 1..MaxFilled]
MCQuantity == [p \in MCPayloads |-> p.quantity]
=============================================================================
