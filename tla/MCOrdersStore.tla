---------------------------- MODULE MCOrdersStore ---------------------------
(* A small instance of OrdersStore: every interaction between rows is       *)
(* between two of them, so two identifiers are enough (either may occur as  *)
(* client id and as order id), with payloads of two different quantities.   *)
EXTENDS OrdersStore, TLC

CONSTANTS id1, id2, small, large

MCKeys == {id1, id2}
MCPayloads == {small, large}
MCQuantity == (small :> 1) @@ (large :> 2)
=============================================================================
