-------------------------- MODULE MCIdeaExecution ---------------------------
(* Instances of IdeaExecution: a position with two ideas that reduce it,    *)
(* under two executors, operators and a crash; or positions alone, for the  *)
(* liveness of the cycle.                                                   *)
EXTENDS IdeaExecution, TLC

CONSTANTS o1, o2, r1, r2

MCTarget == r1 :> o1 @@ r2 :> o1
\* A position of two: one idea takes half of it, the other whatever is left.
MCQuantity == o1 :> 2 @@ r1 :> 1 @@ r2 :> None
MCNoTarget == [d \in {} |-> o1]
MCUnits == o1 :> 1 @@ o2 :> 1
=============================================================================
