------------------------- MODULE MCOrderSubmission --------------------------
(* Instances of OrderSubmission.                                           *)
EXTENDS OrderSubmission, TLC

CONSTANTS c1, v1, small, large

MCClientIds == {c1}
MCKeys == {c1, v1}
MCVenueId == c1 :> v1
MCPayloads == {small, large}
MCQuantity == (small :> 1) @@ (large :> 2)
CallerSymmetry == Permutations(Callers)
MCSmallOnly == {small}
MCSmallQuantity == small :> 1
=============================================================================
