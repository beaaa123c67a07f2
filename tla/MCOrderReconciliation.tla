----------------------- MODULE MCOrderReconciliation ------------------------
(* Instances of OrderReconciliation: one order, which may fill in one or in *)
(* two parts, one submitting thread, the audit, the events and the guards.  *)
EXTENDS OrderReconciliation, TLC

CONSTANTS c1, v1, small, large

MCClientIds == {c1}
MCKeys == {c1, v1}
MCVenueId == c1 :> v1
MCSmall == {small}
MCSmallQuantity == small :> 1
MCLarge == {large}
MCLargeQuantity == large :> 2
=============================================================================
