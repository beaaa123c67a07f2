--------------------------- MODULE PositionLedger ---------------------------
(***************************************************************************)
(* What the paper ledger promises of a position, whoever executes, closes, *)
(* crashes or retries: it is opened once, only ever reduced, never by more *)
(* than it was opened with, and settled once.  It is settled untouched, as *)
(* a whole, or when its reductions add up to all of it, and nothing is     *)
(* booked on it afterwards.                                                *)
(***************************************************************************)
EXTENDS Naturals

CONSTANTS Positions, Size

VARIABLES
    opened,     \* has the entry been filled?
    booked,     \* the quantity its reductions have closed
    settled     \* does it have its final closeout?

ledgerVars == <<opened, booked, settled>>

Init ==
    /\ opened = [p \in Positions |-> FALSE]
    /\ booked = [p \in Positions |-> 0]
    /\ settled = [p \in Positions |-> FALSE]

Open(p) ==
    /\ ~opened[p]
    /\ opened' = [opened EXCEPT ![p] = TRUE]
    /\ UNCHANGED <<booked, settled>>

Reduce(p) ==
    /\ opened[p] /\ ~settled[p]
    /\ booked' \in {[booked EXCEPT ![p] = q] : q \in (booked[p] + 1)..Size[p]}
    /\ UNCHANGED <<opened, settled>>

Settle(p) ==
    /\ opened[p] /\ ~settled[p]
    /\ settled' = [settled EXCEPT ![p] = TRUE]
    /\ \/ booked[p] = 0 /\ UNCHANGED booked
       \/ booked' = [booked EXCEPT ![p] = Size[p]]
    /\ UNCHANGED opened

Next == \E p \in Positions : Open(p) \/ Reduce(p) \/ Settle(p)

Spec == Init /\ [][Next]_ledgerVars
=============================================================================
