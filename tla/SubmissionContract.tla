------------------------- MODULE SubmissionContract -------------------------
(***************************************************************************)
(* What durable submission promises, without its mechanism: the first      *)
(* request for a client id is admitted once, for good; an order is placed  *)
(* only for an admitted request, exactly as admitted, and at most once.    *)
(* (docs/paper_trading.md, "The direct strategy submitter"; the docstring  *)
(* of OrdersStore.reserve_submission.)                                     *)
(***************************************************************************)
CONSTANTS ClientIds, Payloads, Nothing

VARIABLES
    admitted,   \* the payload each client id was admitted with, or Nothing
    placed      \* the payload of the order the venue has for it, or Nothing

ContractInit ==
    /\ admitted = [c \in ClientIds |-> Nothing]
    /\ placed = [c \in ClientIds |-> Nothing]

Admit(c, p) ==
    /\ admitted[c] = Nothing
    /\ admitted' = [admitted EXCEPT ![c] = p]
    /\ UNCHANGED placed

Place(c) ==
    /\ admitted[c] # Nothing
    /\ placed[c] = Nothing
    /\ placed' = [placed EXCEPT ![c] = admitted[c]]
    /\ UNCHANGED admitted

ContractNext ==
    \E c \in ClientIds : (\E p \in Payloads : Admit(c, p)) \/ Place(c)

ContractSpec == ContractInit /\ [][ContractNext]_<<admitted, placed>>
=============================================================================
