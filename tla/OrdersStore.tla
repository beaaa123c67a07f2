---------------------------- MODULE OrdersStore ----------------------------
(***************************************************************************)
(* The durable order table of gpt_trader: persistence/orders_store.py over *)
(* SQLite, with the receipt rules of core/order_intent.py.  One row per    *)
(* client order id; every write is one BEGIN IMMEDIATE transaction, so one *)
(* action here is one committed (or refused) transaction.                  *)
(*                                                                         *)
(* A row keeps its order_id column (oid), status, filled quantity, the     *)
(* payload its columns describe (symbol, side, type and quantity as one    *)
(* value) and whether its metadata carries the admitted OrderIntent.       *)
(* Prices and timestamps are left out, and so are checksums: a row whose   *)
(* checksum fails makes every operation raise, like an unavailable store.  *)
(***************************************************************************)
EXTENDS Naturals, FiniteSets

CONSTANTS
    Keys,           \* order identifiers, the client's and the venue's: one namespace of strings
    Payloads,       \* what an order asks for
    Quantity,       \* Quantity[p]: the quantity payload p asks for
    MaxFilled,      \* bound on the fill quantities that receipts report
    NoRow,          \* "no such row"
    EchoesClientId  \* does every receipt about an order name that order's client id?

VARIABLE orders     \* the table, by client_order_id

(***************************************************************************)
(* OrderStatus.  FAILED "is an internal uncertainty, not proof that no     *)
(* execution occurred", hence not among the venue's terminal statuses.     *)
(***************************************************************************)
PendingStatuses == {"PENDING", "OPEN", "PARTIALLY_FILLED"}
VenueTerminal == {"FILLED", "CANCELLED", "EXPIRED", "REJECTED"}
Statuses == PendingStatuses \cup VenueTerminal \cup {"FAILED"}

\* What a writer knows of an order: a broker receipt, an event, a REST order.
Receipts == [oid: Keys, status: Statuses, filled: 0..MaxFilled, pay: Payloads]

Rows == [oid: Keys, status: Statuses, filled: 0..MaxFilled, pay: Payloads,
         intent: BOOLEAN]

ASSUME QuantityAssumption == Quantity \in [Payloads -> Nat \ {0}]
ASSUME BoundAssumption ==
    MaxFilled \in Nat /\ \A p \in Payloads : Quantity[p] <= MaxFilled
ASSUME NoRowAssumption == NoRow \notin Rows
ASSUME EchoAssumption == EchoesClientId \in BOOLEAN

RowOf(r, admitted) ==
    [oid |-> r.oid, status |-> r.status, filled |-> r.filled, pay |-> r.pay,
     intent |-> admitted]

\* The keys of the rows whose order_id column is o (the column is UNIQUE).
Holders(t, o) == {k \in Keys : t[k] # NoRow /\ t[k].oid = o}

-----------------------------------------------------------------------------
(* OrderIntent.validate_receipt and OrdersStore._preserve_intent.          *)

AgreesWithIntent(p, r) ==
    /\ r.pay = p
    /\ r.filled <= Quantity[p]
    /\ r.status = "FILLED" => r.filled = Quantity[p]

SameReceipt(old, r) ==
    /\ r.status = old.status
    /\ r.oid = old.oid
    /\ r.pay = old.pay
    /\ r.filled = old.filled

\* Mutated form: a receipt may take fills back.
CanPreserveFillsShrink(old, r) ==
    /\ old.intent => AgreesWithIntent(old.pay, r)
    /\ old.status \in VenueTerminal => SameReceipt(old, r)

CanPreserve(old, r) ==
    /\ old.intent => AgreesWithIntent(old.pay, r)
    /\ r.filled >= old.filled
    /\ old.status \in VenueTerminal => SameReceipt(old, r)

(***************************************************************************)
(* upsert_by_client_id: UPDATE the client id's row, refused when the       *)
(* receipt conflicts or when its order_id belongs to another row (UNIQUE); *)
(* without such a row INSERT OR REPLACE, which deletes the row of any      *)
(* other client id that holds the same order_id.                           *)
(***************************************************************************)
CanUpsert(t, k, r) ==
    t[k] # NoRow => CanPreserve(t[k], r) /\ Holders(t, r.oid) \subseteq {k}

\* Mutated form: INSERT where the code has INSERT OR REPLACE, with no UNIQUE column.
UpsertedInPlace(t, k, r) ==
    [t EXCEPT ![k] = RowOf(r, t[k] # NoRow /\ t[k].intent)]

Upserted(t, k, r) ==
    [j \in Keys |->
        IF j = k THEN RowOf(r, t[k] # NoRow /\ t[k].intent)
        ELSE IF j \in Holders(t, r.oid) THEN NoRow
        ELSE t[j]]

\* reserve_submission: the row of a client id that nobody has reserved yet.
CanReserve(t, k) == t[k] = NoRow /\ Holders(t, k) = {}

Reserved(t, k, p) ==
    [t EXCEPT ![k] = [oid |-> k, status |-> "PENDING", filled |-> 0, pay |-> p,
                      intent |-> TRUE]]

-----------------------------------------------------------------------------
(* The operations of the store, each one transaction.                      *)

StoreInit == orders = [k \in Keys |-> NoRow]

ReserveSubmission(k, p) ==
    /\ CanReserve(orders, k)
    /\ orders' = Reserved(orders, k, p)

UpsertByClientId(k, r) ==
    /\ EchoesClientId => Holders(orders, r.oid) \subseteq {k}
    /\ CanUpsert(orders, k, r)
    /\ orders' = Upserted(orders, k, r)

UpdateStatus(o, s, f) ==
    \E k \in Holders(orders, o) :
        LET r == [orders[k] EXCEPT !.status = s, !.filled = f]
        IN  /\ CanPreserve(orders[k], r)
            /\ orders' = [orders EXCEPT ![k] = r]

\* Mutated form: removes whatever is old.
CleanupAnyOldOrders(old) ==
    /\ \A k \in old : orders[k] # NoRow
    /\ orders' = [k \in Keys |-> IF k \in old THEN NoRow ELSE orders[k]]

\* Which terminal rows are old enough is left open.
CleanupOldOrders(old) ==
    /\ \A k \in old : orders[k] # NoRow /\ orders[k].status \notin PendingStatuses
    /\ orders' = [k \in Keys |-> IF k \in old THEN NoRow ELSE orders[k]]

StoreNext ==
    \/ \E k \in Keys, p \in Payloads : ReserveSubmission(k, p)
    \/ \E k \in Keys, r \in Receipts : UpsertByClientId(k, r)
    \/ \E o \in Keys, s \in Statuses, f \in 0..MaxFilled : UpdateStatus(o, s, f)
    \/ \E old \in SUBSET Keys : CleanupOldOrders(old)

StoreSpec == StoreInit /\ [][StoreNext]_orders

-----------------------------------------------------------------------------
(* Properties.                                                             *)

StoreTypeOK == orders \in [Keys -> Rows \cup {NoRow}]

\* No two rows share an order_id, whatever the order in which reservations
\* (which use the client id as order_id), acknowledgments and events arrive.
OrderIdsUnique ==
    \A o \in Keys : \A j, k \in Holders(orders, o) : j = k

\* A row that carries an admitted intent never reports more than was admitted,
\* and FILLED means filled to the admitted quantity.
AdmittedReceipts ==
    \A k \in Keys :
        orders[k] # NoRow /\ orders[k].intent =>
            AgreesWithIntent(orders[k].pay, orders[k])

\* "Conflicting or decreasing fill observations are refused": as long as a row
\* exists its fills only grow, a venue-terminal receipt never changes, and an
\* admitted intent is neither dropped nor given another payload.
ReceiptsOnlyGrow ==
    [][\A k \in Keys :
        orders[k] # NoRow /\ orders'[k] # NoRow =>
            /\ orders'[k].filled >= orders[k].filled
            /\ orders[k].status \in VenueTerminal => orders'[k] = orders[k]
            /\ orders[k].intent =>
                   orders'[k].intent /\ orders'[k].pay = orders[k].pay]_orders

\* A reservation "survives uncertainty": a row that is still pending is not
\* removed, neither by the cleanup nor by another order's receipt.  Only a
\* receipt that does not name the client id can replace it, and then takes over
\* its order_id.
ReservationsSurvive ==
    [][\A k \in Keys :
        orders[k] # NoRow /\ orders[k].status \in PendingStatuses =>
            \/ orders'[k] # NoRow
            \/ /\ ~EchoesClientId
               /\ \E j \in Keys : orders'[j] # NoRow /\ orders'[j].oid = orders[k].oid]_orders
=============================================================================
