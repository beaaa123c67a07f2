------------------------ MODULE OrderReconciliation ------------------------
(***************************************************************************)
(* What keeps the order table and the engine's open_orders list in step    *)
(* with the venue while orders are being submitted: the audit of every     *)
(* trading cycle (engines/order_audit.py, engines/order_reconciliation.py),*)
(* the user-event handler with its REST backfill                           *)
(* (coinbase/user_event_handler.py) and the guard manager's cancel-all.    *)
(*                                                                         *)
(* The audit is a chain of awaits; each one is a step here, and the audit  *)
(* works on what it read at earlier steps (listing, tracked ids, pending   *)
(* rows) while submissions, events, the venue and the guards move on.      *)
(* Events and REST orders may be lost, repeated, late and out of order: a  *)
(* handler sees any state the venue's order has or may have had.  Every    *)
(* message about an order names its client id (EchoesClientId = TRUE).     *)
(***************************************************************************)
EXTENDS OrderSubmission

CONSTANTS
    DriftMax,       \* ORDER_RECONCILIATION_DRIFT_MAX_FAILURES
    NoAnswer        \* "get_order is not being waited for"

VARIABLES
    audit,          \* where the audit is, and what it has read
    drift,          \* _drift_failures
    escalated,      \* _drift_escalated
    sweep           \* order ids cancel_all_orders has still to cancel

reconVars == <<vars, audit, drift, escalated, sweep>>

ASSUME DriftAssumption == DriftMax \in Nat \ {0}
ASSUME AnswerAssumption == NoAnswer \notin [cid: ClientIds, order: VenueOrders]

Listings == [ClientIds -> VenueOrders \cup {NoOrder}]
AuditSteps == {"idle", "track", "load", "empty", "refresh", "normalize", "missing",
               "recover", "cancel"}
Audits == [pc: AuditSteps, listing: Listings, tracked: SUBSET Keys,
           pending: [ClientIds -> Rows \cup {NoRow}], todo: SUBSET ClientIds,
           answer: [cid: ClientIds, order: VenueOrders] \cup {NoAnswer},
           unknown: SUBSET ClientIds]

NothingListed == [c \in ClientIds |-> NoOrder]
IdleAudit == [pc |-> "idle", listing |-> NothingListed, tracked |-> {},
              pending |-> [c \in ClientIds |-> NoRow], todo |-> {},
              answer |-> NoAnswer, unknown |-> {}]

ReconInit ==
    /\ Init
    /\ audit = IdleAudit
    /\ drift = 0
    /\ escalated = FALSE
    /\ sweep = {}

Live(c) == venue[c] # NoOrder /\ venue[c].status \in PendingStatuses

\* Orders the venue lists under order_status = "OPEN": PENDING ones are not.
ListedOpen(c) == venue[c] # NoOrder /\ venue[c].status \in {"OPEN", "PARTIALLY_FILLED"}

PendingRow(c) == orders[c] # NoRow /\ orders[c].status \in PendingStatuses

Cancelled(c) == [venue[c] EXCEPT !.status = "CANCELLED"]

-----------------------------------------------------------------------------
(* The audit: audit_orders and reconcile_open_orders.                       *)

\* A listing that fails ends the audit (audit_orders logs the exception).
LoadOpenOrders ==
    /\ audit.pc = "idle"
    /\ audit' = [IdleAudit EXCEPT
          !.pc = "track",
          !.listing = [c \in ClientIds |-> IF ListedOpen(c) THEN venue[c] ELSE NoOrder]]
    /\ UNCHANGED <<vars, drift, escalated, sweep>>

TrackOpenOrders ==
    /\ audit.pc = "track"
    /\ audit' = [audit EXCEPT !.pc = "load", !.tracked = openOrders]
    /\ UNCHANGED <<vars, drift, escalated, sweep>>

\* Rows still filed under their client id, for orders listed with a venue id.
ToNormalize(a) ==
    {c \in ClientIds : a.listing[c] # NoOrder /\ a.pending[c] # NoRow /\ a.pending[c].oid = c}

\* Mutated form: an empty listing is taken to mean that nothing is open.
DispatchEmpty(a) ==
    IF a.listing # NothingListed
    THEN [a EXCEPT !.pc = "normalize", !.todo = ToNormalize(a)]
    ELSE [a EXCEPT !.pc = "empty"]

\* Where the audit goes once it knows the pending rows and the listing.
Dispatch(a) ==
    LET waiting == {c \in ClientIds : a.pending[c] # NoRow}
    IN  IF a.listing # NothingListed
        THEN [a EXCEPT !.pc = "normalize", !.todo = ToNormalize(a)]
        ELSE IF waiting # {} THEN [a EXCEPT !.pc = "refresh", !.todo = waiting]
        ELSE [a EXCEPT !.pc = "empty"]

\* get_pending_orders; when it raises the audit goes on without pending rows.
LoadPending ==
    /\ audit.pc = "load"
    /\ \E ok \in {TRUE, ~StoreFails} :
          LET rows == [c \in ClientIds |-> IF ok /\ PendingRow(c) THEN orders[c] ELSE NoRow]
              ids == {c \in ClientIds : rows[c] # NoRow}
          IN  audit' = Dispatch([audit EXCEPT
                  !.pending = rows,
                  !.tracked = @ \cup ids \cup {rows[c].oid : c \in ids}])
    /\ UNCHANGED <<vars, drift, escalated, sweep>>

\* Mutated form: the tracked ids are kept.
KeepOpenOrders ==
    /\ audit.pc = "empty"
    /\ drift' = 0
    /\ escalated' = FALSE
    /\ audit' = IdleAudit
    /\ UNCHANGED <<vars, sweep>>

\* Nothing at the venue, nothing pending: the tracked ids are dropped.
ClearOpenOrders ==
    /\ audit.pc = "empty"
    /\ openOrders' = {}
    /\ drift' = 0
    /\ escalated' = FALSE
    /\ audit' = IdleAudit
    /\ UNCHANGED <<orders, venue, late, call, claims, sweep>>

\* refresh_missing_persisted_orders, one record: get_order finds the order only
\* by the venue's id, so a row still filed under its client id is passed over;
\* a lookup that raises is passed over too.
GetOrder(c) ==
    /\ audit.pc \in {"refresh", "missing"}
    /\ audit.answer = NoAnswer
    /\ c \in audit.todo
    /\ \/ /\ audit.pending[c].oid = VenueId[c]
          /\ audit' = [audit EXCEPT !.answer = [cid |-> c, order |-> venue[c]],
                                    !.todo = @ \ {c}]
       \/ audit' = [audit EXCEPT !.todo = @ \ {c}]
    /\ UNCHANGED <<vars, drift, escalated, sweep>>

\* Mutated form: takes over the status but keeps the fills of the stale row.
RefreshRecordStaleFills(c, old, order) ==
    [oid |-> VenueId[c], status |-> order.status, filled |-> old.filled, pay |-> order.pay]

RefreshRecord(c, old, order) ==
    [oid |-> VenueId[c], status |-> order.status,
     filled |-> IF order.filled # 0 THEN order.filled ELSE old.filled, pay |-> order.pay]

RefreshPersist ==
    /\ audit.answer # NoAnswer
    /\ LET c == audit.answer.cid
           order == audit.answer.order
           r == RefreshRecord(c, audit.pending[c], order)
           open == order.status \in PendingStatuses
       IN  \/ /\ CanUpsert(orders, c, r)
              /\ orders' = Upserted(orders, c, r)
              /\ openOrders' = IF open THEN openOrders \cup {VenueId[c]}
                               ELSE openOrders \ {audit.pending[c].oid, c, VenueId[c]}
              /\ audit' = [audit EXCEPT !.answer = NoAnswer,
                              !.listing[c] = IF open THEN order ELSE @]
           \/ /\ ~CanUpsert(orders, c, r) \/ StoreFails
              /\ audit' = [audit EXCEPT !.answer = NoAnswer]
              /\ UNCHANGED <<orders, openOrders>>
    /\ UNCHANGED <<venue, late, call, claims, drift, escalated, sweep>>

\* The listing was empty: either refreshed orders take its place, or the audit
\* is over.  Tracked ids are kept, since there are pending rows.
RefreshDone ==
    /\ audit.pc = "refresh" /\ audit.todo = {} /\ audit.answer = NoAnswer
    /\ \/ /\ audit.listing # NothingListed
          /\ audit' = [audit EXCEPT !.pc = "normalize", !.todo = ToNormalize(audit)]
          /\ UNCHANGED <<drift, escalated>>
       \/ /\ audit.listing = NothingListed
          /\ audit' = IdleAudit
          /\ drift' = 0 /\ escalated' = FALSE
    /\ UNCHANGED <<vars, sweep>>

NormalizeRecord(c, old) ==
    [oid |-> VenueId[c], status |-> "OPEN", filled |-> old.filled, pay |-> old.pay]

NormalizeOrderId(c) ==
    /\ audit.pc = "normalize"
    /\ c \in audit.todo
    /\ LET r == NormalizeRecord(c, audit.pending[c])
       IN  \/ CanUpsert(orders, c, r) /\ orders' = Upserted(orders, c, r)
           \/ (~CanUpsert(orders, c, r) \/ StoreFails) /\ UNCHANGED orders
    /\ audit' = [audit EXCEPT !.todo = @ \ {c}]
    /\ UNCHANGED <<venue, late, call, openOrders, claims, drift, escalated, sweep>>

FindMissing ==
    /\ audit.pc = "normalize" /\ audit.todo = {}
    /\ audit' = [audit EXCEPT
          !.pc = "missing",
          !.todo = {c \in ClientIds : audit.pending[c] # NoRow /\ audit.listing[c] = NoOrder}]
    /\ UNCHANGED <<vars, drift, escalated, sweep>>

\* open_orders becomes the venue ids of the listed orders it named, under
\* either id; bot orders nobody tracks go to recovery.
RebuildOpenOrders ==
    LET listed == {c \in ClientIds : audit.listing[c] # NoOrder}
        unknown == {c \in listed : {c, VenueId[c]} \cap audit.tracked = {}}
    IN  /\ audit.pc = "missing" /\ audit.todo = {} /\ audit.answer = NoAnswer
        /\ openOrders' = {VenueId[c] : c \in
                             {d \in listed : {d, VenueId[d]} \cap openOrders # {}}}
        /\ audit' = [audit EXCEPT !.pc = "recover", !.todo = unknown, !.unknown = unknown]
        /\ UNCHANGED <<orders, venue, late, call, claims, drift, escalated, sweep>>

\* Mutated forms: counts an order as recovered although the write was refused;
\* recovers only orders that have no row at all.
RecoverUnknownOrderAnyway(c) ==
    /\ audit.pc = "recover"
    /\ c \in audit.todo
    /\ audit' = [audit EXCEPT !.todo = @ \ {c}, !.unknown = @ \ {c}]
    /\ UNCHANGED <<vars, drift, escalated, sweep>>

RecoverUnknownOrderInsertOnly(c) ==
    /\ audit.pc = "recover"
    /\ c \in audit.todo
    /\ orders[c] # NoRow
    /\ audit' = [audit EXCEPT !.todo = @ \ {c}]
    /\ UNCHANGED <<vars, drift, escalated, sweep>>

\* recover_unknown_bot_orders, one order; a refused or failed write leaves it unknown.
RecoverUnknownOrder(c) ==
    /\ audit.pc = "recover"
    /\ c \in audit.todo
    /\ LET order == audit.listing[c]
           r == [oid |-> VenueId[c], status |-> order.status, filled |-> order.filled,
                 pay |-> order.pay]
       IN  \/ /\ CanUpsert(orders, c, r)
              /\ orders' = Upserted(orders, c, r)
              /\ openOrders' = openOrders \cup {VenueId[c]}
              /\ audit' = [audit EXCEPT !.todo = @ \ {c}, !.unknown = @ \ {c}]
           \/ /\ ~CanUpsert(orders, c, r) \/ StoreFails
              /\ audit' = [audit EXCEPT !.todo = @ \ {c}]
              /\ UNCHANGED <<orders, openOrders>>
    /\ UNCHANGED <<venue, late, call, claims, drift, escalated, sweep>>

RecoveryDone == audit.pc = "recover" /\ audit.todo = {}

NoDrift ==
    /\ RecoveryDone /\ audit.unknown = {}
    /\ drift' = 0 /\ escalated' = FALSE
    /\ audit' = IdleAudit
    /\ UNCHANGED <<vars, sweep>>

CountDrift ==
    /\ RecoveryDone /\ audit.unknown # {}
    /\ escalated \/ drift + 1 < DriftMax
    /\ drift' = IF escalated THEN drift ELSE drift + 1
    /\ audit' = IdleAudit
    /\ UNCHANGED <<vars, escalated, sweep>>

\* handle_order_reconciliation_drift: the unknown orders are cancelled one by
\* one.  (It also sets reduce-only mode and pauses: that is TradingHalts.)
EscalateDrift ==
    /\ RecoveryDone /\ audit.unknown # {}
    /\ ~escalated /\ drift + 1 >= DriftMax
    /\ drift' = drift + 1
    /\ escalated' = TRUE
    /\ audit' = [audit EXCEPT !.pc = "cancel", !.todo = audit.unknown]
    /\ UNCHANGED <<vars, sweep>>

CancelDriftedOrder(c) ==
    /\ audit.pc = "cancel"
    /\ c \in audit.todo
    /\ venue' \in {venue} \cup
                  (IF Live(c) THEN {[venue EXCEPT ![c] = Cancelled(c)]} ELSE {})
    /\ audit' = [audit EXCEPT !.todo = @ \ {c}]
    /\ UNCHANGED <<orders, late, call, openOrders, claims, drift, escalated, sweep>>

DriftHandled ==
    /\ audit.pc = "cancel" /\ audit.todo = {}
    /\ audit' = IdleAudit
    /\ UNCHANGED <<vars, drift, escalated, sweep>>

-----------------------------------------------------------------------------
(* User events and the REST backfill.                                      *)

\* The states the venue's order is in or may have been in.
SeenStates(c) ==
    IF venue[c] = NoOrder THEN {}
    ELSE {venue[c]} \cup {v \in VenueStatesOf(venue[c].pay) :
                             v.status \in PendingStatuses /\ v.filled <= venue[c].filled}

ApplyRecord(c, r) ==
    /\ CanUpsert(orders, c, r)
    /\ orders' = Upserted(orders, c, r)
    /\ UNCHANGED <<venue, late, call, openOrders, claims, audit, drift, escalated, sweep>>

SnapshotRecord(c, v) ==
    [oid |-> VenueId[c], status |-> v.status, filled |-> v.filled, pay |-> v.pay]

HandleOrderUpdate(c) == \E v \in SeenStates(c) : ApplyRecord(c, SnapshotRecord(c, v))

UpsertOrderFromRest(c) == \E v \in SeenStates(c) : ApplyRecord(c, SnapshotRecord(c, v))

\* handle_fill: cumulative fills; the status is worked out from the stored row.
FillRecord(c, old, v) ==
    [oid |-> VenueId[c],
     status |-> IF v.filled >= Quantity[old.pay] THEN "FILLED" ELSE "PARTIALLY_FILLED",
     filled |-> v.filled, pay |-> old.pay]

HandleFill(c) ==
    /\ orders[c] # NoRow
    /\ \E v \in SeenStates(c) :
          /\ v.filled > orders[c].filled
          /\ ApplyRecord(c, FillRecord(c, orders[c], v))

-----------------------------------------------------------------------------
(* cancel_all_orders: the venue's open orders, or the tracked ids if they   *)
(* cannot be listed; each is cancelled in turn, or the call fails.  An id   *)
(* that is no longer cancellable may count as cancelled (allow_idempotent). *)

FetchOpenOrderIds ==
    /\ sweep = {}
    /\ LET listed == {VenueId[c] : c \in {d \in ClientIds : ListedOpen(d)}}
       IN  \/ sweep' = listed /\ openOrders' = listed
           \/ sweep' = openOrders /\ UNCHANGED openOrders
    /\ UNCHANGED <<orders, venue, late, call, claims, audit, drift, escalated>>

CancelOrder(o) ==
    /\ o \in sweep
    /\ sweep' = sweep \ {o}
    /\ \/ \E c \in ClientIds :
             /\ o = VenueId[c] /\ Live(c)
             /\ venue' = [venue EXCEPT ![c] = Cancelled(c)]
             /\ openOrders' = openOrders \ {o}
       \/ /\ \A c \in ClientIds : o = VenueId[c] => ~Live(c)
          /\ openOrders' = openOrders \ {o}
          /\ UNCHANGED venue
       \/ UNCHANGED <<venue, openOrders>>
    /\ UNCHANGED <<orders, late, call, claims, audit, drift, escalated>>

-----------------------------------------------------------------------------

Restart ==
    /\ CrashAndRestart
    /\ audit' = IdleAudit
    /\ drift' = 0 /\ escalated' = FALSE
    /\ sweep' = {}

AuditStep ==
    \/ LoadOpenOrders \/ TrackOpenOrders \/ LoadPending \/ ClearOpenOrders
    \/ \E c \in ClientIds : GetOrder(c)
    \/ RefreshPersist \/ RefreshDone
    \/ \E c \in ClientIds : NormalizeOrderId(c)
    \/ FindMissing \/ RebuildOpenOrders
    \/ \E c \in ClientIds : RecoverUnknownOrder(c)
    \/ NoDrift \/ CountDrift \/ EscalateDrift
    \/ \E c \in ClientIds : CancelDriftedOrder(c)
    \/ DriftHandled

EventStep ==
    \E c \in ClientIds : HandleOrderUpdate(c) \/ UpsertOrderFromRest(c) \/ HandleFill(c)

SubmissionStep ==
    /\ \/ \E w \in Callers : CallStep(w)
       \/ \E q \in late : LateArrival(q)
       \/ \E c \in ClientIds : VenueProgress(c)
    /\ UNCHANGED <<audit, drift, escalated, sweep>>

ReconNext ==
    \/ SubmissionStep
    \/ AuditStep
    \/ EventStep
    \/ FetchOpenOrderIds
    \/ \E o \in sweep : CancelOrder(o)
    \/ Restart

ReconSpec == ReconInit /\ [][ReconNext]_reconVars

GetOrderAnswers(c) == GetOrder(c) /\ audit'.answer # NoAnswer

\* The trading loop runs an audit in every cycle, and a venue that is asked
\* again and again for an order by its id does not fail to answer for ever.
FairAudits ==
    /\ WF_reconVars(AuditStep)
    /\ \A c \in ClientIds : SF_reconVars(GetOrderAnswers(c))

LiveReconSpec == ReconSpec /\ FairAudits

-----------------------------------------------------------------------------
(* Properties.                                                             *)

ReconTypeOK ==
    /\ TypeOK
    /\ audit \in Audits
    /\ drift \in 0..DriftMax
    /\ escalated \in BOOLEAN
    /\ sweep \subseteq Keys

\* Events, backfill and audit, with the stale reads they work from, write only
\* what OrderSubmission's ObserveVenue allows: true fills of the venue's order,
\* and a final status only when it is the venue's own.
WritersObserve ==
    [][call' = call /\ orders' # orders =>
         \E c \in ClientIds :
            /\ venue[c] # NoOrder
            /\ orders'[c] # NoRow
            /\ Believable(c, orders'[c])
            /\ CanUpsert(orders, c, orders'[c])
            /\ orders' = Upserted(orders, c, orders'[c])]_reconVars

\* Drift is escalated for an order whose row the table has settled under another
\* outcome, or whose row has meanwhile passed the listing that the audit works from,
\* never for one that recover_unknown_bot_orders could still have recorded.
EscalationIsJustified ==
    [][~escalated /\ escalated' =>
         \E c \in audit.unknown :
            /\ orders[c] # NoRow
            /\ \/ orders[c].status \in VenueTerminal
               \/ orders[c].filled > audit.listing[c].filled]_reconVars

RestartsEnd == <>[][~Restart]_reconVars

\* Once the process stops crashing, an acknowledged order that has ended at the
\* venue does not stay open in the table, even if every event about it is lost.
EndedOrdersAreRecorded ==
    RestartsEnd =>
        \A c \in ClientIds :
            (/\ PendingRow(c) /\ orders[c].oid = VenueId[c]
             /\ venue[c] # NoOrder /\ ~Live(c)) ~> ~PendingRow(c)

Quiet ==
    /\ \A c \in ClientIds : ~Live(c) /\ ~PendingRow(c)
    /\ \A w \in Callers : call[w].pc \in {"idle", "done"}

\* Once nothing is open anywhere, open_orders does not keep the ids of orders
\* that are gone (unless trading starts again first).
GhostsAreCleared == RestartsEnd => (Quiet ~> (openOrders = {} \/ ~Quiet))

\* A live order of ours that the table believes settled and nobody tracks is
\* not ignored for ever: drift is escalated unless the order ends or is tracked.
Overlooked(c) ==
    /\ ListedOpen(c)
    /\ orders[c] # NoRow /\ orders[c].status \in VenueTerminal
    /\ {c, VenueId[c]} \cap openOrders = {}

OverlookedOrdersEscalate ==
    RestartsEnd => \A c \in ClientIds : Overlooked(c) ~> (escalated \/ ~Overlooked(c))
=============================================================================
