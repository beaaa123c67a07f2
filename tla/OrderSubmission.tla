-------------------------- MODULE OrderSubmission --------------------------
(***************************************************************************)
(* Durable order submission: OrderSubmitter.submit_order_with_result       *)
(* (execution/order_submission.py) over the OrdersStore table, with        *)
(* several calls at work at once (threads of the broker-call pool, or a    *)
(* process and its successor), a venue that may answer late, wrongly or    *)
(* not at all, a store that may fail at any access, and process crashes.   *)
(*                                                                         *)
(* A call looks the client id up, reserves it, sends it (twice at most),   *)
(* validates the receipt and records it.  Each database transaction, each  *)
(* half of a broker call and each read that a later step relies on is one  *)
(* action.  All other writers of the table (user events, REST backfill,    *)
(* reconciliation) appear as ObserveVenue: an upsert of something true of  *)
(* the venue's order now or earlier.                                       *)
(***************************************************************************)
EXTENDS OrdersStore

CONSTANTS
    ClientIds,      \* the decision-linked client order ids
    VenueId,        \* VenueId[c]: the order id the venue gives to client id c
    Callers,        \* threads that submit orders
    MaxAttempts,    \* broker calls per submission: 2 with retries enabled, else 1
    StoreFails,     \* can an access to the store fail?
    NoOrder         \* "the venue has no such order", "no receipt"

VARIABLES
    venue,          \* external: the venue's order for each client id
    late,           \* external: requests whose sender has given up on them
    call,           \* the submission each caller is working on
    openOrders,     \* the engine's open_orders list of order ids
    claims          \* history: how many submissions of each client id went to the broker

vars == <<orders, venue, late, call, openOrders, claims>>

VenueOrders == [status: Statuses, filled: 0..MaxFilled, pay: Payloads]
Requests == [cid: ClientIds, pay: Payloads]

Steps == {"idle", "lookup", "existing", "reserve", "send", "reply",
          "record", "refuse", "noid", "fail", "done"}
Outcomes == {"none", "success", "rejected", "failed", "uncertain", "conflict", "missing"}
Calls == [pc: Steps, cid: ClientIds, pay: Payloads, attempt: 1..MaxAttempts,
          seen: Rows \cup {NoRow}, receipt: VenueOrders \cup {NoOrder},
          refusal: BOOLEAN, outcome: Outcomes]

ASSUME IdsAssumption ==
    /\ ClientIds \subseteq Keys
    /\ VenueId \in [ClientIds -> Keys \ ClientIds]
    /\ \A c, d \in ClientIds : VenueId[c] = VenueId[d] => c = d
ASSUME AttemptsAssumption == MaxAttempts \in Nat \ {0}
ASSUME NoOrderAssumption == NoOrder \notin VenueOrders
ASSUME StoreFailsAssumption == StoreFails \in BOOLEAN
ASSUME NothingAssumption == NoRow \notin Payloads

\* The states an order of payload p can be in at the venue.
VenueStatesOf(p) ==
    {v \in [status: Statuses, filled: 0..Quantity[p], pay: {p}] :
        CASE v.status = "FILLED" -> v.filled = Quantity[p]
          [] v.status = "PARTIALLY_FILLED" -> 0 < v.filled /\ v.filled < Quantity[p]
          [] v.status \in {"CANCELLED", "EXPIRED"} -> v.filled < Quantity[p]
          [] OTHER -> v.filled = 0}

NewCall(step, c, p, outcome) ==
    [pc |-> step, cid |-> c, pay |-> p, attempt |-> 1, seen |-> NoRow,
     receipt |-> NoOrder, refusal |-> FALSE, outcome |-> outcome]

Init ==
    /\ StoreInit
    /\ venue = [c \in ClientIds |-> NoOrder]
    /\ late = {}
    /\ call \in [Callers -> {NewCall("idle", c, p, "none") : c \in ClientIds, p \in Payloads}]
    /\ openOrders = {}
    /\ claims = [c \in ClientIds |-> 0]

-----------------------------------------------------------------------------
(* Steps of a call.                                                        *)

Finish(w, outcome) ==
    call' = [call EXCEPT ![w] = NewCall("done", call[w].cid, call[w].pay, outcome)]

\* The call goes on, with what it has learned from the broker so far.
Move(w, step, attempt, receipt, refusal) ==
    call' = [call EXCEPT ![w] =
                [pc |-> step, cid |-> call[w].cid, pay |-> call[w].pay, attempt |-> attempt,
                 seen |-> NoRow, receipt |-> receipt, refusal |-> refusal,
                 outcome |-> "none"]]

Goto(w, step) == Move(w, step, call[w].attempt, call[w].receipt, call[w].refusal)

\* The call has read the row of its client id.
Saw(w, row, step) ==
    call' = [call EXCEPT ![w] =
                [pc |-> step, cid |-> call[w].cid, pay |-> call[w].pay, attempt |-> 1,
                 seen |-> row, receipt |-> NoOrder, refusal |-> FALSE, outcome |-> "none"]]

SubmitOrderWithResult(w, c, p) ==
    /\ call[w].pc \in {"idle", "done"}
    /\ call' = [call EXCEPT ![w] = NewCall("lookup", c, p, "none")]
    /\ UNCHANGED <<orders, venue, late, openOrders, claims>>

RejectMissingDecisionId(w) ==
    /\ call[w].pc = "idle"
    /\ Finish(w, "missing")
    /\ UNCHANGED <<orders, venue, late, openOrders, claims>>

GetExistingRecord(w) ==
    /\ call[w].pc = "lookup"
    /\ LET row == orders[call[w].cid]
       IN  Saw(w, row, IF row = NoRow THEN "reserve" ELSE "existing")
    /\ UNCHANGED <<orders, venue, late, openOrders, claims>>

\* OrderPersistenceError at any access to the store: uncertain, never a send.
StoreUnavailable(w) ==
    /\ StoreFails
    /\ call[w].pc \in {"lookup", "reserve", "record", "refuse", "noid", "fail"}
    /\ Finish(w, "uncertain")
    /\ UNCHANGED <<orders, venue, late, openOrders, claims>>

\* Mutated form: relies on the lookup that found no row, and overwrites.
RecordPendingSubmissionBlind(w) ==
    LET c == call[w].cid
    IN  /\ call[w].pc = "reserve"
        /\ orders' = Reserved(orders, c, call[w].pay)
        /\ claims' = [claims EXCEPT ![c] = @ + 1]
        /\ Goto(w, "send")
        /\ UNCHANGED <<venue, late, openOrders>>

\* Mutated form: the latest payload wins, without being sent.
RecordPendingSubmissionLatest(w) ==
    LET c == call[w].cid
    IN  /\ call[w].pc = "reserve"
        /\ orders' = Reserved(orders, c, call[w].pay)
        /\ \/ CanReserve(orders, c) /\ claims' = [claims EXCEPT ![c] = @ + 1] /\ Goto(w, "send")
           \/ orders[c] # NoRow /\ Saw(w, orders[c], "existing") /\ UNCHANGED claims
        /\ UNCHANGED <<venue, late, openOrders>>

\* Mutated form: goes to the broker although nothing has been stored.
RecordPendingSubmissionUnstored(w) ==
    /\ call[w].pc = "reserve"
    /\ claims' = [claims EXCEPT ![call[w].cid] = @ + 1]
    /\ Goto(w, "send")
    /\ UNCHANGED <<orders, venue, late, openOrders>>

RecordPendingSubmission(w) ==
    LET c == call[w].cid
    IN  /\ call[w].pc = "reserve"
        /\ \/ /\ CanReserve(orders, c)
              /\ orders' = Reserved(orders, c, call[w].pay)
              /\ claims' = [claims EXCEPT ![c] = @ + 1]
              /\ Goto(w, "send")
           \/ /\ orders[c] # NoRow
              /\ Saw(w, orders[c], "existing")
              /\ UNCHANGED <<orders, claims>>
        /\ UNCHANGED <<venue, late, openOrders>>

\* Mutated form: takes a row that was never acknowledged for an order.
ExistingOutcomeOptimistic(row, p) ==
    IF row.pay # p THEN "conflict"
    ELSE IF row.status \in PendingStatuses \cup {"FILLED"} THEN "success"
    ELSE "rejected"

\* What a stored row answers to a submission of payload p.
ExistingOutcome(row, p) ==
    IF row.pay # p THEN "conflict"
    ELSE IF row.status = "PENDING" THEN "uncertain"
    ELSE IF row.status \in {"OPEN", "PARTIALLY_FILLED", "FILLED"} THEN "success"
    ELSE "rejected"

HandleExistingSubmission(w) ==
    LET row == call[w].seen
        outcome == ExistingOutcome(row, call[w].pay)
    IN  /\ call[w].pc = "existing"
        /\ Finish(w, outcome)
        /\ openOrders' = IF outcome = "success" /\ row.status # "FILLED"
                         THEN openOrders \cup {row.oid} ELSE openOrders
        /\ UNCHANGED <<orders, venue, late, claims>>

-----------------------------------------------------------------------------
(* The broker call: BrokerExecutor and the REST adapter, with the venue.    *)
(* The venue keeps one order per client id: a second request is answered   *)
(* "duplicate client_order_id" and the adapter looks the first one up.     *)

PlaceOrder(w) ==
    LET c == call[w].cid
    IN  /\ call[w].pc = "send"
        /\ venue[c] = NoOrder
        /\ \E v \in VenueStatesOf(call[w].pay) :
              /\ venue' = [venue EXCEPT ![c] = v]
              /\ Move(w, "reply", call[w].attempt, v, FALSE)
        /\ UNCHANGED <<orders, late, openOrders, claims>>

FindExistingOrder(w) ==
    LET c == call[w].cid
    IN  /\ call[w].pc = "send"
        /\ venue[c] # NoOrder
        /\ Move(w, "reply", call[w].attempt, venue[c], FALSE)
        /\ UNCHANGED <<orders, venue, late, openOrders, claims>>

\* The venue turns the request down with an answer that names no order.
AnswerWithoutId(w) ==
    /\ call[w].pc = "send"
    /\ Goto(w, "noid")
    /\ UNCHANGED <<orders, venue, late, openOrders, claims>>

\* An exception that is not transient: the request was turned down, or its
\* answer could not be used.  refusal: does the error read as a rejection?
BrokerError(w, refusal) ==
    /\ call[w].pc \in {"send", "reply"}
    /\ refusal => call[w].pc = "send" /\ venue[call[w].cid] = NoOrder
    /\ Move(w, "fail", call[w].attempt, NoOrder, refusal)
    /\ UNCHANGED <<orders, venue, late, openOrders, claims>>

\* A timeout, connection or rate-limit error: the same client id is sent again
\* while attempts remain.  The request given up on may still arrive.
TransientError(w) ==
    /\ call[w].pc \in {"send", "reply"}
    /\ late' = IF call[w].pc = "send"
               THEN late \cup {[cid |-> call[w].cid, pay |-> call[w].pay]} ELSE late
    /\ \/ /\ call[w].attempt < MaxAttempts
          /\ Move(w, "send", call[w].attempt + 1, NoOrder, FALSE)
       \/ /\ call[w].attempt >= MaxAttempts
          /\ Move(w, "fail", call[w].attempt, NoOrder, FALSE)
    /\ UNCHANGED <<orders, venue, openOrders, claims>>

LateArrival(q) ==
    /\ q \in late
    /\ venue[q.cid] = NoOrder
    /\ \E v \in VenueStatesOf(q.pay) : venue' = [venue EXCEPT ![q.cid] = v]
    /\ late' = late \ {q}
    /\ UNCHANGED <<orders, call, openOrders, claims>>

\* The venue fills, cancels or expires a live order.
VenueProgress(c) ==
    /\ venue[c] # NoOrder
    /\ venue[c].status \in PendingStatuses
    /\ \E v \in VenueStatesOf(venue[c].pay) :
          /\ v.filled >= venue[c].filled
          /\ v # venue[c]
          /\ v.status # "PENDING"
          /\ venue[c].status = "PARTIALLY_FILLED" => v.status # "OPEN"
          /\ venue' = [venue EXCEPT ![c] = v]
    /\ UNCHANGED <<orders, late, call, openOrders, claims>>

-----------------------------------------------------------------------------
(* What the call does with the answer.                                     *)

\* _validate_receipt refuses an answer whose fields disagree with the intent.
ReceiptConflict(w) ==
    /\ call[w].pc = "reply"
    /\ Finish(w, "uncertain")
    /\ UNCHANGED <<orders, venue, late, openOrders, claims>>

HandleOrderResult(w) ==
    /\ call[w].pc = "reply"
    /\ IF call[w].receipt.status \in {"REJECTED", "CANCELLED", "FAILED"}
       THEN Goto(w, "refuse") /\ UNCHANGED openOrders
       ELSE /\ Goto(w, "record")
            /\ openOrders' = openOrders \cup {VenueId[call[w].cid]}
    /\ UNCHANGED <<orders, venue, late, claims>>

\* _persist_order: the record if the store takes it, the outcome otherwise.
Persist(w, r, proceed) ==
    LET c == call[w].cid
    IN  \/ /\ CanUpsert(orders, c, r)
           /\ orders' = Upserted(orders, c, r)
           /\ proceed
        \/ /\ ~CanUpsert(orders, c, r)
           /\ Finish(w, "uncertain")
           /\ UNCHANGED orders

ReceiptRecord(w) ==
    [oid |-> VenueId[call[w].cid], status |-> call[w].receipt.status,
     filled |-> call[w].receipt.filled, pay |-> call[w].receipt.pay]

\* _record_failed_submission files the record under the client id again.
SubmitIdRecord(w, status) ==
    [oid |-> call[w].cid, status |-> status, filled |-> 0, pay |-> call[w].pay]

RecordFinalSubmission(w) ==
    /\ call[w].pc = "record"
    /\ Persist(w, ReceiptRecord(w), Finish(w, "success"))
    /\ UNCHANGED <<venue, late, openOrders, claims>>

\* _process_rejection records the receipt and raises "Order rejected by broker".
ProcessRejection(w) ==
    /\ call[w].pc = "refuse"
    /\ Persist(w, ReceiptRecord(w),
               Move(w, "fail", call[w].attempt, NoOrder, TRUE))
    /\ UNCHANGED <<venue, late, openOrders, claims>>

RecordWithoutId(w) ==
    /\ call[w].pc = "noid"
    /\ Persist(w, SubmitIdRecord(w, "REJECTED"), Finish(w, "rejected"))
    /\ UNCHANGED <<venue, late, openOrders, claims>>

\* Mutated form: a failed submission is taken for a cancelled order.
RecordFailedSubmissionFinal(w) ==
    /\ call[w].pc = "fail"
    /\ Persist(w, SubmitIdRecord(w, "CANCELLED"),
               Finish(w, IF call[w].refusal THEN "rejected" ELSE "failed"))
    /\ UNCHANGED <<venue, late, openOrders, claims>>

RecordFailedSubmission(w) ==
    /\ call[w].pc = "fail"
    /\ Persist(w, SubmitIdRecord(w, "FAILED"),
               Finish(w, IF call[w].refusal THEN "rejected" ELSE "failed"))
    /\ UNCHANGED <<venue, late, openOrders, claims>>

-----------------------------------------------------------------------------
(* The other writers, and crashes.                                         *)

\* A user event, a REST order or a reconciliation write about c's order: never
\* more fills than the venue has seen, and a terminal status only if it is true.
Believable(c, r) ==
    /\ r.oid = VenueId[c]
    /\ r.filled <= venue[c].filled
    /\ r.status \in VenueTerminal =>
           r.status = venue[c].status /\ r.filled = venue[c].filled

ObservedKeys(c) == IF EchoesClientId THEN {c} ELSE {c, VenueId[c]}

ObserveVenue(c, k, r) ==
    /\ venue[c] # NoOrder
    /\ Believable(c, r)
    /\ CanUpsert(orders, k, r)
    /\ orders' = Upserted(orders, k, r)
    /\ UNCHANGED <<venue, late, call, openOrders, claims>>

\* The process dies and a new one starts: memory is lost, requests already on
\* the network are not; _rehydrate_open_orders reloads the pending rows.
CrashAndRestart ==
    /\ late' = late \cup {[cid |-> call[w].cid, pay |-> call[w].pay] :
                              w \in {u \in Callers : call[u].pc = "send"}}
    /\ call' = [w \in Callers |-> NewCall("idle", call[w].cid, call[w].pay, "none")]
    /\ openOrders' = {orders[k].oid : k \in {j \in Keys :
                          orders[j] # NoRow /\ orders[j].status \in PendingStatuses}}
    /\ UNCHANGED <<orders, venue, claims>>

CallStep(w) ==
    \/ \E c \in ClientIds, p \in Payloads : SubmitOrderWithResult(w, c, p)
    \/ RejectMissingDecisionId(w)
    \/ GetExistingRecord(w)
    \/ StoreUnavailable(w)
    \/ RecordPendingSubmission(w)
    \/ HandleExistingSubmission(w)
    \/ PlaceOrder(w)
    \/ FindExistingOrder(w)
    \/ AnswerWithoutId(w)
    \/ \E refusal \in BOOLEAN : BrokerError(w, refusal)
    \/ TransientError(w)
    \/ ReceiptConflict(w)
    \/ HandleOrderResult(w)
    \/ RecordFinalSubmission(w)
    \/ ProcessRejection(w)
    \/ RecordWithoutId(w)
    \/ RecordFailedSubmission(w)

Next ==
    \/ \E w \in Callers : CallStep(w)
    \/ \E q \in late : LateArrival(q)
    \/ \E c \in ClientIds : VenueProgress(c)
    \/ \E c \in ClientIds : \E k \in ObservedKeys(c), r \in Receipts : ObserveVenue(c, k, r)
    \/ CrashAndRestart

Spec == Init /\ [][Next]_vars

-----------------------------------------------------------------------------
(* Properties.                                                             *)

TypeOK ==
    /\ StoreTypeOK
    /\ venue \in [ClientIds -> VenueOrders \cup {NoOrder}]
    /\ late \subseteq Requests
    /\ call \in [Callers -> Calls]
    /\ openOrders \subseteq Keys
    /\ claims \in [ClientIds -> Nat]

\* "Never resend": whatever the interleaving of callers, retries by the caller
\* after an uncertain outcome, crashes and store failures, one submission of a
\* client id at most ever talks to the broker.
AtMostOneSubmission == \A c \in ClientIds : claims[c] <= 1

\* Write-ahead: an order that exists at the venue, even one that arrived after
\* its sender died, has a durable row with the very payload that was admitted.
IntentBeforeOrder ==
    \A c \in ClientIds :
        venue[c] # NoOrder =>
            orders[c] # NoRow /\ orders[c].intent /\ orders[c].pay = venue[c].pay

\* A row never claims an execution the venue does not have: a recorded FILLED,
\* CANCELLED or EXPIRED is the venue's own final state with its exact fills, and
\* no row is ahead of the venue.  (REJECTED is excluded: an answer without an
\* order id is recorded as REJECTED while an earlier attempt may still arrive.)
ReceiptsAreTrue ==
    \A c \in ClientIds :
        orders[c] # NoRow =>
            /\ orders[c].filled > 0 =>
                   venue[c] # NoOrder /\ orders[c].filled <= venue[c].filled
            /\ orders[c].status \in {"FILLED", "CANCELLED", "EXPIRED"} =>
                   /\ venue[c] # NoOrder
                   /\ orders[c].status = venue[c].status
                   /\ orders[c].filled = venue[c].filled

\* A caller that is told "success" has an order at the venue for exactly the
\* payload it asked for, also when the answer came from a stored row.
SuccessIsReal ==
    \A w \in Callers :
        call[w].outcome = "success" =>
            venue[call[w].cid] # NoOrder /\ venue[call[w].cid].pay = call[w].pay

Admissions == [c \in ClientIds |-> IF orders[c] = NoRow THEN NoRow ELSE orders[c].pay]
Placements == [c \in ClientIds |-> IF venue[c] = NoOrder THEN NoRow ELSE venue[c].pay]

Contract == INSTANCE SubmissionContract WITH
    Nothing <- NoRow, admitted <- Admissions, placed <- Placements

\* The submission protocol implements its contract: the durable rows are the
\* admissions, the venue's orders the placements.
ImplementsContract == Contract!ContractSpec
=============================================================================
