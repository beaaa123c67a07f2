--------------------------- MODULE FillAccounting ---------------------------
(***************************************************************************)
(* What a position and its realized profit are read from: the fill facts,  *)
(* the fill observations and the opening baseline that share the order     *)
(* table's database (persistence/orders_accounting.py), their projection   *)
(* (core/fill_accounting.py), and the two writers that feed them, user     *)
(* events and the REST backfill (coinbase/user_event_handler.py).          *)
(*                                                                         *)
(* One symbol.  Plan says which executions the venue has in store for each *)
(* order; events report the first n of them as one cumulative snapshot,    *)
(* at any later time, in any order and any number of times, and only the   *)
(* backfill reports them one by one.  Every write is one transaction.      *)
(* Prices are integers; fees are left out.                                 *)
(***************************************************************************)
EXTENDS OrdersStore, Integers, Sequences, SequencesExt

CONSTANTS
    Owned, Foreign,     \* venue orders of this program, and of others on the account
    Client,             \* Client[o]: the client id of venue order o
    Side,               \* Side[o]: "buy" or "sell"
    Plan,               \* Plan[o]: the executions of o, as size and price
    Opening,            \* the position before the first of them
    FillLimit,          \* how many fills list_fills returns
    MaxTime,            \* bound on the clock
    None

VARIABLES
    now,
    tape,           \* what the venue has executed, in its order
    ended,          \* orders that were cancelled
    paid,           \* by client id, the value of a row's fills at its average price
    facts,          \* table fill_facts
    observations,   \* table fill_observations
    baseline,       \* table accounting_baselines
    sending,        \* own orders whose submission has not returned
    ws,             \* the event whose order update is still to be applied
    backfill        \* the backfill thread

venueVars == <<now, tape, ended>>
ledgerVars == <<orders, paid, facts, observations, baseline>>
processVars == <<sending, ws, backfill>>
accountVars == <<venueVars, ledgerVars, processVars>>

Venue == Owned \cup Foreign
Sizes(o) == [i \in DOMAIN Plan[o] |-> Plan[o][i].size]
Values(o) == [i \in DOMAIN Plan[o] |-> Plan[o][i].size * Plan[o][i].price]
Filled(o, n) == SumFunctionOnSet(Sizes(o), 1..n)
Value(o, n) == SumFunctionOnSet(Values(o), 1..n)
Asks(o) == [side |-> Side[o], quantity |-> Filled(o, Len(Plan[o]))]

ASSUME VenueAssumption ==
    /\ Venue \subseteq Keys /\ Owned \cap Foreign = {}
    /\ Client \in [Venue -> Keys \ Venue]
    /\ \A o, q \in Venue : Client[o] = Client[q] => o = q
    /\ Plan \in [Venue -> Seq([size: Nat \ {0}, price: Nat])]
    /\ Side \in [Venue -> {"buy", "sell"}]
ASSUME PayloadsAssumption ==
    /\ Payloads = [side: {"buy", "sell"}, quantity: 1..MaxFilled]
    /\ Quantity = [p \in Payloads |-> p.quantity]
    /\ \A o \in Venue : Filled(o, Len(Plan[o])) \in 1..MaxFilled
ASSUME TimeAssumption == MaxTime \in Nat
ASSUME OpeningAssumption == Opening \in [quantity: Int, entry: Nat, realized: Int]

Executions(o) == {i \in DOMAIN tape : tape[i].order = o}
Done(o) == Cardinality(Executions(o))
Over(o) == o \in ended \/ Done(o) = Len(Plan[o])

Final(o) == IF o \in ended THEN "CANCELLED" ELSE "FILLED"
Latest(o) == [order |-> o, n |-> Done(o), status |-> IF Over(o) THEN Final(o) ELSE "OPEN"]

\* The snapshots of an order that the venue has sent so far.
Snapshots(o) ==
    {Latest(o)} \cup {[order |-> o, n |-> n, status |-> "OPEN"] : n \in 0..Done(o) \ {Len(Plan[o])}}

Receipt(s) ==
    [oid |-> s.order, status |-> s.status, filled |-> Filled(s.order, s.n),
     pay |-> Asks(s.order)]

Facts == UNION {[order: {o}, n: 1..Len(Plan[o]), at: 0..MaxTime] : o \in Venue}
FillsOf(o) == {f \in facts : f.order = o}
Idle == [pc |-> "idle", orders |-> {}, fills |-> {}]

AccountInit ==
    /\ now = 0 /\ tape = <<>> /\ ended = {}
    /\ orders = [k \in Keys |->
           IF \E o \in Owned : Client[o] = k
           THEN Reserved([j \in Keys |-> NoRow], k,
                         Asks(CHOOSE o \in Owned : Client[o] = k))[k]
           ELSE NoRow]
    /\ paid = [k \in Keys |-> 0]
    /\ facts = {} /\ observations = {} /\ baseline = None
    /\ sending = Owned /\ ws = None /\ backfill = Idle

-----------------------------------------------------------------------------
(* The venue.                                                              *)

Executes(o) ==
    /\ ~Over(o)
    /\ tape' = Append(tape, [order |-> o, n |-> Done(o) + 1, at |-> now])
    /\ UNCHANGED <<now, ended, ledgerVars, processVars>>

Cancels(o) ==
    /\ ~Over(o)
    /\ ended' = ended \cup {o}
    /\ UNCHANGED <<now, tape, ledgerVars, processVars>>

Tick ==
    /\ now < MaxTime
    /\ now' = now + 1
    /\ UNCHANGED <<tape, ended, ledgerVars, processVars>>

-----------------------------------------------------------------------------
(* The tables.                                                             *)

\* record_observation.
Observed(o, q, v) ==
    observations \cup (IF q > 0 THEN {[order |-> o, filled |-> q, value |-> v]} ELSE {})

\* An upsert and the observation of what it reports, in one transaction.
Upserts(k, r, v) ==
    /\ CanUpsert(orders, k, r)
    /\ orders' = Upserted(orders, k, r)
    /\ paid' = [paid EXCEPT ![k] = v]

\* The row a fill belongs to: get_order, then get_order_by_client_order_id.
RowKey(o) == IF Holders(orders, o) # {} THEN CHOOSE k \in Holders(orders, o) : TRUE ELSE Client[o]

\* An order that has its venue id, or is still waiting for it.
Attributable(k, o) ==
    orders[k] # NoRow /\ orders[k].oid # o =>
        orders[k].oid = k /\ orders[k].status = "PENDING"

SizeOf(f) == Plan[f.order][f.n].size
PriceOf(f) == Plan[f.order][f.n].price
SumOf(S) == SumFunctionOnSet([f \in S |-> SizeOf(f)], S)
ValueOf(S) == SumFunctionOnSet([f \in S |-> SizeOf(f) * PriceOf(f)], S)

\* What the facts of an order add up to, with one more.  Mutated form: the fact
\* is added to the fills that snapshots have reported.
IdentifiedOnTop(f) ==
    SizeOf(f) + (IF orders[RowKey(f.order)] = NoRow THEN 0 ELSE orders[RowKey(f.order)].filled)

Identified(f) == SumOf(FillsOf(f.order) \cup {f})

\* The row as the facts complete it.
FactReceipt(f) ==
    LET row == orders[RowKey(f.order)]
    IN  [oid |-> f.order, filled |-> Identified(f), pay |-> row.pay,
         status |-> IF Identified(f) = Quantity[row.pay] THEN "FILLED" ELSE "PARTIALLY_FILLED"]

Advances(f) ==
    LET row == orders[RowKey(f.order)] IN row # NoRow /\ Identified(f) > row.filled

\* The new facts that record_fill lets in.  Mutated form: none for a settled order.
AdmissibleWhileOpen(f) ==
    LET row == orders[RowKey(f.order)] IN row # NoRow => row.status \notin VenueTerminal

Admissible(f) ==
    LET k == RowKey(f.order)
        row == orders[k]
    IN  /\ baseline # None /\ f.order \in baseline.covered => f.at <= baseline.at
        /\ row # NoRow /\ row.intent => Identified(f) <= Quantity[row.pay]
        /\ Advances(f) =>
               row.status \notin VenueTerminal /\ CanUpsert(orders, k, FactReceipt(f))

Accepts(f) == Attributable(RowKey(f.order), f.order) /\ (f \in facts \/ Admissible(f))

RecordFill(f) ==
    /\ facts' = facts \cup {f}
    /\ IF f \notin facts /\ Advances(f)
       THEN Upserts(RowKey(f.order), FactReceipt(f), ValueOf(FillsOf(f.order) \cup {f}))
       ELSE UNCHANGED <<orders, paid>>

-----------------------------------------------------------------------------
(* User events: handle_user_message, the fill and then the order update of *)
(* one message.  The key ring only drops repeats, which change nothing     *)
(* here either.  An event that is refused is lost.                         *)

\* handle_fill on an order without a row files it as an order for what is filled.
FillReceipt(s) ==
    LET row == orders[Client[s.order]]
        q == Filled(s.order, s.n)
    IN  [oid |-> s.order, filled |-> q,
         pay |-> IF row = NoRow THEN [side |-> Side[s.order], quantity |-> q] ELSE row.pay,
         status |-> IF row # NoRow /\ q >= Quantity[row.pay] THEN "FILLED"
                    ELSE "PARTIALLY_FILLED"]

WsFill(s) ==
    LET k == Client[s.order]
        q == Filled(s.order, s.n)
    IN  /\ ws = None /\ ws' = s
        /\ observations' = Observed(s.order, q, Value(s.order, s.n))
        /\ IF q = 0 \/ (orders[k] # NoRow /\ q <= orders[k].filled)
           THEN UNCHANGED <<orders, paid>>
           ELSE Upserts(k, FillReceipt(s), Value(s.order, s.n))
        /\ UNCHANGED <<venueVars, facts, baseline, sending, backfill>>

\* handle_order_update and _upsert_order_from_rest: a refused update is logged.
AppliesUpdate(s) ==
    LET k == Client[s.order]
    IN  IF CanUpsert(orders, k, Receipt(s))
        THEN /\ Upserts(k, Receipt(s), Value(s.order, s.n))
             /\ observations' = Observed(s.order, Filled(s.order, s.n), Value(s.order, s.n))
        ELSE UNCHANGED <<orders, paid, observations>>

WsUpdate ==
    /\ ws # None
    /\ AppliesUpdate(ws)
    /\ ws' = None
    /\ UNCHANGED <<venueVars, facts, baseline, sending, backfill>>

\* _record_failed_submission of an own order whose acknowledgment got lost.
SubmissionFails(o) ==
    /\ o \in sending
    /\ sending' = sending \ {o}
    /\ LET k == Client[o]
       IN  Upserts(k, [oid |-> k, status |-> "FAILED", filled |-> 0, pay |-> Asks(o)], 0)
    /\ UNCHANGED <<venueVars, facts, observations, baseline, ws, backfill>>

-----------------------------------------------------------------------------
(* The REST backfill, one at a time: orders first, then fills.             *)

Backfills(b) ==
    /\ backfill' = IF b.pc = "fills" /\ b.fills = {} THEN Idle ELSE b
    /\ UNCHANGED <<venueVars, baseline, sending, ws>>

ListOrders(works) ==
    /\ backfill.pc = "idle"
    /\ Backfills([pc |-> "orders", fills |-> {},
                  orders |-> IF works THEN {Latest(o) : o \in Venue} ELSE {}])
    /\ UNCHANGED <<orders, paid, facts, observations>>

BackfillOrder(s) ==
    /\ s \in backfill.orders
    /\ AppliesUpdate(s)
    /\ Backfills([backfill EXCEPT !.orders = @ \ {s}])
    /\ UNCHANGED facts

\* The newest FillLimit fills.
Listed(f) == \E i \in DOMAIN tape : tape[i] = f /\ i > Len(tape) - FillLimit

ListFills(works) ==
    /\ backfill.pc = "orders" /\ backfill.orders = {}
    /\ Backfills([pc |-> "fills", orders |-> {},
                  fills |-> IF works THEN {f \in ToSet(tape) : Listed(f)} ELSE {}])
    /\ UNCHANGED <<orders, paid, facts, observations>>

\* A fill that record_fill refuses ends the backfill.
BackfillFill(f) ==
    /\ f \in backfill.fills
    /\ IF Accepts(f)
       THEN RecordFill(f) /\ Backfills([backfill EXCEPT !.fills = @ \ {f}])
       ELSE Backfills(Idle) /\ UNCHANGED <<orders, paid, facts>>
    /\ UNCHANGED observations

\* The process dies and starts again.
Crash ==
    /\ sending' = {} /\ ws' = None /\ backfill' = Idle
    /\ UNCHANGED <<venueVars, ledgerVars>>

-----------------------------------------------------------------------------
(* The opening baseline and the projection (project_position).             *)

\* The position after one more execution, at its average entry price.
Absolute(n) == IF n < 0 THEN -n ELSE n
Signed(f) == IF Side[f.order] = "buy" THEN SizeOf(f) ELSE -SizeOf(f)

Adds(p, f) == p.quantity = 0 \/ (p.quantity > 0 <=> Side[f.order] = "buy")
Cost(p, f) == Absolute(p.quantity) * p.entry + SizeOf(f) * PriceOf(f)
Units(p, f) == Absolute(p.quantity) + SizeOf(f)

Applied(p, f) ==
    LET held == Absolute(p.quantity)
        closed == IF SizeOf(f) < held THEN SizeOf(f) ELSE held
        long == IF p.quantity > 0 THEN 1 ELSE -1
    IN  IF Adds(p, f)
        THEN [quantity |-> p.quantity + Signed(f), realized |-> p.realized,
              entry |-> Cost(p, f) \div Units(p, f)]
        ELSE [quantity |-> p.quantity + Signed(f),
              realized |-> p.realized + closed * (PriceOf(f) - p.entry) * long,
              entry |-> IF SizeOf(f) > held THEN PriceOf(f)
                        ELSE IF SizeOf(f) = held THEN 0 ELSE p.entry]

\* The positions before and after each of these fills.
Positions(p, fills) ==
    LET after[n \in 0..Len(fills)] == IF n = 0 THEN p ELSE Applied(after[n - 1], fills[n])
    IN  after

Replay(p, fills) == Positions(p, fills)[Len(fills)]

\* No average on the way is rounded.
Exact(p, fills) ==
    \A n \in 1..Len(fills) :
        LET before == Positions(p, fills)[n - 1]
        IN  Adds(before, fills[n]) => Cost(before, fills[n]) % Units(before, fills[n]) = 0

\* The position that the account had after the executions of time at, the executions
\* since then, and what the tables say of the covered orders.
Executed(at) == Cardinality({i \in DOMAIN tape : tape[i].at <= at})
PositionAt(at) == Replay(Opening, SubSeq(tape, 1, Executed(at)))
Since(at) == SubSeq(tape, Executed(at) + 1, Len(tape))
BaselineOf(at, covered) ==
    [at |-> at, quantity |-> PositionAt(at).quantity, entry |-> PositionAt(at).entry,
     covered |-> covered,
     bound |-> [o \in covered |-> <<orders[RowKey(o)], paid[RowKey(o)]>>]]

\* record_baseline of evidence that is true: the position the account had when
\* the executions of effective_at were over, and orders that had ended by then.
\* Mutated form: an order that may still execute is covered.
RecordBaselineEarly(at, covered) ==
    /\ baseline = None /\ at < now
    /\ \A o \in covered : Holders(orders, o) # {}
    /\ baseline' = BaselineOf(at, covered)
    /\ UNCHANGED <<venueVars, orders, paid, facts, observations, processVars>>

RecordBaseline(at, covered) ==
    /\ baseline = None /\ at < now
    /\ \A o \in covered :
           /\ \E k \in Holders(orders, o) : orders[k].status \in VenueTerminal
           /\ \A i \in Executions(o) : tape[i].at <= at
    /\ baseline' = BaselineOf(at, covered)
    /\ UNCHANGED <<venueVars, orders, paid, facts, observations, processVars>>

Relevant == {f \in facts : f.at > baseline.at}

Opened == [quantity |-> baseline.quantity, entry |-> baseline.entry, realized |-> 0]

\* Facts are replayed by time of execution, those of one instant by order and fill id:
\* as ids are arbitrary, in any order of theirs.
ByTime(S) == {s \in SetToSeqs(S) : \A i, j \in DOMAIN s : i < j => s[i].at <= s[j].at}

\* What executions have bought less what they have sold.
On(side, S) == {f \in S : Side[f.order] = side}
Moved(S) == SumOf(On("buy", S)) - SumOf(On("sell", S))

\* Executions of one instant whose order matters.  Mutated form: only the ones
\* on both sides.
AmbiguousBetweenSides(t) ==
    LET group == {f \in Relevant : f.at = t}
    IN  Cardinality({Side[f.order] : f \in group}) > 1

Ambiguous(t) ==
    LET group == {f \in Relevant : f.at = t}
        held == baseline.quantity + Moved({f \in Relevant : f.at < t})
        moved == Moved(group)
    IN  \/ Cardinality({Side[f.order] : f \in group}) > 1
        \/ /\ held * moved < 0 /\ Absolute(moved) > Absolute(held)
           /\ Cardinality({PriceOf(f) : f \in group}) > 1

\* Does the evidence about an order, observations and row, fit its facts?
Evidence(o) ==
    {[filled |-> x.filled, value |-> x.value] : x \in {y \in observations : y.order = o}}
    \cup {[filled |-> orders[k].filled, value |-> paid[k]] : k \in Holders(orders, o)}

\* Mutated form: missing fills are only looked for once the order has ended.
CoversWhenSettled(o) ==
    LET total == SumOf(FillsOf(o))
    IN  /\ (\E k \in Holders(orders, o) : orders[k].status \in VenueTerminal) =>
               /\ \A x \in Evidence(o) : x.filled <= total
               /\ \E x \in Evidence(o) : x.filled >= total
        /\ \A x \in Evidence(o) : x.filled = total => x.value = ValueOf(FillsOf(o))

Covers(o) ==
    LET total == SumOf(FillsOf(o))
    IN  /\ \A x \in Evidence(o) : x.filled <= total
        /\ (\E k \in Holders(orders, o) : orders[k].status \in VenueTerminal) =>
               \E x \in Evidence(o) : x.filled >= total
        /\ \A x \in Evidence(o) : x.filled = total => x.value = ValueOf(FillsOf(o))

\* projections(): the projection is complete when there is no reason against it.
Complete ==
    /\ baseline # None
    /\ \A k \in Keys : orders[k] # NoRow => orders[k].status \notin {"PENDING", "FAILED"}
    /\ \A o \in Venue \ baseline.covered : Covers(o)
    /\ \A t \in 0..MaxTime : ~Ambiguous(t)

BackfillNext ==
    \/ \E works \in BOOLEAN : ListOrders(works) \/ ListFills(works)
    \/ \E s \in backfill.orders : BackfillOrder(s)
    \/ \E f \in backfill.fills : BackfillFill(f)

AccountNext ==
    \/ \E o \in Venue :
          \/ Executes(o) \/ Cancels(o) \/ SubmissionFails(o)
          \/ \E s \in Snapshots(o) : WsFill(s)
    \/ WsUpdate \/ BackfillNext
    \/ \E at \in 0..MaxTime, covered \in SUBSET Venue : RecordBaseline(at, covered)
    \/ Tick \/ Crash

AccountSpec == AccountInit /\ [][AccountNext]_accountVars

-----------------------------------------------------------------------------
(* Properties.                                                             *)

\* The log, the rows and the baselines have their types, and the memory of what was
\* counted names recorded evidence only (orders_accounting.py, the accounting tables).
AccountTypeOK ==
    /\ now \in 0..MaxTime /\ tape \in Seq(Facts) /\ ended \subseteq Venue
    /\ orders \in [Keys -> Rows \cup {NoRow}]
    /\ paid \in [Keys -> Nat]
    /\ facts \subseteq Facts
    /\ observations \subseteq [order: Venue, filled: 1..MaxFilled, value: Nat]
    /\ baseline # None =>
           /\ baseline.at \in 0..MaxTime /\ baseline.covered \subseteq Venue
           /\ baseline.quantity \in Int /\ baseline.entry \in Nat
    /\ sending \subseteq Owned
    /\ backfill.pc \in {"idle", "orders", "fills"} /\ backfill.fills \subseteq Facts

\* "Cumulative order snapshots are not individual fills": however events and
\* facts about the same executions interleave, a row never reports more than the
\* venue has executed.
NothingCountedTwice ==
    \A o \in Venue : \A k \in Holders(orders, o) : orders[k].filled <= Filled(o, Done(o))

\* A row that an event has closed below what its order asks for: handle_fill takes
\* the first fills of an order without a row for all of it, and the order update
\* that corrects this comes in a transaction of its own.
ClosedShort(o) ==
    \E k \in Holders(orders, o) :
        orders[k].status = "FILLED" /\ orders[k].filled < Asks(o).quantity

\* The rows are up to date, and none that the baseline covers is closed short.
Current ==
    \A o \in Venue :
        IF o \in baseline.covered THEN ~ClosedShort(o)
        ELSE Done(o) = 0 \/ \E k \in Holders(orders, o) : orders[k].filled = Filled(o, Done(o))

\* What is replayed for a complete projection is every execution since the baseline,
\* whichever of snapshots, facts and receipts came first, or never (projections()).
CompleteHasEveryFill ==
    Complete /\ Current => Relevant = {f \in ToSet(tape) : f.at > baseline.at}

\* When the projection is complete and the rows are up to date, position, entry
\* price and realized profit are the venue's, replayed in the order in which it
\* really executed, although facts arrive in any order, late and repeatedly, and
\* are replayed in another (project_position).  Rounding is left out: averages of
\* which neither order rounds one.
CompleteIsExact ==
    Complete /\ Current =>
        \A fills \in ByTime(Relevant) :
            Exact(Opened, fills) /\ Exact(Opened, Since(baseline.at)) =>
                Replay(Opened, fills) = Replay(Opened, Since(baseline.at))

\* "Covered receipt semantics are bound at baseline admission": what a baseline
\* covers never changes under it, which would make projections() raise for ever.
CoveredReceiptsHold ==
    baseline # None =>
        \A o \in baseline.covered :
            /\ \E k \in Holders(orders, o) : <<orders[k], paid[k]>> = baseline.bound[o]
            /\ \A x \in observations :
                   x.order = o => x.filled <= baseline.bound[o][1].filled

\* Unless an order is closed short, no execution is locked out of the facts: at
\* any time record_fill lets it in, or does so once the backfill has applied the
\* venue's present receipt of its order, which the table does not refuse then.
NoFillIsLockedOut ==
    (\A o \in Venue : ~ClosedShort(o)) =>
        \A f \in ToSet(tape) \ facts :
            LET receipt == Receipt(Latest(f.order))
            IN  /\ Admissible(f)
                /\ \/ Attributable(RowKey(f.order), f.order)
                   \/ CanUpsert(orders, Client[f.order], receipt)
=============================================================================
