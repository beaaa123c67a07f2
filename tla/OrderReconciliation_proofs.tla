--------------------- MODULE OrderReconciliation_proofs ---------------------
(***************************************************************************)
(* Proofs about the order path, from the table to the whole.  First the    *)
(* order table by itself (its type, unique order ids, receipts that agree  *)
(* with the admitted intent, rows that only grow and survive), for every   *)
(* set of identifiers, payloads and quantities.                            *)
(*                                                                         *)
(* Then durable submission over it, for any number of callers, client ids  *)
(* and attempts, under the assumption that every message about an order    *)
(* names its client id (EchoesClientId).  "One submission at most" is not  *)
(* inductive: that nobody sends a client id twice rests on its row never   *)
(* disappearing, which rests on no other key ever holding its order id.    *)
(* CoreInv adds where rows may be (Filed), that rows and claims agree      *)
(* (Counted) and that whoever sends, every request on the network and      *)
(* every order at the venue has its row with the same payload (BackedBy).  *)
(* TruthInv adds that rows, answers and outcomes are borne out by the      *)
(* venue's order, now and for good.                                        *)
(*                                                                         *)
(* Then submissions beside the audit, the events, the backfill and         *)
(* cancel-all: what these write is borne out by the venue although they    *)
(* work from stale reads, so that what holds of submissions by themselves  *)
(* holds among them.  The invariant says what a stale read is worth: a     *)
(* listed order is the venue's now or earlier (Was), and a row that was    *)
(* read is still there, for the same payload and with no fewer fills       *)
(* (Reread).                                                               *)
(***************************************************************************)
EXTENDS OrderReconciliation, TLAPS

-----------------------------------------------------------------------------
(* The order table: what its operators return.                             *)

\* Reserving a key yields a table again, changed at that key only.
LEMMA ReservedTable ==
    ASSUME NEW t \in [Keys -> Rows \cup {NoRow}], NEW k \in Keys, NEW p \in Payloads
    PROVE  /\ Reserved(t, k, p) \in [Keys -> Rows \cup {NoRow}]
           /\ Reserved(t, k, p)[k] \in Rows
           /\ Reserved(t, k, p)[k] =
                [oid |-> k, status |-> "PENDING", filled |-> 0, pay |-> p, intent |-> TRUE]
           /\ \A j \in Keys \ {k} : Reserved(t, k, p)[j] = t[j]
  <1>1. [oid |-> k, status |-> "PENDING", filled |-> 0, pay |-> p, intent |-> TRUE] \in Rows
    BY BoundAssumption DEF Rows, Statuses, PendingStatuses
  <1> QED  BY <1>1 DEF Reserved

\* A receipt filed as a row is a row that says what the receipt says.
LEMMA RowOfReceipt ==
    ASSUME NEW r \in Receipts, NEW b \in BOOLEAN
    PROVE  /\ RowOf(r, b) \in Rows
           /\ RowOf(r, b).oid = r.oid /\ RowOf(r, b).status = r.status
           /\ RowOf(r, b).filled = r.filled /\ RowOf(r, b).pay = r.pay
           /\ RowOf(r, b).intent = b
  BY DEF RowOf, Receipts, Rows

\* An upsert yields a table again: the receipt at its key, no row at any other
\* key that held the receipt's order id, and every other key as it was.
LEMMA UpsertedTable ==
    ASSUME NEW t \in [Keys -> Rows \cup {NoRow}], NEW k \in Keys, NEW r \in Receipts
    PROVE  /\ Upserted(t, k, r) \in [Keys -> Rows \cup {NoRow}]
           /\ Upserted(t, k, r)[k] = RowOf(r, t[k] # NoRow /\ t[k].intent)
           /\ Upserted(t, k, r)[k] \in Rows
           /\ \A j \in Keys \ {k} :
                 Upserted(t, k, r)[j] = IF j \in Holders(t, r.oid) THEN NoRow ELSE t[j]
  <1>1. (t[k] # NoRow /\ t[k].intent) \in BOOLEAN
    BY DEF Rows
  <1>2. RowOf(r, t[k] # NoRow /\ t[k].intent) \in Rows
    BY <1>1, RowOfReceipt
  <1> QED  BY <1>2 DEF Upserted

\* A row that exists is not the absence of a row.
LEMMA NoRowIsNoRow == \A x \in Rows : x # NoRow
  BY NoRowAssumption

-----------------------------------------------------------------------------
(* The inductive invariant: no part needs the others, except the type.     *)

StoreInv == StoreTypeOK /\ OrderIdsUnique /\ AdmittedReceipts

\* An empty table satisfies the invariant.
LEMMA InitStoreInv == StoreInit => StoreInv
  BY DEF StoreInit, StoreInv, StoreTypeOK, OrderIdsUnique, AdmittedReceipts, Holders

\* reserve_submission keeps the invariant.
LEMMA ReserveKeepsInv ==
    ASSUME StoreInv, NEW k \in Keys, NEW p \in Payloads, ReserveSubmission(k, p)
    PROVE  StoreInv'
  <1>1. orders' = Reserved(orders, k, p) /\ CanReserve(orders, k)
    BY DEF ReserveSubmission
  <1>2. orders \in [Keys -> Rows \cup {NoRow}]
    BY DEF StoreInv, StoreTypeOK
  <1>3. /\ orders' \in [Keys -> Rows \cup {NoRow}]
        /\ orders'[k] = [oid |-> k, status |-> "PENDING", filled |-> 0, pay |-> p, intent |-> TRUE]
        /\ \A j \in Keys \ {k} : orders'[j] = orders[j]
    BY <1>1, <1>2, ReservedTable
  <1>4. OrderIdsUnique'
    BY <1>1, <1>2, <1>3 DEF StoreInv, OrderIdsUnique, Holders, CanReserve
  <1>5. AdmittedReceipts'
    <2> SUFFICES ASSUME NEW j \in Keys, orders'[j] # NoRow, orders'[j].intent
                 PROVE  AgreesWithIntent(orders'[j].pay, orders'[j])
      BY DEF AdmittedReceipts
    <2>1. CASE j = k
      BY <2>1, <1>3, QuantityAssumption DEF AgreesWithIntent
    <2>2. CASE j # k
      BY <2>2, <1>3 DEF StoreInv, AdmittedReceipts
    <2> QED  BY <2>1, <2>2
  <1> QED  BY <1>3, <1>4, <1>5 DEF StoreInv, StoreTypeOK

\* upsert_by_client_id keeps the invariant, whatever the receipt says.
LEMMA UpsertKeepsInv ==
    ASSUME StoreInv, NEW k \in Keys, NEW r \in Receipts, UpsertByClientId(k, r)
    PROVE  StoreInv'
  <1>1. orders' = Upserted(orders, k, r) /\ CanUpsert(orders, k, r)
    BY DEF UpsertByClientId
  <1>2. orders \in [Keys -> Rows \cup {NoRow}]
    BY DEF StoreInv, StoreTypeOK
  <1>b. (orders[k] # NoRow /\ orders[k].intent) \in BOOLEAN
    BY <1>2 DEF Rows
  <1>3. /\ orders' \in [Keys -> Rows \cup {NoRow}]
        /\ orders'[k] = RowOf(r, orders[k] # NoRow /\ orders[k].intent)
        /\ orders'[k] \in Rows
        /\ \A j \in Keys \ {k} :
              orders'[j] = IF j \in Holders(orders, r.oid) THEN NoRow ELSE orders[j]
    BY <1>1, <1>2, UpsertedTable
  <1>4. /\ orders'[k].oid = r.oid /\ orders'[k].status = r.status
        /\ orders'[k].filled = r.filled /\ orders'[k].pay = r.pay
        /\ orders'[k].intent = (orders[k] # NoRow /\ orders[k].intent)
    <2> DEFINE admitted == orders[k] # NoRow /\ orders[k].intent
    <2>1. admitted \in BOOLEAN /\ orders'[k] = RowOf(r, admitted)
      BY <1>b, <1>3
    <2> HIDE DEF admitted
    <2>2. /\ orders'[k].oid = r.oid /\ orders'[k].status = r.status
          /\ orders'[k].filled = r.filled /\ orders'[k].pay = r.pay
          /\ orders'[k].intent = admitted
      BY <2>1, RowOfReceipt
    <2> QED  BY <2>2 DEF admitted
  <1>5. OrderIdsUnique'
    <2> SUFFICES ASSUME NEW o \in Keys, NEW i \in Keys, NEW j \in Keys,
                        orders'[i] # NoRow, orders'[j] # NoRow,
                        orders'[i].oid = o, orders'[j].oid = o
                 PROVE  i = j
      BY DEF OrderIdsUnique, Holders
    <2>1. CASE i # k /\ j # k
      BY <2>1, <1>3 DEF StoreInv, OrderIdsUnique, Holders
    <2>2. CASE i = k /\ j # k
      BY <2>2, <1>3, <1>4 DEF Holders
    <2>3. CASE i # k /\ j = k
      BY <2>3, <1>3, <1>4 DEF Holders
    <2> QED  BY <2>1, <2>2, <2>3
  <1>6. AdmittedReceipts'
    <2> SUFFICES ASSUME NEW j \in Keys, orders'[j] # NoRow, orders'[j].intent
                 PROVE  AgreesWithIntent(orders'[j].pay, orders'[j])
      BY DEF AdmittedReceipts
    <2>1. CASE j = k
      <3>1. CanPreserve(orders[k], r) /\ orders[k].intent
        BY <2>1, <1>1, <1>4 DEF CanUpsert
      <3> QED  BY <2>1, <3>1, <1>4 DEF CanPreserve, AgreesWithIntent
    <2>2. CASE j # k
      BY <2>2, <1>3 DEF StoreInv, AdmittedReceipts
    <2> QED  BY <2>1, <2>2
  <1> QED  BY <1>3, <1>5, <1>6 DEF StoreInv, StoreTypeOK

\* update_status keeps the invariant: it writes status and fills only.
LEMMA UpdateStatusKeepsInv ==
    ASSUME StoreInv, NEW o \in Keys, NEW s \in Statuses, NEW f \in 0..MaxFilled,
           UpdateStatus(o, s, f)
    PROVE  StoreInv'
  <1>1. PICK k \in Holders(orders, o) :
           /\ CanPreserve(orders[k], [orders[k] EXCEPT !.status = s, !.filled = f])
           /\ orders' = [orders EXCEPT ![k] = [orders[k] EXCEPT !.status = s, !.filled = f]]
    BY DEF UpdateStatus
  <1> DEFINE r == [orders[k] EXCEPT !.status = s, !.filled = f]
  <1>2. k \in Keys /\ orders[k] \in Rows /\ orders \in [Keys -> Rows \cup {NoRow}]
    BY DEF Holders, StoreInv, StoreTypeOK
  <1>3. /\ r \in Rows /\ r.oid = orders[k].oid /\ r.intent = orders[k].intent
        /\ r.status = s /\ r.filled = f /\ r.pay = orders[k].pay
    BY <1>2 DEF Rows
  <1>4. orders' \in [Keys -> Rows \cup {NoRow}] /\ orders'[k] = r
        /\ \A j \in Keys \ {k} : orders'[j] = orders[j]
    BY <1>1, <1>2, <1>3
  <1>a. CanPreserve(orders[k], r)
    BY <1>1
  <1> HIDE DEF r
  <1>5. OrderIdsUnique'
    <2>1. \A j \in Keys : orders'[j] # NoRow =>
             orders[j] # NoRow /\ orders'[j].oid = orders[j].oid
      BY <1>2, <1>3, <1>4, NoRowIsNoRow
    <2> QED  BY <2>1 DEF StoreInv, OrderIdsUnique, Holders
  <1>6. AdmittedReceipts'
    <2> SUFFICES ASSUME NEW j \in Keys, orders'[j] # NoRow, orders'[j].intent
                 PROVE  AgreesWithIntent(orders'[j].pay, orders'[j])
      BY DEF AdmittedReceipts
    <2>1. CASE j = k
      BY <2>1, <1>a, <1>3, <1>4 DEF CanPreserve, AgreesWithIntent
    <2>2. CASE j # k
      BY <2>2, <1>4 DEF StoreInv, AdmittedReceipts
    <2> QED  BY <2>1, <2>2
  <1> QED  BY <1>4, <1>5, <1>6 DEF StoreInv, StoreTypeOK

\* Every transaction keeps the invariant.
LEMMA NextStoreInv == StoreInv /\ [StoreNext]_orders => StoreInv'
  <1> SUFFICES ASSUME StoreInv, [StoreNext]_orders PROVE StoreInv'
    OBVIOUS
  <1>1. CASE \E k \in Keys, p \in Payloads : ReserveSubmission(k, p)
    BY <1>1, ReserveKeepsInv
  <1>2. CASE \E k \in Keys, r \in Receipts : UpsertByClientId(k, r)
    BY <1>2, UpsertKeepsInv
  <1>3. CASE \E o \in Keys, s \in Statuses, f \in 0..MaxFilled : UpdateStatus(o, s, f)
    BY <1>3, UpdateStatusKeepsInv
  <1>4. ASSUME NEW old \in SUBSET Keys, CleanupOldOrders(old)
        PROVE  StoreInv'
    BY <1>4 DEF CleanupOldOrders, StoreInv, StoreTypeOK, OrderIdsUnique, Holders,
                AdmittedReceipts
  <1>5. CASE UNCHANGED orders
    BY <1>5 DEF StoreInv, StoreTypeOK, OrderIdsUnique, Holders, AdmittedReceipts
  <1> QED  BY <1>1, <1>2, <1>3, <1>4, <1>5 DEF StoreNext

\* The table's type, the uniqueness of order ids and the agreement of admitted
\* rows with their intent hold in every reachable state.
THEOREM StoreSafety == StoreSpec => []StoreInv
  BY InitStoreInv, NextStoreInv, PTL DEF StoreSpec

\* No two rows ever share an order id.
THEOREM OrderIdsStayUnique == StoreSpec => []OrderIdsUnique
  <1>1. StoreInv => OrderIdsUnique
    BY DEF StoreInv
  <1> QED  BY <1>1, StoreSafety, PTL

\* Admitted rows agree with their intent.
THEOREM ReceiptsStayAdmitted == StoreSpec => []AdmittedReceipts
  <1>1. StoreInv => AdmittedReceipts
    BY DEF StoreInv
  <1> QED  BY <1>1, StoreSafety, PTL

-----------------------------------------------------------------------------
(* Action properties.                                                      *)

\* What one row may become while it exists.
Grows(old, new) ==
    /\ new.filled >= old.filled
    /\ old.status \in VenueTerminal => new = old
    /\ old.intent => new.intent /\ new.pay = old.pay

\* A row that does not change has grown.
LEMMA GrowsReflexive == \A x \in Rows : Grows(x, x)
  BY BoundAssumption DEF Grows, Rows

\* A receipt that CanPreserve lets through only makes the row grow.
LEMMA PreservedGrows ==
    ASSUME NEW old \in Rows, NEW new \in Rows, CanPreserve(old, new),
           new.intent = old.intent
    PROVE  Grows(old, new)
  <1>1. old.status \in VenueTerminal => new = old
    BY DEF CanPreserve, SameReceipt, Rows
  <1> QED  BY <1>1 DEF CanPreserve, AgreesWithIntent, Grows

\* Whatever the transaction, a row that is still there has only grown.
LEMMA StepGrows ==
    ASSUME StoreTypeOK, [StoreNext]_orders,
           NEW k \in Keys, orders[k] # NoRow, orders'[k] # NoRow
    PROVE  Grows(orders[k], orders'[k])
  <1>1. orders \in [Keys -> Rows \cup {NoRow}] /\ orders[k] \in Rows
    BY DEF StoreTypeOK
  <1>2. ASSUME NEW j \in Keys, NEW p \in Payloads, ReserveSubmission(j, p)
        PROVE  orders'[k] = orders[k]
    <2>1. j # k /\ orders' = Reserved(orders, j, p)
      BY <1>2 DEF ReserveSubmission, CanReserve
    <2> QED  BY <2>1, <1>1 DEF Reserved
  <1>3. ASSUME NEW j \in Keys, NEW r \in Receipts, UpsertByClientId(j, r)
        PROVE  Grows(orders[k], orders'[k])
    <2>1. orders' = Upserted(orders, j, r) /\ CanUpsert(orders, j, r)
      BY <1>3 DEF UpsertByClientId
    <2>2. CASE j # k
      <3>1. orders'[k] = orders[k]
        BY <2>1, <2>2, <1>1, UpsertedTable
      <3> QED  BY <3>1, <1>1, GrowsReflexive
    <2>3. CASE j = k
      <3>1. (orders[k] # NoRow /\ orders[k].intent) = orders[k].intent /\ orders[k].intent \in BOOLEAN
        BY <1>1 DEF Rows
      <3>2. /\ orders'[k] \in Rows
            /\ orders'[k].oid = r.oid /\ orders'[k].status = r.status
            /\ orders'[k].filled = r.filled /\ orders'[k].pay = r.pay
            /\ orders'[k].intent = orders[k].intent
        BY <2>1, <2>3, <3>1, <1>1, UpsertedTable, RowOfReceipt
      <3>3. CanPreserve(orders[k], r)
        BY <2>1, <2>3 DEF CanUpsert
      <3>4. CanPreserve(orders[k], orders'[k])
        BY <3>2, <3>3 DEF CanPreserve, AgreesWithIntent, SameReceipt
      <3> QED  BY <3>2, <3>4, <1>1, PreservedGrows
    <2> QED  BY <2>2, <2>3
  <1>4. ASSUME NEW o \in Keys, NEW s \in Statuses, NEW f \in 0..MaxFilled,
               UpdateStatus(o, s, f)
        PROVE  Grows(orders[k], orders'[k])
    <2>1. PICK j \in Holders(orders, o) :
             /\ CanPreserve(orders[j], [orders[j] EXCEPT !.status = s, !.filled = f])
             /\ orders' = [orders EXCEPT ![j] = [orders[j] EXCEPT !.status = s, !.filled = f]]
      BY <1>4 DEF UpdateStatus
    <2> DEFINE r == [orders[j] EXCEPT !.status = s, !.filled = f]
    <2>2. j \in Keys /\ orders[j] \in Rows
      BY <1>1 DEF Holders
    <2>3. r \in Rows /\ r.intent = orders[j].intent
      BY <2>2 DEF Rows
    <2>4. CanPreserve(orders[j], r) /\ orders' = [orders EXCEPT ![j] = r]
      BY <2>1
    <2> HIDE DEF r
    <2>5. CASE j = k
      <3>1. orders'[k] = r
        BY <2>4, <2>5, <1>1
      <3> QED  BY <3>1, <2>2, <2>3, <2>4, <2>5, PreservedGrows
    <2>6. CASE j # k
      <3>1. orders'[k] = orders[k]
        BY <2>4, <2>6, <1>1
      <3> QED  BY <3>1, <1>1, GrowsReflexive
    <2> QED  BY <2>5, <2>6
  <1>5. ASSUME NEW old \in SUBSET Keys, CleanupOldOrders(old)
        PROVE  orders'[k] = orders[k]
    BY <1>5 DEF CleanupOldOrders
  <1>6. CASE UNCHANGED orders
    BY <1>6, <1>1, GrowsReflexive
  <1> QED  BY <1>1, <1>2, <1>3, <1>4, <1>5, <1>6, GrowsReflexive DEF StoreNext

\* While a row exists its fills never shrink, a venue-terminal receipt never
\* changes, and the admitted intent is kept, in every behaviour of the store.
THEOREM ReceiptsGrow == StoreSpec => ReceiptsOnlyGrow
  <1>1. StoreInv /\ [StoreNext]_orders =>
           [\A k \in Keys :
              orders[k] # NoRow /\ orders'[k] # NoRow =>
                /\ orders'[k].filled >= orders[k].filled
                /\ orders[k].status \in VenueTerminal => orders'[k] = orders[k]
                /\ orders[k].intent =>
                       orders'[k].intent /\ orders'[k].pay = orders[k].pay]_orders
    BY StepGrows DEF Grows, StoreInv
  <1> QED  BY <1>1, StoreSafety, PTL DEF StoreSpec, ReceiptsOnlyGrow

\* No transaction removes a row that is still pending, unless a receipt that
\* does not name the client id takes over its order id: when every receipt names
\* it, INSERT OR REPLACE has nothing to replace.
THEOREM PendingRowsSurvive == StoreSpec => ReservationsSurvive
  <1>1. StoreInv /\ [StoreNext]_orders =>
           [\A k \in Keys :
              orders[k] # NoRow /\ orders[k].status \in PendingStatuses =>
                \/ orders'[k] # NoRow
                \/ /\ ~EchoesClientId
                   /\ \E j \in Keys :
                         orders'[j] # NoRow /\ orders'[j].oid = orders[k].oid]_orders
    <2> SUFFICES ASSUME StoreInv, StoreNext, NEW k \in Keys, orders[k] # NoRow,
                        orders[k].status \in PendingStatuses
                 PROVE  \/ orders'[k] # NoRow
                        \/ /\ ~EchoesClientId
                           /\ \E j \in Keys :
                                 orders'[j] # NoRow /\ orders'[j].oid = orders[k].oid
      OBVIOUS
    <2>1. orders \in [Keys -> Rows \cup {NoRow}] /\ orders[k] \in Rows
      BY DEF StoreInv, StoreTypeOK
    <2>2. ASSUME NEW j \in Keys, NEW p \in Payloads, ReserveSubmission(j, p)
          PROVE  orders'[k] # NoRow
      <3>1. j # k /\ orders' = Reserved(orders, j, p)
        BY <2>2 DEF ReserveSubmission, CanReserve
      <3> QED  BY <3>1, <2>1 DEF Reserved
    <2>3. ASSUME NEW j \in Keys, NEW r \in Receipts, UpsertByClientId(j, r)
          PROVE  \/ orders'[k] # NoRow
                 \/ ~EchoesClientId /\ orders'[j] # NoRow /\ orders'[j].oid = orders[k].oid
      <3>1. /\ orders' = Upserted(orders, j, r)
            /\ EchoesClientId => Holders(orders, r.oid) \subseteq {j}
        BY <2>3 DEF UpsertByClientId
      <3>2. CASE j = k
        BY <3>1, <3>2, <2>1, UpsertedTable, NoRowIsNoRow
      <3>3. CASE j # k /\ k \notin Holders(orders, r.oid)
        BY <3>1, <3>3, <2>1, UpsertedTable
      <3>4. CASE j # k /\ k \in Holders(orders, r.oid)
        <4>1. ~EchoesClientId /\ orders[k].oid = r.oid
          BY <3>1, <3>4 DEF Holders
        <4>2. (orders[j] # NoRow /\ orders[j].intent) \in BOOLEAN
          BY <2>1 DEF Rows
        <4>3. /\ orders'[j] \in Rows
              /\ orders'[j] = RowOf(r, orders[j] # NoRow /\ orders[j].intent)
          BY <3>1, <2>1, UpsertedTable
        <4>4. orders'[j].oid = r.oid
          BY <4>2, <4>3, RowOfReceipt
        <4> QED  BY <4>1, <4>3, <4>4, NoRowIsNoRow
      <3> QED  BY <3>2, <3>3, <3>4
    <2>4. ASSUME NEW o \in Keys, NEW s \in Statuses, NEW f \in 0..MaxFilled,
                 UpdateStatus(o, s, f)
          PROVE  orders'[k] # NoRow
      <3>1. PICK j \in Holders(orders, o) :
               orders' = [orders EXCEPT ![j] = [orders[j] EXCEPT !.status = s, !.filled = f]]
        BY <2>4 DEF UpdateStatus
      <3>2. [orders[j] EXCEPT !.status = s, !.filled = f] \in Rows /\ j \in Keys
        BY <2>1 DEF Holders, Rows
      <3> DEFINE r == [orders[j] EXCEPT !.status = s, !.filled = f]
      <3>3. orders' = [orders EXCEPT ![j] = r] /\ r \in Rows
        BY <3>1, <3>2
      <3> HIDE DEF r
      <3> QED  BY <3>2, <3>3, <2>1, NoRowIsNoRow
    <2>5. ASSUME NEW old \in SUBSET Keys, CleanupOldOrders(old)
          PROVE  orders'[k] # NoRow
      BY <2>5 DEF CleanupOldOrders
    <2> QED  BY <2>2, <2>3, <2>4, <2>5 DEF StoreNext
  <1> QED  BY <1>1, StoreSafety, PTL DEF StoreSpec, ReservationsSurvive

-----------------------------------------------------------------------------
(* The submission protocol: what is under way, and what has its row.        *)

Answered == {"reply", "record", "refuse"}
Working == {"send", "reply", "record", "refuse", "noid", "fail"}

AdmittedFor(c, p) == orders[c] # NoRow /\ orders[c].pay = p

Filed ==
    /\ \A k \in Keys \ ClientIds : orders[k] = NoRow
    /\ \A c \in ClientIds :
          orders[c] # NoRow => orders[c].intent /\ orders[c].oid \in {c, VenueId[c]}

Counted == \A c \in ClientIds : claims[c] = IF orders[c] = NoRow THEN 0 ELSE 1

BackedBy(v, l, cl) ==
    /\ \A w \in Callers :
          /\ cl[w].pc \in Working => AdmittedFor(cl[w].cid, cl[w].pay)
          /\ cl[w].pc \in Answered => cl[w].receipt # NoOrder
          /\ cl[w].pc = "existing" => cl[w].seen # NoRow
    /\ \A q \in l : AdmittedFor(q.cid, q.pay)
    /\ \A c \in ClientIds : v[c] # NoOrder => AdmittedFor(c, v[c].pay)

CoreInv == TypeOK /\ Filed /\ Counted /\ BackedBy(venue, late, call)

\* A step keeps each client id's row, or its absence, and the admitted payload.
SameRows ==
    \A c \in ClientIds :
        /\ orders[c] = NoRow => orders'[c] = NoRow
        /\ orders[c] # NoRow => orders'[c] # NoRow /\ orders'[c].pay = orders[c].pay

-----------------------------------------------------------------------------
(* How a step changes the caller's record.                                 *)

\* Move: the caller goes on with the same client id and payload.
LEMMA CallMoved ==
    ASSUME TypeOK, NEW w \in Callers, NEW step \in Steps, NEW a \in 1..MaxAttempts,
           NEW v \in VenueOrders \cup {NoOrder}, NEW b \in BOOLEAN, Move(w, step, a, v, b)
    PROVE  /\ call' \in [Callers -> Calls]
           /\ call'[w].pc = step /\ call'[w].receipt = v /\ call'[w].outcome = "none"
           /\ call'[w].cid = call[w].cid /\ call'[w].pay = call[w].pay
           /\ call'[w].seen = NoRow
           /\ \A u \in Callers \ {w} : call'[u] = call[u]
  BY DEF TypeOK, Move, Calls, Outcomes

\* The fields of a caller's record.
LEMMA CallIsTyped ==
    ASSUME TypeOK, NEW w \in Callers
    PROVE  /\ call[w].pc \in Steps /\ call[w].cid \in ClientIds /\ call[w].pay \in Payloads
           /\ call[w].attempt \in 1..MaxAttempts /\ call[w].seen \in Rows \cup {NoRow}
           /\ call[w].receipt \in VenueOrders \cup {NoOrder} /\ call[w].refusal \in BOOLEAN
           /\ call[w].outcome \in Outcomes
  BY DEF TypeOK, Calls

\* Goto: the same, with the broker's answer kept.
LEMMA CallWent ==
    ASSUME TypeOK, NEW w \in Callers, NEW step \in Steps, Goto(w, step)
    PROVE  /\ call' \in [Callers -> Calls]
           /\ call'[w].pc = step /\ call'[w].receipt = call[w].receipt
           /\ call'[w].outcome = "none"
           /\ call'[w].cid = call[w].cid /\ call'[w].pay = call[w].pay
           /\ call'[w].seen = NoRow
           /\ \A u \in Callers \ {w} : call'[u] = call[u]
  BY CallMoved, CallIsTyped DEF Goto

\* Finish: the caller has its outcome.
LEMMA CallFinished ==
    ASSUME TypeOK, NEW w \in Callers, NEW o \in Outcomes, Finish(w, o)
    PROVE  /\ call' \in [Callers -> Calls]
           /\ call'[w].pc = "done" /\ call'[w].outcome = o
           /\ call'[w].cid = call[w].cid /\ call'[w].pay = call[w].pay
           /\ \A u \in Callers \ {w} : call'[u] = call[u]
  BY AttemptsAssumption DEF TypeOK, Finish, NewCall, Calls, Steps

\* Saw: the caller holds the row it read.
LEMMA CallLooked ==
    ASSUME TypeOK, NEW w \in Callers, NEW row \in Rows \cup {NoRow}, NEW step \in Steps,
           Saw(w, row, step)
    PROVE  /\ call' \in [Callers -> Calls]
           /\ call'[w].pc = step /\ call'[w].seen = row
           /\ call'[w].cid = call[w].cid /\ call'[w].pay = call[w].pay
           /\ call'[w].outcome = "none"
           /\ \A u \in Callers \ {w} : call'[u] = call[u]
  BY AttemptsAssumption DEF TypeOK, Saw, Calls, Outcomes

-----------------------------------------------------------------------------
(* How a step changes the table.                                           *)

\* With rows where Filed says, an order id of c is held by c's row or by none.
LEMMA OwnHolders ==
    ASSUME Filed, NEW c \in ClientIds, NEW o \in {c, VenueId[c]}
    PROVE  Holders(orders, o) \subseteq {c}
  BY IdsAssumption DEF Filed, Holders

\* An accepted upsert under a client id that has its row changes that row only,
\* and keeps what was admitted.
LEMMA UpsertOwn ==
    ASSUME TypeOK, Filed, NEW c \in ClientIds, NEW r \in Receipts,
           r.oid \in {c, VenueId[c]}, orders[c] # NoRow,
           CanUpsert(orders, c, r), orders' = Upserted(orders, c, r)
    PROVE  /\ StoreTypeOK' /\ Filed' /\ SameRows
           /\ orders'[c].status = r.status /\ orders'[c].filled = r.filled
           /\ orders'[c].oid = r.oid
           /\ \A k \in Keys \ {c} : orders'[k] = orders[k]
  <1>1. c \in Keys /\ orders \in [Keys -> Rows \cup {NoRow}] /\ orders[c] \in Rows
    BY IdsAssumption DEF TypeOK, StoreTypeOK
  <1>2. orders[c].intent /\ (orders[c] # NoRow /\ orders[c].intent) \in BOOLEAN
    BY <1>1 DEF Filed, Rows
  <1>3. /\ orders' \in [Keys -> Rows \cup {NoRow}]
        /\ orders'[c] = RowOf(r, orders[c] # NoRow /\ orders[c].intent)
        /\ orders'[c] \in Rows
        /\ \A k \in Keys \ {c} :
              orders'[k] = IF k \in Holders(orders, r.oid) THEN NoRow ELSE orders[k]
    BY <1>1, UpsertedTable
  <1>4. /\ orders'[c].oid = r.oid /\ orders'[c].status = r.status
        /\ orders'[c].filled = r.filled /\ orders'[c].pay = r.pay /\ orders'[c].intent
    <2> DEFINE admitted == orders[c] # NoRow /\ orders[c].intent
    <2>1. admitted \in BOOLEAN /\ orders'[c] = RowOf(r, admitted)
      BY <1>2, <1>3
    <2> HIDE DEF admitted
    <2>2. /\ orders'[c].oid = r.oid /\ orders'[c].status = r.status
          /\ orders'[c].filled = r.filled /\ orders'[c].pay = r.pay
          /\ orders'[c].intent = admitted
      BY <2>1, RowOfReceipt
    <2> QED  BY <1>2, <2>2 DEF admitted
  <1>5. \A k \in Keys \ {c} : orders'[k] = orders[k]
    BY <1>3, OwnHolders
  <1>6. r.pay = orders[c].pay
    BY <1>2 DEF CanUpsert, CanPreserve, AgreesWithIntent
  <1>7. orders'[c] # NoRow
    BY <1>3, NoRowIsNoRow
  <1>8. SameRows
    BY <1>4, <1>5, <1>6, <1>7, IdsAssumption DEF SameRows
  <1>9. Filed'
    BY <1>4, <1>5, IdsAssumption DEF Filed
  <1> QED  BY <1>3, <1>4, <1>5, <1>8, <1>9 DEF StoreTypeOK

\* A step that keeps the rows and the claims, and leaves nothing at work without
\* a row, keeps the core invariant.
LEMMA KeepsCore ==
    ASSUME CoreInv, TypeOK', Filed', SameRows, claims' = claims,
           BackedBy(venue', late', call')
    PROVE  CoreInv'
  <1>1. Counted'
    BY DEF CoreInv, Counted, SameRows
  <1>2. \A c \in ClientIds : \A p : AdmittedFor(c, p) => AdmittedFor(c, p)'
    BY DEF SameRows, AdmittedFor
  <1>3. /\ \A w \in Callers : call'[w].cid \in ClientIds
        /\ \A q \in late' : q.cid \in ClientIds
    BY DEF TypeOK, Calls, Requests
  <1>4. BackedBy(venue, late, call)'
    BY <1>2, <1>3 DEF BackedBy
  <1> QED  BY <1>1, <1>4 DEF CoreInv

\* A step that leaves the table alone keeps what is true of its rows.
LEMMA UnchangedRows ==
    ASSUME CoreInv, UNCHANGED orders
    PROVE  Filed' /\ SameRows /\ StoreTypeOK'
  BY DEF CoreInv, TypeOK, Filed, SameRows, StoreTypeOK

\* A state of an order at the venue names the payload that was asked for.
LEMMA VenueStateTyped ==
    ASSUME NEW p \in Payloads, NEW v \in VenueStatesOf(p)
    PROVE  v \in VenueOrders /\ v.pay = p /\ v # NoOrder
  <1>1. v \in [status: Statuses, filled: 0..Quantity[p], pay: {p}]
    BY DEF VenueStatesOf
  <1>2. Quantity[p] \in Nat /\ Quantity[p] <= MaxFilled /\ MaxFilled \in Nat
    BY QuantityAssumption, BoundAssumption
  <1>3. v \in VenueOrders /\ v.pay = p
    BY <1>1, <1>2 DEF VenueOrders
  <1> QED  BY <1>3, NoOrderAssumption

-----------------------------------------------------------------------------
(* Every step keeps the core invariant.                                    *)

\* Nothing has been reserved, sent or counted yet.
LEMMA InitCore == Init => CoreInv
  <1> SUFFICES ASSUME Init PROVE CoreInv
    OBVIOUS
  <1>1. \A w \in Callers : call[w] \in Calls /\ call[w].pc = "idle"
    <2> SUFFICES ASSUME NEW w \in Callers PROVE call[w] \in Calls /\ call[w].pc = "idle"
      OBVIOUS
    <2>1. PICK c \in ClientIds, p \in Payloads : call[w] = NewCall("idle", c, p, "none")
      BY DEF Init
    <2> QED  BY <2>1, AttemptsAssumption DEF NewCall, Calls, Steps, Outcomes
  <1>2. call \in [Callers -> Calls]
    <2>1. call = [w \in Callers |-> call[w]]
      BY DEF Init
    <2> QED  BY <2>1, <1>1
  <1>3. TypeOK
    BY <1>2 DEF Init, StoreInit, TypeOK, StoreTypeOK
  <1>4. Filed /\ Counted
    BY IdsAssumption DEF Init, StoreInit, Filed, Counted
  <1>5. BackedBy(venue, late, call)
    BY <1>1 DEF Init, BackedBy, Working, Answered
  <1> QED  BY <1>3, <1>4, <1>5 DEF CoreInv

\* A call that only finishes, with the table as it is.
LEMMA FinishKeepsCore ==
    ASSUME CoreInv, NEW w \in Callers, NEW o \in Outcomes, Finish(w, o),
           UNCHANGED <<orders, venue, late, claims>>, openOrders' \subseteq Keys
    PROVE  CoreInv'
  <1>1. TypeOK
    BY DEF CoreInv
  <1>2. /\ call' \in [Callers -> Calls] /\ call'[w].pc = "done"
        /\ \A u \in Callers \ {w} : call'[u] = call[u]
    BY <1>1, CallFinished
  <1>3. TypeOK'
    BY <1>1, <1>2 DEF TypeOK, StoreTypeOK
  <1>4. BackedBy(venue', late', call')
    BY <1>2 DEF CoreInv, BackedBy, Working, Answered
  <1> QED  BY <1>3, <1>4, KeepsCore, UnchangedRows

\* A call that moves on, with the table and the venue as they are, and that was
\* at work before.
LEMMA MoveKeepsCore ==
    ASSUME CoreInv, NEW w \in Callers, NEW step \in Steps, NEW a \in 1..MaxAttempts,
           NEW v \in VenueOrders \cup {NoOrder}, NEW b \in BOOLEAN, Move(w, step, a, v, b),
           call[w].pc \in Working, step # "existing", step \in Answered => v # NoOrder,
           UNCHANGED <<orders, venue, claims>>, openOrders' \subseteq Keys,
           late' \subseteq late \cup {[cid |-> call[w].cid, pay |-> call[w].pay]}
    PROVE  CoreInv'
  <1>1. TypeOK
    BY DEF CoreInv
  <1>2. /\ call' \in [Callers -> Calls]
        /\ call'[w].cid = call[w].cid /\ call'[w].pay = call[w].pay
        /\ call'[w].pc = step /\ call'[w].receipt = v
        /\ \A u \in Callers \ {w} : call'[u] = call[u]
    BY <1>1, CallMoved
  <1>3. [cid |-> call[w].cid, pay |-> call[w].pay] \in Requests
    BY <1>1, CallIsTyped DEF Requests
  <1>4. TypeOK'
    BY <1>1, <1>2, <1>3 DEF TypeOK, StoreTypeOK
  <1>5. AdmittedFor(call[w].cid, call[w].pay)
    BY DEF CoreInv, BackedBy
  <1>6. BackedBy(venue', late', call')
    BY <1>2, <1>5 DEF CoreInv, BackedBy
  <1> QED  BY <1>4, <1>6, KeepsCore, UnchangedRows

\* _persist_order keeps the core invariant, whatever becomes of the call.
LEMMA PersistKeepsCore ==
    ASSUME CoreInv, NEW w \in Callers, call[w].pc \in Working, NEW r \in Receipts,
           r.oid \in {call[w].cid, VenueId[call[w].cid]},
           \/ CanUpsert(orders, call[w].cid, r) /\ orders' = Upserted(orders, call[w].cid, r)
           \/ UNCHANGED orders,
           call' \in [Callers -> Calls], call'[w].pc \in {"done", "fail"},
           call'[w].cid = call[w].cid, call'[w].pay = call[w].pay,
           \A u \in Callers \ {w} : call'[u] = call[u],
           UNCHANGED <<venue, late, openOrders, claims>>
    PROVE  CoreInv'
  <1>1. TypeOK /\ Filed
    BY DEF CoreInv
  <1>2. AdmittedFor(call[w].cid, call[w].pay) /\ call[w].cid \in ClientIds
    BY <1>1, CallIsTyped DEF CoreInv, BackedBy
  <1>3. StoreTypeOK' /\ Filed' /\ SameRows
    <2>1. CASE UNCHANGED orders
      BY <2>1, UnchangedRows
    <2>2. CASE CanUpsert(orders, call[w].cid, r) /\ orders' = Upserted(orders, call[w].cid, r)
      BY <2>2, <1>1, <1>2, UpsertOwn DEF AdmittedFor
    <2> QED  BY <2>1, <2>2
  <1>4. TypeOK'
    BY <1>1, <1>3 DEF TypeOK
  <1>5. BackedBy(venue', late', call')
    BY <1>2 DEF CoreInv, BackedBy, Answered
  <1> QED  BY <1>3, <1>4, <1>5, KeepsCore

\* The records that the steps of a call persist are receipts of its own order.
LEMMA RecordsAreReceipts ==
    ASSUME TypeOK, NEW w \in Callers
    PROVE  /\ \A st \in {"REJECTED", "FAILED"} :
                 /\ SubmitIdRecord(w, st) \in Receipts
                 /\ SubmitIdRecord(w, st).oid = call[w].cid
           /\ call[w].receipt # NoOrder =>
                 /\ ReceiptRecord(w) \in Receipts
                 /\ ReceiptRecord(w).oid = VenueId[call[w].cid]
  <1>1. /\ call[w].cid \in Keys /\ VenueId[call[w].cid] \in Keys /\ call[w].pay \in Payloads
        /\ call[w].receipt \in VenueOrders \cup {NoOrder}
    BY CallIsTyped, IdsAssumption
  <1>2. "REJECTED" \in Statuses /\ "FAILED" \in Statuses /\ 0 \in 0..MaxFilled
    BY BoundAssumption DEF Statuses, VenueTerminal
  <1> QED  BY <1>1, <1>2 DEF SubmitIdRecord, ReceiptRecord, Receipts, VenueOrders

\* _record_pending_submission counts one submission exactly when it makes the row.
LEMMA ReserveKeepsCore ==
    ASSUME CoreInv, NEW w \in Callers, RecordPendingSubmission(w)
    PROVE  CoreInv'
  <1> DEFINE c == call[w].cid
             p == call[w].pay
  <1>1. /\ TypeOK /\ c \in ClientIds /\ p \in Payloads /\ c \in Keys
        /\ orders \in [Keys -> Rows \cup {NoRow}]
    BY CallIsTyped, IdsAssumption DEF CoreInv, TypeOK, StoreTypeOK
  <1>2. CASE /\ CanReserve(orders, c)
             /\ orders' = Reserved(orders, c, p)
             /\ claims' = [claims EXCEPT ![c] = @ + 1]
             /\ Goto(w, "send")
             /\ UNCHANGED <<venue, late, openOrders>>
    <2>1. /\ orders' \in [Keys -> Rows \cup {NoRow}]
          /\ orders'[c] = [oid |-> c, status |-> "PENDING", filled |-> 0, pay |-> p, intent |-> TRUE]
          /\ orders'[c] \in Rows
          /\ \A j \in Keys \ {c} : orders'[j] = orders[j]
      BY <1>1, <1>2, ReservedTable
    <2>2. orders'[c].oid = c /\ orders'[c].pay = p /\ orders'[c].intent /\ orders'[c] # NoRow
      <3>1. orders'[c] # NoRow
        BY <2>1, NoRowAssumption
      <3>2. orders'[c].oid = c /\ orders'[c].pay = p /\ orders'[c].intent
        BY <2>1
      <3> QED  BY <3>1, <3>2
    <2>3. /\ call' \in [Callers -> Calls]
          /\ call'[w].cid = c /\ call'[w].pay = p /\ call'[w].pc = "send"
          /\ \A u \in Callers \ {w} : call'[u] = call[u]
      <3>1. "send" \in Steps
        BY DEF Steps
      <3> QED  BY <1>1, <1>2, <3>1, CallWent
    <2>4. orders[c] = NoRow /\ claims[c] = 0
      BY <1>1, <1>2 DEF CanReserve, CoreInv, Counted
    <2>5. claims' \in [ClientIds -> Nat] /\ claims'[c] = 1
          /\ \A d \in ClientIds \ {c} : claims'[d] = claims[d]
      BY <1>1, <1>2, <2>4 DEF TypeOK
    <2>6. TypeOK'
      BY <1>1, <1>2, <2>1, <2>3, <2>5 DEF TypeOK, StoreTypeOK
    <2>7. Filed'
      BY <1>1, <2>1, <2>2, IdsAssumption DEF CoreInv, Filed
    <2>8. Counted'
      BY <1>1, <2>1, <2>2, <2>5, IdsAssumption DEF CoreInv, Counted
    <2>9. \A d \in ClientIds : \A x : AdmittedFor(d, x) => AdmittedFor(d, x)'
      BY <2>1, <2>4, IdsAssumption DEF AdmittedFor
    <2>10. /\ \A u \in Callers : call[u].cid \in ClientIds
           /\ \A q \in late : q.cid \in ClientIds
      BY <1>1 DEF TypeOK, Calls, Requests
    <2>11. AdmittedFor(c, p)'
      BY <2>2, <2>3 DEF AdmittedFor
    <2>12. BackedBy(venue, late, call)'
      <3>1. ASSUME NEW u \in Callers, call'[u].pc \in Working
            PROVE  AdmittedFor(call[u].cid, call[u].pay)'
        <4>1. CASE u = w
          BY <4>1, <2>2, <2>3 DEF AdmittedFor
        <4>2. CASE u # w
          <5>1. call'[u] = call[u]
            BY <4>2, <2>3
          <5>2. AdmittedFor(call[u].cid, call[u].pay)
            BY <5>1, <3>1 DEF CoreInv, BackedBy
          <5> QED  BY <5>1, <5>2, <2>1, <2>4, <2>10, IdsAssumption DEF AdmittedFor
        <4> QED  BY <4>1, <4>2
      <3>2. ASSUME NEW q \in late PROVE AdmittedFor(q.cid, q.pay)'
        BY <2>9, <2>10 DEF CoreInv, BackedBy
      <3>3. ASSUME NEW d \in ClientIds, venue[d] # NoOrder PROVE AdmittedFor(d, venue[d].pay)'
        <4>1. AdmittedFor(d, venue[d].pay)
          BY <3>3 DEF CoreInv, BackedBy
        <4> QED  BY <4>1, <1>2, <2>1, <2>4, IdsAssumption DEF AdmittedFor
      <3>4. ASSUME NEW u \in Callers, call'[u].pc \in Answered
            PROVE  call'[u].receipt # NoOrder
        BY <3>4, <2>3 DEF CoreInv, BackedBy, Answered
      <3>5. ASSUME NEW u \in Callers, call'[u].pc = "existing"
            PROVE  call'[u].seen # NoRow
        BY <3>5, <2>3 DEF CoreInv, BackedBy
      <3> QED  BY <1>2, <3>1, <3>2, <3>3, <3>4, <3>5 DEF BackedBy, AdmittedFor
    <2> QED  BY <2>6, <2>7, <2>8, <2>12 DEF CoreInv
  <1>3. CASE /\ orders[c] # NoRow
             /\ Saw(w, orders[c], "existing")
             /\ UNCHANGED <<orders, claims, venue, late, openOrders>>
    <2>1. "existing" \in Steps /\ orders[c] \in Rows \cup {NoRow}
      BY <1>1 DEF Steps
    <2>2. /\ call' \in [Callers -> Calls] /\ call'[w].pc = "existing"
          /\ call'[w].seen = orders[c]
          /\ \A u \in Callers \ {w} : call'[u] = call[u]
      BY <1>1, <1>3, <2>1, CallLooked
    <2>3. TypeOK'
      BY <1>1, <1>3, <2>2 DEF TypeOK, StoreTypeOK
    <2>4. BackedBy(venue', late', call')
      BY <1>3, <2>2 DEF CoreInv, BackedBy, Working, Answered
    <2> QED  BY <1>3, <2>3, <2>4, KeepsCore, UnchangedRows
  <1> QED  BY <1>2, <1>3 DEF RecordPendingSubmission

\* The venue's own steps: an order appears for a request that has its row.
LEMMA VenueKeepsCore ==
    ASSUME CoreInv, NEW c \in ClientIds, NEW p \in Payloads, AdmittedFor(c, p),
           NEW v \in VenueStatesOf(p), venue' = [venue EXCEPT ![c] = v],
           late' \subseteq late, UNCHANGED <<orders, claims>>, openOrders' \subseteq Keys,
           call' \in [Callers -> Calls],
           \A w \in Callers :
              \/ call'[w] = call[w]
              \/ /\ call[w].pc \in Working
                 /\ call'[w].cid = call[w].cid /\ call'[w].pay = call[w].pay
                 /\ call'[w].receipt # NoOrder /\ call'[w].pc # "existing"
    PROVE  CoreInv'
  <1>1. TypeOK /\ v \in VenueOrders /\ v.pay = p /\ v # NoOrder
    BY VenueStateTyped DEF CoreInv
  <1>2. /\ venue' \in [ClientIds -> VenueOrders \cup {NoOrder}] /\ venue'[c] = v
        /\ \A d \in ClientIds \ {c} : venue'[d] = venue[d]
    BY <1>1 DEF TypeOK
  <1>3. TypeOK'
    BY <1>1, <1>2 DEF TypeOK, StoreTypeOK
  <1>4. ASSUME NEW w \in Callers
        PROVE  /\ call'[w].pc \in Working => AdmittedFor(call'[w].cid, call'[w].pay)
               /\ call'[w].pc \in Answered => call'[w].receipt # NoOrder
               /\ call'[w].pc = "existing" => call'[w].seen # NoRow
    <2>1. CASE call'[w] = call[w]
      BY <2>1 DEF CoreInv, BackedBy
    <2>2. CASE call'[w] # call[w]
      BY <2>2 DEF CoreInv, BackedBy
    <2> QED  BY <2>1, <2>2
  <1>5. BackedBy(venue', late', call')
    BY <1>1, <1>2, <1>4 DEF CoreInv, BackedBy
  <1> QED  BY <1>3, <1>5, KeepsCore, UnchangedRows

\* Every step of a submission keeps CoreInv.
LEMMA CallStepKeepsCore ==
    ASSUME CoreInv, NEW w \in Callers, CallStep(w)
    PROVE  CoreInv'
  <1> DEFINE c == call[w].cid
             p == call[w].pay
  <1>1. /\ TypeOK /\ c \in ClientIds /\ p \in Payloads /\ c \in Keys /\ VenueId[c] \in Keys
        /\ call[w].attempt \in 1..MaxAttempts /\ call[w].receipt \in VenueOrders \cup {NoOrder}
        /\ call[w].refusal \in BOOLEAN /\ NoOrder \in VenueOrders \cup {NoOrder}
        /\ openOrders \subseteq Keys
    BY CallIsTyped, IdsAssumption DEF CoreInv, TypeOK
  <1>2. ASSUME NEW d \in ClientIds, NEW x \in Payloads, SubmitOrderWithResult(w, d, x)
        PROVE  CoreInv'
    <2>1. /\ call' \in [Callers -> Calls] /\ call'[w].pc = "lookup"
          /\ \A u \in Callers \ {w} : call'[u] = call[u]
      BY <1>1, <1>2, AttemptsAssumption
         DEF SubmitOrderWithResult, NewCall, TypeOK, Calls, Steps, Outcomes
    <2>2. UNCHANGED <<orders, venue, late, openOrders, claims>>
      BY <1>2 DEF SubmitOrderWithResult
    <2>3. TypeOK'
      BY <1>1, <2>1, <2>2 DEF TypeOK, StoreTypeOK
    <2>4. BackedBy(venue', late', call')
      BY <2>1, <2>2 DEF CoreInv, BackedBy, Working, Answered
    <2> QED  BY <2>2, <2>3, <2>4, KeepsCore, UnchangedRows
  <1>3. CASE RejectMissingDecisionId(w)
    <2>1. "missing" \in Outcomes
      BY DEF Outcomes
    <2> QED  BY <1>1, <1>3, <2>1, FinishKeepsCore DEF RejectMissingDecisionId
  <1>4. CASE StoreUnavailable(w)
    <2>1. "uncertain" \in Outcomes
      BY DEF Outcomes
    <2> QED  BY <1>1, <1>4, <2>1, FinishKeepsCore DEF StoreUnavailable
  <1>5. CASE GetExistingRecord(w)
    <2>1. PICK step \in Steps \ (Working \cup Answered) :
             Saw(w, orders[c], step) /\ (step = "existing" => orders[c] # NoRow)
      BY <1>5 DEF GetExistingRecord, Steps, Working, Answered
    <2>2. UNCHANGED <<orders, venue, late, openOrders, claims>> /\ orders[c] \in Rows \cup {NoRow}
      BY <1>1, <1>5 DEF GetExistingRecord, TypeOK, StoreTypeOK
    <2>3. /\ call' \in [Callers -> Calls] /\ call'[w].pc = step /\ call'[w].seen = orders[c]
          /\ \A u \in Callers \ {w} : call'[u] = call[u]
      BY <1>1, <2>1, <2>2, CallLooked
    <2>4. TypeOK'
      BY <1>1, <2>2, <2>3 DEF TypeOK, StoreTypeOK
    <2>5. BackedBy(venue', late', call')
      BY <2>1, <2>2, <2>3 DEF CoreInv, BackedBy
    <2> QED  BY <2>2, <2>4, <2>5, KeepsCore, UnchangedRows
  <1>6. CASE RecordPendingSubmission(w)
    BY <1>6, ReserveKeepsCore
  <1>7. CASE HandleExistingSubmission(w)
    <2>1. PICK o \in Outcomes : Finish(w, o)
      BY <1>7 DEF HandleExistingSubmission, ExistingOutcome, Outcomes
    <2>2. call[w].seen \in Rows /\ call[w].seen.oid \in Keys
      BY <1>1, <1>7, CallIsTyped DEF CoreInv, BackedBy, HandleExistingSubmission, Rows
    <2>3. openOrders' \subseteq Keys /\ UNCHANGED <<orders, venue, late, claims>>
      BY <1>1, <1>7, <2>2 DEF HandleExistingSubmission
    <2> QED  BY <2>1, <2>3, FinishKeepsCore
  <1>8. CASE PlaceOrder(w)
    <2>1. PICK v \in VenueStatesOf(p) :
             venue' = [venue EXCEPT ![c] = v] /\ Move(w, "reply", call[w].attempt, v, FALSE)
      BY <1>8 DEF PlaceOrder
    <2>2. v \in VenueOrders \cup {NoOrder} /\ v # NoOrder /\ "reply" \in Steps /\ FALSE \in BOOLEAN
      BY <1>1, VenueStateTyped DEF Steps
    <2>m. /\ call' \in [Callers -> Calls]
          /\ call'[w].pc = "reply" /\ call'[w].receipt = v /\ call'[w].outcome = "none"
          /\ call'[w].cid = call[w].cid /\ call'[w].pay = call[w].pay
          /\ call'[w].seen = NoRow
          /\ \A u \in Callers \ {w} : call'[u] = call[u]
      BY <1>1, <2>1, <2>2, CallMoved
    <2>3. /\ call' \in [Callers -> Calls]
          /\ call'[w].cid = c /\ call'[w].pay = p /\ call'[w].receipt = v
          /\ call'[w].pc = "reply"
          /\ \A u \in Callers \ {w} : call'[u] = call[u]
      BY <2>m
    <2>4. call[w].pc \in Working /\ UNCHANGED <<orders, late, openOrders, claims>>
      BY <1>8 DEF PlaceOrder, Working
    <2>5. AdmittedFor(c, p)
      BY <2>4 DEF CoreInv, BackedBy
    <2> QED  BY <1>1, <2>1, <2>2, <2>3, <2>4, <2>5, VenueKeepsCore
  <1>9. CASE FindExistingOrder(w)
    <2>1. /\ Move(w, "reply", call[w].attempt, venue[c], FALSE) /\ call[w].pc \in Working
          /\ UNCHANGED <<orders, venue, late, openOrders, claims>> /\ venue[c] # NoOrder
      BY <1>9 DEF FindExistingOrder, Working
    <2>2. "reply" \in Steps /\ "reply" # "existing" /\ FALSE \in BOOLEAN /\ venue[c] \in VenueOrders \cup {NoOrder}
      BY <1>1 DEF Steps, TypeOK
    <2> QED  BY <1>1, <2>1, <2>2, MoveKeepsCore
  <1>10. CASE AnswerWithoutId(w)
    <2>1. /\ Move(w, "noid", call[w].attempt, call[w].receipt, call[w].refusal)
          /\ call[w].pc \in Working /\ UNCHANGED <<orders, venue, late, openOrders, claims>>
      BY <1>10 DEF AnswerWithoutId, Goto, Working
    <2>2. "noid" \in Steps /\ "noid" # "existing" /\ "noid" \notin Answered
      BY DEF Steps, Answered
    <2> QED  BY <1>1, <2>1, <2>2, MoveKeepsCore
  <1>11. ASSUME NEW b \in BOOLEAN, BrokerError(w, b) PROVE CoreInv'
    <2>1. /\ Move(w, "fail", call[w].attempt, NoOrder, b)
          /\ call[w].pc \in Working /\ UNCHANGED <<orders, venue, late, openOrders, claims>>
      BY <1>11 DEF BrokerError, Working
    <2>2. "fail" \in Steps /\ "fail" # "existing" /\ "fail" \notin Answered
      BY DEF Steps, Answered
    <2> QED  BY <1>1, <2>1, <2>2, MoveKeepsCore
  <1>12. CASE TransientError(w)
    <2>1. /\ call[w].pc \in Working /\ UNCHANGED <<orders, venue, openOrders, claims>>
          /\ late' \subseteq late \cup {[cid |-> call[w].cid, pay |-> call[w].pay]}
      BY <1>12 DEF TransientError, Working
    <2>2. /\ "fail" \in Steps /\ "fail" \notin Answered /\ FALSE \in BOOLEAN
          /\ "send" \in Steps /\ "send" \notin Answered
          /\ "fail" # "existing" /\ "send" # "existing"
      BY DEF Steps, Answered
    <2>3. CASE call[w].attempt < MaxAttempts
      <3>1. call[w].attempt + 1 \in 1..MaxAttempts
        BY <1>1, <2>3, AttemptsAssumption
      <3>0. ~(call[w].attempt >= MaxAttempts)
        BY <1>1, <2>3, AttemptsAssumption
      <3>2. Move(w, "send", call[w].attempt + 1, NoOrder, FALSE)
        BY <1>12, <3>0 DEF TransientError
      <3> QED  BY <1>1, <2>1, <2>2, <3>1, <3>2, MoveKeepsCore
    <2>4. CASE ~(call[w].attempt < MaxAttempts)
      <3>1. Move(w, "fail", call[w].attempt, NoOrder, FALSE)
        BY <1>12, <2>4 DEF TransientError
      <3> QED  BY <1>1, <2>1, <2>2, <3>1, MoveKeepsCore
    <2> QED  BY <2>3, <2>4
  <1>13. CASE ReceiptConflict(w)
    <2>1. "uncertain" \in Outcomes
      BY DEF Outcomes
    <2> QED  BY <1>1, <1>13, <2>1, FinishKeepsCore DEF ReceiptConflict
  <1>14. CASE HandleOrderResult(w)
    <2>1. PICK step \in {"refuse", "record"} :
             Move(w, step, call[w].attempt, call[w].receipt, call[w].refusal)
      BY <1>14 DEF HandleOrderResult, Goto
    <2>2. /\ call[w].pc \in Working /\ UNCHANGED <<orders, venue, late, claims>>
          /\ openOrders' \subseteq Keys /\ call[w].pc \in Answered
      BY <1>1, <1>14 DEF HandleOrderResult, Working, Answered
    <2>3. step \in Steps /\ step # "existing" /\ call[w].receipt # NoOrder
      BY <2>2 DEF Steps, CoreInv, BackedBy
    <2> QED  BY <1>1, <2>1, <2>2, <2>3, MoveKeepsCore
  <1>15. CASE RecordFinalSubmission(w) \/ ProcessRejection(w) \/ RecordWithoutId(w)
              \/ RecordFailedSubmission(w)
    <2>1. call[w].pc \in Working /\ UNCHANGED <<venue, late, openOrders, claims>>
      BY <1>15 DEF RecordFinalSubmission, ProcessRejection, RecordWithoutId,
                   RecordFailedSubmission, Working
    <2>2. PICK r \in {ReceiptRecord(w), SubmitIdRecord(w, "REJECTED"), SubmitIdRecord(w, "FAILED")} :
             /\ r = ReceiptRecord(w) => call[w].pc \in Answered
                    \/ r \in {SubmitIdRecord(w, "REJECTED"), SubmitIdRecord(w, "FAILED")}
             /\ \/ CanUpsert(orders, c, r) /\ orders' = Upserted(orders, c, r)
                \/ UNCHANGED orders
      BY <1>15 DEF RecordFinalSubmission, ProcessRejection, RecordWithoutId,
                   RecordFailedSubmission, Persist, Answered
    <2>3. r \in Receipts /\ r.oid \in {c, VenueId[c]}
      <3>1. call[w].pc \in Answered => call[w].receipt # NoOrder
        BY DEF CoreInv, BackedBy
      <3> QED  BY <1>1, <2>2, <3>1, RecordsAreReceipts
    <2>4. \/ \E o \in Outcomes : Finish(w, o)
          \/ Move(w, "fail", call[w].attempt, NoOrder, TRUE)
      <3>1. {"success", "rejected", "failed", "uncertain"} \subseteq Outcomes
        BY DEF Outcomes
      <3> QED  BY <1>15, <3>1 DEF RecordFinalSubmission, ProcessRejection, RecordWithoutId,
                   RecordFailedSubmission, Persist
    <2>5. /\ call' \in [Callers -> Calls] /\ call'[w].pc \in {"done", "fail"}
          /\ call'[w].cid = c /\ call'[w].pay = p
          /\ \A u \in Callers \ {w} : call'[u] = call[u]
      <3>1. "fail" \in Steps /\ TRUE \in BOOLEAN
        BY DEF Steps
      <3> QED  BY <1>1, <2>4, <3>1, CallFinished, CallMoved
    <2> QED  BY <2>1, <2>2, <2>3, <2>5, PersistKeepsCore
  <1> QED
    BY <1>2, <1>3, <1>4, <1>5, <1>6, <1>7, <1>8, <1>9, <1>10, <1>11, <1>12, <1>13, <1>14,
       <1>15 DEF CallStep

\* A crash loses the callers and keeps the rows; the requests it leaves on the
\* network had theirs.
LEMMA CrashKeepsCore ==
    ASSUME CoreInv, CrashAndRestart
    PROVE  CoreInv'
  <1>1. TypeOK /\ UNCHANGED <<orders, venue, claims>>
    BY DEF CoreInv, CrashAndRestart
  <1>2. \A w \in Callers : call'[w] \in Calls /\ call'[w].pc = "idle"
    <2> SUFFICES ASSUME NEW w \in Callers PROVE call'[w] \in Calls /\ call'[w].pc = "idle"
      OBVIOUS
    <2>1. call'[w] = NewCall("idle", call[w].cid, call[w].pay, "none")
      BY DEF CrashAndRestart
    <2> QED  BY <1>1, <2>1, CallIsTyped, AttemptsAssumption DEF NewCall, Calls, Steps, Outcomes
  <1>3. call' \in [Callers -> Calls]
    BY <1>2 DEF CrashAndRestart
  <1>4. \A q \in late' : q \in Requests /\ AdmittedFor(q.cid, q.pay)
    <2> SUFFICES ASSUME NEW q \in late' PROVE q \in Requests /\ AdmittedFor(q.cid, q.pay)
      OBVIOUS
    <2>1. CASE q \in late
      BY <1>1, <2>1 DEF TypeOK, CoreInv, BackedBy
    <2>2. CASE q \notin late
      <3>1. PICK w \in Callers : call[w].pc = "send" /\ q = [cid |-> call[w].cid, pay |-> call[w].pay]
        BY <2>2 DEF CrashAndRestart
      <3>2. AdmittedFor(call[w].cid, call[w].pay)
        BY <3>1 DEF CoreInv, BackedBy, Working
      <3> QED  BY <1>1, <3>1, <3>2, CallIsTyped DEF Requests
    <2> QED  BY <2>1, <2>2
  <1>5. openOrders' \subseteq Keys
    BY <1>1 DEF CrashAndRestart, TypeOK, StoreTypeOK, Rows
  <1>6. TypeOK'
    BY <1>1, <1>3, <1>4, <1>5 DEF TypeOK, StoreTypeOK
  <1>7. BackedBy(venue', late', call')
    BY <1>1, <1>2, <1>4 DEF CoreInv, BackedBy, Working, Answered
  <1> QED  BY <1>1, <1>6, <1>7, KeepsCore, UnchangedRows

\* Another writer's upsert, filed under the order's own client id.
LEMMA WriteKeepsCore ==
    ASSUME CoreInv, NEW c \in ClientIds, NEW r \in Receipts, venue[c] # NoOrder,
           r.oid = VenueId[c], CanUpsert(orders, c, r), orders' = Upserted(orders, c, r),
           UNCHANGED <<venue, late, call, claims>>, openOrders' \subseteq Keys
    PROVE  CoreInv'
  <1>1. TypeOK /\ Filed
    BY DEF CoreInv
  <1>2. orders[c] # NoRow
    BY DEF CoreInv, BackedBy, AdmittedFor
  <1>3. StoreTypeOK' /\ Filed' /\ SameRows
    BY <1>1, <1>2, UpsertOwn
  <1>4. TypeOK'
    BY <1>1, <1>3 DEF TypeOK
  <1>5. BackedBy(venue', late', call')
    BY DEF CoreInv
  <1> QED  BY <1>3, <1>4, <1>5, KeepsCore

LEMMA ObserveKeepsCore ==
    ASSUME CoreInv, EchoesClientId, NEW c \in ClientIds, NEW k \in ObservedKeys(c),
           NEW r \in Receipts, ObserveVenue(c, k, r)
    PROVE  CoreInv'
  <1>1. k = c /\ openOrders \subseteq Keys
    BY DEF ObservedKeys, CoreInv, TypeOK
  <1> QED  BY <1>1, WriteKeepsCore DEF ObserveVenue, Believable

\* The steps of the callers, of the venue and of crashes.
ProtocolStep ==
    \/ \E w \in Callers : CallStep(w)
    \/ \E q \in late : LateArrival(q)
    \/ \E c \in ClientIds : VenueProgress(c)
    \/ CrashAndRestart
    \/ UNCHANGED vars

LEMMA ProtocolKeepsCore ==
    ASSUME CoreInv, ProtocolStep
    PROVE  CoreInv'
  <1>1. ASSUME NEW w \in Callers, CallStep(w) PROVE CoreInv'
    BY <1>1, CallStepKeepsCore
  <1>2. ASSUME NEW q \in late, LateArrival(q) PROVE CoreInv'
    <2>1. /\ q.cid \in ClientIds /\ q.pay \in Payloads /\ AdmittedFor(q.cid, q.pay)
          /\ call \in [Callers -> Calls] /\ openOrders \subseteq Keys
      BY DEF CoreInv, TypeOK, Requests, BackedBy
    <2>2. PICK v \in VenueStatesOf(q.pay) : venue' = [venue EXCEPT ![q.cid] = v]
      BY <1>2 DEF LateArrival
    <2>3. late' \subseteq late /\ UNCHANGED <<orders, call, openOrders, claims>>
      BY <1>2 DEF LateArrival
    <2> QED  BY <2>1, <2>2, <2>3, VenueKeepsCore
  <1>3. ASSUME NEW c \in ClientIds, VenueProgress(c) PROVE CoreInv'
    <2>1. /\ venue[c] \in VenueOrders /\ AdmittedFor(c, venue[c].pay)
          /\ call \in [Callers -> Calls] /\ openOrders \subseteq Keys
      BY <1>3 DEF VenueProgress, CoreInv, TypeOK, BackedBy
    <2>2. venue[c].pay \in Payloads
      BY <2>1 DEF VenueOrders
    <2>3. PICK v \in VenueStatesOf(venue[c].pay) : venue' = [venue EXCEPT ![c] = v]
      BY <1>3 DEF VenueProgress
    <2>4. late' \subseteq late /\ UNCHANGED <<orders, call, openOrders, claims>>
      BY <1>3 DEF VenueProgress
    <2> QED  BY <2>1, <2>2, <2>3, <2>4, VenueKeepsCore
  <1>4. CASE CrashAndRestart
    BY <1>4, CrashKeepsCore
  <1>5. CASE UNCHANGED vars
    BY <1>5 DEF vars, CoreInv, TypeOK, StoreTypeOK, Filed, Counted, BackedBy, AdmittedFor
  <1> QED  BY <1>1, <1>2, <1>3, <1>4, <1>5 DEF ProtocolStep

\* Every step of the system does, when receipts name the client id.
LEMMA NextKeepsCore ==
    ASSUME CoreInv, EchoesClientId, [Next]_vars
    PROVE  CoreInv'
  <1>1. CASE ProtocolStep
    BY <1>1, ProtocolKeepsCore
  <1>2. ASSUME NEW c \in ClientIds, NEW k \in ObservedKeys(c), NEW r \in Receipts,
               ObserveVenue(c, k, r)
        PROVE  CoreInv'
    BY <1>2, ObserveKeepsCore
  <1> QED  BY <1>1, <1>2 DEF Next, ProtocolStep

-----------------------------------------------------------------------------
(* What follows for every run of the protocol.                             *)

\* Rows stay where they were reserved, one per client id that was sent, and
\* whatever is under way or at the venue has its row: the inductive invariant.
THEOREM SubmissionCore ==
    ASSUME EchoesClientId PROVE Spec => []CoreInv
  <1>1. Init => CoreInv
    BY InitCore
  <1>2. CoreInv /\ [Next]_vars => CoreInv'
    BY NextKeepsCore
  <1> QED  BY <1>1, <1>2, PTL DEF Spec

\* The variables of the protocol keep their types: in particular every open
\* order id and every request on the network names an order of the system.
THEOREM SubmissionTypes ==
    ASSUME EchoesClientId PROVE Spec => []TypeOK
  <1>1. CoreInv => TypeOK
    BY DEF CoreInv
  <1> QED  BY <1>1, SubmissionCore, PTL

\* What the core invariant says of sends and orders.
LEMMA CorePromises == CoreInv => AtMostOneSubmission /\ IntentBeforeOrder
  <1>1. CoreInv => AtMostOneSubmission
    BY DEF CoreInv, Counted, AtMostOneSubmission
  <1>2. CoreInv => IntentBeforeOrder
    BY DEF CoreInv, BackedBy, AdmittedFor, Filed, IntentBeforeOrder
  <1> QED  BY <1>1, <1>2

\* Nobody sends a client id twice: for any number of callers, attempts and
\* crashes, reserve_submission lets one submission of it through to the broker.
THEOREM NeverResent ==
    ASSUME EchoesClientId PROVE Spec => []AtMostOneSubmission
  BY SubmissionCore, CorePromises, PTL

\* Write-ahead: whatever order the venue has, its row with the admitted payload
\* was committed before it and is still there.
THEOREM OrdersAreBacked ==
    ASSUME EchoesClientId PROVE Spec => []IntentBeforeOrder
  BY SubmissionCore, CorePromises, PTL

-----------------------------------------------------------------------------
(* What the rows and the outcomes say is so at the venue.                  *)

Executed == {"FILLED", "CANCELLED", "EXPIRED"}
Acknowledged == {"OPEN", "PARTIALLY_FILLED", "FILLED"}

\* A status and a fill quantity that the venue's order of c bears out, now and
\* for good.
Borne(c, status, filled) ==
    /\ filled > 0 \/ status \in Executed \cup Acknowledged => venue[c] # NoOrder
    /\ filled > 0 => filled <= venue[c].filled
    /\ status \in Executed => status = venue[c].status /\ filled = venue[c].filled

RowBorne(c) == orders[c] # NoRow => Borne(c, orders[c].status, orders[c].filled)

PlacedFor(c, p) == venue[c] # NoOrder /\ venue[c].pay = p

\* What a caller holds: an answer, a row it has read, or its outcome.
CallerHonest(w) ==
    /\ call[w].pc \in Answered =>
           /\ venue[call[w].cid] # NoOrder
           /\ Borne(call[w].cid, call[w].receipt.status, call[w].receipt.filled)
    /\ call[w].pc = "existing" /\ call[w].seen.status \in Acknowledged =>
           PlacedFor(call[w].cid, call[w].seen.pay)
    /\ call[w].outcome = "success" => PlacedFor(call[w].cid, call[w].pay)

TruthInv ==
    /\ CoreInv
    /\ \A c \in ClientIds : RowBorne(c)
    /\ \A w \in Callers : CallerHonest(w)

\* A step of the venue never takes an order, its payload, a fill or an ended
\* order back.
VenueAdvances ==
    \A c \in ClientIds :
        venue[c] # NoOrder =>
            /\ venue'[c] # NoOrder /\ venue'[c].pay = venue[c].pay
            /\ venue'[c].filled >= venue[c].filled
            /\ venue[c].status \in VenueTerminal => venue'[c] = venue[c]

\* What the venue has borne out stays so while the venue only advances.
LEMMA BorneLasts ==
    ASSUME CoreInv, CoreInv', VenueAdvances, NEW c \in ClientIds,
           NEW status, NEW filled \in Nat, Borne(c, status, filled)
    PROVE  Borne(c, status, filled)'
  <1>1. /\ venue[c] # NoOrder => venue[c].filled \in Nat
        /\ venue'[c] # NoOrder => venue'[c].filled \in Nat
    BY BoundAssumption DEF CoreInv, TypeOK, VenueOrders
  <1>2. Executed \subseteq VenueTerminal
    BY DEF Executed, VenueTerminal
  <1> QED  BY <1>1, <1>2 DEF Borne, VenueAdvances

\* A step that changes one row and one caller at most keeps the truth if the
\* changed row is borne out and the changed caller honest.
LEMMA KeepsTruth ==
    ASSUME TruthInv, CoreInv', VenueAdvances,
           \A c \in ClientIds : orders'[c] = orders[c] \/ RowBorne(c)',
           \A w \in Callers : call'[w] = call[w] \/ CallerHonest(w)'
    PROVE  TruthInv'
  <1>1. ASSUME NEW c \in ClientIds PROVE RowBorne(c)'
    <2>1. CASE orders'[c] = orders[c] /\ orders[c] # NoRow
      <3>1. orders[c].filled \in Nat
        BY <2>1, IdsAssumption, BoundAssumption DEF TruthInv, CoreInv, TypeOK, StoreTypeOK, Rows
      <3> QED  BY <2>1, <3>1, BorneLasts DEF TruthInv, RowBorne
    <2>2. CASE orders'[c] = orders[c] /\ orders[c] = NoRow
      BY <2>2 DEF RowBorne
    <2> QED  BY <2>1, <2>2
  <1>2. ASSUME NEW w \in Callers PROVE CallerHonest(w)'
    <2>1. CASE call'[w] = call[w]
      <3>1. call[w].cid \in ClientIds /\ CallerHonest(w)
        BY CallIsTyped DEF TruthInv, CoreInv
      <3>2. call[w].pc \in Answered => call[w].receipt.filled \in Nat
        <4>1. call[w].pc \in Answered => call[w].receipt \in VenueOrders
          BY CallIsTyped DEF TruthInv, CoreInv, BackedBy
        <4> QED  BY <4>1, BoundAssumption DEF VenueOrders
      <3>3. \A p : PlacedFor(call[w].cid, p) => PlacedFor(call[w].cid, p)'
        BY <2>1, <3>1 DEF PlacedFor, VenueAdvances
      <3>4. call[w].pc \in Answered =>
               Borne(call[w].cid, call[w].receipt.status, call[w].receipt.filled)'
        <4>1. \A d \in ClientIds : \A st : \A f \in Nat : Borne(d, st, f) => Borne(d, st, f)'
          BY BorneLasts DEF TruthInv
        <4> QED  BY <2>1, <3>1, <3>2, <4>1 DEF CallerHonest, Borne
      <3> QED  BY <2>1, <3>1, <3>3, <3>4 DEF CallerHonest, PlacedFor, Borne, VenueAdvances
    <2> QED  BY <2>1
  <1> QED  BY <1>1, <1>2 DEF TruthInv

\* Nothing changes at the venue.
LEMMA VenueStays == ASSUME CoreInv, UNCHANGED venue PROVE VenueAdvances
  <1>1. \A c \in ClientIds : venue[c] # NoOrder => venue[c].filled \in Nat
    BY BoundAssumption DEF CoreInv, TypeOK, VenueOrders
  <1> QED  BY <1>1 DEF VenueAdvances

\* An order appears.
LEMMA VenuePlaces ==
    ASSUME CoreInv, NEW c \in ClientIds, venue[c] = NoOrder, NEW v,
           venue' = [venue EXCEPT ![c] = v]
    PROVE  VenueAdvances
  <1>1. \A d \in ClientIds : venue[d] # NoOrder => venue[d].filled \in Nat
    BY BoundAssumption DEF CoreInv, TypeOK, VenueOrders
  <1>2. \A d \in ClientIds \ {c} : venue'[d] = venue[d]
    BY DEF CoreInv, TypeOK
  <1> QED  BY <1>1, <1>2 DEF VenueAdvances

\* The order of an admitted payload is placed for that payload.
LEMMA PlacedAsAdmitted ==
    ASSUME CoreInv, NEW c \in ClientIds, NEW p, AdmittedFor(c, p), venue[c] # NoOrder
    PROVE  PlacedFor(c, p)
  BY DEF CoreInv, BackedBy, AdmittedFor, PlacedFor

\* A row that has been read is placed, if it says so, for the row's own payload.
LEMMA RowsArePlaced ==
    ASSUME TruthInv, NEW c \in ClientIds, orders[c] # NoRow,
           orders[c].status \in Acknowledged
    PROVE  PlacedFor(c, orders[c].pay)
  <1>1. venue[c] # NoOrder
    BY DEF TruthInv, RowBorne, Borne
  <1>2. AdmittedFor(c, orders[c].pay)
    BY DEF AdmittedFor
  <1> QED  BY <1>1, <1>2, PlacedAsAdmitted DEF TruthInv

\* Every record of a submission is one of three, and the first was answered.
LEMMA PersistedRecord ==
    ASSUME TruthInv, NEW w \in Callers,
           \/ RecordFinalSubmission(w) \/ ProcessRejection(w) \/ RecordWithoutId(w)
           \/ RecordFailedSubmission(w)
    PROVE  /\ UNCHANGED venue /\ call[w].pc \in Working /\ call'[w].pc # call[w].pc
           /\ \/ UNCHANGED orders
              \/ \E r \in Receipts :
                    /\ r.oid \in {call[w].cid, VenueId[call[w].cid]}
                    /\ r.oid = VenueId[call[w].cid] => venue[call[w].cid] # NoOrder
                    /\ Borne(call[w].cid, r.status, r.filled)
                    /\ CanUpsert(orders, call[w].cid, r)
                    /\ orders' = Upserted(orders, call[w].cid, r)
           /\ \A u \in Callers \ {w} : call'[u] = call[u]
           /\ call'[w].pc \notin Answered /\ call'[w].pc # "existing"
           /\ call'[w].cid = call[w].cid /\ call'[w].pay = call[w].pay
           /\ call'[w].outcome = "success" => call[w].pc \in Answered
  <1> DEFINE c == call[w].cid
  <1>1. TypeOK /\ c \in ClientIds /\ CallerHonest(w) /\ NoOrder \in VenueOrders \cup {NoOrder}
        /\ call[w].attempt \in 1..MaxAttempts /\ CoreInv
    BY CallIsTyped DEF TruthInv, CoreInv
  <1>2. /\ UNCHANGED venue /\ call[w].pc \in Working
        /\ RecordFinalSubmission(w) \/ ProcessRejection(w) => call[w].pc \in Answered
    BY DEF RecordFinalSubmission, ProcessRejection, RecordWithoutId, RecordFailedSubmission,
           Working, Answered
  <1>3. ASSUME NEW st \in {"REJECTED", "FAILED"}
        PROVE  /\ SubmitIdRecord(w, st) \in Receipts /\ SubmitIdRecord(w, st).oid = c
               /\ Borne(c, SubmitIdRecord(w, st).status, SubmitIdRecord(w, st).filled)
    <2>1. SubmitIdRecord(w, st).status = st /\ SubmitIdRecord(w, st).filled = 0
      BY DEF SubmitIdRecord
    <2>2. st \notin Executed /\ st \notin Acknowledged
      BY DEF Executed, Acknowledged
    <2>3. Borne(c, st, 0)
      BY <2>2 DEF Borne
    <2> QED  BY <1>1, <2>1, <2>3, RecordsAreReceipts
  <1>4. call[w].pc \in Answered =>
           /\ ReceiptRecord(w) \in Receipts /\ ReceiptRecord(w).oid = VenueId[c]
           /\ Borne(c, ReceiptRecord(w).status, ReceiptRecord(w).filled)
    <2>1. call[w].pc \in Answered => call[w].receipt # NoOrder
      BY <1>1 DEF CoreInv, BackedBy
    <2>2. /\ ReceiptRecord(w).status = call[w].receipt.status
          /\ ReceiptRecord(w).filled = call[w].receipt.filled
      BY DEF ReceiptRecord
    <2> QED  BY <1>1, <2>1, <2>2, RecordsAreReceipts DEF CallerHonest
  <1>5. \/ UNCHANGED orders
        \/ \E r \in Receipts :
              /\ r.oid \in {c, VenueId[c]} /\ Borne(c, r.status, r.filled)
              /\ r.oid = VenueId[c] => venue[c] # NoOrder
              /\ CanUpsert(orders, c, r) /\ orders' = Upserted(orders, c, r)
    <2>1. \/ UNCHANGED orders
          \/ /\ call[w].pc \in Answered
             /\ CanUpsert(orders, c, ReceiptRecord(w))
             /\ orders' = Upserted(orders, c, ReceiptRecord(w))
          \/ \E st \in {"REJECTED", "FAILED"} :
                /\ CanUpsert(orders, c, SubmitIdRecord(w, st))
                /\ orders' = Upserted(orders, c, SubmitIdRecord(w, st))
      BY <1>2 DEF RecordFinalSubmission, ProcessRejection, RecordWithoutId,
                  RecordFailedSubmission, Persist
    <2>2. call[w].pc \in Answered => venue[c] # NoOrder
      BY <1>1 DEF CallerHonest
    <2>3. VenueId[c] # c
      BY <1>1, IdsAssumption
    <2> QED  BY <1>3, <1>4, <2>1, <2>2, <2>3
  <1>6. \/ \E o \in Outcomes : Finish(w, o) /\ (o = "success" => call[w].pc \in Answered)
        \/ call[w].pc = "refuse" /\ Move(w, "fail", call[w].attempt, NoOrder, TRUE)
    <2>1. {"success", "rejected", "failed", "uncertain"} \subseteq Outcomes
      BY DEF Outcomes
    <2> QED  BY <1>2, <2>1 DEF RecordFinalSubmission, ProcessRejection, RecordWithoutId,
                  RecordFailedSubmission, Persist
  <1>7. CASE \E o \in Outcomes : Finish(w, o) /\ (o = "success" => call[w].pc \in Answered)
    <2>1. PICK o \in Outcomes : Finish(w, o) /\ (o = "success" => call[w].pc \in Answered)
      BY <1>7
    <2>2. /\ call'[w].pc = "done" /\ call'[w].outcome = o
          /\ call'[w].cid = call[w].cid /\ call'[w].pay = call[w].pay
          /\ \A u \in Callers \ {w} : call'[u] = call[u]
      BY <1>1, <2>1, CallFinished
    <2> QED  BY <1>2, <1>5, <2>1, <2>2 DEF Answered, Working
  <1>8. CASE call[w].pc = "refuse" /\ Move(w, "fail", call[w].attempt, NoOrder, TRUE)
    <2>1. "fail" \in Steps /\ TRUE \in BOOLEAN
      BY DEF Steps
    <2>2. /\ call'[w].pc = "fail" /\ call'[w].outcome = "none"
          /\ call'[w].cid = call[w].cid /\ call'[w].pay = call[w].pay
          /\ \A u \in Callers \ {w} : call'[u] = call[u]
      BY <1>1, <1>8, <2>1, CallMoved
    <2> QED  BY <1>2, <1>5, <1>8, <2>2 DEF Answered
  <1> QED  BY <1>6, <1>7, <1>8

\* Every step of a submission keeps it.
LEMMA CallStepKeepsTruth ==
    ASSUME TruthInv, CoreInv', NEW w \in Callers, CallStep(w)
    PROVE  TruthInv'
  <1> DEFINE c == call[w].cid
             p == call[w].pay
  <1>1. /\ CoreInv /\ TypeOK /\ Filed /\ c \in ClientIds /\ p \in Payloads /\ c \in Keys
        /\ call[w].attempt \in 1..MaxAttempts /\ call[w].receipt \in VenueOrders \cup {NoOrder}
        /\ call[w].refusal \in BOOLEAN /\ NoOrder \in VenueOrders \cup {NoOrder}
        /\ orders \in [Keys -> Rows \cup {NoRow}] /\ CallerHonest(w)
        /\ call[w].outcome \in Outcomes
    BY CallIsTyped, IdsAssumption DEF TruthInv, CoreInv, TypeOK, StoreTypeOK
  <1>k. ASSUME UNCHANGED orders, UNCHANGED venue, CallerHonest(w)',
               \A u \in Callers \ {w} : call'[u] = call[u]
        PROVE  TruthInv'
    BY <1>1, <1>k, VenueStays, KeepsTruth
  <1>h. ASSUME call'[w].pc \notin Answered, call'[w].pc # "existing",
               call'[w].outcome # "success"
        PROVE  CallerHonest(w)'
    BY <1>h DEF CallerHonest
  <1>2. ASSUME NEW d \in ClientIds, NEW x \in Payloads, SubmitOrderWithResult(w, d, x)
        PROVE  TruthInv'
    <2>1. /\ call'[w].pc = "lookup" /\ call'[w].outcome = "none"
          /\ \A u \in Callers \ {w} : call'[u] = call[u]
          /\ UNCHANGED orders /\ UNCHANGED venue
      BY <1>1, <1>2 DEF SubmitOrderWithResult, NewCall, TypeOK
    <2> QED  BY <2>1, <1>k, <1>h DEF Answered
  <1>3. CASE RejectMissingDecisionId(w) \/ StoreUnavailable(w) \/ ReceiptConflict(w)
    <2>1. PICK o \in {"missing", "uncertain"} : Finish(w, o)
      BY <1>3 DEF RejectMissingDecisionId, StoreUnavailable, ReceiptConflict
    <2>2. o \in Outcomes /\ o # "success"
      BY DEF Outcomes
    <2>3. /\ call'[w].pc = "done" /\ call'[w].outcome = o
          /\ \A u \in Callers \ {w} : call'[u] = call[u]
      BY <1>1, <2>1, <2>2, CallFinished
    <2>4. UNCHANGED orders /\ UNCHANGED venue
      BY <1>3 DEF RejectMissingDecisionId, StoreUnavailable, ReceiptConflict
    <2> QED  BY <2>2, <2>3, <2>4, <1>k, <1>h DEF Answered
  <1>4. ASSUME NEW step \in Steps \ Answered, Saw(w, orders[c], step),
               step = "existing" => orders[c] # NoRow,
               UNCHANGED orders, UNCHANGED venue
        PROVE  TruthInv'
    <2>1. /\ call'[w].pc = step /\ call'[w].seen = orders[c] /\ call'[w].outcome = "none"
          /\ call'[w].cid = c
          /\ \A u \in Callers \ {w} : call'[u] = call[u]
      BY <1>1, <1>4, CallLooked
    <2>2. step = "existing" /\ orders[c].status \in Acknowledged =>
              PlacedFor(c, orders[c].pay)
      BY <1>1, <1>4, RowsArePlaced
    <2>3. CallerHonest(w)'
      BY <1>4, <2>1, <2>2 DEF CallerHonest, PlacedFor
    <2> QED  BY <1>4, <2>1, <2>3, <1>k
  <1>5. CASE GetExistingRecord(w)
    <2>1. PICK step \in Steps \ Answered :
             Saw(w, orders[c], step) /\ (step = "existing" => orders[c] # NoRow)
      BY <1>5 DEF GetExistingRecord, Steps, Answered
    <2>2. UNCHANGED orders /\ UNCHANGED venue
      BY <1>5 DEF GetExistingRecord
    <2> QED  BY <2>1, <2>2, <1>4
  <1>6. CASE RecordPendingSubmission(w)
    <2>1. UNCHANGED venue
      BY <1>6 DEF RecordPendingSubmission
    <2>2. CASE CanReserve(orders, c) /\ orders' = Reserved(orders, c, p) /\ Goto(w, "send")
      <3>1. /\ orders'[c] = [oid |-> c, status |-> "PENDING", filled |-> 0, pay |-> p, intent |-> TRUE]
            /\ \A j \in Keys \ {c} : orders'[j] = orders[j]
        BY <1>1, <2>2, ReservedTable
      <3>2. orders'[c].status = "PENDING" /\ orders'[c].filled = 0
        BY <3>1
      <3>3. "send" \in Steps
        BY DEF Steps
      <3>4. /\ call'[w].pc = "send" /\ call'[w].outcome = "none" /\ call'[w].cid = c
            /\ \A u \in Callers \ {w} : call'[u] = call[u]
        BY <1>1, <2>2, <3>3, CallWent
      <3>5. RowBorne(c)'
        BY <3>2, <3>4 DEF RowBorne, Borne, Executed, Acknowledged
      <3>6. CallerHonest(w)'
        BY <3>4, <1>h DEF Answered
      <3>7. \A d \in ClientIds : orders'[d] = orders[d] \/ RowBorne(d)'
        BY <3>1, <3>4, <3>5, IdsAssumption
      <3> QED  BY <1>1, <2>1, <3>4, <3>6, <3>7, VenueStays, KeepsTruth
    <2>3. CASE orders[c] # NoRow /\ Saw(w, orders[c], "existing") /\ UNCHANGED orders
      <3>1. "existing" \in Steps \ Answered
        BY DEF Steps, Answered
      <3> QED  BY <2>1, <2>3, <3>1, <1>4
    <2> QED  BY <1>6, <2>2, <2>3 DEF RecordPendingSubmission
  <1>7. CASE HandleExistingSubmission(w)
    <2>1. PICK o \in Outcomes :
             /\ Finish(w, o)
             /\ o = "success" => /\ call[w].seen.pay = p /\ call[w].seen.status \in Acknowledged
                                 /\ call[w].pc = "existing"
      BY <1>7 DEF HandleExistingSubmission, ExistingOutcome, Outcomes, Acknowledged
    <2>2. /\ call'[w].pc = "done" /\ call'[w].outcome = o
          /\ call'[w].cid = c /\ call'[w].pay = p
          /\ \A u \in Callers \ {w} : call'[u] = call[u]
      BY <1>1, <2>1, CallFinished
    <2>3. UNCHANGED orders /\ UNCHANGED venue
      BY <1>7 DEF HandleExistingSubmission
    <2>4. o = "success" => PlacedFor(c, p)
      BY <1>1, <2>1 DEF CallerHonest
    <2>5. CallerHonest(w)'
      BY <2>2, <2>3, <2>4 DEF CallerHonest, PlacedFor, Answered
    <2> QED  BY <2>2, <2>3, <2>5, <1>k
  <1>8. ASSUME NEW v \in VenueOrders, Move(w, "reply", call[w].attempt, v, FALSE),
               venue'[c] = v, v # NoOrder, VenueAdvances, UNCHANGED orders
        PROVE  TruthInv'
    <2>1. /\ "reply" \in Steps /\ FALSE \in BOOLEAN /\ v \in VenueOrders \cup {NoOrder}
          /\ call[w].attempt \in 1..MaxAttempts /\ TypeOK
          /\ Move(w, "reply", call[w].attempt, v, FALSE)
      BY <1>1, <1>8 DEF Steps
    <2>2. PICK step \in Steps, a \in 1..MaxAttempts, b \in BOOLEAN :
             step = "reply" /\ Move(w, step, a, v, b)
      BY <2>1
    <2>3. /\ call'[w].pc = "reply" /\ call'[w].receipt = v /\ call'[w].outcome = "none"
          /\ call'[w].cid = c
          /\ \A u \in Callers \ {w} : call'[u] = call[u]
      BY <2>1, <2>2, CallMoved
    <2>4. v.filled \in Nat
      BY BoundAssumption DEF VenueOrders
    <2>5. CallerHonest(w)'
      BY <1>8, <2>3, <2>4 DEF CallerHonest, Borne
    <2> QED  BY <1>8, <2>3, <2>5, KeepsTruth
  <1>9. CASE PlaceOrder(w)
    <2>1. PICK v \in VenueStatesOf(p) :
             venue' = [venue EXCEPT ![c] = v] /\ Move(w, "reply", call[w].attempt, v, FALSE)
      BY <1>9 DEF PlaceOrder
    <2>2. v \in VenueOrders /\ v # NoOrder /\ venue'[c] = v
      BY <1>1, <2>1, VenueStateTyped DEF TypeOK
    <2>3. venue[c] = NoOrder /\ UNCHANGED orders
      BY <1>9 DEF PlaceOrder
    <2>4. VenueAdvances
      BY <1>1, <2>1, <2>3, VenuePlaces
    <2> QED  BY <2>1, <2>2, <2>3, <2>4, <1>8
  <1>10. CASE FindExistingOrder(w)
    <2>1. /\ Move(w, "reply", call[w].attempt, venue[c], FALSE)
          /\ UNCHANGED orders /\ UNCHANGED venue /\ venue[c] # NoOrder
      BY <1>10 DEF FindExistingOrder
    <2>2. venue[c] \in VenueOrders /\ venue'[c] = venue[c]
      BY <1>1, <2>1 DEF TypeOK
    <2>3. VenueAdvances
      BY <1>1, <2>1, VenueStays
    <2> QED  BY <2>1, <2>2, <2>3, <1>8
  <1>11. CASE AnswerWithoutId(w) \/ (\E b \in BOOLEAN : BrokerError(w, b)) \/ TransientError(w)
    <2>1. PICK step \in {"noid", "fail", "send"}, a \in 1..MaxAttempts,
               v \in VenueOrders \cup {NoOrder}, b \in BOOLEAN : Move(w, step, a, v, b)
      <3>1. CASE AnswerWithoutId(w)
        BY <1>1, <3>1 DEF AnswerWithoutId, Goto
      <3>2. CASE \E b \in BOOLEAN : BrokerError(w, b)
        BY <1>1, <3>2 DEF BrokerError
      <3>3. CASE TransientError(w)
        <4>1. call[w].attempt < MaxAttempts => call[w].attempt + 1 \in 1..MaxAttempts
          BY <1>1, AttemptsAssumption
        <4> QED  BY <1>1, <3>3, <4>1 DEF TransientError
      <3> QED  BY <1>11, <3>1, <3>2, <3>3
    <2>2. step \in Steps
      BY DEF Steps
    <2>3. /\ call'[w].pc = step /\ call'[w].outcome = "none"
          /\ \A u \in Callers \ {w} : call'[u] = call[u]
      BY <1>1, <2>1, <2>2, CallMoved
    <2>4. UNCHANGED orders /\ UNCHANGED venue
      BY <1>11 DEF AnswerWithoutId, BrokerError, TransientError
    <2> QED  BY <2>3, <2>4, <1>k, <1>h DEF Answered
  <1>12. CASE HandleOrderResult(w)
    <2>1. PICK step \in {"refuse", "record"} : Goto(w, step)
      BY <1>12 DEF HandleOrderResult
    <2>2. step \in Steps
      BY DEF Steps
    <2>3. /\ call'[w].pc = step /\ call'[w].receipt = call[w].receipt
          /\ call'[w].outcome = "none" /\ call'[w].cid = c
          /\ \A u \in Callers \ {w} : call'[u] = call[u]
      BY <1>1, <2>1, <2>2, CallWent
    <2>4. /\ UNCHANGED orders /\ UNCHANGED venue /\ call[w].pc \in Answered
      BY <1>12 DEF HandleOrderResult, Answered
    <2>5. CallerHonest(w)'
      BY <1>1, <2>3, <2>4 DEF CallerHonest, Borne
    <2> QED  BY <2>3, <2>4, <2>5, <1>k
  <1>13. CASE RecordFinalSubmission(w) \/ ProcessRejection(w) \/ RecordWithoutId(w)
              \/ RecordFailedSubmission(w)
    <2>1. /\ UNCHANGED venue /\ call[w].pc \in Working
          /\ \A u \in Callers \ {w} : call'[u] = call[u]
          /\ call'[w].pc \notin Answered /\ call'[w].pc # "existing"
          /\ call'[w].cid = c /\ call'[w].pay = p
          /\ call'[w].outcome = "success" => call[w].pc \in Answered
      BY <1>13, PersistedRecord
    <2>2. AdmittedFor(c, p)
      BY <1>1, <2>1 DEF CoreInv, BackedBy
    <2>3. CallerHonest(w)'
      <3>1. call[w].pc \in Answered => PlacedFor(c, p)
        BY <1>1, <2>2, PlacedAsAdmitted DEF CallerHonest
      <3> QED  BY <2>1, <3>1 DEF CallerHonest, PlacedFor
    <2>4. \A d \in ClientIds : orders'[d] = orders[d] \/ RowBorne(d)'
      <3>1. CASE UNCHANGED orders
        BY <3>1
      <3>2. ASSUME NEW r \in Receipts, r.oid \in {c, VenueId[c]}, Borne(c, r.status, r.filled),
                   CanUpsert(orders, c, r), orders' = Upserted(orders, c, r)
            PROVE  \A d \in ClientIds : orders'[d] = orders[d] \/ RowBorne(d)'
        <4>1. /\ orders'[c].status = r.status /\ orders'[c].filled = r.filled
              /\ \A k \in Keys \ {c} : orders'[k] = orders[k]
          BY <1>1, <2>2, <3>2, UpsertOwn DEF AdmittedFor
        <4>2. RowBorne(c)'
          BY <2>1, <3>2, <4>1 DEF RowBorne, Borne
        <4> QED  BY <2>1, <4>1, <4>2, IdsAssumption
      <3> QED  BY <1>13, <3>1, <3>2, PersistedRecord
    <2> QED  BY <1>1, <2>1, <2>3, <2>4, VenueStays, KeepsTruth
  <1> QED
    BY <1>2, <1>3, <1>5, <1>6, <1>7, <1>9, <1>10, <1>11, <1>12, <1>13 DEF CallStep

\* Every step of the system does.
LEMMA ProtocolKeepsTruth ==
    ASSUME TruthInv, CoreInv', ProtocolStep
    PROVE  TruthInv'
  <1>1. CoreInv /\ TypeOK /\ Filed
    BY DEF TruthInv, CoreInv
  <1>2. ASSUME NEW w \in Callers, CallStep(w) PROVE TruthInv'
    BY <1>2, CallStepKeepsTruth
  <1>3. ASSUME NEW q \in late, LateArrival(q) PROVE TruthInv'
    <2>1. q.cid \in ClientIds
      BY <1>1 DEF TypeOK, Requests
    <2>2. PICK v : venue' = [venue EXCEPT ![q.cid] = v]
      BY <1>3 DEF LateArrival
    <2>3. venue[q.cid] = NoOrder /\ UNCHANGED orders /\ UNCHANGED call
      BY <1>3 DEF LateArrival
    <2> QED  BY <1>1, <2>1, <2>2, <2>3, VenuePlaces, KeepsTruth
  <1>4. ASSUME NEW c \in ClientIds, VenueProgress(c) PROVE TruthInv'
    <2>1. PICK v \in VenueStatesOf(venue[c].pay) :
             v.filled >= venue[c].filled /\ venue' = [venue EXCEPT ![c] = v]
      BY <1>4 DEF VenueProgress
    <2>2. /\ venue[c] # NoOrder /\ venue[c].status \in PendingStatuses
          /\ UNCHANGED orders /\ UNCHANGED call
      BY <1>4 DEF VenueProgress
    <2>3. venue[c].pay \in Payloads
      BY <1>1, <2>2 DEF TypeOK, VenueOrders
    <2>4. v # NoOrder /\ v.pay = venue[c].pay
      BY <2>3, VenueStateTyped
    <2>5. venue'[c] = v /\ \A d \in ClientIds \ {c} : venue'[d] = venue[d]
      BY <1>1, <2>1 DEF TypeOK
    <2>6. \A d \in ClientIds : venue[d] # NoOrder => venue[d].filled \in Nat
      BY <1>1, BoundAssumption DEF TypeOK, VenueOrders
    <2>7. venue[c].status \notin VenueTerminal
      BY <2>2 DEF PendingStatuses, VenueTerminal
    <2>8. VenueAdvances
      BY <2>1, <2>4, <2>5, <2>6, <2>7 DEF VenueAdvances
    <2> QED  BY <2>2, <2>8, KeepsTruth
  <1>5. CASE CrashAndRestart
    <2>1. UNCHANGED orders /\ UNCHANGED venue
      BY <1>5 DEF CrashAndRestart
    <2>2. ASSUME NEW w \in Callers PROVE CallerHonest(w)'
      <3>1. call'[w].pc = "idle" /\ call'[w].outcome = "none"
        BY <1>5 DEF CrashAndRestart, NewCall
      <3> QED  BY <3>1 DEF CallerHonest, Answered
    <2> QED  BY <1>1, <2>1, <2>2, VenueStays, KeepsTruth
  <1>6. CASE UNCHANGED vars
    BY <1>1, <1>6, VenueStays, KeepsTruth DEF vars
  <1> QED  BY <1>2, <1>3, <1>4, <1>5, <1>6 DEF ProtocolStep

\* A write that the venue bears out.
LEMMA WriteKeepsTruth ==
    ASSUME TruthInv, CoreInv', NEW c \in ClientIds, NEW r \in Receipts, venue[c] # NoOrder,
           Believable(c, r), CanUpsert(orders, c, r), orders' = Upserted(orders, c, r),
           UNCHANGED <<venue, call>>
    PROVE  TruthInv'
  <1>1. CoreInv /\ TypeOK /\ Filed /\ r.oid = VenueId[c]
    BY DEF TruthInv, CoreInv, Believable
  <1>2. orders[c] # NoRow
    BY <1>1 DEF CoreInv, BackedBy, AdmittedFor
  <1>3. /\ orders'[c].status = r.status /\ orders'[c].filled = r.filled
        /\ \A j \in Keys \ {c} : orders'[j] = orders[j]
    BY <1>1, <1>2, UpsertOwn
  <1>4. Executed \subseteq VenueTerminal
    BY DEF Executed, VenueTerminal
  <1>5. RowBorne(c)'
    BY <1>3, <1>4 DEF RowBorne, Borne, Believable
  <1>6. \A d \in ClientIds : orders'[d] = orders[d] \/ RowBorne(d)'
    BY <1>3, <1>5, IdsAssumption
  <1> QED  BY <1>1, <1>6, VenueStays, KeepsTruth

LEMMA NextKeepsTruth ==
    ASSUME TruthInv, CoreInv', EchoesClientId, [Next]_vars
    PROVE  TruthInv'
  <1>1. CASE ProtocolStep
    BY <1>1, ProtocolKeepsTruth
  <1>2. ASSUME NEW c \in ClientIds, NEW k \in ObservedKeys(c), NEW r \in Receipts,
               ObserveVenue(c, k, r)
        PROVE  TruthInv'
    <2>1. k = c
      BY <1>2 DEF ObservedKeys
    <2> QED  BY <1>2, <2>1, WriteKeepsTruth DEF ObserveVenue
  <1> QED  BY <1>1, <1>2 DEF Next, ProtocolStep

\* With nothing stored, sent or answered there is nothing to bear out.
LEMMA InitTruth == Init => TruthInv
  <1> SUFFICES ASSUME Init PROVE TruthInv
    OBVIOUS
  <1>1. \A c \in ClientIds : RowBorne(c)
    BY IdsAssumption DEF Init, StoreInit, RowBorne
  <1>2. ASSUME NEW w \in Callers PROVE CallerHonest(w)
    <2>1. PICK c \in ClientIds, p \in Payloads : call[w] = NewCall("idle", c, p, "none")
      BY DEF Init
    <2>2. call[w].pc = "idle" /\ call[w].outcome = "none"
      BY <2>1 DEF NewCall
    <2> QED  BY <2>2 DEF CallerHonest, Answered
  <1> QED  BY <1>1, <1>2, InitCore DEF TruthInv

\* Rows, answers and outcomes are borne out by the venue: the inductive invariant.
THEOREM SubmissionTruth ==
    ASSUME EchoesClientId PROVE Spec => []TruthInv
  <1>1. Init => TruthInv
    BY InitTruth
  <1>2. TruthInv /\ [Next]_vars => TruthInv'
    BY NextKeepsCore, NextKeepsTruth DEF TruthInv
  <1> QED  BY <1>1, <1>2, PTL DEF Spec

\* What the truth invariant says of rows and outcomes.
LEMMA TruthPromises == TruthInv => ReceiptsAreTrue /\ SuccessIsReal
  <1>1. ASSUME TruthInv PROVE ReceiptsAreTrue
    <2> SUFFICES ASSUME NEW c \in ClientIds, orders[c] # NoRow
                 PROVE  /\ orders[c].filled > 0 =>
                              venue[c] # NoOrder /\ orders[c].filled <= venue[c].filled
                        /\ orders[c].status \in Executed =>
                              /\ venue[c] # NoOrder
                              /\ orders[c].status = venue[c].status
                              /\ orders[c].filled = venue[c].filled
      BY DEF ReceiptsAreTrue, Executed
    <2> QED BY <1>1 DEF TruthInv, RowBorne, Borne
  <1>2. ASSUME TruthInv PROVE SuccessIsReal
    BY <1>2 DEF TruthInv, CallerHonest, PlacedFor, SuccessIsReal
  <1> QED  BY <1>1, <1>2

\* No row is ever ahead of the venue: a fill, an execution, a cancellation or an
\* expiry that is recorded is the venue's own, whatever order answers, retries,
\* events and crashes come in.
THEOREM RowsTellTheTruth ==
    ASSUME EchoesClientId PROVE Spec => []ReceiptsAreTrue
  BY SubmissionTruth, TruthPromises, PTL

\* "success" is told only of an order that the venue has, for the payload that
\* was asked for, and stays so.
THEOREM SuccessStaysReal ==
    ASSUME EchoesClientId PROVE Spec => []SuccessIsReal
  BY SubmissionTruth, TruthPromises, PTL

-----------------------------------------------------------------------------
(* The protocol implements its contract.                                   *)

\* A step keeps each client id's order at the venue, or its absence, and its
\* payload; together with SameRows this is a stuttering step of the contract.
SameOrders ==
    \A c \in ClientIds :
        /\ venue[c] = NoOrder => venue'[c] = NoOrder
        /\ venue[c] # NoOrder => venue'[c] # NoOrder /\ venue'[c].pay = venue[c].pay

Admits(c) ==
    /\ orders[c] = NoRow /\ orders'[c] # NoRow /\ orders'[c].pay \in Payloads
    /\ \A d \in ClientIds \ {c} : orders'[d] = orders[d]
    /\ UNCHANGED venue

Places(c) ==
    /\ orders[c] # NoRow /\ UNCHANGED orders
    /\ venue[c] = NoOrder /\ venue'[c] # NoOrder /\ venue'[c].pay = orders[c].pay
    /\ \A d \in ClientIds \ {c} : venue'[d] = venue[d]

ContractStep ==
    \/ SameRows /\ SameOrders
    \/ \E c \in ClientIds : Admits(c) \/ Places(c)

\* A step that touches neither the table nor the venue is a stutter of the contract.
LEMMA QuietStep ==
    ASSUME UNCHANGED <<orders, venue>>
    PROVE  ContractStep
  BY DEF ContractStep, SameRows, SameOrders

\* A new order at the venue, for a request that has its row.
LEMMA PlacedStep ==
    ASSUME CoreInv, NEW c \in ClientIds, NEW p \in Payloads, AdmittedFor(c, p),
           venue[c] = NoOrder, NEW v \in VenueStatesOf(p),
           venue' = [venue EXCEPT ![c] = v], UNCHANGED orders
    PROVE  ContractStep
  <1>1. v # NoOrder /\ v.pay = p
    BY VenueStateTyped
  <1>2. venue'[c] = v /\ \A d \in ClientIds \ {c} : venue'[d] = venue[d]
    BY DEF CoreInv, TypeOK
  <1>3. Places(c)
    BY <1>1, <1>2 DEF Places, AdmittedFor
  <1> QED  BY <1>3 DEF ContractStep

\* A step of a submission admits one payload, places one order, or stutters.
LEMMA CallContract ==
    ASSUME CoreInv, NEW w \in Callers, CallStep(w)
    PROVE  ContractStep
  <1> DEFINE c == call[w].cid
             p == call[w].pay
  <1>1. /\ TypeOK /\ Filed /\ c \in ClientIds /\ p \in Payloads /\ c \in Keys
        /\ orders \in [Keys -> Rows \cup {NoRow}]
    BY CallIsTyped, IdsAssumption DEF CoreInv, TypeOK, StoreTypeOK
  <1>2. CASE RecordPendingSubmission(w)
    <2>1. CASE CanReserve(orders, c) /\ orders' = Reserved(orders, c, p)
      <3>1. /\ orders'[c] = [oid |-> c, status |-> "PENDING", filled |-> 0, pay |-> p, intent |-> TRUE]
            /\ orders'[c] \in Rows
            /\ \A j \in Keys \ {c} : orders'[j] = orders[j]
        BY <1>1, <2>1, ReservedTable
      <3>2. orders[c] = NoRow /\ orders'[c] # NoRow
        BY <2>1, <3>1, NoRowIsNoRow DEF CanReserve
      <3>3. orders'[c].pay = p
        BY <3>1
      <3>4. UNCHANGED venue
        BY <1>2 DEF RecordPendingSubmission
      <3>5. Admits(c)
        BY <1>1, <3>1, <3>2, <3>3, <3>4, IdsAssumption DEF Admits
      <3> QED  BY <1>1, <3>5 DEF ContractStep
    <2>2. CASE UNCHANGED orders
      BY <1>2, <2>2, QuietStep DEF RecordPendingSubmission
    <2> QED  BY <1>2, <2>1, <2>2 DEF RecordPendingSubmission
  <1>3. CASE PlaceOrder(w)
    <2>1. call[w].pc \in Working /\ venue[c] = NoOrder /\ UNCHANGED orders
      BY <1>3 DEF PlaceOrder, Working
    <2>2. AdmittedFor(c, p)
      BY <2>1 DEF CoreInv, BackedBy
    <2>3. PICK v \in VenueStatesOf(p) : venue' = [venue EXCEPT ![c] = v]
      BY <1>3 DEF PlaceOrder
    <2> QED  BY <1>1, <2>1, <2>2, <2>3, PlacedStep
  <1>4. CASE RecordFinalSubmission(w) \/ ProcessRejection(w) \/ RecordWithoutId(w)
              \/ RecordFailedSubmission(w)
    <2>1. call[w].pc \in Working /\ UNCHANGED venue
      BY <1>4 DEF RecordFinalSubmission, ProcessRejection, RecordWithoutId,
                  RecordFailedSubmission, Working
    <2>2. PICK r \in {ReceiptRecord(w), SubmitIdRecord(w, "REJECTED"), SubmitIdRecord(w, "FAILED")} :
             /\ r = ReceiptRecord(w) => call[w].pc \in Answered
                    \/ r \in {SubmitIdRecord(w, "REJECTED"), SubmitIdRecord(w, "FAILED")}
             /\ \/ CanUpsert(orders, c, r) /\ orders' = Upserted(orders, c, r)
                \/ UNCHANGED orders
      BY <1>4 DEF RecordFinalSubmission, ProcessRejection, RecordWithoutId,
                  RecordFailedSubmission, Persist, Answered
    <2>3. r \in Receipts /\ r.oid \in {c, VenueId[c]}
      <3>1. call[w].pc \in Answered => call[w].receipt # NoOrder
        BY DEF CoreInv, BackedBy
      <3> QED  BY <1>1, <2>2, <3>1, RecordsAreReceipts
    <2>4. orders[c] # NoRow
      BY <2>1 DEF CoreInv, BackedBy, AdmittedFor
    <2>5. SameRows
      <3>1. CASE UNCHANGED orders
        BY <3>1, UnchangedRows
      <3>2. CASE CanUpsert(orders, c, r) /\ orders' = Upserted(orders, c, r)
        BY <1>1, <2>3, <2>4, <3>2, UpsertOwn
      <3> QED  BY <2>2, <3>1, <3>2
    <2> QED  BY <2>1, <2>5 DEF ContractStep, SameOrders
  <1>5. CASE \/ \E d \in ClientIds, x \in Payloads : SubmitOrderWithResult(w, d, x)
             \/ RejectMissingDecisionId(w) \/ GetExistingRecord(w) \/ StoreUnavailable(w)
             \/ HandleExistingSubmission(w) \/ FindExistingOrder(w) \/ AnswerWithoutId(w)
             \/ (\E b \in BOOLEAN : BrokerError(w, b)) \/ TransientError(w)
             \/ ReceiptConflict(w) \/ HandleOrderResult(w)
    <2>1. UNCHANGED <<orders, venue>>
      BY <1>5 DEF SubmitOrderWithResult, RejectMissingDecisionId, GetExistingRecord,
                  StoreUnavailable, HandleExistingSubmission, FindExistingOrder,
                  AnswerWithoutId, BrokerError, TransientError, ReceiptConflict,
                  HandleOrderResult
    <2> QED  BY <2>1, QuietStep
  <1> QED  BY <1>2, <1>3, <1>4, <1>5 DEF CallStep

\* So does every step of the system, when receipts name the client id.
LEMMA NextContract ==
    ASSUME CoreInv, EchoesClientId, [Next]_vars
    PROVE  ContractStep
  <1>1. ASSUME NEW w \in Callers, CallStep(w) PROVE ContractStep
    BY <1>1, CallContract
  <1>2. ASSUME NEW q \in late, LateArrival(q) PROVE ContractStep
    <2>1. q.cid \in ClientIds /\ q.pay \in Payloads /\ AdmittedFor(q.cid, q.pay)
      BY DEF CoreInv, TypeOK, Requests, BackedBy
    <2>2. PICK v \in VenueStatesOf(q.pay) : venue' = [venue EXCEPT ![q.cid] = v]
      BY <1>2 DEF LateArrival
    <2>3. venue[q.cid] = NoOrder /\ UNCHANGED orders
      BY <1>2 DEF LateArrival
    <2> QED  BY <2>1, <2>2, <2>3, PlacedStep
  <1>3. ASSUME NEW c \in ClientIds, VenueProgress(c) PROVE ContractStep
    <2>1. venue[c] \in VenueOrders /\ venue[c] # NoOrder /\ UNCHANGED orders
      BY <1>3 DEF VenueProgress, CoreInv, TypeOK
    <2>2. venue[c].pay \in Payloads
      BY <2>1 DEF VenueOrders
    <2>3. PICK v \in VenueStatesOf(venue[c].pay) : venue' = [venue EXCEPT ![c] = v]
      BY <1>3 DEF VenueProgress
    <2>4. v # NoOrder /\ v.pay = venue[c].pay
      BY <2>2, VenueStateTyped
    <2>5. venue'[c] = v /\ \A d \in ClientIds \ {c} : venue'[d] = venue[d]
      BY <2>3 DEF CoreInv, TypeOK
    <2>6. SameOrders
      BY <2>1, <2>4, <2>5 DEF SameOrders
    <2> QED  BY <2>1, <2>6, UnchangedRows DEF ContractStep
  <1>4. ASSUME NEW c \in ClientIds, NEW k \in ObservedKeys(c), NEW r \in Receipts,
               ObserveVenue(c, k, r)
        PROVE  ContractStep
    <2>1. k = c /\ TypeOK /\ Filed
      BY <1>4 DEF ObservedKeys, CoreInv
    <2>2. /\ CanUpsert(orders, c, r) /\ orders' = Upserted(orders, c, r)
          /\ r.oid = VenueId[c] /\ venue[c] # NoOrder /\ UNCHANGED venue
      BY <1>4, <2>1 DEF ObserveVenue, Believable
    <2>3. orders[c] # NoRow
      BY <2>2 DEF CoreInv, BackedBy, AdmittedFor
    <2>4. SameRows
      BY <2>1, <2>2, <2>3, UpsertOwn
    <2> QED  BY <2>2, <2>4 DEF ContractStep, SameOrders
  <1>5. CASE CrashAndRestart
    BY <1>5, QuietStep DEF CrashAndRestart
  <1>6. CASE UNCHANGED vars
    BY <1>6, QuietStep DEF vars
  <1> QED  BY <1>1, <1>2, <1>3, <1>4, <1>5, <1>6 DEF Next

\* The detailed protocol, with its threads, retries, late requests, crashes and
\* other writers of the table, implements the contract: a client id is admitted
\* once and for good, and its order is placed at most once, as admitted.
THEOREM SubmissionImplementsContract ==
    ASSUME EchoesClientId PROVE Spec => ImplementsContract
  <1>1. Init => Contract!ContractInit
    BY IdsAssumption DEF Init, StoreInit, Contract!ContractInit, Admissions, Placements
  <1>2. CoreInv /\ [Next]_vars => [Contract!ContractNext]_<<Admissions, Placements>>
    <2> SUFFICES ASSUME CoreInv, [Next]_vars
                 PROVE  Contract!ContractNext \/ UNCHANGED <<Admissions, Placements>>
      OBVIOUS
    <2>1. CASE SameRows /\ SameOrders
      BY <2>1 DEF SameRows, SameOrders, Admissions, Placements
    <2>2. ASSUME NEW c \in ClientIds, Admits(c) PROVE Contract!ContractNext
      <3>1. Admissions[c] = NoRow /\ Admissions' = [Admissions EXCEPT ![c] = orders'[c].pay]
        <4>1. Admissions[c] = NoRow
          BY <2>2 DEF Admits, Admissions
        <4>2. \A d \in ClientIds : Admissions'[d] = IF d = c THEN orders'[c].pay ELSE Admissions[d]
          BY <2>2 DEF Admits, Admissions
        <4> QED  BY <4>1, <4>2 DEF Admissions
      <3>2. Placements' = Placements
        BY <2>2 DEF Admits, Placements
      <3>3. Contract!Admit(c, orders'[c].pay)
        BY <3>1, <3>2 DEF Contract!Admit
      <3> QED  BY <2>2, <3>3 DEF Contract!ContractNext, Admits
    <2>3. ASSUME NEW c \in ClientIds, Places(c) PROVE Contract!ContractNext
      <3>1. orders[c].pay \in Payloads /\ orders[c].pay # NoRow
        BY <2>3, IdsAssumption, NothingAssumption
           DEF Places, CoreInv, TypeOK, StoreTypeOK, Rows
      <3>2. Admissions' = Admissions /\ Admissions[c] = orders[c].pay
        BY <2>3 DEF Places, Admissions
      <3>3. Placements[c] = NoRow /\ Placements' = [Placements EXCEPT ![c] = orders[c].pay]
        BY <2>3 DEF Places, Placements
      <3>4. Contract!Place(c)
        BY <3>1, <3>2, <3>3 DEF Contract!Place
      <3> QED  BY <3>4 DEF Contract!ContractNext
    <2> QED  BY <2>1, <2>2, <2>3, NextContract DEF ContractStep
  <1> QED  BY <1>1, <1>2, SubmissionCore, PTL DEF Spec, ImplementsContract, Contract!ContractSpec

-----------------------------------------------------------------------------
(* Reconciliation: what a stale read is worth.                             *)

\* The venue's order of c is v, or has been v.
Was(c, v) ==
    /\ venue[c] # NoOrder
    /\ v \in VenueStatesOf(venue[c].pay)
    /\ v.filled <= venue[c].filled
    /\ v.status \in VenueTerminal => v = venue[c]

\* The row p was read for c.
Reread(c, p) ==
    /\ orders[c] # NoRow
    /\ p.pay = orders[c].pay
    /\ p.filled <= orders[c].filled
    /\ p.oid = VenueId[c] => venue[c] # NoOrder

VenueSound == \A c \in ClientIds : venue[c] # NoOrder => Was(c, venue[c])

\* A row that carries the venue's id is about an order that the venue has.
Named ==
    \A c \in ClientIds :
        orders[c] # NoRow /\ orders[c].oid = VenueId[c] => venue[c] # NoOrder

OrdersInv == TruthInv /\ VenueSound /\ Named

\* What the audit a has read, and what it knows of the orders it has still to see to.
ReadsFit(a) ==
    /\ \A c \in ClientIds : a.listing[c] # NoOrder => Was(c, a.listing[c])
    /\ \A c \in ClientIds : a.pending[c] # NoRow => Reread(c, a.pending[c])
    /\ a.answer # NoAnswer => Was(a.answer.cid, a.answer.order)

TasksFit(a) ==
    /\ a.answer # NoAnswer =>
           a.pc \in {"refresh", "missing"} /\ a.pending[a.answer.cid] # NoRow
    /\ \A c \in a.todo :
           /\ a.pc \in {"refresh", "missing", "normalize"} => a.pending[c] # NoRow
           /\ a.pc \in {"normalize", "recover"} => a.listing[c] # NoOrder
    /\ a.pc = "recover" => \A c \in a.unknown : a.listing[c] # NoOrder

AuditFits(a) == a \in Audits /\ ReadsFit(a) /\ TasksFit(a)

DriftInv == /\ drift \in 0..DriftMax /\ escalated \in BOOLEAN /\ sweep \subseteq Keys
            /\ ~escalated => drift < DriftMax

ReconInv == OrdersInv /\ AuditFits(audit) /\ DriftInv

\* What a step may do to the table and the venue: the protocol's own steps, or one of
\* three that the audit, the events and the guards do.
Tracks ==
    /\ openOrders' \subseteq Keys
    /\ UNCHANGED <<orders, venue, late, call, claims>>

Writes(c, r) ==
    /\ venue[c] # NoOrder
    /\ Believable(c, r)
    /\ CanUpsert(orders, c, r)
    /\ orders' = Upserted(orders, c, r)
    /\ openOrders' \subseteq Keys
    /\ UNCHANGED <<venue, late, call, claims>>

Cancels(c) ==
    /\ Live(c)
    /\ venue' = [venue EXCEPT ![c] = Cancelled(c)]
    /\ openOrders' \subseteq Keys
    /\ UNCHANGED <<orders, late, call, claims>>

OrdersStep ==
    \/ ProtocolStep
    \/ Tracks
    \/ \E c \in ClientIds, r \in Receipts : Writes(c, r)
    \/ \E c \in ClientIds : Cancels(c)

\* What every step does to the rows: none is lost, they only grow, and a settled one
\* stays settled.
RowsAdvance ==
    \A c \in ClientIds :
        orders[c] # NoRow =>
            /\ orders'[c] # NoRow /\ orders'[c].pay = orders[c].pay
            /\ orders'[c].filled >= orders[c].filled
            /\ orders[c].status \in VenueTerminal =>
                   orders'[c].status = orders[c].status

-----------------------------------------------------------------------------
(* Stale reads stay what they are worth.                                   *)

\* The venue's order of c, and what it has been, are orders of the same payload.
LEMMA WasTyped ==
    ASSUME TypeOK, NEW c \in ClientIds, NEW v, Was(c, v)
    PROVE  /\ v \in VenueOrders /\ v # NoOrder /\ v.pay = venue[c].pay /\ v.filled \in Nat
           /\ venue[c].pay \in Payloads /\ venue[c].filled \in Nat /\ v.status \in Statuses
  <1>1. venue[c] \in VenueOrders
    BY DEF TypeOK, Was
  <1>2. venue[c].pay \in Payloads /\ venue[c].filled \in Nat
    BY <1>1, BoundAssumption DEF VenueOrders
  <1>3. v \in VenueOrders /\ v.pay = venue[c].pay /\ v # NoOrder
    BY <1>2, VenueStateTyped DEF Was
  <1> QED BY <1>2, <1>3, BoundAssumption DEF VenueOrders

LEMMA WasLasts ==
    ASSUME TypeOK, TypeOK', VenueAdvances, NEW c \in ClientIds, NEW v, Was(c, v)
    PROVE  Was(c, v)'
  <1>1. venue[c] # NoOrder /\ v.filled \in Nat /\ venue[c].filled \in Nat
    BY WasTyped DEF Was
  <1>2. /\ venue'[c] # NoOrder /\ venue'[c].pay = venue[c].pay
        /\ venue'[c].filled >= venue[c].filled
        /\ venue[c].status \in VenueTerminal => venue'[c] = venue[c]
    BY <1>1 DEF VenueAdvances
  <1>3. venue'[c].filled \in Nat
    BY <1>2, BoundAssumption DEF TypeOK, VenueOrders
  <1> QED BY <1>1, <1>2, <1>3 DEF Was

LEMMA RereadLasts ==
    ASSUME TypeOK, TypeOK', VenueAdvances, RowsAdvance, NEW c \in ClientIds, NEW p \in Rows,
           Reread(c, p)
    PROVE  Reread(c, p)'
  <1>1. orders[c] # NoRow /\ c \in Keys
    BY IdsAssumption DEF Reread
  <1>2. /\ orders'[c] # NoRow /\ orders'[c].pay = orders[c].pay
        /\ orders'[c].filled >= orders[c].filled
    BY <1>1 DEF RowsAdvance
  <1>3. orders[c].filled \in Nat /\ orders'[c].filled \in Nat /\ p.filled \in Nat
    BY <1>1, <1>2, BoundAssumption DEF TypeOK, StoreTypeOK, Rows
  <1>4. venue[c] # NoOrder => venue'[c] # NoOrder
    BY DEF VenueAdvances
  <1> QED BY <1>1, <1>2, <1>3, <1>4 DEF Reread

LEMMA ReadsLast ==
    ASSUME TypeOK, TypeOK', VenueAdvances, RowsAdvance, NEW a, AuditFits(a)
    PROVE  AuditFits(a)'
  <1>1. /\ a \in Audits /\ ReadsFit(a) /\ TasksFit(a)
        /\ \A c \in ClientIds : a.pending[c] # NoRow => a.pending[c] \in Rows
        /\ a.answer # NoAnswer => a.answer.cid \in ClientIds
    BY DEF AuditFits, Audits
  <1>2. ASSUME NEW c \in ClientIds, a.listing[c] # NoOrder
        PROVE  Was(c, a.listing[c])'
    BY <1>1, <1>2, WasLasts DEF ReadsFit
  <1>3. ASSUME NEW c \in ClientIds, a.pending[c] # NoRow
        PROVE  Reread(c, a.pending[c])'
    BY <1>1, <1>3, RereadLasts DEF ReadsFit
  <1>4. ASSUME a.answer # NoAnswer
        PROVE  Was(a.answer.cid, a.answer.order)'
    BY <1>1, <1>4, WasLasts DEF ReadsFit
  <1>5. ReadsFit(a)'
    BY <1>2, <1>3, <1>4 DEF ReadsFit
  <1> QED BY <1>1, <1>5 DEF AuditFits, TasksFit

-----------------------------------------------------------------------------
(* What steps do to the table and the venue.                               *)

\* Orders appear, fill and end at the venue in states that an order can be in.
VenueMoves ==
    \A c \in ClientIds :
        \/ venue'[c] = venue[c]
        \/ /\ venue'[c] # NoOrder /\ venue'[c] \in VenueStatesOf(venue'[c].pay)
           /\ venue[c] # NoOrder =>
                  /\ venue'[c].pay = venue[c].pay /\ venue'[c].filled >= venue[c].filled
                  /\ venue[c].status \in PendingStatuses

LEMMA VenueMovesOn ==
    ASSUME TypeOK, TypeOK', VenueSound, VenueMoves
    PROVE  VenueAdvances /\ VenueSound'
  <1>1. /\ \A c \in ClientIds : venue[c] # NoOrder => venue[c].filled \in Nat
        /\ \A c \in ClientIds : venue'[c] # NoOrder => venue'[c].filled \in Nat
    BY BoundAssumption DEF TypeOK, VenueOrders
  <1>2. VenueAdvances
    BY <1>1 DEF VenueMoves, VenueAdvances, PendingStatuses, VenueTerminal
  <1>3. VenueSound'
    BY <1>1 DEF VenueMoves, VenueSound, Was
  <1> QED BY <1>2, <1>3

\* A new order at the venue.
LEMMA PlacedMoves ==
    ASSUME TypeOK, NEW c \in ClientIds, venue[c] = NoOrder, NEW p \in Payloads,
           NEW v \in VenueStatesOf(p), venue' = [venue EXCEPT ![c] = v]
    PROVE  VenueMoves
  <1>1. v # NoOrder /\ v.pay = p
    BY VenueStateTyped
  <1>2. venue'[c] = v /\ \A d \in ClientIds \ {c} : venue'[d] = venue[d]
    BY DEF TypeOK
  <1> QED BY <1>1, <1>2 DEF VenueMoves

\* A cancellation is a state that a live order can end in.
LEMMA CancelledMoves ==
    ASSUME TypeOK, VenueSound, NEW c \in ClientIds, Live(c),
           venue' = [venue EXCEPT ![c] = Cancelled(c)]
    PROVE  /\ VenueMoves
           /\ Cancelled(c) \in VenueStatesOf(venue[c].pay) /\ venue[c].pay \in Payloads
  <1>1. /\ Was(c, venue[c]) /\ venue[c].status \in PendingStatuses /\ venue[c] # NoOrder
        /\ venue[c] \in VenueOrders
    BY DEF VenueSound, Live, TypeOK
  <1>2. venue[c].pay \in Payloads /\ venue[c].filled \in Nat
    BY <1>1, WasTyped
  <1>3. Quantity[venue[c].pay] \in Nat \ {0}
    BY <1>2, QuantityAssumption
  <1>4. /\ venue[c].filled < Quantity[venue[c].pay] /\ venue[c].filled \in 0..Quantity[venue[c].pay]
    BY <1>1, <1>2, <1>3 DEF Was, VenueStatesOf, PendingStatuses
  <1>5. Cancelled(c) = [status |-> "CANCELLED", filled |-> venue[c].filled, pay |-> venue[c].pay]
    BY <1>1 DEF Cancelled, VenueOrders
  <1>6. Cancelled(c) \in VenueStatesOf(venue[c].pay)
    BY <1>4, <1>5 DEF VenueStatesOf, Statuses, VenueTerminal
  <1>7. venue'[c] = Cancelled(c) /\ \A d \in ClientIds \ {c} : venue'[d] = venue[d]
    BY DEF TypeOK
  <1>8. Cancelled(c) # NoOrder
    BY <1>2, <1>6, VenueStateTyped
  <1>9. Cancelled(c).pay = venue[c].pay /\ Cancelled(c).filled = venue[c].filled
    BY <1>5
  <1> QED BY <1>1, <1>2, <1>6, <1>7, <1>8, <1>9 DEF VenueMoves

\* A row written over the row that was there, for an order the venue has if it says so.
OwnWrite(c, r) ==
    /\ orders[c] # NoRow
    /\ r.oid \in {c, VenueId[c]}
    /\ r.oid = VenueId[c] => venue[c] # NoOrder
    /\ CanUpsert(orders, c, r)
    /\ orders' = Upserted(orders, c, r)

\* A row of a client id that had none.
OwnReservation(c) ==
    /\ orders[c] = NoRow
    /\ orders'[c].oid = c
    /\ \A d \in ClientIds \ {c} : orders'[d] = orders[d]

RowsMove ==
    \/ UNCHANGED orders
    \/ \E c \in ClientIds : OwnReservation(c)
    \/ \E c \in ClientIds, r \in Receipts : OwnWrite(c, r)

LEMMA RowsMoveOn ==
    ASSUME TypeOK, Filed, Named, VenueAdvances, RowsMove
    PROVE  RowsAdvance /\ Named'
  <1>0. /\ \A c \in ClientIds : orders[c] # NoRow => orders[c].filled \in Nat
        /\ \A c \in ClientIds : venue[c] # NoOrder => venue'[c] # NoOrder
        /\ \A c \in ClientIds : VenueId[c] # c
    BY IdsAssumption, BoundAssumption DEF TypeOK, StoreTypeOK, Rows, VenueAdvances
  <1>1. CASE UNCHANGED orders
    BY <1>0, <1>1 DEF RowsAdvance, Named
  <1>2. ASSUME NEW c \in ClientIds, OwnReservation(c)
        PROVE  RowsAdvance /\ Named'
    BY <1>0, <1>2 DEF OwnReservation, RowsAdvance, Named
  <1>3. ASSUME NEW c \in ClientIds, NEW r \in Receipts, OwnWrite(c, r)
        PROVE  RowsAdvance /\ Named'
    <2>1. /\ SameRows /\ orders'[c].status = r.status /\ orders'[c].filled = r.filled
          /\ orders'[c].oid = r.oid
          /\ \A k \in Keys \ {c} : orders'[k] = orders[k]
      BY <1>3, UpsertOwn DEF OwnWrite
    <2>2. /\ r.filled >= orders[c].filled
          /\ orders[c].status \in VenueTerminal => r.status = orders[c].status
      BY <1>3 DEF OwnWrite, CanUpsert, CanPreserve, SameReceipt
    <2>3. \A d \in ClientIds \ {c} : orders'[d] = orders[d]
      BY <2>1, IdsAssumption
    <2>4. RowsAdvance
      BY <1>0, <2>1, <2>2, <2>3 DEF RowsAdvance, SameRows
    <2>5. Named'
      BY <1>0, <1>3, <2>1, <2>3 DEF Named, OwnWrite
    <2> QED BY <2>4, <2>5
  <1> QED BY <1>1, <1>2, <1>3 DEF RowsMove

\* A caller reserves, places its order, or writes over its row, never two of these; and
\* no caller writes without moving on.
LEMMA CallMoves ==
    ASSUME TruthInv, NEW w \in Callers, CallStep(w)
    PROVE  VenueMoves /\ RowsMove /\ (orders' # orders => call' # call)
  <1> DEFINE c == call[w].cid
             p == call[w].pay
  <1>1. /\ TypeOK /\ Filed /\ c \in ClientIds /\ p \in Payloads /\ c \in Keys /\ CoreInv
        /\ call[w].pc \in Working => orders[c] # NoRow
    BY CallIsTyped, IdsAssumption DEF TruthInv, CoreInv, BackedBy, AdmittedFor
  <1>2. CASE PlaceOrder(w)
    <2>1. PICK v \in VenueStatesOf(p) : venue' = [venue EXCEPT ![c] = v]
      BY <1>2 DEF PlaceOrder
    <2>2. venue[c] = NoOrder /\ UNCHANGED orders
      BY <1>2 DEF PlaceOrder
    <2> QED BY <1>1, <2>1, <2>2, PlacedMoves DEF RowsMove
  <1>3. CASE RecordPendingSubmission(w)
    <2>1. UNCHANGED venue /\ call[w].pc = "reserve"
      BY <1>3 DEF RecordPendingSubmission
    <2>2. CASE CanReserve(orders, c) /\ orders' = Reserved(orders, c, p) /\ Goto(w, "send")
      <3>1. /\ orders'[c] = [oid |-> c, status |-> "PENDING", filled |-> 0, pay |-> p,
                             intent |-> TRUE]
            /\ \A j \in Keys \ {c} : orders'[j] = orders[j]
        <4>1. orders \in [Keys -> Rows \cup {NoRow}]
          BY <1>1 DEF TypeOK, StoreTypeOK
        <4> QED BY <1>1, <2>2, <4>1, ReservedTable
      <3>2. orders[c] = NoRow
        BY <2>2 DEF CanReserve
      <3>3. OwnReservation(c)
        BY <3>1, <3>2, IdsAssumption DEF OwnReservation
      <3>4. call'[w].pc = "send"
        <4>1. "send" \in Steps
          BY DEF Steps
        <4> QED BY <1>1, <2>2, <4>1, CallWent
      <3> QED BY <1>1, <2>1, <3>3, <3>4 DEF RowsMove, VenueMoves
    <2>3. CASE UNCHANGED orders
      BY <2>1, <2>3 DEF RowsMove, VenueMoves
    <2> QED BY <1>3, <2>2, <2>3 DEF RecordPendingSubmission
  <1>4. CASE RecordFinalSubmission(w) \/ ProcessRejection(w) \/ RecordWithoutId(w)
             \/ RecordFailedSubmission(w)
    <2>1. UNCHANGED venue /\ call[w].pc \in Working /\ call'[w].pc # call[w].pc
      BY <1>4, PersistedRecord
    <2>2. \/ UNCHANGED orders
          \/ \E r \in Receipts :
                /\ r.oid \in {c, VenueId[c]} /\ (r.oid = VenueId[c] => venue[c] # NoOrder)
                /\ CanUpsert(orders, c, r) /\ orders' = Upserted(orders, c, r)
      BY <1>4, PersistedRecord
    <2>3. RowsMove
      BY <1>1, <2>1, <2>2 DEF RowsMove, OwnWrite
    <2> QED BY <2>1, <2>3 DEF VenueMoves
  <1>5. CASE UNCHANGED <<orders, venue>>
    BY <1>5 DEF RowsMove, VenueMoves
  <1>6. \/ PlaceOrder(w) \/ RecordPendingSubmission(w)
        \/ RecordFinalSubmission(w) \/ ProcessRejection(w) \/ RecordWithoutId(w)
        \/ RecordFailedSubmission(w)
        \/ UNCHANGED <<orders, venue>>
    BY DEF CallStep, SubmitOrderWithResult, RejectMissingDecisionId, GetExistingRecord,
           StoreUnavailable, HandleExistingSubmission, FindExistingOrder, AnswerWithoutId,
           BrokerError, TransientError, ReceiptConflict, HandleOrderResult
  <1> QED BY <1>2, <1>3, <1>4, <1>5, <1>6

LEMMA ProtocolMoves ==
    ASSUME TruthInv, ProtocolStep
    PROVE  VenueMoves /\ RowsMove /\ (orders' # orders => call' # call)
  <1>1. TypeOK
    BY DEF TruthInv, CoreInv
  <1>2. ASSUME NEW w \in Callers, CallStep(w)
        PROVE  VenueMoves /\ RowsMove /\ (orders' # orders => call' # call)
    BY <1>2, CallMoves
  <1>3. ASSUME NEW q \in late, LateArrival(q) PROVE VenueMoves /\ UNCHANGED orders
    <2>1. q.cid \in ClientIds /\ q.pay \in Payloads
      BY <1>1 DEF TypeOK, Requests
    <2>2. PICK v \in VenueStatesOf(q.pay) : venue' = [venue EXCEPT ![q.cid] = v]
      BY <1>3 DEF LateArrival
    <2>3. venue[q.cid] = NoOrder /\ UNCHANGED orders
      BY <1>3 DEF LateArrival
    <2> QED BY <1>1, <2>1, <2>2, <2>3, PlacedMoves
  <1>4. ASSUME NEW c \in ClientIds, VenueProgress(c) PROVE VenueMoves /\ UNCHANGED orders
    <2>1. /\ venue[c] # NoOrder /\ venue[c].status \in PendingStatuses /\ UNCHANGED orders
          /\ venue[c] \in VenueOrders
      BY <1>1, <1>4 DEF VenueProgress, TypeOK
    <2>2. PICK v \in VenueStatesOf(venue[c].pay) :
             v.filled >= venue[c].filled /\ venue' = [venue EXCEPT ![c] = v]
      BY <1>4 DEF VenueProgress
    <2>3. venue[c].pay \in Payloads
      BY <2>1 DEF VenueOrders
    <2>4. v # NoOrder /\ v.pay = venue[c].pay
      BY <2>3, VenueStateTyped
    <2>5. venue'[c] = v /\ \A d \in ClientIds \ {c} : venue'[d] = venue[d]
      BY <1>1, <2>2 DEF TypeOK
    <2> QED BY <2>1, <2>2, <2>4, <2>5 DEF VenueMoves
  <1>5. CASE CrashAndRestart \/ UNCHANGED vars
    BY <1>5 DEF CrashAndRestart, vars, VenueMoves, RowsMove
  <1> QED BY <1>2, <1>3, <1>4, <1>5 DEF ProtocolStep, RowsMove

\* Whatever is done to the table and the venue keeps what holds of them.
LEMMA OrdersStepKeeps ==
    ASSUME OrdersInv, OrdersStep
    PROVE  OrdersInv' /\ VenueAdvances /\ RowsAdvance
  <1>1. TruthInv /\ CoreInv /\ TypeOK /\ Filed /\ VenueSound /\ Named
    BY DEF OrdersInv, TruthInv, CoreInv
  <1>2. SUFFICES TruthInv' /\ VenueMoves /\ RowsMove
    <2>1. ASSUME TruthInv', VenueMoves, RowsMove
          PROVE  OrdersInv' /\ VenueAdvances /\ RowsAdvance
      <3>1. TypeOK'
        BY <2>1 DEF TruthInv, CoreInv
      <3>2. VenueAdvances /\ VenueSound'
        BY <1>1, <2>1, <3>1, VenueMovesOn
      <3>3. RowsAdvance /\ Named'
        BY <1>1, <2>1, <3>2, RowsMoveOn
      <3> QED BY <2>1, <3>2, <3>3 DEF OrdersInv
    <2> QED BY <2>1
  <1>3. CASE ProtocolStep
    BY <1>1, <1>3, ProtocolKeepsCore, ProtocolKeepsTruth, ProtocolMoves
  <1>4. CASE Tracks
    <2>1. CoreInv'
      <3>1. TypeOK'
        BY <1>1, <1>4 DEF Tracks, TypeOK, StoreTypeOK
      <3>2. Filed' /\ SameRows /\ BackedBy(venue', late', call')
        BY <1>1, <1>4, UnchangedRows DEF Tracks, CoreInv, BackedBy
      <3> QED BY <1>1, <1>4, <3>1, <3>2, KeepsCore DEF Tracks
    <2>2. TruthInv'
      BY <1>1, <1>4, <2>1, VenueStays, KeepsTruth DEF Tracks
    <2> QED BY <1>4, <2>2 DEF Tracks, VenueMoves, RowsMove
  <1>5. ASSUME NEW c \in ClientIds, NEW r \in Receipts, Writes(c, r)
        PROVE  TruthInv' /\ VenueMoves /\ RowsMove
    <2>1. /\ venue[c] # NoOrder /\ Believable(c, r) /\ r.oid = VenueId[c]
          /\ CanUpsert(orders, c, r) /\ orders' = Upserted(orders, c, r)
          /\ UNCHANGED <<venue, late, call, claims>> /\ openOrders' \subseteq Keys
      BY <1>5 DEF Writes, Believable
    <2>2. orders[c] # NoRow
      BY <1>1, <2>1 DEF CoreInv, BackedBy, AdmittedFor
    <2>3. CoreInv'
      BY <1>1, <2>1, WriteKeepsCore
    <2>4. TruthInv'
      BY <1>1, <2>1, <2>3, WriteKeepsTruth
    <2> QED BY <2>1, <2>2, <2>4 DEF VenueMoves, RowsMove, OwnWrite
  <1>6. ASSUME NEW c \in ClientIds, Cancels(c)
        PROVE  TruthInv' /\ VenueMoves /\ RowsMove
    <2>1. /\ Live(c) /\ venue' = [venue EXCEPT ![c] = Cancelled(c)]
          /\ openOrders' \subseteq Keys /\ UNCHANGED <<orders, late, call, claims>>
          /\ call \in [Callers -> Calls]
      BY <1>1, <1>6 DEF Cancels, TypeOK
    <2>2. /\ VenueMoves /\ Cancelled(c) \in VenueStatesOf(venue[c].pay)
          /\ venue[c].pay \in Payloads
      BY <1>1, <2>1, CancelledMoves
    <2>3. AdmittedFor(c, venue[c].pay)
      BY <1>1, <2>1 DEF CoreInv, BackedBy, Live
    <2>4. CoreInv'
      BY <1>1, <2>1, <2>2, <2>3, VenueKeepsCore
    <2>5. TypeOK' /\ VenueAdvances
      <3>1. TypeOK'
        BY <2>4 DEF CoreInv
      <3> QED BY <1>1, <2>2, <3>1, VenueMovesOn
    <2>6. TruthInv'
      BY <1>1, <2>1, <2>4, <2>5, KeepsTruth
    <2> QED BY <2>1, <2>2, <2>6 DEF RowsMove
  <1> QED BY <1>3, <1>4, <1>5, <1>6 DEF OrdersStep

-----------------------------------------------------------------------------
(* What the audit, the events and the guards write.                        *)

\* A snapshot of the order, current or outdated, is believable: fills it does not lack,
\* and an end only if the order has ended so.
LEMMA SnapshotBelievable ==
    ASSUME OrdersInv, NEW c \in ClientIds, NEW v, Was(c, v)
    PROVE  LET r == [oid |-> VenueId[c], status |-> v.status, filled |-> v.filled,
                     pay |-> v.pay]
           IN  r \in Receipts /\ Believable(c, r)
  <1>1. /\ v \in VenueOrders /\ VenueId[c] \in Keys
    BY WasTyped, IdsAssumption DEF OrdersInv, TruthInv, CoreInv
  <1> QED BY <1>1 DEF Was, Believable, Receipts, VenueOrders

\* The rows are not ahead of the venue.
LEMMA RowBehind ==
    ASSUME OrdersInv, NEW c \in ClientIds, NEW p \in Rows, Reread(c, p), venue[c] # NoOrder
    PROVE  /\ p.filled \in Nat /\ venue[c].filled \in Nat /\ p.filled <= venue[c].filled
           /\ p.pay = venue[c].pay /\ p.pay \in Payloads /\ VenueId[c] \in Keys
  <1>1. /\ c \in Keys /\ VenueId[c] \in Keys /\ orders[c] \in Rows /\ venue[c] \in VenueOrders
        /\ RowBorne(c) /\ AdmittedFor(c, venue[c].pay) /\ orders[c] # NoRow
    BY IdsAssumption
       DEF OrdersInv, TruthInv, CoreInv, BackedBy, TypeOK, StoreTypeOK, Reread
  <1>2. p.filled \in Nat /\ orders[c].filled \in Nat /\ venue[c].filled \in Nat
    BY <1>1, BoundAssumption DEF Rows, VenueOrders
  <1>3. orders[c].filled <= venue[c].filled
    BY <1>1, <1>2 DEF RowBorne, Borne
  <1> QED BY <1>1, <1>2, <1>3 DEF Reread, AdmittedFor, Rows

\* What refresh_missing_persisted_orders makes of an answer and of the row it had read.
LEMMA RefreshBelievable ==
    ASSUME OrdersInv, NEW c \in ClientIds, NEW old \in Rows, Reread(c, old),
           NEW v, Was(c, v)
    PROVE  RefreshRecord(c, old, v) \in Receipts /\ Believable(c, RefreshRecord(c, old, v))
  <1>1. TypeOK /\ venue[c] # NoOrder /\ venue[c] \in VenueOrders
    BY DEF OrdersInv, TruthInv, CoreInv, Was, TypeOK
  <1>2. v \in VenueOrders /\ v.filled \in Nat
    BY <1>1, WasTyped
  <1>3. /\ old.filled \in Nat /\ old.filled <= venue[c].filled /\ VenueId[c] \in Keys
        /\ venue[c].filled \in Nat
    BY <1>1, RowBehind
  <1>4. PICK f : f = IF v.filled # 0 THEN v.filled ELSE old.filled
    OBVIOUS
  <1>5. RefreshRecord(c, old, v) = [oid |-> VenueId[c], status |-> v.status, filled |-> f,
                                    pay |-> v.pay]
    BY <1>4 DEF RefreshRecord
  <1>6. f \in 0..MaxFilled /\ f <= venue[c].filled
    BY <1>2, <1>3, <1>4 DEF Was, VenueOrders, Rows
  <1>7. v.status \in VenueTerminal => f = venue[c].filled /\ v.status = venue[c].status
    BY <1>3, <1>4 DEF Was
  <1> QED BY <1>2, <1>3, <1>5, <1>6, <1>7 DEF Believable, Receipts, VenueOrders

\* What normalize_order_ids writes back from the row it had read.
LEMMA NormalizeBelievable ==
    ASSUME OrdersInv, NEW c \in ClientIds, NEW old \in Rows, Reread(c, old),
           venue[c] # NoOrder
    PROVE  NormalizeRecord(c, old) \in Receipts /\ Believable(c, NormalizeRecord(c, old))
  <1>1. old.filled <= venue[c].filled /\ VenueId[c] \in Keys
    BY RowBehind
  <1> QED BY <1>1 DEF NormalizeRecord, Believable, Receipts, Rows, Statuses,
                      PendingStatuses, VenueTerminal

\* handle_fill works the status out from the stored quantity: filled up means that
\* the venue's order is FILLED.
LEMMA FillBelievable ==
    ASSUME OrdersInv, NEW c \in ClientIds, NEW v, Was(c, v), v.filled > orders[c].filled
    PROVE  /\ FillRecord(c, orders[c], v) \in Receipts
           /\ Believable(c, FillRecord(c, orders[c], v))
  <1>1. /\ TypeOK /\ venue[c] # NoOrder /\ orders[c] # NoRow /\ c \in Keys
        /\ orders[c] \in Rows /\ orders[c].pay = venue[c].pay /\ Was(c, venue[c])
        /\ VenueId[c] \in Keys
    BY IdsAssumption DEF OrdersInv, TruthInv, CoreInv, BackedBy, AdmittedFor, Was, TypeOK,
                         StoreTypeOK, VenueSound
  <1>2. /\ v \in VenueOrders /\ v.filled \in Nat /\ venue[c].filled \in Nat
        /\ venue[c].pay \in Payloads
    BY <1>1, WasTyped
  <1>3. Quantity[venue[c].pay] \in Nat \ {0}
    BY <1>2, QuantityAssumption
  <1>4. PICK q : q = Quantity[venue[c].pay]
    OBVIOUS
  <1>5. v.filled <= venue[c].filled /\ v.filled <= q /\ venue[c].filled <= q
    BY <1>1, <1>2, <1>3, <1>4 DEF Was, VenueStatesOf
  <1>6. v.filled >= q => venue[c].filled = q /\ v.filled = q
    BY <1>2, <1>3, <1>4, <1>5
  <1>7. venue[c].filled = q => venue[c].status = "FILLED"
    BY <1>1, <1>3, <1>4 DEF Was, VenueStatesOf, Statuses, PendingStatuses, VenueTerminal
  <1>8. PICK st : st = IF v.filled >= q THEN "FILLED" ELSE "PARTIALLY_FILLED"
    OBVIOUS
  <1>9. FillRecord(c, orders[c], v) =
            [oid |-> VenueId[c], status |-> st, filled |-> v.filled, pay |-> orders[c].pay]
    BY <1>1, <1>4, <1>8 DEF FillRecord
  <1>10. st \in Statuses /\ (st \in VenueTerminal => v.filled >= q)
    BY <1>8 DEF Statuses, PendingStatuses, VenueTerminal
  <1>11. st \in VenueTerminal => st = "FILLED"
    BY <1>8 DEF VenueTerminal
  <1> QED BY <1>1, <1>2, <1>5, <1>6, <1>7, <1>9, <1>10, <1>11
          DEF Believable, Receipts, VenueOrders, Rows

-----------------------------------------------------------------------------
(* Each step of the audit knows what the next ones rely on.                *)

\* What a step leaves behind is as it should be, seen from the state it starts in.
Conforms ==
    /\ OrdersStep
    /\ \E a : audit' = a /\ AuditFits(a)
    /\ DriftInv'

LEMMA IdleFits == AuditFits(IdleAudit)
  <1>1. /\ IdleAudit.pc = "idle" /\ IdleAudit.todo = {} /\ IdleAudit.answer = NoAnswer
        /\ \A c \in ClientIds : IdleAudit.listing[c] = NoOrder /\ IdleAudit.pending[c] = NoRow
    BY DEF IdleAudit, NothingListed
  <1>2. IdleAudit \in Audits
    BY DEF IdleAudit, NothingListed, Audits, Listings, AuditSteps
  <1> QED BY <1>1, <1>2 DEF AuditFits, ReadsFit, TasksFit

LEMMA DispatchFits ==
    ASSUME NEW a \in Audits, ReadsFit(a), a.answer = NoAnswer
    PROVE  AuditFits(Dispatch(a))
  <1>1. PICK b : b = Dispatch(a)
    OBVIOUS
  <1>2. PICK waiting : waiting = {c \in ClientIds : a.pending[c] # NoRow}
    OBVIOUS
  <1>3. \/ b = [a EXCEPT !.pc = "normalize", !.todo = ToNormalize(a)]
        \/ b = [a EXCEPT !.pc = "refresh", !.todo = waiting]
        \/ b = [a EXCEPT !.pc = "empty"] /\ waiting = {}
    BY <1>1, <1>2 DEF Dispatch
  <1>4. /\ b \in Audits
        /\ b.listing = a.listing /\ b.pending = a.pending /\ b.answer = NoAnswer
        /\ b.pc \in {"normalize", "refresh", "empty"}
        /\ b.pc = "normalize" => b.todo = ToNormalize(a)
        /\ b.pc = "refresh" => b.todo = waiting
    <2>1. ToNormalize(a) \subseteq ClientIds /\ waiting \subseteq ClientIds
      BY <1>2 DEF ToNormalize
    <2>2. CASE b = [a EXCEPT !.pc = "normalize", !.todo = ToNormalize(a)]
      BY <2>1, <2>2 DEF Audits, AuditSteps
    <2>3. CASE b = [a EXCEPT !.pc = "refresh", !.todo = waiting]
      BY <2>1, <2>3 DEF Audits, AuditSteps
    <2>4. CASE b = [a EXCEPT !.pc = "empty"]
      BY <2>4 DEF Audits, AuditSteps
    <2> QED BY <1>3, <2>2, <2>3, <2>4
  <1>5. ReadsFit(b)
    BY <1>4 DEF ReadsFit
  <1>6. TasksFit(b)
    BY <1>2, <1>4 DEF TasksFit, ToNormalize
  <1> QED BY <1>1, <1>4, <1>5, <1>6 DEF AuditFits

\* A step that leaves the drift count alone.
LEMMA StepConforms ==
    ASSUME ReconInv, OrdersStep, UNCHANGED <<drift, escalated, sweep>>,
           NEW a, audit' = a, AuditFits(a)
    PROVE  Conforms
  BY DEF Conforms, ReconInv, DriftInv

\* A step that leaves the table and the venue alone, too.
LEMMA QuietConforms ==
    ASSUME ReconInv, UNCHANGED <<vars, drift, escalated, sweep>>,
           NEW a, audit' = a, AuditFits(a)
    PROVE  Conforms
  BY StepConforms DEF OrdersStep, ProtocolStep

LEMMA NoDriftFits == ASSUME drift = 0, escalated = FALSE, sweep \subseteq Keys PROVE DriftInv
  <1>1. drift \in 0..DriftMax /\ drift < DriftMax
    BY DriftAssumption
  <1>2. escalated \in BOOLEAN
    OBVIOUS
  <1> QED BY <1>1, <1>2 DEF DriftInv

LEMMA DriftResets == ASSUME drift' = 0, escalated' = FALSE, sweep' \subseteq Keys PROVE DriftInv'
  <1>1. drift' \in 0..DriftMax /\ drift' < DriftMax
    BY DriftAssumption
  <1>2. escalated' \in BOOLEAN
    OBVIOUS
  <1> QED BY <1>1, <1>2 DEF DriftInv

\* A step that ends the audit; the drift count may be reset.
LEMMA IdleConforms ==
    ASSUME ReconInv, UNCHANGED <<vars, sweep>>, audit' = IdleAudit,
           \/ drift' = 0 /\ escalated' = FALSE
           \/ UNCHANGED <<drift, escalated>>
           \/ drift' = drift + 1 /\ drift + 1 < DriftMax /\ UNCHANGED escalated
    PROVE  Conforms
  <1>1. OrdersStep
    BY DEF OrdersStep, ProtocolStep
  <1>2. /\ DriftMax \in Nat \ {0} /\ drift \in 0..DriftMax /\ escalated \in BOOLEAN
        /\ sweep' \subseteq Keys /\ (~escalated => drift < DriftMax)
    BY DriftAssumption DEF ReconInv, DriftInv
  <1>3. drift' \in 0..DriftMax /\ (~escalated' => drift' < DriftMax)
    BY <1>2
  <1>4. escalated' \in BOOLEAN
    BY <1>2
  <1>5. DriftInv'
    BY <1>2, <1>3, <1>4 DEF DriftInv
  <1> QED BY <1>1, <1>5, IdleFits DEF Conforms

LEMMA LoadOpenOrdersConforms ==
    ASSUME ReconInv, LoadOpenOrders
    PROVE  Conforms
  <1>1. PICK list : list = [c \in ClientIds |-> IF ListedOpen(c) THEN venue[c] ELSE NoOrder]
    OBVIOUS
  <1>2. /\ list \in Listings
        /\ \A c \in ClientIds : list[c] # NoOrder => Was(c, list[c])
    BY <1>1 DEF Listings, ListedOpen, ReconInv, OrdersInv, TruthInv, CoreInv, TypeOK,
                VenueSound
  <1>3. PICK a : a = [IdleAudit EXCEPT !.pc = "track", !.listing = list]
    OBVIOUS
  <1>4. /\ a \in Audits /\ a.pc = "track" /\ a.listing = list /\ a.todo = {}
        /\ a.answer = NoAnswer /\ \A c \in ClientIds : a.pending[c] = NoRow
    BY <1>2, <1>3 DEF IdleAudit, Audits, AuditSteps
  <1>5. AuditFits(a)
    BY <1>2, <1>4 DEF AuditFits, ReadsFit, TasksFit
  <1>6. audit' = a /\ UNCHANGED <<vars, drift, escalated, sweep>>
    BY <1>1, <1>3 DEF LoadOpenOrders
  <1> QED BY <1>5, <1>6, QuietConforms

LEMMA TrackOpenOrdersConforms ==
    ASSUME ReconInv, TrackOpenOrders
    PROVE  Conforms
  <1>1. PICK a : a = [audit EXCEPT !.pc = "load", !.tracked = openOrders]
    OBVIOUS
  <1>2. /\ audit \in Audits /\ ReadsFit(audit) /\ TasksFit(audit) /\ audit.pc = "track"
        /\ openOrders \subseteq Keys
    BY DEF TrackOpenOrders, ReconInv, AuditFits, OrdersInv, TruthInv, CoreInv, TypeOK
  <1>3. /\ a \in Audits /\ a.pc = "load" /\ a.listing = audit.listing
        /\ a.pending = audit.pending /\ a.answer = audit.answer /\ a.todo = audit.todo
    BY <1>1, <1>2 DEF Audits, AuditSteps
  <1>4. AuditFits(a)
    BY <1>2, <1>3 DEF AuditFits, ReadsFit, TasksFit
  <1>5. audit' = a /\ UNCHANGED <<vars, drift, escalated, sweep>>
    BY <1>1 DEF TrackOpenOrders
  <1> QED BY <1>4, <1>5, QuietConforms

\* get_pending_orders gives rows as they are now.
LEMMA PendingLoaded ==
    ASSUME ReconInv, LoadPending
    PROVE  \E a \in Audits : audit' = Dispatch(a) /\ ReadsFit(a) /\ a.answer = NoAnswer
  <1>1. PICK ok \in BOOLEAN :
           LET rows == [c \in ClientIds |-> IF ok /\ PendingRow(c) THEN orders[c] ELSE NoRow]
               ids == {c \in ClientIds : rows[c] # NoRow}
           IN  audit' = Dispatch([audit EXCEPT
                  !.pending = rows, !.tracked = @ \cup ids \cup {rows[c].oid : c \in ids}])
    BY StoreFailsAssumption DEF LoadPending
  <1>2. PICK rows :
           rows = [c \in ClientIds |-> IF ok /\ PendingRow(c) THEN orders[c] ELSE NoRow]
    OBVIOUS
  <1>3. PICK more : more = {c \in ClientIds : rows[c] # NoRow}
                           \cup {rows[c].oid : c \in {d \in ClientIds : rows[d] # NoRow}}
    OBVIOUS
  <1>4. PICK a : a = [audit EXCEPT !.pending = rows, !.tracked = @ \cup more]
    OBVIOUS
  <1>5. audit \in Audits /\ ReadsFit(audit) /\ audit.pc = "load" /\ audit.answer = NoAnswer
        /\ TypeOK /\ CoreInv /\ Named
    BY DEF LoadPending, ReconInv, AuditFits, TasksFit, OrdersInv, TruthInv, CoreInv
  <1>6. audit' = Dispatch(a)
    <2>1. a = [audit EXCEPT !.pending = rows,
                  !.tracked = @ \cup {c \in ClientIds : rows[c] # NoRow}
                      \cup {rows[c].oid : c \in {d \in ClientIds : rows[d] # NoRow}}]
      BY <1>3, <1>4, <1>5 DEF Audits
    <2> QED BY <1>1, <1>2, <2>1
  <1>7. \A c \in ClientIds : rows[c] # NoRow =>
            /\ rows[c] = orders[c] /\ orders[c] \in Rows /\ orders[c].filled \in Nat
            /\ orders[c].oid \in Keys
    BY <1>2, <1>5, IdsAssumption, BoundAssumption DEF TypeOK, StoreTypeOK, Rows
  <1>8. rows \in [ClientIds -> Rows \cup {NoRow}] /\ more \subseteq Keys
    BY <1>2, <1>3, <1>7, IdsAssumption
  <1>9. /\ a \in Audits /\ a.listing = audit.listing /\ a.pending = rows
        /\ a.answer = NoAnswer
    BY <1>4, <1>5, <1>8 DEF Audits
  <1>10. ReadsFit(a)
    BY <1>5, <1>7, <1>9 DEF ReadsFit, Reread, Named
  <1> QED BY <1>6, <1>9, <1>10

LEMMA LoadPendingConforms ==
    ASSUME ReconInv, LoadPending
    PROVE  Conforms
  <1>1. PICK a \in Audits : audit' = Dispatch(a) /\ ReadsFit(a) /\ a.answer = NoAnswer
    BY PendingLoaded
  <1>2. UNCHANGED <<vars, drift, escalated, sweep>>
    BY DEF LoadPending
  <1> QED BY <1>1, <1>2, DispatchFits, QuietConforms

LEMMA GetOrderConforms ==
    ASSUME ReconInv, NEW c \in ClientIds, GetOrder(c)
    PROVE  Conforms
  <1>1. /\ audit \in Audits /\ ReadsFit(audit) /\ TasksFit(audit) /\ TypeOK /\ VenueSound
        /\ audit.pc \in {"refresh", "missing"} /\ audit.pending[c] # NoRow
    BY DEF GetOrder, ReconInv, AuditFits, TasksFit, OrdersInv, TruthInv, CoreInv
  <1>2. PICK a : audit' = a
    OBVIOUS
  <1>3. ASSUME a = [audit EXCEPT !.todo = @ \ {c}] PROVE AuditFits(a)
    <2>1. /\ a \in Audits /\ a.pc = audit.pc /\ a.listing = audit.listing
          /\ a.pending = audit.pending /\ a.answer = audit.answer
          /\ a.todo \subseteq audit.todo /\ a.unknown = audit.unknown
      BY <1>1, <1>3 DEF Audits
    <2> QED BY <1>1, <2>1 DEF AuditFits, ReadsFit, TasksFit
  <1>4. ASSUME audit.pending[c].oid = VenueId[c],
               a = [audit EXCEPT !.answer = [cid |-> c, order |-> venue[c]], !.todo = @ \ {c}]
        PROVE  AuditFits(a)
    <2>1. venue[c] # NoOrder /\ venue[c] \in VenueOrders /\ Was(c, venue[c])
      BY <1>1, <1>4 DEF ReadsFit, Reread, VenueSound, TypeOK
    <2>2. /\ a \in Audits /\ a.pc = audit.pc /\ a.listing = audit.listing
          /\ a.pending = audit.pending /\ a.todo \subseteq audit.todo
          /\ a.answer = [cid |-> c, order |-> venue[c]] /\ a.unknown = audit.unknown
      BY <1>1, <1>4, <2>1 DEF Audits
    <2>3. a.answer.cid = c /\ a.answer.order = venue[c]
      BY <2>2
    <2> QED BY <1>1, <2>1, <2>2, <2>3 DEF AuditFits, ReadsFit, TasksFit
  <1>5. AuditFits(a) /\ UNCHANGED <<vars, drift, escalated, sweep>>
    BY <1>2, <1>3, <1>4 DEF GetOrder
  <1> QED BY <1>2, <1>5, QuietConforms

LEMMA RefreshPersistConforms ==
    ASSUME ReconInv, RefreshPersist
    PROVE  Conforms
  <1>1. /\ audit \in Audits /\ ReadsFit(audit) /\ TasksFit(audit) /\ OrdersInv /\ TypeOK
        /\ audit.answer # NoAnswer /\ audit.pc \in {"refresh", "missing"}
    BY DEF RefreshPersist, ReconInv, AuditFits, TasksFit, OrdersInv, TruthInv, CoreInv
  <1>2. PICK c, order, old, r :
           /\ c = audit.answer.cid /\ order = audit.answer.order /\ old = audit.pending[c]
           /\ r = RefreshRecord(c, old, order)
    OBVIOUS
  <1>3. /\ c \in ClientIds /\ old # NoRow /\ old \in Rows /\ Was(c, order) /\ Reread(c, old)
        /\ order \in VenueOrders
    BY <1>1, <1>2 DEF Audits, ReadsFit, TasksFit
  <1>4. r \in Receipts /\ Believable(c, r) /\ venue[c] # NoOrder
    BY <1>1, <1>2, <1>3, RefreshBelievable DEF Was
  <1>5. PICK a : audit' = a
    OBVIOUS
  <1>6. PICK heard : heard \in {order, audit.listing[c]}
                     /\ heard = IF order.status \in PendingStatuses THEN order ELSE audit.listing[c]
    OBVIOUS
  <1>7. \/ /\ CanUpsert(orders, c, r) /\ orders' = Upserted(orders, c, r)
           /\ openOrders' \subseteq openOrders \cup {VenueId[c]}
           /\ a = [audit EXCEPT !.answer = NoAnswer, !.listing[c] = heard]
        \/ a = [audit EXCEPT !.answer = NoAnswer] /\ UNCHANGED <<orders, openOrders>>
    <2>1. c \in ClientIds /\ audit.listing \in Listings
      BY <1>1, <1>3 DEF Audits
    <2>2. CASE /\ CanUpsert(orders, c, r)
               /\ orders' = Upserted(orders, c, r)
               /\ openOrders' = IF order.status \in PendingStatuses
                                THEN openOrders \cup {VenueId[c]}
                                ELSE openOrders \ {old.oid, c, VenueId[c]}
               /\ audit' = [audit EXCEPT !.answer = NoAnswer,
                               !.listing[c] = IF order.status \in PendingStatuses
                                              THEN order ELSE @]
      <3>1. a = [audit EXCEPT !.answer = NoAnswer, !.listing[c] = heard]
        BY <1>1, <1>5, <1>6, <2>1, <2>2 DEF Audits
      <3>2. openOrders' \subseteq openOrders \cup {VenueId[c]}
        BY <2>2
      <3> QED BY <2>2, <3>1, <3>2
    <2>3. CASE audit' = [audit EXCEPT !.answer = NoAnswer] /\ UNCHANGED <<orders, openOrders>>
      BY <1>5, <2>3
    <2> QED BY <1>2, <2>2, <2>3 DEF RefreshPersist
  <1>8. UNCHANGED <<venue, late, call, claims, drift, escalated, sweep>>
        /\ openOrders \subseteq Keys /\ VenueId[c] \in Keys
    BY <1>1, <1>3, IdsAssumption DEF RefreshPersist, TypeOK
  <1>9. OrdersStep
    BY <1>3, <1>4, <1>7, <1>8 DEF OrdersStep, Writes, Tracks
  <1>10. AuditFits(a)
    <2>1. ASSUME a = [audit EXCEPT !.answer = NoAnswer] PROVE AuditFits(a)
      <3>1. /\ a \in Audits /\ a.pc = audit.pc /\ a.listing = audit.listing
            /\ a.pending = audit.pending /\ a.answer = NoAnswer
            /\ a.todo = audit.todo /\ a.unknown = audit.unknown
        BY <1>1, <2>1 DEF Audits
      <3> QED BY <1>1, <3>1 DEF AuditFits, ReadsFit, TasksFit
    <2>2. ASSUME a = [audit EXCEPT !.answer = NoAnswer, !.listing[c] = heard]
          PROVE  AuditFits(a)
      <3>1. /\ heard \in VenueOrders \cup {NoOrder}
            /\ heard # NoOrder => Was(c, heard)
        BY <1>1, <1>3, <1>6 DEF Audits, Listings, ReadsFit
      <3>2. /\ a \in Audits /\ a.pc = audit.pc /\ a.listing[c] = heard
            /\ \A d \in ClientIds \ {c} : a.listing[d] = audit.listing[d]
            /\ a.pending = audit.pending /\ a.answer = NoAnswer
            /\ a.todo = audit.todo /\ a.unknown = audit.unknown
        BY <1>1, <1>3, <2>2, <3>1 DEF Audits, Listings
      <3>3. ReadsFit(a)
        BY <1>1, <3>1, <3>2 DEF ReadsFit
      <3> QED BY <1>1, <3>2, <3>3 DEF AuditFits, TasksFit
    <2> QED BY <1>7, <2>1, <2>2
  <1> QED BY <1>5, <1>8, <1>9, <1>10, StepConforms

\* The rows to file again under the venue's id are known, and so are their orders.
LEMMA NormalizeFits ==
    ASSUME NEW b \in Audits, AuditFits(b), b.answer = NoAnswer
    PROVE  AuditFits([b EXCEPT !.pc = "normalize", !.todo = ToNormalize(b)])
  <1>1. PICK a : a = [b EXCEPT !.pc = "normalize", !.todo = ToNormalize(b)]
    OBVIOUS
  <1>2. ToNormalize(b) \subseteq ClientIds
    BY DEF ToNormalize
  <1>3. /\ a \in Audits /\ a.pc = "normalize" /\ a.listing = b.listing
        /\ a.pending = b.pending /\ a.answer = NoAnswer /\ a.todo = ToNormalize(b)
    BY <1>1, <1>2 DEF Audits, AuditSteps
  <1>4. AuditFits(a)
    BY <1>3 DEF AuditFits, ReadsFit, TasksFit, ToNormalize
  <1> QED BY <1>1, <1>4

LEMMA RefreshDoneConforms ==
    ASSUME ReconInv, RefreshDone
    PROVE  Conforms
  <1>1. audit \in Audits /\ AuditFits(audit) /\ audit.answer = NoAnswer
        /\ UNCHANGED <<vars, sweep>>
    BY DEF RefreshDone, ReconInv, AuditFits
  <1>2. CASE /\ audit' = [audit EXCEPT !.pc = "normalize", !.todo = ToNormalize(audit)]
             /\ UNCHANGED <<drift, escalated>>
    BY <1>1, <1>2, NormalizeFits, QuietConforms
  <1>3. CASE audit' = IdleAudit /\ drift' = 0 /\ escalated' = FALSE
    BY <1>1, <1>3, IdleConforms
  <1> QED BY <1>2, <1>3 DEF RefreshDone

LEMMA ClearOpenOrdersConforms ==
    ASSUME ReconInv, ClearOpenOrders
    PROVE  Conforms
  <1>1. OrdersStep
    BY DEF ClearOpenOrders, OrdersStep, Tracks
  <1>2. DriftInv'
    BY DriftResets DEF ClearOpenOrders, ReconInv, DriftInv
  <1>3. audit' = IdleAudit
    BY DEF ClearOpenOrders
  <1> QED BY <1>1, <1>2, <1>3, IdleFits DEF Conforms

\* A task less to do.
LEMMA TaskDoneFits ==
    ASSUME NEW b, AuditFits(b), NEW c \in ClientIds
    PROVE  AuditFits([b EXCEPT !.todo = @ \ {c}])
  <1>1. PICK a : a = [b EXCEPT !.todo = @ \ {c}]
    OBVIOUS
  <1>2. b \in Audits
    BY DEF AuditFits
  <1>3. /\ a \in Audits /\ a.pc = b.pc /\ a.listing = b.listing /\ a.pending = b.pending
        /\ a.answer = b.answer /\ a.todo \subseteq b.todo /\ a.unknown = b.unknown
    BY <1>1, <1>2 DEF Audits
  <1>4. AuditFits(a)
    BY <1>3 DEF AuditFits, ReadsFit, TasksFit
  <1> QED BY <1>1, <1>4

LEMMA NormalizeOrderIdConforms ==
    ASSUME ReconInv, NEW c \in ClientIds, NormalizeOrderId(c)
    PROVE  Conforms
  <1>1. /\ AuditFits(audit) /\ ReadsFit(audit) /\ OrdersInv /\ openOrders \subseteq Keys
        /\ audit.pending[c] # NoRow /\ audit.listing[c] # NoOrder
        /\ audit.pending[c] \in Rows \cup {NoRow}
    BY DEF NormalizeOrderId, ReconInv, AuditFits, TasksFit, OrdersInv, TruthInv, CoreInv,
           TypeOK, Audits
  <1>2. PICK old, r : old = audit.pending[c] /\ r = NormalizeRecord(c, old)
    OBVIOUS
  <1>3. old \in Rows /\ Reread(c, old) /\ venue[c] # NoOrder
    BY <1>1, <1>2 DEF ReadsFit, Was
  <1>4. r \in Receipts /\ Believable(c, r)
    BY <1>1, <1>2, <1>3, NormalizeBelievable
  <1>5. /\ \/ CanUpsert(orders, c, r) /\ orders' = Upserted(orders, c, r)
           \/ UNCHANGED orders
        /\ UNCHANGED <<venue, late, call, openOrders, claims, drift, escalated, sweep>>
        /\ audit' = [audit EXCEPT !.todo = @ \ {c}]
    BY <1>2 DEF NormalizeOrderId
  <1>6. OrdersStep
    BY <1>1, <1>3, <1>4, <1>5 DEF OrdersStep, Writes, Tracks
  <1> QED BY <1>1, <1>5, <1>6, TaskDoneFits, StepConforms

LEMMA FindMissingConforms ==
    ASSUME ReconInv, FindMissing
    PROVE  Conforms
  <1>1. PICK missing : missing = {c \in ClientIds : audit.pending[c] # NoRow
                                                    /\ audit.listing[c] = NoOrder}
    OBVIOUS
  <1>2. PICK a : a = [audit EXCEPT !.pc = "missing", !.todo = missing]
    OBVIOUS
  <1>3. audit' = a /\ UNCHANGED <<vars, drift, escalated, sweep>> /\ audit.pc = "normalize"
        /\ AuditFits(audit) /\ audit \in Audits
    BY <1>1, <1>2 DEF FindMissing, ReconInv, AuditFits
  <1>4. /\ a \in Audits /\ a.pc = "missing" /\ a.listing = audit.listing
        /\ a.pending = audit.pending /\ a.answer = audit.answer /\ a.todo = missing
    <2>1. missing \subseteq ClientIds
      BY <1>1
    <2> QED BY <1>2, <1>3, <2>1 DEF Audits, AuditSteps
  <1>5. AuditFits(a)
    BY <1>1, <1>3, <1>4 DEF AuditFits, ReadsFit, TasksFit
  <1> QED BY <1>3, <1>5, QuietConforms

LEMMA RebuildOpenOrdersConforms ==
    ASSUME ReconInv, RebuildOpenOrders
    PROVE  Conforms
  <1>1. PICK unknown : unknown = {c \in {d \in ClientIds : audit.listing[d] # NoOrder} :
                                     {c, VenueId[c]} \cap audit.tracked = {}}
    OBVIOUS
  <1>2. PICK a : a = [audit EXCEPT !.pc = "recover", !.todo = unknown, !.unknown = unknown]
    OBVIOUS
  <1>3. /\ audit' = a /\ audit \in Audits /\ AuditFits(audit) /\ audit.answer = NoAnswer
        /\ UNCHANGED <<orders, venue, late, call, claims, drift, escalated, sweep>>
    BY <1>1, <1>2 DEF RebuildOpenOrders, ReconInv, AuditFits
  <1>4. OrdersStep
    <2>1. openOrders' \subseteq {VenueId[c] : c \in ClientIds}
      BY DEF RebuildOpenOrders
    <2>2. openOrders' \subseteq Keys
      BY <2>1, IdsAssumption
    <2> QED BY <1>3, <2>2 DEF OrdersStep, Tracks
  <1>5. /\ a \in Audits /\ a.pc = "recover" /\ a.listing = audit.listing
        /\ a.pending = audit.pending /\ a.answer = NoAnswer /\ a.todo = unknown
        /\ a.unknown = unknown
    <2>1. unknown \subseteq ClientIds
      BY <1>1
    <2> QED BY <1>2, <1>3, <2>1 DEF Audits, AuditSteps
  <1>6. AuditFits(a)
    BY <1>1, <1>3, <1>5 DEF AuditFits, ReadsFit, TasksFit
  <1> QED BY <1>3, <1>4, <1>6, StepConforms

LEMMA RecoverUnknownOrderConforms ==
    ASSUME ReconInv, NEW c \in ClientIds, RecoverUnknownOrder(c)
    PROVE  Conforms
  <1>1. /\ AuditFits(audit) /\ audit \in Audits /\ ReadsFit(audit) /\ TasksFit(audit)
        /\ OrdersInv /\ openOrders \subseteq Keys /\ VenueId[c] \in Keys
        /\ audit.listing[c] # NoOrder /\ audit.pc = "recover"
    BY IdsAssumption DEF RecoverUnknownOrder, ReconInv, AuditFits, TasksFit, OrdersInv,
                         TruthInv, CoreInv, TypeOK
  <1>2. PICK order : order = audit.listing[c]
    OBVIOUS
  <1>3. PICK r : r = [oid |-> VenueId[c], status |-> order.status, filled |-> order.filled,
                      pay |-> order.pay]
    OBVIOUS
  <1>4. Was(c, order) /\ venue[c] # NoOrder
    BY <1>1, <1>2 DEF ReadsFit, Was
  <1>5. r \in Receipts /\ Believable(c, r)
    BY <1>1, <1>3, <1>4, SnapshotBelievable
  <1>6. PICK a : audit' = a
    OBVIOUS
  <1>7. /\ \/ /\ CanUpsert(orders, c, r) /\ orders' = Upserted(orders, c, r)
              /\ openOrders' = openOrders \cup {VenueId[c]}
              /\ a = [audit EXCEPT !.todo = @ \ {c}, !.unknown = @ \ {c}]
           \/ a = [audit EXCEPT !.todo = @ \ {c}] /\ UNCHANGED <<orders, openOrders>>
        /\ UNCHANGED <<venue, late, call, claims, drift, escalated, sweep>>
    BY <1>2, <1>3, <1>6 DEF RecoverUnknownOrder
  <1>8. OrdersStep
    BY <1>1, <1>4, <1>5, <1>7 DEF OrdersStep, Writes, Tracks
  <1>9. AuditFits(a)
    <2>1. /\ a \in Audits /\ a.pc = audit.pc /\ a.listing = audit.listing
          /\ a.pending = audit.pending /\ a.answer = audit.answer
          /\ a.todo \subseteq audit.todo /\ a.unknown \subseteq audit.unknown
      <3>1. CASE a = [audit EXCEPT !.todo = @ \ {c}]
        BY <1>1, <3>1 DEF Audits
      <3>2. CASE a = [audit EXCEPT !.todo = @ \ {c}, !.unknown = @ \ {c}]
        BY <1>1, <3>2 DEF Audits
      <3> QED BY <1>7, <3>1, <3>2
    <2> QED BY <1>1, <2>1 DEF AuditFits, ReadsFit, TasksFit
  <1> QED BY <1>6, <1>7, <1>8, <1>9, StepConforms

LEMMA DriftConforms ==
    ASSUME ReconInv, NoDrift \/ CountDrift \/ EscalateDrift \/ DriftHandled
    PROVE  Conforms
  <1>1. CASE NoDrift \/ DriftHandled
    BY <1>1, IdleConforms DEF NoDrift, DriftHandled
  <1>2. CASE CountDrift
    <2>1. drift \in Nat /\ escalated \in BOOLEAN
      BY DriftAssumption DEF ReconInv, DriftInv
    <2> QED BY <1>2, <2>1, IdleConforms DEF CountDrift
  <1>3. CASE EscalateDrift
    <2>1. PICK a : a = [audit EXCEPT !.pc = "cancel", !.todo = audit.unknown]
      OBVIOUS
    <2>2. audit' = a /\ UNCHANGED <<vars, sweep>> /\ audit.pc = "recover"
          /\ drift' = drift + 1 /\ escalated' = TRUE /\ ~escalated
          /\ AuditFits(audit) /\ audit \in Audits /\ DriftInv
      BY <1>3, <2>1 DEF EscalateDrift, RecoveryDone, ReconInv, AuditFits
    <2>3. /\ a \in Audits /\ a.pc = "cancel" /\ a.listing = audit.listing
          /\ a.pending = audit.pending /\ a.answer = audit.answer
      BY <2>1, <2>2 DEF Audits, AuditSteps
    <2>4. AuditFits(a)
      BY <2>2, <2>3 DEF AuditFits, ReadsFit, TasksFit
    <2>5. DriftInv'
      BY <2>2, DriftAssumption DEF DriftInv
    <2>6. OrdersStep
      BY <2>2 DEF OrdersStep, ProtocolStep
    <2> QED BY <2>2, <2>4, <2>5, <2>6 DEF Conforms
  <1> QED BY <1>1, <1>2, <1>3

LEMMA CancelDriftedOrderConforms ==
    ASSUME ReconInv, NEW c \in ClientIds, CancelDriftedOrder(c)
    PROVE  Conforms
  <1>1. AuditFits(audit) /\ openOrders \subseteq Keys
    BY DEF ReconInv, OrdersInv, TruthInv, CoreInv, TypeOK
  <1>2. /\ UNCHANGED <<orders, late, call, openOrders, claims, drift, escalated, sweep>>
        /\ audit' = [audit EXCEPT !.todo = @ \ {c}]
        /\ venue' = venue \/ (Live(c) /\ venue' = [venue EXCEPT ![c] = Cancelled(c)])
    BY DEF CancelDriftedOrder
  <1>3. OrdersStep
    BY <1>1, <1>2 DEF OrdersStep, Tracks, Cancels
  <1> QED BY <1>1, <1>2, <1>3, TaskDoneFits, StepConforms

\* Events and the backfill write snapshots or fills.
LEMMA EventConforms ==
    ASSUME ReconInv, EventStep
    PROVE  Conforms
  <1>1. /\ OrdersInv /\ AuditFits(audit) /\ TypeOK /\ VenueSound /\ openOrders \subseteq Keys
    BY DEF ReconInv, OrdersInv, TruthInv, CoreInv, TypeOK
  <1>2. PICK c \in ClientIds : HandleOrderUpdate(c) \/ UpsertOrderFromRest(c) \/ HandleFill(c)
    BY DEF EventStep
  <1>3. PICK v \in SeenStates(c) :
           \/ ApplyRecord(c, SnapshotRecord(c, v))
           \/ v.filled > orders[c].filled /\ ApplyRecord(c, FillRecord(c, orders[c], v))
    BY <1>2 DEF HandleOrderUpdate, UpsertOrderFromRest, HandleFill
  <1>4. Was(c, v)
    <2>1. venue[c] # NoOrder /\ Was(c, venue[c])
      BY <1>1, <1>3 DEF SeenStates, VenueSound
    <2> QED BY <1>3, <2>1 DEF SeenStates, Was, PendingStatuses, VenueTerminal
  <1>5. PICK r \in Receipts : ApplyRecord(c, r) /\ Believable(c, r)
    <2>1. CASE ApplyRecord(c, SnapshotRecord(c, v))
      <3>1. SnapshotRecord(c, v) \in Receipts /\ Believable(c, SnapshotRecord(c, v))
        BY <1>1, <1>4, SnapshotBelievable DEF SnapshotRecord
      <3> QED BY <2>1, <3>1
    <2>2. CASE v.filled > orders[c].filled /\ ApplyRecord(c, FillRecord(c, orders[c], v))
      BY <1>1, <1>4, <2>2, FillBelievable
    <2> QED BY <1>3, <2>1, <2>2
  <1>6. Writes(c, r) /\ UNCHANGED <<audit, drift, escalated, sweep>>
    BY <1>1, <1>4, <1>5 DEF ApplyRecord, Writes, Was
  <1> QED BY <1>1, <1>6, StepConforms DEF OrdersStep

LEMMA SweepConforms ==
    ASSUME ReconInv, FetchOpenOrderIds \/ (\E o \in sweep : CancelOrder(o))
    PROVE  Conforms
  <1>1. AuditFits(audit) /\ DriftInv /\ openOrders \subseteq Keys /\ sweep \subseteq Keys
    BY DEF ReconInv, DriftInv, OrdersInv, TruthInv, CoreInv, TypeOK
  <1>2. CASE FetchOpenOrderIds
    <2>1. PICK listed : listed = {VenueId[c] : c \in {d \in ClientIds : ListedOpen(d)}}
      OBVIOUS
    <2>2. listed \subseteq Keys
      BY <2>1, IdsAssumption
    <2>3. /\ sweep' \subseteq Keys /\ openOrders' \subseteq Keys
          /\ UNCHANGED <<orders, venue, late, call, claims, audit, drift, escalated>>
      BY <1>1, <1>2, <2>1, <2>2 DEF FetchOpenOrderIds
    <2> QED BY <1>1, <2>3 DEF Conforms, OrdersStep, Tracks, DriftInv
  <1>3. ASSUME NEW o \in sweep, CancelOrder(o) PROVE Conforms
    <2>1. /\ sweep' \subseteq Keys /\ openOrders' \subseteq Keys
          /\ UNCHANGED <<orders, late, call, claims, audit, drift, escalated>>
          /\ \/ UNCHANGED venue
             \/ \E c \in ClientIds : Live(c) /\ venue' = [venue EXCEPT ![c] = Cancelled(c)]
      BY <1>1, <1>3 DEF CancelOrder
    <2>2. OrdersStep
      BY <2>1 DEF OrdersStep, Tracks, Cancels
    <2> QED BY <1>1, <2>1, <2>2 DEF Conforms, DriftInv
  <1> QED BY <1>2, <1>3

LEMMA RestartConforms ==
    ASSUME ReconInv, Restart
    PROVE  Conforms
  <1>1. OrdersStep
    BY DEF Restart, OrdersStep, ProtocolStep
  <1>2. DriftInv'
    BY DriftResets DEF Restart
  <1>3. audit' = IdleAudit
    BY DEF Restart
  <1> QED BY <1>1, <1>2, <1>3, IdleFits DEF Conforms

\* Every step conforms.
LEMMA NextConforms ==
    ASSUME ReconInv, [ReconNext]_reconVars
    PROVE  Conforms
  <1>1. CASE SubmissionStep \/ UNCHANGED reconVars
    <2>1. ProtocolStep /\ UNCHANGED <<audit, drift, escalated, sweep>> /\ AuditFits(audit)
      BY <1>1 DEF SubmissionStep, ProtocolStep, reconVars, ReconInv
    <2> QED BY <2>1, StepConforms DEF OrdersStep
  <1>2. CASE AuditStep
    BY <1>2, LoadOpenOrdersConforms, TrackOpenOrdersConforms, LoadPendingConforms,
       ClearOpenOrdersConforms, GetOrderConforms, RefreshPersistConforms,
       RefreshDoneConforms, NormalizeOrderIdConforms, FindMissingConforms,
       RebuildOpenOrdersConforms, RecoverUnknownOrderConforms, DriftConforms,
       CancelDriftedOrderConforms DEF AuditStep
  <1> QED BY <1>1, <1>2, EventConforms, SweepConforms, RestartConforms DEF ReconNext

\* And a step that conforms keeps the invariant.
LEMMA ConformingKeeps ==
    ASSUME ReconInv, Conforms
    PROVE  ReconInv'
  <1>1. OrdersInv' /\ VenueAdvances /\ RowsAdvance
    BY OrdersStepKeeps DEF ReconInv, Conforms
  <1>2. PICK a : audit' = a /\ AuditFits(a)
    BY DEF Conforms
  <1>3. TypeOK /\ TypeOK'
    BY <1>1 DEF ReconInv, OrdersInv, TruthInv, CoreInv
  <1>4. AuditFits(a)'
    BY <1>1, <1>2, <1>3, ReadsLast
  <1> QED BY <1>1, <1>2, <1>4 DEF ReconInv, Conforms

LEMMA InitRecon == ReconInit => ReconInv
  <1> SUFFICES ASSUME ReconInit PROVE ReconInv
    OBVIOUS
  <1>1. TruthInv
    BY InitTruth DEF ReconInit
  <1>2. VenueSound /\ Named
    BY IdsAssumption DEF ReconInit, Init, StoreInit, VenueSound, Named
  <1>3. AuditFits(audit)
    BY IdleFits DEF ReconInit
  <1>4. DriftInv
    BY NoDriftFits DEF ReconInit
  <1> QED BY <1>1, <1>2, <1>3, <1>4 DEF ReconInv, OrdersInv

-----------------------------------------------------------------------------
(* What follows for every run of the order path.                           *)

\* What the audit has read stays worth what the invariant says, through submissions,
\* events, cancellations and restarts: the inductive invariant.
THEOREM ReconciliationCore == ReconSpec => []ReconInv
  <1>1. ReconInv /\ [ReconNext]_reconVars => ReconInv'
    BY NextConforms, ConformingKeeps
  <1> QED BY <1>1, InitRecon, PTL DEF ReconSpec

\* The variables of the order path keep their types.
THEOREM ReconciliationTypes == ReconSpec => []ReconTypeOK
  <1>1. ReconInv => ReconTypeOK
    BY DEF ReconInv, OrdersInv, TruthInv, CoreInv, AuditFits, DriftInv, ReconTypeOK
  <1> QED BY <1>1, ReconciliationCore, PTL

\* Among the audit, the events, the backfill and the guards, submissions keep what they
\* promise by themselves: sent once, written ahead, true rows, real successes.
THEOREM PromisesHoldAmongWriters ==
    ReconSpec => [](AtMostOneSubmission /\ IntentBeforeOrder /\ ReceiptsAreTrue
                    /\ SuccessIsReal)
  <1>1. ReconInv => AtMostOneSubmission /\ IntentBeforeOrder /\ ReceiptsAreTrue /\ SuccessIsReal
    BY CorePromises, TruthPromises DEF ReconInv, OrdersInv, TruthInv
  <1> QED BY <1>1, ReconciliationCore, PTL

\* Whatever a writer beside the submissions puts into the table is true of the venue's
\* order, now or earlier, however old the reads are that it works from.
THEOREM OtherWritersObserve == ReconSpec => WritersObserve
  <1>1. ASSUME ReconInv, [ReconNext]_reconVars, call' = call, orders' # orders
        PROVE  \E c \in ClientIds :
                  /\ venue[c] # NoOrder
                  /\ orders'[c] # NoRow
                  /\ Believable(c, orders'[c])
                  /\ CanUpsert(orders, c, orders'[c])
                  /\ orders' = Upserted(orders, c, orders'[c])
    <2>1. OrdersStep /\ TruthInv
      BY <1>1, NextConforms DEF Conforms, ReconInv, OrdersInv
    <2>2. ~ProtocolStep /\ ~Tracks /\ \A c \in ClientIds : ~Cancels(c)
      BY <1>1, <2>1, ProtocolMoves DEF Tracks, Cancels
    <2>3. PICK c \in ClientIds, r \in Receipts : Writes(c, r)
      BY <2>1, <2>2 DEF OrdersStep
    <2>4. /\ venue[c] # NoOrder /\ Believable(c, r) /\ CanUpsert(orders, c, r)
          /\ orders' = Upserted(orders, c, r)
      BY <2>3 DEF Writes
    <2>5. c \in Keys /\ orders'[c] = RowOf(r, orders[c] # NoRow /\ orders[c].intent)
      BY <2>4, IdsAssumption DEF Upserted
    <2>6. PICK x : x = orders'[c]
      OBVIOUS
    <2>7. /\ x.oid = r.oid /\ x.status = r.status /\ x.filled = r.filled /\ x.pay = r.pay
      BY <2>5, <2>6 DEF RowOf
    <2>8. Believable(c, x) /\ CanUpsert(orders, c, x)
      BY <2>4, <2>7 DEF Believable, CanUpsert, CanPreserve, AgreesWithIntent, SameReceipt
    <2>9. Upserted(orders, c, x) = Upserted(orders, c, r)
      BY <2>7 DEF Upserted, RowOf
    <2>10. x # NoRow
      <3>1. orders[c] # NoRow
        BY <2>1, <2>4 DEF TruthInv, CoreInv, BackedBy, AdmittedFor
      <3> QED BY <1>1, <2>1, <2>6, <3>1, OrdersStepKeeps DEF ReconInv, RowsAdvance
    <2> QED BY <2>4, <2>6, <2>8, <2>9, <2>10
  <1> QED BY <1>1, ReconciliationCore, PTL DEF ReconSpec, WritersObserve

-----------------------------------------------------------------------------
(* Why drift is escalated, when the store does not fail.                   *)

\* The table will not take the order v for c: the row has ended, or has more fills.
Refused(c, v) ==
    /\ orders[c] # NoRow
    /\ \/ orders[c].status \in VenueTerminal
       \/ orders[c].filled > v.filled

\* The orders that recovery has tried and that are unknown still are refused.
RefusedBy(a) ==
    a.pc = "recover" => \A c \in a.unknown \ a.todo : Refused(c, a.listing[c])

LEMMA RefusedLasts ==
    ASSUME TypeOK, TypeOK', RowsAdvance, NEW a, AuditFits(a), RefusedBy(a)
    PROVE  RefusedBy(a)'
  <1> SUFFICES ASSUME a.pc = "recover", NEW c \in a.unknown \ a.todo
               PROVE  Refused(c, a.listing[c])'
    BY DEF RefusedBy
  <1>1. /\ c \in ClientIds /\ c \in Keys /\ a.listing[c] # NoOrder /\ Refused(c, a.listing[c])
        /\ a.listing[c] \in VenueOrders
    BY IdsAssumption DEF AuditFits, TasksFit, RefusedBy, Audits, Listings
  <1>2. PICK v : v = a.listing[c]
    OBVIOUS
  <1>3. /\ orders[c] # NoRow /\ orders'[c] # NoRow /\ orders'[c].filled >= orders[c].filled
        /\ orders[c].status \in VenueTerminal => orders'[c].status = orders[c].status
    BY <1>1 DEF Refused, RowsAdvance
  <1>4. orders[c].filled \in Nat /\ orders'[c].filled \in Nat /\ v.filled \in Nat
    BY <1>1, <1>2, <1>3, BoundAssumption DEF TypeOK, StoreTypeOK, Rows, VenueOrders
  <1>5. \/ orders'[c].status \in VenueTerminal
        \/ orders'[c].filled > v.filled
    BY <1>1, <1>2, <1>3, <1>4 DEF Refused
  <1> QED BY <1>2, <1>3, <1>5 DEF Refused

\* A snapshot of the order that the table does not take meets a row that has ended or
\* has more fills: the payload is the admitted one, the id is nobody else's.
LEMMA RefusalExplained ==
    ASSUME OrdersInv, NEW c \in ClientIds, NEW v, Was(c, v), NEW r \in Receipts,
           r = [oid |-> VenueId[c], status |-> v.status, filled |-> v.filled, pay |-> v.pay],
           ~CanUpsert(orders, c, r)
    PROVE  Refused(c, v)
  <1>1. /\ TypeOK /\ Filed /\ venue[c] # NoOrder /\ orders[c] # NoRow /\ c \in Keys
        /\ orders[c] \in Rows /\ orders[c].pay = venue[c].pay
    BY IdsAssumption DEF OrdersInv, TruthInv, CoreInv, BackedBy, AdmittedFor, Was, TypeOK,
                         StoreTypeOK
  <1>2. /\ v \in VenueOrders /\ v.pay = venue[c].pay /\ v.filled \in Nat
        /\ venue[c].pay \in Payloads
    BY <1>1, WasTyped
  <1>3. Holders(orders, r.oid) \subseteq {c}
    BY <1>1, OwnHolders
  <1>4. AgreesWithIntent(orders[c].pay, r)
    <2>1. Quantity[venue[c].pay] \in Nat
      BY <1>2, QuantityAssumption
    <2>2. v.filled <= Quantity[v.pay] /\ (v.status = "FILLED" => v.filled = Quantity[v.pay])
      BY <1>2, <2>1 DEF Was, VenueStatesOf
    <2> QED BY <1>1, <1>2, <2>2 DEF AgreesWithIntent
  <1>5. ~CanPreserve(orders[c], r)
    BY <1>3 DEF CanUpsert
  <1>6. ~(r.filled >= orders[c].filled) \/ orders[c].status \in VenueTerminal
    BY <1>4, <1>5 DEF CanPreserve
  <1>7. orders[c].filled \in Nat
    BY <1>1, BoundAssumption DEF Rows
  <1> QED BY <1>1, <1>2, <1>6, <1>7 DEF Refused

\* Recovery begins with everything to do; elsewhere the audit is not recovering.
LEMMA NotRecovering ==
    ASSUME ReconInv, AuditStep, \A c \in ClientIds : ~RecoverUnknownOrder(c)
    PROVE  audit'.pc = "recover" => audit'.unknown \ audit'.todo = {}
  <1>1. audit \in Audits /\ TasksFit(audit) /\ IdleAudit \in Audits
    BY IdleFits DEF ReconInv, AuditFits
  <1>2. CASE \/ LoadOpenOrders \/ TrackOpenOrders \/ FindMissing \/ EscalateDrift
             \/ ClearOpenOrders \/ NoDrift \/ CountDrift \/ DriftHandled \/ RefreshDone
    <2>1. LoadOpenOrders => audit'.pc = "track"
      BY <1>1 DEF LoadOpenOrders, Audits
    <2>2. /\ TrackOpenOrders => audit'.pc = "load"
          /\ FindMissing => audit'.pc = "missing"
          /\ EscalateDrift => audit'.pc = "cancel"
      BY <1>1 DEF TrackOpenOrders, FindMissing, EscalateDrift, Audits
    <2>3. ClearOpenOrders \/ NoDrift \/ CountDrift \/ DriftHandled => audit' = IdleAudit
      BY DEF ClearOpenOrders, NoDrift, CountDrift, DriftHandled
    <2>4. RefreshDone => audit' = IdleAudit \/ audit'.pc = "normalize"
      BY <1>1 DEF RefreshDone, Audits
    <2>5. IdleAudit.pc = "idle"
      BY DEF IdleAudit
    <2> QED BY <1>2, <2>1, <2>2, <2>3, <2>4, <2>5
  <1>3. CASE LoadPending
    <2>1. PICK a \in Audits : audit' = Dispatch(a)
      BY <1>3, PendingLoaded
    <2>2. audit'.pc \in {"normalize", "refresh", "empty"}
      BY <2>1 DEF Dispatch, Audits
    <2> QED BY <2>2
  <1>4. CASE RefreshPersist
    <2>1. audit.pc \in {"refresh", "missing"}
      BY <1>1, <1>4 DEF RefreshPersist, TasksFit
    <2>2. audit'.pc = audit.pc
      BY <1>1, <1>4 DEF RefreshPersist, Audits
    <2> QED BY <2>1, <2>2
  <1>5. ASSUME NEW c \in ClientIds,
               GetOrder(c) \/ NormalizeOrderId(c) \/ CancelDriftedOrder(c)
        PROVE  audit'.pc # "recover"
    BY <1>1, <1>5 DEF GetOrder, NormalizeOrderId, CancelDriftedOrder, Audits
  <1>6. CASE RebuildOpenOrders
    <2>1. audit'.todo = audit'.unknown
      BY <1>1, <1>6 DEF RebuildOpenOrders, Audits
    <2> QED BY <2>1
  <1> QED BY <1>2, <1>3, <1>4, <1>5, <1>6 DEF AuditStep

LEMMA StepRefuses ==
    ASSUME ReconInv, RefusedBy(audit), ~StoreFails, [ReconNext]_reconVars
    PROVE  \E a : audit' = a /\ AuditFits(a) /\ RefusedBy(a)
  <1>1. PICK a : audit' = a /\ AuditFits(a)
    BY NextConforms DEF Conforms
  <1>2. /\ audit \in Audits /\ ReadsFit(audit) /\ TasksFit(audit) /\ OrdersInv
        /\ a \in Audits
    BY <1>1 DEF ReconInv, AuditFits
  <1>3. CASE UNCHANGED audit
    BY <1>1, <1>3
  <1>4. ASSUME NEW c \in ClientIds, RecoverUnknownOrder(c)
        PROVE  RefusedBy(a)
    <2>1. PICK order : order = audit.listing[c]
      OBVIOUS
    <2>2. PICK r : r = [oid |-> VenueId[c], status |-> order.status, filled |-> order.filled,
                        pay |-> order.pay]
      OBVIOUS
    <2>3. c \in audit.todo /\ audit.pc = "recover" /\ Was(c, order)
      BY <1>2, <1>4, <2>1 DEF RecoverUnknownOrder, TasksFit, ReadsFit
    <2>4. \/ a = [audit EXCEPT !.todo = @ \ {c}, !.unknown = @ \ {c}]
          \/ a = [audit EXCEPT !.todo = @ \ {c}] /\ ~CanUpsert(orders, c, r)
      BY <1>1, <1>4, <2>1, <2>2 DEF RecoverUnknownOrder
    <2>5. CASE a = [audit EXCEPT !.todo = @ \ {c}, !.unknown = @ \ {c}]
      <3>1. a.pc = audit.pc /\ a.listing = audit.listing
            /\ a.unknown \ a.todo = (audit.unknown \ audit.todo) \ {c}
        BY <1>2, <2>5 DEF Audits
      <3> QED BY <2>3, <3>1 DEF RefusedBy
    <2>6. CASE a = [audit EXCEPT !.todo = @ \ {c}] /\ ~CanUpsert(orders, c, r)
      <3>1. a.pc = audit.pc /\ a.listing = audit.listing
            /\ a.unknown \ a.todo \subseteq (audit.unknown \ audit.todo) \cup {c}
        BY <1>2, <2>6 DEF Audits
      <3>2. r \in Receipts
        BY <1>2, <2>2, <2>3, SnapshotBelievable
      <3>3. Refused(c, order)
        BY <1>2, <2>2, <2>3, <2>6, <3>2, RefusalExplained
      <3> QED BY <2>1, <2>3, <3>1, <3>3 DEF RefusedBy
    <2> QED BY <2>4, <2>5, <2>6
  <1>5. ASSUME AuditStep, \A c \in ClientIds : ~RecoverUnknownOrder(c)
        PROVE  RefusedBy(a)
    BY <1>1, <1>5, NotRecovering DEF RefusedBy
  <1>6. ASSUME Restart PROVE RefusedBy(a)
    <2>1. a.pc = "idle"
      BY <1>1, <1>6 DEF Restart, IdleAudit
    <2> QED BY <2>1 DEF RefusedBy
  <1>7. AuditStep \/ Restart \/ UNCHANGED audit
    BY DEF ReconNext, SubmissionStep, EventStep, HandleOrderUpdate, UpsertOrderFromRest,
           HandleFill, ApplyRecord, FetchOpenOrderIds, CancelOrder, reconVars
  <1> QED BY <1>1, <1>3, <1>4, <1>5, <1>6, <1>7

\* Drift is escalated only over an order whose row has ended otherwise, or has passed the
\* listing that the audit works from, unless the store itself fails.
THEOREM EscalationStaysJustified ==
    ASSUME ~StoreFails PROVE ReconSpec => EscalationIsJustified
  <1> DEFINE Inv == ReconInv /\ RefusedBy(audit)
  <1>1. ReconInit => Inv
    BY InitRecon DEF ReconInit, RefusedBy, IdleAudit
  <1>2. Inv /\ [ReconNext]_reconVars => Inv'
    <2> SUFFICES ASSUME ReconInv, RefusedBy(audit), [ReconNext]_reconVars PROVE Inv'
      OBVIOUS
    <2>1. ReconInv' /\ RowsAdvance /\ TypeOK /\ TypeOK'
      BY NextConforms, ConformingKeeps, OrdersStepKeeps
         DEF Conforms, ReconInv, OrdersInv, TruthInv, CoreInv
    <2>2. PICK a : audit' = a /\ AuditFits(a) /\ RefusedBy(a)
      BY StepRefuses
    <2>3. RefusedBy(a)'
      BY <2>1, <2>2, RefusedLasts
    <2> QED BY <2>1, <2>2, <2>3
  <1>3. Inv /\ [ReconNext]_reconVars =>
            [~escalated /\ escalated' =>
                \E c \in audit.unknown :
                   /\ orders[c] # NoRow
                   /\ \/ orders[c].status \in VenueTerminal
                      \/ orders[c].filled > audit.listing[c].filled]_reconVars
    <2> SUFFICES ASSUME ReconInv, RefusedBy(audit), [ReconNext]_reconVars,
                        ~escalated, escalated'
                 PROVE  \E c \in audit.unknown : Refused(c, audit.listing[c])
      BY DEF Refused
    <2>1. EscalateDrift
      BY DEF ReconNext, SubmissionStep, EventStep, HandleOrderUpdate, UpsertOrderFromRest,
             HandleFill, ApplyRecord, FetchOpenOrderIds, CancelOrder, Restart, reconVars,
             AuditStep, LoadOpenOrders, TrackOpenOrders, LoadPending, ClearOpenOrders,
             GetOrder, RefreshPersist, RefreshDone, NormalizeOrderId, FindMissing,
             RebuildOpenOrders, RecoverUnknownOrder, NoDrift, CountDrift,
             CancelDriftedOrder, DriftHandled
    <2>2. audit.pc = "recover" /\ audit.todo = {} /\ audit.unknown # {}
      BY <2>1 DEF EscalateDrift, RecoveryDone
    <2> QED BY <2>2 DEF RefusedBy
  <1> HIDE DEF Inv
  <1> QED BY <1>1, <1>2, <1>3, PTL DEF ReconSpec, EscalationIsJustified
=============================================================================
