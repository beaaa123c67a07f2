------------------------ MODULE FillAccounting_proofs ------------------------
(***************************************************************************)
(* Proofs about fill accounting, for any orders, plans of execution,       *)
(* clocks and limits.                                                      *)
(*                                                                         *)
(* A venue order has its row under its own client id and nowhere else      *)
(* (Placed), so a receipt replaces no other row.  What a row reports is    *)
(* at most what has been executed, and a settled row reports a first part  *)
(* of the executions (RowFits): either a snapshot said so, or the facts    *)
(* add up to all that was asked for, and then they are all the executions  *)
(* there are.  Of a settled row there is hence one value for its fills,    *)
(* and what a baseline has bound cannot change (Bound).                    *)
(*                                                                         *)
(* That a projection does not depend on the order of its facts is shown    *)
(* from one time of execution to the next (ArrangementsAgree): what is     *)
(* executed at one time is all on one side and turns a position over at    *)
(* one price only, or it would be ambiguous (ClearGroup), and where such   *)
(* executions lead depends on their sizes and values alone (After).        *)
(***************************************************************************)
EXTENDS FillAccounting, FiniteSums

Total(o) == Len(Plan[o])

Snapshot(s) ==
    /\ s.order \in Venue /\ s.n \in 0..Done(s.order)
    /\ s.status \in {"OPEN", "FILLED", "CANCELLED"}
    /\ s.status = "CANCELLED" => s.order \in ended /\ s.n = Done(s.order)

TapeInv ==
    /\ now \in 0..MaxTime /\ tape \in Seq(Facts)
    /\ \A o \in Venue : Done(o) \in 0..Total(o)
    /\ \A i \in DOMAIN tape : tape[i].n <= Done(tape[i].order)
    /\ \A i, j \in DOMAIN tape :
           tape[i].order = tape[j].order /\ tape[i].n = tape[j].n => i = j

\* What has been read of the venue is so.
ReadInv ==
    /\ facts \subseteq ToSet(tape) /\ backfill.fills \subseteq ToSet(tape)
    /\ backfill.fills # {} => backfill.pc = "fills"
    /\ \A s \in backfill.orders : Snapshot(s)
    /\ ws # None => Snapshot(ws)
    /\ sending \subseteq Owned

\* The first n executions of o, as a row reports them.
FirstOf(o, n, filled, value) == filled = Filled(o, n) /\ value = Value(o, n)

\* A row of o may say this, with its fills at this value.
Says(o, r, value) ==
    /\ r.filled <= Filled(o, Done(o))
    /\ r.pay = Asks(o) \/ r.filled >= r.pay.quantity
    /\ r.status \in VenueTerminal =>
           /\ r.status \in {"FILLED", "CANCELLED"}
           /\ r.oid = o
           /\ \E n \in 0..Total(o) : FirstOf(o, n, r.filled, value)
    /\ r.status = "CANCELLED" => o \in ended /\ r.filled = Filled(o, Done(o))
    /\ r.oid # o => r.filled = 0 /\ r.status \in {"PENDING", "FAILED"}

RowFits(o) ==
    orders[Client[o]] # NoRow =>
        /\ orders[Client[o]].oid \in {o, Client[o]}
        /\ Says(o, orders[Client[o]], paid[Client[o]])
        /\ orders[Client[o]].intent => orders[Client[o]].pay = Asks(o)

Placed == \A k \in Keys : orders[k] # NoRow => \E o \in Venue : k = Client[o]

TableInv ==
    /\ orders \in [Keys -> Rows \cup {NoRow}] /\ DOMAIN paid = Keys
    /\ Placed /\ \A o \in Venue : RowFits(o)

SeenInv ==
    \A x \in observations :
        /\ x.order \in Venue /\ x.filled \in Nat
        /\ orders[Client[x.order]] # NoRow /\ x.filled <= orders[Client[x.order]].filled

\* The row of o is closed below what o asks for.
Short(o) ==
    orders[Client[o]].status = "FILLED" /\ orders[Client[o]].filled < Asks(o).quantity

Bound(b) ==
    /\ b.covered \subseteq Venue
    /\ \A o \in b.covered :
           /\ orders[Client[o]] # NoRow
           /\ orders[Client[o]].status \in VenueTerminal
           /\ b.bound[o] = <<orders[Client[o]], paid[Client[o]]>>
           /\ \/ Short(o)
              \/ \A i \in DOMAIN tape : tape[i].order = o => tape[i].at <= b.at

BoundInv == baseline # None => Bound(baseline)

AccountInv == TapeInv /\ ReadInv /\ TableInv /\ SeenInv /\ BoundInv

-----------------------------------------------------------------------------
(* Sums over the plan.                                                     *)

LEMMA ElementOf ==
    ASSUME NEW T, NEW s \in Seq(T), NEW i \in 1..Len(s)
    PROVE  s[i] \in T
  OBVIOUS

LEMMA PlanTyped ==
    ASSUME NEW o \in Venue
    PROVE  /\ Total(o) \in Nat /\ DOMAIN Plan[o] = 1..Total(o)
           /\ \A i \in 1..Total(o) : Sizes(o)[i] \in Nat \ {0} /\ Values(o)[i] \in Nat
           /\ \A i \in 1..Total(o) :
                  /\ Sizes(o)[i] = Plan[o][i].size
                  /\ Values(o)[i] = Plan[o][i].size * Plan[o][i].price
           /\ Client[o] \in Keys /\ Client[o] \notin Venue /\ o \in Keys
  <1>1. Plan[o] \in Seq([size: Nat \ {0}, price: Nat])
    BY VenueAssumption
  <1>2. Total(o) \in Nat /\ DOMAIN Plan[o] = 1..Total(o)
    BY <1>1 DEF Total
  <1>4. ASSUME NEW i \in 1..Total(o)
        PROVE  Plan[o][i].size \in Nat \ {0} /\ Plan[o][i].price \in Nat
    <2>1. Plan[o][i] \in [size: Nat \ {0}, price: Nat]
      BY <1>1, ElementOf DEF Total
    <2> QED  BY <2>1
  <1>5. \A i \in 1..Total(o) : Plan[o][i].size * Plan[o][i].price \in Nat
    BY <1>4
  <1> QED
    BY <1>2, <1>4, <1>5, VenueAssumption DEF Sizes, Values

LEMMA FilledTyped ==
    ASSUME NEW o \in Venue, NEW n \in 0..Total(o)
    PROVE  Filled(o, n) \in Nat /\ Value(o, n) \in Nat
  <1>1. n \in Nat /\ \A i \in 1..n : Sizes(o)[i] \in Nat /\ Values(o)[i] \in Nat
    BY PlanTyped
  <1>2. IsFiniteSet(1..n)
    BY <1>1, FS_Interval
  <1> QED  BY <1>1, <1>2, SumType DEF Filled, Value

\* More executions fill more.
LEMMA FilledGrows ==
    ASSUME NEW o \in Venue, NEW m \in 0..Total(o), NEW n \in 0..Total(o), m < n
    PROVE  Filled(o, m) < Filled(o, n)
  <1>1. /\ IsFiniteSet(1..n) /\ n \in Nat /\ m \in Nat
        /\ \A i \in 1..n : Sizes(o)[i] \in Nat \ {0}
    BY PlanTyped, FS_Interval
  <1>2. (1..m) \in SUBSET (1..n) /\ 1..m # 1..n
    <2>1. n \in 1..n /\ n \notin 1..m /\ \A i \in 1..m : i \in 1..n
      BY <1>1
    <2> QED  BY <2>1
  <1> QED  BY <1>1, <1>2, SumOfProperPart DEF Filled

LEMMA FilledOrder ==
    ASSUME NEW o \in Venue, NEW m \in 0..Total(o), NEW n \in 0..Total(o)
    PROVE  /\ m <= n => Filled(o, m) <= Filled(o, n)
           /\ Filled(o, m) <= Filled(o, n) => m <= n
           /\ Filled(o, m) = Filled(o, n) => m = n
  <1>1. /\ m \in Nat /\ n \in Nat /\ Filled(o, m) \in Nat /\ Filled(o, n) \in Nat
    BY FilledTyped, PlanTyped
  <1>2. m < n => Filled(o, m) < Filled(o, n)
    BY FilledGrows
  <1>3. n < m => Filled(o, n) < Filled(o, m)
    BY FilledGrows
  <1>4. m = n => Filled(o, m) = Filled(o, n)
    OBVIOUS
  <1> QED  BY <1>1, <1>2, <1>3, <1>4

LEMMA FilledNone == ASSUME NEW o \in Venue PROVE Filled(o, 0) = 0
  <1>1. 1..0 = {}
    OBVIOUS
  <1> QED  BY <1>1, SumOfNone DEF Filled

\* What an order asks for is what it fills to.
LEMMA AsksTyped ==
    ASSUME NEW o \in Venue
    PROVE  /\ Asks(o) \in Payloads /\ Asks(o).quantity = Filled(o, Total(o))
           /\ Quantity[Asks(o)] = Filled(o, Total(o))
           /\ \A n \in 0..Total(o) : Filled(o, n) \in 0..MaxFilled
  <1>1. Filled(o, Total(o)) \in 1..MaxFilled /\ Side[o] \in {"buy", "sell"}
    BY PayloadsAssumption, VenueAssumption DEF Total
  <1>2. Asks(o) \in Payloads /\ Asks(o).quantity = Filled(o, Total(o))
    BY <1>1, PayloadsAssumption DEF Asks, Total
  <1>3. ASSUME NEW n \in 0..Total(o) PROVE Filled(o, n) \in 0..MaxFilled
    <2>1. Total(o) \in 0..Total(o) /\ n <= Total(o)
      BY PlanTyped
    <2>2. Filled(o, n) <= Filled(o, Total(o)) /\ Filled(o, n) \in Nat
      BY <2>1, FilledOrder, FilledTyped
    <2> QED  BY <1>1, <2>2, BoundAssumption
  <1> QED  BY <1>2, <1>3, PayloadsAssumption

-----------------------------------------------------------------------------
(* What is on the tape, and what facts add up to.                          *)

LEMMA TapeFacts ==
    ASSUME TapeInv
    PROVE  /\ IsFiniteSet(ToSet(tape))
           /\ \A f \in ToSet(tape) :
                  /\ f.order \in Venue /\ f.n \in 1..Done(f.order) /\ f.n \in 1..Total(f.order)
                  /\ SizeOf(f) = Sizes(f.order)[f.n]
                  /\ SizeOf(f) * PriceOf(f) = Values(f.order)[f.n]
           /\ \A f, g \in ToSet(tape) : f.order = g.order /\ f.n = g.n => f = g
  <1>1. tape \in Seq(Facts) /\ Len(tape) \in Nat /\ DOMAIN tape = 1..Len(tape)
    BY DEF TapeInv
  <1>2. IsFiniteSet(ToSet(tape))
    <2>1. IsFiniteSet(DOMAIN tape)
      BY <1>1, FS_Interval
    <2>2. [i \in DOMAIN tape |-> tape[i]] \in Surjection(DOMAIN tape, ToSet(tape))
      BY DEF Surjection, ToSet
    <2> QED  BY <2>1, <2>2, FS_Surjection
  <1>3. ASSUME NEW f \in ToSet(tape)
        PROVE  /\ f.order \in Venue /\ f.n \in 1..Done(f.order) /\ f.n \in 1..Total(f.order)
               /\ SizeOf(f) = Sizes(f.order)[f.n]
               /\ SizeOf(f) * PriceOf(f) = Values(f.order)[f.n]
    <2>1. PICK i \in DOMAIN tape : f = tape[i]
      BY DEF ToSet
    <2>2. f \in Facts
      BY <1>1, <2>1, ElementOf
    <2>3. PICK o \in Venue : f \in [order: {o}, n: 1..Len(Plan[o]), at: 0..MaxTime]
      BY <2>2 DEF Facts
    <2>4. f.order = o /\ f.n \in 1..Total(o)
      BY <2>3 DEF Total
    <2>5. f.n <= Done(f.order) /\ Done(o) \in Nat /\ Total(o) \in Nat
      BY <2>1, <2>4, PlanTyped DEF TapeInv
    <2>6. SizeOf(f) = Sizes(o)[f.n] /\ SizeOf(f) * PriceOf(f) = Values(o)[f.n]
      BY <2>4, PlanTyped DEF SizeOf, PriceOf
    <2> QED  BY <2>4, <2>5, <2>6
  <1>4. \A f, g \in ToSet(tape) : f.order = g.order /\ f.n = g.n => f = g
    BY DEF TapeInv, ToSet
  <1> QED  BY <1>2, <1>3, <1>4

\* Facts of o add up to no more than what was executed, to as much only if they are
\* all its executions, and to all that was asked for only if that is all there will be.
LEMMA FactsAddUp ==
    ASSUME TapeInv, NEW o \in Venue, NEW S \in SUBSET ToSet(tape), \A f \in S : f.order = o
    PROVE  /\ SumOf(S) \in Nat /\ ValueOf(S) \in Nat /\ SumOf(S) <= Filled(o, Done(o))
           /\ SumOf(S) = Filled(o, Total(o)) => ValueOf(S) = Value(o, Total(o))
           /\ SumOf(S) = Filled(o, Done(o)) => \A f \in ToSet(tape) : f.order = o => f \in S
  <1> DEFINE h == [f \in S |-> f.n]
             N == {h[f] : f \in S}
             size == [f \in S |-> SizeOf(f)]
             value == [f \in S |-> SizeOf(f) * PriceOf(f)]
  <1>1. Done(o) \in 0..Total(o) /\ Total(o) \in Nat
    BY PlanTyped DEF TapeInv
  <1>2. /\ IsFiniteSet(S)
        /\ \A f, g \in S : h[f] = h[g] => f = g
        /\ \A f \in S : h[f] \in 1..Done(o) /\ h[f] \in 1..Total(o)
        /\ \A f \in S : size[f] = Sizes(o)[h[f]] /\ value[f] = Values(o)[h[f]]
    BY TapeFacts, FS_Subset
  <1>3. \A f \in S : size[f] \in Nat /\ value[f] \in Nat
    BY <1>2, PlanTyped
  <1>4. N \in SUBSET (1..Done(o)) /\ N \in SUBSET (1..Total(o))
    BY <1>2
  <1>5. N = 1..Done(o) => \A f \in ToSet(tape) : f.order = o => f \in S
    <2> SUFFICES ASSUME N = 1..Done(o), NEW f \in ToSet(tape), f.order = o PROVE f \in S
      OBVIOUS
    <2>1. f.n \in 1..Done(o)
      BY TapeFacts
    <2>2. PICK g \in S : g.n = f.n
      BY <2>1
    <2> QED  BY <2>2, TapeFacts
  <1> HIDE DEF h, size, value
  <1>6. SumFunctionOnSet(size, S) = SumFunctionOnSet(Sizes(o), N)
    BY <1>2, <1>3, SumMoved
  <1>7. SumFunctionOnSet(value, S) = SumFunctionOnSet(Values(o), N)
    BY <1>2, <1>3, SumMoved
  <1>8. SumOf(S) = SumFunctionOnSet(Sizes(o), N) /\ ValueOf(S) = SumFunctionOnSet(Values(o), N)
    BY <1>6, <1>7 DEF SumOf, ValueOf, size, value
  <1> HIDE DEF N
  <1>9. IsFiniteSet(1..Done(o)) /\ IsFiniteSet(1..Total(o))
    BY <1>1, FS_Interval
  <1>10. /\ \A i \in 1..Done(o) : Sizes(o)[i] \in Nat \ {0}
        /\ \A i \in 1..Total(o) : Sizes(o)[i] \in Nat \ {0} /\ Values(o)[i] \in Nat
    BY <1>1, PlanTyped
  <1>11. SumFunctionOnSet(Sizes(o), N) <= Filled(o, Done(o))
    BY <1>4, <1>9, <1>10, SumOfPart DEF Filled
  <1>12. SumFunctionOnSet(Sizes(o), N) \in Nat /\ SumFunctionOnSet(Values(o), N) \in Nat
    <2>1. IsFiniteSet(N) /\ \A i \in N : Sizes(o)[i] \in Nat /\ Values(o)[i] \in Nat
      BY <1>4, <1>9, <1>10, FS_Subset
    <2> QED  BY <2>1, SumType
  <1>13. N # 1..Total(o) => SumFunctionOnSet(Sizes(o), N) < Filled(o, Total(o))
    BY <1>4, <1>9, <1>10, SumOfProperPart DEF Filled
  <1>14. Filled(o, Total(o)) \in Nat
    BY <1>1, FilledTyped
  <1>15. SumOf(S) = Filled(o, Total(o)) => N = 1..Total(o)
    BY <1>8, <1>12, <1>13, <1>14
  <1>16. N = 1..Total(o) => ValueOf(S) = Value(o, Total(o))
    BY <1>8 DEF Value
  <1>17. N # 1..Done(o) => SumFunctionOnSet(Sizes(o), N) < Filled(o, Done(o))
    BY <1>4, <1>9, <1>10, SumOfProperPart DEF Filled
  <1>18. Filled(o, Done(o)) \in Nat
    BY <1>1, FilledTyped
  <1>19. SumOf(S) = Filled(o, Done(o)) => N = 1..Done(o)
    BY <1>8, <1>12, <1>17, <1>18
  <1> QED  BY <1>5, <1>8, <1>11, <1>12, <1>15, <1>16, <1>19

-----------------------------------------------------------------------------
(* Rows.                                                                   *)

LEMMA OwnKey ==
    ASSUME TableInv, NEW o \in Venue
    PROVE  /\ Holders(orders, o) \subseteq {Client[o]}
           /\ Holders(orders, Client[o]) \subseteq {Client[o]}
           /\ RowKey(o) = Client[o]
  <1>1. Holders(orders, o) \subseteq {Client[o]}
    BY PlanTyped DEF TableInv, Placed, RowFits, Holders
  <1>2. Holders(orders, Client[o]) \subseteq {Client[o]}
    BY PlanTyped DEF TableInv, Placed, RowFits, Holders
  <1> QED  BY <1>1, <1>2 DEF RowKey

LEMMA OtherClient ==
    ASSUME NEW o \in Venue, NEW q \in Venue, q # o PROVE Client[q] # Client[o]
  BY VenueAssumption

\* The row of o, if there is one.
LEMMA RowTyped ==
    ASSUME TableInv, NEW o \in Venue, orders[Client[o]] # NoRow
    PROVE  /\ orders[Client[o]] \in Rows /\ orders[Client[o]].filled \in Nat
           /\ orders[Client[o]].pay \in Payloads
           /\ Quantity[orders[Client[o]].pay] = orders[Client[o]].pay.quantity
           /\ Says(o, orders[Client[o]], paid[Client[o]])
           /\ orders[Client[o]].oid \in {o, Client[o]}
           /\ orders[Client[o]].intent => orders[Client[o]].pay = Asks(o)
  <1>1. orders[Client[o]] \in Rows /\ Client[o] \in Keys
    BY PlanTyped DEF TableInv
  <1>2. orders[Client[o]].filled \in Nat /\ orders[Client[o]].pay \in Payloads
    BY <1>1, BoundAssumption DEF Rows
  <1> QED  BY <1>1, <1>2, PayloadsAssumption DEF TableInv, RowFits

\* An upsert under its own client id replaces the row of o and no other.
LEMMA UpsertOwn ==
    ASSUME TableInv, NEW o \in Venue, NEW r \in Receipts, r.oid \in {o, Client[o]}, NEW v,
           Upserts(Client[o], r, v)
    PROVE  \E new \in Rows :
               /\ new # NoRow /\ new.oid = r.oid /\ new.status = r.status
               /\ new.filled = r.filled /\ new.pay = r.pay
               /\ new.intent <=> orders[Client[o]] # NoRow /\ orders[Client[o]].intent
               /\ orders' = [orders EXCEPT ![Client[o]] = new]
  <1>1. Holders(orders, r.oid) \subseteq {Client[o]} /\ Client[o] \in Keys
    BY OwnKey, PlanTyped
  <1>2. DOMAIN orders = Keys
    BY DEF TableInv
  <1>3. orders' = Upserted(orders, Client[o], r)
    BY DEF Upserts
  <1>4. \A j \in Keys : j # Client[o] => j \notin Holders(orders, r.oid)
    BY <1>1
  <1>5. PICK b : b = (orders[Client[o]] # NoRow /\ orders[Client[o]].intent)
    OBVIOUS
  <1>6. b \in BOOLEAN
    BY <1>5, RowTyped DEF Rows
  <1>7. PICK x : x = RowOf(r, b)
    OBVIOUS
  <1>8. orders' = [j \in Keys |-> IF j = Client[o] THEN x
                                  ELSE IF j \in Holders(orders, r.oid) THEN NoRow
                                  ELSE orders[j]]
    BY <1>3, <1>5, <1>7 DEF Upserted
  <1>9. orders' = [orders EXCEPT ![Client[o]] = x]
    BY <1>1, <1>2, <1>4, <1>8
  <1>10. x \in Rows /\ x # NoRow
    BY <1>6, <1>7, NoRowAssumption DEF RowOf, Receipts, Rows
  <1>11. /\ x.oid = r.oid /\ x.status = r.status /\ x.filled = r.filled /\ x.pay = r.pay
         /\ x.intent = b
    BY <1>7 DEF RowOf
  <1>12. x.intent <=> orders[Client[o]] # NoRow /\ orders[Client[o]].intent
    BY <1>5, <1>11, Zenon
  <1> QED  BY <1>9, <1>10, <1>11, <1>12

\* What a row may say lasts while the venue goes on.
VenueLasts ==
    \A o \in Venue :
        /\ Done(o) \in 0..Total(o) /\ Done(o)' \in 0..Total(o) /\ Done(o) <= Done(o)'
        /\ o \in ended => o \in ended' /\ Done(o)' = Done(o)

LEMMA SaysLasts ==
    ASSUME VenueLasts, NEW o \in Venue, NEW r, r.filled \in Nat, NEW v, Says(o, r, v)
    PROVE  Says(o, r, v)'
  <1>1. Filled(o, Done(o)) <= Filled(o, Done(o)')
    BY FilledOrder DEF VenueLasts
  <1>2. Filled(o, Done(o)) \in Nat /\ Filled(o, Done(o)') \in Nat
    BY FilledTyped DEF VenueLasts
  <1>3. r.filled <= Filled(o, Done(o)')
    BY <1>1, <1>2 DEF Says
  <1>4. Filled(o, Done(o))' = Filled(o, Done(o)')
    BY DEF Filled, Sizes
  <1>5. Asks(o)' = Asks(o) /\ Total(o)' = Total(o)
        /\ \A n : FirstOf(o, n, r.filled, v)' = FirstOf(o, n, r.filled, v)
    BY DEF Asks, Total, FirstOf
  <1>6. r.status = "CANCELLED" => o \in ended' /\ r.filled = Filled(o, Done(o)')
    BY DEF Says, VenueLasts
  <1> QED  BY <1>3, <1>4, <1>5, <1>6 DEF Says

LEMMA VenueStays ==
    ASSUME TapeInv, UNCHANGED <<tape, ended>>
    PROVE  VenueLasts /\ \A o \in Venue : Done(o)' = Done(o)
  <1>1. \A o \in Venue : Done(o)' = Done(o)
    BY DEF Done, Executions
  <1>2. \A o \in Venue : Done(o) \in 0..Total(o) /\ Total(o) \in Nat
    BY PlanTyped DEF TapeInv
  <1> QED  BY <1>1, <1>2 DEF VenueLasts

\* A receipt that says what may be said leaves everything as it should be, and a bound
\* row as it is.
LEMMA UpsertKeeps ==
    ASSUME AccountInv, UNCHANGED <<tape, ended, baseline>>, NEW o \in Venue, NEW v,
           NEW r \in Receipts, r.oid \in {o, Client[o]}, Says(o, r, v),
           Upserts(Client[o], r, v)
    PROVE  /\ TableInv' /\ BoundInv'
           /\ orders'[Client[o]] # NoRow /\ orders'[Client[o]].filled = r.filled
           /\ orders[Client[o]] # NoRow => orders[Client[o]].filled <= r.filled
           /\ \A q \in Venue \ {o} : orders'[Client[q]] = orders[Client[q]]
  <1> DEFINE k == Client[o]
  <1>1. TableInv /\ TapeInv /\ k \in Keys /\ k \notin Venue
    BY PlanTyped DEF AccountInv
  <1>2. PICK new \in Rows :
            /\ new # NoRow /\ new.oid = r.oid /\ new.status = r.status
            /\ new.filled = r.filled /\ new.pay = r.pay
            /\ new.intent <=> orders[Client[o]] # NoRow /\ orders[Client[o]].intent
            /\ orders' = [orders EXCEPT ![Client[o]] = new]
    BY <1>1, UpsertOwn
  <1>3. /\ paid' = [paid EXCEPT ![k] = v]
        /\ orders[k] # NoRow => CanPreserve(orders[k], r)
    BY DEF Upserts, CanUpsert
  <1>4. r.filled \in Nat
    BY BoundAssumption DEF Receipts
  <1>5. /\ orders'[k] = new /\ paid'[k] = v
        /\ \A j \in Keys \ {k} : orders'[j] = orders[j] /\ paid'[j] = paid[j]
    BY <1>1, <1>2, <1>3 DEF TableInv
  <1>6. \A q \in Venue \ {o} : /\ Client[q] \in Keys \ {k}
                               /\ orders'[Client[q]] = orders[Client[q]]
                               /\ paid'[Client[q]] = paid[Client[q]]
    BY <1>5, OtherClient, PlanTyped
  <1>7. new.intent => new.pay = Asks(o)
    BY <1>1, <1>2, <1>3, RowTyped DEF CanPreserve, AgreesWithIntent
  <1>8. Says(o, new, v)
    BY <1>2 DEF Says
  <1>9. VenueLasts /\ \A q \in Venue : Done(q)' = Done(q)
    BY <1>1, VenueStays
  <1>10. RowFits(o)'
    <2>5. Says(o, new, v)'
      BY <1>2, <1>4, <1>8, <1>9, SaysLasts
    <2>2. orders'[k].oid \in {o, Client[o]} /\ (orders'[k].intent => orders'[k].pay = Asks(o))
      BY <1>2, <1>5, <1>7
    <2>3. Says(o, orders[k], paid[k])'
      BY <1>5, <2>5 DEF Says, Done, Executions, FirstOf
    <2> QED  BY <2>2, <2>3 DEF RowFits, Asks
  <1>11. ASSUME NEW q \in Venue \ {o} PROVE RowFits(q)'
    <2>1. CASE orders[Client[q]] = NoRow
      BY <1>6, <2>1 DEF RowFits
    <2>2. CASE orders[Client[q]] # NoRow
      <3>1. PICK x, y : x = orders[Client[q]] /\ y = paid[Client[q]]
        OBVIOUS
      <3>2. x.filled \in Nat /\ Says(q, x, y) /\ x.oid \in {q, Client[q]}
            /\ (x.intent => x.pay = Asks(q))
        BY <1>1, <2>2, <3>1, RowTyped
      <3>3. Says(q, x, y)'
        BY <1>9, <3>2, SaysLasts
      <3>4. orders'[Client[q]] = x /\ paid'[Client[q]] = y
        BY <1>6, <3>1
      <3> QED  BY <3>2, <3>3, <3>4 DEF RowFits, Says, Asks, Done, Executions, FirstOf
    <2> QED  BY <2>1, <2>2
  <1>12. TableInv'
    <2>1. orders' \in [Keys -> Rows \cup {NoRow}] /\ DOMAIN paid' = Keys
      BY <1>1, <1>2, <1>3 DEF TableInv
    <2>2. Placed'
      BY <1>1, <1>5 DEF TableInv, Placed
    <2> QED  BY <1>10, <1>11, <2>1, <2>2 DEF TableInv
  <1>13. orders[k] # NoRow /\ orders[k].status \in VenueTerminal =>
             orders'[k] = orders[k] /\ paid'[k] = paid[k]
    <2> SUFFICES ASSUME orders[k] # NoRow, orders[k].status \in VenueTerminal
                 PROVE  orders'[k] = orders[k] /\ paid'[k] = paid[k]
      OBVIOUS
    <2>1. SameReceipt(orders[k], r)
      BY <1>3 DEF CanPreserve
    <2>2. orders[k] \in Rows /\ orders[k].intent \in BOOLEAN
          /\ Says(o, orders[k], paid[k]) /\ new.intent = orders[k].intent
      BY <1>1, <1>2, RowTyped DEF Rows
    <2>3. new = orders[k]
      BY <1>2, <2>1, <2>2 DEF SameReceipt, Rows
    <2>4. PICK m \in 0..Total(o) : FirstOf(o, m, orders[k].filled, paid[k])
      BY <2>2 DEF Says
    <2>5. PICK n \in 0..Total(o) : FirstOf(o, n, r.filled, v)
      BY <2>1 DEF Says, SameReceipt
    <2>6. m = n
      BY <2>1, <2>4, <2>5, FilledOrder DEF FirstOf, SameReceipt
    <2>7. v = paid[k]
      BY <2>4, <2>5, <2>6 DEF FirstOf
    <2> QED  BY <1>5, <2>3, <2>7
  <1>14. BoundInv'
    <2> SUFFICES ASSUME baseline # None, NEW base, base = baseline PROVE Bound(base)'
      BY DEF BoundInv, Bound, Short
    <2>1. Bound(base)
      BY DEF AccountInv, BoundInv
    <2>2. \A q \in base.covered :
              orders'[Client[q]] = orders[Client[q]] /\ paid'[Client[q]] = paid[Client[q]]
      BY <1>6, <1>13, <2>1 DEF Bound
    <2> QED  BY <2>1, <2>2 DEF Bound, Short, Asks
  <1>15. orders[k] # NoRow => orders[k].filled <= r.filled
    BY <1>1, <1>3, <1>4, RowTyped DEF CanPreserve
  <1> QED  BY <1>2, <1>5, <1>6, <1>12, <1>14, <1>15

-----------------------------------------------------------------------------
(* What the writers say of an order.                                       *)

LEMMA SaysWhenOpen ==
    ASSUME NEW o, NEW r, NEW v, r.oid = o, r.filled <= Filled(o, Done(o)),
           r.pay = Asks(o) \/ r.filled >= r.pay.quantity,
           r.status \in {"FILLED", "PARTIALLY_FILLED"},
           r.status = "FILLED" => \E n \in 0..Total(o) : FirstOf(o, n, r.filled, v)
    PROVE  Says(o, r, v)
  <1>1. /\ r.status \in VenueTerminal => r.status = "FILLED"
        /\ r.status # "CANCELLED"
    BY DEF VenueTerminal
  <1> QED  BY <1>1 DEF Says

LEMMA SnapshotSays ==
    ASSUME TapeInv, NEW s, Snapshot(s)
    PROVE  /\ Receipt(s) \in Receipts /\ Receipt(s).oid = s.order /\ s.order \in Venue
           /\ Receipt(s).filled = Filled(s.order, s.n) /\ Filled(s.order, s.n) \in Nat
           /\ Says(s.order, Receipt(s), Value(s.order, s.n))
  <1>1. /\ s.order \in Venue /\ s.n \in 0..Total(s.order) /\ Done(s.order) \in 0..Total(s.order)
        /\ s.n <= Done(s.order)
    BY PlanTyped DEF TapeInv, Snapshot
  <1>2. /\ Filled(s.order, s.n) <= Filled(s.order, Done(s.order))
        /\ Filled(s.order, s.n) \in 0..MaxFilled /\ Asks(s.order) \in Payloads
        /\ s.order \in Keys
    BY <1>1, FilledOrder, AsksTyped, PlanTyped
  <1>3. Filled(s.order, s.n) \in Nat
    BY <1>1, FilledTyped
  <1>4. s.status \in Statuses
    BY DEF Snapshot, Statuses, PendingStatuses, VenueTerminal
  <1>5. Receipt(s) \in Receipts
    BY <1>2, <1>4 DEF Receipt, Receipts
  <1>6. Says(s.order, Receipt(s), Value(s.order, s.n))
    BY <1>1, <1>2 DEF Says, Receipt, Snapshot, FirstOf, VenueTerminal
  <1> QED  BY <1>1, <1>3, <1>5, <1>6 DEF Receipt

\* handle_fill, when the fills are news.
LEMMA FillSays ==
    ASSUME TapeInv, TableInv, NEW s, Snapshot(s), Filled(s.order, s.n) # 0,
           orders[Client[s.order]] # NoRow =>
               ~ (Filled(s.order, s.n) <= orders[Client[s.order]].filled)
    PROVE  /\ FillReceipt(s) \in Receipts /\ FillReceipt(s).oid = s.order
           /\ FillReceipt(s).filled = Filled(s.order, s.n)
           /\ Says(s.order, FillReceipt(s), Value(s.order, s.n))
  <1> DEFINE q == Filled(s.order, s.n)
             row == orders[Client[s.order]]
  <1>1. /\ s.order \in Venue /\ s.n \in 0..Total(s.order) /\ Done(s.order) \in 0..Total(s.order)
        /\ s.n <= Done(s.order) /\ s.order \in Keys
    BY PlanTyped DEF TapeInv, Snapshot
  <1>2. q <= Filled(s.order, Done(s.order)) /\ q \in 0..MaxFilled /\ q \in Nat
    BY <1>1, FilledOrder, AsksTyped, FilledTyped
  <1> DEFINE r == FillReceipt(s)
  <1>3. /\ r.oid = s.order /\ r.filled = q /\ r.status \in {"FILLED", "PARTIALLY_FILLED"}
    BY DEF FillReceipt
  <1>6. \E n \in 0..Total(s.order) : FirstOf(s.order, n, r.filled, Value(s.order, s.n))
    BY <1>1, <1>3 DEF FirstOf
  <1>4. CASE row = NoRow
    <2>1. r.pay = [side |-> Side[s.order], quantity |-> q]
      BY <1>4 DEF FillReceipt
    <2>2. r.pay \in Payloads /\ r.pay.quantity = q
      BY <1>1, <1>2, <2>1, PayloadsAssumption, VenueAssumption, BoundAssumption
    <2>3. r \in Receipts
      BY <1>1, <1>2, <1>3, <2>2 DEF FillReceipt, Receipts, Statuses, PendingStatuses, VenueTerminal
    <2>4. Says(s.order, r, Value(s.order, s.n))
      <3> HIDE DEF r, q
      <3>1. r.filled <= Filled(s.order, Done(s.order)) /\ r.filled >= r.pay.quantity
        BY <1>2, <1>3, <2>2
      <3> QED  BY <1>3, <1>6, <3>1, SaysWhenOpen
    <2> QED  BY <1>3, <2>3, <2>4
  <1>5. CASE row # NoRow
    <2>1. r.pay = row.pay
      BY <1>5 DEF FillReceipt
    <2>2. /\ row.pay \in Payloads /\ row.filled \in Nat
          /\ row.pay = Asks(s.order) \/ row.filled >= row.pay.quantity
      BY <1>1, <1>5, RowTyped DEF Says
    <2>6. row.pay.quantity \in Nat
      BY <2>2, PayloadsAssumption, BoundAssumption
    <2>7. row.filled < q
      BY <1>2, <1>5, <2>2
    <2>3. r.pay = Asks(s.order) \/ q >= r.pay.quantity
      BY <1>2, <2>1, <2>2, <2>6, <2>7
    <2>4. r \in Receipts
      BY <1>1, <1>2, <1>3, <2>1, <2>2
         DEF FillReceipt, Receipts, Statuses, PendingStatuses, VenueTerminal
    <2>5. Says(s.order, r, Value(s.order, s.n))
      <3> HIDE DEF r, q
      <3>1. r.filled <= Filled(s.order, Done(s.order))
        BY <1>2, <1>3
      <3> QED  BY <1>3, <1>6, <2>3, <3>1, SaysWhenOpen
    <2> QED  BY <1>3, <2>4, <2>5
  <1> QED  BY <1>4, <1>5

\* record_fill, when a fact says more than the row: the row is settled by facts only
\* if they are all there is.
LEMMA FactSays ==
    ASSUME TapeInv, ReadInv, TableInv, NEW f \in ToSet(tape), Advances(f)
    PROVE  /\ FactReceipt(f) \in Receipts /\ FactReceipt(f).oid = f.order
           /\ Identified(f) \in Nat /\ Identified(f) <= Filled(f.order, Done(f.order))
           /\ Says(f.order, FactReceipt(f), ValueOf(FillsOf(f.order) \cup {f}))
  <1> DEFINE S == FillsOf(f.order) \cup {f}
             row == orders[Client[f.order]]
             r == FactReceipt(f)
  <1>1. f.order \in Venue
    BY TapeFacts
  <1>2. S \in SUBSET ToSet(tape) /\ \A g \in S : g.order = f.order
    BY DEF ReadInv, FillsOf
  <1>3. /\ Identified(f) \in Nat /\ Identified(f) <= Filled(f.order, Done(f.order))
        /\ Identified(f) = Filled(f.order, Total(f.order)) =>
               ValueOf(S) = Value(f.order, Total(f.order))
    <2> HIDE DEF S
    <2>1. /\ SumOf(S) \in Nat /\ SumOf(S) <= Filled(f.order, Done(f.order))
          /\ SumOf(S) = Filled(f.order, Total(f.order)) =>
                 ValueOf(S) = Value(f.order, Total(f.order))
      BY <1>1, <1>2, FactsAddUp
    <2> QED  BY <2>1 DEF Identified, S
  <1>4. /\ RowKey(f.order) = Client[f.order] /\ row # NoRow /\ Identified(f) > row.filled
    BY <1>1, OwnKey DEF Advances
  <1>5. /\ row.pay \in Payloads /\ row.pay.quantity \in Nat /\ row.filled \in Nat
        /\ Quantity[row.pay] = row.pay.quantity
        /\ row.pay = Asks(f.order) \/ row.filled >= row.pay.quantity
    BY <1>1, <1>4, RowTyped, PayloadsAssumption, BoundAssumption DEF Says
  <1>6. /\ r.oid = f.order /\ r.filled = Identified(f) /\ r.pay = row.pay
        /\ r.status \in {"FILLED", "PARTIALLY_FILLED"}
        /\ r.status = "FILLED" => Identified(f) = Quantity[row.pay]
    BY <1>4 DEF FactReceipt
  <1>7. /\ Identified(f) \in 0..MaxFilled /\ f.order \in Keys
        /\ Quantity[Asks(f.order)] = Filled(f.order, Total(f.order))
        /\ Total(f.order) \in 0..Total(f.order)
    <2>1. Filled(f.order, Done(f.order)) \in 0..MaxFilled
      BY <1>1, AsksTyped DEF TapeInv
    <2>2. Identified(f) \in 0..MaxFilled
      BY <1>3, <2>1, BoundAssumption
    <2> QED  BY <1>1, <2>2, AsksTyped, PlanTyped
  <1>8. r \in Receipts
    BY <1>4, <1>5, <1>6, <1>7 DEF FactReceipt, Receipts, Statuses, PendingStatuses, VenueTerminal
  <1>9. r.status = "FILLED" => FirstOf(f.order, Total(f.order), r.filled, ValueOf(S))
    BY <1>3, <1>4, <1>5, <1>6, <1>7 DEF FirstOf
  <1>10. r.pay = Asks(f.order) \/ r.filled >= r.pay.quantity
    BY <1>3, <1>4, <1>5, <1>6
  <1>11. Says(f.order, r, ValueOf(S))
    <2>1. r.filled <= Filled(f.order, Done(f.order))
      BY <1>3, <1>6
    <2>2. r.status = "FILLED" =>
              \E n \in 0..Total(f.order) : FirstOf(f.order, n, r.filled, ValueOf(S))
      BY <1>7, <1>9
    <2> HIDE DEF r, S
    <2> QED  BY <1>6, <1>10, <2>1, <2>2, SaysWhenOpen
  <1> QED  BY <1>3, <1>6, <1>8, <1>11

-----------------------------------------------------------------------------
(* What lasts.                                                             *)

LEMMA SnapshotLasts ==
    ASSUME VenueLasts, NEW s, Snapshot(s) PROVE Snapshot(s)'
  <1>1. s.order \in Venue /\ s.n \in 0..Done(s.order)'
    BY DEF Snapshot, VenueLasts
  <1>2. s.status = "CANCELLED" => s.order \in ended' /\ s.n = Done(s.order)'
    BY DEF Snapshot, VenueLasts
  <1> QED  BY <1>1, <1>2 DEF Snapshot

LEMMA ReadLasts ==
    ASSUME ReadInv, VenueLasts, ToSet(tape) \subseteq ToSet(tape)',
           UNCHANGED <<facts, sending, ws, backfill>>
    PROVE  ReadInv'
  <1>1. facts' \subseteq ToSet(tape)' /\ backfill'.fills \subseteq ToSet(tape)'
    BY DEF ReadInv
  <1>2. ASSUME NEW s \in backfill.orders PROVE Snapshot(s)'
    BY SnapshotLasts DEF ReadInv
  <1>3. ws # None => Snapshot(ws)'
    <2>1. PICK s : s = ws
      OBVIOUS
    <2>2. s # None => Snapshot(s)'
      BY <2>1, SnapshotLasts DEF ReadInv
    <2>3. ws' = s
      BY <2>1
    <2> QED  BY <2>1, <2>2, <2>3 DEF Snapshot
  <1> QED  BY <1>1, <1>2, <1>3 DEF ReadInv

LEMMA TableLasts ==
    ASSUME TableInv, VenueLasts, UNCHANGED <<orders, paid>> PROVE TableInv'
  <1>1. ASSUME NEW o \in Venue PROVE RowFits(o)'
    <2>1. CASE orders[Client[o]] = NoRow
      BY <2>1 DEF RowFits
    <2>2. CASE orders[Client[o]] # NoRow
      <3>1. PICK x, y : x = orders[Client[o]] /\ y = paid[Client[o]]
        OBVIOUS
      <3>2. x.filled \in Nat /\ Says(o, x, y) /\ x.oid \in {o, Client[o]}
            /\ (x.intent => x.pay = Asks(o))
        BY <2>2, <3>1, RowTyped
      <3>3. Says(o, x, y)'
        BY <3>2, SaysLasts
      <3>4. orders'[Client[o]] = x /\ paid'[Client[o]] = y
        BY <3>1
      <3> QED  BY <3>2, <3>3, <3>4 DEF RowFits, Says, Asks, Done, Executions, FirstOf
    <2> QED  BY <2>1, <2>2
  <1> QED  BY <1>1 DEF TableInv, Placed

\* Only the row of o changes, and its fills only grow.
LEMMA SeenKeeps ==
    ASSUME AccountInv, NEW o \in Venue, orders'[Client[o]] # NoRow,
           orders'[Client[o]].filled \in Nat,
           orders[Client[o]] # NoRow => orders[Client[o]].filled <= orders'[Client[o]].filled,
           \A q \in Venue \ {o} : orders'[Client[q]] = orders[Client[q]],
           \A x \in observations' :
               \/ x \in observations
               \/ x.order = o /\ x.filled \in Nat /\ x.filled <= orders'[Client[o]].filled
    PROVE  SeenInv'
  <1> SUFFICES ASSUME NEW x \in observations'
               PROVE  /\ x.order \in Venue /\ x.filled \in Nat
                      /\ orders'[Client[x.order]] # NoRow
                      /\ x.filled <= orders'[Client[x.order]].filled
    BY DEF SeenInv
  <1>1. CASE x.order = o /\ x.filled \in Nat /\ x.filled <= orders'[Client[o]].filled
    BY <1>1
  <1>2. CASE x \in observations
    <2>1. /\ x.order \in Venue /\ x.filled \in Nat
          /\ orders[Client[x.order]] # NoRow /\ x.filled <= orders[Client[x.order]].filled
      BY <1>2 DEF AccountInv, SeenInv
    <2>2. orders[Client[x.order]].filled \in Nat
      BY <2>1, RowTyped DEF AccountInv
    <2>3. CASE x.order = o
      BY <2>1, <2>2, <2>3
    <2>4. CASE x.order # o
      BY <2>1, <2>4
    <2> QED  BY <2>3, <2>4
  <1> QED  BY <1>1, <1>2

LEMMA SeenLasts ==
    ASSUME SeenInv, UNCHANGED <<orders, observations>> PROVE SeenInv'
  BY DEF SeenInv

LEMMA BoundLasts ==
    ASSUME BoundInv, UNCHANGED <<orders, paid, baseline, tape>> PROVE BoundInv'
  BY DEF BoundInv, Bound, Short, Asks

\* Nothing but reads, the process's own state and the clock.
LEMMA AccountLasts ==
    ASSUME AccountInv, UNCHANGED <<tape, ended, orders, paid, observations, baseline>>,
           now' \in 0..MaxTime
    PROVE  TapeInv' /\ TableInv' /\ SeenInv' /\ BoundInv' /\ VenueLasts
  <1>1. VenueLasts /\ \A o \in Venue : Done(o)' = Done(o)
    BY VenueStays DEF AccountInv
  <1>2. TableInv' /\ SeenInv' /\ BoundInv'
    BY <1>1, TableLasts, SeenLasts, BoundLasts DEF AccountInv
  <1>3. TapeInv'
    BY DEF AccountInv, TapeInv, Done, Executions, Total
  <1> QED  BY <1>1, <1>2, <1>3

\* The tape, when a table changes.
LEMMA TapeLasts ==
    ASSUME AccountInv, UNCHANGED venueVars PROVE TapeInv' /\ VenueLasts
  <1>1. UNCHANGED <<tape, ended, now>>
    BY DEF venueVars
  <1>2. VenueLasts
    BY <1>1, VenueStays DEF AccountInv
  <1>3. TapeInv'
    BY <1>1 DEF AccountInv, TapeInv, Done, Executions, Total
  <1> QED  BY <1>2, <1>3

\* _upsert_order_from_rest with a snapshot of the order.
LEMMA UpdateKeeps ==
    ASSUME AccountInv, UNCHANGED <<venueVars, baseline>>, NEW s, Snapshot(s), AppliesUpdate(s)
    PROVE  TableInv' /\ SeenInv' /\ BoundInv'
  <1> DEFINE k == Client[s.order]
  <1>1. TapeInv /\ TableInv /\ SeenInv /\ BoundInv /\ UNCHANGED <<tape, ended>>
    BY DEF AccountInv, venueVars
  <1>2. CASE ~ CanUpsert(orders, k, Receipt(s))
    <2>1. UNCHANGED <<orders, paid, observations>>
      BY <1>2 DEF AppliesUpdate
    <2> QED  BY <1>1, <2>1, VenueStays, TableLasts, SeenLasts, BoundLasts
  <1>3. CASE CanUpsert(orders, k, Receipt(s))
    <2>1. PICK r, v : r = Receipt(s) /\ v = Value(s.order, s.n)
      OBVIOUS
    <2>2. /\ Upserts(k, r, v)
          /\ observations' = Observed(s.order, Filled(s.order, s.n), v)
      BY <1>3, <2>1 DEF AppliesUpdate
    <2>3. /\ r \in Receipts /\ r.oid = s.order /\ s.order \in Venue
          /\ r.filled = Filled(s.order, s.n) /\ Filled(s.order, s.n) \in Nat
          /\ Says(s.order, r, v)
      BY <1>1, <2>1, SnapshotSays
    <2>4. PICK o \in Venue : o = s.order
      BY <2>3
    <2>5. /\ TableInv' /\ BoundInv'
          /\ orders'[Client[o]] # NoRow /\ orders'[Client[o]].filled = r.filled
          /\ orders[Client[o]] # NoRow => orders[Client[o]].filled <= r.filled
          /\ \A q \in Venue \ {o} : orders'[Client[q]] = orders[Client[q]]
      BY <1>1, <2>2, <2>3, <2>4, UpsertKeeps
    <2>6. \A x \in observations' :
              \/ x \in observations
              \/ x.order = o /\ x.filled \in Nat /\ x.filled <= orders'[Client[o]].filled
      BY <2>2, <2>3, <2>4, <2>5 DEF Observed
    <2>7. SeenInv'
      BY <2>3, <2>5, <2>6, SeenKeeps
    <2> QED  BY <2>5, <2>7
  <1> QED  BY <1>2, <1>3

-----------------------------------------------------------------------------
(* The steps of the venue.                                                 *)

\* What Append does.
LEMMA OneMore ==
    ASSUME TapeInv, NEW f \in Facts, tape' = Append(tape, f)
    PROVE  /\ tape' \in Seq(Facts) /\ Len(tape) \in Nat
           /\ DOMAIN tape = 1..Len(tape) /\ DOMAIN tape' = DOMAIN tape \cup {Len(tape) + 1}
           /\ Len(tape) + 1 \notin DOMAIN tape
           /\ tape'[Len(tape) + 1] = f /\ \A i \in DOMAIN tape : tape'[i] = tape[i]
           /\ ToSet(tape) \subseteq ToSet(tape)'
           /\ \A q : Executions(q) \subseteq DOMAIN tape /\ IsFiniteSet(Executions(q))
           /\ \A q : Executions(q)' = IF q = f.order THEN Executions(q) \cup {Len(tape) + 1}
                                      ELSE Executions(q)
  <1>1. tape \in Seq(Facts) /\ Len(tape) \in Nat /\ DOMAIN tape = 1..Len(tape)
    BY DEF TapeInv
  <1>2. /\ tape' \in Seq(Facts) /\ Len(tape') = Len(tape) + 1
        /\ tape'[Len(tape) + 1] = f /\ \A i \in 1..Len(tape) : tape'[i] = tape[i]
    BY <1>1
  <1>3. DOMAIN tape' = DOMAIN tape \cup {Len(tape) + 1} /\ Len(tape) + 1 \notin DOMAIN tape
    <2>1. DOMAIN tape' = 1..(Len(tape) + 1)
      BY <1>1, <1>2
    <2> QED  BY <1>1, <2>1
  <1>4. ToSet(tape) \subseteq ToSet(tape)'
    BY <1>1, <1>2, <1>3 DEF ToSet
  <1>5. ASSUME NEW q PROVE Executions(q) \subseteq DOMAIN tape /\ IsFiniteSet(Executions(q))
    <2>1. IsFiniteSet(DOMAIN tape)
      BY <1>1, FS_Interval
    <2>2. Executions(q) \subseteq DOMAIN tape
      BY DEF Executions
    <2> QED  BY <2>1, <2>2, FS_Subset
  <1>6. ASSUME NEW q
        PROVE  Executions(q)' = IF q = f.order THEN Executions(q) \cup {Len(tape) + 1}
                                ELSE Executions(q)
    BY <1>1, <1>2, <1>3 DEF Executions
  <1> QED  BY <1>1, <1>2, <1>3, <1>4, <1>5, <1>6

\* An order whose row a baseline covers executes again only if it is closed short.
LEMMA CoveredIsOver ==
    ASSUME AccountInv, NEW o \in Venue, orders[Client[o]] # NoRow,
           orders[Client[o]].status \in VenueTerminal, ~ Over(o)
    PROVE  Short(o)
  <1> DEFINE row == orders[Client[o]]
  <1>1. Says(o, row, paid[Client[o]]) /\ row.filled \in Nat
    BY RowTyped DEF AccountInv
  <1>2. o \notin ended /\ Done(o) # Total(o) /\ Done(o) \in 0..Total(o) /\ Total(o) \in Nat
    BY PlanTyped DEF Over, Total, AccountInv, TapeInv
  <1>3. row.status = "FILLED" /\ row.filled <= Filled(o, Done(o))
    BY <1>1, <1>2 DEF Says
  <1>4. Filled(o, Done(o)) < Filled(o, Total(o))
    BY <1>2, FilledGrows
  <1>5. Asks(o).quantity = Filled(o, Total(o))
    BY AsksTyped
  <1>6. Filled(o, Done(o)) \in Nat /\ Filled(o, Total(o)) \in Nat
    BY <1>2, FilledTyped
  <1>7. row.filled < Asks(o).quantity
    BY <1>1, <1>3, <1>4, <1>5, <1>6
  <1> QED  BY <1>3, <1>7 DEF Short

LEMMA ExecutesStep ==
    ASSUME AccountInv, NEW o \in Venue, Executes(o) PROVE AccountInv'
  <1>1. /\ TapeInv /\ ReadInv /\ TableInv /\ SeenInv /\ BoundInv
        /\ UNCHANGED <<now, ended, orders, paid, facts, observations, baseline,
                       sending, ws, backfill>>
    BY DEF AccountInv, Executes, ledgerVars, processVars
  <1>2. /\ Done(o) \in 0..Total(o) /\ Done(o) # Total(o) /\ Total(o) \in Nat /\ o \notin ended
        /\ now \in 0..MaxTime /\ Total(o) = Len(Plan[o])
    BY <1>1, PlanTyped DEF TapeInv, Executes, Over, Total
  <1>3. PICK f : f = [order |-> o, n |-> Done(o) + 1, at |-> now]
    OBVIOUS
  <1>4. f \in Facts /\ f.order = o /\ f.n = Done(o) + 1 /\ tape' = Append(tape, f)
    <2>1. Done(o) + 1 \in 1..Len(Plan[o])
      BY <1>2
    <2>2. f \in [order: {o}, n: 1..Len(Plan[o]), at: 0..MaxTime]
      BY <1>2, <1>3, <2>1
    <2> QED  BY <1>3, <2>2 DEF Facts, Executes
  <1> DEFINE last == Len(tape) + 1
  <1>5. /\ tape' \in Seq(Facts) /\ Len(tape) \in Nat
        /\ DOMAIN tape = 1..Len(tape) /\ DOMAIN tape' = DOMAIN tape \cup {last}
        /\ last \notin DOMAIN tape
        /\ tape'[last] = f /\ \A i \in DOMAIN tape : tape'[i] = tape[i]
        /\ ToSet(tape) \subseteq ToSet(tape)'
    BY <1>1, <1>4, OneMore
  <1>6. \A q : Executions(q) \subseteq DOMAIN tape /\ IsFiniteSet(Executions(q))
    BY <1>1, <1>4, OneMore
  <1>7. \A q : Executions(q)' = IF q = o THEN Executions(q) \cup {last} ELSE Executions(q)
    BY <1>1, <1>4, OneMore
  <1> HIDE DEF last
  <1>8. Done(o)' = Done(o) + 1
    <2>1. last \notin Executions(o) /\ IsFiniteSet(Executions(o))
      BY <1>5, <1>6
    <2>2. Cardinality(Executions(o) \cup {last}) = Cardinality(Executions(o)) + 1
      BY <2>1, FS_AddElement
    <2> QED  BY <1>7, <2>2 DEF Done
  <1>9. \A q \in Venue \ {o} : Done(q)' = Done(q)
    BY <1>7 DEF Done
  <1>10. VenueLasts
    <2>1. \A q \in Venue : Done(q) \in 0..Total(q) /\ Total(q) \in Nat
      BY <1>1, PlanTyped DEF TapeInv
    <2>2. Done(o)' \in 0..Total(o) /\ Done(o) <= Done(o)'
      BY <1>2, <1>8
    <2>3. \A q \in Venue \ {o} : Done(q)' \in 0..Total(q) /\ Done(q) <= Done(q)'
      BY <1>9, <2>1
    <2> QED  BY <1>1, <1>2, <1>9, <2>1, <2>2, <2>3 DEF VenueLasts
  <1>11. TapeInv'
    <2>1. \A q \in Venue : (Done(q) \in 0..Total(q))'
      BY <1>10 DEF VenueLasts, Total
    <2>2. \A i \in DOMAIN tape : tape[i].order \in Venue /\ tape[i].n <= Done(tape[i].order)
                                 /\ tape[i].n \in Nat
      BY <1>1, TapeFacts DEF TapeInv, ToSet
    <2>3. ASSUME NEW i \in DOMAIN tape' PROVE tape'[i].n <= Done(tape[i].order)'
      <3>1. CASE i = last
        <4>1. tape'[i].order = o /\ tape'[i].n <= Done(o)'
          BY <1>2, <1>4, <1>5, <1>8, <3>1
        <4> QED  BY <4>1 DEF Done, Executions
      <3>2. CASE i \in DOMAIN tape
        <4>1. PICK q : q = tape[i].order
          OBVIOUS
        <4>2. q \in Venue /\ tape'[i].n <= Done(q) /\ tape'[i].n \in Nat /\ tape'[i].order = q
          BY <1>5, <2>2, <3>2, <4>1
        <4>3. tape'[i].n <= Done(q)'
          BY <1>10, <4>2 DEF VenueLasts
        <4> QED  BY <4>2, <4>3 DEF Done, Executions
      <3> QED  BY <1>5, <3>1, <3>2
    <2>4. ASSUME NEW i \in DOMAIN tape, tape[i].order = o PROVE tape[i].n # f.n
      BY <1>2, <1>4, <2>2, <2>4
    <2>5. \A i, j \in DOMAIN tape' :
              tape'[i].order = tape'[j].order /\ tape'[i].n = tape'[j].n => i = j
      BY <1>1, <1>4, <1>5, <2>4 DEF TapeInv
    <2> QED  BY <1>1, <1>5, <2>1, <2>3, <2>5 DEF TapeInv
  <1>12. ReadInv' /\ TableInv' /\ SeenInv'
    BY <1>1, <1>5, <1>10, ReadLasts, TableLasts, SeenLasts
  <1>13. BoundInv'
    <2> SUFFICES ASSUME NEW b, b = baseline, b # None PROVE Bound(b)'
      BY <1>1 DEF BoundInv, Bound, Short
    <2>1. Bound(b)
      BY <1>1 DEF BoundInv
    <2>2. ASSUME NEW q \in b.covered
          PROVE  (Short(q) \/ \A i \in DOMAIN tape : tape[i].order = q => tape[i].at <= b.at)'
      <3>1. q \in Venue /\ orders[Client[q]] # NoRow /\ orders[Client[q]].status \in VenueTerminal
        BY <2>1 DEF Bound
      <3>2. Short(q) => Short(q)'
        BY <1>1 DEF Short, Asks
      <3>3. CASE q = o
        BY <3>1, <3>2, <3>3, CoveredIsOver DEF Executes
      <3>4. CASE q # o
        <4>1. \A i \in DOMAIN tape' : tape'[i].order = q => i \in DOMAIN tape
          BY <1>4, <1>5, <3>4
        <4> QED  BY <1>5, <2>1, <3>2, <4>1 DEF Bound
      <3> QED  BY <3>3, <3>4
    <2>3. \A q \in b.covered :
              /\ orders'[Client[q]] # NoRow
              /\ orders'[Client[q]].status \in VenueTerminal
              /\ b.bound[q] = <<orders'[Client[q]], paid'[Client[q]]>>
      BY <1>1, <2>1 DEF Bound
    <2> QED  BY <2>1, <2>2, <2>3 DEF Bound, Short, Asks
  <1> QED  BY <1>11, <1>12, <1>13 DEF AccountInv

LEMMA CancelsStep ==
    ASSUME AccountInv, NEW o \in Venue, Cancels(o) PROVE AccountInv'
  <1>1. /\ TapeInv /\ ReadInv /\ TableInv /\ SeenInv /\ BoundInv
        /\ UNCHANGED <<now, tape, orders, paid, facts, observations, baseline,
                       sending, ws, backfill>>
        /\ ended' = ended \cup {o}
    BY DEF AccountInv, Cancels, ledgerVars, processVars
  <1>2. VenueLasts
    <2>1. \A q \in Venue : Done(q)' = Done(q)
      BY <1>1 DEF Done, Executions
    <2>2. \A q \in Venue : Done(q) \in 0..Total(q) /\ Total(q) \in Nat
      BY <1>1, PlanTyped DEF TapeInv
    <2> QED  BY <1>1, <2>1, <2>2 DEF VenueLasts
  <1>3. ReadInv' /\ TableInv' /\ SeenInv' /\ BoundInv'
    BY <1>1, <1>2, ReadLasts, TableLasts, SeenLasts, BoundLasts DEF ToSet
  <1>4. TapeInv'
    BY <1>1 DEF TapeInv, Done, Executions, Total
  <1> QED  BY <1>3, <1>4 DEF AccountInv

LEMMA TickStep == ASSUME AccountInv, Tick PROVE AccountInv'
  <1>1. /\ UNCHANGED <<tape, ended, orders, paid, facts, observations, baseline,
                       sending, ws, backfill>>
        /\ now < MaxTime /\ now' = now + 1 /\ now \in 0..MaxTime
    BY DEF AccountInv, TapeInv, Tick, ledgerVars, processVars
  <1>2. now' \in 0..MaxTime
    BY <1>1, TimeAssumption
  <1>3. TapeInv' /\ TableInv' /\ SeenInv' /\ BoundInv' /\ VenueLasts
    BY <1>1, <1>2, AccountLasts
  <1>4. ReadInv'
    BY <1>1, <1>3, ReadLasts DEF AccountInv, ToSet
  <1> QED  BY <1>3, <1>4 DEF AccountInv

-----------------------------------------------------------------------------
(* The steps of the writers.                                               *)

LEMMA SubmissionFailsStep ==
    ASSUME AccountInv, NEW o, SubmissionFails(o) PROVE AccountInv'
  <1>1. /\ TapeInv /\ ReadInv /\ TableInv /\ SeenInv
        /\ UNCHANGED <<venueVars, facts, observations, baseline, ws, backfill>>
        /\ UNCHANGED <<now, tape, ended>>
        /\ sending' = sending \ {o} /\ o \in sending
    BY DEF AccountInv, SubmissionFails, venueVars
  <1>2. o \in Venue
    BY <1>1 DEF ReadInv, Venue
  <1>3. PICK r : r = [oid |-> Client[o], status |-> "FAILED", filled |-> 0, pay |-> Asks(o)]
    OBVIOUS
  <1>4. Upserts(Client[o], r, 0)
    BY <1>3 DEF SubmissionFails
  <1>5. r \in Receipts /\ r.oid \in {o, Client[o]} /\ r.filled = 0
    BY <1>2, <1>3, AsksTyped, PlanTyped, BoundAssumption
       DEF Receipts, Statuses, PendingStatuses, VenueTerminal
  <1>6. Says(o, r, 0)
    <2>1. Filled(o, Done(o)) \in Nat
      BY <1>1, <1>2, FilledTyped DEF TapeInv
    <2>2. r.status \notin VenueTerminal /\ r.status = "FAILED" /\ r.pay = Asks(o)
      BY <1>3 DEF VenueTerminal
    <2> QED  BY <1>5, <2>1, <2>2 DEF Says
  <1>7. /\ TableInv' /\ BoundInv'
        /\ orders'[Client[o]] # NoRow /\ orders'[Client[o]].filled = 0
        /\ orders[Client[o]] # NoRow => orders[Client[o]].filled <= 0
        /\ \A q \in Venue \ {o} : orders'[Client[q]] = orders[Client[q]]
    BY <1>1, <1>2, <1>4, <1>5, <1>6, UpsertKeeps
  <1>8. SeenInv'
    BY <1>1, <1>2, <1>7, SeenKeeps
  <1>9. TapeInv' /\ VenueLasts
    BY <1>1, TapeLasts
  <1>10. ReadInv'
    <2>1. \A s : Snapshot(s) => Snapshot(s)'
      BY <1>9, SnapshotLasts
    <2>2. facts' \subseteq ToSet(tape)' /\ backfill'.fills \subseteq ToSet(tape)'
          /\ (backfill'.fills # {} => backfill'.pc = "fills") /\ sending' \subseteq Owned
      BY <1>1 DEF ReadInv, ToSet
    <2>3. ws' # None => Snapshot(ws)'
      BY <1>1 DEF ReadInv, Snapshot, Done, Executions
    <2>4. ASSUME NEW s \in backfill' .orders PROVE Snapshot(s)'
      BY <1>1, <2>1, <2>4 DEF ReadInv
    <2> QED  BY <2>2, <2>3, <2>4 DEF ReadInv
  <1> QED  BY <1>7, <1>8, <1>9, <1>10 DEF AccountInv

LEMMA WsFillStep ==
    ASSUME AccountInv, NEW s, Snapshot(s), WsFill(s) PROVE AccountInv'
  <1>1. /\ TapeInv /\ ReadInv /\ TableInv /\ SeenInv /\ BoundInv
        /\ UNCHANGED <<venueVars, facts, baseline, sending, backfill>>
        /\ UNCHANGED <<now, tape, ended>> /\ ws' = s
    BY DEF AccountInv, WsFill, venueVars
  <1>2. PICK o, q, v : o = s.order /\ q = Filled(s.order, s.n) /\ v = Value(s.order, s.n)
    OBVIOUS
  <1>3. o \in Venue /\ q \in Nat
    BY <1>1, <1>2, SnapshotSays
  <1>4. observations' = Observed(o, q, v)
    BY <1>2 DEF WsFill
  <1>5. TapeInv' /\ VenueLasts
    BY <1>1, TapeLasts
  <1>6. ReadInv'
    <2>1. \A x : Snapshot(x) => Snapshot(x)'
      BY <1>5, SnapshotLasts
    <2>2. \A x \in backfill'.orders : Snapshot(x)'
      BY <1>1, <2>1 DEF ReadInv
    <2>3. Snapshot(ws)'
      <3>1. Snapshot(s)'
        BY <2>1
      <3> QED  BY <1>1, <3>1 DEF Snapshot, Done, Executions
    <2> QED  BY <1>1, <2>2, <2>3 DEF ReadInv, ToSet
  <1>7. CASE q = 0 \/ (orders[Client[o]] # NoRow /\ q <= orders[Client[o]].filled)
    <2>1. UNCHANGED <<orders, paid>>
      BY <1>2, <1>7 DEF WsFill
    <2>2. TableInv' /\ BoundInv'
      BY <1>1, <1>5, <2>1, TableLasts, BoundLasts
    <2>3. SeenInv'
      BY <1>1, <1>3, <1>4, <1>7, <2>1 DEF SeenInv, Observed
    <2> QED  BY <1>5, <1>6, <2>2, <2>3 DEF AccountInv
  <1>8. CASE ~ (q = 0 \/ (orders[Client[o]] # NoRow /\ q <= orders[Client[o]].filled))
    <2>1. PICK r : r = FillReceipt(s)
      OBVIOUS
    <2>2. Upserts(Client[o], r, v)
      BY <1>2, <1>8, <2>1 DEF WsFill
    <2>3. r \in Receipts /\ r.oid = o /\ r.filled = q /\ Says(o, r, v)
      <3>1. /\ FillReceipt(s) \in Receipts /\ FillReceipt(s).oid = s.order
            /\ FillReceipt(s).filled = Filled(s.order, s.n)
            /\ Says(s.order, FillReceipt(s), Value(s.order, s.n))
        BY <1>1, <1>2, <1>8, FillSays
      <3> QED  BY <1>2, <2>1, <3>1
    <2>4. /\ TableInv' /\ BoundInv'
          /\ orders'[Client[o]] # NoRow /\ orders'[Client[o]].filled = q
          /\ orders[Client[o]] # NoRow => orders[Client[o]].filled <= q
          /\ \A p \in Venue \ {o} : orders'[Client[p]] = orders[Client[p]]
      BY <1>1, <1>3, <2>2, <2>3, UpsertKeeps
    <2>5. \A x \in observations' :
              \/ x \in observations
              \/ x.order = o /\ x.filled \in Nat /\ x.filled <= orders'[Client[o]].filled
      BY <1>3, <1>4, <2>4 DEF Observed
    <2>6. SeenInv'
      BY <1>3, <2>4, <2>5, SeenKeeps
    <2> QED  BY <1>5, <1>6, <2>4, <2>6 DEF AccountInv
  <1> QED  BY <1>7, <1>8

LEMMA WsUpdateStep == ASSUME AccountInv, WsUpdate PROVE AccountInv'
  <1>1. PICK s : s = ws
    OBVIOUS
  <1>2. /\ UNCHANGED <<venueVars, facts, baseline, sending, backfill>>
        /\ UNCHANGED <<now, tape, ended>>
        /\ ws' = None /\ Snapshot(s) /\ AppliesUpdate(s) /\ ReadInv
    BY <1>1 DEF AccountInv, ReadInv, WsUpdate, venueVars
  <1>3. TableInv' /\ SeenInv' /\ BoundInv'
    BY <1>2, UpdateKeeps
  <1>4. TapeInv' /\ VenueLasts
    BY <1>2, TapeLasts
  <1>5. ReadInv'
    <2>1. \A x : Snapshot(x) => Snapshot(x)'
      BY <1>4, SnapshotLasts
    <2>2. \A x \in backfill'.orders : Snapshot(x)'
      BY <1>2, <2>1 DEF ReadInv
    <2> QED  BY <1>2, <2>2 DEF ReadInv, ToSet
  <1> QED  BY <1>3, <1>4, <1>5 DEF AccountInv

\* The backfill goes on with b: what it has listed is so.
LEMMA BackfillReads ==
    ASSUME ReadInv, VenueLasts, UNCHANGED tape, NEW b, Backfills(b),
           facts' \subseteq ToSet(tape), b.fills \subseteq ToSet(tape),
           b.fills # {} => b.pc = "fills", \A s \in b.orders : Snapshot(s)
    PROVE  ReadInv'
  <1>1. /\ backfill' = IF b.pc = "fills" /\ b.fills = {} THEN Idle ELSE b
        /\ UNCHANGED <<sending, ws, tape, ended>>
    BY DEF Backfills, venueVars
  <1>2. \A s : Snapshot(s) => Snapshot(s)'
    BY SnapshotLasts
  <1>3. backfill'.fills \subseteq ToSet(tape)' /\ (backfill'.fills # {} => backfill'.pc = "fills")
    BY <1>1 DEF Idle, ToSet
  <1>4. ASSUME NEW s \in backfill' .orders PROVE Snapshot(s)'
    <2>1. s \in b.orders
      BY <1>1, <1>4 DEF Idle
    <2> QED  BY <1>2, <2>1
  <1>5. ws' # None => Snapshot(ws)'
    BY <1>1 DEF ReadInv, Snapshot, Done, Executions
  <1>6. facts' \subseteq ToSet(tape)' /\ sending' \subseteq Owned
    BY <1>1 DEF ReadInv, ToSet
  <1> QED  BY <1>3, <1>4, <1>5, <1>6 DEF ReadInv

\* What the venue says at present is a snapshot, and so is what it said before.
LEMMA VenueSays ==
    ASSUME TapeInv, NEW o \in Venue
    PROVE  Snapshot(Latest(o)) /\ \A s \in Snapshots(o) : Snapshot(s)
  <1>1. Done(o) \in 0..Total(o) /\ Total(o) \in Nat
    BY PlanTyped DEF TapeInv
  <1>2. Done(o) \in 0..Done(o)
    BY <1>1
  <1>3. Snapshot(Latest(o))
    BY <1>2 DEF Latest, Final, Snapshot
  <1>4. ASSUME NEW n \in 0..Done(o) PROVE Snapshot([order |-> o, n |-> n, status |-> "OPEN"])
    BY DEF Snapshot
  <1> QED  BY <1>3, <1>4 DEF Snapshots

LEMMA ListOrdersStep ==
    ASSUME AccountInv, NEW works \in BOOLEAN, ListOrders(works) PROVE AccountInv'
  <1>1. PICK b : b = [pc |-> "orders", fills |-> {},
                      orders |-> IF works THEN {Latest(o) : o \in Venue} ELSE {}]
    OBVIOUS
  <1>2. /\ Backfills(b)
        /\ UNCHANGED <<now, tape, ended, orders, paid, facts, observations, baseline>>
        /\ TapeInv /\ ReadInv /\ now \in 0..MaxTime
    BY <1>1 DEF AccountInv, TapeInv, ListOrders, Backfills, venueVars
  <1>3. \A s \in b.orders : Snapshot(s)
    BY <1>1, <1>2, VenueSays
  <1>4. TapeInv' /\ TableInv' /\ SeenInv' /\ BoundInv' /\ VenueLasts
    BY <1>2, AccountLasts
  <1>5. ReadInv'
    BY <1>1, <1>2, <1>3, <1>4, BackfillReads DEF ReadInv
  <1> QED  BY <1>4, <1>5 DEF AccountInv

LEMMA ListFillsStep ==
    ASSUME AccountInv, NEW works \in BOOLEAN, ListFills(works) PROVE AccountInv'
  <1>1. PICK b : b = [pc |-> "fills", orders |-> {},
                      fills |-> IF works THEN {f \in ToSet(tape) : Listed(f)} ELSE {}]
    OBVIOUS
  <1>2. /\ Backfills(b)
        /\ UNCHANGED <<now, tape, ended, orders, paid, facts, observations, baseline>>
        /\ ReadInv /\ now \in 0..MaxTime
    BY <1>1 DEF AccountInv, TapeInv, ListFills, Backfills, venueVars
  <1>3. TapeInv' /\ TableInv' /\ SeenInv' /\ BoundInv' /\ VenueLasts
    BY <1>2, AccountLasts
  <1>4. b.fills \subseteq ToSet(tape) /\ b.pc = "fills" /\ b.orders = {}
    BY <1>1
  <1>5. ReadInv'
    BY <1>2, <1>3, <1>4, BackfillReads DEF ReadInv
  <1> QED  BY <1>3, <1>5 DEF AccountInv

LEMMA BackfillOrderStep ==
    ASSUME AccountInv, NEW s \in backfill.orders, BackfillOrder(s) PROVE AccountInv'
  <1>1. PICK b : b = [backfill EXCEPT !.orders = @ \ {s}]
    OBVIOUS
  <1>2. /\ Backfills(b) /\ UNCHANGED <<venueVars, facts, baseline>> /\ UNCHANGED tape
        /\ AppliesUpdate(s) /\ Snapshot(s) /\ ReadInv
    BY <1>1 DEF AccountInv, ReadInv, BackfillOrder, Backfills, venueVars
  <1>3. TableInv' /\ SeenInv' /\ BoundInv'
    BY <1>2, UpdateKeeps
  <1>4. TapeInv' /\ VenueLasts
    BY <1>2, TapeLasts
  <1>5. b.fills = backfill.fills /\ b.pc = backfill.pc /\ b.orders \subseteq backfill.orders
    BY <1>1
  <1>6. ReadInv'
    BY <1>2, <1>4, <1>5, BackfillReads DEF ReadInv
  <1> QED  BY <1>3, <1>4, <1>6 DEF AccountInv

\* record_fill: one fact more, and the row as far as the facts complete it.
LEMMA RecordFillKeeps ==
    ASSUME AccountInv, UNCHANGED <<venueVars, observations, baseline>>,
           NEW f \in ToSet(tape), RecordFill(f)
    PROVE  TableInv' /\ SeenInv' /\ BoundInv' /\ facts' \subseteq ToSet(tape)
  <1>1. /\ TapeInv /\ ReadInv /\ TableInv /\ SeenInv /\ BoundInv
        /\ UNCHANGED <<tape, ended>>
    BY DEF AccountInv, venueVars
  <1>2. facts' \subseteq ToSet(tape)
    BY <1>1 DEF RecordFill, ReadInv
  <1>3. CASE ~ (f \notin facts /\ Advances(f))
    <2>1. UNCHANGED <<orders, paid>>
      BY <1>3 DEF RecordFill
    <2> QED  BY <1>1, <1>2, <2>1, VenueStays, TableLasts, SeenLasts, BoundLasts
  <1>4. CASE f \notin facts /\ Advances(f)
    <2>1. PICK o, r, v : o = f.order /\ r = FactReceipt(f)
                         /\ v = ValueOf(FillsOf(f.order) \cup {f})
      OBVIOUS
    <2>2. o \in Venue /\ RowKey(o) = Client[o]
      BY <1>1, <2>1, TapeFacts, OwnKey
    <2>3. Upserts(Client[o], r, v)
      BY <1>4, <2>1, <2>2 DEF RecordFill
    <2>4. r \in Receipts /\ r.oid = o /\ Says(o, r, v) /\ r.filled \in Nat
      <3>1. /\ FactReceipt(f) \in Receipts /\ FactReceipt(f).oid = f.order
            /\ Says(f.order, FactReceipt(f), ValueOf(FillsOf(f.order) \cup {f}))
        BY <1>1, <1>4, FactSays
      <3> QED  BY <2>1, <3>1, BoundAssumption DEF Receipts
    <2>5. /\ TableInv' /\ BoundInv'
          /\ orders'[Client[o]] # NoRow /\ orders'[Client[o]].filled = r.filled
          /\ orders[Client[o]] # NoRow => orders[Client[o]].filled <= r.filled
          /\ \A q \in Venue \ {o} : orders'[Client[q]] = orders[Client[q]]
      BY <1>1, <2>2, <2>3, <2>4, UpsertKeeps
    <2>6. SeenInv'
      BY <2>2, <2>4, <2>5, SeenKeeps
    <2> QED  BY <1>2, <2>5, <2>6
  <1> QED  BY <1>3, <1>4

LEMMA BackfillFillStep ==
    ASSUME AccountInv, NEW f \in backfill.fills, BackfillFill(f) PROVE AccountInv'
  <1>1. /\ TapeInv /\ ReadInv /\ TableInv /\ SeenInv /\ BoundInv
        /\ UNCHANGED observations /\ f \in ToSet(tape) /\ backfill.pc = "fills"
    BY DEF AccountInv, ReadInv, BackfillFill
  <1>2. CASE Accepts(f)
    <2>1. PICK b : b = [backfill EXCEPT !.fills = @ \ {f}]
      OBVIOUS
    <2>2. RecordFill(f) /\ Backfills(b) /\ UNCHANGED <<venueVars, baseline>> /\ UNCHANGED tape
      BY <1>2, <2>1 DEF BackfillFill, Backfills, venueVars
    <2>3. TableInv' /\ SeenInv' /\ BoundInv' /\ facts' \subseteq ToSet(tape)
      BY <1>1, <2>2, RecordFillKeeps
    <2>4. TapeInv' /\ VenueLasts
      BY <2>2, TapeLasts
    <2>5. b.fills \subseteq backfill.fills /\ b.pc = "fills" /\ b.orders = backfill.orders
      BY <1>1, <2>1
    <2>6. ReadInv'
      BY <1>1, <2>2, <2>3, <2>4, <2>5, BackfillReads DEF ReadInv
    <2> QED  BY <2>3, <2>4, <2>6 DEF AccountInv
  <1>3. CASE ~ Accepts(f)
    <2>1. PICK b : b = Idle
      OBVIOUS
    <2>2. Backfills(b) /\ UNCHANGED <<venueVars, orders, paid, facts, baseline>>
          /\ UNCHANGED <<tape, ended, now>>
      BY <1>3, <2>1 DEF BackfillFill, Backfills, venueVars
    <2>3. TapeInv' /\ TableInv' /\ SeenInv' /\ BoundInv' /\ VenueLasts
      BY <1>1, <2>2, AccountLasts DEF TapeInv
    <2>4. b.fills = {} /\ b.orders = {}
      BY <2>1 DEF Idle
    <2>5. ReadInv'
      BY <1>1, <2>2, <2>3, <2>4, BackfillReads DEF ReadInv
    <2> QED  BY <2>3, <2>5 DEF AccountInv
  <1> QED  BY <1>2, <1>3

\* A baseline covers rows that are settled, of orders that had ended by then.
LEMMA RecordBaselineStep ==
    ASSUME AccountInv, NEW at, NEW covered \in SUBSET Venue, RecordBaseline(at, covered)
    PROVE  AccountInv'
  <1>1. /\ TapeInv /\ ReadInv /\ TableInv /\ SeenInv
        /\ UNCHANGED <<now, tape, ended, orders, paid, facts, observations, sending, ws, backfill>>
        /\ now \in 0..MaxTime /\ baseline' = BaselineOf(at, covered)
    BY DEF AccountInv, TapeInv, RecordBaseline, venueVars, processVars
  <1>2. PICK b : b = BaselineOf(at, covered)
    OBVIOUS
  <1>3. /\ b.covered = covered /\ b.at = at
        /\ \A o \in covered : b.bound[o] = <<orders[RowKey(o)], paid[RowKey(o)]>>
    BY <1>2 DEF BaselineOf
  <1>4. ASSUME NEW o \in covered
        PROVE  /\ orders[Client[o]] # NoRow /\ orders[Client[o]].status \in VenueTerminal
               /\ b.bound[o] = <<orders[Client[o]], paid[Client[o]]>>
               /\ \A i \in DOMAIN tape : tape[i].order = o => tape[i].at <= at
    <2>1. RowKey(o) = Client[o] /\ Holders(orders, o) \subseteq {Client[o]}
      BY <1>1, OwnKey
    <2>2. PICK k \in Holders(orders, o) : orders[k].status \in VenueTerminal
      BY DEF RecordBaseline
    <2>3. k = Client[o] /\ orders[k] # NoRow
      BY <2>1, <2>2 DEF Holders
    <2>4. \A i \in DOMAIN tape : tape[i].order = o => tape[i].at <= at
      BY DEF RecordBaseline, Executions
    <2> QED  BY <1>3, <2>1, <2>2, <2>3, <2>4
  <1>5. Bound(b)
    BY <1>3, <1>4 DEF Bound
  <1>6. BoundInv'
    BY <1>1, <1>2, <1>5 DEF BoundInv, Bound, Short, Asks
  <1>7. VenueLasts
    BY <1>1, VenueStays
  <1>8. TapeInv' /\ TableInv' /\ SeenInv' /\ ReadInv'
    <2>1. TapeInv'
      BY <1>1 DEF TapeInv, Done, Executions, Total
    <2>2. ReadInv'
      BY <1>1, <1>7, ReadLasts DEF ToSet
    <2> QED  BY <1>1, <1>7, <2>1, <2>2, TableLasts, SeenLasts
  <1> QED  BY <1>6, <1>8 DEF AccountInv

LEMMA CrashStep == ASSUME AccountInv, Crash PROVE AccountInv'
  <1>1. /\ UNCHANGED <<now, tape, ended, orders, paid, facts, observations, baseline>>
        /\ sending' = {} /\ ws' = None /\ backfill' = Idle
        /\ ReadInv /\ now \in 0..MaxTime
    BY DEF AccountInv, TapeInv, Crash, venueVars, ledgerVars
  <1>2. TapeInv' /\ TableInv' /\ SeenInv' /\ BoundInv' /\ VenueLasts
    BY <1>1, AccountLasts
  <1>3. ReadInv'
    BY <1>1 DEF ReadInv, Idle, ToSet
  <1> QED  BY <1>2, <1>3 DEF AccountInv

-----------------------------------------------------------------------------
(* The invariant.                                                          *)

LEMMA AccountInitially == ASSUME AccountInit PROVE AccountInv
  <1>1. /\ now = 0 /\ tape = <<>> /\ facts = {} /\ observations = {} /\ baseline = None
        /\ sending = Owned /\ ws = None /\ backfill = Idle
        /\ paid = [k \in Keys |-> 0]
    BY DEF AccountInit
  <1>2. \A o \in Venue : Done(o) = 0 /\ Total(o) \in Nat
    <2>1. \A o \in Venue : Executions(o) = {}
      BY <1>1 DEF Executions
    <2> QED  BY <2>1, FS_EmptySet, PlanTyped DEF Done
  <1>3. TapeInv
    <2>1. tape \in Seq(Facts) /\ DOMAIN tape = {} /\ now \in 0..MaxTime
      BY <1>1, TimeAssumption
    <2> QED  BY <1>2, <2>1 DEF TapeInv
  <1>4. ReadInv
    BY <1>1 DEF ReadInv, Idle
  <1>5. ASSUME NEW k \in Keys
        PROVE  \/ orders[k] = NoRow
               \/ \E o \in Owned :
                     /\ Client[o] = k
                     /\ orders[k] = [oid |-> k, status |-> "PENDING", filled |-> 0,
                                     pay |-> Asks(o), intent |-> TRUE]
    <2>1. CASE \E o \in Owned : Client[o] = k
      <3>1. PICK o \in Owned : o = CHOOSE q \in Owned : Client[q] = k
        BY <2>1
      <3>2. Client[o] = k
        BY <2>1, <3>1
      <3>3. orders[k] = Reserved([j \in Keys |-> NoRow], k, Asks(o))[k]
        BY <2>1, <3>1 DEF AccountInit
      <3> QED  BY <3>2, <3>3 DEF Reserved
    <2>2. CASE ~ \E o \in Owned : Client[o] = k
      BY <2>2 DEF AccountInit
    <2> QED  BY <2>1, <2>2
  <1>6. orders \in [Keys -> Rows \cup {NoRow}]
    <2>1. orders = [k \in Keys |-> orders[k]]
      BY DEF AccountInit
    <2>2. ASSUME NEW k \in Keys PROVE orders[k] \in Rows \cup {NoRow}
      <3>1. CASE orders[k] = NoRow
        BY <3>1
      <3>2. CASE orders[k] # NoRow
        <4>1. PICK o \in Owned :
                  orders[k] = [oid |-> k, status |-> "PENDING", filled |-> 0,
                               pay |-> Asks(o), intent |-> TRUE]
          BY <1>5, <3>2
        <4>2. Asks(o) \in Payloads
          BY AsksTyped DEF Venue
        <4> QED  BY <4>1, <4>2, BoundAssumption DEF Rows, Statuses, PendingStatuses
      <3> QED  BY <3>1, <3>2
    <2> QED  BY <2>1, <2>2
  <1>7. Placed
    BY <1>5 DEF Placed, Venue
  <1>8. ASSUME NEW o \in Venue PROVE RowFits(o)
    <2>1. CASE orders[Client[o]] = NoRow
      BY <2>1 DEF RowFits
    <2>2. CASE orders[Client[o]] # NoRow
      <3>1. PICK q \in Owned :
                /\ Client[q] = Client[o]
                /\ orders[Client[o]] = [oid |-> Client[o], status |-> "PENDING", filled |-> 0,
                                        pay |-> Asks(q), intent |-> TRUE]
        BY <1>5, <2>2, PlanTyped
      <3>2. q = o
        BY <3>1, OtherClient DEF Venue
      <3>3. PICK row : row = orders[Client[o]]
        OBVIOUS
      <3>4. row.oid = Client[o] /\ row.status = "PENDING" /\ row.filled = 0 /\ row.pay = Asks(o)
        BY <3>1, <3>2, <3>3
      <3>5. Filled(o, Done(o)) = 0
        BY <1>2, FilledNone
      <3>6. Says(o, row, paid[Client[o]])
        BY <3>4, <3>5 DEF Says, VenueTerminal
      <3> QED  BY <3>3, <3>4, <3>6 DEF RowFits
    <2> QED  BY <2>1, <2>2
  <1>9. TableInv
    BY <1>1, <1>6, <1>7, <1>8 DEF TableInv
  <1> QED  BY <1>1, <1>3, <1>4, <1>9 DEF AccountInv, SeenInv, BoundInv

LEMMA AccountStays == ASSUME AccountInv, UNCHANGED accountVars PROVE AccountInv'
  <1>1. /\ UNCHANGED <<tape, ended, orders, paid, facts, observations, baseline>>
        /\ now' \in 0..MaxTime /\ UNCHANGED <<sending, ws, backfill>>
    BY DEF AccountInv, TapeInv, accountVars, venueVars, ledgerVars, processVars
  <1>2. TapeInv' /\ TableInv' /\ SeenInv' /\ BoundInv' /\ VenueLasts
    BY <1>1, AccountLasts
  <1>3. ReadInv'
    BY <1>1, <1>2, ReadLasts DEF AccountInv, ToSet
  <1> QED  BY <1>2, <1>3 DEF AccountInv

LEMMA AccountSteps == ASSUME AccountInv, [AccountNext]_accountVars PROVE AccountInv'
  <1>1. ASSUME NEW o \in Venue, Executes(o) PROVE AccountInv'
    BY <1>1, ExecutesStep
  <1>2. ASSUME NEW o \in Venue, Cancels(o) PROVE AccountInv'
    BY <1>2, CancelsStep
  <1>3. ASSUME NEW o \in Venue, SubmissionFails(o) PROVE AccountInv'
    BY <1>3, SubmissionFailsStep
  <1>4. ASSUME NEW o \in Venue, NEW s \in Snapshots(o), WsFill(s) PROVE AccountInv'
    BY <1>4, VenueSays, WsFillStep DEF AccountInv
  <1>5. CASE WsUpdate
    BY <1>5, WsUpdateStep
  <1>6. ASSUME NEW works \in BOOLEAN, ListOrders(works) \/ ListFills(works) PROVE AccountInv'
    BY <1>6, ListOrdersStep, ListFillsStep
  <1>7. ASSUME NEW s \in backfill.orders, BackfillOrder(s) PROVE AccountInv'
    BY <1>7, BackfillOrderStep
  <1>8. ASSUME NEW f \in backfill.fills, BackfillFill(f) PROVE AccountInv'
    BY <1>8, BackfillFillStep
  <1>9. ASSUME NEW at \in 0..MaxTime, NEW covered \in SUBSET Venue, RecordBaseline(at, covered)
        PROVE  AccountInv'
    BY <1>9, RecordBaselineStep
  <1>10. CASE Tick
    BY <1>10, TickStep
  <1>11. CASE Crash
    BY <1>11, CrashStep
  <1>12. CASE UNCHANGED accountVars
    BY <1>12, AccountStays
  <1> QED
    BY <1>1, <1>2, <1>3, <1>4, <1>5, <1>6, <1>7, <1>8, <1>9, <1>10, <1>11, <1>12
       DEF AccountNext, BackfillNext

THEOREM AccountInvariant == AccountSpec => []AccountInv
  <1>1. AccountInit => AccountInv
    BY AccountInitially
  <1>2. AccountInv /\ [AccountNext]_accountVars => AccountInv'
    BY AccountSteps
  <1> QED  BY <1>1, <1>2, PTL DEF AccountSpec

-----------------------------------------------------------------------------
(* The theorems.                                                           *)

\* However snapshots, facts and receipts of the same executions interleave, a row
\* never reports more than the venue has executed (handle_fill, record_fill).
THEOREM FillsAreCountedOnce == AccountSpec => []NothingCountedTwice
  <1>1. ASSUME AccountInv PROVE NothingCountedTwice
    <2> SUFFICES ASSUME NEW o \in Venue, NEW k \in Holders(orders, o)
                 PROVE  orders[k].filled <= Filled(o, Done(o))
      BY DEF NothingCountedTwice
    <2>1. k = Client[o] /\ orders[k] # NoRow
      BY <1>1, OwnKey DEF AccountInv, Holders
    <2> QED  BY <1>1, <2>1, RowTyped DEF AccountInv, Says
  <1> QED  BY <1>1, AccountInvariant, PTL

\* What a baseline covers never changes under it (record_baseline, the semantics
\* that it binds).
THEOREM BaselinesHold == AccountSpec => []CoveredReceiptsHold
  <1>1. ASSUME AccountInv PROVE CoveredReceiptsHold
    <2> SUFFICES ASSUME NEW b, b = baseline, b # None, NEW o \in b.covered
                 PROVE  /\ \E k \in Holders(orders, o) : <<orders[k], paid[k]>> = b.bound[o]
                        /\ \A x \in observations :
                               x.order = o => x.filled <= b.bound[o][1].filled
      BY DEF CoveredReceiptsHold
    <2>1. /\ o \in Venue /\ orders[Client[o]] # NoRow
          /\ orders[Client[o]].status \in VenueTerminal
          /\ b.bound[o] = <<orders[Client[o]], paid[Client[o]]>>
      BY <1>1 DEF AccountInv, BoundInv, Bound
    <2>2. orders[Client[o]].oid = o
      BY <1>1, <2>1, RowTyped DEF AccountInv, Says
    <2>3. Client[o] \in Holders(orders, o)
      BY <2>1, <2>2, PlanTyped DEF Holders
    <2>4. \A x \in observations : x.order = o => x.filled <= orders[Client[o]].filled
      BY <1>1 DEF AccountInv, SeenInv
    <2> QED  BY <2>1, <2>3, <2>4
  <1> QED  BY <1>1, AccountInvariant, PTL

\* A fact of an order that is not closed short.
LEMMA FactIsAdmissible ==
    ASSUME AccountInv, NEW f \in ToSet(tape), ~ ClosedShort(f.order) PROVE Admissible(f)
  <1>1. TapeInv /\ ReadInv /\ TableInv
    BY DEF AccountInv
  <1>2. PICK o : o = f.order
    OBVIOUS
  <1> DEFINE row == orders[Client[o]]
  <1>3. /\ o \in Venue /\ RowKey(o) = Client[o] /\ Holders(orders, o) \subseteq {Client[o]}
        /\ Client[o] \in Keys
    BY <1>1, <1>2, TapeFacts, OwnKey, PlanTyped
  <1>4. row # NoRow /\ row.status \in VenueTerminal => ~ Short(o)
    <2>1. row # NoRow /\ row.status \in VenueTerminal => row.oid = o
      BY <1>1, <1>3, RowTyped DEF Says
    <2> QED  BY <1>2, <1>3, <2>1 DEF ClosedShort, Short, Holders
  <1>5. baseline # None /\ o \in baseline.covered => f.at <= baseline.at
    <2> SUFFICES ASSUME NEW b, b = baseline, b # None, o \in b.covered PROVE f.at <= b.at
      OBVIOUS
    <2>1. \A i \in DOMAIN tape : tape[i].order = o => tape[i].at <= b.at
      BY <1>4 DEF AccountInv, BoundInv, Bound
    <2> QED  BY <1>2, <2>1 DEF ToSet
  <1>6. /\ Filled(o, Done(o)) \in Nat /\ Filled(o, Total(o)) \in Nat
        /\ Filled(o, Done(o)) <= Filled(o, Total(o))
        /\ Asks(o).quantity = Filled(o, Total(o)) /\ Quantity[Asks(o)] = Filled(o, Total(o))
    <2>1. Done(o) \in 0..Total(o) /\ Total(o) \in 0..Total(o) /\ Done(o) <= Total(o)
      BY <1>1, <1>3, PlanTyped DEF TapeInv
    <2> QED  BY <1>3, <2>1, FilledTyped, FilledOrder, AsksTyped
  <1>7. Identified(f) \in Nat /\ Identified(f) <= Filled(o, Done(o))
    <2>1. FillsOf(o) \cup {f} \in SUBSET ToSet(tape) /\ \A g \in FillsOf(o) \cup {f} : g.order = o
      BY <1>1, <1>2 DEF ReadInv, FillsOf
    <2> QED  BY <1>1, <1>2, <1>3, <2>1, FactsAddUp DEF Identified
  <1>8. row # NoRow /\ row.intent => Identified(f) <= Quantity[row.pay]
    BY <1>1, <1>3, <1>6, <1>7, RowTyped
  <1>9. Advances(f) => row.status \notin VenueTerminal /\ row # NoRow /\ row.filled \in Nat
                       /\ Identified(f) > row.filled
    <2> SUFFICES ASSUME Advances(f)
                 PROVE  row.status \notin VenueTerminal /\ row # NoRow /\ row.filled \in Nat
                        /\ Identified(f) > row.filled
      OBVIOUS
    <2>1. row # NoRow /\ Identified(f) > row.filled
      BY <1>2, <1>3 DEF Advances
    <2>2. Says(o, row, paid[Client[o]]) /\ row.filled \in Nat
      BY <1>1, <1>3, <2>1, RowTyped
    <2>3. row.status = "CANCELLED" => row.filled = Filled(o, Done(o))
      BY <2>2 DEF Says
    <2>4. row.status = "FILLED" => row.filled >= Filled(o, Total(o))
      BY <1>4, <1>6, <2>1, <2>2 DEF Short, VenueTerminal
    <2>5. row.status # "CANCELLED" /\ row.status # "FILLED"
      BY <1>6, <1>7, <2>1, <2>2, <2>3, <2>4
    <2> QED  BY <2>1, <2>2, <2>5 DEF Says
  <1>10. Advances(f) => CanUpsert(orders, Client[o], FactReceipt(f))
    <2> SUFFICES ASSUME Advances(f) PROVE CanUpsert(orders, Client[o], FactReceipt(f))
      OBVIOUS
    <2>1. PICK r : r = FactReceipt(f)
      OBVIOUS
    <2>2. /\ r.oid = o /\ r.filled = Identified(f) /\ r.pay = row.pay
          /\ r.status = "FILLED" => Identified(f) = Quantity[row.pay]
      BY <1>2, <1>3, <2>1 DEF FactReceipt
    <2>3. CanPreserve(row, r)
      BY <1>7, <1>8, <1>9, <2>2 DEF CanPreserve, AgreesWithIntent
    <2>4. Holders(orders, r.oid) \subseteq {Client[o]}
      BY <1>3, <2>2
    <2> QED  BY <2>1, <2>3, <2>4 DEF CanUpsert
  <1> QED  BY <1>2, <1>3, <1>5, <1>8, <1>9, <1>10 DEF Admissible

\* The order of a fact has a row that the fact can be attributed to, or one that takes
\* the venue's present receipt.
LEMMA OrderIsReachable ==
    ASSUME AccountInv, NEW o \in Venue
    PROVE  \/ Attributable(RowKey(o), o)
           \/ CanUpsert(orders, Client[o], Receipt(Latest(o)))
  <1> DEFINE row == orders[Client[o]]
  <1>1. /\ TapeInv /\ TableInv /\ RowKey(o) = Client[o]
        /\ Holders(orders, o) \subseteq {Client[o]}
    BY OwnKey DEF AccountInv
  <1>2. CASE row = NoRow \/ row.oid = o
    BY <1>1, <1>2 DEF Attributable
  <1>3. CASE row # NoRow /\ row.oid # o
    <2>1. /\ row.oid = Client[o] /\ row.filled = 0 /\ row.status \in {"PENDING", "FAILED"}
          /\ row.intent => row.pay = Asks(o)
      BY <1>1, <1>3, RowTyped DEF Says
    <2>2. CASE row.status = "PENDING"
      BY <1>1, <2>1, <2>2 DEF Attributable
    <2>3. CASE row.status = "FAILED"
      <3>1. PICK r : r = Receipt(Latest(o))
        OBVIOUS
      <3>2. /\ r.oid = o /\ r.filled = Filled(o, Done(o)) /\ r.pay = Asks(o)
            /\ r.status = "FILLED" => Done(o) = Total(o)
        BY <3>1 DEF Receipt, Latest, Over, Final, Total
      <3>3. /\ r.filled \in Nat /\ r.filled <= Quantity[Asks(o)]
            /\ r.status = "FILLED" => r.filled = Quantity[Asks(o)]
        <4>1. Done(o) \in 0..Total(o) /\ Total(o) \in 0..Total(o) /\ Done(o) <= Total(o)
          BY <1>1, PlanTyped DEF TapeInv
        <4> QED  BY <3>2, <4>1, FilledTyped, FilledOrder, AsksTyped
      <3>4. CanPreserve(row, r)
        BY <2>1, <2>3, <3>2, <3>3 DEF CanPreserve, AgreesWithIntent, VenueTerminal
      <3>5. Holders(orders, r.oid) \subseteq {Client[o]}
        BY <1>1, <3>2
      <3> QED  BY <3>1, <3>4, <3>5 DEF CanUpsert
    <2> QED  BY <2>1, <2>2, <2>3
  <1> QED  BY <1>2, <1>3

\* No execution is locked out of the facts, unless its order is closed short
\* (record_fill and the backfill that calls it).
THEOREM FactsCanBeCompleted == AccountSpec => []NoFillIsLockedOut
  <1>1. ASSUME AccountInv PROVE NoFillIsLockedOut
    <2> SUFFICES ASSUME \A o \in Venue : ~ ClosedShort(o), NEW f \in ToSet(tape) \ facts
                 PROVE  /\ Admissible(f)
                        /\ \/ Attributable(RowKey(f.order), f.order)
                           \/ CanUpsert(orders, Client[f.order], Receipt(Latest(f.order)))
      BY DEF NoFillIsLockedOut
    <2>1. f.order \in Venue
      BY <1>1, TapeFacts DEF AccountInv
    <2> QED  BY <1>1, <2>1, FactIsAdmissible, OrderIsReachable
  <1> QED  BY <1>1, AccountInvariant, PTL

-----------------------------------------------------------------------------
(* Positions.                                                              *)

Position == [quantity: Int, entry: Nat, realized: Int]

\* What a fact says.
LEMMA FactTyped ==
    ASSUME NEW f \in Facts
    PROVE  /\ f.order \in Venue /\ f.n \in 1..Total(f.order) /\ f.at \in 0..MaxTime
           /\ SizeOf(f) \in Nat \ {0} /\ PriceOf(f) \in Nat /\ SizeOf(f) * PriceOf(f) \in Nat
           /\ Side[f.order] \in {"buy", "sell"}
  <1>1. PICK o \in Venue : f \in [order: {o}, n: 1..Len(Plan[o]), at: 0..MaxTime]
    BY DEF Facts
  <1>2. f.order \in Venue /\ f.n \in 1..Total(f.order) /\ f.at \in 0..MaxTime
    BY <1>1 DEF Total
  <1>3. Plan[f.order] \in Seq([size: Nat \ {0}, price: Nat])
    BY <1>2, VenueAssumption
  <1>4. Plan[f.order][f.n] \in [size: Nat \ {0}, price: Nat]
    BY <1>2, <1>3, ElementOf DEF Total
  <1>5. SizeOf(f) \in Nat \ {0} /\ PriceOf(f) \in Nat
    BY <1>4 DEF SizeOf, PriceOf
  <1>6. SizeOf(f) * PriceOf(f) \in Nat
    BY <1>5
  <1> QED  BY <1>2, <1>5, <1>6, VenueAssumption

\* A quotient without remainder.
LEMMA Averaged ==
    ASSUME NEW c \in Nat, NEW d \in Nat \ {0}
    PROVE  c \div d \in Nat /\ (c % d = 0 => (c \div d) * d = c)
  OBVIOUS

LEMMA AverageTyped ==
    ASSUME NEW p \in Position, NEW f \in Facts
    PROVE  /\ Absolute(p.quantity) \in Nat
           /\ Cost(p, f) \in Nat /\ Units(p, f) \in Nat \ {0}
           /\ Cost(p, f) \div Units(p, f) \in Nat
  <1>1. p.quantity \in Int /\ p.entry \in Nat
    BY DEF Position
  <1>2. Absolute(p.quantity) \in Nat
    BY <1>1 DEF Absolute
  <1>3. Absolute(p.quantity) * p.entry \in Nat
    BY <1>1, <1>2
  <1>4. Cost(p, f) \in Nat /\ Units(p, f) \in Nat \ {0}
    BY <1>2, <1>3, FactTyped DEF Cost, Units
  <1> QED  BY <1>2, <1>4, Averaged

\* An execution leads from a position to a position.
LEMMA AppliedTyped ==
    ASSUME NEW p \in Position, NEW f \in Facts
    PROVE  Applied(p, f) \in Position
  <1> DEFINE held == Absolute(p.quantity)
             closed == IF SizeOf(f) < held THEN SizeOf(f) ELSE held
             long == IF p.quantity > 0 THEN 1 ELSE -1
  <1>1. /\ p.quantity \in Int /\ p.entry \in Nat /\ p.realized \in Int
        /\ SizeOf(f) \in Nat /\ PriceOf(f) \in Nat
    BY FactTyped DEF Position
  <1>2. p.quantity + Signed(f) \in Int
    BY <1>1 DEF Signed
  <1>3. held \in Nat
    BY AverageTyped
  <1>4. closed \in Int /\ PriceOf(f) - p.entry \in Int /\ long \in Int
    BY <1>1, <1>3
  <1>5. closed * (PriceOf(f) - p.entry) \in Int
    BY <1>4
  <1>6. closed * (PriceOf(f) - p.entry) * long \in Int
    BY <1>4, <1>5
  <1>7. p.realized + closed * (PriceOf(f) - p.entry) * long \in Int
    BY <1>1, <1>6
  <1>8. Cost(p, f) \div Units(p, f) \in Nat
    BY AverageTyped
  <1>9. 0 \in Nat
    OBVIOUS
  <1> QED  BY <1>1, <1>2, <1>7, <1>8, <1>9 DEF Applied, Position

\* These are the positions between the fills of s.
Replays(p, s, h) == h = [n \in 0..Len(s) |-> IF n = 0 THEN p ELSE Applied(h[n - 1], s[n])]

\* There are such positions, and Positions gives them.
LEMMA PositionsDefined ==
    ASSUME NEW p \in Position, NEW s \in Seq(Facts)
    PROVE  /\ Positions(p, s) \in [0..Len(s) -> Position] /\ Positions(p, s)[0] = p
           /\ \A n \in 1..Len(s) : Positions(p, s)[n] = Applied(Positions(p, s)[n - 1], s[n])
  <1> DEFINE Upto(m, h) == h[0] = p /\ \A n \in 1..m : h[n] = Applied(h[n - 1], s[n])
             A == {m \in Nat : m <= Len(s) => \E h \in [0..m -> Position] : Upto(m, h)}
  <1>1. 0 \in A
    <2>1. [n \in 0..0 |-> p] \in [0..0 -> Position] /\ Upto(0, [n \in 0..0 |-> p])
      OBVIOUS
    <2> QED  BY <2>1
  <1>2. ASSUME NEW m \in Nat, m \in A PROVE m + 1 \in A
    <2> SUFFICES ASSUME m + 1 <= Len(s)
                 PROVE  \E h \in [0..(m + 1) -> Position] : Upto(m + 1, h)
      OBVIOUS
    <2>1. PICK g \in [0..m -> Position] : Upto(m, g)
      BY <1>2
    <2>2. PICK q \in Position : q = Applied(g[m], s[m + 1])
      <3>1. s[m + 1] \in Facts /\ g[m] \in Position
        BY ElementOf
      <3> QED  BY <3>1, AppliedTyped
    <2> DEFINE h == [n \in 0..(m + 1) |-> IF n = m + 1 THEN q ELSE g[n]]
    <2>3. h \in [0..(m + 1) -> Position]
      OBVIOUS
    <2>4. /\ h[m + 1] = q /\ \A n \in 0..m : h[n] = g[n]
      OBVIOUS
    <2>5. \A n \in 1..(m + 1) : n \in 1..m \/ n = m + 1
      OBVIOUS
    <2>6. \A n \in 1..m : n \in 0..m /\ n - 1 \in 0..m
      OBVIOUS
    <2> HIDE DEF h
    <2>7. Upto(m + 1, h)
      BY <2>1, <2>2, <2>4, <2>5, <2>6
    <2> QED  BY <2>3, <2>7
  <1>3. Len(s) \in A
    <2> HIDE DEF A
    <2> QED  BY <1>1, <1>2, NatSetInduction
  <1>4. PICK h \in [0..Len(s) -> Position] : Upto(Len(s), h)
    BY <1>3
  <1>5. Replays(p, s, h)
    BY <1>4 DEF Replays
  <1>6. Positions(p, s) = CHOOSE g : Replays(p, s, g)
    BY DEF Positions, Replays
  <1>7. Replays(p, s, Positions(p, s))
    BY <1>5, <1>6
  <1> DEFINE at == Positions(p, s)
  <1> HIDE DEF at
  <1>8. at = [n \in 0..Len(s) |-> IF n = 0 THEN p ELSE Applied(at[n - 1], s[n])]
    BY <1>7 DEF Replays, at
  <1>9. at[0] = p /\ \A n \in 1..Len(s) : at[n] = Applied(at[n - 1], s[n])
    BY <1>8
  <1>10. \A n \in Nat : n \in {m \in Nat : m <= Len(s) => at[m] \in Position}
    <2> DEFINE B == {m \in Nat : m <= Len(s) => at[m] \in Position}
    <2>1. 0 \in B
      BY <1>9
    <2>2. ASSUME NEW m \in Nat, m \in B PROVE m + 1 \in B
      <3> SUFFICES ASSUME m + 1 <= Len(s) PROVE at[m + 1] \in Position
        OBVIOUS
      <3>1. at[m] \in Position /\ s[m + 1] \in Facts /\ at[m + 1] = Applied(at[m], s[m + 1])
        BY <1>9, <2>2, ElementOf
      <3> QED  BY <3>1, AppliedTyped
    <2> HIDE DEF B
    <2>3. \A n \in Nat : n \in B
      BY <2>1, <2>2, NatSetInduction
    <2> QED  BY <2>3 DEF B
  <1>11. at \in [0..Len(s) -> Position]
    BY <1>8, <1>10
  <1> QED  BY <1>9, <1>11 DEF at

-----------------------------------------------------------------------------
(* Sums over executions.                                                   *)

\* An execution adds its size and its value.
LEMMA FactAdded ==
    ASSUME NEW S \in SUBSET Facts, IsFiniteSet(S), NEW f \in Facts, f \notin S
    PROVE  /\ SumOf(S) \in Nat /\ ValueOf(S) \in Nat
           /\ SumOf(S \cup {f}) = SumOf(S) + SizeOf(f)
           /\ ValueOf(S \cup {f}) = ValueOf(S) + SizeOf(f) * PriceOf(f)
  <1> DEFINE size(V) == [g \in V |-> SizeOf(g)]
             value(V) == [g \in V |-> SizeOf(g) * PriceOf(g)]
  <1>0. PICK T : T = S \cup {f}
    OBVIOUS
  <1>1. /\ \A g \in S : size(S)[g] \in Nat /\ size(T)[g] = size(S)[g]
        /\ \A g \in S : value(S)[g] \in Nat /\ value(T)[g] = value(S)[g]
        /\ \A g \in T : size(T)[g] \in Nat /\ value(T)[g] \in Nat
        /\ size(T)[f] = SizeOf(f) /\ value(T)[f] = SizeOf(f) * PriceOf(f)
    BY <1>0, FactTyped
  <1>2. IsFiniteSet(T) /\ T \ {f} = S /\ f \in T
    BY <1>0, FS_AddElement
  <1>3. SumOf(S) = SumFunctionOnSet(size(S), S) /\ SumOf(T) = SumFunctionOnSet(size(T), T)
    BY DEF SumOf
  <1>4. /\ ValueOf(S) = SumFunctionOnSet(value(S), S)
        /\ ValueOf(T) = SumFunctionOnSet(value(T), T)
    BY DEF ValueOf
  <1> HIDE DEF size, value
  <1>5. SumFunctionOnSet(size(T), T) = size(T)[f] + SumFunctionOnSet(size(T), S)
    BY <1>1, <1>2, SumSplit
  <1>6. SumFunctionOnSet(value(T), T) = value(T)[f] + SumFunctionOnSet(value(T), S)
    BY <1>1, <1>2, SumSplit
  <1>7. SumFunctionOnSet(size(T), S) = SumFunctionOnSet(size(S), S)
    BY <1>1, SumEqual
  <1>8. SumFunctionOnSet(value(T), S) = SumFunctionOnSet(value(S), S)
    BY <1>1, SumEqual
  <1>9. SumFunctionOnSet(size(S), S) \in Nat /\ SumFunctionOnSet(value(S), S) \in Nat
    BY <1>1, SumType
  <1>10. SizeOf(f) \in Nat /\ SizeOf(f) * PriceOf(f) \in Nat
    BY FactTyped
  <1>11. /\ SumOf(T) = SumOf(S) + SizeOf(f)
         /\ ValueOf(T) = ValueOf(S) + SizeOf(f) * PriceOf(f)
    BY <1>1, <1>3, <1>4, <1>5, <1>6, <1>7, <1>8, <1>9, <1>10
  <1>12. SumOf(S) \in Nat /\ ValueOf(S) \in Nat
    BY <1>3, <1>4, <1>9
  <1> QED  BY <1>0, <1>11, <1>12

LEMMA NoneSum == SumOf({}) = 0 /\ ValueOf({}) = 0
  BY SumOfNone DEF SumOf, ValueOf

LEMMA SumsTyped ==
    ASSUME NEW S \in SUBSET Facts, IsFiniteSet(S)
    PROVE  SumOf(S) \in Nat /\ ValueOf(S) \in Nat
  <1> DEFINE size == [g \in S |-> SizeOf(g)]
             value == [g \in S |-> SizeOf(g) * PriceOf(g)]
  <1>1. \A g \in S : size[g] \in Nat /\ value[g] \in Nat
    BY FactTyped
  <1> HIDE DEF size, value
  <1>2. SumFunctionOnSet(size, S) \in Nat /\ SumFunctionOnSet(value, S) \in Nat
    BY <1>1, SumType
  <1> QED  BY <1>2 DEF SumOf, ValueOf, size, value

LEMMA Scaled ==
    ASSUME NEW a \in Int, NEW b \in Int, NEW c \in Int
    PROVE  a * (b + c) = a * b + a * c /\ a * b = b * a
  OBVIOUS

\* Fills at one price are worth that price each.
LEMMA OnePrice ==
    ASSUME NEW S \in SUBSET Facts, IsFiniteSet(S), NEW price \in Nat,
           \A f \in S : PriceOf(f) = price
    PROVE  ValueOf(S) = price * SumOf(S)
  <1> DEFINE A == {T \in SUBSET S : ValueOf(T) = price * SumOf(T)}
  <1>1. ASSUME NEW T \in SUBSET S, \A U \in SUBSET T : U # T => U \in A PROVE T \in A
    <2>1. CASE T = {}
      BY <2>1, NoneSum
    <2>2. CASE T # {}
      <3>1. PICK f \in T : TRUE
        BY <2>2
      <3>2. PICK U : U = T \ {f}
        OBVIOUS
      <3>3. /\ U \in SUBSET Facts /\ IsFiniteSet(U) /\ f \in Facts /\ f \notin U /\ T = U \cup {f}
            /\ PriceOf(f) = price /\ SizeOf(f) \in Nat
        BY <3>1, <3>2, FS_Subset, FactTyped
      <3>4. ValueOf(U) = price * SumOf(U)
        BY <1>1, <3>1, <3>2
      <3>5. /\ SumOf(U) \in Nat /\ SumOf(T) = SumOf(U) + SizeOf(f)
            /\ ValueOf(T) = ValueOf(U) + SizeOf(f) * price
        <4>1. /\ SumOf(U) \in Nat /\ SumOf(U \cup {f}) = SumOf(U) + SizeOf(f)
              /\ ValueOf(U \cup {f}) = ValueOf(U) + SizeOf(f) * PriceOf(f)
          BY <3>3, FactAdded
        <4> QED  BY <3>3, <4>1
      <3>6. price * (SumOf(U) + SizeOf(f)) = price * SumOf(U) + SizeOf(f) * price
        BY <3>3, <3>5, Scaled
      <3>7. ValueOf(T) = price * SumOf(T)
        BY <3>4, <3>5, <3>6
      <3> QED  BY <3>7
    <2> QED  BY <2>1, <2>2
  <1>2. S \in A
    <2> HIDE DEF A
    <2> QED  BY <1>1, SubsetInduction
  <1> QED  BY <1>2

-----------------------------------------------------------------------------
(* Executions of one side.                                                 *)

\* An execution of this side adds to p; the sign of p; what n on this side add.
Grows(p, side) == p.quantity = 0 \/ (p.quantity > 0 <=> side = "buy")
Long(p) == IF p.quantity > 0 THEN 1 ELSE -1
Step(side, n) == IF side = "buy" THEN n ELSE -n

\* Where the executions of H, all of one side, lead from p, in whatever order: a position
\* that grows is worth what they add; one that shrinks keeps its price, and turns over
\* at the one price there then is.
After(p, side, H, r) ==
    LET held == Absolute(p.quantity)
    IN  /\ r.quantity = p.quantity + Step(side, SumOf(H))
        /\ Grows(p, side) =>
               /\ r.realized = p.realized
               /\ Absolute(r.quantity) * r.entry = held * p.entry + ValueOf(H)
        /\ ~ Grows(p, side) /\ SumOf(H) <= held =>
               /\ r.realized = p.realized + (ValueOf(H) - SumOf(H) * p.entry) * Long(p)
               /\ r.entry = IF SumOf(H) = held THEN 0 ELSE p.entry
        /\ ~ Grows(p, side) /\ SumOf(H) > held =>
               /\ r.realized = p.realized + held * (r.entry - p.entry) * Long(p)
               /\ \A f \in H : PriceOf(f) = r.entry

\* Nothing that could be ambiguous about executions of one side.
Plain(p, side, H) ==
    ~ Grows(p, side) /\ SumOf(H) > Absolute(p.quantity) =>
        \E price \in Nat : \A f \in H : PriceOf(f) = price

LEMMA AfterNone ==
    ASSUME NEW p \in Position, NEW side \in {"buy", "sell"}
    PROVE  After(p, side, {}, p)
  <1>1. p.quantity \in Int /\ p.entry \in Nat /\ p.realized \in Int
    BY DEF Position
  <1>2. Absolute(p.quantity) * p.entry \in Nat
    BY <1>1 DEF Absolute
  <1>3. 0 * p.entry = 0 /\ (0 - 0) * Long(p) = 0
    BY <1>1 DEF Long
  <1>4. p.quantity + Step(side, 0) = p.quantity
    BY <1>1 DEF Step
  <1>5. ~ Grows(p, side) => Absolute(p.quantity) > 0
    BY <1>1 DEF Grows, Absolute
  <1>6. SumOf({}) = 0 /\ ValueOf({}) = 0 /\ Absolute(p.quantity) \in Nat
    BY <1>1, NoneSum DEF Absolute
  <1>7. Absolute(p.quantity) * p.entry + 0 = Absolute(p.quantity) * p.entry
    BY <1>2
  <1>8. p.realized + (ValueOf({}) - SumOf({}) * p.entry) * Long(p) = p.realized
    BY <1>1, <1>3, <1>6
  <1>9. ~ (0 > Absolute(p.quantity))
    BY <1>6
  <1> QED  BY <1>4, <1>5, <1>6, <1>7, <1>8, <1>9 DEF After

\* Sizes and sides of positions on the way, q being held before n was executed.
LEMMA Magnitudes ==
    ASSUME NEW q \in Int, NEW side \in {"buy", "sell"}, NEW n \in Nat, NEW r \in Int,
           r = q + Step(side, n), NEW grows, grows <=> q = 0 \/ (q > 0 <=> side = "buy")
    PROVE  /\ Absolute(q) \in Nat /\ Absolute(r) \in Nat
           /\ grows => /\ Absolute(r) = Absolute(q) + n
                       /\ r = 0 \/ (r > 0 <=> side = "buy")
           /\ ~ grows /\ n < Absolute(q) =>
                 /\ Absolute(r) = Absolute(q) - n /\ (r > 0 <=> q > 0) /\ r # 0
                 /\ ~ (r > 0 <=> side = "buy")
           /\ ~ grows /\ n = Absolute(q) => r = 0
           /\ ~ grows /\ n > Absolute(q) =>
                 /\ Absolute(r) = n - Absolute(q) /\ (r > 0 <=> side = "buy")
  BY DEF Absolute, Step

\* The average of fills at one price is that price.
LEMMA SamePrice ==
    ASSUME NEW a \in Nat, NEW z \in Nat \ {0}, NEW c \in Nat, NEW x \in Nat,
           x * (a + z) = a * c + z * c
    PROVE  x = c
  <1>1. PICK d \in Nat \ {0} : d = a + z
    OBVIOUS
  <1>2. a * c + z * c = d * c
    BY <1>1
  <1>3. x * d = d * c
    BY <1>1, <1>2
  <1>4. (x - c) * d = 0
    BY <1>1, <1>3
  <1>5. x - c = 0
    BY <1>1, <1>4
  <1> QED  BY <1>5

\* One more execution, which rounds no average.
LEMMA AfterOneMore ==
    ASSUME NEW p \in Position, NEW r \in Position, NEW side \in {"buy", "sell"},
           NEW H \in SUBSET Facts, IsFiniteSet(H), NEW f \in Facts, f \notin H,
           Side[f.order] = side, After(p, side, H, r), Plain(p, side, H \cup {f}),
           Adds(r, f) => Cost(r, f) % Units(r, f) = 0
    PROVE  After(p, side, H \cup {f}, Applied(r, f))
  <1>1. PICK q \in Int, e \in Nat, w \in Int, h \in Nat :
            q = p.quantity /\ e = p.entry /\ w = p.realized /\ h = Absolute(p.quantity)
    BY AverageTyped DEF Position
  <1>2. PICK rq \in Int, re \in Nat, rw \in Int, rh \in Nat :
            /\ rq = r.quantity /\ re = r.entry /\ rw = r.realized /\ rh = Absolute(r.quantity)
    BY AverageTyped DEF Position
  <1>3. PICK z \in Nat \ {0}, c \in Nat : z = SizeOf(f) /\ c = PriceOf(f)
    BY FactTyped
  <1>4. PICK m \in Nat, v \in Nat : m = SumOf(H) /\ v = ValueOf(H)
    BY SumsTyped
  <1>5. PICK T : T = H \cup {f}
    OBVIOUS
  <1>6. SumOf(T) = m + z /\ ValueOf(T) = v + z * c /\ T \in SUBSET Facts /\ IsFiniteSet(T)
    BY <1>3, <1>4, <1>5, FactAdded, FS_AddElement
  <1>7. PICK x : x = Applied(r, f)
    OBVIOUS
  <1>8. x \in Position
    BY <1>7, AppliedTyped
  <1>9. PICK xq \in Int, xe \in Nat, xw \in Int :
            xq = x.quantity /\ xe = x.entry /\ xw = x.realized
    BY <1>8 DEF Position
  <1>10. rq = q + Step(side, m) /\ xq = rq + Step(side, z) /\ xq = q + Step(side, m + z)
    <2>1. rq = q + Step(side, m)
      BY <1>1, <1>2, <1>4 DEF After
    <2>2. xq = rq + Step(side, z)
      BY <1>2, <1>3, <1>7, <1>9 DEF Applied, Signed, Step
    <2> QED  BY <2>1, <2>2 DEF Step
  <1>11. /\ (Grows(p, side) <=> q = 0 \/ (q > 0 <=> side = "buy"))
         /\ (Adds(r, f) <=> rq = 0 \/ (rq > 0 <=> side = "buy"))
    BY <1>1, <1>2 DEF Grows, Adds
  <1>12. /\ Grows(p, side) => rh = h + m /\ Adds(r, f)
         /\ ~ Grows(p, side) /\ m < h => rh = h - m /\ ~ Adds(r, f) /\ (rq > 0 <=> q > 0)
         /\ ~ Grows(p, side) /\ m = h => rh = 0 /\ Adds(r, f)
         /\ ~ Grows(p, side) /\ m > h => rh = m - h /\ Adds(r, f)
    <2>1. PICK g : g <=> Grows(p, side)
      OBVIOUS
    <2>2. h = Absolute(q) /\ rh = Absolute(rq)
      BY <1>1, <1>2
    <2>3. rq = 0 => rh = 0
      BY <2>2 DEF Absolute
    <2> QED  BY <1>10, <1>11, <2>1, <2>2, <2>3, Magnitudes
  <1>13. Adds(r, f) => /\ xe * (rh + z) = rh * re + z * c /\ xw = rw
                       /\ Absolute(xq) = rh + z
    <2> SUFFICES ASSUME Adds(r, f)
                 PROVE  xe * (rh + z) = rh * re + z * c /\ xw = rw /\ Absolute(xq) = rh + z
      OBVIOUS
    <2>1. Cost(r, f) = rh * re + z * c /\ Units(r, f) = rh + z
      BY <1>2, <1>3 DEF Cost, Units
    <2>2. xe = Cost(r, f) \div Units(r, f) /\ xw = rw
      BY <1>2, <1>7, <1>9 DEF Applied
    <2>3. Cost(r, f) \in Nat /\ Units(r, f) \in Nat \ {0} /\ Cost(r, f) % Units(r, f) = 0
      BY AverageTyped
    <2>4. xe * Units(r, f) = Cost(r, f)
      BY <2>2, <2>3, Averaged
    <2>5. Absolute(xq) = rh + z
      <3>1. rq = 0 \/ (rq > 0 <=> side = "buy")
        BY <1>11
      <3>2. rh = Absolute(rq)
        BY <1>2
      <3> QED  BY <1>10, <3>1, <3>2 DEF Absolute, Step
    <2> QED  BY <2>1, <2>2, <2>4, <2>5
  <1>14. CASE Grows(p, side)
    <2>1. rw = w /\ rh * re = h * e + v
      BY <1>1, <1>2, <1>4, <1>14 DEF After
    <2>2. xw = w /\ xe * (rh + z) = h * e + v + z * c /\ Absolute(xq) = rh + z
      BY <1>12, <1>13, <1>14, <2>1
    <2>3. Absolute(xq) * xe = h * e + (v + z * c)
      <3>1. PICK a \in Int, b \in Int : a = h * e /\ b = z * c
        OBVIOUS
      <3>2. xe * (rh + z) = a + (v + b)
        BY <2>2, <3>1
      <3>3. (rh + z) * xe = xe * (rh + z)
        OBVIOUS
      <3> QED  BY <2>2, <3>1, <3>2, <3>3
    <2>4. After(p, side, T, x)
      BY <1>1, <1>6, <1>9, <1>10, <1>14, <2>2, <2>3 DEF After
    <2> QED  BY <1>5, <1>7, <2>4
  <1>15. CASE ~ Grows(p, side)
    <2>0. /\ v \in Int /\ m \in Int /\ e \in Int /\ z \in Int /\ c \in Int /\ h \in Int
           /\ w \in Int
      OBVIOUS
    <2>1. PICK l \in Int : l = Long(p)
      BY DEF Long
    <2>2. m < h => /\ re = e /\ rw = w + (v - m * e) * l
                   /\ xw = rw + (IF z < rh THEN z ELSE rh) * (c - re) * l
                   /\ xe = IF z > rh THEN c ELSE IF z = rh THEN 0 ELSE re
      <3> SUFFICES ASSUME m < h
                   PROVE  /\ re = e /\ rw = w + (v - m * e) * l
                          /\ xw = rw + (IF z < rh THEN z ELSE rh) * (c - re) * l
                          /\ xe = IF z > rh THEN c ELSE IF z = rh THEN 0 ELSE re
        OBVIOUS
      <3>1. re = e /\ rw = w + (v - m * e) * l
        BY <1>1, <1>2, <1>4, <1>15, <2>1 DEF After
      <3>2. ~ Adds(r, f) /\ l = Long(r)
        BY <1>1, <1>2, <1>12, <1>15, <2>1 DEF Long
      <3>3. xw = rw + (IF z < rh THEN z ELSE rh) * (c - re) * l
        BY <1>2, <1>3, <1>7, <1>9, <3>2 DEF Applied, Long
      <3>4. xe = IF z > rh THEN c ELSE IF z = rh THEN 0 ELSE re
        BY <1>2, <1>3, <1>7, <1>9, <3>2 DEF Applied
      <3> QED  BY <3>1, <3>3, <3>4
    \* With a turn, there is one price.
    <2>3. m + z > h => /\ \A g \in T : PriceOf(g) = c
                       /\ v = c * m
      <3> SUFFICES ASSUME m + z > h PROVE (\A g \in T : PriceOf(g) = c) /\ v = c * m
        OBVIOUS
      <3>1. PICK price \in Nat : \A g \in T : PriceOf(g) = price
        BY <1>1, <1>5, <1>6, <1>15 DEF Plain
      <3>2. price = c
        BY <1>3, <1>5, <3>1
      <3>3. \A g \in H : PriceOf(g) = c
        BY <1>5, <3>1, <3>2
      <3> QED  BY <1>4, <3>1, <3>2, <3>3, OnePrice
    <2>4. CASE m < h /\ m + z <= h
      <3>1. /\ xw = w + (v - m * e) * l + z * (c - e) * l
            /\ xe = IF m + z = h THEN 0 ELSE e
        BY <1>12, <1>15, <2>2, <2>4
      <3>2. xw = w + ((v + z * c) - (m + z) * e) * l
        <4>1. w + (v - m * e) * l + z * (c - e) * l = w + ((v + z * c) - (m + z) * e) * l
          BY <2>0
        <4> QED  BY <3>1, <4>1, Zenon
      <3> QED  BY <1>1, <1>5, <1>6, <1>7, <1>9, <1>10, <1>15, <2>1, <2>4, <3>1, <3>2 DEF After
    <2>5. ASSUME m + z > h, xe = c, xw = w + h * (c - e) * l PROVE After(p, side, T, x)
      BY <1>1, <1>6, <1>9, <1>10, <1>15, <2>1, <2>3, <2>5 DEF After
    <2>6. CASE m < h /\ m + z > h
      <3>1. xw = w + (c * m - m * e) * l + (h - m) * (c - e) * l /\ xe = c
        BY <1>12, <1>15, <2>2, <2>3, <2>6
      <3>2. xw = w + h * (c - e) * l
        <4>1. w + (c * m - m * e) * l + (h - m) * (c - e) * l = w + h * (c - e) * l
          BY <2>0
        <4> QED  BY <3>1, <4>1, Zenon
      <3> QED  BY <1>5, <1>7, <2>5, <2>6, <3>1, <3>2
    <2>7. CASE m = h
      <3>1. rw = w + (v - m * e) * l /\ rh = 0 /\ Adds(r, f)
        BY <1>1, <1>2, <1>4, <1>12, <1>15, <2>1, <2>7 DEF After
      <3>2. xe * (0 + z) = 0 * c + z * c /\ xw = rw
        BY <1>13, <3>1
      <3>3. xe = c
        BY <3>2, SamePrice
      <3>4. m + z > h /\ xw = w + (c * m - m * e) * l + (h - m) * (c - e) * l
        BY <2>3, <2>7, <3>1, <3>2
      <3>5. xw = w + h * (c - e) * l
        <4>1. w + (c * m - m * e) * l + (h - m) * (c - e) * l = w + h * (c - e) * l
          BY <2>0
        <4> QED  BY <3>4, <4>1, Zenon
      <3> QED  BY <1>5, <1>7, <2>5, <3>3, <3>4, <3>5
    <2>8. CASE m > h
      <3>1. rw = w + h * (re - e) * l /\ (\A g \in H : PriceOf(g) = re)
        BY <1>1, <1>2, <1>4, <1>15, <2>1, <2>8 DEF After
      <3>2. H # {}
        BY <1>4, <2>8, NoneSum
      <3>3. re = c /\ m + z > h
        BY <1>5, <2>3, <2>8, <3>1, <3>2
      <3>4. xe * (rh + z) = rh * c + z * c /\ xw = rw
        BY <1>12, <1>13, <1>15, <2>8, <3>3
      <3>5. xe = c
        BY <3>4, SamePrice
      <3> QED  BY <1>5, <1>7, <2>5, <3>1, <3>3, <3>4, <3>5
    <2> QED  BY <2>4, <2>6, <2>7, <2>8
  <1> QED  BY <1>14, <1>15

\* A part adds up to no more than the whole.
LEMMA SumsGrow ==
    ASSUME NEW H \in SUBSET Facts, IsFiniteSet(H), NEW T \in SUBSET H
    PROVE  /\ SumOf(T) \in Nat /\ SumOf(H) \in Nat /\ SumOf(T) <= SumOf(H)
           /\ H # {} => SumOf(H) > 0
  <1> DEFINE size(V) == [g \in V |-> SizeOf(g)]
  <1>1. /\ \A g \in H : size(H)[g] \in Nat
        /\ \A g \in T : size(T)[g] \in Nat /\ size(H)[g] = size(T)[g]
        /\ IsFiniteSet(T)
    BY FactTyped, FS_Subset
  <1>2. SumOf(H) = SumFunctionOnSet(size(H), H) /\ SumOf(T) = SumFunctionOnSet(size(T), T)
    BY DEF SumOf
  <1> HIDE DEF size
  <1>3. SumFunctionOnSet(size(H), T) = SumFunctionOnSet(size(T), T)
    BY <1>1, SumEqual
  <1>4. SumFunctionOnSet(size(H), T) <= SumFunctionOnSet(size(H), H)
    BY <1>1, SumOfPart
  <1>5. SumOf(T) \in Nat /\ SumOf(H) \in Nat
    BY <1>1, SumsTyped
  <1>6. H # {} => SumOf(H) > 0
    <2> SUFFICES ASSUME NEW f \in H PROVE SumOf(H) > 0
      OBVIOUS
    <2>1. PICK U : U = H \ {f}
      OBVIOUS
    <2>2. U \in SUBSET Facts /\ IsFiniteSet(U) /\ f \in Facts /\ f \notin U /\ H = U \cup {f}
      BY <2>1, FS_Subset
    <2>3. SumOf(U) \in Nat /\ SumOf(H) = SumOf(U) + SizeOf(f) /\ SizeOf(f) \in Nat \ {0}
      BY <2>2, FactAdded, FactTyped
    <2> QED  BY <2>3
  <1> QED  BY <1>2, <1>3, <1>4, <1>5, <1>6

LEMMA PlainPart ==
    ASSUME NEW p \in Position, NEW side, NEW H \in SUBSET Facts, IsFiniteSet(H),
           NEW T \in SUBSET H, Plain(p, side, H)
    PROVE  Plain(p, side, T)
  <1>1. /\ SumOf(T) \in Nat /\ SumOf(H) \in Nat /\ SumOf(T) <= SumOf(H)
        /\ Absolute(p.quantity) \in Nat
    BY SumsGrow DEF Position, Absolute
  <1>2. SumOf(T) > Absolute(p.quantity) => SumOf(H) > Absolute(p.quantity)
    BY <1>1
  <1> QED  BY <1>2 DEF Plain

LEMMA SameFactor ==
    ASSUME NEW a \in Nat, NEW b \in Nat, NEW d \in Nat, d > 0, d * a = d * b
    PROVE  a = b
  <1>1. d * (a - b) = 0
    OBVIOUS
  <1>2. a - b = 0
    BY <1>1
  <1> QED  BY <1>2

LEMMA SamePosition ==
    ASSUME NEW x \in Position, NEW y \in Position, x.quantity = y.quantity,
           x.entry = y.entry, x.realized = y.realized
    PROVE  x = y
  BY DEF Position

\* It is one position to which they lead.
LEMMA AfterIsOne ==
    ASSUME NEW p \in Position, NEW x \in Position, NEW y \in Position,
           NEW side \in {"buy", "sell"}, NEW H \in SUBSET Facts, IsFiniteSet(H), H # {},
           After(p, side, H, x), After(p, side, H, y)
    PROVE  x = y
  <1>1. SumOf(H) \in Nat /\ SumOf(H) > 0
    BY SumsGrow
  <1>2. x.quantity = y.quantity
    BY DEF After
  <1>3. CASE Grows(p, side)
    <2>1. PICK d \in Nat, a \in Nat, b \in Nat :
              d = Absolute(x.quantity) /\ a = x.entry /\ b = y.entry
      BY AverageTyped DEF Position
    <2>2. d * a = d * b /\ x.realized = y.realized
      BY <1>2, <1>3, <2>1 DEF After
    <2>3. d > 0
      <3>1. PICK q \in Int, n \in Nat : q = p.quantity /\ n = SumOf(H)
        BY <1>1 DEF Position
      <3>2. x.quantity = q + Step(side, n) /\ (q = 0 \/ (q > 0 <=> side = "buy")) /\ n > 0
        BY <1>1, <1>3, <3>1 DEF After, Grows
      <3> QED  BY <2>1, <3>2 DEF Absolute, Step
    <2> QED  BY <1>2, <2>1, <2>2, <2>3, SameFactor, SamePosition
  <1>4. CASE ~ Grows(p, side) /\ SumOf(H) <= Absolute(p.quantity)
    BY <1>2, <1>4, SamePosition DEF After
  <1>5. CASE ~ Grows(p, side) /\ ~ (SumOf(H) <= Absolute(p.quantity))
    <2>1. SumOf(H) > Absolute(p.quantity)
      BY <1>1, <1>5 DEF Position, Absolute
    <2>2. x.entry = y.entry
      BY <1>5, <2>1 DEF After
    <2>3. x.realized = y.realized
      BY <1>5, <2>1, <2>2 DEF After
    <2> QED  BY <1>2, <2>2, <2>3, SamePosition
  <1> QED  BY <1>3, <1>4, <1>5

\* The fills from k + 1 to n.
Part(s, k, n) == {s[i] : i \in (k + 1)..n}

LEMMA PartTyped ==
    ASSUME NEW s \in Seq(Facts), NEW k \in 0..Len(s), NEW n \in 0..Len(s)
    PROVE  Part(s, k, n) \in SUBSET Facts /\ IsFiniteSet(Part(s, k, n))
  <1>1. \A i \in (k + 1)..n : i \in 1..Len(s) /\ s[i] \in Facts
    BY ElementOf
  <1>2. IsFiniteSet((k + 1)..n)
    BY FS_Interval
  <1>3. [i \in (k + 1)..n |-> s[i]] \in Surjection((k + 1)..n, Part(s, k, n))
    BY DEF Surjection, Part
  <1> QED  BY <1>1, <1>2, <1>3, FS_Surjection DEF Part

\* Where the executions of one side between k and n lead.
LEMMA Walk ==
    ASSUME NEW p \in Position, NEW s \in Seq(Facts), Exact(p, s),
           \A i, j \in 1..Len(s) : s[i] = s[j] => i = j,
           NEW side \in {"buy", "sell"}, NEW k \in 0..Len(s), NEW n \in k..Len(s),
           \A i \in (k + 1)..n : Side[s[i].order] = side,
           Plain(Positions(p, s)[k], side, Part(s, k, n))
    PROVE  After(Positions(p, s)[k], side, Part(s, k, n), Positions(p, s)[n])
  <1> DEFINE A == {m \in Nat : k + m <= n =>
                       After(Positions(p, s)[k], side, Part(s, k, k + m),
                             Positions(p, s)[k + m])}
  <1>1. /\ k \in Nat /\ n \in 0..Len(s) /\ Len(s) \in Nat
        /\ Positions(p, s) \in [0..Len(s) -> Position]
        /\ \A i \in 1..Len(s) : Positions(p, s)[i] = Applied(Positions(p, s)[i - 1], s[i])
        /\ Positions(p, s)[k] \in Position
    BY PositionsDefined
  <1>2. 0 \in A
    <2>1. Part(s, k, k + 0) = {} /\ k + 0 = k
      BY <1>1 DEF Part
    <2>2. After(Positions(p, s)[k], side, {}, Positions(p, s)[k])
      BY <1>1, AfterNone
    <2> QED  BY <2>1, <2>2
  <1>3. ASSUME NEW m \in Nat, m \in A PROVE m + 1 \in A
    <2> SUFFICES ASSUME k + (m + 1) <= n
                 PROVE  After(Positions(p, s)[k], side, Part(s, k, k + (m + 1)),
                              Positions(p, s)[k + (m + 1)])
      OBVIOUS
    <2>1. PICK j \in 0..Len(s), i \in 1..Len(s) : j = k + m /\ i = k + (m + 1)
      <3>1. k + m \in 0..Len(s) /\ k + (m + 1) \in 1..Len(s)
        BY <1>1
      <3> QED  BY <3>1
    <2>2. i = j + 1 /\ i - 1 = j /\ j <= n /\ i \in (k + 1)..n
      BY <1>1, <2>1
    <2>3. After(Positions(p, s)[k], side, Part(s, k, j), Positions(p, s)[j])
      BY <1>3, <2>1, <2>2
    <2>4. PICK f \in Facts : f = s[i] /\ Side[f.order] = side
      BY <2>2, ElementOf
    <2>5. Part(s, k, i) = Part(s, k, j) \cup {f} /\ f \notin Part(s, k, j)
      <3>1. \A l \in (k + 1)..i : l \in (k + 1)..j \/ l = i
        BY <2>2
      <3>2. \A l \in (k + 1)..j : l \in (k + 1)..i /\ l # i /\ l \in 1..Len(s)
        BY <1>1, <2>1, <2>2
      <3>3. i \in (k + 1)..i
        BY <1>1, <2>1
      <3>4. \A l \in (k + 1)..j : s[l] # f
        BY <2>4, <3>2
      <3>5. Part(s, k, i) \subseteq Part(s, k, j) \cup {f}
        BY <2>4, <3>1 DEF Part
      <3>6. Part(s, k, j) \cup {f} \subseteq Part(s, k, i)
        BY <2>4, <3>2, <3>3 DEF Part
      <3>7. f \notin Part(s, k, j)
        BY <3>4 DEF Part
      <3> QED  BY <3>5, <3>6, <3>7
    <2>6. Plain(Positions(p, s)[k], side, Part(s, k, i))
      <3>1. Part(s, k, i) \in SUBSET Part(s, k, n)
        BY <1>1, <2>2 DEF Part
      <3> QED  BY <1>1, <3>1, PartTyped, PlainPart
    <2>7. Part(s, k, j) \in SUBSET Facts /\ IsFiniteSet(Part(s, k, j))
      BY PartTyped
    <2>8. PICK before \in Position :
              /\ before = Positions(p, s)[j] /\ Positions(p, s)[i] = Applied(before, f)
              /\ Adds(before, f) => Cost(before, f) % Units(before, f) = 0
      BY <1>1, <2>2, <2>4 DEF Exact
    <2>9. After(Positions(p, s)[k], side, Part(s, k, j) \cup {f}, Applied(before, f))
      <3>0. PICK q \in Position : q = Positions(p, s)[k]
        BY <1>1
      <3>1. PICK H : H = Part(s, k, j)
        OBVIOUS
      <3>2. /\ H \in SUBSET Facts /\ IsFiniteSet(H) /\ f \notin H
            /\ After(q, side, H, before) /\ Plain(q, side, H \cup {f})
        BY <2>3, <2>5, <2>6, <2>7, <2>8, <3>0, <3>1
      <3>3. After(q, side, H \cup {f}, Applied(before, f))
        BY <2>4, <2>8, <3>2, AfterOneMore
      <3> QED  BY <3>0, <3>1, <3>3
    <2> QED  BY <2>1, <2>5, <2>8, <2>9
  <1>4. n - k \in A
    <2>1. n - k \in Nat
      BY <1>1
    <2> HIDE DEF A
    <2> QED  BY <1>2, <1>3, <2>1, NatSetInduction
  <1>5. k + (n - k) = n
    BY <1>1
  <1> QED  BY <1>1, <1>4, <1>5

-----------------------------------------------------------------------------
(* Executions of one time.                                                 *)

\* Disjoint sets add up to the sum of both.
LEMMA DisjointSum ==
    ASSUME NEW E \in SUBSET Facts, NEW G \in SUBSET Facts, IsFiniteSet(E), IsFiniteSet(G),
           E \cap G = {}
    PROVE  SumOf(E \cup G) = SumOf(E) + SumOf(G) /\ SumOf(E) \in Nat /\ SumOf(G) \in Nat
  <1> DEFINE A == {T \in SUBSET G : SumOf(E \cup T) = SumOf(E) + SumOf(T)}
  <1>1. SumOf(E) \in Nat /\ SumOf(G) \in Nat
    BY SumsTyped
  <1>2. ASSUME NEW T \in SUBSET G, \A U \in SUBSET T : U # T => U \in A PROVE T \in A
    <2>1. CASE T = {}
      <3>1. E \cup T = E /\ SumOf(T) = 0
        BY <2>1, NoneSum
      <3>2. SumOf(E \cup T) = SumOf(E) + SumOf(T)
        BY <1>1, <3>1
      <3> QED  BY <3>2
    <2>2. CASE T # {}
      <3>1. PICK f \in T : TRUE
        BY <2>2
      <3>2. PICK U, V : U = T \ {f} /\ V = E \cup U
        OBVIOUS
      <3>3. /\ U \in SUBSET Facts /\ IsFiniteSet(U) /\ f \in Facts /\ f \notin U
            /\ T = U \cup {f} /\ V \in SUBSET Facts /\ IsFiniteSet(V) /\ f \notin V
            /\ E \cup T = V \cup {f}
        BY <3>1, <3>2, FS_Subset, FS_Union
      <3>4. SumOf(V) = SumOf(E) + SumOf(U)
        BY <1>2, <3>1, <3>2
      <3>5. SumOf(T) = SumOf(U) + SizeOf(f) /\ SumOf(U) \in Nat /\ SizeOf(f) \in Nat
        BY <3>3, FactAdded, FactTyped
      <3>6. SumOf(V \cup {f}) = SumOf(V) + SizeOf(f)
        BY <3>3, FactAdded
      <3>7. SumOf(E \cup T) = SumOf(V) + SizeOf(f)
        BY <3>3, <3>6, Zenon
      <3>8. SumOf(E \cup T) = SumOf(E) + SumOf(T)
        BY <1>1, <3>4, <3>5, <3>7
      <3> QED  BY <3>8
    <2> QED  BY <2>1, <2>2
  <1>3. G \in A
    <2> HIDE DEF A
    <2> QED  BY <1>2, SubsetInduction
  <1> QED  BY <1>1, <1>3

\* Executions of one side move the position by their sizes.
LEMMA MovedAlong ==
    ASSUME NEW E \in SUBSET Facts, NEW G \in SUBSET Facts, IsFiniteSet(E), IsFiniteSet(G),
           E \cap G = {}, NEW side \in {"buy", "sell"}, \A f \in G : Side[f.order] = side
    PROVE  Moved(E) \in Int /\ Moved(E \cup G) = Moved(E) + Step(side, SumOf(G))
  <1>1. PICK B, S : B = On("buy", E) /\ S = On("sell", E)
    OBVIOUS
  <1>2. /\ B \in SUBSET Facts /\ IsFiniteSet(B) /\ S \in SUBSET Facts /\ IsFiniteSet(S)
        /\ B \cap G = {} /\ S \cap G = {}
    BY <1>1, FS_Subset DEF On
  <1>3. /\ SumOf(B) \in Nat /\ SumOf(S) \in Nat /\ SumOf(G) \in Nat
        /\ SumOf(B \cup G) = SumOf(B) + SumOf(G) /\ SumOf(S \cup G) = SumOf(S) + SumOf(G)
    BY <1>2, DisjointSum
  <1>4. Moved(E) = SumOf(B) - SumOf(S)
    BY <1>1 DEF Moved
  <1>5. CASE side = "buy"
    <2>1. On("buy", E \cup G) = B \cup G /\ On("sell", E \cup G) = S
      BY <1>1, <1>5 DEF On
    <2>2. Moved(E \cup G) = SumOf(B \cup G) - SumOf(S)
      BY <2>1 DEF Moved
    <2> QED  BY <1>3, <1>4, <1>5, <2>2 DEF Step
  <1>6. CASE side = "sell"
    <2>1. On("buy", E \cup G) = B /\ On("sell", E \cup G) = S \cup G
      BY <1>1, <1>6 DEF On
    <2>2. Moved(E \cup G) = SumOf(B) - SumOf(S \cup G)
      BY <2>1 DEF Moved
    <2> QED  BY <1>3, <1>4, <1>6, <2>2 DEF Step
  <1> QED  BY <1>5, <1>6

LEMMA MovedNone == Moved({}) = 0
  <1>1. On("buy", {}) = {} /\ On("sell", {}) = {}
    BY DEF On
  <1> QED  BY <1>1, NoneSum DEF Moved

\* What has at most one element has no two.
LEMMA AtMostOne ==
    ASSUME NEW S, IsFiniteSet(S), ~ (Cardinality(S) > 1), NEW x \in S, NEW y \in S
    PROVE  x = y
  <1> SUFFICES ASSUME x # y PROVE FALSE
    OBVIOUS
  <1>1. IsFiniteSet({x}) /\ Cardinality({x}) = 1
    BY FS_Singleton
  <1>2. {x} \cup {y} \in SUBSET S /\ Cardinality({x} \cup {y}) = 2
    BY <1>1, FS_AddElement
  <1>3. Cardinality({x} \cup {y}) <= Cardinality(S) /\ Cardinality(S) \in Nat
    BY <1>2, FS_Subset, FS_CardinalityType
  <1> QED  BY <1>2, <1>3

\* The executions before t, and the ones of t.
Earlier(D, t) == {f \in D : f.at < t}
OfTime(D, t) == {f \in D : f.at = t}

\* The executions of t are not ambiguous.
Clear(p, D, t) ==
    LET held == p.quantity + Moved(Earlier(D, t))
        moved == Moved(OfTime(D, t))
    IN  /\ ~ (Cardinality({Side[f.order] : f \in OfTime(D, t)}) > 1)
        /\ ~ /\ held * moved < 0 /\ Absolute(moved) > Absolute(held)
             /\ Cardinality({PriceOf(f) : f \in OfTime(D, t)}) > 1

\* More than is held, on the other side: the second test of Ambiguous.
LEMMA Opposite ==
    ASSUME NEW q \in Int, NEW n \in Nat, NEW side \in {"buy", "sell"}, n > Absolute(q),
           ~ (q = 0 \/ (q > 0 <=> side = "buy"))
    PROVE  q * Step(side, n) < 0 /\ Absolute(Step(side, n)) > Absolute(q)
  <1>1. ASSUME NEW a \in Nat, NEW b \in Nat, a > 0, b > 0
        PROVE  a * b > 0 /\ a * (-b) < 0 /\ (-a) * b < 0
    <2>1. PICK c \in Nat : c = a * b
      OBVIOUS
    <2>2. c # 0
      BY <1>1, <2>1
    <2>3. a * (-b) = -c /\ (-a) * b = -c
      BY <2>1
    <2> QED  BY <2>1, <2>2, <2>3
  <1>2. n > 0 /\ Absolute(q) \in Nat
    BY DEF Absolute
  <1>3. CASE q > 0
    <2>1. Step(side, n) = -n /\ Absolute(q) = q
      BY <1>3 DEF Step, Absolute
    <2>2. q * (-n) < 0
      BY <1>1, <1>2, <1>3
    <2> QED  BY <1>2, <1>3, <2>1, <2>2 DEF Absolute
  <1>4. CASE q < 0
    <2>1. Step(side, n) = n /\ Absolute(q) = -q
      BY <1>4 DEF Step, Absolute
    <2>2. (-(-q)) * n < 0
      BY <1>1, <1>2, <1>4
    <2> QED  BY <1>2, <1>4, <2>1, <2>2 DEF Absolute
  <1> QED  BY <1>3, <1>4

\* Executions of one time that are not ambiguous have one side, and one price if they
\* turn the position over.
LEMMA ClearGroup ==
    ASSUME NEW p \in Position, NEW D \in SUBSET Facts, IsFiniteSet(D), NEW t,
           Clear(p, D, t), OfTime(D, t) # {}, NEW q \in Position,
           q.quantity = p.quantity + Moved(Earlier(D, t))
    PROVE  \E side \in {"buy", "sell"} :
               /\ \A f \in OfTime(D, t) : Side[f.order] = side
               /\ Plain(q, side, OfTime(D, t))
  <1> DEFINE G == OfTime(D, t)
             sides == {Side[f.order] : f \in G}
             prices == {PriceOf(f) : f \in G}
  <1>1. G \in SUBSET Facts /\ IsFiniteSet(G)
    BY FS_Subset DEF OfTime
  <1>2. IsFiniteSet(sides) /\ IsFiniteSet(prices)
    <2>1. [f \in G |-> Side[f.order]] \in Surjection(G, sides)
      BY DEF Surjection
    <2>2. [f \in G |-> PriceOf(f)] \in Surjection(G, prices)
      BY DEF Surjection
    <2> HIDE DEF G, sides, prices
    <2> QED  BY <1>1, <2>1, <2>2, FS_Surjection
  <1>3. PICK g \in G : TRUE
    OBVIOUS
  <1>4. PICK side \in {"buy", "sell"} : side = Side[g.order]
    BY <1>1, <1>3, FactTyped
  <1>5. ~ (Cardinality(sides) > 1)
    BY DEF Clear
  <1>6. \A f \in G : Side[f.order] = side
    <2> TAKE f \in G
    <2>1. Side[f.order] \in sides /\ side \in sides
      BY <1>3, <1>4
    <2> HIDE DEF G, sides
    <2> QED  BY <1>2, <1>5, <2>1, AtMostOne
  <1>7. Moved(G) = Step(side, SumOf(G)) /\ SumOf(G) \in Nat
    <2> HIDE DEF G
    <2>1. {} \in SUBSET Facts /\ IsFiniteSet({}) /\ {} \cap G = {} /\ {} \cup G = G
      BY FS_EmptySet
    <2>2. Moved(G) = Moved({}) + Step(side, SumOf(G))
      BY <1>1, <1>6, <2>1, MovedAlong
    <2>3. SumOf(G) \in Nat
      BY <1>1, SumsTyped
    <2> QED  BY <2>2, <2>3, MovedNone DEF Step
  <1>8. Plain(q, side, G)
    <2> SUFFICES ASSUME ~ Grows(q, side), SumOf(G) > Absolute(q.quantity)
                 PROVE  \E price \in Nat : \A f \in G : PriceOf(f) = price
      BY DEF Plain
    <2>1. q.quantity \in Int
      BY DEF Position
    <2>2. q.quantity * Moved(G) < 0 /\ Absolute(Moved(G)) > Absolute(q.quantity)
      BY <1>7, <2>1, Opposite DEF Grows
    <2>3. ~ (Cardinality(prices) > 1)
      BY <2>2 DEF Clear
    <2>4. \A f \in G : PriceOf(f) = PriceOf(g)
      <3> TAKE f \in G
      <3>1. PriceOf(f) \in prices /\ PriceOf(g) \in prices
        BY <1>3
      <3> HIDE DEF G, prices
      <3> QED  BY <1>2, <2>3, <3>1, AtMostOne
    <2> QED  BY <1>1, <1>3, <2>4, FactTyped
  <1> QED  BY <1>6, <1>8

-----------------------------------------------------------------------------
(* Executions in two orders.                                               *)

\* s has the executions of D, each once, by time.
Arranges(s, D) ==
    /\ s \in Seq(Facts) /\ D = {s[i] : i \in 1..Len(s)}
    /\ \A i, j \in 1..Len(s) : s[i] = s[j] => i = j
    /\ \A i, j \in 1..Len(s) : i < j => s[i].at <= s[j].at

\* The first k of s are the ones before t.
Cut(s, t, k) == k \in 0..Len(s) /\ \A i \in 1..Len(s) : s[i].at < t <=> i <= k

LEMMA TimesTyped ==
    ASSUME NEW s \in Seq(Facts)
    PROVE  Len(s) \in Nat /\ \A i \in 1..Len(s) : s[i] \in Facts /\ s[i].at \in Nat
  <1>1. \A i \in 1..Len(s) : s[i] \in Facts
    BY ElementOf
  <1>2. \A i \in 1..Len(s) : s[i].at \in 0..MaxTime
    BY <1>1, FactTyped
  <1> QED  BY <1>1, <1>2, TimeAssumption

\* By time, the executions before t come first.
LEMMA CutExists ==
    ASSUME NEW D, NEW s, Arranges(s, D), NEW t \in Nat
    PROVE  \E k \in 0..Len(s) : Cut(s, t, k)
  <1> DEFINE g == [i \in 1..Len(s) |-> s[i].at]
  <1>1. Len(s) \in Nat /\ \A i \in 1..Len(s) : g[i] \in Int /\ g[i] = s[i].at
    BY TimesTyped DEF Arranges
  <1>2. \A i, j \in 1..Len(s) : i < j => g[i] <= g[j]
    BY DEF Arranges
  <1>3. t - 1 \in Int
    OBVIOUS
  <1> HIDE DEF g
  <1>4. PICK k \in 0..Len(s) : \A i \in 1..Len(s) : g[i] <= t - 1 <=> i <= k
    <2>1. PICK l \in Nat, b \in Int : l = Len(s) /\ b = t - 1
      BY <1>1, <1>3
    <2>2. \E k \in 0..l : \A i \in 1..l : g[i] <= b <=> i <= k
      BY <1>1, <1>2, <2>1, FirstPart
    <2> QED  BY <2>1, <2>2
  <1>5. \A i \in 1..Len(s) : s[i].at < t <=> g[i] <= t - 1
    BY <1>1
  <1> QED  BY <1>4, <1>5 DEF Cut

\* Between two cuts are the executions of one time.
LEMMA BetweenCuts ==
    ASSUME NEW D, NEW s, Arranges(s, D), NEW t \in Nat,
           NEW k, Cut(s, t, k), NEW n, Cut(s, t + 1, n)
    PROVE  /\ k \in 0..Len(s) /\ n \in k..Len(s)
           /\ Part(s, k, n) = OfTime(D, t)
           /\ OfTime(D, t) = {} => k = n
  <1>1. /\ Len(s) \in Nat /\ k \in 0..Len(s) /\ n \in 0..Len(s)
        /\ \A i \in 1..Len(s) : /\ s[i].at \in Nat
                                /\ s[i].at < t <=> i <= k
                                /\ s[i].at < t + 1 <=> i <= n
    BY TimesTyped DEF Arranges, Cut
  <1>2. k <= n
    <2>1. CASE k = 0
      BY <1>1, <2>1
    <2>2. CASE k # 0
      <3>1. k \in 1..Len(s)
        BY <1>1, <2>2
      <3>2. s[k].at < t + 1
        BY <1>1, <3>1
      <3> QED  BY <1>1, <3>1, <3>2
    <2> QED  BY <2>1, <2>2
  <1>3. \A i \in 1..Len(s) : s[i].at = t <=> i \in (k + 1)..n
    <2> TAKE i \in 1..Len(s)
    <2>1. s[i].at = t <=> ~ (s[i].at < t) /\ s[i].at < t + 1
      BY <1>1
    <2> QED  BY <1>1, <2>1
  <1>4. Part(s, k, n) = OfTime(D, t)
    <2>1. \A i \in (k + 1)..n : i \in 1..Len(s)
      BY <1>1
    <2>2. D = {s[i] : i \in 1..Len(s)}
      BY DEF Arranges
    <2> QED  BY <1>3, <2>1, <2>2 DEF Part, OfTime
  <1>5. OfTime(D, t) = {} => k = n
    <2> SUFFICES ASSUME k # n PROVE OfTime(D, t) # {}
      OBVIOUS
    <2>1. n \in (k + 1)..n
      BY <1>1, <1>2
    <2> QED  BY <1>4, <2>1 DEF Part
  <1> QED  BY <1>1, <1>2, <1>4, <1>5

LEMMA ArrangedFinite ==
    ASSUME NEW D, NEW s, Arranges(s, D)
    PROVE  D \in SUBSET Facts /\ IsFiniteSet(D)
  <1>1. s \in Seq(Facts) /\ Len(s) \in Nat /\ D = {s[i] : i \in 1..Len(s)}
    BY DEF Arranges
  <1>2. Part(s, 0, Len(s)) = D
    BY <1>1 DEF Part
  <1>3. 0 \in 0..Len(s) /\ Len(s) \in 0..Len(s)
    BY <1>1
  <1> QED  BY <1>1, <1>2, <1>3, PartTyped

\* One time further, in one arrangement.
LEMMA OneTime ==
    ASSUME NEW p \in Position, NEW D, NEW s, Arranges(s, D), Exact(p, s), NEW t \in Nat,
           NEW k, Cut(s, t, k), NEW n, Cut(s, t + 1, n), NEW side \in {"buy", "sell"},
           \A f \in OfTime(D, t) : Side[f.order] = side,
           NEW q \in Position, q = Positions(p, s)[k], Plain(q, side, OfTime(D, t))
    PROVE  After(q, side, OfTime(D, t), Positions(p, s)[n])
  <1>1. /\ k \in 0..Len(s) /\ n \in k..Len(s) /\ Part(s, k, n) = OfTime(D, t)
        /\ s \in Seq(Facts) /\ \A i, j \in 1..Len(s) : s[i] = s[j] => i = j
    <2>1. s \in Seq(Facts) /\ \A i, j \in 1..Len(s) : s[i] = s[j] => i = j
      BY DEF Arranges
    <2>2. k \in 0..Len(s) /\ n \in k..Len(s) /\ Part(s, k, n) = OfTime(D, t)
      BY BetweenCuts
    <2> QED  BY <2>1, <2>2
  <1>2. \A i \in (k + 1)..n : s[i] \in Part(s, k, n)
    BY DEF Part
  <1>3. \A i \in (k + 1)..n : Side[s[i].order] = side
    BY <1>1, <1>2
  <1>4. Plain(Positions(p, s)[k], side, Part(s, k, n))
    BY <1>1
  <1>5. After(Positions(p, s)[k], side, Part(s, k, n), Positions(p, s)[n])
    BY <1>1, <1>3, <1>4, Walk
  <1> QED  BY <1>1, <1>5

\* Two arrangements of executions of which no time is ambiguous agree at every time.
LEMMA ArrangementsAgree ==
    ASSUME NEW p \in Position, NEW D, NEW s, NEW r, Arranges(s, D), Arranges(r, D),
           Exact(p, s), Exact(p, r), \A t \in 0..MaxTime : Clear(p, D, t)
    PROVE  Replay(p, s) = Replay(p, r)
  <1> DEFINE Agree(t) ==
                 \A k \in 0..Len(s), j \in 0..Len(r) : Cut(s, t, k) /\ Cut(r, t, j) =>
                     /\ Positions(p, s)[k] = Positions(p, r)[j]
                     /\ Positions(p, s)[k].quantity = p.quantity + Moved(Earlier(D, t))
             A == {t \in Nat : t <= MaxTime + 1 => Agree(t)}
  <1>1. D \in SUBSET Facts /\ IsFiniteSet(D)
    BY ArrangedFinite
  <1>2. /\ Positions(p, s) \in [0..Len(s) -> Position] /\ Positions(p, s)[0] = p
        /\ Positions(p, r) \in [0..Len(r) -> Position] /\ Positions(p, r)[0] = p
    BY PositionsDefined DEF Arranges
  <1>3. 0 \in A
    <2> SUFFICES ASSUME NEW k \in 0..Len(s), NEW j \in 0..Len(r), Cut(s, 0, k), Cut(r, 0, j)
                 PROVE  /\ Positions(p, s)[k] = Positions(p, r)[j]
                        /\ Positions(p, s)[k].quantity = p.quantity + Moved(Earlier(D, 0))
      OBVIOUS
    <2>1. ASSUME NEW u, Arranges(u, D), NEW i \in 0..Len(u), Cut(u, 0, i) PROVE i = 0
      <3>1. Len(u) \in Nat /\ \A m \in 1..Len(u) : u[m].at \in Nat /\ ~ (m <= i)
        <4>1. Len(u) \in Nat /\ \A m \in 1..Len(u) : u[m].at \in Nat
          BY <2>1, TimesTyped DEF Arranges
        <4>2. \A m \in 1..Len(u) : u[m].at < 0 <=> m <= i
          BY <2>1 DEF Cut
        <4> QED  BY <4>1, <4>2
      <3>2. i # 0 => i \in 1..Len(u) /\ i <= i
        BY <3>1
      <3> QED  BY <3>1, <3>2
    <2>2. k = 0 /\ j = 0
      BY <2>1
    <2>3. Earlier(D, 0) = {}
      <3>1. \A f \in D : f.at \in Nat
        BY <1>1, FactTyped, TimeAssumption
      <3>2. \A f \in D : ~ (f.at < 0)
        BY <3>1
      <3> QED  BY <3>2 DEF Earlier
    <2>4. p.quantity + 0 = p.quantity
      BY DEF Position
    <2> QED  BY <1>2, <2>2, <2>3, <2>4, MovedNone
  <1>4. ASSUME NEW t \in Nat, t \in A PROVE t + 1 \in A
    <2> SUFFICES ASSUME t + 1 <= MaxTime + 1, NEW n \in 0..Len(s), NEW m \in 0..Len(r),
                        Cut(s, t + 1, n), Cut(r, t + 1, m)
                 PROVE  /\ Positions(p, s)[n] = Positions(p, r)[m]
                        /\ Positions(p, s)[n].quantity = p.quantity + Moved(Earlier(D, t + 1))
      OBVIOUS
    <2>1. PICK k \in 0..Len(s) : Cut(s, t, k)
      BY CutExists
    <2>2. PICK j \in 0..Len(r) : Cut(r, t, j)
      BY CutExists
    <2>3. t \in 0..MaxTime /\ t <= MaxTime + 1
      BY TimeAssumption
    <2>4. PICK q \in Position : /\ q = Positions(p, s)[k] /\ q = Positions(p, r)[j]
                                /\ q.quantity = p.quantity + Moved(Earlier(D, t))
      BY <1>2, <1>4, <2>1, <2>2, <2>3
    <2>5. Earlier(D, t + 1) = Earlier(D, t) \cup OfTime(D, t) /\ Earlier(D, t) \cap OfTime(D, t) = {}
      <3>1. \A f \in D : f.at \in Nat
        BY <1>1, FactTyped, TimeAssumption
      <3>2. \A f \in D : f.at < t + 1 <=> f.at < t \/ f.at = t
        BY <3>1
      <3>3. \A f \in D : ~ (f.at < t /\ f.at = t)
        BY <3>1
      <3> QED  BY <3>2, <3>3 DEF Earlier, OfTime
    <2> HIDE DEF A
    <2>6. CASE OfTime(D, t) = {}
      <3>1. k = n /\ j = m
        BY <2>1, <2>2, <2>6, BetweenCuts
      <3>2. Earlier(D, t + 1) = Earlier(D, t)
        BY <2>5, <2>6
      <3> QED  BY <2>4, <3>1, <3>2
    <2>7. CASE OfTime(D, t) # {}
      <3>1. Clear(p, D, t)
        BY <2>3
      <3>2. PICK side \in {"buy", "sell"} :
                /\ \A f \in OfTime(D, t) : Side[f.order] = side
                /\ Plain(q, side, OfTime(D, t))
        BY <1>1, <2>4, <2>7, <3>1, ClearGroup
      <3>3. PICK x \in Position, y \in Position :
                x = Positions(p, s)[n] /\ y = Positions(p, r)[m]
        BY <1>2
      <3>4. After(q, side, OfTime(D, t), x)
        BY <2>1, <2>4, <3>2, <3>3, OneTime
      <3>5. After(q, side, OfTime(D, t), y)
        BY <2>2, <2>4, <3>2, <3>3, OneTime
      <3>6. PICK E, G : E = Earlier(D, t) /\ G = OfTime(D, t)
        OBVIOUS
      <3>7. E \in SUBSET Facts /\ G \in SUBSET Facts /\ IsFiniteSet(E) /\ IsFiniteSet(G)
        BY <1>1, <3>6, FS_Subset DEF Earlier, OfTime
      <3>8. x = y
        BY <2>7, <3>2, <3>4, <3>5, <3>6, <3>7, AfterIsOne
      <3>9. Moved(E) \in Int /\ Moved(E \cup G) = Moved(E) + Step(side, SumOf(G))
        BY <2>5, <3>2, <3>6, <3>7, MovedAlong
      <3>10. Moved(Earlier(D, t + 1)) = Moved(E) + Step(side, SumOf(G))
        BY <2>5, <3>6, <3>9, Zenon
      <3>11. x.quantity = q.quantity + Step(side, SumOf(G)) /\ q.quantity = p.quantity + Moved(E)
        BY <2>4, <3>4, <3>6 DEF After
      <3>12. SumOf(G) \in Nat /\ p.quantity \in Int
        BY <3>7, SumsTyped DEF Position
      <3>13. x.quantity = p.quantity + Moved(Earlier(D, t + 1))
        BY <3>9, <3>10, <3>11, <3>12 DEF Step
      <3> QED  BY <3>3, <3>8, <3>13
    <2> QED  BY <2>6, <2>7
  <1>5. MaxTime + 1 \in A
    <2>1. MaxTime + 1 \in Nat
      BY TimeAssumption
    <2> HIDE DEF A
    <2> QED  BY <1>3, <1>4, <2>1, NatSetInduction
  <1>6. ASSUME NEW u, Arranges(u, D) PROVE Len(u) \in 0..Len(u) /\ Cut(u, MaxTime + 1, Len(u))
    <2>1. Len(u) \in Nat /\ \A i \in 1..Len(u) : u[i].at \in 0..MaxTime
      <3>1. u \in Seq(Facts)
        BY <1>6 DEF Arranges
      <3>2. \A i \in 1..Len(u) : u[i] \in Facts
        BY <3>1, ElementOf
      <3> QED  BY <3>1, <3>2, FactTyped
    <2>2. \A i \in 1..Len(u) : u[i].at < MaxTime + 1 /\ i <= Len(u)
      BY <2>1, TimeAssumption
    <2> QED  BY <2>1, <2>2 DEF Cut
  <1>7. Len(s) \in 0..Len(s) /\ Cut(s, MaxTime + 1, Len(s))
    BY <1>6
  <1>8. Len(r) \in 0..Len(r) /\ Cut(r, MaxTime + 1, Len(r))
    BY <1>6
  <1>9. MaxTime + 1 <= MaxTime + 1
    BY TimeAssumption
  <1> QED  BY <1>5, <1>7, <1>8, <1>9 DEF Replay

-----------------------------------------------------------------------------
(* Types.                                                                  *)

Observables == [order: Venue, filled: 1..MaxFilled, value: Nat]

\* What the invariant leaves open.
TypesInv ==
    /\ ended \subseteq Venue
    /\ paid \in [Keys -> Nat]
    /\ observations \subseteq Observables
    /\ baseline # None =>
           baseline.at \in 0..MaxTime /\ baseline.quantity \in Int /\ baseline.entry \in Nat
    /\ backfill.pc \in {"idle", "orders", "fills"}

LEMMA ObservedTyped ==
    ASSUME TypesInv, NEW o \in Venue, NEW q \in 0..MaxFilled, NEW v \in Nat
    PROVE  Observed(o, q, v) \subseteq Observables
  <1>1. q > 0 => [order |-> o, filled |-> q, value |-> v] \in Observables
    BY BoundAssumption DEF Observables
  <1> QED  BY <1>1 DEF Observed, TypesInv

LEMMA UpdateTyped ==
    ASSUME AccountInv, TypesInv, NEW s, Snapshot(s), AppliesUpdate(s)
    PROVE  paid' \in [Keys -> Nat] /\ observations' \subseteq Observables
  <1>1. s.order \in Venue /\ s.n \in 0..Total(s.order)
    BY PlanTyped DEF AccountInv, TapeInv, Snapshot
  <1>2. Filled(s.order, s.n) \in 0..MaxFilled /\ Value(s.order, s.n) \in Nat
    BY <1>1, AsksTyped, FilledTyped
  <1>3. CASE CanUpsert(orders, Client[s.order], Receipt(s))
    <2>1. /\ paid' = [paid EXCEPT ![Client[s.order]] = Value(s.order, s.n)]
          /\ observations' = Observed(s.order, Filled(s.order, s.n), Value(s.order, s.n))
      BY <1>3 DEF AppliesUpdate, Upserts
    <2> QED  BY <1>1, <1>2, <2>1, ObservedTyped DEF TypesInv
  <1>4. CASE ~ CanUpsert(orders, Client[s.order], Receipt(s))
    BY <1>4 DEF AppliesUpdate, TypesInv
  <1> QED  BY <1>3, <1>4

LEMMA WsFillTyped ==
    ASSUME AccountInv, TypesInv, NEW s, Snapshot(s), WsFill(s)
    PROVE  paid' \in [Keys -> Nat] /\ observations' \subseteq Observables
  <1>1. s.order \in Venue /\ s.n \in 0..Total(s.order)
    BY PlanTyped DEF AccountInv, TapeInv, Snapshot
  <1>2. Filled(s.order, s.n) \in 0..MaxFilled /\ Value(s.order, s.n) \in Nat
    BY <1>1, AsksTyped, FilledTyped
  <1>3. observations' \subseteq Observables
    BY <1>1, <1>2, ObservedTyped DEF WsFill
  <1>4. paid' = paid \/ paid' = [paid EXCEPT ![Client[s.order]] = Value(s.order, s.n)]
    BY DEF WsFill, Upserts
  <1> QED  BY <1>2, <1>3, <1>4 DEF TypesInv

LEMMA BackfillFillTyped ==
    ASSUME AccountInv, TypesInv, NEW f \in backfill.fills, BackfillFill(f)
    PROVE  paid' \in [Keys -> Nat]
  <1>1. TapeInv /\ f \in ToSet(tape) /\ facts \subseteq ToSet(tape)
    BY DEF AccountInv, ReadInv
  <1>2. ValueOf(FillsOf(f.order) \cup {f}) \in Nat
    <2>1. PICK o, S : o = f.order /\ S = FillsOf(f.order) \cup {f}
      OBVIOUS
    <2>2. o \in Venue /\ S \in SUBSET ToSet(tape) /\ \A g \in S : g.order = o
      BY <1>1, <2>1, TapeFacts DEF FillsOf
    <2> QED  BY <1>1, <2>1, <2>2, FactsAddUp
  <1>3. \/ paid' = paid
        \/ paid' = [paid EXCEPT ![RowKey(f.order)] = ValueOf(FillsOf(f.order) \cup {f})]
    BY DEF BackfillFill, RecordFill, Upserts
  <1> QED  BY <1>2, <1>3 DEF TypesInv

LEMMA BackfillTyped ==
    ASSUME TypesInv, NEW b, Backfills(b), b.pc \in {"idle", "orders", "fills"}
    PROVE  /\ backfill'.pc \in {"idle", "orders", "fills"} /\ ended' \subseteq Venue
           /\ baseline' # None =>
                  /\ baseline'.at \in 0..MaxTime
                  /\ baseline'.quantity \in Int /\ baseline'.entry \in Nat
  BY DEF Backfills, Idle, TypesInv, venueVars

\* A baseline has the quantity and the entry price of a position.
LEMMA PositionAtTyped ==
    ASSUME TapeInv, NEW at
    PROVE  PositionAt(at) \in Position
  <1>1. tape \in Seq(Facts) /\ Len(tape) \in Nat /\ DOMAIN tape = 1..Len(tape)
    BY DEF TapeInv
  <1>2. Executed(at) \in 0..Len(tape)
    <2>1. IsFiniteSet(1..Len(tape)) /\ Cardinality(1..Len(tape)) = Len(tape)
      BY <1>1, FS_Interval
    <2>2. {i \in DOMAIN tape : tape[i].at <= at} \in SUBSET (1..Len(tape))
      BY <1>1
    <2>3. Executed(at) <= Len(tape) /\ Executed(at) \in Nat
      BY <2>1, <2>2, FS_Subset, FS_CardinalityType DEF Executed
    <2> QED  BY <1>1, <2>3
  <1>3. PICK s : s = SubSeq(tape, 1, Executed(at))
    OBVIOUS
  <1>4. s \in Seq(Facts) /\ Len(s) \in 0..Len(s)
    BY <1>1, <1>2, <1>3
  <1>5. Opening \in Position
    BY OpeningAssumption DEF Position
  <1>6. Positions(Opening, s)[Len(s)] \in Position
    BY <1>4, <1>5, PositionsDefined
  <1> QED  BY <1>3, <1>6 DEF PositionAt, Replay

LEMMA TypesSteps ==
    ASSUME AccountInv, TypesInv, [AccountNext]_accountVars PROVE TypesInv'
  <1>1. ASSUME NEW o \in Venue, Executes(o) \/ Cancels(o) PROVE TypesInv'
    BY <1>1 DEF Executes, Cancels, TypesInv, ledgerVars, processVars
  <1>2. ASSUME NEW o \in Venue, SubmissionFails(o) PROVE TypesInv'
    BY <1>2 DEF SubmissionFails, Upserts, TypesInv, venueVars
  <1>3. ASSUME NEW o \in Venue, NEW s \in Snapshots(o), WsFill(s) PROVE TypesInv'
    <2>1. paid' \in [Keys -> Nat] /\ observations' \subseteq Observables
      BY <1>3, VenueSays, WsFillTyped DEF AccountInv
    <2> QED  BY <1>3, <2>1 DEF WsFill, TypesInv, venueVars
  <1>4. CASE WsUpdate
    <2>1. PICK s : s = ws
      OBVIOUS
    <2>2. Snapshot(s) /\ AppliesUpdate(s)
      BY <1>4, <2>1 DEF WsUpdate, AccountInv, ReadInv
    <2>3. paid' \in [Keys -> Nat] /\ observations' \subseteq Observables
      BY <2>2, UpdateTyped
    <2> QED  BY <1>4, <2>3 DEF WsUpdate, TypesInv, venueVars
  <1>5. ASSUME NEW works \in BOOLEAN, ListOrders(works) \/ ListFills(works) PROVE TypesInv'
    <2>1. \E b : Backfills(b) /\ b.pc \in {"idle", "orders", "fills"}
      BY <1>5 DEF ListOrders, ListFills
    <2>2. UNCHANGED <<paid, observations>>
      BY <1>5 DEF ListOrders, ListFills
    <2> QED  BY <2>1, <2>2, BackfillTyped DEF TypesInv
  <1>6. ASSUME NEW s \in backfill.orders, BackfillOrder(s) PROVE TypesInv'
    <2>1. PICK b : b = [backfill EXCEPT !.orders = @ \ {s}]
      OBVIOUS
    <2>2. Backfills(b) /\ b.pc = backfill.pc /\ Snapshot(s) /\ AppliesUpdate(s)
      BY <1>6, <2>1 DEF BackfillOrder, AccountInv, ReadInv
    <2>3. paid' \in [Keys -> Nat] /\ observations' \subseteq Observables
      BY <2>2, UpdateTyped
    <2> QED  BY <2>2, <2>3, BackfillTyped DEF TypesInv
  <1>7. ASSUME NEW f \in backfill.fills, BackfillFill(f) PROVE TypesInv'
    <2>1. \E b : Backfills(b) /\ b.pc \in {"idle", "orders", "fills"}
      <3>1. PICK b : b = IF Accepts(f) THEN [backfill EXCEPT !.fills = @ \ {f}] ELSE Idle
        OBVIOUS
      <3>2. Backfills(b)
        BY <1>7, <3>1 DEF BackfillFill
      <3>3. b.pc \in {"idle", "orders", "fills"}
        BY <3>1 DEF Idle, TypesInv
      <3> QED  BY <3>2, <3>3
    <2>2. paid' \in [Keys -> Nat] /\ UNCHANGED observations
      BY <1>7, BackfillFillTyped DEF BackfillFill
    <2> QED  BY <2>1, <2>2, BackfillTyped DEF TypesInv
  <1>8. ASSUME NEW at \in 0..MaxTime, NEW covered \in SUBSET Venue, RecordBaseline(at, covered)
        PROVE  TypesInv'
    <2>1. baseline'.at = at /\ baseline'.quantity \in Int /\ baseline'.entry \in Nat
      <3>1. PositionAt(at) \in Position
        BY <1>8, PositionAtTyped DEF AccountInv
      <3> QED  BY <1>8, <3>1 DEF RecordBaseline, BaselineOf, Position
    <2> QED  BY <1>8, <2>1 DEF RecordBaseline, TypesInv, venueVars, processVars
  <1>9. CASE Tick \/ Crash \/ UNCHANGED accountVars
    BY <1>9 DEF Tick, Crash, Idle, TypesInv, accountVars, venueVars, ledgerVars, processVars
  <1> QED
    BY <1>1, <1>2, <1>3, <1>4, <1>5, <1>6, <1>7, <1>8, <1>9 DEF AccountNext, BackfillNext

\* The log, the tables and the baseline have their types (orders_accounting.py).
THEOREM AccountTypes == AccountSpec => []AccountTypeOK
  <1>1. AccountInit => TypesInv
    BY DEF AccountInit, TypesInv, Idle
  <1>2. AccountInv /\ TypesInv /\ [AccountNext]_accountVars => TypesInv'
    BY TypesSteps
  <1>3. ASSUME AccountInv, TypesInv PROVE AccountTypeOK
    <2>1. /\ now \in 0..MaxTime /\ tape \in Seq(Facts)
          /\ orders \in [Keys -> Rows \cup {NoRow}] /\ sending \subseteq Owned
          /\ facts \subseteq ToSet(tape) /\ backfill.fills \subseteq ToSet(tape)
      BY <1>3 DEF AccountInv, TapeInv, TableInv, ReadInv
    <2>2. ToSet(tape) \subseteq Facts
      <3>1. \A i \in 1..Len(tape) : tape[i] \in Facts
        BY <2>1, ElementOf
      <3>2. DOMAIN tape = 1..Len(tape)
        BY <2>1
      <3> QED  BY <3>1, <3>2 DEF ToSet
    <2>3. baseline # None => baseline.covered \subseteq Venue
      BY <1>3 DEF AccountInv, BoundInv, Bound
    <2> QED  BY <1>3, <2>1, <2>2, <2>3 DEF AccountTypeOK, TypesInv, Observables
  <1> QED  BY <1>1, <1>2, <1>3, AccountInvariant, PTL DEF AccountSpec

-----------------------------------------------------------------------------
(* Completeness.                                                           *)

\* An order of which the tables know everything has no execution among the missing.
LEMMA NothingMissing ==
    ASSUME AccountInv, NEW f \in ToSet(tape), Covers(f.order),
           NEW k \in Holders(orders, f.order),
           orders[k].filled = Filled(f.order, Done(f.order))
    PROVE  f \in facts
  <1> DEFINE o == f.order
             S == FillsOf(o)
  <1>1. TapeInv /\ facts \subseteq ToSet(tape) /\ o \in Venue
    BY TapeFacts DEF AccountInv, ReadInv
  <1>2. S \in SUBSET ToSet(tape) /\ \A g \in S : g.order = o
    BY <1>1 DEF FillsOf
  <1>3. [filled |-> orders[k].filled, value |-> paid[k]] \in Evidence(o)
    BY DEF Evidence
  <1>4. orders[k].filled <= SumOf(S)
    BY <1>3 DEF Covers
  <1>5. Filled(o, Done(o)) \in Nat
    BY <1>1, FilledTyped DEF TapeInv
  <1> HIDE DEF o, S
  <1>6. f.order = o /\ SumOf(S) \in Nat /\ SumOf(S) <= Filled(o, Done(o))
    BY <1>1, <1>2, FactsAddUp DEF o
  <1>7. SumOf(S) = Filled(o, Done(o))
    BY <1>4, <1>5, <1>6
  <1>8. f \in S
    BY <1>1, <1>2, <1>6, <1>7, FactsAddUp
  <1> QED  BY <1>8 DEF S, FillsOf

\* A complete projection replays every execution since the baseline, and no other:
\* what identified fills add up to is compared with every receipt (projections()).
THEOREM CompleteHasAllFills == AccountSpec => []CompleteHasEveryFill
  <1>1. ASSUME AccountInv, AccountTypeOK PROVE CompleteHasEveryFill
    <2> SUFFICES ASSUME Complete, Current, NEW f \in ToSet(tape), f.at > baseline.at
                 PROVE  f \in facts
      BY <1>1 DEF CompleteHasEveryFill, Relevant, AccountInv, ReadInv
    <2>1. TapeInv /\ TableInv /\ Bound(baseline) /\ f.order \in Venue
      BY <1>1, TapeFacts DEF AccountInv, BoundInv, Complete
    <2>2. baseline # None
      BY DEF Complete
    <2>3. CASE f.order \in baseline.covered
      <3>1. PICK i \in DOMAIN tape : tape[i] = f
        BY DEF ToSet
      <3>2. /\ orders[Client[f.order]] # NoRow
            /\ orders[Client[f.order]].status \in VenueTerminal
        BY <2>1, <2>3 DEF Bound
      <3>3. f.at \in Nat /\ baseline.at \in Nat
        <4>1. f \in Facts
          BY <2>1, <3>1, ElementOf DEF TapeInv
        <4> QED  BY <1>1, <2>2, <4>1, TimeAssumption DEF Facts, AccountTypeOK
      <3>4. ~ (f.at <= baseline.at)
        BY <3>3
      <3>5. Short(f.order)
        BY <2>1, <2>3, <3>1, <3>4 DEF Bound
      <3>6. Client[f.order] \in Holders(orders, f.order)
        BY <2>1, <3>2, RowTyped, PlanTyped DEF Says, Holders
      <3>7. ~ ClosedShort(f.order)
        BY <2>1, <2>3 DEF Current
      <3> QED  BY <3>6, <3>7, <3>5 DEF Short, ClosedShort
    <2>4. CASE f.order \notin baseline.covered
      <3>1. Done(f.order) # 0
        BY <2>1, TapeFacts DEF TapeInv
      <3>2. PICK k \in Holders(orders, f.order) :
                orders[k].filled = Filled(f.order, Done(f.order))
        BY <2>1, <2>4, <3>1 DEF Current
      <3>3. Covers(f.order)
        BY <2>1, <2>4 DEF Complete
      <3> QED  BY <1>1, <3>2, <3>3, NothingMissing
    <2> QED  BY <2>3, <2>4
  <1> QED  BY <1>1, AccountInvariant, AccountTypes, PTL

-----------------------------------------------------------------------------
(* Exactness.                                                              *)

\* The tape goes with the clock.
TimesInv ==
    /\ \A i \in DOMAIN tape : tape[i].at <= now
    /\ \A i, j \in DOMAIN tape : i < j => tape[i].at <= tape[j].at

LEMMA TimesStay ==
    ASSUME TimesInv, UNCHANGED <<now, tape>> PROVE TimesInv'
  BY DEF TimesInv

LEMMA TimesSteps ==
    ASSUME AccountInv, TimesInv, [AccountNext]_accountVars PROVE TimesInv'
  <1>1. /\ now \in 0..MaxTime /\ tape \in Seq(Facts) /\ DOMAIN tape = 1..Len(tape)
        /\ Len(tape) \in Nat /\ \A i \in DOMAIN tape : tape[i].at \in Nat
    BY TimesTyped DEF AccountInv, TapeInv
  <1>2. ASSUME NEW o \in Venue, Executes(o) PROVE TimesInv'
    <2>1. PICK f : f = [order |-> o, n |-> Done(o) + 1, at |-> now]
      OBVIOUS
    <2>2. tape' = Append(tape, f) /\ now' = now /\ f.at = now
      BY <1>2, <2>1 DEF Executes
    <2>3. /\ DOMAIN tape' = 1..(Len(tape) + 1) /\ tape'[Len(tape) + 1] = f
          /\ \A i \in 1..Len(tape) : tape'[i] = tape[i]
      BY <1>1, <2>2
    <2>4. \A i \in DOMAIN tape' : i \in 1..Len(tape) \/ i = Len(tape) + 1
      BY <1>1, <2>3
    <2>5. \A i \in DOMAIN tape' : tape'[i].at <= now'
      BY <1>1, <2>2, <2>3, <2>4 DEF TimesInv
    <2>6. ASSUME NEW i \in DOMAIN tape', NEW j \in DOMAIN tape', i < j
          PROVE  tape'[i].at <= tape'[j].at
      <3>1. i \in 1..Len(tape)
        BY <1>1, <2>3, <2>6
      <3>2. CASE j \in 1..Len(tape)
        BY <1>1, <2>3, <2>6, <3>1, <3>2 DEF TimesInv
      <3>3. CASE j = Len(tape) + 1
        BY <1>1, <2>2, <2>3, <3>1, <3>3 DEF TimesInv
      <3> QED  BY <2>4, <3>2, <3>3
    <2> QED  BY <2>5, <2>6 DEF TimesInv
  <1>3. CASE Tick
    <2>1. now' = now + 1 /\ tape' = tape
      BY <1>3 DEF Tick
    <2>2. \A i \in DOMAIN tape : tape[i].at <= now'
      BY <1>1, <2>1 DEF TimesInv
    <2> QED  BY <2>1, <2>2 DEF TimesInv
  <1>4. ASSUME ~ Tick, \A o \in Venue : ~ Executes(o) PROVE UNCHANGED <<now, tape>>
    <2>1. ASSUME NEW o \in Venue, Cancels(o) \/ SubmissionFails(o) PROVE UNCHANGED <<now, tape>>
      BY <2>1 DEF Cancels, SubmissionFails, venueVars
    <2>2. ASSUME NEW o \in Venue, NEW s \in Snapshots(o), WsFill(s)
          PROVE  UNCHANGED <<now, tape>>
      BY <2>2 DEF WsFill, venueVars
    <2>3. CASE BackfillNext
      BY <2>3 DEF BackfillNext, ListOrders, ListFills, BackfillOrder, BackfillFill, Backfills,
                  venueVars
    <2>4. ASSUME NEW at \in 0..MaxTime, NEW covered \in SUBSET Venue,
                 RecordBaseline(at, covered)
          PROVE  UNCHANGED <<now, tape>>
      BY <2>4 DEF RecordBaseline, venueVars
    <2>5. CASE WsUpdate \/ Crash \/ UNCHANGED accountVars
      BY <2>5 DEF WsUpdate, Crash, accountVars, venueVars
    <2> QED  BY <1>4, <2>1, <2>2, <2>3, <2>4, <2>5 DEF AccountNext
  <1> QED  BY <1>2, <1>3, <1>4, TimesStay

LEMMA TimesInvariant == AccountSpec => []TimesInv
  <1>1. AccountInit => TimesInv
    BY DEF AccountInit, TimesInv
  <1>2. AccountInv /\ TimesInv /\ [AccountNext]_accountVars => TimesInv'
    BY TimesSteps
  <1> QED  BY <1>1, <1>2, AccountInvariant, PTL DEF AccountSpec

\* The venue's own order is an order by time.
LEMMA SinceArranges ==
    ASSUME TapeInv, TimesInv, NEW at \in Nat
    PROVE  Arranges(Since(at), {f \in ToSet(tape) : f.at > at})
  <1>1. /\ tape \in Seq(Facts) /\ DOMAIN tape = 1..Len(tape) /\ Len(tape) \in Nat
        /\ \A i \in 1..Len(tape) : tape[i] \in Facts /\ tape[i].at \in Nat
        /\ \A i, j \in 1..Len(tape) : i < j => tape[i].at <= tape[j].at
    BY TimesTyped DEF TapeInv, TimesInv
  <1>2. PICK k \in 0..Len(tape) : \A i \in 1..Len(tape) : tape[i].at <= at <=> i <= k
    <2> DEFINE g == [i \in 1..Len(tape) |-> tape[i].at]
    <2>0. PICK b \in Int : b = at
      OBVIOUS
    <2>1. PICK l \in Nat : l = Len(tape)
      BY <1>1
    <2>2. /\ \A i \in 1..l : g[i] \in Int /\ g[i] = tape[i].at
          /\ \A i, j \in 1..l : i < j => g[i] <= g[j]
      BY <1>1, <2>1
    <2> HIDE DEF g
    <2>3. \E k \in 0..l : \A i \in 1..l : g[i] <= b <=> i <= k
      BY <2>2, FirstPart
    <2> QED  BY <2>0, <2>1, <2>2, <2>3
  <1>3. Executed(at) = k
    <2>1. {i \in DOMAIN tape : tape[i].at <= at} = 1..k
      BY <1>1, <1>2
    <2>2. Cardinality(1..k) = k
      BY <1>2, FS_Interval
    <2> QED  BY <2>1, <2>2 DEF Executed
  <1>4. PICK s : s = SubSeq(tape, k + 1, Len(tape))
    OBVIOUS
  <1>5. /\ s \in Seq(Facts) /\ Len(s) = Len(tape) - k
        /\ \A i \in 1..Len(s) : s[i] = tape[k + i] /\ k + i \in (k + 1)..Len(tape)
    <2>1. PICK l \in Nat : l = Len(tape)
      BY <1>1
    <2>2. s \in Seq(Facts)
      BY <1>1, <1>2, <1>4
    <2>3. s = [i \in 1..(l - k) |-> tape[k + i]]
      BY <1>1, <1>2, <1>4, <2>1
    <2>4. l - k \in Nat /\ \A i \in 1..(l - k) : k + i \in (k + 1)..l
      BY <1>2, <2>1
    <2>5. Len(s) = l - k
      BY <2>3, <2>4
    <2> QED  BY <2>1, <2>2, <2>3, <2>4, <2>5
  <1>6. \A i, j \in 1..Len(s) : s[i] = s[j] => i = j
    <2>1. \A i, j \in 1..Len(tape) : tape[i] = tape[j] => i = j
      BY <1>1 DEF TapeInv
    <2>2. ASSUME NEW i \in 1..Len(s), NEW j \in 1..Len(s), s[i] = s[j] PROVE i = j
      <3>1. k + i \in 1..Len(tape) /\ k + j \in 1..Len(tape)
        BY <1>1, <1>2, <1>5
      <3>2. tape[k + i] = tape[k + j]
        BY <1>5, <2>2
      <3>3. k + i = k + j
        BY <2>1, <3>1, <3>2
      <3> QED  BY <1>2, <1>5, <3>3
    <2> QED  BY <2>2
  <1>7. \A i, j \in 1..Len(s) : i < j => s[i].at <= s[j].at
    <2>1. ASSUME NEW i \in 1..Len(s), NEW j \in 1..Len(s), i < j
          PROVE  s[i].at <= s[j].at
      <3>1. k + i \in 1..Len(tape) /\ k + j \in 1..Len(tape) /\ k + i < k + j
        BY <1>1, <1>2, <1>5, <2>1
      <3>2. tape[k + i].at <= tape[k + j].at
        BY <1>1, <3>1
      <3> QED  BY <1>5, <3>2
    <2> QED  BY <2>1
  <1>8. {f \in ToSet(tape) : f.at > at} = {s[i] : i \in 1..Len(s)}
    <2>1. ASSUME NEW f \in ToSet(tape), f.at > at PROVE \E i \in 1..Len(s) : s[i] = f
      <3>1. PICK i \in 1..Len(tape) : tape[i] = f
        BY <1>1 DEF ToSet
      <3>2. ~ (i <= k)
        BY <1>1, <1>2, <2>1, <3>1
      <3>3. i - k \in 1..Len(s) /\ k + (i - k) = i
        BY <1>1, <1>2, <1>5, <3>2
      <3> QED  BY <1>5, <3>1, <3>3
    <2>2. ASSUME NEW i \in 1..Len(s) PROVE s[i] \in ToSet(tape) /\ s[i].at > at
      <3>1. k + i \in 1..Len(tape) /\ ~ (k + i <= k) /\ s[i] = tape[k + i]
        BY <1>1, <1>2, <1>5
      <3> QED  BY <1>1, <1>2, <3>1 DEF ToSet
    <2> QED  BY <2>1, <2>2
  <1>9. Since(at) = s
    BY <1>3, <1>4 DEF Since
  <1>10. Arranges(s, {f \in ToSet(tape) : f.at > at})
    BY <1>5, <1>6, <1>7, <1>8 DEF Arranges
  <1> QED  BY <1>9, <1>10

\* So is every order in which facts may be replayed.
LEMMA ByTimeArranges ==
    ASSUME NEW D \in SUBSET Facts, IsFiniteSet(D), NEW s \in ByTime(D)
    PROVE  Arranges(s, D)
  <1> DEFINE n == Cardinality(D)
  <1>1. n \in Nat
    BY FS_CardinalityType
  <1>2. /\ s \in [1..n -> D] /\ \A i, j \in 1..n : i # j => s[i] # s[j]
        /\ \A i, j \in 1..n : i < j => s[i].at <= s[j].at
    BY DEF ByTime, SetToSeqs
  <1> HIDE DEF n
  <1>3. IsFiniteSet(1..n) /\ Cardinality(1..n) = Cardinality(D)
    BY <1>1, FS_Interval DEF n
  <1>4. s \in Injection(1..n, D)
    BY <1>2 DEF Injection, IsInjective
  <1>5. s \in Surjection(1..n, D)
    BY <1>3, <1>4, FS_Injection
  <1>6. D = {s[i] : i \in 1..n}
    BY <1>2, <1>5 DEF Surjection
  <1>7. s \in Seq(Facts) /\ Len(s) = n
    BY <1>1, <1>2
  <1> QED  BY <1>2, <1>6, <1>7 DEF Arranges

\* However the executions of one instant are ordered, the projection is the position that
\* they led to: whatever order could change it is ambiguous (project_position).
THEOREM CompletionIsExact == AccountSpec => []CompleteIsExact
  <1>1. ASSUME AccountInv, AccountTypeOK, TimesInv, CompleteHasEveryFill PROVE CompleteIsExact
    <2> SUFFICES ASSUME Complete, Current, NEW fills \in ByTime(Relevant),
                        Exact(Opened, fills), Exact(Opened, Since(baseline.at))
                 PROVE  Replay(Opened, fills) = Replay(Opened, Since(baseline.at))
      BY DEF CompleteIsExact
    <2>1. TapeInv /\ baseline # None
      BY <1>1 DEF AccountInv, Complete
    <2>2. baseline.at \in Nat /\ baseline.quantity \in Int /\ baseline.entry \in Nat
      BY <1>1, <2>1, TimeAssumption DEF AccountTypeOK
    <2>3. Relevant = {f \in ToSet(tape) : f.at > baseline.at}
      BY <1>1 DEF CompleteHasEveryFill
    <2>4. Arranges(Since(baseline.at), Relevant)
      BY <1>1, <2>1, <2>2, <2>3, SinceArranges
    <2>5. Arranges(fills, Relevant)
      BY <2>4, ArrangedFinite, ByTimeArranges
    <2>6. Opened \in Position
      BY <2>2 DEF Opened, Position
    <2>7. \A t \in 0..MaxTime : Clear(Opened, Relevant, t)
      BY DEF Complete, Ambiguous, Clear, Opened, Earlier, OfTime
    <2> QED  BY <2>4, <2>5, <2>6, <2>7, ArrangementsAgree
  <1> QED
    BY <1>1, AccountInvariant, AccountTypes, TimesInvariant, CompleteHasAllFills, PTL
=============================================================================
