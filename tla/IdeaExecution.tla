--------------------------- MODULE IdeaExecution ----------------------------
(***************************************************************************)
(* How an approved idea becomes a paper order, a fill and a closeout: the  *)
(* paper executor (idea_execution/executor.py), the turns of the paper     *)
(* cycle (cycle.py) with its exit monitor (exit_monitor.py), the journal   *)
(* of intents and receipts (trade_ideas/execution_journal.py), positions   *)
(* and the ideas that reduce them (position_operations.py), fills read     *)
(* from the event store (paper_reconciliation.py) and operators.           *)
(*                                                                         *)
(* A transaction of the ideas database is one step; the calls to the       *)
(* broker are between transactions, and a process may die between any two  *)
(* steps.  Who may approve is the subject of TradeIdeas: here an idea is   *)
(* "open" until it is approved.  Sessions, marks and candles are inputs: a *)
(* step that needs them may be skipped.                                    *)
(***************************************************************************)
EXTENDS Naturals, FiniteSets, Functions

CONSTANTS
    Openers,            \* ideas that open a position
    Reducers,           \* ideas that reduce the position of another one
    Target,             \* ... of this one
    Quantity,           \* quantity of an idea; None: whatever is left of the target
    Cycle,              \* the executor of the paper cycle
    Others,             \* executors of event lanes and of the command line
    Operators,          \* what operators do to ideas that are being executed
    MaxCrashes,         \* bound on the processes that die
    None

VARIABLES
    state,      \* workflow state of an idea
    fill,       \* what its fill was recorded from
    closeout,   \* does it have a closeout attribution?
    journal,    \* its intent, receipt and reconciliation
    simulated,  \* quantity of the simulated resolution of a position
    placed,     \* history: how often the broker was asked for it
    exec,       \* what each executor is doing
    turn,       \* the turn of the paper cycle
    crashes

ledger == <<state, fill, closeout, journal, simulated>>
execVars == <<ledger, placed, exec, turn, crashes>>

Ideas == Openers \cup Reducers
Runners == Others \cup {Cycle}
Terminal == {"filled", "cancelled", "expired"}
States == {"open", "approved", "submitted"} \cup Terminal
\* Facts of the executor's receipt, of an event of the event store, or none at all.
Fills == {"receipt", "store", "manual"}
\* "dead": rejected, cancelled or expired with nothing filled; "working": any other status.
Receipts == {"filled", "dead", "working"}
Entries == [quantity: Nat, receipt: Receipts \cup {None}, reconciled: BOOLEAN]
IdleExec == [pc |-> "idle", idea |-> None, answer |-> None]
Execs == [pc: {"order", "reconcile"}, idea: Ideas, answer: {None}]
            \cup [pc: {"receipt"}, idea: Ideas, answer: Receipts] \cup {IdleExec}
Phases == {"idle", "recover", "attribute", "execute", "exits"}
Exits == [idea: Openers, quantity: Nat]
IdleTurn == [phase |-> "idle", todo |-> {}, exit |-> None]

ASSUME IdeaAssumption ==
    /\ Openers \cap Reducers = {} /\ None \notin Ideas
    /\ IsFiniteSet(Openers) /\ IsFiniteSet(Reducers)
    /\ Target \in [Reducers -> Openers]
ASSUME QuantityAssumption ==
    /\ None \notin Nat
    /\ DOMAIN Quantity = Ideas
    /\ \A d \in Openers : Quantity[d] \in Nat \ {0}
    /\ \A d \in Reducers : Quantity[d] \in (Nat \ {0}) \cup {None}
ASSUME RunnerAssumption ==
    /\ Cycle \notin Others /\ Operators \subseteq {"cancel", "mark", "store"} /\ MaxCrashes \in Nat
    /\ None \notin Receipts \cup Fills \cup Entries \cup Exits

ExecInit ==
    /\ state = [d \in Ideas |-> "open"]
    /\ fill = [d \in Ideas |-> None]
    /\ closeout = [d \in Ideas |-> FALSE]
    /\ journal = [d \in Ideas |-> None]
    /\ simulated = [d \in Openers |-> 0]
    /\ placed = [d \in Ideas |-> 0]
    /\ exec = [r \in Runners |-> IdleExec]
    /\ turn = IdleTurn
    /\ crashes = 0

-----------------------------------------------------------------------------
(* Positions (position_operations.py).                                     *)

\* The fill has a quantity and a price.
HasBasis(t) == fill[t] \in {"receipt", "store"}

Against(t) == {d \in Reducers : Target[d] = t /\ journal[d] # None}
Booked(t) == {d \in Against(t) : journal[d].receipt = "filled"}
\* Anything but a fill or a definite end keeps its quantity reserved.
Pending(t) == {d \in Against(t) : journal[d].receipt \in {None, "working"}}

QuantityOf(S) == SumFunctionOnSet([d \in S |-> journal[d].quantity], S)
Reduced(t) == QuantityOf(Booked(t)) + simulated[t]
Reserved(t) == QuantityOf(Pending(t))
\* A closeout without reductions closes the whole position.
Remaining(t) == IF closeout[t] /\ Reduced(t) = 0 THEN 0 ELSE Quantity[t] - Reduced(t)
Available(t) == Remaining(t) - Reserved(t)

\* intent_for_idea: the quantity of a reduction, frozen when it is admitted.
ReductionOf(d) == IF Quantity[d] = None THEN Available(Target[d]) ELSE Quantity[d]

MayReduce(d) ==
    LET t == Target[d]
    IN /\ state[t] = "filled" /\ HasBasis(t) /\ ~closeout[t]
       /\ ReductionOf(d) \in 1..Available(t)

\* Mutated form: a reduction whose outcome is open does not stand in the way.
MayCloseUnreserved(t) ==
    /\ state[t] \in Terminal /\ ~closeout[t]
    /\ Reduced(t) > 0 => Remaining(t) = 0

\* record_closeout_attribution on an idea that opens a position.
MayClose(t) ==
    /\ state[t] \in Terminal /\ ~closeout[t]
    /\ Reserved(t) = 0
    /\ Reduced(t) > 0 => Remaining(t) = 0

-----------------------------------------------------------------------------
(* Review and operators.                                                   *)

Outside == UNCHANGED <<placed, exec, turn, crashes>>

Approve(d) ==
    /\ state[d] = "open"
    /\ d \in Reducers => MayReduce(d)
    /\ state' = [state EXCEPT ![d] = "approved"]
    /\ UNCHANGED <<fill, closeout, journal, simulated>> /\ Outside

\* "ideas cancel" and "ideas expire".
Withdraw(d, s) ==
    /\ \/ s = "cancelled" /\ state[d] \in {"approved", "submitted"}
       \/ s = "expired" /\ state[d] \in {"open", "approved"}
    /\ state[d] = "submitted" => "cancel" \in Operators
    /\ state' = [state EXCEPT ![d] = s]
    /\ UNCHANGED <<fill, closeout, journal, simulated>> /\ Outside

\* "ideas mark-submitted" and "ideas mark-filled"; a reduction takes neither.
MarkSubmitted(d) ==
    /\ "mark" \in Operators /\ d \in Openers /\ state[d] = "approved"
    /\ state' = [state EXCEPT ![d] = "submitted"]
    /\ UNCHANGED <<fill, closeout, journal, simulated>> /\ Outside

\* Mutated form: a fill is marked over another one.
MarkFilledAgain(d) ==
    /\ "mark" \in Operators /\ d \in Openers /\ state[d] \in {"submitted", "filled"}
    /\ state' = [state EXCEPT ![d] = "filled"]
    /\ fill' = [fill EXCEPT ![d] = "manual"]
    /\ UNCHANGED <<closeout, journal, simulated>> /\ Outside

MarkFilled(d) ==
    /\ "mark" \in Operators /\ d \in Openers /\ state[d] = "submitted"
    /\ state' = [state EXCEPT ![d] = "filled"]
    /\ fill' = [fill EXCEPT ![d] = "manual"]
    /\ UNCHANGED <<closeout, journal, simulated>> /\ Outside

\* "ideas reconcile-paper-fills": a fill of the event store that names the idea.
ReconcileStoreFill(d) ==
    /\ "store" \in Operators /\ d \in Openers /\ state[d] \in {"approved", "submitted"}
    /\ state' = [state EXCEPT ![d] = "filled"]
    /\ fill' = [fill EXCEPT ![d] = "store"]
    /\ UNCHANGED <<closeout, journal, simulated>> /\ Outside

RecordCloseout(d) ==
    /\ d \in Openers /\ MayClose(d)
    /\ closeout' = [closeout EXCEPT ![d] = TRUE]
    /\ UNCHANGED <<state, fill, journal, simulated>> /\ Outside

-----------------------------------------------------------------------------
(* The executor.                                                           *)

Goes(r, pc, d, answer) == exec' = [exec EXCEPT ![r] = [pc |-> pc, idea |-> d, answer |-> answer]]
Stops(r) == exec' = [exec EXCEPT ![r] = IdleExec]

Executable(d) == state[d] = "approved" /\ (d \in Reducers => MayReduce(d))

\* record_intent.
Admitted(d) ==
    [quantity |-> IF d \in Reducers THEN ReductionOf(d) ELSE Quantity[d],
     receipt |-> None, reconciled |-> FALSE]

\* Mutated form: an idea whose order was never answered is sent again.
AdmitAgain(r, d) ==
    /\ exec[r] = IdleExec
    /\ \/ Executable(d)
       \/ state[d] = "submitted" /\ journal[d] # None /\ journal[d].receipt = None
    /\ state' = [state EXCEPT ![d] = "submitted"]
    /\ journal' = [journal EXCEPT ![d] = Admitted(d)]
    /\ Goes(r, "order", d, None)
    /\ UNCHANGED <<fill, closeout, simulated, placed, crashes>>

\* execute, first transaction: admission, submission and intent together.
Admit(r, d) ==
    /\ exec[r] = IdleExec
    /\ Executable(d) /\ journal[d] = None
    /\ state' = [state EXCEPT ![d] = "submitted"]
    /\ journal' = [journal EXCEPT ![d] = Admitted(d)]
    /\ Goes(r, "order", d, None)
    /\ UNCHANGED <<fill, closeout, simulated, placed, crashes>>

\* The broker answers, or the call fails or answers something else: then the idea
\* stays submitted without a receipt.
PlaceOrder(r, answer) ==
    /\ exec[r].pc = "order"
    /\ placed' = [placed EXCEPT ![exec[r].idea] = @ + 1]
    /\ IF answer = None THEN Stops(r) ELSE Goes(r, "receipt", exec[r].idea, answer)
    /\ UNCHANGED <<ledger, turn, crashes>>

RecordReceipt(r) ==
    LET d == exec[r].idea
    IN /\ exec[r].pc = "receipt"
       /\ journal[d] # None /\ journal[d].receipt = None
       /\ journal' = [journal EXCEPT ![d].receipt = exec[r].answer]
       /\ IF exec[r].answer = "filled" THEN Goes(r, "reconcile", d, None) ELSE Stops(r)
       /\ UNCHANGED <<state, fill, closeout, simulated, placed, turn, crashes>>

\* Can the fill of the receipt be recorded?  Not once the idea is cancelled, or
\* filled with other facts.
Reconcilable(d) == state[d] \in {"approved", "submitted"} \/ (state[d] = "filled" /\ fill[d] = "receipt")

\* Mutated form: a receipt that matches nothing is ticked off as well.
ReconcileUnmatched(d) ==
    /\ state' = [state EXCEPT ![d] = IF Reconcilable(d) THEN "filled" ELSE @]
    /\ fill' = [fill EXCEPT ![d] = IF Reconcilable(d) THEN "receipt" ELSE @]
    /\ journal' = [journal EXCEPT ![d].reconciled = TRUE]
    /\ UNCHANGED <<closeout, simulated>>

\* _reconcile_receipt: the fill, the reconciliation and, when a reduction was the
\* last one, the closeout of its target.
Reconcile(d) ==
    /\ Reconcilable(d)
    /\ state' = [state EXCEPT ![d] = "filled"]
    /\ fill' = [fill EXCEPT ![d] = "receipt"]
    /\ journal' = [journal EXCEPT ![d].reconciled = TRUE]
    /\ closeout' = [t \in Ideas |->
           \/ closeout[t]
           \/ d \in Reducers /\ t = Target[d] /\ Remaining(t) = 0 /\ Reserved(t) = 0]
    /\ UNCHANGED simulated

ReconcileReceipt(r) ==
    /\ exec[r].pc = "reconcile"
    /\ Reconcile(exec[r].idea)
    /\ Stops(r)
    /\ UNCHANGED <<placed, turn, crashes>>

\* An integrity error: it ends the turn of the cycle, and is logged elsewhere.
ReconcileFails(r) ==
    /\ exec[r].pc = "reconcile"
    /\ ~Reconcilable(exec[r].idea)
    /\ Stops(r)
    /\ turn' = IF r = Cycle THEN IdleTurn ELSE turn
    /\ UNCHANGED <<ledger, placed, crashes>>

\* The executor's process dies.
Crash(r) ==
    /\ crashes < MaxCrashes
    /\ exec[r] # IdleExec \/ (r = Cycle /\ turn # IdleTurn)
    /\ crashes' = crashes + 1
    /\ Stops(r)
    /\ turn' = IF r = Cycle THEN IdleTurn ELSE turn
    /\ UNCHANGED <<ledger, placed>>

-----------------------------------------------------------------------------
(* A turn of the paper cycle.  The lock admits one at a time.              *)

InPhase(p) == turn.phase = p /\ exec[Cycle] = IdleExec
Enter(p, todo) == turn' = [phase |-> p, todo |-> todo, exit |-> None]
Done(d) == turn' = [phase |-> turn.phase, todo |-> turn.todo \ {d}, exit |-> None]
TurnEnds == turn' = IdleTurn
Quietly == UNCHANGED <<placed, exec, crashes>>

\* The journal is read once; its receipts are replayed one by one.
StartTurn ==
    /\ InPhase("idle")
    /\ Enter("recover", {d \in Ideas : /\ journal[d] # None
                                       /\ journal[d].receipt = "filled" /\ ~journal[d].reconciled})
    /\ UNCHANGED ledger /\ Quietly

\* Mutated form: receipts found at the start of a turn are only listed.
RecoverNothing(d) ==
    /\ InPhase("recover") /\ d \in turn.todo
    /\ Done(d)
    /\ UNCHANGED ledger /\ Quietly

Recover(d) ==
    /\ InPhase("recover") /\ d \in turn.todo
    /\ \/ Reconcile(d) /\ Done(d)
       \/ ~Reconcilable(d) /\ TurnEnds /\ UNCHANGED ledger
    /\ Quietly

\* expire_due_ideas, for the ideas that are due.
ExpireDue(E) ==
    /\ InPhase("recover") /\ turn.todo = {}
    /\ \A d \in E : state[d] \in {"open", "approved"}
    /\ state' = [d \in Ideas |-> IF d \in E THEN "expired" ELSE state[d]]
    /\ Enter("attribute", {})
    /\ UNCHANGED <<fill, closeout, journal, simulated>> /\ Quietly

\* Mutated form: expired ideas wait for a person to attribute them.
AttributeNothing ==
    /\ InPhase("attribute")
    /\ Enter("execute", {d \in Ideas : state[d] = "approved"})
    /\ UNCHANGED ledger /\ Quietly

\* Mutated form: the turn captures the submitted ideas.
AttributeAndMiss ==
    /\ InPhase("attribute")
    /\ closeout' = [d \in Ideas |-> closeout[d] \/ (d \in Openers /\ state[d] = "expired")]
    /\ Enter("execute", {d \in Ideas : state[d] = "submitted"})
    /\ UNCHANGED <<state, fill, journal, simulated>> /\ Quietly

\* auto_attribute_expired_ideas; then the approved ideas are captured for this turn.
Attribute ==
    /\ InPhase("attribute")
    /\ closeout' = [d \in Ideas |-> closeout[d] \/ (d \in Openers /\ state[d] = "expired")]
    /\ Enter("execute", {d \in Ideas : state[d] = "approved"})
    /\ UNCHANGED <<state, fill, journal, simulated>> /\ Quietly

CycleExecutes(d) ==
    /\ InPhase("execute") /\ d \in turn.todo
    /\ Admit(Cycle, d) /\ Done(d)

\* The idea is no longer executable, its session is closed, or it has no fresh mark.
CycleSkips(d) ==
    /\ InPhase("execute") /\ d \in turn.todo
    /\ Done(d)
    /\ UNCHANGED ledger /\ Quietly

StartExits ==
    /\ InPhase("execute") /\ turn.todo = {}
    /\ Enter("exits", {d \in Openers : state[d] = "filled" /\ ~closeout[d]})
    /\ UNCHANGED ledger /\ Quietly

\* resolve_filled_ideas reads the position, and scores it against the candles.
ScoreExit(d) ==
    /\ InPhase("exits") /\ d \in turn.todo /\ turn.exit = None
    /\ HasBasis(d) => Reserved(d) = 0
    /\ turn' = [phase |-> turn.phase, todo |-> turn.todo,
                exit |-> [idea |-> d,
                          quantity |-> IF HasBasis(d) THEN Remaining(d) ELSE Quantity[d]]]
    /\ UNCHANGED ledger /\ Quietly

\* Still inside its horizon, a closed session, no candles, or a reserved quantity.
NoExit(d) ==
    /\ InPhase("exits") /\ d \in turn.todo /\ turn.exit = None
    /\ Done(d)
    /\ UNCHANGED ledger /\ Quietly

\* record_simulated_close, or a plain closeout of a fill without quantity and price.
\* Whatever happened since the position was read is an integrity error.
RecordExit ==
    LET d == turn.exit.idea
        valid == IF HasBasis(d)
                 THEN /\ ~closeout[d] /\ Reserved(d) = 0
                      /\ turn.exit.quantity = Remaining(d) /\ Remaining(d) > 0
                 ELSE MayClose(d)
    IN /\ InPhase("exits") /\ turn.exit # None
       /\ \/ /\ valid
             /\ closeout' = [closeout EXCEPT ![d] = TRUE]
             /\ simulated' = IF HasBasis(d) THEN [simulated EXCEPT ![d] = turn.exit.quantity]
                                            ELSE simulated
             /\ Done(d)
             /\ UNCHANGED <<state, fill, journal>>
          \/ /\ ~valid
             /\ TurnEnds
             /\ UNCHANGED ledger
       /\ Quietly

EndTurn ==
    /\ InPhase("exits") /\ turn.todo = {}
    /\ TurnEnds
    /\ UNCHANGED ledger /\ Quietly

-----------------------------------------------------------------------------
ReviewNext ==
    \E d \in Ideas :
        \/ Approve(d) \/ MarkSubmitted(d) \/ MarkFilled(d) \/ ReconcileStoreFill(d)
        \/ RecordCloseout(d)
        \/ Withdraw(d, "cancelled") \/ Withdraw(d, "expired")

Progress(r) ==
    \/ \E answer \in Receipts \cup {None} : PlaceOrder(r, answer)
    \/ RecordReceipt(r) \/ ReconcileReceipt(r) \/ ReconcileFails(r)

TurnNext ==
    \/ StartTurn \/ Attribute \/ StartExits \/ RecordExit \/ EndTurn
    \/ \E d \in Ideas : Recover(d) \/ CycleExecutes(d) \/ CycleSkips(d)
    \/ \E d \in Openers : ScoreExit(d) \/ NoExit(d)
    \/ \E E \in SUBSET Ideas : ExpireDue(E)

ExecNext ==
    \/ ReviewNext \/ TurnNext
    \/ \E r \in Others, d \in Ideas : Admit(r, d) /\ UNCHANGED turn
    \/ \E r \in Runners : Progress(r) \/ Crash(r)

ExecSpec == ExecInit /\ [][ExecNext]_execVars

\* Turns are scheduled again and again, a process that lives makes progress, and a
\* mark and an open session meet every approved idea in some turn.
FairExecSpec ==
    /\ ExecSpec
    /\ WF_execVars(TurnNext)
    /\ \A r \in Runners : WF_execVars(Progress(r))
    /\ \A d \in Openers : SF_execVars(CycleExecutes(d))

-----------------------------------------------------------------------------
(* Properties.                                                             *)

\* The variables have their types (execution_journal.py entries).
ExecTypeOK ==
    /\ state \in [Ideas -> States]
    /\ fill \in [Ideas -> Fills \cup {None}]
    /\ closeout \in [Ideas -> BOOLEAN]
    /\ journal \in [Ideas -> Entries \cup {None}]
    /\ simulated \in [Openers -> Nat]
    /\ placed \in [Ideas -> Nat]
    /\ exec \in [Runners -> Execs]
    /\ turn \in [phase: Phases, todo: SUBSET Ideas, exit: Exits \cup {None}]
    /\ crashes \in 0..MaxCrashes

\* The broker is asked at most once for an idea, however many executors run and
\* wherever they die, and never without a durable intent (executor.py execute:
\* "the lane can never place the same idea twice").
OneOrderPerIdea == \A d \in Ideas : placed[d] <= 1 /\ (placed[d] > 0 => journal[d] # None)

\* The journal and the audit trail tell one story: what is reconciled is filled from
\* its receipt, a fill from a receipt has a filled receipt, and a reduction that was
\* submitted has an intent (position_operations.py _execution_snapshot, which raises
\* otherwise and takes every reader of positions with it).
JournalMatchesAudit ==
    \A d \in Ideas :
        /\ journal[d] # None /\ journal[d].reconciled => state[d] = "filled" /\ fill[d] = "receipt"
        /\ fill[d] = "receipt" => journal[d] # None /\ journal[d].receipt = "filled"
        /\ d \in Reducers /\ state[d] \in {"submitted", "filled"} => journal[d] # None
        /\ d \in Reducers /\ state[d] = "filled" => fill[d] = "receipt"

\* A position's reductions never exceed it, together with what is reserved, and its
\* final closeout agrees with them: the projection of a position never raises
\* (position_operations.py _position_from_snapshot).
PositionsAreSound ==
    \A t \in Openers :
        /\ Against(t) # {} => state[t] = "filled" /\ HasBasis(t)
        /\ Reduced(t) + Reserved(t) <= Quantity[t]
        /\ closeout[t] => Reserved(t) = 0 /\ Reduced(t) \in {0, Quantity[t]}

\* The paper ledger keeps the promise of PositionLedger: a position is opened once,
\* reduced by no more than it holds, settled once, and closed for good.
Ledger == INSTANCE PositionLedger WITH
    Positions <- Openers,
    Size <- [t \in Openers |-> Quantity[t]],
    opened <- [t \in Openers |-> HasBasis(t)],
    booked <- [t \in Openers |-> Reduced(t)],
    settled <- [t \in Openers |-> HasBasis(t) /\ closeout[t]]
LedgerIsKept == Ledger!Spec

\* A fill the broker reported and the journal holds reaches the audit trail, whoever
\* died in between (executor.py recover_receipts).
FilledReceiptsAreRecorded ==
    \A d \in Ideas : (journal[d] # None /\ journal[d].receipt = "filled") ~> state[d] = "filled"

\* An idea that expired gets its closeout (service.py auto_attribute_expired_ideas).
ExpiredIdeasAreAttributed == \A d \in Openers : (state[d] = "expired") ~> closeout[d]

\* An approved idea is executed, withdrawn or expired in the end, whatever happens to
\* the other ideas of the turn (cycle.py _execute_approved_ideas).
ApprovedIdeasAreHandled == \A d \in Openers : (state[d] = "approved") ~> (state[d] # "approved")

=============================================================================
