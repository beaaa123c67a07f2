------------------------ MODULE IdeaExecution_proofs ------------------------
(***************************************************************************)
(* Proofs about the execution of ideas, for any ideas, quantities and      *)
(* executors and any number of crashes.                                    *)
(*                                                                         *)
(* One order: the intent is written in the transaction that admits the     *)
(* idea, so an executor that is about to call the broker is the only one   *)
(* with that idea (Apart) and nobody has called for it before (Calls).     *)
(* Journal and audit trail: a receipt is replayed only from a journal      *)
(* entry that holds it (Calls, Replayed), and an idea whose fill comes     *)
(* from a receipt is filled and stays so (AuditInv).                       *)
(* Positions: the quantity of a position is what is booked on it, what is  *)
(* reserved and what is left.  A receipt moves a quantity from reserved to *)
(* booked, and a position that is closed has nothing reserved, so that no  *)
(* receipt can arrive for it any more (PositionInv).  Steps that write no  *)
(* reduction are QuietBooks; the others have a lemma each.                 *)
(***************************************************************************)
EXTENDS IdeaExecution, FiniteSums, TLAPS

\* The part of the type invariant that the arguments need.
Types ==
    /\ state \in [Ideas -> States]
    /\ fill \in [Ideas -> Fills \cup {None}]
    /\ journal \in [Ideas -> Entries \cup {None}]
    /\ placed \in [Ideas -> Nat]
    /\ exec \in [Runners -> Execs]

\* An executor between two steps has its idea's intent in the journal; before
\* the call nobody has asked the broker for it, and after it there is a receipt.
Call(e) ==
    LET j == journal[e.idea]
    IN  /\ e.pc \in {"order", "receipt"} => j # None /\ j.receipt = None
        /\ e.pc = "order" => placed[e.idea] = 0
        /\ e.pc = "reconcile" => j # None /\ j.receipt = "filled"
Calls == \A r \in Runners : Call(exec[r])

\* No two executors have a call for the same idea.
Calling(r) == exec[r].pc \in {"order", "receipt"}
Apart ==
    \A r, q \in Runners :
        r # q /\ Calling(r) /\ Calling(q) => exec[r].idea # exec[q].idea

\* The receipts a turn replays are in the journal.
Replayed ==
    turn.phase = "recover" =>
        \A d \in Ideas : d \in turn.todo => journal[d] # None /\ journal[d].receipt = "filled"

AuditInv ==
    /\ JournalMatchesAudit
    /\ \A d \in Ideas : fill[d] = "receipt" => state[d] = "filled"

ExecInv == Types /\ OneOrderPerIdea /\ Calls /\ Apart /\ Replayed /\ AuditInv

-----------------------------------------------------------------------------
LEMMA ExecInvInit == ExecInit => ExecInv
  <1> SUFFICES ASSUME ExecInit PROVE ExecInv
    OBVIOUS
  <1>1. Types
    BY DEF ExecInit, Types, States, Execs
  <1>2. OneOrderPerIdea
    BY DEF ExecInit, OneOrderPerIdea
  <1>3. Calls /\ Apart /\ Replayed
    BY DEF ExecInit, Calls, Call, Apart, Calling, Replayed, IdleExec, IdleTurn
  <1>4. AuditInv
    BY RunnerAssumption DEF ExecInit, AuditInv, JournalMatchesAudit, Fills
  <1> QED
    BY <1>1, <1>2, <1>3, <1>4 DEF ExecInv

\* What an idea's intent is admitted with is a quantity.
LEMMA AdmittedEntry ==
    ASSUME NEW d \in Ideas, Executable(d)
    PROVE  Admitted(d) \in Entries
  <1> DEFINE q == IF d \in Reducers THEN ReductionOf(d) ELSE Quantity[d]
  <1>1. d \in Reducers => ReductionOf(d) \in Nat
    BY DEF Executable, MayReduce
  <1>2. d \notin Reducers => Quantity[d] \in Nat
    BY QuantityAssumption DEF Ideas
  <1>3. q \in Nat
    BY <1>1, <1>2
  <1> HIDE DEF q
  <1>4. [quantity |-> q, receipt |-> None, reconciled |-> FALSE] \in Entries
    BY <1>3 DEF Entries
  <1> QED
    BY <1>4 DEF q, Admitted

\* Steps that neither call nor write the journal: they may move the turn and
\* change states and fills, but never those of a filled idea, and an idea that
\* reduces a position becomes submitted or filled in no such step.
LEMMA QuietStep ==
    ASSUME ExecInv,
           UNCHANGED <<journal, placed, exec>>,
           state' \in [Ideas -> States], fill' \in [Ideas -> Fills \cup {None}],
           \A d \in Ideas :
               /\ state[d] = "filled" => state'[d] = "filled" /\ fill'[d] = fill[d]
               /\ fill'[d] = "receipt" => fill[d] = "receipt"
               /\ d \in Reducers /\ state'[d] \in {"submitted", "filled"} => state'[d] = state[d],
           Replayed'
    PROVE  ExecInv'
  <1>1. Types' /\ OneOrderPerIdea' /\ Calls' /\ Apart'
    BY DEF ExecInv, Types, OneOrderPerIdea, Calls, Call, Apart, Calling
  <1>2. AuditInv'
    BY DEF ExecInv, AuditInv, JournalMatchesAudit
  <1> QED
    BY <1>1, <1>2 DEF ExecInv

\* The turn moves on without new receipts to replay.
LEMMA ReplayedKept ==
    ASSUME Replayed,
           \A d \in Ideas : journal[d] # None /\ journal[d].receipt = "filled" =>
               journal'[d] # None /\ journal'[d].receipt = "filled",
           \/ turn' = turn \/ turn'.phase # "recover"
           \/ turn'.phase = turn.phase /\ turn'.todo \subseteq turn.todo
    PROVE  Replayed'
  BY DEF Replayed

\* An executor that stops leaves the others as they are.
LEMMA StopStep ==
    ASSUME ExecInv, NEW r \in Runners, Stops(r), UNCHANGED <<state, fill, journal, placed>>,
           Replayed'
    PROVE  ExecInv'
  <1>1. Types' /\ OneOrderPerIdea' /\ AuditInv'
    BY DEF ExecInv, Types, OneOrderPerIdea, AuditInv, JournalMatchesAudit, Stops, Execs
  <1>2. Calls' /\ Apart'
    BY DEF ExecInv, Types, Calls, Call, Apart, Calling, Stops, IdleExec
  <1> QED
    BY <1>1, <1>2 DEF ExecInv

-----------------------------------------------------------------------------
(* One lemma per step that writes the journal or moves an executor.        *)

\* execute, first transaction, by any executor.
LEMMA AdmitStep ==
    ASSUME ExecInv, NEW r \in Runners, NEW d \in Ideas, Admit(r, d), Replayed'
    PROVE  ExecInv'
  <1>1. /\ exec[r] = IdleExec /\ journal[d] = None /\ state[d] = "approved"
        /\ state' = [state EXCEPT ![d] = "submitted"]
        /\ journal' = [journal EXCEPT ![d] = Admitted(d)]
        /\ exec' = [exec EXCEPT ![r] = [pc |-> "order", idea |-> d, answer |-> None]]
        /\ UNCHANGED <<fill, placed>>
    BY DEF Admit, Executable, Goes
  <1>2. Admitted(d) \in Entries /\ Admitted(d) # None /\ Admitted(d).receipt = None
        /\ Admitted(d).reconciled = FALSE
    BY AdmittedEntry, RunnerAssumption DEF Admit, Admitted
  <1> HIDE DEF Admitted
  <1>3. Types'
    BY <1>1, <1>2 DEF ExecInv, Types, States, Execs
  <1>4. placed[d] = 0
    BY <1>1 DEF ExecInv, OneOrderPerIdea, Types
  <1>5. OneOrderPerIdea'
    BY <1>1, <1>2 DEF ExecInv, OneOrderPerIdea, Types
  <1>6. Calls'
    BY <1>1, <1>2, <1>4 DEF ExecInv, Types, Calls, Call
  <1>7. Apart'
    BY <1>1 DEF ExecInv, Types, Apart, Calls, Call, Calling, Execs, IdleExec
  <1>8. AuditInv'
    BY <1>1, <1>2, RunnerAssumption DEF ExecInv, Types, AuditInv, JournalMatchesAudit, Receipts
  <1> QED
    BY <1>3, <1>5, <1>6, <1>7, <1>8 DEF ExecInv

\* The call to the broker.
LEMMA PlaceOrderStep ==
    ASSUME ExecInv, NEW r \in Runners, NEW answer \in Receipts \cup {None}, PlaceOrder(r, answer)
    PROVE  ExecInv'
  <1> DEFINE d == exec[r].idea
             e == IF answer = None THEN IdleExec
                  ELSE [pc |-> "receipt", idea |-> d, answer |-> answer]
  <1>1. /\ exec[r].pc = "order" /\ d \in Ideas
        /\ placed' = [placed EXCEPT ![d] = @ + 1]
        /\ exec' = [exec EXCEPT ![r] = e]
        /\ UNCHANGED <<state, fill, journal, turn>>
    BY DEF PlaceOrder, Goes, Stops, ExecInv, Types, Execs, IdleExec, ledger
  <1>2. placed[d] = 0 /\ journal[d] # None /\ journal[d].receipt = None
    BY <1>1 DEF ExecInv, Calls, Call
  <1>3. e \in Execs
    BY <1>1 DEF Execs
  <1>4. e = IdleExec \/ (e.pc = "receipt" /\ e.idea = d)
    OBVIOUS
  <1> HIDE DEF e, d
  <1>5. Types'
    BY <1>1, <1>3 DEF ExecInv, Types
  <1>6. OneOrderPerIdea'
    BY <1>1, <1>2 DEF ExecInv, Types, OneOrderPerIdea
  <1>7. \A q \in Runners : q # r /\ exec[q].pc = "order" => exec[q].idea # d
    BY <1>1 DEF ExecInv, Apart, Calling, d
  <1>8. Calls'
    BY <1>1, <1>2, <1>4, <1>7 DEF ExecInv, Types, Calls, Call, IdleExec, Execs
  <1>9. Apart'
    BY <1>1, <1>4 DEF ExecInv, Types, Apart, Calling, IdleExec, d
  <1>10. Replayed' /\ AuditInv'
    BY <1>1 DEF ExecInv, Replayed, AuditInv, JournalMatchesAudit
  <1> QED
    BY <1>5, <1>6, <1>8, <1>9, <1>10 DEF ExecInv

\* The receipt.
LEMMA RecordReceiptStep ==
    ASSUME ExecInv, NEW r \in Runners, RecordReceipt(r)
    PROVE  ExecInv'
  <1> DEFINE d == exec[r].idea
             e == IF exec[r].answer = "filled"
                  THEN [pc |-> "reconcile", idea |-> d, answer |-> None] ELSE IdleExec
  <1>1. /\ exec[r].pc = "receipt" /\ d \in Ideas /\ exec[r].answer \in Receipts
        /\ journal[d] # None /\ journal[d].receipt = None
        /\ journal' = [journal EXCEPT ![d].receipt = exec[r].answer]
        /\ exec' = [exec EXCEPT ![r] = e]
        /\ UNCHANGED <<state, fill, placed, turn>>
    BY DEF RecordReceipt, Goes, Stops, ExecInv, Types, Execs, IdleExec
  <1>2. /\ journal'[d] \in Entries /\ journal'[d] # None
        /\ journal'[d].receipt = exec[r].answer
        /\ journal'[d].reconciled = journal[d].reconciled
        /\ \A x \in Ideas : x # d => journal'[x] = journal[x]
    BY <1>1, RunnerAssumption DEF ExecInv, Types, Entries
  <1>3. e \in Execs /\ (e.pc = "reconcile" => exec[r].answer = "filled" /\ e.idea = d)
        /\ e.pc \in {"reconcile", "idle"}
    BY <1>1 DEF Execs, IdleExec
  <1> HIDE DEF e, d
  <1>4. Types'
    BY <1>1, <1>2, <1>3 DEF ExecInv, Types
  <1>5. OneOrderPerIdea'
    BY <1>1, <1>2 DEF ExecInv, Types, OneOrderPerIdea
  <1>6. \A q \in Runners : q # r /\ Calling(q) => exec[q].idea # d
    BY <1>1 DEF ExecInv, Apart, Calling, d
  <1>7. \A q \in Runners : exec[q].pc = "reconcile" => exec[q].idea # d
    BY <1>1, RunnerAssumption DEF ExecInv, Calls, Call, Receipts
  <1>8. Calls'
    <2> SUFFICES ASSUME NEW q \in Runners PROVE Call(exec[q])'
      BY DEF Calls
    <2>1. CASE q = r
      BY <2>1, <1>1, <1>2, <1>3 DEF ExecInv, Types, Call
    <2>2. CASE q # r
      BY <2>2, <1>1, <1>2, <1>6, <1>7 DEF ExecInv, Types, Calls, Call, Calling, Execs, IdleExec
    <2> QED
      BY <2>1, <2>2
  <1>9. Apart'
    BY <1>1, <1>3 DEF ExecInv, Types, Apart, Calling
  <1>10. Replayed'
    BY <1>1, <1>2, RunnerAssumption DEF ExecInv, Replayed, Receipts
  <1>11. AuditInv'
    BY <1>1, <1>2, RunnerAssumption DEF ExecInv, AuditInv, JournalMatchesAudit, Receipts
  <1> QED
    BY <1>4, <1>5, <1>8, <1>9, <1>10, <1>11 DEF ExecInv

\* A reconciliation changes no receipt.
LEMMA ReceiptsKept ==
    ASSUME Types, NEW d \in Ideas, journal[d] # None, Reconcile(d)
    PROVE  \A x \in Ideas : journal[x] # None /\ journal[x].receipt = "filled" =>
               journal'[x] # None /\ journal'[x].receipt = "filled"
  <1>1. journal' = [journal EXCEPT ![d].reconciled = TRUE]
    BY DEF Reconcile
  <1>2. journal'[d] \in Entries /\ journal'[d].receipt = journal[d].receipt
    BY <1>1 DEF Types, Entries
  <1>3. \A x \in Ideas : x # d => journal'[x] = journal[x]
    BY <1>1 DEF Types
  <1> QED
    BY <1>2, <1>3, RunnerAssumption

\* _reconcile_receipt, by the executor that has the receipt or by the next turn.
LEMMA ReconcileStep ==
    ASSUME ExecInv, NEW d \in Ideas, journal[d] # None, journal[d].receipt = "filled",
           Reconcile(d), UNCHANGED placed, Replayed',
           exec' = exec \/ \E r \in Runners : Stops(r)
    PROVE  ExecInv'
  <1>1. /\ state' = [state EXCEPT ![d] = "filled"]
        /\ fill' = [fill EXCEPT ![d] = "receipt"]
        /\ journal' = [journal EXCEPT ![d].reconciled = TRUE]
    BY DEF Reconcile
  <1>2. /\ journal'[d] \in Entries /\ journal'[d] # None /\ journal'[d].receipt = "filled"
        /\ \A x \in Ideas : x # d => journal'[x] = journal[x]
    BY <1>1, RunnerAssumption DEF ExecInv, Types, Entries, Receipts
  <1>3. /\ exec' \in [Runners -> Execs]
        /\ \A q \in Runners : exec'[q] \in {exec[q], IdleExec}
    BY DEF ExecInv, Types, Stops, Execs
  <1>4. Types'
    <2>1. state' \in [Ideas -> States] /\ fill' \in [Ideas -> Fills \cup {None}]
      BY <1>1 DEF ExecInv, Types, States, Terminal, Fills
    <2>2. journal' \in [Ideas -> Entries \cup {None}]
      BY <1>1, <1>2 DEF ExecInv, Types
    <2> QED
      BY <2>1, <2>2, <1>3 DEF ExecInv, Types
  <1>5. OneOrderPerIdea'
    BY <1>1, <1>2 DEF ExecInv, Types, OneOrderPerIdea
  <1>6. \A q \in Runners : Calling(q) => exec[q].idea # d
    BY RunnerAssumption DEF ExecInv, Calls, Call, Calling, Receipts
  <1>7. Calls'
    <2> SUFFICES ASSUME NEW q \in Runners PROVE Call(exec[q])'
      BY DEF Calls
    <2>1. CASE exec'[q] = IdleExec
      BY <2>1 DEF Call, IdleExec
    <2>2. CASE exec'[q] = exec[q]
      BY <2>2, <1>2, <1>6 DEF ExecInv, Types, Calls, Call, Calling, Execs, IdleExec
    <2> QED
      BY <2>1, <2>2, <1>3
  <1>8. Apart'
    BY <1>3 DEF ExecInv, Apart, Calling, IdleExec
  <1>9. AuditInv'
    BY <1>1, <1>2 DEF ExecInv, Types, AuditInv, JournalMatchesAudit
  <1> QED
    BY <1>4, <1>5, <1>7, <1>8, <1>9 DEF ExecInv

\* Reviews and operators.
LEMMA ReviewStep ==
    ASSUME ExecInv, ReviewNext
    PROVE  ExecInv'
  <1>1. PICK d \in Ideas :
           \/ Approve(d) \/ MarkSubmitted(d) \/ MarkFilled(d) \/ ReconcileStoreFill(d)
           \/ RecordCloseout(d) \/ Withdraw(d, "cancelled") \/ Withdraw(d, "expired")
    BY DEF ReviewNext
  <1>2. UNCHANGED <<journal, placed, exec, turn>>
    BY <1>1 DEF Approve, MarkSubmitted, MarkFilled, ReconcileStoreFill, RecordCloseout,
       Withdraw, Outside
  <1>3. Replayed'
    BY <1>2 DEF ExecInv, Replayed
  <1>4. \/ UNCHANGED <<state, fill>>
        \/ /\ state[d] = "open" /\ state' = [state EXCEPT ![d] = "approved"] /\ fill' = fill
        \/ \E s \in {"cancelled", "expired"} :
              /\ state[d] \in {"open", "approved", "submitted"}
              /\ state' = [state EXCEPT ![d] = s] /\ fill' = fill
        \/ /\ d \in Openers /\ state[d] = "approved"
           /\ state' = [state EXCEPT ![d] = "submitted"] /\ fill' = fill
        \/ \E f \in {"manual", "store"} :
              /\ d \in Openers /\ state[d] \in {"approved", "submitted"}
              /\ state' = [state EXCEPT ![d] = "filled"] /\ fill' = [fill EXCEPT ![d] = f]
    BY <1>1 DEF Approve, MarkSubmitted, MarkFilled, ReconcileStoreFill, RecordCloseout, Withdraw
  <1>5. state' \in [Ideas -> States] /\ fill' \in [Ideas -> Fills \cup {None}]
    BY <1>4 DEF ExecInv, Types, States, Terminal, Fills
  <1>6. \A x \in Ideas :
           /\ state[x] = "filled" => state'[x] = "filled" /\ fill'[x] = fill[x]
           /\ fill'[x] = "receipt" => fill[x] = "receipt"
           /\ x \in Reducers /\ state'[x] \in {"submitted", "filled"} => state'[x] = state[x]
    BY <1>4, IdeaAssumption DEF ExecInv, Types
  <1> QED
    BY <1>2, <1>3, <1>5, <1>6, QuietStep

\* The turns of the paper cycle.
LEMMA TurnStep ==
    ASSUME ExecInv, TurnNext
    PROVE  ExecInv'
  <1>1. CASE StartTurn
    <2>1. Replayed'
      BY <1>1 DEF StartTurn, Enter, Replayed, ledger
    <2> QED
      BY <1>1, <2>1, QuietStep DEF StartTurn, Quietly, ledger, ExecInv, Types
  <1>2. CASE \/ Attribute \/ StartExits \/ RecordExit \/ EndTurn
             \/ \E d \in Ideas : CycleSkips(d)
             \/ \E d \in Openers : ScoreExit(d) \/ NoExit(d)
    <2>1. UNCHANGED <<state, fill, journal, placed, exec>>
      BY <1>2 DEF Attribute, StartExits, RecordExit, EndTurn, CycleSkips, ScoreExit, NoExit,
                  Quietly, ledger
    <2>2. turn.phase # "recover"
      BY <1>2 DEF Attribute, StartExits, RecordExit, EndTurn, CycleSkips, ScoreExit, NoExit,
         InPhase
    <2>3. turn'.phase # "recover"
      BY <1>2, <2>2 DEF Attribute, StartExits, RecordExit, EndTurn, CycleSkips, ScoreExit,
         NoExit, Enter, Done, TurnEnds, IdleTurn
    <2>4. Replayed'
      BY <2>3 DEF Replayed
    <2> QED
      BY <2>1, <2>4, QuietStep DEF ExecInv, Types
  <1>3. ASSUME NEW d \in Ideas, Recover(d) PROVE ExecInv'
    <2>1. InPhase("recover") /\ d \in turn.todo /\ UNCHANGED <<placed, exec>>
      BY <1>3 DEF Recover, Quietly
    <2>2. journal[d] # None /\ journal[d].receipt = "filled"
      BY <2>1 DEF ExecInv, Replayed, InPhase
    <2>3. CASE Reconcile(d) /\ Done(d)
      <3>1. \A x \in Ideas : journal[x] # None /\ journal[x].receipt = "filled" =>
                journal'[x] # None /\ journal'[x].receipt = "filled"
        BY <2>2, <2>3, ReceiptsKept DEF ExecInv
      <3>2. turn'.phase # "recover" \/ (turn'.phase = turn.phase /\ turn'.todo \subseteq turn.todo)
        BY <2>3 DEF Done
      <3>3. Replayed'
        BY <3>1, <3>2, ReplayedKept DEF ExecInv
      <3> QED
        BY <2>1, <2>2, <2>3, <3>3, ReconcileStep
    <2>4. CASE TurnEnds /\ UNCHANGED ledger
      <3>1. Replayed'
        BY <2>4 DEF TurnEnds, IdleTurn, Replayed
      <3> QED
        BY <2>1, <2>4, <3>1, QuietStep DEF ledger, ExecInv, Types
    <2> QED
      BY <1>3, <2>3, <2>4 DEF Recover
  <1>4. ASSUME NEW d \in Ideas, CycleExecutes(d) PROVE ExecInv'
    <2>1. Admit(Cycle, d) /\ Cycle \in Runners
      BY <1>4 DEF CycleExecutes, Runners
    <2>2. turn'.phase # "recover"
      BY <1>4 DEF CycleExecutes, InPhase, Done
    <2>3. Replayed'
      BY <2>2 DEF Replayed
    <2> QED
      BY <2>1, <2>3, AdmitStep
  <1>5. ASSUME NEW E \in SUBSET Ideas, ExpireDue(E) PROVE ExecInv'
    <2>1. /\ state' = [d \in Ideas |-> IF d \in E THEN "expired" ELSE state[d]]
          /\ \A d \in E : state[d] \in {"open", "approved"}
          /\ UNCHANGED <<fill, journal, placed, exec>>
      BY <1>5 DEF ExpireDue, Quietly
    <2>2. Replayed'
      BY <1>5 DEF ExpireDue, Enter, Replayed
    <2>3. state' \in [Ideas -> States]
      BY <2>1 DEF ExecInv, Types, States, Terminal
    <2> QED
      BY <2>1, <2>2, <2>3, QuietStep DEF ExecInv, Types
  <1> QED
    BY <1>1, <1>2, <1>3, <1>4, <1>5 DEF TurnNext

LEMMA ExecInvNext == ExecInv /\ [ExecNext]_execVars => ExecInv'
  <1> SUFFICES ASSUME ExecInv, [ExecNext]_execVars PROVE ExecInv'
    OBVIOUS
  <1>1. CASE ReviewNext
    BY <1>1, ReviewStep
  <1>2. CASE TurnNext
    BY <1>2, TurnStep
  <1>3. ASSUME NEW r \in Others, NEW d \in Ideas, Admit(r, d), UNCHANGED turn PROVE ExecInv'
    <2>1. Replayed'
      BY <1>3 DEF ExecInv, Types, Replayed, Admit
    <2> QED
      BY <1>3, <2>1, AdmitStep DEF Runners
  <1>4. ASSUME NEW r \in Runners, Progress(r) PROVE ExecInv'
    <2>1. CASE \E answer \in Receipts \cup {None} : PlaceOrder(r, answer)
      BY <2>1, PlaceOrderStep
    <2>2. CASE RecordReceipt(r)
      BY <2>2, RecordReceiptStep
    <2>3. CASE ReconcileReceipt(r)
      <3>1. /\ exec[r].pc = "reconcile" /\ exec[r].idea \in Ideas
            /\ Reconcile(exec[r].idea) /\ Stops(r) /\ UNCHANGED <<placed, turn>>
        BY <2>3 DEF ReconcileReceipt, ExecInv, Types, Execs, IdleExec
      <3>2. journal[exec[r].idea] # None /\ journal[exec[r].idea].receipt = "filled"
        BY <3>1 DEF ExecInv, Calls, Call
      <3>3. \A x \in Ideas : journal[x] # None /\ journal[x].receipt = "filled" =>
                journal'[x] # None /\ journal'[x].receipt = "filled"
        BY <3>1, <3>2, ReceiptsKept DEF ExecInv
      <3>4. Replayed'
        BY <3>1, <3>3, ReplayedKept DEF ExecInv
      <3> QED
        BY <3>1, <3>2, <3>4, ReconcileStep
    <2>4. CASE ReconcileFails(r)
      <3>1. Replayed'
        BY <2>4 DEF ReconcileFails, ExecInv, Replayed, ledger, IdleTurn
      <3> QED
        BY <2>4, <3>1, StopStep DEF ReconcileFails, ledger
    <2> QED
      BY <1>4, <2>1, <2>2, <2>3, <2>4 DEF Progress
  <1>5. ASSUME NEW r \in Runners, Crash(r) PROVE ExecInv'
    <2>1. Replayed'
      BY <1>5 DEF Crash, ExecInv, Replayed, ledger, IdleTurn
    <2> QED
      BY <1>5, <2>1, StopStep DEF Crash, ledger
  <1>6. CASE UNCHANGED execVars
    <2>1. Replayed'
      BY <1>6 DEF execVars, ledger, ExecInv, Replayed
    <2> QED
      BY <1>6, <2>1, QuietStep DEF execVars, ledger, ExecInv, Types
  <1> QED
    BY <1>1, <1>2, <1>3, <1>4, <1>5, <1>6 DEF ExecNext

-----------------------------------------------------------------------------
\* However many executors run and wherever they die, the broker is asked at most
\* once for an idea, and never without an intent in the journal.
THEOREM OneOrderEver == ExecSpec => []OneOrderPerIdea
  <1>1. ExecInv => OneOrderPerIdea
    BY DEF ExecInv
  <1> QED
    BY <1>1, ExecInvInit, ExecInvNext, PTL DEF ExecSpec

\* The journal and the audit trail always tell one story, whoever records a fill
\* and whatever operators do to an idea meanwhile.
THEOREM JournalAndAuditAgree == ExecSpec => []JournalMatchesAudit
  <1>1. ExecInv => JournalMatchesAudit
    BY DEF ExecInv, AuditInv
  <1> QED
    BY <1>1, ExecInvInit, ExecInvNext, PTL DEF ExecSpec

-----------------------------------------------------------------------------
(* The quantities of reductions, summed over a set of them.                *)

Weight(j, S) == SumFunctionOnSet([d \in S |-> j[d].quantity], S)

LEMMA WeightAlike ==
    ASSUME NEW j, NEW k, NEW S, \A d \in S : k[d].quantity = j[d].quantity
    PROVE  Weight(k, S) = Weight(j, S)
  <1>1. [d \in S |-> k[d].quantity] = [d \in S |-> j[d].quantity]
    OBVIOUS
  <1> QED
    BY <1>1 DEF Weight

LEMMA WeightType ==
    ASSUME NEW j, NEW S, IsFiniteSet(S), \A d \in S : j[d].quantity \in Nat
    PROVE  Weight(j, S) \in Nat
  <1> DEFINE f == [d \in S |-> j[d].quantity]
  <1>1. \A d \in S : f[d] \in Nat
    OBVIOUS
  <1> HIDE DEF f
  <1>2. SumFunctionOnSet(f, S) \in Nat
    BY <1>1, SumType
  <1> QED
    BY <1>2 DEF Weight, f

LEMMA WeightSplit ==
    ASSUME NEW j, NEW S, IsFiniteSet(S), \A d \in S : j[d].quantity \in Nat, NEW x \in S
    PROVE  Weight(j, S) = j[x].quantity + Weight(j, S \ {x})
  <1> DEFINE f == [d \in S |-> j[d].quantity]
             g == [d \in S \ {x} |-> j[d].quantity]
  <1>1. \A d \in S : f[d] \in Nat
    OBVIOUS
  <1>2. f[x] = j[x].quantity /\ \A d \in S \ {x} : f[d] \in Nat /\ g[d] = f[d]
    OBVIOUS
  <1> HIDE DEF f, g
  <1>3. IsFiniteSet(S \ {x})
    BY FS_RemoveElement
  <1>4. SumFunctionOnSet(f, S) = f[x] + SumFunctionOnSet(f, S \ {x})
    BY <1>1, SumSplit
  <1>5. SumFunctionOnSet(g, S \ {x}) = SumFunctionOnSet(f, S \ {x})
    BY <1>2, <1>3, SumEqual
  <1> QED
    BY <1>2, <1>4, <1>5 DEF Weight, f, g

-----------------------------------------------------------------------------
(* The inductive invariant of the positions.                               *)

Shape ==
    /\ closeout \in [Ideas -> BOOLEAN] /\ simulated \in [Openers -> Nat]
    /\ turn.exit # None => turn.exit.idea \in Openers

\* Nothing is admitted with a quantity of zero.
Worth == \A d \in Reducers : journal[d] # None => journal[d].quantity > 0

\* A simulated resolution is a closeout, a position with a fill is filled, and a
\* closeout is the end of an idea.
Ended(t) ==
    /\ simulated[t] > 0 => closeout[t]
    /\ HasBasis(t) => state[t] = "filled"
    /\ closeout[t] => state[t] \in Terminal

PositionInv == Shape /\ Worth /\ (\A t \in Openers : Ended(t)) /\ PositionsAreSound

LEMMA SumsAreNatural ==
    ASSUME Types, Shape, NEW t \in Openers
    PROVE  /\ QuantityOf(Booked(t)) = Weight(journal, Booked(t)) /\ IsFiniteSet(Booked(t))
           /\ QuantityOf(Pending(t)) = Weight(journal, Pending(t)) /\ IsFiniteSet(Pending(t))
           /\ \A d \in Against(t) : d \in Reducers /\ journal[d] \in Entries
           /\ QuantityOf(Booked(t)) \in Nat /\ Reserved(t) \in Nat /\ Reduced(t) \in Nat
           /\ Quantity[t] \in Nat \ {0}
  <1>1. Booked(t) \subseteq Reducers /\ Pending(t) \subseteq Reducers
    BY DEF Booked, Pending, Against
  <1>2. IsFiniteSet(Booked(t)) /\ IsFiniteSet(Pending(t))
    BY <1>1, IdeaAssumption, FS_Subset
  <1>3. \A d \in Against(t) :
            d \in Reducers /\ journal[d] \in Entries /\ journal[d].quantity \in Nat
    BY DEF Against, Types, Ideas, Entries
  <1>4. /\ QuantityOf(Booked(t)) = Weight(journal, Booked(t))
        /\ QuantityOf(Pending(t)) = Weight(journal, Pending(t))
    BY DEF QuantityOf, Weight
  <1>5. \A d \in Booked(t) \cup Pending(t) : journal[d].quantity \in Nat
    BY <1>3 DEF Booked, Pending
  <1>6. Weight(journal, Booked(t)) \in Nat /\ Weight(journal, Pending(t)) \in Nat
    BY <1>2, <1>5, WeightType
  <1>7. simulated[t] \in Nat
    BY DEF Shape
  <1> QED
    BY <1>2, <1>3, <1>4, <1>6, <1>7, QuantityAssumption DEF Reserved, Reduced

\* As long as a reduction is pending, something is reserved.
LEMMA PendingIsReserved ==
    ASSUME Types, Shape, Worth, NEW t \in Openers, NEW d \in Pending(t)
    PROVE  Reserved(t) > 0 /\ Reserved(t) = journal[d].quantity + Weight(journal, Pending(t) \ {d})
  <1>1. \A x \in Pending(t) : x \in Reducers /\ journal[x] # None /\ journal[x].quantity \in Nat
    BY DEF Pending, Against, Types, Ideas, Entries
  <1>2. IsFiniteSet(Pending(t)) /\ Reserved(t) = Weight(journal, Pending(t))
    BY SumsAreNatural DEF Reserved
  <1>3. Reserved(t) = journal[d].quantity + Weight(journal, Pending(t) \ {d})
    BY <1>1, <1>2, WeightSplit
  <1>4. IsFiniteSet(Pending(t) \ {d})
    BY <1>2, FS_RemoveElement
  <1>5. Weight(journal, Pending(t) \ {d}) \in Nat
    BY <1>1, <1>4, WeightType
  <1>6. journal[d].quantity > 0 /\ journal[d].quantity \in Nat
    BY <1>1 DEF Worth
  <1> QED
    BY <1>3, <1>5, <1>6

LEMMA PositionInvInit == ExecInit => PositionInv
  <1> SUFFICES ASSUME ExecInit PROVE PositionInv
    OBVIOUS
  <1>1. Shape /\ Worth /\ \A t \in Openers : Ended(t)
    BY RunnerAssumption DEF ExecInit, Shape, Worth, Ended, Ideas, IdleTurn, HasBasis, Fills
  <1>2. \A t \in Openers : /\ Against(t) = {} /\ Booked(t) = {} /\ Pending(t) = {}
                           /\ closeout[t] = FALSE
    BY DEF ExecInit, Against, Booked, Pending, Ideas
  <1>3. QuantityOf({}) = 0
    BY SumOfNone DEF QuantityOf
  <1>4. \A t \in Openers : Reduced(t) = 0 /\ Reserved(t) = 0 /\ Quantity[t] \in Nat
    BY <1>2, <1>3, QuantityAssumption DEF ExecInit, Reduced, Reserved
  <1> QED
    BY <1>1, <1>2, <1>4 DEF PositionInv, PositionsAreSound

-----------------------------------------------------------------------------
(* Steps that leave the reductions as they are.                            *)

SameReductions ==
    \A d \in Reducers :
        /\ journal'[d] # None <=> journal[d] # None
        /\ journal[d] # None => /\ journal'[d].receipt = journal[d].receipt
                                /\ journal'[d].quantity = journal[d].quantity

\* An ended idea stays as it is, a fill is recorded apart from a closeout, and a
\* position is closed only when nothing or all of it was reduced.
Lasting(t) ==
    /\ state[t] \in Terminal => state'[t] = state[t] /\ fill'[t] = fill[t]
    /\ fill'[t] # fill[t] => state'[t] = "filled" /\ closeout'[t] = closeout[t]
    /\ closeout[t] => closeout'[t]
    /\ closeout'[t] => \/ closeout[t]
                       \/ /\ state'[t] \in Terminal /\ Reserved(t) = 0
                          /\ Reduced(t) \in {0, Quantity[t]}

\* What happens to an idea that has no fill aside, one position changes.
OneMoves ==
    \E p \in Ideas \cup {None} : \A t \in Openers :
        t # p => fill'[t] = fill[t] /\ (HasBasis(t) => closeout'[t] = closeout[t])

QuietBooks ==
    /\ SameReductions
    /\ simulated' = simulated
    /\ closeout' \in [Ideas -> BOOLEAN]
    /\ turn'.exit # None => turn'.exit.idea \in Openers
    /\ \A t \in Openers : Lasting(t)
    /\ OneMoves

LEMMA SameSums ==
    ASSUME SameReductions, NEW t \in Openers
    PROVE  /\ Against(t)' = Against(t)
           /\ QuantityOf(Booked(t))' = QuantityOf(Booked(t))
           /\ QuantityOf(Pending(t))' = QuantityOf(Pending(t))
  <1>1. Against(t)' = Against(t)
    BY DEF Against, SameReductions
  <1>2. \A d \in Against(t) : /\ journal'[d].receipt = journal[d].receipt
                              /\ journal'[d].quantity = journal[d].quantity
    BY DEF Against, SameReductions
  <1>3. Booked(t)' = Booked(t) /\ Pending(t)' = Pending(t)
    BY <1>1, <1>2 DEF Booked, Pending
  <1>4. /\ [d \in Booked(t) |-> journal'[d].quantity] = [d \in Booked(t) |-> journal[d].quantity]
        /\ [d \in Pending(t) |-> journal'[d].quantity] = [d \in Pending(t) |-> journal[d].quantity]
    BY <1>2 DEF Booked, Pending
  <1>5. /\ QuantityOf(Booked(t))'
             = SumFunctionOnSet([d \in Booked(t)' |-> journal'[d].quantity], Booked(t)')
        /\ QuantityOf(Pending(t))'
             = SumFunctionOnSet([d \in Pending(t)' |-> journal'[d].quantity], Pending(t)')
    BY DEF QuantityOf
  <1>6. /\ QuantityOf(Booked(t))' = QuantityOf(Booked(t))
        /\ QuantityOf(Pending(t))' = QuantityOf(Pending(t))
    BY <1>3, <1>4, <1>5 DEF QuantityOf
  <1> QED
    BY <1>1, <1>6

LEMMA QuietBooksStep ==
    ASSUME Types, PositionInv, QuietBooks
    PROVE  PositionInv'
  <1>1. Shape'
    BY DEF PositionInv, Shape, QuietBooks
  <1>2. Worth'
    BY DEF PositionInv, Worth, QuietBooks, SameReductions
  <1>3. ASSUME NEW t \in Openers
        PROVE  Ended(t)'
    <2>1. Lasting(t) /\ Ended(t) /\ simulated' = simulated
      BY DEF QuietBooks, PositionInv
    <2> QED
      BY <2>1 DEF Lasting, Ended, HasBasis, Terminal
  <1>4. ASSUME NEW t \in Openers
        PROVE  /\ Against(t) # {} => state[t] = "filled" /\ HasBasis(t)
               /\ Reduced(t) + Reserved(t) <= Quantity[t]
               /\ closeout[t] => Reserved(t) = 0 /\ Reduced(t) \in {0, Quantity[t]}
    BY DEF PositionInv, PositionsAreSound
  <1>5. ASSUME NEW t \in Openers
        PROVE  /\ Against(t)' = Against(t) /\ Reduced(t)' = Reduced(t) /\ Reserved(t)' = Reserved(t)
               /\ Lasting(t)
    BY SameSums DEF QuietBooks, Reduced, Reserved
  <1>6. ASSUME NEW t \in Openers
        PROVE  /\ Against(t)' # {} => state'[t] = "filled" /\ HasBasis(t)'
               /\ Reduced(t)' + Reserved(t)' <= Quantity[t]
               /\ closeout'[t] => Reserved(t)' = 0 /\ Reduced(t)' \in {0, Quantity[t]}
    <2>1. Against(t)' # {} => state'[t] = "filled" /\ HasBasis(t)'
      BY <1>4, <1>5 DEF Lasting, HasBasis, Terminal
    <2>2. closeout'[t] => Reserved(t)' = 0 /\ Reduced(t)' \in {0, Quantity[t]}
      BY <1>4, <1>5 DEF Lasting
    <2> QED
      BY <2>1, <2>2, <1>4, <1>5
  <1>7. PositionsAreSound'
    BY <1>6 DEF PositionsAreSound
  <1> QED
    BY <1>1, <1>2, <1>3, <1>7 DEF PositionInv

\* In PositionLedger such a step opens a position, settles one, or is a stutter.
LEMMA QuietBooksLedger ==
    ASSUME Types, PositionInv, QuietBooks
    PROVE  [Ledger!Next]_(Ledger!ledgerVars)
  <1> DEFINE O == [t \in Openers |-> HasBasis(t)]
             B == [t \in Openers |-> Reduced(t)]
             F == [t \in Openers |-> HasBasis(t) /\ closeout[t]]
  <1>1. B' = B
    BY SameSums DEF QuietBooks, Reduced
  <1>2. PICK p \in Ideas \cup {None} : \A t \in Openers :
            t # p => fill'[t] = fill[t] /\ (HasBasis(t) => closeout'[t] = closeout[t])
    BY DEF QuietBooks, OneMoves
  <1>3. \A t \in Openers : t # p => O'[t] = O[t] /\ F'[t] = F[t]
    BY <1>2 DEF HasBasis
  <1>4. CASE p \notin Openers
    <2>1. O' = O /\ F' = F
      BY <1>3, <1>4
    <2> QED
      BY <1>1, <2>1 DEF Ledger!ledgerVars
  <1>5. CASE p \in Openers
    <2>1. Lasting(p) /\ Ended(p) /\ closeout[p] \in BOOLEAN /\ closeout'[p] \in BOOLEAN
      BY <1>5 DEF QuietBooks, PositionInv, Shape, Ideas
    <2>2. CASE O'[p] = O[p] /\ F'[p] = F[p]
      <3>1. O' = O /\ F' = F
        BY <1>3, <2>2
      <3> QED
        BY <1>1, <3>1 DEF Ledger!ledgerVars
    <2>3. CASE O'[p] # O[p]
      <3>1. fill'[p] # fill[p] /\ state[p] \notin Terminal /\ ~closeout[p] /\ ~closeout'[p]
        BY <1>5, <2>1, <2>3 DEF HasBasis, Lasting, Ended
      <3>2. ~HasBasis(p)
        BY <2>1, <3>1 DEF Ended, Terminal
      <3>3. O[p] = FALSE /\ O'[p] = TRUE
        <4>1. O[p] \in BOOLEAN /\ O'[p] \in BOOLEAN
          BY <1>5 DEF HasBasis
        <4>2. O[p] = FALSE
          BY <1>5, <3>2
        <4> HIDE DEF O
        <4> QED
          BY <2>3, <4>1, <4>2
      <3>4. F[p] = FALSE /\ F'[p] = FALSE
        BY <1>5, <3>1
      <3>5. O' = [O EXCEPT ![p] = TRUE] /\ F' = F
        BY <1>3, <1>5, <3>3, <3>4
      <3>6. Ledger!Open(p)
        BY <1>1, <3>3, <3>5 DEF Ledger!Open
      <3> QED
        BY <1>5, <3>6 DEF Ledger!Next
    <2>4. CASE O'[p] = O[p] /\ F'[p] # F[p]
      <3>1. HasBasis(p) /\ ~closeout[p] /\ closeout'[p]
        BY <1>5, <2>1, <2>4 DEF Lasting
      <3>2. Reduced(p) \in {0, Quantity[p]}
        BY <2>1, <3>1 DEF Lasting
      <3>3. O' = O /\ O[p] /\ ~F[p]
        BY <1>3, <1>5, <2>4, <3>1
      <3>4. F' = [F EXCEPT ![p] = TRUE]
        BY <1>3, <1>5, <2>4, <3>1 
      <3>5. B[p] = 0 \/ B' = [B EXCEPT ![p] = Quantity[p]]
        BY <1>1, <1>5, <3>2
      <3>6. Ledger!Settle(p)
        BY <1>1, <1>5, <3>3, <3>4, <3>5 DEF Ledger!Settle
      <3> QED
        BY <1>5, <3>6 DEF Ledger!Next
    <2> QED
      BY <2>2, <2>3, <2>4
  <1> QED
    BY <1>4, <1>5

\* A step that moves neither journal nor ideas: only the turn or an executor.
LEMMA NoBooks ==
    ASSUME PositionInv, UNCHANGED ledger, turn'.exit # None => turn'.exit.idea \in Openers
    PROVE  QuietBooks
  <1>1. SameReductions /\ OneMoves /\ \A t \in Openers : Lasting(t)
    BY DEF SameReductions, OneMoves, Lasting, ledger
  <1> QED
    BY <1>1 DEF QuietBooks, PositionInv, Shape, ledger

\* What a closeout is allowed on has been reduced entirely or not at all.
LEMMA MayCloseMeans ==
    ASSUME Types, PositionInv, NEW t \in Openers, MayClose(t)
    PROVE  Reserved(t) = 0 /\ Reduced(t) \in {0, Quantity[t]} /\ state[t] \in Terminal
  <1>1. Reduced(t) \in Nat /\ Quantity[t] \in Nat
    BY SumsAreNatural DEF PositionInv
  <1>2. Reduced(t) > 0 => Quantity[t] - Reduced(t) = 0
    BY DEF MayClose, Remaining
  <1> QED
    BY <1>1, <1>2 DEF MayClose

\* Reviews and operators.
LEMMA ReviewBooks ==
    ASSUME Types, PositionInv, ReviewNext
    PROVE  QuietBooks
  <1>1. PICK d \in Ideas :
           \/ Approve(d) \/ MarkSubmitted(d) \/ MarkFilled(d) \/ ReconcileStoreFill(d)
           \/ RecordCloseout(d) \/ Withdraw(d, "cancelled") \/ Withdraw(d, "expired")
    BY DEF ReviewNext
  <1>2. UNCHANGED <<journal, simulated, turn>>
    BY <1>1 DEF Approve, MarkSubmitted, MarkFilled, ReconcileStoreFill, RecordCloseout,
       Withdraw, Outside
  <1>3. SameReductions
    BY <1>2 DEF SameReductions
  <1>4. CASE RecordCloseout(d)
    <2>1. /\ d \in Openers /\ MayClose(d) /\ UNCHANGED <<state, fill>>
          /\ closeout' = [closeout EXCEPT ![d] = TRUE]
      BY <1>4 DEF RecordCloseout
    <2>2. closeout \in [Ideas -> BOOLEAN]
      BY DEF PositionInv, Shape
    <2>3. Reserved(d) = 0 /\ Reduced(d) \in {0, Quantity[d]} /\ state[d] \in Terminal
      BY <2>1, MayCloseMeans
    <2>4. \A t \in Openers : t # d => closeout'[t] = closeout[t]
      BY <2>1, <2>2 DEF Ideas
    <2>5. \A t \in Openers : Lasting(t)
      BY <2>1, <2>3, <2>4 DEF Lasting
    <2>6. OneMoves
      BY <2>1, <2>4 DEF OneMoves
    <2> QED
      BY <1>2, <1>3, <2>1, <2>2, <2>5, <2>6 DEF QuietBooks, PositionInv, Shape
  <1>5. CASE ~RecordCloseout(d)
    <2>1. /\ closeout' = closeout /\ state[d] \notin Terminal
          /\ \A x \in Ideas : x # d => state'[x] = state[x] /\ fill'[x] = fill[x]
          /\ fill'[d] # fill[d] => state'[d] = "filled"
      BY <1>1, <1>5 DEF Approve, MarkSubmitted, MarkFilled, ReconcileStoreFill, Withdraw,
         Terminal, Types
    <2>2. \A t \in Openers : Lasting(t)
      BY <2>1 DEF Lasting, Ideas
    <2>3. OneMoves
      BY <2>1 DEF OneMoves, Ideas
    <2> QED
      BY <1>2, <1>3, <2>1, <2>2, <2>3 DEF QuietBooks, PositionInv, Shape
  <1> QED
    BY <1>4, <1>5

\* _reconcile_receipt: an idea is filled, or the position it reduces is closed.
LEMMA ReconcileBooks ==
    ASSUME Types, PositionInv, NEW d \in Ideas, journal[d] # None, Reconcile(d),
           turn'.exit # None => turn'.exit.idea \in Openers
    PROVE  QuietBooks
  <1>1. /\ Reconcilable(d) /\ simulated' = simulated
        /\ state' = [state EXCEPT ![d] = "filled"]
        /\ fill' = [fill EXCEPT ![d] = "receipt"]
        /\ journal' = [journal EXCEPT ![d].reconciled = TRUE]
        /\ closeout' = [t \in Ideas |->
              \/ closeout[t]
              \/ d \in Reducers /\ t = Target[d] /\ Remaining(t) = 0 /\ Reserved(t) = 0]
    BY DEF Reconcile
  <1>2. closeout \in [Ideas -> BOOLEAN] /\ closeout' \in [Ideas -> BOOLEAN]
    BY <1>1 DEF PositionInv, Shape
  <1>3. /\ journal'[d] # None /\ journal'[d].receipt = journal[d].receipt
        /\ journal'[d].quantity = journal[d].quantity
        /\ \A x \in Ideas : x # d => journal'[x] = journal[x]
    <2>1. journal[d] \in Entries
      BY DEF Types
    <2>2. journal'[d] \in Entries /\ journal'[d].receipt = journal[d].receipt
          /\ journal'[d].quantity = journal[d].quantity
      BY <1>1, <2>1 DEF Types, Entries
    <2> QED
      BY <1>1, <2>2, RunnerAssumption DEF Types
  <1>4. SameReductions
    BY <1>3 DEF SameReductions, Ideas
  <1>5. CASE d \in Openers
    <2>1. closeout' = closeout
      BY <1>1, <1>2, <1>5, IdeaAssumption
    <2>2. \A t \in Openers : t # d => state'[t] = state[t] /\ fill'[t] = fill[t]
      BY <1>1, <1>5 DEF Types, Ideas
    <2>3. state'[d] = "filled" /\ fill'[d] = "receipt"
      BY <1>1 DEF Types
    <2>4. \A t \in Openers : Lasting(t)
      BY <1>1, <2>1, <2>2, <2>3 DEF Lasting, Reconcilable, Terminal
    <2>5. OneMoves
      BY <2>1, <2>2 DEF OneMoves
    <2> QED
      BY <1>1, <1>2, <1>4, <2>4, <2>5 DEF QuietBooks
  <1>6. CASE d \in Reducers
    <2> DEFINE p == Target[d]
    <2>1. p \in Openers /\ d \in Against(p)
      BY <1>6, IdeaAssumption DEF Against
    <2>2. \A t \in Openers : state'[t] = state[t] /\ fill'[t] = fill[t]
      BY <1>1, <1>6, IdeaAssumption DEF Types, Ideas
    <2>3. \A t \in Openers : t # p => closeout'[t] = closeout[t]
      BY <1>1, <1>2 DEF Ideas
    <2>4. closeout[p] => closeout'[p]
      BY <1>1, <2>1 DEF Ideas
    <2>5. closeout'[p] /\ ~closeout[p] => Remaining(p) = 0 /\ Reserved(p) = 0
      BY <1>1, <2>1 DEF Ideas
    <2>6. Reduced(p) \in Nat /\ Quantity[p] \in Nat
      BY <2>1, SumsAreNatural DEF PositionInv
    <2>7. ~closeout[p] /\ Remaining(p) = 0 => Reduced(p) = Quantity[p]
      BY <2>6 DEF Remaining
    <2>8. state[p] = "filled"
      BY <2>1 DEF PositionInv, PositionsAreSound
    <2> HIDE DEF p
    <2>9. \A t \in Openers : Lasting(t)
      BY <2>1, <2>2, <2>3, <2>4, <2>5, <2>7, <2>8 DEF Lasting, Terminal
    <2>10. OneMoves
      BY <2>1, <2>2, <2>3 DEF OneMoves, Ideas
    <2> QED
      BY <1>1, <1>2, <1>4, <2>9, <2>10 DEF QuietBooks
  <1> QED
    BY <1>5, <1>6 DEF Ideas

\* auto_attribute_expired_ideas.
LEMMA AttributeBooks ==
    ASSUME Types, PositionInv, Attribute
    PROVE  QuietBooks
  <1>1. /\ UNCHANGED <<state, fill, journal, simulated>> /\ turn'.exit = None
        /\ closeout' = [d \in Ideas |-> closeout[d] \/ (d \in Openers /\ state[d] = "expired")]
        /\ closeout \in [Ideas -> BOOLEAN]
    BY DEF Attribute, Enter, PositionInv, Shape
  <1>2. ASSUME NEW t \in Openers, state[t] = "expired", ~closeout[t]
        PROVE  Reserved(t) = 0 /\ Reduced(t) = 0
    <2>1. Against(t) = {} /\ simulated[t] = 0
      BY <1>2 DEF PositionInv, PositionsAreSound, Shape, Ended
    <2>2. Booked(t) = {} /\ Pending(t) = {}
      BY <2>1 DEF Booked, Pending
    <2>3. QuantityOf({}) = 0
      BY SumOfNone DEF QuantityOf
    <2> QED
      BY <2>1, <2>2, <2>3 DEF Reserved, Reduced
  <1>3. \A t \in Openers : Lasting(t)
    BY <1>1, <1>2 DEF Lasting, Terminal, Ideas
  <1>4. \A t \in Openers : HasBasis(t) => closeout'[t] = closeout[t]
    BY <1>1 DEF PositionInv, Ended, Ideas
  <1>5. OneMoves
    BY <1>1, <1>4 DEF OneMoves
  <1>6. SameReductions
    BY <1>1 DEF SameReductions
  <1> QED
    BY <1>1, <1>3, <1>5, <1>6 DEF QuietBooks

-----------------------------------------------------------------------------
(* Steps that write a reduction.                                           *)

\* The intent of a reduction reserves its quantity and moves nothing in the ledger.
LEMMA ReductionAdmitted ==
    ASSUME Types, PositionInv, NEW d \in Reducers,
           state[d] = "approved", MayReduce(d), journal[d] = None,
           state' = [state EXCEPT ![d] = "submitted"],
           journal' = [journal EXCEPT ![d] = Admitted(d)],
           UNCHANGED <<fill, closeout, simulated>>,
           turn'.exit # None => turn'.exit.idea \in Openers
    PROVE  PositionInv' /\ UNCHANGED Ledger!ledgerVars
  <1> DEFINE p == Target[d]
             q == ReductionOf(d)
  <1>0. PICK k : k = journal'
    OBVIOUS
  <1>1. p \in Openers /\ ~closeout[p] /\ q \in 1..Available(p) /\ state[p] = "filled" /\ HasBasis(p)
    BY IdeaAssumption DEF MayReduce
  <1>2. /\ Reduced(p) \in Nat /\ Reserved(p) \in Nat /\ Quantity[p] \in Nat
        /\ Reserved(p) = Weight(journal, Pending(p)) /\ IsFiniteSet(Pending(p))
        /\ \A x \in Against(p) : x \in Reducers /\ journal[x] \in Entries
    BY <1>1, SumsAreNatural DEF PositionInv, Reserved
  <1>3. q \in Nat /\ q > 0 /\ q <= Quantity[p] - Reduced(p) - Reserved(p)
    BY <1>1, <1>2 DEF Available, Remaining
  <1>4. journal'[d] = [quantity |-> q, receipt |-> None, reconciled |-> FALSE] /\ journal'[d] # None
    <2>1. Admitted(d) = [quantity |-> q, receipt |-> None, reconciled |-> FALSE]
      BY DEF Admitted
    <2>2. Admitted(d) \in Entries
      BY <1>3, <2>1 DEF Entries
    <2> QED
      BY <2>1, <2>2, RunnerAssumption DEF Types, Ideas
  <1>5. \A x \in Ideas : x # d => journal'[x] = journal[x] /\ state'[x] = state[x]
    BY DEF Types
  <1> HIDE DEF q
  <1>6. \A t \in Openers : t # p =>
            Against(t)' = Against(t) /\ Booked(t)' = Booked(t) /\ Pending(t)' = Pending(t)
    BY <1>5 DEF Against, Booked, Pending, Ideas
  <1>7. Against(p)' = Against(p) \cup {d} /\ d \notin Against(p)
    BY <1>4, <1>5 DEF Against, Ideas
  <1>8. Booked(p)' = Booked(p) /\ Pending(p)' = Pending(p) \cup {d} /\ d \notin Pending(p)
    BY <1>4, <1>5, <1>7, RunnerAssumption DEF Against, Booked, Pending, Ideas, Receipts
  <1>9. \A t \in Openers : \A x \in Booked(t) \cup Pending(t) : k[x].quantity = journal[x].quantity
    BY <1>0, <1>5 DEF Booked, Pending, Against, Ideas
  <1>10. \A t \in Openers : QuantityOf(Booked(t))' = QuantityOf(Booked(t))
    <2> TAKE t \in Openers
    <2>1. Booked(t)' = Booked(t)
      BY <1>6, <1>8
    <2>2. Weight(k, Booked(t)) = Weight(journal, Booked(t))
      BY <1>9, WeightAlike
    <2> QED
      BY <1>0, <2>1, <2>2 DEF QuantityOf, Weight
  <1>11. \A t \in Openers : t # p => Reserved(t)' = Reserved(t)
    <2> TAKE t \in Openers
    <2>1. Weight(k, Pending(t)) = Weight(journal, Pending(t))
      BY <1>9, WeightAlike
    <2> QED
      BY <1>0, <1>6, <2>1 DEF Reserved, QuantityOf, Weight
  <1>12. Reserved(p)' = Reserved(p) + q
    <2>1. Reserved(p)' = Weight(k, Pending(p) \cup {d})
      BY <1>0, <1>8 DEF Reserved, QuantityOf, Weight
    <2>2. IsFiniteSet(Pending(p) \cup {d})
      BY <1>2, FS_AddElement
    <2>3. \A x \in Pending(p) \cup {d} : k[x].quantity \in Nat
      BY <1>0, <1>1, <1>2, <1>3, <1>4, <1>9 DEF Pending, Entries
    <2>4. Weight(k, Pending(p) \cup {d})
             = k[d].quantity + Weight(k, (Pending(p) \cup {d}) \ {d})
      BY <2>2, <2>3, WeightSplit
    <2>5. (Pending(p) \cup {d}) \ {d} = Pending(p)
      BY <1>8
    <2>6. Weight(k, Pending(p)) = Weight(journal, Pending(p))
      BY <1>1, <1>9, WeightAlike
    <2>7. k[d].quantity = q
      BY <1>0, <1>4
    <2>8. Reserved(p)' = q + Reserved(p)
      BY <1>2, <2>1, <2>4, <2>5, <2>6, <2>7
    <2> QED
      BY <1>2, <1>3, <2>8
  <1>13. \A t \in Openers : Reduced(t)' = Reduced(t)
    BY <1>10 DEF Reduced
  <1>14. Shape' /\ Worth'
    BY <1>3, <1>4, <1>5 DEF PositionInv, Shape, Worth, Ideas
  <1>15. \A t \in Openers : /\ t # d /\ state'[t] = state[t] /\ fill'[t] = fill[t]
                            /\ HasBasis(t)' = HasBasis(t)
    BY <1>5, IdeaAssumption DEF Ideas, HasBasis
  <1>16. \A t \in Openers : Ended(t)'
    BY <1>15 DEF PositionInv, Ended
  <1>17. PositionsAreSound'
    <2> SUFFICES ASSUME NEW t \in Openers
                 PROVE  /\ Against(t)' # {} => state'[t] = "filled" /\ HasBasis(t)'
                        /\ Reduced(t)' + Reserved(t)' <= Quantity[t]
                        /\ closeout'[t] => Reserved(t)' = 0 /\ Reduced(t)' \in {0, Quantity[t]}
      BY DEF PositionsAreSound
    <2>1. CASE t = p
      BY <2>1, <1>1, <1>2, <1>3, <1>12, <1>13, <1>15
    <2>2. CASE t # p
      BY <2>2, <1>6, <1>11, <1>13, <1>15 DEF PositionInv, PositionsAreSound
    <2> QED
      BY <2>1, <2>2
  <1>18. UNCHANGED Ledger!ledgerVars
    BY <1>13, <1>15 DEF Ledger!ledgerVars
  <1> QED
    BY <1>14, <1>16, <1>17, <1>18 DEF PositionInv

\* The receipt of a reduction books what was reserved, frees it, or keeps it reserved.
LEMMA ReductionAnswered ==
    ASSUME Types, PositionInv, NEW d \in Reducers, NEW answer \in Receipts,
           journal[d] # None, journal[d].receipt = None,
           journal' = [journal EXCEPT ![d].receipt = answer],
           UNCHANGED <<state, fill, closeout, simulated, turn>>
    PROVE  PositionInv' /\ [Ledger!Next]_(Ledger!ledgerVars)
  <1> DEFINE p == Target[d]
             q == journal[d].quantity
  <1>0. PICK k : k = journal'
    OBVIOUS
  <1>1. p \in Openers /\ d \in Against(p) /\ d \in Pending(p) /\ d \notin Booked(p)
    BY IdeaAssumption, RunnerAssumption DEF Against, Pending, Booked, Receipts
  <1>2. /\ Reduced(p) \in Nat /\ Reserved(p) \in Nat /\ Quantity[p] \in Nat
        /\ QuantityOf(Booked(p)) = Weight(journal, Booked(p)) /\ IsFiniteSet(Booked(p))
        /\ QuantityOf(Booked(p)) \in Nat /\ simulated[p] \in Nat
        /\ Reserved(p) = Weight(journal, Pending(p)) /\ IsFiniteSet(Pending(p))
        /\ \A x \in Against(p) : x \in Reducers /\ journal[x] \in Entries
    BY <1>1, SumsAreNatural DEF PositionInv, Shape, Reserved
  <1>3. q \in Nat /\ q > 0
    BY <1>1, <1>2 DEF PositionInv, Worth, Entries
  <1>4. Reserved(p) > 0 /\ Reserved(p) = q + Weight(journal, Pending(p) \ {d})
    BY <1>1, PendingIsReserved DEF PositionInv
  <1>5. /\ ~closeout[p] /\ state[p] = "filled" /\ HasBasis(p)
        /\ Reduced(p) + Reserved(p) <= Quantity[p]
    BY <1>1, <1>4 DEF PositionInv, PositionsAreSound
  <1>6. /\ journal'[d] # None /\ journal'[d].receipt = answer /\ journal'[d].quantity = q
        /\ \A x \in Ideas : x # d => journal'[x] = journal[x]
    <2>1. journal[d] \in Entries
      BY <1>1, <1>2
    <2>2. journal'[d] \in Entries /\ journal'[d].receipt = answer /\ journal'[d].quantity = q
      BY <2>1 DEF Types, Entries, Ideas
    <2> QED
      BY <2>2, RunnerAssumption DEF Types
  <1> HIDE DEF q
  <1>7. \A t \in Openers : Against(t)' = Against(t)
    BY <1>6 DEF Against, Ideas
  <1>8. \A t \in Openers : t # p => Booked(t)' = Booked(t) /\ Pending(t)' = Pending(t)
    BY <1>6 DEF Against, Booked, Pending, Ideas
  <1>9. /\ Booked(p)' = IF answer = "filled" THEN Booked(p) \cup {d} ELSE Booked(p)
        /\ Pending(p)' = IF answer = "working" THEN Pending(p) ELSE Pending(p) \ {d}
    <2>1. \A x \in Against(p) : x # d => journal'[x] = journal[x]
      BY <1>2, <1>6 DEF Ideas
    <2>2. answer \in {"filled", "dead", "working"} /\ answer # None
      BY RunnerAssumption DEF Receipts
    <2>3. Booked(p)' = {x \in Against(p) : journal'[x].receipt = "filled"}
      BY <1>1, <1>7 DEF Booked
    <2>4. Pending(p)' = {x \in Against(p) : journal'[x].receipt \in {None, "working"}}
      BY <1>1, <1>7 DEF Pending
    <2>5. Booked(p) = {x \in Against(p) : journal[x].receipt = "filled"}
      BY DEF Booked
    <2>6. Pending(p) = {x \in Against(p) : journal[x].receipt \in {None, "working"}}
      BY DEF Pending
    <2>7. Booked(p)' = IF answer = "filled" THEN Booked(p) \cup {d} ELSE Booked(p)
      BY <1>1, <1>6, <2>1, <2>2, <2>3, <2>5
    <2>8. Pending(p)' = IF answer = "working" THEN Pending(p) ELSE Pending(p) \ {d}
      BY <1>1, <1>6, <2>1, <2>2, <2>4, <2>6
    <2> QED
      BY <2>7, <2>8
  <1>10. \A x \in Reducers : journal[x] # None => journal'[x].quantity = journal[x].quantity
    BY <1>6 DEF Ideas, q
  <1>11. \A t \in Openers : \A x \in Booked(t) \cup Pending(t) : k[x].quantity = journal[x].quantity
    BY <1>0, <1>10 DEF Booked, Pending, Against
  <1>12. \A t \in Openers : t # p => Reduced(t)' = Reduced(t) /\ Reserved(t)' = Reserved(t)
    <2> TAKE t \in Openers
    <2>1. /\ Weight(k, Pending(t)) = Weight(journal, Pending(t))
          /\ Weight(k, Booked(t)) = Weight(journal, Booked(t))
      BY <1>11, WeightAlike
    <2> QED
      BY <1>0, <1>8, <2>1 DEF Reduced, Reserved, QuantityOf, Weight
  <1>13. /\ Weight(k, Booked(p)) = Weight(journal, Booked(p))
         /\ Weight(k, Pending(p)) = Weight(journal, Pending(p))
         /\ Weight(k, Pending(p) \ {d}) = Weight(journal, Pending(p) \ {d})
    BY <1>1, <1>11, WeightAlike
  <1>14. Weight(k, Booked(p) \cup {d}) = q + Weight(journal, Booked(p))
    <2>1. IsFiniteSet(Booked(p) \cup {d})
      BY <1>2, FS_AddElement
    <2>2. \A x \in Booked(p) \cup {d} : k[x].quantity \in Nat
      BY <1>0, <1>1, <1>2, <1>3, <1>6, <1>11 DEF Booked, Entries
    <2>3. Weight(k, Booked(p) \cup {d})
             = k[d].quantity + Weight(k, (Booked(p) \cup {d}) \ {d})
      BY <2>1, <2>2, WeightSplit
    <2>4. (Booked(p) \cup {d}) \ {d} = Booked(p)
      BY <1>1
    <2> QED
      BY <1>0, <1>6, <1>13, <2>3, <2>4
  <1>15. Weight(journal, Pending(p) \ {d}) \in Nat
    <2>1. IsFiniteSet(Pending(p) \ {d})
      BY <1>2, FS_RemoveElement
    <2>2. \A x \in Pending(p) \ {d} : journal[x].quantity \in Nat
      BY <1>2 DEF Pending, Entries
    <2> QED
      BY <2>1, <2>2, WeightType
  <1>16. /\ QuantityOf(Booked(p))' = Weight(k, Booked(p)')
         /\ Reserved(p)' = Weight(k, Pending(p)')
         /\ Reduced(p)' = QuantityOf(Booked(p))' + simulated[p]
         /\ Reduced(p) = QuantityOf(Booked(p)) + simulated[p]
    BY <1>0 DEF Reserved, Reduced, QuantityOf, Weight
  <1>17. /\ Reduced(p)' = IF answer = "filled" THEN Reduced(p) + q ELSE Reduced(p)
         /\ Reserved(p)' = IF answer = "working" THEN Reserved(p) ELSE Reserved(p) - q
    <2>1. CASE answer = "filled"
      <3>1. QuantityOf(Booked(p))' = q + QuantityOf(Booked(p)) /\ Reserved(p)' = Reserved(p) - q
        BY <2>1, <1>2, <1>3, <1>4, <1>9, <1>13, <1>14, <1>15, <1>16
      <3> QED
        BY <2>1, <3>1, <1>2, <1>3, <1>16
    <2>2. CASE answer # "filled"
      <3>1. QuantityOf(Booked(p))' = QuantityOf(Booked(p))
        BY <2>2, <1>2, <1>9, <1>13, <1>16
      <3>2. Reserved(p)' = IF answer = "working" THEN Reserved(p) ELSE Reserved(p) - q
        BY <1>2, <1>3, <1>4, <1>9, <1>13, <1>15, <1>16
      <3> QED
        BY <2>2, <3>1, <3>2, <1>16
    <2> QED
      BY <2>1, <2>2
  <1>18. Shape' /\ Worth' /\ \A t \in Openers : Ended(t)' /\ HasBasis(t)' = HasBasis(t)
    BY <1>3, <1>6 DEF PositionInv, Shape, Worth, Ended, HasBasis, Ideas
  <1>19. PositionsAreSound'
    <2> SUFFICES ASSUME NEW t \in Openers
                 PROVE  /\ Against(t)' # {} => state'[t] = "filled" /\ HasBasis(t)'
                        /\ Reduced(t)' + Reserved(t)' <= Quantity[t]
                        /\ closeout'[t] => Reserved(t)' = 0 /\ Reduced(t)' \in {0, Quantity[t]}
      BY DEF PositionsAreSound
    <2>1. CASE t = p
      <3>1. Reduced(p)' + Reserved(p)' <= Quantity[p]
        BY <1>2, <1>3, <1>5, <1>17
      <3> QED
        BY <2>1, <3>1, <1>5, <1>18
    <2>2. CASE t # p
      BY <2>2, <1>7, <1>12, <1>18 DEF PositionInv, PositionsAreSound
    <2> QED
      BY <2>1, <2>2
  <1>20. [Ledger!Next]_(Ledger!ledgerVars)
    <2> DEFINE O == [t \in Openers |-> HasBasis(t)]
               B == [t \in Openers |-> Reduced(t)]
               F == [t \in Openers |-> HasBasis(t) /\ closeout[t]]
    <2>1. O' = O /\ F' = F
      BY <1>18
    <2>2. CASE answer # "filled"
      <3>1. B' = B
        BY <2>2, <1>12, <1>17
      <3> QED
        BY <2>1, <3>1 DEF Ledger!ledgerVars
    <2>3. CASE answer = "filled"
      <3> DEFINE n == Reduced(p) + q
      <3>1. Reduced(p)' = n
        BY <2>3, <1>17
      <3>2. n \in (Reduced(p) + 1)..Quantity[p]
        BY <2>3, <1>2, <1>3, <1>4, <1>5, <1>15
      <3> HIDE DEF n
      <3>3. B' = [B EXCEPT ![p] = n]
        BY <3>1, <1>1, <1>12
      <3>4. B[p] = Reduced(p) /\ O[p] /\ ~F[p]
        BY <1>1, <1>5
      <3>5. Ledger!Reduce(p)
        BY <2>1, <3>2, <3>3, <3>4, <1>1 DEF Ledger!Reduce
      <3> QED
        BY <3>5, <1>1 DEF Ledger!Next
    <2> QED
      BY <2>2, <2>3
  <1> QED
    BY <1>18, <1>19, <1>20 DEF PositionInv

\* record_simulated_close: what is left of the position is resolved at once.
LEMMA PositionResolved ==
    ASSUME Types, PositionInv, NEW p \in Openers,
           HasBasis(p), ~closeout[p], Reserved(p) = 0,
           closeout' = [closeout EXCEPT ![p] = TRUE],
           simulated' = [simulated EXCEPT ![p] = Remaining(p)],
           UNCHANGED <<state, fill, journal>>,
           turn'.exit # None => turn'.exit.idea \in Openers
    PROVE  PositionInv' /\ [Ledger!Next]_(Ledger!ledgerVars)
  <1>1. /\ Reduced(p) \in Nat /\ Reserved(p) \in Nat /\ Quantity[p] \in Nat
        /\ QuantityOf(Booked(p)) \in Nat
        /\ closeout \in [Ideas -> BOOLEAN] /\ simulated \in [Openers -> Nat]
    BY SumsAreNatural DEF PositionInv, Shape
  <1>2. Reduced(p) + Reserved(p) <= Quantity[p] /\ state[p] = "filled" /\ simulated[p] = 0
    BY <1>1 DEF PositionInv, PositionsAreSound, Ended
  <1>3. Remaining(p) = Quantity[p] - Reduced(p) /\ Reduced(p) = QuantityOf(Booked(p))
    BY <1>1, <1>2 DEF Remaining, Reduced
  <1>4. Remaining(p) \in Nat
    BY <1>1, <1>2, <1>3
  <1>5. /\ closeout' \in [Ideas -> BOOLEAN] /\ closeout'[p] = TRUE
        /\ simulated' \in [Openers -> Nat] /\ simulated'[p] = Quantity[p] - Reduced(p)
        /\ \A t \in Openers : t # p => closeout'[t] = closeout[t] /\ simulated'[t] = simulated[t]
    BY <1>1, <1>3, <1>4 DEF Ideas
  <1>6. SameReductions
    BY DEF SameReductions
  <1>7. \A t \in Openers : /\ Against(t)' = Against(t) /\ Reserved(t)' = Reserved(t)
                           /\ QuantityOf(Booked(t))' = QuantityOf(Booked(t))
    BY <1>6, SameSums DEF Reserved
  <1>8. \A t \in Openers : t # p => Reduced(t)' = Reduced(t)
    BY <1>5, <1>7 DEF Reduced
  <1>9. Reduced(p)' = Quantity[p]
    <2>1. Reduced(p)' = QuantityOf(Booked(p)) + simulated'[p]
      BY <1>7 DEF Reduced
    <2> QED
      BY <2>1, <1>1, <1>3, <1>5
  <1>10. \A t \in Openers : HasBasis(t)' = HasBasis(t)
    BY DEF HasBasis
  <1>11. Shape' /\ Worth' /\ \A t \in Openers : Ended(t)'
    BY <1>2, <1>5, <1>10 DEF PositionInv, Shape, Worth, Ended, Terminal
  <1>12. PositionsAreSound'
    <2> SUFFICES ASSUME NEW t \in Openers
                 PROVE  /\ Against(t)' # {} => state'[t] = "filled" /\ HasBasis(t)'
                        /\ Reduced(t)' + Reserved(t)' <= Quantity[t]
                        /\ closeout'[t] => Reserved(t)' = 0 /\ Reduced(t)' \in {0, Quantity[t]}
      BY DEF PositionsAreSound
    <2>1. CASE t = p
      BY <2>1, <1>1, <1>2, <1>7, <1>9, <1>10
    <2>2. CASE t # p
      BY <2>2, <1>5, <1>7, <1>8, <1>10 DEF PositionInv, PositionsAreSound
    <2> QED
      BY <2>1, <2>2
  <1>13. Ledger!Settle(p)
    <2> DEFINE O == [t \in Openers |-> HasBasis(t)]
               B == [t \in Openers |-> Reduced(t)]
               F == [t \in Openers |-> HasBasis(t) /\ closeout[t]]
    <2>1. O' = O /\ O[p] /\ ~F[p]
      BY <1>10
    <2>2. B' = [B EXCEPT ![p] = Quantity[p]]
      BY <1>8, <1>9
    <2>3. F' = [F EXCEPT ![p] = TRUE]
      BY <1>5, <1>10
    <2> QED
      BY <2>1, <2>2, <2>3 DEF Ledger!Settle
  <1> QED
    BY <1>11, <1>12, <1>13 DEF PositionInv, Ledger!Next

-----------------------------------------------------------------------------
(* Every step.                                                             *)

Kept == PositionInv' /\ [Ledger!Next]_(Ledger!ledgerVars)

LEMMA QuietKept ==
    ASSUME Types, PositionInv, QuietBooks
    PROVE  Kept
  BY QuietBooksStep, QuietBooksLedger DEF Kept

\* execute, first transaction, by any executor.
LEMMA AdmitKept ==
    ASSUME Types, PositionInv, NEW r, NEW d \in Ideas, Admit(r, d),
           turn'.exit # None => turn'.exit.idea \in Openers
    PROVE  Kept
  <1>1. /\ Executable(d) /\ journal[d] = None /\ state[d] = "approved"
        /\ state' = [state EXCEPT ![d] = "submitted"]
        /\ journal' = [journal EXCEPT ![d] = Admitted(d)]
        /\ UNCHANGED <<fill, closeout, simulated>>
    BY DEF Admit, Executable
  <1>2. CASE d \in Reducers
    BY <1>1, <1>2, ReductionAdmitted DEF Executable, Kept
  <1>3. CASE d \in Openers
    <2>1. SameReductions
      BY <1>1, <1>3, IdeaAssumption DEF SameReductions, Types, Ideas
    <2>2. \A t \in Openers : Lasting(t)
      BY <1>1 DEF Lasting, Terminal, Types, Ideas
    <2>3. OneMoves
      BY <1>1 DEF OneMoves
    <2>4. QuietBooks
      BY <1>1, <2>1, <2>2, <2>3 DEF QuietBooks, PositionInv, Shape
    <2> QED
      BY <2>4, QuietKept
  <1> QED
    BY <1>2, <1>3 DEF Ideas

LEMMA ReceiptKept ==
    ASSUME ExecInv, PositionInv, NEW r \in Runners, RecordReceipt(r)
    PROVE  Kept
  <1> DEFINE d == exec[r].idea
  <1>1. /\ Types /\ exec[r].pc = "receipt" /\ d \in Ideas /\ exec[r].answer \in Receipts
        /\ journal[d] # None /\ journal[d].receipt = None
        /\ journal' = [journal EXCEPT ![d].receipt = exec[r].answer]
        /\ UNCHANGED <<state, fill, closeout, simulated, turn>>
    BY DEF RecordReceipt, ExecInv, Types, Execs, IdleExec
  <1> HIDE DEF d
  <1>2. CASE d \in Reducers
    BY <1>1, <1>2, ReductionAnswered DEF Kept
  <1>3. CASE d \in Openers
    <2>1. SameReductions
      BY <1>1, <1>3, IdeaAssumption DEF SameReductions, Types, Ideas
    <2>2. OneMoves /\ \A t \in Openers : Lasting(t)
      BY <1>1 DEF OneMoves, Lasting
    <2>3. QuietBooks
      BY <1>1, <2>1, <2>2 DEF QuietBooks, PositionInv, Shape
    <2> QED
      BY <1>1, <2>3, QuietKept
  <1> QED
    BY <1>1, <1>2, <1>3 DEF Ideas

LEMMA TurnKept ==
    ASSUME ExecInv, PositionInv, TurnNext
    PROVE  Kept
  <1>1. Types
    BY DEF ExecInv
  <1>2. CASE \/ StartTurn \/ StartExits \/ EndTurn
             \/ \E d \in Ideas : CycleSkips(d)
             \/ \E d \in Openers : ScoreExit(d) \/ NoExit(d)
    <2>1. UNCHANGED ledger
      BY <1>2 DEF StartTurn, StartExits, EndTurn, CycleSkips, ScoreExit, NoExit
    <2>2. turn'.exit # None => turn'.exit.idea \in Openers
      BY <1>2 DEF StartTurn, StartExits, EndTurn, CycleSkips, ScoreExit, NoExit, Enter, Done,
                  TurnEnds, IdleTurn
    <2> QED
      BY <1>1, <2>1, <2>2, NoBooks, QuietKept
  <1>3. CASE Attribute
    BY <1>1, <1>3, AttributeBooks, QuietKept
  <1>4. CASE RecordExit
    <2> DEFINE p == turn.exit.idea
    <2>1. turn.exit # None /\ p \in Openers
      BY <1>4 DEF RecordExit, PositionInv, Shape
    <2>2. turn'.exit = None
      BY <1>4 DEF RecordExit, Done, TurnEnds, IdleTurn
    <2>3. CASE UNCHANGED ledger
      BY <1>1, <2>2, <2>3, NoBooks, QuietKept
    <2>4. CASE /\ HasBasis(p) /\ ~closeout[p] /\ Reserved(p) = 0
               /\ closeout' = [closeout EXCEPT ![p] = TRUE]
               /\ simulated' = [simulated EXCEPT ![p] = Remaining(p)]
               /\ UNCHANGED <<state, fill, journal>>
      BY <1>1, <2>1, <2>2, <2>4, PositionResolved DEF Kept
    <2>5. CASE /\ ~HasBasis(p) /\ MayClose(p)
               /\ closeout' = [closeout EXCEPT ![p] = TRUE]
               /\ UNCHANGED <<state, fill, journal, simulated>>
      <3>1. Reserved(p) = 0 /\ Reduced(p) \in {0, Quantity[p]} /\ state[p] \in Terminal
        BY <1>1, <2>1, <2>5, MayCloseMeans
      <3>2. closeout \in [Ideas -> BOOLEAN]
        BY DEF PositionInv, Shape
      <3>3. \A t \in Openers : t # p => closeout'[t] = closeout[t]
        BY <2>5, <3>2 DEF Ideas
      <3>4. \A t \in Openers : Lasting(t)
        BY <2>5, <3>1, <3>3 DEF Lasting
      <3>5. OneMoves
        BY <2>1, <2>5, <3>3 DEF OneMoves, Ideas
      <3>6. SameReductions
        BY <2>5 DEF SameReductions
      <3>7. QuietBooks
        BY <2>2, <2>5, <3>2, <3>4, <3>5, <3>6 DEF QuietBooks
      <3> QED
        BY <1>1, <3>7, QuietKept
    <2> QED
      BY <1>4, <2>3, <2>4, <2>5 DEF RecordExit
  <1>5. ASSUME NEW d \in Ideas, Recover(d) PROVE Kept
    <2>1. InPhase("recover") /\ d \in turn.todo
      BY <1>5 DEF Recover
    <2>2. journal[d] # None
      BY <2>1 DEF ExecInv, Replayed, InPhase
    <2>3. turn'.exit = None
      BY <1>5 DEF Recover, Done, TurnEnds, IdleTurn
    <2>4. CASE Reconcile(d)
      BY <1>1, <2>2, <2>3, <2>4, ReconcileBooks, QuietKept
    <2>5. CASE UNCHANGED ledger
      BY <1>1, <2>3, <2>5, NoBooks, QuietKept
    <2> QED
      BY <1>5, <2>4, <2>5 DEF Recover
  <1>6. ASSUME NEW d \in Ideas, CycleExecutes(d) PROVE Kept
    <2>1. Admit(Cycle, d) /\ turn'.exit = None
      BY <1>6 DEF CycleExecutes, Done
    <2> QED
      BY <1>1, <2>1, AdmitKept
  <1>7. ASSUME NEW E \in SUBSET Ideas, ExpireDue(E) PROVE Kept
    <2>1. /\ state' = [d \in Ideas |-> IF d \in E THEN "expired" ELSE state[d]]
          /\ \A d \in E : state[d] \in {"open", "approved"}
          /\ UNCHANGED <<fill, closeout, journal, simulated>>
          /\ turn'.exit = None
      BY <1>7 DEF ExpireDue, Enter
    <2>2. SameReductions /\ OneMoves
      BY <2>1 DEF SameReductions, OneMoves
    <2>3. \A t \in Openers : Lasting(t)
      BY <2>1 DEF Lasting, Terminal, Ideas
    <2>4. QuietBooks
      BY <2>1, <2>2, <2>3 DEF QuietBooks, PositionInv, Shape
    <2> QED
      BY <1>1, <2>4, QuietKept
  <1> QED
    BY <1>2, <1>3, <1>4, <1>5, <1>6, <1>7 DEF TurnNext

LEMMA PositionInvNext ==
    ASSUME ExecInv, PositionInv, [ExecNext]_execVars
    PROVE  PositionInv' /\ [Ledger!Next]_(Ledger!ledgerVars)
  <1>1. Types
    BY DEF ExecInv
  <1>2. turn.exit # None => turn.exit.idea \in Openers
    BY DEF PositionInv, Shape
  <1>3. CASE ReviewNext
    BY <1>1, <1>3, ReviewBooks, QuietKept DEF Kept
  <1>4. CASE TurnNext
    BY <1>4, TurnKept DEF Kept
  <1>5. ASSUME NEW r \in Others, NEW d \in Ideas, Admit(r, d), UNCHANGED turn PROVE Kept
    BY <1>1, <1>2, <1>5, AdmitKept
  <1>6. ASSUME NEW r \in Runners, RecordReceipt(r) PROVE Kept
    BY <1>6, ReceiptKept
  <1>7. ASSUME NEW r \in Runners, ReconcileReceipt(r) PROVE Kept
    <2>1. /\ exec[r].pc = "reconcile" /\ exec[r].idea \in Ideas
          /\ Reconcile(exec[r].idea) /\ UNCHANGED turn
      BY <1>1, <1>7 DEF ReconcileReceipt, Types, Execs, IdleExec
    <2>2. journal[exec[r].idea] # None
      BY <2>1 DEF ExecInv, Calls, Call
    <2>3. QuietBooks
      BY <1>1, <1>2, <2>1, <2>2, ReconcileBooks
    <2> QED
      BY <1>1, <2>3, QuietKept
  <1>8. ASSUME NEW r \in Runners,
               \/ \E answer \in Receipts \cup {None} : PlaceOrder(r, answer)
               \/ ReconcileFails(r) \/ Crash(r)
        PROVE  Kept
    <2>1. UNCHANGED ledger /\ (turn' = turn \/ turn'.exit = None)
      BY <1>8 DEF PlaceOrder, ReconcileFails, Crash, IdleTurn
    <2>2. QuietBooks
      BY <1>2, <2>1, NoBooks
    <2> QED
      BY <1>1, <2>2, QuietKept
  <1>9. CASE UNCHANGED execVars
    <2>1. QuietBooks
      BY <1>2, <1>9, NoBooks DEF execVars
    <2> QED
      BY <1>1, <2>1, QuietKept DEF Kept
  <1> QED
    BY <1>3, <1>4, <1>5, <1>6, <1>7, <1>8, <1>9 DEF ExecNext, Progress, Kept

-----------------------------------------------------------------------------
\* A position's reductions never exceed it, together with what is reserved, and
\* its closeout agrees with them, for any reductions of any sizes and however
\* executors, cycles, operators and crashes interleave.
THEOREM PositionsStaySound == ExecSpec => []PositionsAreSound
  <1>1. ExecInit => ExecInv /\ PositionInv
    BY ExecInvInit, PositionInvInit
  <1>2. ExecInv /\ PositionInv /\ [ExecNext]_execVars => ExecInv' /\ PositionInv'
    BY ExecInvNext, PositionInvNext
  <1>3. PositionInv => PositionsAreSound
    BY DEF PositionInv
  <1> QED
    BY <1>1, <1>2, <1>3, PTL DEF ExecSpec

\* The paper ledger implements PositionLedger: a position is opened once, reduced
\* by no more than it holds, settled once, and closed for good.
THEOREM ExecutionKeepsTheLedger == ExecSpec => LedgerIsKept
  <1>1. ExecInit => ExecInv /\ PositionInv
    BY ExecInvInit, PositionInvInit
  <1>2. ExecInit => Ledger!Init
    <2> SUFFICES ASSUME ExecInit PROVE Ledger!Init
      OBVIOUS
    <2>1. \A t \in Openers : /\ HasBasis(t) = FALSE /\ closeout[t] = FALSE
                             /\ Booked(t) = {} /\ simulated[t] = 0
      BY RunnerAssumption DEF ExecInit, HasBasis, Fills, Booked, Against, Ideas
    <2>2. QuantityOf({}) = 0
      BY SumOfNone DEF QuantityOf
    <2>3. \A t \in Openers : Reduced(t) = 0
      BY <2>1, <2>2 DEF Reduced
    <2> QED
      BY <2>1, <2>3 DEF Ledger!Init
  <1>3. ExecInv /\ PositionInv /\ [ExecNext]_execVars
           => ExecInv' /\ PositionInv' /\ [Ledger!Next]_(Ledger!ledgerVars)
    BY ExecInvNext, PositionInvNext
  <1> QED
    BY <1>1, <1>2, <1>3, PTL DEF ExecSpec, LedgerIsKept, Ledger!Spec

-----------------------------------------------------------------------------
(* Types.                                                                  *)

Turns == [phase: Phases, todo: SUBSET Ideas, exit: Exits \cup {None}]
TurnTyped == turn \in Turns /\ crashes \in 0..MaxCrashes

\* What is left of a position is a quantity.
LEMMA RemainingTyped ==
    ASSUME Types, PositionInv, NEW t \in Openers PROVE Remaining(t) \in Nat
  <1>1. Reduced(t) \in Nat /\ Reserved(t) \in Nat /\ Quantity[t] \in Nat
    BY SumsAreNatural DEF PositionInv
  <1>2. Reduced(t) + Reserved(t) <= Quantity[t]
    BY DEF PositionInv, PositionsAreSound
  <1> QED  BY <1>1, <1>2 DEF Remaining

LEMMA TurnStaysTyped ==
    ASSUME Types, PositionInv, TurnTyped, TurnNext PROVE TurnTyped'
  <1>1. /\ IdleTurn \in Turns
        /\ \A p \in Phases, S \in SUBSET Ideas : [phase |-> p, todo |-> S, exit |-> None] \in Turns
        /\ turn \in Turns /\ crashes \in 0..MaxCrashes
        /\ turn.phase \in Phases /\ turn.todo \in SUBSET Ideas
    BY DEF TurnTyped, Turns, IdleTurn, Phases
  <1>2. \A d : Done(d) => turn' \in Turns
    BY <1>1 DEF Done
  <1>3. TurnEnds => turn' \in Turns
    BY <1>1 DEF TurnEnds
  <1>4. \A p \in Phases, S \in SUBSET Ideas : Enter(p, S) => turn' \in Turns
    BY <1>1 DEF Enter
  <1>5. CASE StartTurn \/ Attribute \/ StartExits \/ EndTurn
    BY <1>1, <1>3, <1>4, <1>5
       DEF StartTurn, Attribute, StartExits, EndTurn, Quietly, TurnTyped, Phases, Ideas
  <1>6. CASE RecordExit
    BY <1>1, <1>2, <1>3, <1>6 DEF RecordExit, Quietly, TurnTyped
  <1>7. ASSUME NEW d \in Ideas, Recover(d) \/ CycleExecutes(d) \/ CycleSkips(d) PROVE TurnTyped'
    BY <1>1, <1>2, <1>3, <1>7 DEF Recover, CycleExecutes, CycleSkips, Admit, Quietly, TurnTyped
  <1>8. ASSUME NEW d \in Openers, ScoreExit(d) PROVE TurnTyped'
    <2>1. Remaining(d) \in Nat /\ Quantity[d] \in Nat
      BY RemainingTyped, QuantityAssumption
    <2>2. PICK q \in Nat : turn' = [phase |-> turn.phase, todo |-> turn.todo,
                                    exit |-> [idea |-> d, quantity |-> q]]
      BY <1>8, <2>1 DEF ScoreExit
    <2>3. [idea |-> d, quantity |-> q] \in Exits
      BY DEF Exits
    <2> QED  BY <1>1, <1>8, <2>2, <2>3 DEF ScoreExit, Quietly, TurnTyped, Turns
  <1>9. ASSUME NEW d \in Openers, NoExit(d) PROVE TurnTyped'
    BY <1>1, <1>2, <1>9 DEF NoExit, Quietly, TurnTyped
  <1>10. ASSUME NEW E \in SUBSET Ideas, ExpireDue(E) PROVE TurnTyped'
    BY <1>1, <1>4, <1>10 DEF ExpireDue, Quietly, TurnTyped, Phases
  <1> QED  BY <1>5, <1>6, <1>7, <1>8, <1>9, <1>10 DEF TurnNext

LEMMA TurnTypedNext ==
    ASSUME Types, PositionInv, TurnTyped, [ExecNext]_execVars PROVE TurnTyped'
  <1>1. CASE TurnNext
    BY <1>1, TurnStaysTyped
  <1>2. CASE ReviewNext \/ UNCHANGED execVars
    BY <1>2 DEF ReviewNext, Approve, MarkSubmitted, MarkFilled, ReconcileStoreFill,
                RecordCloseout, Withdraw, Outside, TurnTyped, Turns, execVars
  <1>3. ASSUME NEW r \in Others, NEW d \in Ideas, Admit(r, d), UNCHANGED turn PROVE TurnTyped'
    BY <1>3 DEF Admit, TurnTyped, Turns
  <1>4. IdleTurn \in Turns
    BY DEF Turns, IdleTurn, Phases
  <1>5. ASSUME NEW r \in Runners, Progress(r) PROVE TurnTyped'
    BY <1>4, <1>5 DEF Progress, PlaceOrder, RecordReceipt, ReconcileReceipt, ReconcileFails,
                      TurnTyped, Turns
  <1>6. ASSUME NEW r \in Runners, Crash(r) PROVE TurnTyped'
    <2>1. crashes' \in 0..MaxCrashes
      BY <1>6, RunnerAssumption DEF Crash, TurnTyped
    <2> QED  BY <1>4, <1>6, <2>1 DEF Crash, TurnTyped, Turns
  <1> QED  BY <1>1, <1>2, <1>3, <1>5, <1>6 DEF ExecNext

\* States, entries, executors and the turn of the cycle have their types; an exit is
\* scored for what is left of a position, which is never less than nothing.
THEOREM ExecTypes == ExecSpec => []ExecTypeOK
  <1>1. ExecInit => ExecInv /\ PositionInv /\ TurnTyped
    <2>1. ExecInit => TurnTyped
      BY RunnerAssumption DEF ExecInit, TurnTyped, Turns, IdleTurn, Phases
    <2> QED  BY <2>1, ExecInvInit, PositionInvInit
  <1>2. ExecInv /\ PositionInv /\ TurnTyped /\ [ExecNext]_execVars
           => ExecInv' /\ PositionInv' /\ TurnTyped'
    BY ExecInvNext, PositionInvNext, TurnTypedNext DEF ExecInv
  <1>3. ExecInv /\ PositionInv /\ TurnTyped => ExecTypeOK
    BY DEF ExecInv, Types, PositionInv, Shape, TurnTyped, Turns, ExecTypeOK
  <1> QED
    BY <1>1, <1>2, <1>3, PTL DEF ExecSpec
=============================================================================
