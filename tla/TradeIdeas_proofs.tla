-------------------------- MODULE TradeIdeas_proofs --------------------------
(***************************************************************************)
(* Proofs about TradeIdeas, for any ideas, lanes, records and budgets: the *)
(* machine acts on its own only within its bounds, a breach of the budget  *)
(* ends autonomy, and every approval fits the budget.  For the first       *)
(* two it is enough that the losses depend on the closeouts, the day       *)
(* and the filled ideas only; the third adds up what is out.               *)
(***************************************************************************)
EXTENDS TradeIdeas, FiniteSums, TLAPS

\* The states at and after an approval.
Past == {"approved", "submitted"} \cup Terminal

\* The types that the steps need.
Types ==
    /\ state \in [Ideas -> States]
    /\ approver \in [Ideas -> Actors \cup {None}]
    /\ lane = [l \in Lanes |-> lane[l]]

\* A lane that works has an idea, and one that has seen its approval has an idea
\* that was approved: no step takes an idea back behind its approval.
LanesKnow ==
    \A l \in Lanes :
        /\ lane[l].pc # "idle" => lane[l].idea \in Ideas
        /\ lane[l].pc \in {"approved", "executable", "execution_denied"} =>
               state[lane[l].idea] \in Past

IdeaInv == Types /\ LanesKnow

-----------------------------------------------------------------------------
(* The lifecycle.                                                          *)

\* No idea goes back behind its approval.
Onward == \A d \in Ideas : state[d] \in Past => state'[d] \in Past

\* An appended event keeps the states' type and the direction, and changes one idea.
LEMMA AppendMoves ==
    ASSUME Types, NEW d \in Ideas, NEW s, NEW h, AppendAudit(d, s, h)
    PROVE  /\ state' \in [Ideas -> States]
           /\ Onward
           /\ s \in NextStates[state[d]]
           /\ state'[d] = s
           /\ \A e \in Ideas : e # d => state'[e] = state[e]
  <1>1. state[d] \in States /\ s \in NextStates[state[d]] /\ s \in States
    BY DEF AppendAudit, Types, NextStates, States, Terminal
  <1>2. state[d] \in Past => s \in Past
    BY <1>1 DEF NextStates, States, Terminal, Past
  <1>3. state' = [state EXCEPT ![d] = s]
    BY DEF AppendAudit
  <1> QED BY <1>1, <1>2, <1>3 DEF Types, Onward

\* The approvers keep their type, and only those of E change.
LEMMA ClearsMoves ==
    ASSUME Types, NEW E, NEW a \in Actors \cup {None}, Clears(E, a)
    PROVE  /\ approver' \in [Ideas -> Actors \cup {None}]
           /\ \A e \in Ideas : approver'[e] = IF e \in E THEN a ELSE approver[e]
  BY DEF Clears, Types

-----------------------------------------------------------------------------
(* What a step may do.                                                     *)

\* The two properties, as what one step does.
InBounds ==
    \A d \in Ideas :
        \/ d \in Approvals /\ approver'[d] = "system"
        \/ state'[d] = "submitted" /\ state[d] # "submitted" /\ act' = "executed" /\ approver[d] = "system"
        => logOk /\ level = "bounded" /\ ~Breached
Ends ==
    act' = "refused" \/ Approvals # {} \/ budget' # budget =>
        ~(logOk /\ level' = "bounded" /\ Breached')

Moves ==
    /\ state' \in [Ideas -> States]
    /\ approver' \in [Ideas -> Actors \cup {None}]
    /\ Onward

\* Idea d passed the policy with the others that the step approves counted in.
WeighedBy(d, others, actor, m) ==
    /\ Intact(d) /\ d \notin others /\ \A e \in others : state[e] = "proposed"
    /\ Admitted(d, stored[d], actor, m, budget, ContextOf(d, others),
                Tickets + Cardinality(others))
    /\ state' = [e \in Ideas |-> IF e \in others \cup {d} THEN "approved" ELSE state[e]]
    /\ audited' \in {audited, [audited EXCEPT ![d] = stored[d]]}
    /\ closeout' = closeout
Weighed ==
    Approvals # {} => \E d \in Ideas, others \in SUBSET Ideas, actor \in Actors, m \in Levels :
                          WeighedBy(d, others, actor, m)

Fine == Moves /\ InBounds /\ Ends /\ Weighed

\* A step without approval, refusal or new budget decides nothing.
LEMMA QuietIsFine ==
    ASSUME Moves, Approvals = {}, act' = "other", budget' = budget
    PROVE  Fine
  BY DEF Fine, InBounds, Ends, Weighed

\* The losses depend on the closeouts, the day and the filled ideas only.
LEMMA SameLosses ==
    ASSUME closeout' = closeout, day' = day,
           \A d \in Ideas : state'[d] = "filled" <=> state[d] = "filled"
    PROVE  LossOf(Settled)' = LossOf(Settled) /\ LossOf(SettledToday)' = LossOf(SettledToday)
  <1>1. Settled' = Settled
    BY DEF Settled
  <1>2. SettledToday' = SettledToday
    BY <1>1 DEF SettledToday
  <1> QED BY <1>1, <1>2 DEF LossOf

\* Autonomy that a decision leaves in place is autonomy without a breach.
LEMMA BoundedLevel ==
    /\ logOk /\ LevelNow = "bounded" => level = "bounded" /\ ~Breached
    /\ Mode(LevelNow) = "bounded" => logOk /\ LevelNow = "bounded"
    /\ Mode(LevelNow) = "bounded" => level = "bounded" /\ ~Breached /\ LevelNow = level
  <1>1. LevelNow = IF logOk /\ level = "bounded" /\ Breached THEN "human_approved" ELSE level
    BY DEF LevelNow, Ratcheted, Breached
  <1>2. Mode(LevelNow) = IF logOk THEN LevelNow ELSE "research_only"
    BY DEF Mode
  <1> QED BY <1>1, <1>2

\* A refusal keeps the lowered level.
LEMMA RefusalIsFine ==
    ASSUME Types, Refuse
    PROVE  Fine /\ state' = state
  <1>1. state' = state /\ approver' = approver /\ closeout' = closeout /\ budget' = budget
        /\ logOk' = logOk /\ day' = day /\ act' = "refused" /\ level' = LevelNow
    BY DEF Refuse, Acts, ideaVars, clockVars
  <1>2. Breached' = Breached
    BY <1>1, SameLosses DEF Breached, Breach
  <1>3. Ends
    BY <1>1, <1>2, BoundedLevel DEF Ends
  <1>4. Approvals = {}
    BY <1>1 DEF Approvals
  <1> QED BY <1>1, <1>3, <1>4 DEF Fine, Moves, InBounds, Onward, Types, Weighed

\* A recorded approval of an admitted idea.
LEMMA ApprovalIsFine ==
    ASSUME Types, NEW d \in Ideas, NEW actor \in Actors, AdmittedNow(d, actor),
           level' = LevelNow, Approve(d, actor)
    PROVE  Fine /\ state'[d] = "approved"
  <1>1. budget' = budget /\ logOk' = logOk /\ closeout' = closeout /\ day' = day /\ act' = "other"
    BY DEF Approve, Acts, Step, Forget
  <1>2. AppendAudit(d, "approved", stored[d])
    BY DEF Approve, Step
  <1>3. Moves
    BY <1>2, AppendMoves, ClearsMoves DEF Approve, Moves
  <1>4. \A e \in Ideas : state'[e] = "filled" <=> state[e] = "filled"
    BY <1>2, AppendMoves DEF NextStates, States, Terminal
  <1>5. Breached' = Breached
    BY <1>1, <1>4, SameLosses DEF Breached, Breach
  <1>6. Ends
    BY <1>1, <1>5, BoundedLevel DEF Ends
  <1>7. \A e \in Approvals : e = d
    BY <1>2, AppendMoves, ClearsMoves DEF Approve, Approvals
  <1>8. approver'[d] = "system" => Mode(LevelNow) = "bounded"
    BY ClearsMoves DEF Approve, AdmittedNow, Admitted, MayApprove, Actors
  <1>9. InBounds
    BY <1>1, <1>7, <1>8, BoundedLevel DEF InBounds
  <1>10. Weighed
    <2>1. Tickets + Cardinality({}) = Tickets
      <3>1. IsFiniteSet({e \in Ideas : state[e] = "approved"})
        BY FiniteIdeasAssumption, FS_Subset
      <3> QED BY <3>1, FS_EmptySet, FS_CardinalityType DEF Tickets
    <2>2. Intact(d) /\ closeout' = closeout /\ audited' = [audited EXCEPT ![d] = stored[d]]
      BY <1>1, <1>2 DEF Approve, Step, AppendAudit
    <2>3. state' = [e \in Ideas |-> IF e \in {} \cup {d} THEN "approved" ELSE state[e]]
      BY <1>2 DEF AppendAudit, Types
    <2>4. PICK m : Admitted(d, stored[d], actor, m, budget, ContextOf(d, {}), Tickets)
      BY DEF AdmittedNow
    <2>5. m \in Levels
      BY <2>4 DEF Admitted, MayApprove, Levels
    <2>6. WeighedBy(d, {}, actor, m)
      BY <2>1, <2>2, <2>3, <2>4 DEF WeighedBy
    <2> QED BY <2>5, <2>6 DEF Weighed
  <1> QED BY <1>2, <1>3, <1>6, <1>9, <1>10, AppendMoves DEF Fine

\* A submission, by the executor or by an operator.
LEMMA SubmissionIsFine ==
    ASSUME Types, NEW d \in Ideas, NEW how \in {"executed", "other"}, Submit(d, how),
           how = "executed" /\ approver[d] = "system" => Mode(LevelNow) = "bounded"
    PROVE  Fine
  <1>1. budget' = budget /\ act' = how
    BY DEF Submit, Acts
  <1>2. AppendAudit(d, "submitted", stored[d])
    BY DEF Submit, Step
  <1>3. Moves
    BY <1>2, AppendMoves, ClearsMoves DEF Submit, Moves
  <1>4. Approvals = {}
    BY <1>2, AppendMoves, ClearsMoves DEF Submit, Approvals
  <1>5. Ends
    BY <1>1, <1>4 DEF Ends
  <1>6. InBounds
    BY <1>1, <1>2, <1>4, AppendMoves, BoundedLevel DEF InBounds
  <1> QED BY <1>3, <1>4, <1>5, <1>6 DEF Fine, Weighed

\* An event that approves nothing.
LEMMA OtherEventIsFine ==
    ASSUME Types, NEW d \in Ideas, NEW s, NEW h, AppendAudit(d, s, h), s # "approved",
           act' = "other", budget' = budget,
           Clears({d}, None) \/ UNCHANGED approver
    PROVE  Fine
  <1>1. /\ approver' \in [Ideas -> Actors \cup {None}]
        /\ \A e \in Ideas : e # d => approver'[e] = approver[e]
    BY ClearsMoves DEF Types
  <1>2. Moves
    BY <1>1, AppendMoves DEF Moves
  <1>3. Approvals = {}
    BY <1>1, AppendMoves DEF Approvals
  <1> QED BY <1>2, <1>3, QuietIsFine

\* A step that leaves the ideas alone.
LEMMA NoEventIsFine ==
    ASSUME Types, UNCHANGED <<state, approver>>, act' = "other", budget' = budget
    PROVE  Fine
  <1>1. Moves
    BY DEF Moves, Types, Onward
  <1>2. Approvals = {}
    BY DEF Approvals
  <1> QED BY <1>1, <1>2, QuietIsFine

-----------------------------------------------------------------------------
(* Every step of a person, of the service's jobs and of a lane is fine.    *)

LEMMA ReviewerIsFine ==
    ASSUME Types, ReviewerActs
    PROVE  Fine /\ UNCHANGED lane
  <1>1. CASE \E d \in Ideas : RequestChanges(d)
    BY <1>1, OtherEventIsFine DEF RequestChanges, Step, Acts, policyVars
  <1>2. ASSUME NEW d \in Ideas, HumanApproves(d)
        PROVE  Fine /\ UNCHANGED lane
    <2>1. CASE AdmittedNow(d, "human") /\ level' = LevelNow /\ Approve(d, "human")
      BY <1>2, <2>1, ApprovalIsFine DEF HumanApproves, Actors
    <2>2. CASE Refuse
      BY <1>2, <2>2, RefusalIsFine DEF HumanApproves
    <2> QED BY <1>2, <2>1, <2>2 DEF HumanApproves
  <1>3. CASE \E d \in Ideas : MarkSubmitted(d)
    BY <1>3, SubmissionIsFine DEF MarkSubmitted
  <1>4. CASE \E d \in Ideas : RecordFill(d)
    BY <1>4, OtherEventIsFine DEF RecordFill, Step, Acts, policyVars
  <1>5. CASE \E d \in Ideas, h \in Hashes : Propose(d, h)
    BY <1>5, OtherEventIsFine DEF Propose, Acts, policyVars
  <1>6. CASE \E d \in Ideas, h \in Hashes : Resubmit(d, h)
    BY <1>6, OtherEventIsFine DEF Resubmit, Acts, policyVars
  <1>7. CASE \E d \in Ideas, s \in Terminal : End(d, s)
    BY <1>7, OtherEventIsFine DEF End, Step, Acts, policyVars
  <1>8. CASE \E d \in Ideas, loss \in Losses \cup {Unknown} : RecordCloseout(d, loss)
    BY <1>8, NoEventIsFine DEF RecordCloseout, Acts, policyVars
  <1>9. ASSUME NEW b \in Budgets, UpdateBudget(b)
        PROVE  Fine /\ UNCHANGED lane
    <2>1. CASE ~logOk /\ Refuse /\ UNCHANGED lane
      BY <2>1, RefusalIsFine
    <2>2. CASE /\ logOk /\ budget' = b /\ Acts("other")
               /\ level' = IF LevelNow = "bounded"
                           THEN Ratcheted(b, LossOf(SettledToday)) ELSE LevelNow
               /\ UNCHANGED <<ideaVars, logOk, clockVars, lane>>
      <3>1. state' = state /\ approver' = approver /\ closeout' = closeout /\ day' = day
            /\ act' = "other"
        BY <2>2 DEF ideaVars, clockVars, Acts
      <3>2. LossOf(Settled)' = LossOf(Settled) /\ LossOf(SettledToday)' = LossOf(SettledToday)
        BY <3>1, SameLosses
      <3>3. Breached' = Breach(b, LossOf(SettledToday))
        BY <2>2, <3>2 DEF Breached, Breach
      <3>4. level' = "bounded" => ~Breach(b, LossOf(SettledToday))
        BY <2>2 DEF Ratcheted
      <3>5. Approvals = {}
        BY <3>1 DEF Approvals
      <3>6. Ends
        BY <3>3, <3>4 DEF Ends
      <3> QED BY <2>2, <3>1, <3>5, <3>6 DEF Fine, Moves, InBounds, Onward, Types, Weighed
    <2> QED BY <1>9, <2>1, <2>2 DEF UpdateBudget
  <1>10. CASE \E m \in Levels, actor \in Actors : SetAutonomyMode(m, actor)
    BY <1>10, NoEventIsFine DEF SetAutonomyMode, Acts, ideaVars
  <1> QED BY <1>1, <1>2, <1>3, <1>4, <1>5, <1>6, <1>7, <1>8, <1>9, <1>10 DEF ReviewerActs

\* The executor's first transaction, called by the cycle or by a lane.
LEMMA ExecuteIsFine ==
    ASSUME Types, NEW d \in Ideas, Execute(d)
    PROVE  Fine
  <1>1. CASE approver[d] = "human" /\ level' = level /\ Submit(d, "executed")
    BY <1>1, SubmissionIsFine
  <1>2. CASE approver[d] = "system" /\ Mode(LevelNow) = "bounded" /\ Submit(d, "executed")
    BY <1>2, SubmissionIsFine
  <1>3. CASE Refuse
    BY <1>3, RefusalIsFine
  <1> QED BY <1>1, <1>2, <1>3 DEF Execute

\* The idea that a pass approves last is weighed with all the others it approves.
LEMMA LastOfSweep ==
    ASSUME NEW C \in SUBSET Ideas, NEW A \in SUBSET C, A # {},
           NEW rank \in [C -> 1..Cardinality(C)],
           \A d, e \in C : rank[d] = rank[e] => d = e
    PROVE  \E d \in A : {e \in A : rank[e] < rank[d]} = A \ {d}
  <1>1. IsFiniteSet(C) /\ IsFiniteSet(A) /\ Cardinality(C) \in Nat
    BY FiniteIdeasAssumption, FS_Subset, FS_CardinalityType
  <1>2. \A e \in C : rank[e] \in Nat
    BY <1>1
  <1>3. PICK d \in A : \A e \in A : rank[e] <= rank[d]
    BY <1>1, <1>2, LargestOne
  <1>4. \A e \in A : rank[e] < rank[d] <=> e # d
    BY <1>2, <1>3
  <1> QED BY <1>4

LEMMA SweepIsWeighed ==
    ASSUME AutoApproveSweep, ~(Refuse /\ UNCHANGED lane)
    PROVE  Weighed
  <1> DEFINE C == {d \in Ideas : state[d] = "proposed"}
  <1>1. ListIntact /\ UNCHANGED <<audited, closeout>> /\ logOk
        /\ Mode(LevelNow) = "bounded"
    BY BoundedLevel DEF AutoApproveSweep
  <1>2. PICK A \in SUBSET C, rank \in [C -> 1..Cardinality(C)] :
            /\ \A d, e \in C : rank[d] = rank[e] => d = e
            /\ SweepApproves(A, rank)
            /\ state' = [d \in Ideas |-> IF d \in A THEN "approved" ELSE state[d]]
            /\ Clears(A, "system")
    BY DEF AutoApproveSweep
  <1>3. CASE A = {}
    <2>1. Approvals = {}
      BY <1>2, <1>3 DEF Clears, Approvals
    <2> QED BY <2>1 DEF Weighed
  <1>4. CASE A # {}
    <2>1. PICK d \in A : {e \in A : rank[e] < rank[d]} = A \ {d}
      BY <1>2, <1>4, LastOfSweep
    <2>2. Admitted(d, stored[d], "system", Mode(level), budget, ContextOf(d, A \ {d}),
                   Tickets + Cardinality(A \ {d}))
      BY <1>2, <2>1 DEF SweepApproves
    <2>3. Mode(level) \in Levels /\ "system" \in Actors
      BY <2>2 DEF Admitted, MayApprove, Levels, Actors
    <2>4. Intact(d)
      BY <1>1 DEF ListIntact
    <2>5. (A \ {d}) \cup {d} = A
      OBVIOUS
    <2> HIDE DEF C
    <2>6. /\ state' = [e \in Ideas |-> IF e \in (A \ {d}) \cup {d} THEN "approved" ELSE state[e]]
          /\ \A e \in A \ {d} : state[e] = "proposed"
      BY <1>2, <2>5 DEF C
    <2>7. d \in Ideas /\ A \ {d} \in SUBSET Ideas /\ d \notin A \ {d}
      BY DEF C
    <2>8. WeighedBy(d, A \ {d}, "system", Mode(level))
      BY <1>1, <2>2, <2>4, <2>6, <2>7 DEF WeighedBy
    <2> QED BY <2>3, <2>7, <2>8 DEF Weighed
  <1> QED BY <1>3, <1>4

LEMMA SweepIsFine ==
    ASSUME Types, AutoApproveSweep
    PROVE  Fine /\ UNCHANGED lane
  <1>1. CASE Refuse /\ UNCHANGED lane
    BY <1>1, RefusalIsFine
  <1>2. CASE ~(Refuse /\ UNCHANGED lane)
    <2>1. Mode(LevelNow) = "bounded" /\ act' = "other"
          /\ UNCHANGED <<closeout, budget, level, logOk, lane>>
      BY <1>2 DEF AutoApproveSweep, Acts, policyVars
    <2>2. PICK A \in SUBSET {d \in Ideas : state[d] = "proposed"} :
              /\ state' = [d \in Ideas |-> IF d \in A THEN "approved" ELSE state[d]]
              /\ Forget(A, "approved") /\ Clears(A, "system")
      BY <1>2 DEF AutoApproveSweep
    <2>3. Moves
      BY <2>2, ClearsMoves DEF Moves, Types, Onward, Past, States, Terminal, Actors
    <2>4. \A e \in Ideas : state'[e] = "filled" <=> state[e] = "filled"
      BY <2>2
    <2>5. Breached' = Breached
      BY <2>1, <2>2, <2>4, SameLosses DEF Breached, Breach, Forget
    <2>6. Ends
      BY <2>1, <2>5, BoundedLevel DEF Ends
    <2>7. InBounds
      BY <2>1, BoundedLevel DEF InBounds
    <2>8. Weighed
      BY <1>2, SweepIsWeighed
    <2> QED BY <2>1, <2>3, <2>6, <2>7, <2>8 DEF Fine
  <1> QED BY <1>1, <1>2

LEMMA MachineIsFine ==
    ASSUME Types, MachineActs
    PROVE  Fine /\ UNCHANGED lane
  <1>1. CASE AutoApproveSweep
    BY <1>1, SweepIsFine
  <1>2. CASE AutoAttribute
    BY <1>2, NoEventIsFine DEF AutoAttribute, Acts, policyVars
  <1>3. ASSUME NEW E \in SUBSET Ideas, ExpireDue(E)
        PROVE  Fine /\ UNCHANGED lane
    <2>1. /\ state' = [d \in Ideas |-> IF d \in E THEN "expired" ELSE state[d]]
          /\ Clears(E, None) /\ act' = "other" /\ budget' = budget /\ lane' = lane
      BY <1>3 DEF ExpireDue, Acts, policyVars
    <2>2. Moves
      BY <2>1, ClearsMoves DEF Moves, Types, Onward, Past, States, Terminal
    <2>3. Approvals = {}
      BY <2>1, ClearsMoves DEF Approvals
    <2> QED BY <2>1, <2>2, <2>3, QuietIsFine
  <1>4. CASE \E d \in Ideas : Execute(d) /\ UNCHANGED lane
    BY <1>4, ExecuteIsFine
  <1> QED BY <1>1, <1>2, <1>3, <1>4 DEF MachineActs

\* What the lanes know survives any step that goes onward and changes one lane.
LanesAfter == lane' = [l \in Lanes |-> lane'[l]] /\ LanesKnow'

LEMMA LaneKeeps ==
    ASSUME IdeaInv, Onward, NEW l \in Lanes, NEW r, lane' = [lane EXCEPT ![l] = r],
           r.pc # "idle" => r.idea \in Ideas,
           r.pc \in {"approved", "executable", "execution_denied"} => state'[r.idea] \in Past
    PROVE  LanesAfter
  <1>1. /\ lane' = [k \in Lanes |-> lane'[k]]
        /\ lane'[l] = r
        /\ \A k \in Lanes : k # l => lane'[k] = lane[k]
    BY DEF IdeaInv, Types
  <1>2. ASSUME NEW k \in Lanes
        PROVE  /\ lane'[k].pc # "idle" => lane'[k].idea \in Ideas
               /\ lane'[k].pc \in {"approved", "executable", "execution_denied"} =>
                      state'[lane'[k].idea] \in Past
    BY <1>1 DEF IdeaInv, LanesKnow, Onward
  <1> QED BY <1>1, <1>2 DEF LanesAfter, LanesKnow, Past, Terminal

LEMMA LaneEndsWell ==
    ASSUME IdeaInv, Onward, NEW l \in Lanes, LaneEnds(l)
    PROVE  LanesAfter
  <1>1. IdleLane.pc = "idle"
    BY DEF IdleLane
  <1> QED BY <1>1, LaneKeeps DEF LaneEnds

LEMMA LaneHoldsWell ==
    ASSUME IdeaInv, Onward, NEW l \in Lanes, NEW pc, NEW b, NEW c, LaneHolds(l, pc, b, c),
           lane[l].pc # "idle",
           pc \in {"approved", "executable", "execution_denied"} => state'[lane[l].idea] \in Past
    PROVE  LanesAfter
  <1> DEFINE r == [pc |-> pc, idea |-> lane[l].idea, hash |-> lane[l].hash,
                   budget |-> b, context |-> c]
  <1>1. r.pc = pc /\ r.idea = lane[l].idea /\ lane[l].idea \in Ideas
    BY DEF IdeaInv, LanesKnow
  <1>2. lane' = [lane EXCEPT ![l] = r]
    BY DEF LaneHolds
  <1> HIDE DEF r
  <1> QED BY <1>1, <1>2, LaneKeeps

LEMMA LaneIsFine ==
    ASSUME IdeaInv, NEW l \in Lanes, LaneActs(l)
    PROVE  Fine /\ LanesAfter
  <1> USE DEF LaneAt
  <1>a. Types /\ (lane[l].pc # "idle" => lane[l].idea \in Ideas)
    BY DEF IdeaInv, LanesKnow
  <1>b. Fine => Onward
    BY DEF Fine, Moves
  <1>1. ASSUME NEW d \in Ideas, NEW h \in Hashes, LaneProposes(l, d, h)
        PROVE  Fine /\ LanesAfter
    <2>1. Fine
      BY <1>1, <1>a, OtherEventIsFine DEF LaneProposes, Acts, policyVars
    <2> DEFINE r == [pc |-> "proposed", idea |-> d, hash |-> h, budget |-> None, context |-> None]
    <2>2. lane' = [lane EXCEPT ![l] = r] /\ r.idea \in Ideas /\ r.pc = "proposed"
      BY <1>1 DEF LaneProposes
    <2> HIDE DEF r
    <2> QED BY <2>1, <2>2, <1>b, LaneKeeps
  <1>2. CASE LaneReadsBudget(l)
    <2>1. Fine
      BY <1>2, <1>a, NoEventIsFine DEF LaneReadsBudget, Acts, ideaVars, policyVars
    <2> QED BY <1>2, <2>1, <1>b, LaneHoldsWell DEF LaneReadsBudget
  <1>3. CASE LaneReadsContext(l)
    <2>1. Fine
      BY <1>3, <1>a, NoEventIsFine DEF LaneReadsContext, Acts, ideaVars, policyVars
    <2> QED BY <1>3, <2>1, <1>b, LaneHoldsWell DEF LaneReadsContext
  <1>4. CASE LaneChecks(l)
    <2>1. Fine
      BY <1>4, <1>a, NoEventIsFine DEF LaneChecks, Acts, ideaVars
    <2>2. \E pc \in {"admitted", "denied"} : LaneHolds(l, pc, None, None)
      BY <1>4 DEF LaneChecks, LaneGoes
    <2> QED BY <1>4, <2>1, <2>2, <1>b, LaneHoldsWell DEF LaneChecks
  <1>5. CASE LaneRecordsDenial(l)
    <2>1. Fine
      BY <1>5, <1>a, OtherEventIsFine DEF LaneRecordsDenial, Acts, policyVars
    <2> QED BY <1>5, <2>1, <1>b, LaneEndsWell DEF LaneRecordsDenial
  <1>6. CASE LaneCommits(l)
    <2>1. CASE Refuse /\ LaneEnds(l)
      BY <2>1, <1>a, <1>b, RefusalIsFine, LaneEndsWell
    <2>2. CASE AdmittedNow(lane[l].idea, "system") /\ level' = LevelNow
               /\ Approve(lane[l].idea, "system") /\ LaneGoes(l, "approved")
      <3>1. Fine /\ state'[lane[l].idea] = "approved"
        BY <1>6, <2>2, <1>a, ApprovalIsFine DEF LaneCommits, Actors
      <3> QED BY <1>6, <2>2, <3>1, <1>b, LaneHoldsWell DEF LaneCommits, LaneGoes, Past
    <2> QED BY <1>6, <2>1, <2>2 DEF LaneCommits
  <1>7. CASE LaneChecksExecution(l)
    <2>1. state' = state /\ approver' = approver /\ closeout' = closeout /\ budget' = budget
          /\ logOk' = logOk /\ day' = day /\ level' = LevelNow /\ act' # "executed"
      BY <1>7 DEF LaneChecksExecution, Acts, ideaVars, clockVars
    <2>2. Breached' = Breached
      BY <2>1, SameLosses DEF Breached, Breach
    <2>3. Approvals = {}
      BY <2>1 DEF Approvals
    <2>4. Ends
      BY <2>1, <2>2, BoundedLevel DEF Ends
    <2>5. Fine
      BY <2>1, <2>3, <2>4, <1>a DEF Fine, Moves, InBounds, Onward, Types, Weighed
    <2>6. state'[lane[l].idea] \in Past
      BY <1>7, <2>1 DEF IdeaInv, LanesKnow, LaneChecksExecution
    <2>7. \E pc \in {"executable", "execution_denied"} : LaneHolds(l, pc, None, None)
      BY <1>7 DEF LaneChecksExecution, LaneGoes
    <2> QED BY <1>7, <2>5, <2>6, <2>7, <1>b, LaneHoldsWell DEF LaneChecksExecution
  <1>8. CASE LaneRecordsExecutionDenial(l)
    <2> DEFINE d == lane[l].idea
    <2>1. d \in Ideas /\ AppendAudit(d, "approved", lane[l].hash) /\ state[d] \in Past
          /\ approver' = approver /\ act' = "other" /\ budget' = budget /\ LaneEnds(l)
      BY <1>8, <1>a DEF LaneRecordsExecutionDenial, IdeaInv, LanesKnow, Acts, policyVars
    <2> HIDE DEF d
    <2>2. state[d] = "approved"
      <3>1. "approved" \in NextStates[state[d]]
        BY <2>1 DEF AppendAudit
      <3>2. \A s \in Past : "approved" \in NextStates[s] => s = "approved"
        BY DEF NextStates, States, Terminal, Past
      <3> QED BY <2>1, <3>1, <3>2
    <2>3. Approvals = {}
      BY <2>1, <2>2, <1>a, AppendMoves DEF Approvals
    <2>4. Moves
      BY <2>1, <1>a, AppendMoves DEF Moves, Types
    <2>5. Fine
      BY <2>1, <2>3, <2>4, QuietIsFine
    <2> QED BY <2>1, <2>5, <1>b, LaneEndsWell
  <1>9. CASE LaneExecutes(l)
    BY <1>9, <1>a, <1>b, ExecuteIsFine, LaneEndsWell DEF LaneExecutes
  <1>10. CASE LaneStops(l)
    <2>1. Fine
      BY <1>10, <1>a, NoEventIsFine DEF LaneStops, Acts, ideaVars, policyVars
    <2> QED BY <1>10, <2>1, <1>b, LaneEndsWell DEF LaneStops
  <1> QED BY <1>1, <1>2, <1>3, <1>4, <1>5, <1>6, <1>7, <1>8, <1>9, <1>10 DEF LaneActs

-----------------------------------------------------------------------------
LEMMA IdeaInvInit == Init => IdeaInv
  <1> SUFFICES ASSUME Init PROVE IdeaInv
    OBVIOUS
  <1>1. Types
    BY DEF Init, Types, States
  <1>2. \A l \in Lanes : lane[l].pc = "idle"
    BY DEF Init, IdleLane
  <1> QED BY <1>1, <1>2 DEF IdeaInv, LanesKnow

\* The invariant is inductive, and every step from a state with it is fine.
LEMMA EveryStepIsFine ==
    ASSUME IdeaInv, Next
    PROVE  Fine /\ IdeaInv'
  <1>a. Types
    BY DEF IdeaInv
  <1>1. Fine /\ (UNCHANGED lane \/ LanesAfter)
    <2>1. CASE ReviewerActs
      BY <1>a, <2>1, ReviewerIsFine
    <2>2. CASE MachineActs
      BY <1>a, <2>2, MachineIsFine
    <2>3. CASE \E l \in Lanes : LaneActs(l)
      BY <2>3, LaneIsFine
    <2>4. CASE LogChanges
      BY <1>a, <2>4, NoEventIsFine DEF LogChanges, Acts, ideaVars
    <2>5. CASE TimePasses
      BY <1>a, <2>5, NoEventIsFine DEF TimePasses, Acts, ideaVars, policyVars
    <2> QED BY <2>1, <2>2, <2>3, <2>4, <2>5 DEF Next
  <1>2. LanesAfter
    <2>1. CASE UNCHANGED lane
      BY <1>1, <2>1 DEF Fine, Moves, Onward, IdeaInv, Types, LanesKnow, LanesAfter
    <2> QED BY <1>1, <2>1
  <1> QED BY <1>1, <1>2 DEF Fine, Moves, IdeaInv, Types, LanesAfter

LEMMA StutterIsFine ==
    ASSUME IdeaInv, UNCHANGED vars
    PROVE  IdeaInv'
  BY DEF vars, ideaVars, IdeaInv, Types, LanesKnow

LEMMA IdeaInvHolds == Spec => []IdeaInv
  <1>1. IdeaInv /\ [Next]_vars => IdeaInv'
    BY EveryStepIsFine, StutterIsFine
  <1> QED BY <1>1, IdeaInvInit, PTL DEF Spec

\* For any ideas, lanes, records and budgets: what the machine approves or executes
\* on its own, it does under bounded autonomy and without a breach (kernel.py
\* check_execution, executor.py _resolve_execution_admission).
THEOREM MachineStaysInBounds == Spec => MachineActsInBounds
  <1>1. IdeaInv /\ [Next]_vars => [InBounds]_vars
    BY EveryStepIsFine DEF Fine
  <1>2. Spec => [][InBounds]_vars
    BY <1>1, IdeaInvHolds, PTL DEF Spec
  <1> QED BY <1>2 DEF MachineActsInBounds, InBounds

\* For any ideas, lanes, records and budgets: a decision after a breach, refused or
\* not, leaves the level below bounded autonomy (persistence.py admission_transaction).
THEOREM BreachAlwaysEndsAutonomy == Spec => BreachEndsAutonomy
  <1>1. IdeaInv /\ [Next]_vars => [Ends]_vars
    BY EveryStepIsFine DEF Fine
  <1>2. Spec => [][Ends]_vars
    BY <1>1, IdeaInvHolds, PTL DEF Spec
  <1> QED BY <1>2 DEF BreachEndsAutonomy, Ends

-----------------------------------------------------------------------------
(* Types.  The contexts that lanes carry hold sums of risks and losses, so *)
(* that their type is a fact about sums.                                   *)

RecordsOK ==
    /\ state \in [Ideas -> States]
    /\ stored \in [Ideas -> Hashes \cup {None}] /\ audited \in [Ideas -> Hashes \cup {None}]
    /\ \A d \in Ideas : (state[d] = "none") = (stored[d] = None)
                        /\ (stored[d] = None) = (audited[d] = None)
    /\ approver \in [Ideas -> Actors \cup {None}]
    /\ closeout \in [Ideas -> Closeouts \cup {None}]
PolicyOK == budget \in Budgets /\ level \in Levels /\ logOk \in BOOLEAN
ClockOK == day \in 0..MaxDay /\ due \subseteq Ideas /\ late \subseteq Ideas
LaneOK == lane \in [Lanes -> BusyLanes \cup {IdleLane}]
ActOK == act \in {"refused", "executed", "other"}
ServiceOK == RecordsOK /\ PolicyOK /\ ClockOK /\ ActOK

LEMMA TypeParts == IdeaTypeOK <=> ServiceOK /\ LaneOK
  BY DEF IdeaTypeOK, ServiceOK, RecordsOK, PolicyOK, ClockOK, LaneOK, ActOK

LEMMA KnownRecords ==
    ASSUME RecordsOK, NEW d \in Ideas, state[d] # "none"
    PROVE  stored[d] \in Hashes /\ audited[d] \in Hashes
  BY DEF RecordsOK

\* The next state is never "none".
LEMMA NextIsAState ==
    ASSUME RecordsOK, NEW d \in Ideas, NEW s, NEW h, AppendAudit(d, s, h)
    PROVE  s \in States \ {"none"}
  <1>1. state[d] \in States /\ s \in NextStates[state[d]]
    BY DEF AppendAudit, RecordsOK
  <1> QED BY <1>1 DEF NextStates, States, Terminal

LEMMA AppendTypes ==
    ASSUME RecordsOK, NEW d \in Ideas, NEW s, NEW h \in Hashes, AppendAudit(d, s, h),
           \/ stored' = stored /\ state[d] # "none"
           \/ stored' = [stored EXCEPT ![d] = h],
           approver' = approver \/ \E E \in SUBSET Ideas, a \in Actors \cup {None} : Clears(E, a),
           closeout' = closeout
    PROVE  RecordsOK'
  <1>1. s \in States /\ s # "none" /\ h # None
    BY NextIsAState, AbsentAssumption
  <1>2. /\ state' = [state EXCEPT ![d] = s] /\ audited' = [audited EXCEPT ![d] = h]
    BY DEF AppendAudit
  <1>3. stored'[d] \in Hashes /\ stored'[d] # None /\ \A e \in Ideas : e # d => stored'[e] = stored[e]
    BY <1>1, KnownRecords, AbsentAssumption DEF RecordsOK
  <1>4. /\ state' \in [Ideas -> States] /\ audited' \in [Ideas -> Hashes \cup {None}]
        /\ stored' \in [Ideas -> Hashes \cup {None}]
    BY <1>1, <1>2 DEF RecordsOK
  <1>5. approver' \in [Ideas -> Actors \cup {None}]
    BY DEF Clears, RecordsOK
  <1>6. \A e \in Ideas : (state'[e] = "none") = (stored'[e] = None)
                         /\ (stored'[e] = None) = (audited'[e] = None)
    <2> TAKE e \in Ideas
    <2>1. CASE e = d
      BY <2>1, <1>1, <1>2, <1>3 DEF RecordsOK
    <2>2. CASE e # d
      BY <2>2, <1>2, <1>3 DEF RecordsOK
    <2> QED BY <2>1, <2>2
  <1> QED BY <1>4, <1>5, <1>6 DEF RecordsOK

LEMMA ForgetTypes ==
    ASSUME ClockOK, NEW E, NEW s, Forget(E, s)
    PROVE  ClockOK'
  BY DEF ClockOK, Forget

\* A step of the lifecycle on an idea whose records agree.
LEMMA StepTypes ==
    ASSUME RecordsOK, ClockOK, NEW d \in Ideas, NEW s, Step(d, s), stored' = stored,
           NEW a \in Actors \cup {None}, Clears({d}, a), closeout' = closeout
    PROVE  RecordsOK' /\ ClockOK'
  <1>1. AppendAudit(d, s, stored[d]) /\ state[d] # "none" /\ Forget({d}, s)
    BY DEF Step, Intact
  <1>2. stored[d] \in Hashes
    BY <1>1, KnownRecords
  <1>3. \E E \in SUBSET Ideas, b \in Actors \cup {None} : Clears(E, b)
    OBVIOUS
  <1>4. RecordsOK'
    BY <1>1, <1>2, <1>3, AppendTypes
  <1>5. ClockOK'
    BY <1>1, ForgetTypes
  <1> QED BY <1>4, <1>5

LEMMA LevelTypes ==
    ASSUME PolicyOK
    PROVE  LevelNow \in Levels /\ \A b, loss : Ratcheted(b, loss) \in Levels
  BY DEF PolicyOK, LevelNow, Ratcheted, Levels

LEMMA RefuseTypes ==
    ASSUME ServiceOK, Refuse
    PROVE  ServiceOK'
  <1>1. PolicyOK' /\ ActOK'
    BY LevelTypes DEF ServiceOK, PolicyOK, ActOK, Refuse, Acts
  <1>2. RecordsOK' /\ ClockOK'
    BY DEF ServiceOK, RecordsOK, ClockOK, Refuse, ideaVars, clockVars
  <1> QED BY <1>1, <1>2 DEF ServiceOK

LEMMA ApproveTypes ==
    ASSUME ServiceOK, NEW d \in Ideas, NEW a \in Actors, Approve(d, a), level' = LevelNow
    PROVE  ServiceOK'
  <1>1. RecordsOK' /\ ClockOK'
    BY StepTypes DEF ServiceOK, Approve
  <1>2. PolicyOK' /\ ActOK'
    BY LevelTypes DEF ServiceOK, PolicyOK, ActOK, Approve, Acts
  <1> QED BY <1>1, <1>2 DEF ServiceOK

LEMMA SubmitTypes ==
    ASSUME ServiceOK, NEW d \in Ideas, NEW how \in {"executed", "other"}, Submit(d, how),
           level' \in {level, LevelNow}
    PROVE  ServiceOK'
  <1>1. RecordsOK' /\ ClockOK'
    BY StepTypes DEF ServiceOK, Submit
  <1>2. PolicyOK' /\ ActOK'
    BY LevelTypes DEF ServiceOK, PolicyOK, ActOK, Submit, Acts
  <1> QED BY <1>1, <1>2 DEF ServiceOK

\* Steps that write no record.
LEMMA PolicyStepTypes ==
    ASSUME ServiceOK, UNCHANGED ideaVars, PolicyOK', ClockOK', ActOK'
    PROVE  ServiceOK'
  BY DEF ServiceOK, RecordsOK, ideaVars

LEMMA ReviewerTypes ==
    ASSUME ServiceOK, ReviewerActs
    PROVE  ServiceOK'
  <1>0. RecordsOK /\ PolicyOK /\ ClockOK
    BY DEF ServiceOK
  <1>1. ASSUME NEW d \in Ideas, RequestChanges(d)
        PROVE  ServiceOK'
    <2>1. RecordsOK' /\ ClockOK'
      BY <1>0, <1>1, StepTypes DEF RequestChanges
    <2> QED BY <1>0, <1>1, <2>1 DEF ServiceOK, PolicyOK, ActOK, RequestChanges, Acts, policyVars
  <1>2. ASSUME NEW d \in Ideas, HumanApproves(d)
        PROVE  ServiceOK'
    BY <1>2, ApproveTypes, RefuseTypes DEF HumanApproves, Actors
  <1>3. ASSUME NEW d \in Ideas, MarkSubmitted(d)
        PROVE  ServiceOK'
    BY <1>3, SubmitTypes DEF MarkSubmitted
  <1>4. ASSUME NEW d \in Ideas, RecordFill(d)
        PROVE  ServiceOK'
    <2>1. RecordsOK' /\ ClockOK'
      BY <1>0, <1>4, StepTypes DEF RecordFill
    <2> QED BY <1>0, <1>4, <2>1 DEF ServiceOK, PolicyOK, ActOK, RecordFill, Acts, policyVars
  <1>5. ASSUME NEW d \in Ideas, NEW h \in Hashes, Propose(d, h)
        PROVE  ServiceOK'
    <2>1. RecordsOK'
      BY <1>0, <1>5, AppendTypes DEF Propose
    <2> QED BY <1>0, <1>5, <2>1
            DEF ServiceOK, PolicyOK, ClockOK, ActOK, Propose, Acts, policyVars, clockVars
  <1>6. ASSUME NEW d \in Ideas, NEW h \in Hashes, Resubmit(d, h)
        PROVE  ServiceOK'
    <2>1. RecordsOK'
      BY <1>0, <1>6, AppendTypes DEF Resubmit
    <2>2. ClockOK'
      BY <1>0, <1>6 DEF ClockOK, Resubmit
    <2> QED BY <1>0, <1>6, <2>1, <2>2 DEF ServiceOK, PolicyOK, ActOK, Resubmit, Acts, policyVars
  <1>7. ASSUME NEW d \in Ideas, NEW s \in Terminal, End(d, s)
        PROVE  ServiceOK'
    <2>1. RecordsOK' /\ ClockOK'
      BY <1>0, <1>7, StepTypes DEF End
    <2> QED BY <1>0, <1>7, <2>1 DEF ServiceOK, PolicyOK, ActOK, End, Acts, policyVars
  <1>8. ASSUME NEW d \in Ideas, NEW loss \in Losses \cup {Unknown}, RecordCloseout(d, loss)
        PROVE  ServiceOK'
    <2>1. [day |-> day, loss |-> loss] \in Closeouts
      BY <1>0 DEF ClockOK, Closeouts
    <2>2. RecordsOK'
      BY <1>0, <1>8, <2>1 DEF RecordsOK, RecordCloseout
    <2> QED BY <1>0, <1>8, <2>2
            DEF ServiceOK, PolicyOK, ClockOK, ActOK, RecordCloseout, Acts, policyVars, clockVars
  <1>9. ASSUME NEW b \in Budgets, UpdateBudget(b)
        PROVE  ServiceOK'
    <2>1. CASE Refuse
      BY <2>1, RefuseTypes
    <2>2. CASE ~Refuse
      <3>1. level' \in Levels /\ budget' = b /\ UNCHANGED <<ideaVars, logOk, clockVars>> /\ act' = "other"
        BY <1>0, <1>9, <2>2, LevelTypes DEF UpdateBudget, Acts
      <3>2. PolicyOK' /\ ClockOK' /\ ActOK'
        BY <1>0, <3>1 DEF PolicyOK, ClockOK, ActOK, clockVars
      <3> QED BY <3>1, <3>2, PolicyStepTypes
    <2> QED BY <2>1, <2>2
  <1>10. ASSUME NEW m \in Levels, NEW actor \in Actors, SetAutonomyMode(m, actor)
         PROVE  ServiceOK'
    <2>1. PolicyOK' /\ ClockOK' /\ ActOK'
      BY <1>0, <1>10 DEF SetAutonomyMode, PolicyOK, ClockOK, ActOK, Acts, clockVars
    <2> QED BY <1>10, <2>1, PolicyStepTypes DEF SetAutonomyMode
  <1> QED BY <1>1, <1>2, <1>3, <1>4, <1>5, <1>6, <1>7, <1>8, <1>9, <1>10 DEF ReviewerActs

LEMMA ExecuteTypes ==
    ASSUME ServiceOK, NEW d \in Ideas, Execute(d)
    PROVE  ServiceOK'
  BY SubmitTypes, RefuseTypes DEF Execute

LEMMA MachineTypes ==
    ASSUME ServiceOK, MachineActs
    PROVE  ServiceOK'
  <1>0. RecordsOK /\ PolicyOK /\ ClockOK
    BY DEF ServiceOK
  <1>1. CASE AutoApproveSweep
    <2>1. CASE Refuse
      BY <2>1, RefuseTypes
    <2>2. CASE ~Refuse
      <3>1. /\ act' = "other" /\ UNCHANGED <<stored, audited, closeout, policyVars>>
        BY <1>1, <2>2 DEF AutoApproveSweep, Acts
      <3>2. PICK A \in SUBSET {d \in Ideas : state[d] = "proposed"} :
                /\ state' = [d \in Ideas |-> IF d \in A THEN "approved" ELSE state[d]]
                /\ Forget(A, "approved") /\ Clears(A, "system")
        BY <1>1, <2>2 DEF AutoApproveSweep
      <3>3. RecordsOK'
        BY <1>0, <3>1, <3>2 DEF RecordsOK, Clears, States, Actors
      <3>4. ClockOK'
        BY <1>0, <3>2, ForgetTypes
      <3> QED BY <1>0, <3>1, <3>3, <3>4 DEF ServiceOK, PolicyOK, ActOK, policyVars
    <2> QED BY <2>1, <2>2
  <1>2. CASE AutoAttribute
    <2>1. [day |-> day, loss |-> Unknown] \in Closeouts
      BY <1>0 DEF ClockOK, Closeouts
    <2>2. closeout' \in [Ideas -> Closeouts \cup {None}]
      BY <1>0, <1>2, <2>1 DEF RecordsOK, AutoAttribute
    <2> QED BY <1>0, <1>2, <2>2
            DEF ServiceOK, RecordsOK, PolicyOK, ClockOK, ActOK, AutoAttribute, Acts, policyVars,
                clockVars
  <1>3. ASSUME NEW E \in SUBSET Ideas, ExpireDue(E)
        PROVE  ServiceOK'
    <2>1. /\ act' = "other" /\ UNCHANGED <<stored, audited, closeout, policyVars>>
          /\ state' = [d \in Ideas |-> IF d \in E THEN "expired" ELSE state[d]]
          /\ \A d \in E : state[d] # "none"
          /\ Forget(E, "expired") /\ Clears(E, None)
      BY <1>3 DEF ExpireDue, Acts
    <2>2. RecordsOK'
      BY <1>0, <2>1 DEF RecordsOK, Clears, States, Terminal
    <2>3. ClockOK'
      BY <1>0, <2>1, ForgetTypes
    <2> QED BY <1>0, <2>1, <2>2, <2>3 DEF ServiceOK, PolicyOK, ActOK, policyVars
  <1>4. CASE \E d \in Ideas : Execute(d) /\ UNCHANGED lane
    BY <1>4, ExecuteTypes
  <1> QED BY <1>1, <1>2, <1>3, <1>4 DEF MachineActs

LEMMA ClockTypes ==
    ASSUME ServiceOK, LogChanges \/ TimePasses
    PROVE  ServiceOK'
  <1>1. PolicyOK' /\ ActOK'
    BY DEF ServiceOK, PolicyOK, ActOK, LogChanges, TimePasses, Acts, policyVars
  <1>2. ClockOK'
    BY LossAssumption DEF ServiceOK, ClockOK, LogChanges, TimePasses, clockVars
  <1> QED BY <1>1, <1>2, PolicyStepTypes DEF LogChanges, TimePasses

\* Sums over ideas that exist are numbers, and so are sums of reported losses.
LEMMA SumTypes ==
    ASSUME RecordsOK, NEW S \in SUBSET Ideas, \A d \in S : state[d] # "none"
    PROVE  RiskOf(S) \in Nat /\ NotionalOf(S) \in Nat
  <1> DEFINE risk == [d \in S |-> Revisions[audited[d]].risk]
             notional == [d \in S |-> Revisions[audited[d]].notional]
  <1>1. IsFiniteSet(S)
    BY FiniteIdeasAssumption, FS_Subset
  <1>2. \A d \in S : audited[d] \in Hashes
    BY KnownRecords
  <1>3. \A d \in S : risk[d] \in Nat /\ notional[d] \in Nat
    BY <1>2, RevisionAssumption
  <1>4. RiskOf(S) = SumFunctionOnSet(risk, S) /\ NotionalOf(S) = SumFunctionOnSet(notional, S)
    BY DEF RiskOf, NotionalOf
  <1> HIDE DEF risk, notional
  <1> QED BY <1>1, <1>3, <1>4, SumType

LEMMA LossType ==
    ASSUME RecordsOK, NEW S \in SUBSET Settled
    PROVE  LossOf(S) \in Nat
  <1> DEFINE known == {d \in S : closeout[d].loss # Unknown}
             loss == [d \in known |-> closeout[d].loss]
  <1>1. known \subseteq Ideas /\ IsFiniteSet(known)
    <2>1. known \subseteq Ideas
      BY DEF Settled
    <2> QED BY <2>1, FiniteIdeasAssumption, FS_Subset
  <1>2. \A d \in known : loss[d] \in Nat
    <2> SUFFICES ASSUME NEW d \in known PROVE closeout[d].loss \in Nat
      OBVIOUS
    <2>1. closeout[d] \in Closeouts
      BY <1>1 DEF Settled, RecordsOK
    <2> QED BY <2>1, LossAssumption DEF Closeouts
  <1>3. LossOf(S) = SumFunctionOnSet(loss, known)
    BY DEF LossOf
  <1> HIDE DEF known, loss
  <1> QED BY <1>1, <1>2, <1>3, SumType

LEMMA ContextType ==
    ASSUME RecordsOK, NEW d
    PROVE  ContextOf(d, {}) \in Contexts
  <1> DEFINE others == (Exposed \cup {}) \ {d}
             unknown == \E e \in SettledToday : closeout[e].loss = Unknown
  <1>1. others \in SUBSET Ideas /\ \A e \in others : state[e] # "none"
    BY DEF Exposed
  <1>2. RiskOf(others) \in Nat /\ NotionalOf(others) \in Nat
    BY <1>1, SumTypes
  <1>3. LossOf(SettledToday) \in Nat
    BY LossType DEF SettledToday
  <1>4. unknown \in BOOLEAN
    OBVIOUS
  <1>5. ContextOf(d, {}) = [loss |-> LossOf(SettledToday), unknown |-> unknown,
                            risk |-> RiskOf(others), notional |-> NotionalOf(others)]
    BY DEF ContextOf
  <1> HIDE DEF others, unknown
  <1> QED BY <1>2, <1>3, <1>4, <1>5 DEF Contexts

\* A lane that is not idle.
LEMMA BusyLane ==
    ASSUME LaneOK, NEW l \in Lanes, lane[l].pc # "idle"
    PROVE  lane[l] \in BusyLanes
  BY DEF LaneOK, IdleLane

LEMMA LaneEndTypes ==
    ASSUME LaneOK, NEW l, LaneEnds(l)
    PROVE  LaneOK'
  BY DEF LaneOK, LaneEnds

LEMMA LaneHoldTypes ==
    ASSUME LaneOK, NEW l \in Lanes, lane[l].pc # "idle", NEW pc \in LaneSteps,
           NEW b \in Budgets \cup {None}, NEW c \in Contexts \cup {None},
           LaneHolds(l, pc, b, c)
    PROVE  LaneOK'
  <1> DEFINE r == [pc |-> pc, idea |-> lane[l].idea, hash |-> lane[l].hash,
                   budget |-> b, context |-> c]
  <1>1. r \in BusyLanes
    BY BusyLane DEF BusyLanes
  <1>2. lane' = [lane EXCEPT ![l] = r]
    BY DEF LaneHolds
  <1> HIDE DEF r
  <1> QED BY <1>1, <1>2 DEF LaneOK

\* The idea of a lane that works exists.
LanesHaveIdeas == \A l \in Lanes : lane[l].pc # "idle" => state[lane[l].idea] # "none"

LEMMA LaneTypes ==
    ASSUME ServiceOK, LaneOK, LanesHaveIdeas, NEW l \in Lanes, LaneActs(l)
    PROVE  ServiceOK' /\ LaneOK'
  <1> USE DEF LaneAt
  <1>0. RecordsOK /\ PolicyOK /\ ClockOK
    BY DEF ServiceOK
  <1>b. lane[l].pc # "idle" =>
            lane[l].idea \in Ideas /\ lane[l].hash \in Hashes /\ lane[l].budget \in Budgets \cup {None}
    BY BusyLane DEF BusyLanes
  <1>q. ASSUME UNCHANGED <<ideaVars, policyVars, clockVars>>, act' = "other"
        PROVE  ServiceOK'
    <2>1. PolicyOK' /\ ClockOK' /\ ActOK'
      BY <1>0, <1>q DEF PolicyOK, ClockOK, ActOK, policyVars, clockVars
    <2> QED BY <1>q, <2>1, PolicyStepTypes
  <1>1. ASSUME NEW d \in Ideas, NEW h \in Hashes, LaneProposes(l, d, h)
        PROVE  ServiceOK' /\ LaneOK'
    <2>1. RecordsOK'
      BY <1>0, <1>1, AppendTypes DEF LaneProposes
    <2>2. PolicyOK' /\ ClockOK' /\ ActOK'
      BY <1>0, <1>1 DEF PolicyOK, ClockOK, ActOK, LaneProposes, Acts, policyVars, clockVars
    <2> DEFINE r == [pc |-> "proposed", idea |-> d, hash |-> h, budget |-> None, context |-> None]
    <2>3. r \in BusyLanes /\ lane' = [lane EXCEPT ![l] = r]
      BY <1>1 DEF BusyLanes, LaneSteps, LaneProposes
    <2> HIDE DEF r
    <2>4. LaneOK'
      BY <2>3 DEF LaneOK
    <2> QED BY <2>1, <2>2, <2>4 DEF ServiceOK
  <1>2. CASE LaneReadsBudget(l)
    <2>1. LaneOK'
      BY <1>0, <1>2, LaneHoldTypes DEF LaneReadsBudget, LaneSteps, PolicyOK
    <2> QED BY <1>2, <2>1, <1>q DEF LaneReadsBudget, Acts
  <1>3. CASE LaneReadsContext(l)
    <2>1. LaneOK'
      BY <1>0, <1>3, <1>b, ContextType, LaneHoldTypes DEF LaneReadsContext, LaneSteps
    <2> QED BY <1>3, <2>1, <1>q DEF LaneReadsContext, Acts
  <1>4. CASE LaneChecks(l)
    <2>1. \E pc \in LaneSteps : LaneHolds(l, pc, None, None)
      BY <1>4 DEF LaneChecks, LaneGoes, LaneSteps
    <2>2. LaneOK'
      BY <1>4, <2>1, LaneHoldTypes DEF LaneChecks
    <2>3. level' \in Levels
      BY <1>0, <1>4, LevelTypes DEF LaneChecks
    <2>4. PolicyOK' /\ ClockOK' /\ ActOK' /\ UNCHANGED ideaVars
      BY <1>0, <1>4, <2>3 DEF PolicyOK, ClockOK, ActOK, LaneChecks, Acts, clockVars
    <2> QED BY <2>2, <2>4, PolicyStepTypes
  <1>5. CASE LaneRecordsDenial(l)
    <2>1. /\ lane[l].pc # "idle" /\ AppendAudit(lane[l].idea, "proposed", lane[l].hash)
          /\ LaneEnds(l) /\ act' = "other"
          /\ UNCHANGED <<stored, approver, closeout, policyVars, clockVars>>
      BY <1>5 DEF LaneRecordsDenial, Acts
    <2>2. state[lane[l].idea] # "none"
      BY <2>1 DEF LanesHaveIdeas
    <2>3. RecordsOK'
      BY <1>0, <1>b, <2>1, <2>2, AppendTypes
    <2>4. PolicyOK' /\ ClockOK' /\ ActOK'
      BY <1>0, <2>1 DEF PolicyOK, ClockOK, ActOK, policyVars, clockVars
    <2>5. LaneOK'
      BY <2>1, LaneEndTypes
    <2> QED BY <2>3, <2>4, <2>5 DEF ServiceOK
  <1>6. CASE LaneCommits(l)
    <2>1. CASE Refuse /\ LaneEnds(l)
      BY <2>1, RefuseTypes, LaneEndTypes
    <2>2. CASE level' = LevelNow /\ Approve(lane[l].idea, "system") /\ LaneGoes(l, "approved")
      <3>1. ServiceOK'
        BY <1>6, <1>b, <2>2, ApproveTypes DEF LaneCommits, Actors
      <3>2. LaneOK'
        BY <1>6, <2>2, LaneHoldTypes DEF LaneCommits, LaneGoes, LaneSteps
      <3> QED BY <3>1, <3>2
    <2> QED BY <1>6, <2>1, <2>2 DEF LaneCommits
  <1>7. CASE LaneChecksExecution(l)
    <2>1. \E pc \in LaneSteps : LaneHolds(l, pc, None, None)
      BY <1>7 DEF LaneChecksExecution, LaneGoes, LaneSteps
    <2>2. LaneOK'
      BY <1>7, <2>1, LaneHoldTypes DEF LaneChecksExecution
    <2>3. PolicyOK' /\ ClockOK' /\ ActOK' /\ UNCHANGED ideaVars
      BY <1>0, <1>7, LevelTypes DEF PolicyOK, ClockOK, ActOK, LaneChecksExecution, Acts, clockVars
    <2> QED BY <2>2, <2>3, PolicyStepTypes
  <1>8. CASE LaneRecordsExecutionDenial(l)
    <2>1. /\ lane[l].pc # "idle" /\ AppendAudit(lane[l].idea, "approved", lane[l].hash)
          /\ LaneEnds(l) /\ act' = "other"
          /\ UNCHANGED <<stored, approver, closeout, policyVars, clockVars>>
      BY <1>8 DEF LaneRecordsExecutionDenial, Acts
    <2>2. state[lane[l].idea] # "none"
      BY <2>1 DEF LanesHaveIdeas
    <2>3. RecordsOK'
      BY <1>0, <1>b, <2>1, <2>2, AppendTypes
    <2>4. PolicyOK' /\ ClockOK' /\ ActOK'
      BY <1>0, <2>1 DEF PolicyOK, ClockOK, ActOK, policyVars, clockVars
    <2>5. LaneOK'
      BY <2>1, LaneEndTypes
    <2> QED BY <2>3, <2>4, <2>5 DEF ServiceOK
  <1>9. CASE LaneExecutes(l)
    BY <1>9, <1>b, ExecuteTypes, LaneEndTypes DEF LaneExecutes
  <1>10. CASE LaneStops(l)
    BY <1>10, <1>q, LaneEndTypes DEF LaneStops, Acts
  <1> QED BY <1>1, <1>2, <1>3, <1>4, <1>5, <1>6, <1>7, <1>8, <1>9, <1>10 DEF LaneActs

\* No step takes an idea out of existence.
LEMMA IdeasLast ==
    ASSUME RecordsOK, LaneOK, Next, NEW e \in Ideas, state[e] # "none"
    PROVE  state'[e] # "none"
  <1>0. state \in [Ideas -> States]
    BY DEF RecordsOK
  <1>1. ASSUME NEW d \in Ideas, NEW s, NEW h, AppendAudit(d, s, h)
        PROVE  state'[e] # "none"
    BY <1>0, <1>1, NextIsAState DEF AppendAudit
  <1>2. ASSUME NEW E, NEW s \in {"approved", "expired"},
               state' = [d \in Ideas |-> IF d \in E THEN s ELSE state[d]]
        PROVE  state'[e] # "none"
    BY <1>2
  <1>3. ASSUME NEW d, Execute(d)
        PROVE  state' = state \/ AppendAudit(d, "submitted", stored[d])
    BY <1>3 DEF Execute, Submit, Step, Refuse, ideaVars
  <1>4. CASE ReviewerActs
    <2>1. state' = state \/ \E d \in Ideas : \E s, h : AppendAudit(d, s, h)
      BY <1>4 DEF ReviewerActs, RequestChanges, HumanApproves, MarkSubmitted, RecordFill, Propose,
                  Resubmit, End, RecordCloseout, UpdateBudget, SetAutonomyMode, Approve, Submit,
                  Step, Refuse, ideaVars
    <2> QED BY <1>1, <2>1
  <1>5. CASE MachineActs
    <2>1. CASE AutoApproveSweep
      <3>1. \/ state' = state
            \/ \E A \in SUBSET Ideas : state' = [d \in Ideas |-> IF d \in A THEN "approved" ELSE state[d]]
        BY <2>1 DEF AutoApproveSweep, Refuse, ideaVars
      <3> QED BY <1>2, <3>1
    <2>2. CASE AutoAttribute
      BY <2>2 DEF AutoAttribute
    <2>3. CASE \E E \in SUBSET Ideas : ExpireDue(E)
      BY <1>2, <2>3 DEF ExpireDue
    <2>4. CASE \E d \in Ideas : Execute(d)
      BY <1>1, <1>3, <2>4
    <2> QED BY <1>5, <2>1, <2>2, <2>3, <2>4 DEF MachineActs
  <1>6. ASSUME NEW l \in Lanes, LaneActs(l)
        PROVE  state'[e] # "none"
    <2>1. lane[l].pc # "idle" => lane[l].idea \in Ideas
      BY BusyLane DEF BusyLanes
    <2>2. state' = state \/ \E d \in Ideas : \E s, h : AppendAudit(d, s, h)
      BY <1>3, <1>6, <2>1
         DEF LaneActs, LaneAt, LaneProposes, LaneReadsBudget, LaneReadsContext, LaneChecks,
             LaneRecordsDenial, LaneCommits, LaneChecksExecution, LaneRecordsExecutionDenial,
             LaneExecutes, LaneStops, Approve, Step, Refuse, ideaVars
    <2> QED BY <1>1, <2>2
  <1>7. CASE LogChanges \/ TimePasses
    BY <1>7 DEF LogChanges, TimePasses, ideaVars
  <1> QED BY <1>4, <1>5, <1>6, <1>7 DEF Next

TypeInv == ServiceOK /\ LaneOK /\ LanesHaveIdeas

\* A lane's step begins an idea, or goes on with the one it has, or ends.
LEMMA LaneGoesOn ==
    ASSUME LaneOK, RecordsOK, NEW l \in Lanes, LaneActs(l)
    PROVE  /\ \A k \in Lanes : k # l => lane'[k] = lane[k]
           /\ \/ lane'[l].pc = "idle"
              \/ lane[l].pc # "idle" /\ lane'[l].idea = lane[l].idea
              \/ state'[lane'[l].idea] = "proposed"
  <1> USE DEF LaneAt, LaneOK
  <1>1. CASE \E d \in Ideas, h \in Hashes : LaneProposes(l, d, h)
    BY <1>1 DEF LaneProposes, AppendAudit, RecordsOK
  <1>2. CASE lane[l].pc # "idle" /\ \E pc, b, c : LaneHolds(l, pc, b, c)
    BY <1>2 DEF LaneHolds
  <1>3. CASE LaneEnds(l)
    BY <1>3 DEF LaneEnds, IdleLane
  <1> QED BY <1>1, <1>2, <1>3
          DEF LaneActs, LaneGoes, LaneReadsBudget, LaneReadsContext, LaneChecks, LaneRecordsDenial,
              LaneCommits, LaneChecksExecution, LaneRecordsExecutionDenial, LaneExecutes, LaneStops

LEMMA StepKeepsTypes ==
    ASSUME TypeInv, Next
    PROVE  TypeInv'
  <1>0. ServiceOK /\ LaneOK /\ LanesHaveIdeas /\ RecordsOK
    BY DEF TypeInv, ServiceOK
  <1>1. Types
    BY <1>0 DEF RecordsOK, LaneOK, Types
  <1>2. ASSUME ServiceOK', lane' = lane
        PROVE  TypeInv'
    <2>1. LaneOK'
      BY <1>0, <1>2 DEF LaneOK
    <2>2. LanesHaveIdeas'
      BY <1>0, <1>2, IdeasLast, BusyLane DEF LanesHaveIdeas, BusyLanes
    <2> QED BY <1>2, <2>1, <2>2 DEF TypeInv
  <1>3. CASE ReviewerActs
    BY <1>0, <1>1, <1>2, <1>3, ReviewerTypes, ReviewerIsFine
  <1>4. CASE MachineActs
    BY <1>0, <1>1, <1>2, <1>4, MachineTypes, MachineIsFine
  <1>5. CASE LogChanges \/ TimePasses
    BY <1>0, <1>2, <1>5, ClockTypes DEF LogChanges, TimePasses
  <1>6. ASSUME NEW l \in Lanes, LaneActs(l)
        PROVE  TypeInv'
    <2>1. ServiceOK' /\ LaneOK'
      BY <1>0, <1>6, LaneTypes
    <2>2. ASSUME NEW k \in Lanes, lane'[k].pc # "idle"
          PROVE  state'[lane'[k].idea] # "none"
      BY <1>0, <1>6, <2>2, LaneGoesOn, IdeasLast, BusyLane DEF LanesHaveIdeas, BusyLanes
    <2> QED BY <2>1, <2>2 DEF TypeInv, LanesHaveIdeas
  <1> QED BY <1>3, <1>4, <1>5, <1>6 DEF Next

LEMMA TypesFromStart == Init => TypeInv
  <1> SUFFICES ASSUME Init PROVE TypeInv
    OBVIOUS
  <1>1. RecordsOK
    BY DEF Init, RecordsOK, States
  <1>2. PolicyOK /\ ClockOK /\ ActOK
    BY LossAssumption DEF Init, PolicyOK, ClockOK, ActOK, Levels
  <1>3. LaneOK /\ LanesHaveIdeas
    BY DEF Init, LaneOK, LanesHaveIdeas, IdleLane
  <1> QED BY <1>1, <1>2, <1>3 DEF TypeInv, ServiceOK

LEMMA TypesStutter == TypeInv /\ UNCHANGED vars => TypeInv'
  BY DEF TypeInv, ServiceOK, RecordsOK, PolicyOK, ClockOK, ActOK, LaneOK, LanesHaveIdeas,
         vars, ideaVars, policyVars, clockVars

\* For any ideas, lanes, records and budgets: the variables have their types, and every
\* idea that exists has a stored and an audited record (service.py append_audit).
THEOREM IdeaTypesHold == Spec => []IdeaTypeOK
  <1>1. TypeInv /\ [Next]_vars => TypeInv'
    BY StepKeepsTypes, TypesStutter
  <1>2. TypeInv => IdeaTypeOK
    BY TypeParts DEF TypeInv
  <1> QED BY <1>1, <1>2, TypesFromStart, PTL DEF Spec

-----------------------------------------------------------------------------
(* The envelope.  What one idea adds to the risk that is out is split off  *)
(* the sum; the rest is what the policy added the idea to.                 *)

LEMMA OneMore ==
    ASSUME RecordsOK, NEW S \in SUBSET Ideas, \A e \in S : state[e] # "none", NEW d \in S
    PROVE  /\ RiskOf(S) = Revisions[audited[d]].risk + RiskOf(S \ {d})
           /\ NotionalOf(S) = Revisions[audited[d]].notional + NotionalOf(S \ {d})
  <1> DEFINE risk(T) == [e \in T |-> Revisions[audited[e]].risk]
             notional(T) == [e \in T |-> Revisions[audited[e]].notional]
             R == S \ {d}
  <1>1. IsFiniteSet(S) /\ IsFiniteSet(R)
    BY FiniteIdeasAssumption, FS_Subset
  <1>2. \A e \in S : audited[e] \in Hashes
    BY KnownRecords
  <1>3. \A e \in S : risk(S)[e] \in Nat /\ notional(S)[e] \in Nat
    BY <1>2, RevisionAssumption
  <1>4. \A e \in R : risk(R)[e] = risk(S)[e] /\ notional(R)[e] = notional(S)[e]
    OBVIOUS
  <1>5. risk(S)[d] = Revisions[audited[d]].risk /\ notional(S)[d] = Revisions[audited[d]].notional
    OBVIOUS
  <1>6. \A T : RiskOf(T) = SumFunctionOnSet(risk(T), T)
               /\ NotionalOf(T) = SumFunctionOnSet(notional(T), T)
    BY DEF RiskOf, NotionalOf
  <1> HIDE DEF risk, notional
  <1>7. /\ SumFunctionOnSet(risk(S), S) = risk(S)[d] + SumFunctionOnSet(risk(S), R)
        /\ SumFunctionOnSet(notional(S), S) = notional(S)[d] + SumFunctionOnSet(notional(S), R)
    BY <1>1, <1>3, SumSplit
  <1>8. /\ SumFunctionOnSet(risk(R), R) = SumFunctionOnSet(risk(S), R)
        /\ SumFunctionOnSet(notional(R), R) = SumFunctionOnSet(notional(S), R)
    BY <1>1, <1>3, <1>4, SumEqual
  <1> QED BY <1>5, <1>6, <1>7, <1>8

\* The property, as what one step does.
InEnvelope ==
    Approvals # {} =>
        /\ LossOf(SettledToday) + RiskOf(Exposed)' <= budget.daily
        /\ NotionalOf(Exposed)' <= budget.notional
        /\ Tickets' <= budget.slots

LEMMA CardinalityOfUnion ==
    ASSUME NEW S, IsFiniteSet(S), NEW T, IsFiniteSet(T)
    PROVE  IsFiniteSet(S \cup T) /\ Cardinality(S \cup T) <= Cardinality(S) + Cardinality(T)
  <1>1. IsFiniteSet(S \cap T) /\ IsFiniteSet(S \cup T)
    BY FS_Intersection, FS_Union
  <1>2. Cardinality(S) \in Nat /\ Cardinality(T) \in Nat /\ Cardinality(S \cap T) \in Nat
    BY <1>1, FS_CardinalityType
  <1>3. Cardinality(S \cup T) = Cardinality(S) + Cardinality(T) - Cardinality(S \cap T)
    BY FS_Union
  <1> QED BY <1>1, <1>2, <1>3

LEMMA WeighedFits ==
    ASSUME TypeInv, NEW d \in Ideas, NEW others \in SUBSET Ideas,
           NEW actor \in Actors, NEW m \in Levels, WeighedBy(d, others, actor, m)
    PROVE  InEnvelope
  <1> DEFINE X == Exposed \cup others \cup {d}
             c == ContextOf(d, others)
  <1>0. RecordsOK /\ budget \in Budgets
    BY DEF TypeInv, ServiceOK, PolicyOK
  <1>1. Intact(d) /\ stored[d] = audited[d] /\ state[d] # "none" /\ d \notin others
        /\ \A e \in others : state[e] = "proposed"
    BY DEF WeighedBy, Intact
  <1>2. audited' = audited /\ closeout' = closeout
    BY <1>0, <1>1 DEF WeighedBy, RecordsOK
  <1>3. state' = [e \in Ideas |-> IF e \in others \cup {d} THEN "approved" ELSE state[e]]
    BY DEF WeighedBy
  <1>4. Exposed' = X
    BY <1>2, <1>3 DEF Exposed
  <1>5. X \in SUBSET Ideas /\ d \in X /\ \A e \in X : state[e] # "none"
    BY <1>1 DEF Exposed
  <1>6. X \ {d} = (Exposed \cup others) \ {d}
    OBVIOUS
  <1>7. /\ Fits(stored[d], budget, c)
        /\ Tickets + Cardinality(others) < budget.slots
        /\ c.loss = LossOf(SettledToday)
        /\ c.risk = RiskOf(X \ {d}) /\ c.notional = NotionalOf(X \ {d})
    BY <1>6 DEF WeighedBy, Admitted, ContextOf
  <1>8. RiskOf(Exposed)' = RiskOf(X) /\ NotionalOf(Exposed)' = NotionalOf(X)
    BY <1>2, <1>4 DEF RiskOf, NotionalOf
  <1>9. budget.daily \in Nat /\ budget.notional \in Nat /\ budget.slots \in Nat
    BY <1>0, BudgetAssumption
  <1>10. LossOf(SettledToday) \in Nat
    BY <1>0, LossType DEF SettledToday
  <1> HIDE DEF X, c
  <1>11. /\ RiskOf(X) = Revisions[audited[d]].risk + RiskOf(X \ {d})
         /\ NotionalOf(X) = Revisions[audited[d]].notional + NotionalOf(X \ {d})
    BY <1>0, <1>5, OneMore
  <1>12. RiskOf(X \ {d}) \in Nat /\ NotionalOf(X \ {d}) \in Nat
    BY <1>0, <1>5, SumTypes
  <1>13. Revisions[audited[d]].risk \in Nat /\ Revisions[audited[d]].notional \in Nat
    BY <1>0, <1>1, KnownRecords, RevisionAssumption
  <1>14. /\ LossOf(SettledToday) + RiskOf(X) <= budget.daily
         /\ NotionalOf(X) <= budget.notional
    BY <1>1, <1>7, <1>9, <1>10, <1>11, <1>12, <1>13 DEF Fits
  <1>15. Tickets' <= budget.slots
    <2> DEFINE before == {e \in Ideas : state[e] = "approved"}
               after == {e \in Ideas : state'[e] = "approved"}
    <2>1. after \subseteq before \cup (others \cup {d})
      BY <1>3
    <2>2. IsFiniteSet(before) /\ IsFiniteSet(others) /\ IsFiniteSet(after)
      BY FiniteIdeasAssumption, FS_Subset
    <2>3. Tickets = Cardinality(before) /\ Tickets' = Cardinality(after)
      BY DEF Tickets
    <2> HIDE DEF before, after
    <2>4. /\ IsFiniteSet(others \cup {d}) /\ Cardinality(others \cup {d}) = Cardinality(others) + 1
      BY <1>1, <2>2, FS_AddElement
    <2>5. /\ IsFiniteSet(before \cup (others \cup {d}))
          /\ Cardinality(before \cup (others \cup {d})) <=
                 Cardinality(before) + Cardinality(others \cup {d})
      BY <2>2, <2>4, CardinalityOfUnion
    <2>6. Cardinality(after) <= Cardinality(before \cup (others \cup {d}))
      BY <2>1, <2>5, FS_Subset
    <2>7. Cardinality(after) \in Nat /\ Cardinality(before) \in Nat /\ Cardinality(others) \in Nat
          /\ Cardinality(before \cup (others \cup {d})) \in Nat
      BY <2>2, <2>5, FS_CardinalityType
    <2> QED BY <1>7, <1>9, <2>3, <2>4, <2>5, <2>6, <2>7
  <1> QED BY <1>8, <1>14, <1>15 DEF InEnvelope

\* For any ideas, lanes, records and budgets: whatever is approved, the day's loss and
\* all the risk that is out then fit the budget in force (policy.py approval_violations,
\* service.py commit_approval).
THEOREM ApprovalsStayInTheEnvelope == Spec => ApprovalsFitTheEnvelope
  <1>1. IdeaInv /\ TypeInv /\ [Next]_vars => [InEnvelope]_vars
    <2>1. ASSUME IdeaInv, TypeInv, Next
          PROVE  InEnvelope
      <3>1. Weighed
        BY <2>1, EveryStepIsFine DEF Fine
      <3>2. CASE Approvals = {}
        BY <3>2 DEF InEnvelope
      <3> QED BY <2>1, <3>1, <3>2, WeighedFits DEF Weighed
    <2> QED BY <2>1
  <1>2. Spec => []TypeInv
    BY TypesFromStart, StepKeepsTypes, TypesStutter, PTL DEF Spec
  <1>3. Spec => [][InEnvelope]_vars
    BY <1>1, <1>2, IdeaInvHolds, PTL DEF Spec
  <1> QED BY <1>3 DEF ApprovalsFitTheEnvelope, InEnvelope
=============================================================================
