----------------------------- MODULE TradeIdeas -----------------------------
(***************************************************************************)
(* Who may approve and execute a trade idea, and how much risk approvals   *)
(* may add up to: TradeIdeaService with its audit log and closeouts        *)
(* (trade_ideas/service.py, audit.py, workflow.py, closeout.py), the risk  *)
(* kernel and the approval policy (kernel.py, policy.py), the budget and   *)
(* autonomy logs (budget.py, autonomy.py) and the event-driven lane        *)
(* (idea_execution/event_lane.py).                                         *)
(*                                                                         *)
(* A service method runs in one SQLite write transaction and is one step.  *)
(* The lane is not: it reads the budget and the context, resolves the      *)
(* autonomy level, and records the outcome, each in a transaction of its   *)
(* own, so that people and other processes act in between.  A step that    *)
(* raises and is rolled back is no step; a refusal that commits a lowered  *)
(* level is one.  A record's hash is the number of its revision.  Whether  *)
(* a market session is open is an input of the steps that ask.             *)
(***************************************************************************)
EXTENDS Naturals, FiniteSets, FiniteSetsExt

CONSTANTS
    Ideas,
    Lanes,              \* engines that propose and act through an event lane
    Revisions,          \* the records that may be proposed: hash -> its content
    Budgets,            \* the risk budgets a person may enact
    Losses,             \* realized losses a closeout may report
    MaxDay,             \* bound on the trading days
    None,               \* no closeout, no drawdown limit, nothing read yet
    Unknown             \* a closeout without realized profit or loss

VARIABLES
    state,      \* the state the last audit event of an idea left
    stored,     \* the hash of the latest stored record
    audited,    \* the hash in the last audit event
    approver,   \* who approved an approved idea last
    closeout,   \* its closeout attribution
    budget,     \* the active risk budget
    level,      \* the level of the last entry of the autonomy log
    logOk,      \* can the autonomy log be read?
    day,
    due, late,  \* ideas past their horizon, or only past their review deadline
    lane,       \* what each lane is doing
    act         \* history: was the last step a refusal of the kernel, or the executor's
                \* submission of an idea?

ideaVars == <<state, stored, audited, approver, closeout>>
policyVars == <<budget, level, logOk>>
clockVars == <<day, due, late>>
vars == <<ideaVars, policyVars, clockVars, lane, act>>

Hashes == DOMAIN Revisions
Terminal == {"rejected", "filled", "cancelled", "expired"}
States == {"none", "proposed", "needs_changes", "approved", "submitted"} \cup Terminal
Levels == {"research_only", "human_approved", "bounded"}
Actors == {"human", "system"}

\* validate_transition: the states that may follow a state.
NextStates ==
    [s \in States |->
        CASE s = "none" -> {"proposed"}
          [] s = "proposed" -> {"proposed", "needs_changes", "approved", "rejected", "expired"}
          [] s = "needs_changes" -> {"proposed", "rejected", "expired"}
          [] s = "approved" -> {"approved", "submitted", "cancelled", "expired"}
          [] s = "submitted" -> {"filled", "cancelled"}
          [] OTHER -> {}]

Contexts == [loss: Nat, unknown: BOOLEAN, risk: Nat, notional: Nat]
LaneSteps == {"proposed", "budget", "context", "admitted", "denied",
              "approved", "executable", "execution_denied"}
IdleLane == [pc |-> "idle", idea |-> None, hash |-> None, budget |-> None, context |-> None]
BusyLanes == [pc: LaneSteps, idea: Ideas, hash: Hashes,
              budget: Budgets \cup {None}, context: Contexts \cup {None}]
Closeouts == [day: 0..MaxDay, loss: Losses \cup {Unknown}]

ASSUME RevisionAssumption ==
    \A h \in Hashes : Revisions[h] \in [risk: Nat, notional: Nat, eligible: BOOLEAN]
ASSUME BudgetAssumption ==
    /\ Budgets # {}
    /\ \A b \in Budgets : /\ b.perIdea \in Nat /\ b.daily \in Nat
                          /\ b.notional \in Nat /\ b.slots \in Nat
                          /\ b.drawdown \in Nat \cup {None}
ASSUME LossAssumption == Losses \subseteq Nat /\ MaxDay \in Nat
ASSUME FiniteIdeasAssumption == IsFiniteSet(Ideas)
ASSUME AbsentAssumption ==
    /\ None \notin Ideas /\ None \notin Hashes /\ None \notin Budgets
    /\ None \notin Closeouts /\ None \notin Contexts /\ None \notin Nat
    /\ Unknown \notin Nat

Init ==
    /\ state = [d \in Ideas |-> "none"]
    /\ stored = [d \in Ideas |-> None] /\ audited = [d \in Ideas |-> None]
    /\ approver = [d \in Ideas |-> None]
    /\ closeout = [d \in Ideas |-> None]
    /\ budget \in Budgets
    /\ level = "human_approved" /\ logOk = TRUE
    /\ day = 0 /\ due = {} /\ late = {}
    /\ lane = [l \in Lanes |-> IdleLane]
    /\ act = "other"

-----------------------------------------------------------------------------
(* The budget context of a decision (service.py approval_budget_context).  *)

\* The ideas whose risk is out: approved, submitted, or an open position.
Exposed == {d \in Ideas : \/ state[d] \in {"approved", "submitted"}
                          \/ state[d] = "filled" /\ closeout[d] = None}

RiskOf(S) == SumFunctionOnSet([d \in S |-> Revisions[audited[d]].risk], S)
NotionalOf(S) == SumFunctionOnSet([d \in S |-> Revisions[audited[d]].notional], S)

\* Closeouts the day's accounts include: positions, and any other result that is known.
Settled == {d \in Ideas : closeout[d] # None /\ (state[d] = "filled" \/ closeout[d].loss # Unknown)}
SettledToday == {d \in Settled : closeout[d].day = day}
LossOf(S) == LET known == {d \in S : closeout[d].loss # Unknown}
             IN  SumFunctionOnSet([d \in known |-> closeout[d].loss], known)

ContextOf(d, added) ==
    [loss |-> LossOf(SettledToday),
     unknown |-> \E e \in SettledToday : closeout[e].loss = Unknown,
     risk |-> RiskOf((Exposed \cup added) \ {d}),
     notional |-> NotionalOf((Exposed \cup added) \ {d})]

-----------------------------------------------------------------------------
(* The autonomy level and the ratchet (autonomy.py, service.py).           *)

Rank(m) == CASE m = "research_only" -> 0 [] m = "human_approved" -> 1 [] OTHER -> 2

\* The day's losses or the fall from the peak are beyond the budget.
Breach(b, loss) == \/ loss > b.daily
                   \/ b.drawdown # None /\ LossOf(Settled) > b.drawdown

Breached == Breach(budget, LossOf(SettledToday))

\* decision_autonomy: the level after a decision that looks at budget b and loss.
Ratcheted(b, loss) == IF logOk /\ level = "bounded" /\ Breach(b, loss)
                      THEN "human_approved" ELSE level

\* resolve_autonomy: an unreadable log grants nothing.
Mode(lv) == IF logOk THEN lv ELSE "research_only"

-----------------------------------------------------------------------------
(* The approval policy (policy.py approval_violations).                    *)

MayApprove(actor, m) == \/ m = "human_approved" /\ actor = "human"
                        \/ m = "bounded" /\ actor \in Actors

Fits(h, b, c) ==
    /\ Revisions[h].risk <= b.perIdea
    /\ c.loss + c.risk + Revisions[h].risk <= b.daily
    /\ c.notional + Revisions[h].notional <= b.notional

\* Has no violation: an approval of idea d with record h by the actor in mode m.
Admitted(d, h, actor, m, b, c, tickets) ==
    /\ MayApprove(actor, m)
    /\ Revisions[h].eligible
    /\ ~c.unknown
    /\ Fits(h, b, c)
    /\ tickets < b.slots
    /\ d \notin due
    /\ d \in late /\ state[d] = "proposed" => m = "bounded"

Tickets == Cardinality({d \in Ideas : state[d] = "approved"})

\* check_approval in one transaction.
LevelNow == Ratcheted(budget, LossOf(SettledToday))
AdmittedNow(d, actor) ==
    Admitted(d, stored[d], actor, Mode(LevelNow), budget, ContextOf(d, {}), Tickets)

-----------------------------------------------------------------------------
(* Audit events.                                                           *)

\* _require_idea: the latest record is the one the last event is about.
Intact(d) == state[d] # "none" /\ stored[d] = audited[d]
\* list_views reads every idea, and fails if one of them is not intact.
ListIntact == \A d \in Ideas : state[d] # "none" => Intact(d)

\* append_audit: the caller's record, whatever record the last event was about.
AppendAudit(d, s, h) ==
    /\ s \in NextStates[state[d]]
    /\ state' = [state EXCEPT ![d] = s]
    /\ audited' = [audited EXCEPT ![d] = h]

\* What no later step looks at is forgotten: the horizon once an idea is submitted or
\* ends, the review deadline once its review does.
Forget(E, s) ==
    /\ due' = IF s \in Terminal \cup {"submitted"} THEN due \ E ELSE due
    /\ late' = IF s \in {"proposed", "needs_changes"} THEN late ELSE late \ E
    /\ UNCHANGED day

Clears(E, actor) == approver' = [d \in Ideas |-> IF d \in E THEN actor ELSE approver[d]]

Step(d, s) == Intact(d) /\ AppendAudit(d, s, stored[d]) /\ Forget({d}, s)

Acts(a) == act' = a

Propose(d, h) ==
    /\ state[d] = "none"
    /\ AppendAudit(d, "proposed", h)
    /\ stored' = [stored EXCEPT ![d] = h]
    /\ Acts("other")
    /\ UNCHANGED <<approver, closeout, policyVars, clockVars, lane>>

RequestChanges(d) ==
    /\ Step(d, "needs_changes")
    /\ Clears({d}, None)
    /\ Acts("other")
    /\ UNCHANGED <<stored, closeout, policyVars, lane>>

\* The revised record may have a later horizon, and its review starts again.
Resubmit(d, h) ==
    /\ Intact(d) /\ state[d] = "needs_changes"
    /\ AppendAudit(d, "proposed", h)
    /\ stored' = [stored EXCEPT ![d] = h]
    /\ due' \in {due, due \ {d}} /\ late' = late \ {d}
    /\ Acts("other")
    /\ UNCHANGED <<approver, closeout, policyVars, day, lane>>

\* reject, cancel and expire.
End(d, s) ==
    /\ s \in {"rejected", "cancelled", "expired"}
    /\ Step(d, s)
    /\ Clears({d}, None)
    /\ Acts("other")
    /\ UNCHANGED <<stored, closeout, policyVars, lane>>

\* expire_due_ideas, for the ideas E whose sessions are open.
ExpireDue(E) ==
    /\ ListIntact
    /\ E # {}
    /\ \A d \in E : /\ state[d] \in {"proposed", "needs_changes", "approved"}
                    /\ \/ d \in due
                       \/ d \in late /\ state[d] = "proposed" /\ Mode(level) # "bounded"
    /\ state' = [d \in Ideas |-> IF d \in E THEN "expired" ELSE state[d]]
    /\ Forget(E, "expired") /\ Clears(E, None)
    /\ Acts("other")
    /\ UNCHANGED <<stored, audited, closeout, policyVars, lane>>

-----------------------------------------------------------------------------
(* Approvals.                                                              *)

Approve(d, actor) ==
    /\ Step(d, "approved")
    /\ Clears({d}, actor)
    /\ Acts("other")
    /\ UNCHANGED <<stored, closeout, budget, logOk>>

\* Mutated form: the refusal rolls back the lowered level.
RefuseAndForget == Acts("refused") /\ level' = level
                   /\ UNCHANGED <<ideaVars, budget, logOk, clockVars>>

\* admission_transaction: a refusal keeps nothing but a lowered level.
Refuse == Acts("refused") /\ level' = LevelNow
          /\ UNCHANGED <<ideaVars, budget, logOk, clockVars>>

\* service.approve.
HumanApproves(d) ==
    /\ Intact(d)
    /\ \/ AdmittedNow(d, "human") /\ level' = LevelNow /\ Approve(d, "human")
       \/ ~AdmittedNow(d, "human") /\ Refuse
    /\ UNCHANGED lane

\* The candidates a pass in the order of their ranks approves: each of them is
\* checked with the ones approved before it.
SweepApproves(A, rank) ==
    \A d \in DOMAIN rank :
        LET before == {e \in A : rank[e] < rank[d]}
        IN d \in A <=> Admitted(d, stored[d], "system", Mode(level), budget,
                                ContextOf(d, before), Tickets + Cardinality(before))

\* auto_approve_sweep with the feature flag on.
AutoApproveSweep ==
    \/ /\ Mode(LevelNow) # "bounded"
       /\ Refuse /\ UNCHANGED lane
    \/ /\ ListIntact /\ Mode(LevelNow) = "bounded"
       /\ LET candidates == {d \in Ideas : state[d] = "proposed"}
              ranks == {r \in [candidates -> 1..Cardinality(candidates)] :
                            \A d, e \in candidates : r[d] = r[e] => d = e}
          IN \E A \in SUBSET candidates, rank \in ranks :
                 /\ SweepApproves(A, rank)
                 /\ state' = [d \in Ideas |-> IF d \in A THEN "approved" ELSE state[d]]
                 /\ Forget(A, "approved") /\ Clears(A, "system")
       /\ Acts("other")
       /\ UNCHANGED <<stored, audited, closeout, policyVars, lane>>

-----------------------------------------------------------------------------
(* Execution, fills and closeouts.                                         *)

\* The submission of an admitted idea.
Submit(d, how) ==
    /\ Step(d, "submitted")
    /\ Clears({d}, None)
    /\ Acts(how)
    /\ UNCHANGED <<stored, closeout, budget, logOk>>

\* Mutated form: an approval the system gave is executed whatever the level is by now.
ExecuteApproved(d) ==
    /\ Intact(d) /\ state[d] = "approved" /\ d \notin due
    /\ level' = level /\ Submit(d, "executed")

\* The first transaction of the executor.  A system approval needs the kernel's
\* consent again; a session that is closed or a missing flag leaves everything as is.
Execute(d) ==
    /\ Intact(d) /\ state[d] = "approved"
    /\ \/ /\ approver[d] = "human" /\ d \notin due
          /\ level' = level /\ Submit(d, "executed")
       \/ /\ approver[d] = "system" /\ Mode(LevelNow) = "bounded" /\ d \notin due
          /\ level' = LevelNow /\ Submit(d, "executed")
       \/ /\ approver[d] = "system" /\ Mode(LevelNow) # "bounded"
          /\ Refuse

\* The operator's "mark submitted".
MarkSubmitted(d) == Submit(d, "other") /\ UNCHANGED <<level, lane>>

\* A fill recorded by the executor, the reconciler or an operator.
RecordFill(d) ==
    /\ Step(d, "filled")
    /\ Clears({d}, None)
    /\ Acts("other")
    /\ UNCHANGED <<stored, closeout, policyVars, lane>>

RecordCloseout(d, loss) ==
    /\ Intact(d) /\ state[d] \in Terminal /\ closeout[d] = None
    /\ closeout' = [closeout EXCEPT ![d] = [day |-> day, loss |-> loss]]
    /\ Acts("other")
    /\ UNCHANGED <<state, stored, audited, approver, policyVars, clockVars, lane>>

\* auto_attribute_expired_ideas: every expired idea, in one transaction.
AutoAttribute ==
    LET missing == {d \in Ideas : state[d] = "expired" /\ closeout[d] = None}
    IN /\ ListIntact /\ missing # {}
       /\ closeout' = [d \in Ideas |-> IF d \in missing THEN [day |-> day, loss |-> Unknown]
                                                        ELSE closeout[d]]
       /\ Acts("other")
       /\ UNCHANGED <<state, stored, audited, approver, policyVars, clockVars, lane>>

-----------------------------------------------------------------------------
(* Budget and level.                                                       *)

\* set_autonomy_mode: anyone may lower the level, a person may also raise it.
SetAutonomyMode(m, actor) ==
    /\ logOk
    /\ Rank(m) < Rank(level) \/ actor = "human"
    /\ level' = m
    /\ Acts("other")
    /\ UNCHANGED <<ideaVars, budget, logOk, clockVars, lane>>

\* update_budget by a person: the ratchet runs before and after.
UpdateBudget(b) ==
    \/ /\ logOk
       /\ budget' = b
       /\ level' = IF LevelNow = "bounded" THEN Ratcheted(b, LossOf(SettledToday)) ELSE LevelNow
       /\ Acts("other")
       /\ UNCHANGED <<ideaVars, logOk, clockVars, lane>>
    \/ ~logOk /\ Refuse /\ UNCHANGED lane

\* The autonomy log is damaged, or repaired by hand.
LogChanges ==
    /\ logOk' = ~logOk
    /\ Acts("other")
    /\ UNCHANGED <<ideaVars, budget, level, clockVars, lane>>

TimePasses ==
    /\ \/ day < MaxDay /\ day' = day + 1 /\ UNCHANGED <<due, late>>
       \/ \E d \in Ideas : /\ state[d] \in {"proposed", "needs_changes", "approved"}
                           /\ due' = due \cup {d} /\ late' = late \ {d} /\ UNCHANGED day
       \/ \E d \in Ideas \ due : /\ state[d] \in {"proposed", "needs_changes"}
                                 /\ late' = late \cup {d} /\ UNCHANGED <<day, due>>
    /\ Acts("other")
    /\ UNCHANGED <<ideaVars, policyVars, lane>>

-----------------------------------------------------------------------------
(* The event-driven lane.                                                  *)

LaneAt(l, pc) == lane[l].pc = pc
LaneHolds(l, pc, b, c) ==
    lane' = [lane EXCEPT ![l] = [pc |-> pc, idea |-> lane[l].idea, hash |-> lane[l].hash,
                                 budget |-> b, context |-> c]]
LaneGoes(l, pc) == LaneHolds(l, pc, None, None)
LaneEnds(l) == lane' = [lane EXCEPT ![l] = IdleLane]

\* decision_flow proposes and hands the view to the lane.
LaneProposes(l, d, h) ==
    /\ LaneAt(l, "idle")
    /\ state[d] = "none"
    /\ AppendAudit(d, "proposed", h)
    /\ stored' = [stored EXCEPT ![d] = h]
    /\ lane' = [lane EXCEPT ![l] = [pc |-> "proposed", idea |-> d, hash |-> h,
                                    budget |-> None, context |-> None]]
    /\ Acts("other")
    /\ UNCHANGED <<approver, closeout, policyVars, clockVars>>

LaneReadsBudget(l) ==
    /\ LaneAt(l, "proposed")
    /\ LaneHolds(l, "budget", budget, None)
    /\ Acts("other")
    /\ UNCHANGED <<ideaVars, policyVars, clockVars>>

LaneReadsContext(l) ==
    /\ LaneAt(l, "budget")
    /\ LaneHolds(l, "context", lane[l].budget, ContextOf(lane[l].idea, {}))
    /\ Acts("other")
    /\ UNCHANGED <<ideaVars, policyVars, clockVars>>

\* decision_autonomy with what was read, then the policy.
LaneChecks(l) ==
    LET v == lane[l]
        after == Ratcheted(v.budget, v.context.loss)
        ok == Admitted(v.idea, v.hash, "system", Mode(after), v.budget, v.context, Tickets)
    IN /\ LaneAt(l, "context")
       /\ level' = after
       /\ LaneGoes(l, IF ok THEN "admitted" ELSE "denied")
       /\ Acts("other")
       /\ UNCHANGED <<ideaVars, budget, logOk, clockVars>>

\* record_denied_approval appends the event with the record the lane holds.
LaneRecordsDenial(l) ==
    /\ LaneAt(l, "denied")
    /\ AppendAudit(lane[l].idea, "proposed", lane[l].hash)
    /\ LaneEnds(l)
    /\ Acts("other")
    /\ UNCHANGED <<stored, approver, closeout, policyVars, clockVars>>

\* Mutated form: only the level is resolved again, the envelope is the lane's own check.
LaneCommitsStale(l) ==
    /\ LaneAt(l, "admitted") /\ Intact(lane[l].idea) /\ stored[lane[l].idea] = lane[l].hash
    /\ Mode(LevelNow) = "bounded"
    /\ level' = LevelNow /\ Approve(lane[l].idea, "system") /\ LaneGoes(l, "approved")

\* commit_approval checks again in the transaction that records the approval.
LaneCommits(l) ==
    /\ LaneAt(l, "admitted") /\ Intact(lane[l].idea) /\ stored[lane[l].idea] = lane[l].hash
    /\ \/ /\ AdmittedNow(lane[l].idea, "system")
          /\ level' = LevelNow /\ Approve(lane[l].idea, "system") /\ LaneGoes(l, "approved")
       \/ ~AdmittedNow(lane[l].idea, "system") /\ Refuse /\ LaneEnds(l)

LaneChecksExecution(l) ==
    /\ LaneAt(l, "approved")
    /\ level' = LevelNow
    /\ LaneGoes(l, IF Mode(LevelNow) = "bounded" THEN "executable" ELSE "execution_denied")
    /\ Acts(IF Mode(LevelNow) = "bounded" THEN "other" ELSE "refused")
    /\ UNCHANGED <<ideaVars, budget, logOk, clockVars>>

LaneRecordsExecutionDenial(l) ==
    /\ LaneAt(l, "execution_denied")
    /\ AppendAudit(lane[l].idea, "approved", lane[l].hash)
    /\ LaneEnds(l)
    /\ Acts("other")
    /\ UNCHANGED <<stored, approver, closeout, policyVars, clockVars>>

LaneExecutes(l) ==
    /\ LaneAt(l, "executable")
    /\ Execute(lane[l].idea)
    /\ LaneEnds(l)

\* A feature flag is off, a call raised, or the engine stopped.
LaneStops(l) ==
    /\ ~LaneAt(l, "idle")
    /\ LaneEnds(l)
    /\ Acts("other")
    /\ UNCHANGED <<ideaVars, policyVars, clockVars>>

-----------------------------------------------------------------------------
ReviewerActs ==
    \/ \E d \in Ideas : RequestChanges(d) \/ HumanApproves(d) \/ MarkSubmitted(d) \/ RecordFill(d)
    \/ \E d \in Ideas, h \in Hashes : Propose(d, h) \/ Resubmit(d, h)
    \/ \E d \in Ideas, s \in Terminal : End(d, s)
    \/ \E d \in Ideas, loss \in Losses \cup {Unknown} : RecordCloseout(d, loss)
    \/ \E b \in Budgets : UpdateBudget(b)
    \/ \E m \in Levels, actor \in Actors : SetAutonomyMode(m, actor)

MachineActs ==
    \/ AutoApproveSweep \/ AutoAttribute
    \/ \E E \in SUBSET Ideas : ExpireDue(E)
    \/ \E d \in Ideas : Execute(d) /\ UNCHANGED lane

LaneActs(l) ==
    \/ \E d \in Ideas, h \in Hashes : LaneProposes(l, d, h)
    \/ LaneReadsBudget(l) \/ LaneReadsContext(l) \/ LaneChecks(l)
    \/ LaneRecordsDenial(l) \/ LaneCommits(l)
    \/ LaneChecksExecution(l) \/ LaneRecordsExecutionDenial(l) \/ LaneExecutes(l)
    \/ LaneStops(l)

Next == ReviewerActs \/ MachineActs \/ (\E l \in Lanes : LaneActs(l)) \/ LogChanges \/ TimePasses

Spec == Init /\ [][Next]_vars

-----------------------------------------------------------------------------
(* Properties.                                                             *)

\* The variables have their types, and an idea that exists has a stored and an
\* audited record (service.py append_audit, store.py save).
IdeaTypeOK ==
    /\ state \in [Ideas -> States]
    /\ stored \in [Ideas -> Hashes \cup {None}] /\ audited \in [Ideas -> Hashes \cup {None}]
    /\ \A d \in Ideas : (state[d] = "none") = (stored[d] = None)
                        /\ (stored[d] = None) = (audited[d] = None)
    /\ approver \in [Ideas -> Actors \cup {None}]
    /\ closeout \in [Ideas -> Closeouts \cup {None}]
    /\ budget \in Budgets /\ level \in Levels /\ logOk \in BOOLEAN
    /\ day \in 0..MaxDay /\ due \subseteq Ideas /\ late \subseteq Ideas
    /\ lane \in [Lanes -> BusyLanes \cup {IdleLane}]
    /\ act \in {"refused", "executed", "other"}

\* Approvals of a step: ideas that become approved, or change their approver.
Approvals == {d \in Ideas : state'[d] = "approved" /\ (state[d] # "approved" \/ approver'[d] # approver[d])}

\* Whoever approves, one idea or a batch, by hand, by the sweep or by a lane that
\* checked long before: the day's loss, every open risk and the new ones together
\* stay within the budget that is active when the approval is recorded (policy.py
\* approval_violations, service.py commit_approval).
ApprovalsFitTheEnvelope ==
    [][Approvals # {} =>
        /\ LossOf(SettledToday) + RiskOf(Exposed)' <= budget.daily
        /\ NotionalOf(Exposed)' <= budget.notional
        /\ Tickets' <= budget.slots]_vars

\* What the machine does on its own, approving an idea or executing one that only
\* the system approved, it does while the readable log says bounded autonomy and
\* the losses are within the budget in force (kernel.py check_execution, executor.py).
MachineActsInBounds ==
    [][\A d \in Ideas :
        \/ d \in Approvals /\ approver'[d] = "system"
        \/ state'[d] = "submitted" /\ state[d] # "submitted" /\ act' = "executed" /\ approver[d] = "system"
        => logOk /\ level = "bounded" /\ ~Breached]_vars

\* A decision taken after the losses have passed the budget leaves the level below
\* bounded autonomy, and so does one that is refused: the refusal's rollback keeps
\* the lowered level (persistence.py admission_transaction, service.py update_budget).
BreachEndsAutonomy ==
    [][act' = "refused" \/ Approvals # {} \/ budget' # budget =>
        ~(logOk /\ level' = "bounded" /\ Breached')]_vars

=============================================================================
