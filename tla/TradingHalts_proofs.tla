------------------------ MODULE TradingHalts_proofs -------------------------
(***************************************************************************)
(* Proofs about halts, for any symbols, tasks, pause lengths, thresholds,  *)
(* clock and calendar.                                                     *)
(*                                                                         *)
(* Pauses: one record per scope is enough because what has been asked for  *)
(* a symbol is always covered by the record of that symbol, by the global  *)
(* one, or by time that has passed (Covered).  Daily loss: the mode in     *)
(* memory survives a restart because the file of the day says the same     *)
(* (LossInv).                                                              *)
(***************************************************************************)
EXTENDS TradingHalts, TLAPS

-----------------------------------------------------------------------------
(* Pauses, when a stale mark still allows reducing orders (the default).   *)

\* What was asked for is covered, at time t.
Covered(g, t) ==
    \A s \in Symbols :
        /\ g.reduces[s] = 0
        /\ \/ g.opens[s] <= t
           \/ g.opens[s] <= g.pause[All].until
           \/ g.opens[s] <= g.pause[s].until

DegradationOK(g) == g \in Degradations /\ Covered(g, now)

PauseInv == now \in Nat /\ DegradationOK(deg)

\* The degradation state of a new process.
LEMMA NoDegradationOK == now \in Nat => DegradationOK(NoDegradation)
  BY ThresholdAssumption DEF DegradationOK, Degradations, NoDegradation, Covered, Pauses, Scopes

\* The latest of the ends asked for so far is one of them, or the new one.
LEMMA LatestEnds ==
    ASSUME NEW f \in [Symbols -> Nat], NEW scope, NEW until \in Nat
    PROVE  /\ Latest(f, scope, until) \in [Symbols -> Nat]
           /\ \A s \in Symbols :
                 \/ Latest(f, scope, until)[s] = f[s]
                 \/ scope \in {All, s} /\ Latest(f, scope, until)[s] = until
  BY DEF Latest

\* pause_all and pause_symbol keep every earlier request covered.
LEMMA PauseScopeOK ==
    ASSUME NEW g, DegradationOK(g), now \in Nat,
           NEW scope \in Scopes, NEW seconds \in Durations
    PROVE  DegradationOK(PauseScope(g, scope, seconds, TRUE))
  <1> DEFINE end == now + seconds
             p == IF g.pause[scope].until > end THEN g.pause[scope]
                  ELSE [until |-> end, allow |-> TRUE]
             h == PauseScope(g, scope, seconds, TRUE)
  <1>1. end \in Nat
    BY ThresholdAssumption
  <1>2. g \in Degradations /\ g.pause \in [Scopes -> Pauses] /\ g.opens \in [Symbols -> Nat]
    BY DEF DegradationOK, Degradations
  <1>3. p \in Pauses /\ p.until >= end /\ p.until >= g.pause[scope].until
    BY <1>1, <1>2 DEF Pauses
  <1>4. /\ h.pause = [g.pause EXCEPT ![scope] = p]
        /\ h.opens = Latest(g.opens, scope, end)
        /\ h.reduces = g.reduces /\ h.slippage = g.slippage /\ h.outage = g.outage
        /\ h = [pause |-> h.pause, slippage |-> h.slippage, outage |-> h.outage,
                opens |-> h.opens, reduces |-> h.reduces]
    BY DEF PauseScope, Paused
  <1> HIDE DEF h, p, end
  <1>5. h \in Degradations
    BY <1>1, <1>2, <1>3, <1>4, LatestEnds DEF Degradations
  <1>6. Covered(h, now)
    <2> SUFFICES ASSUME NEW s \in Symbols
                 PROVE  /\ h.reduces[s] = 0
                        /\ \/ h.opens[s] <= now
                           \/ h.opens[s] <= h.pause[All].until
                           \/ h.opens[s] <= h.pause[s].until
      BY DEF Covered
    <2>1. /\ g.reduces[s] = 0
          /\ \/ g.opens[s] <= now
             \/ g.opens[s] <= g.pause[All].until
             \/ g.opens[s] <= g.pause[s].until
      BY DEF DegradationOK, Covered
    <2>2. \A x \in Scopes : /\ h.pause[x].until \in Nat /\ g.pause[x].until \in Nat
                            /\ h.pause[x].until >= g.pause[x].until
      BY <1>2, <1>3, <1>4 DEF Pauses
    <2>3. \/ h.opens[s] = g.opens[s]
          \/ scope \in {All, s} /\ h.opens[s] = end
      BY <1>1, <1>2, <1>4, LatestEnds
    <2>4. h.pause[scope].until >= end
      BY <1>2, <1>3, <1>4
    <2>5. All \in Scopes /\ s \in Scopes /\ g.opens[s] \in Nat
      BY <1>2 DEF Scopes
    <2>6. CASE h.opens[s] = g.opens[s]
      BY <1>4, <2>1, <2>2, <2>5, <2>6
    <2>7. CASE scope \in {All, s} /\ h.opens[s] = end
      BY <1>1, <1>4, <2>1, <2>2, <2>4, <2>5, <2>7
    <2> QED  BY <2>3, <2>6, <2>7
  <1> QED  BY <1>5, <1>6 DEF DegradationOK, h

\* Counters do not matter to pauses.
LEMMA CountersOK ==
    ASSUME NEW g, DegradationOK(g)
    PROVE  /\ \A s \in Symbols : \A n \in 0..(SlippageAfter - 1) :
                 DegradationOK([g EXCEPT !.slippage[s] = n])
           /\ \A n \in 0..(OutageAfter - 1) : DegradationOK([g EXCEPT !.outage = n])
  BY DEF DegradationOK, Degradations, Covered

\* record_slippage_failure, with the pause it may set.
LEMMA SlippageFailureOK ==
    ASSUME NEW g, DegradationOK(g), now \in Nat,
           NEW s \in Symbols, NEW seconds \in Durations
    PROVE  DegradationOK(RecordSlippageFailure(g, s, seconds))
  <1> DEFINE h == PauseScope(g, s, seconds, TRUE)
  <1>1. DegradationOK(h)
    BY PauseScopeOK DEF Scopes
  <1> HIDE DEF h
  <1>2. 0 \in 0..(SlippageAfter - 1) /\ g.slippage[s] \in 0..(SlippageAfter - 1)
    BY ThresholdAssumption DEF DegradationOK, Degradations
  <1>3. CASE g.slippage[s] + 1 >= SlippageAfter
    <2>1. DegradationOK([h EXCEPT !.slippage[s] = 0])
      BY <1>1, <1>2, CountersOK
    <2> QED  BY <1>3, <2>1 DEF RecordSlippageFailure, h
  <1>4. CASE ~(g.slippage[s] + 1 >= SlippageAfter)
    <2>1. g.slippage[s] + 1 \in 0..(SlippageAfter - 1)
      BY <1>2, <1>4, ThresholdAssumption
    <2>2. DegradationOK([g EXCEPT !.slippage[s] = g.slippage[s] + 1])
      BY <2>1, CountersOK
    <2>3. RecordSlippageFailure(g, s, seconds) = [g EXCEPT !.slippage[s] = g.slippage[s] + 1]
      BY <1>4 DEF RecordSlippageFailure
    <2> QED  BY <2>2, <2>3
  <1> QED  BY <1>3, <1>4

\* record_broker_failure, with the pause it may set.
LEMMA BrokerFailureOK ==
    ASSUME NEW g, DegradationOK(g), now \in Nat, NEW seconds \in Durations
    PROVE  DegradationOK(RecordBrokerFailure(g, seconds))
  <1> DEFINE h == PauseScope(g, All, seconds, TRUE)
  <1>1. DegradationOK(h)
    BY PauseScopeOK DEF Scopes
  <1> HIDE DEF h
  <1>2. 0 \in 0..(OutageAfter - 1) /\ g.outage \in 0..(OutageAfter - 1)
    BY ThresholdAssumption DEF DegradationOK, Degradations
  <1>3. CASE g.outage + 1 >= OutageAfter
    <2>1. DegradationOK([h EXCEPT !.outage = 0])
      BY <1>1, <1>2, CountersOK
    <2> QED  BY <1>3, <2>1 DEF RecordBrokerFailure, h
  <1>4. CASE ~(g.outage + 1 >= OutageAfter)
    <2>1. g.outage + 1 \in 0..(OutageAfter - 1)
      BY <1>2, <1>4, ThresholdAssumption
    <2>2. DegradationOK([g EXCEPT !.outage = g.outage + 1])
      BY <2>1, CountersOK
    <2>3. RecordBrokerFailure(g, seconds) = [g EXCEPT !.outage = g.outage + 1]
      BY <1>4 DEF RecordBrokerFailure
    <2> QED  BY <2>2, <2>3
  <1> QED  BY <1>3, <1>4

\* check_mark_staleness, when it lets reducing orders on.
LEMMA MarkCheckedOK ==
    ASSUME NEW g, DegradationOK(g), now \in Nat, MarkAllowsReduce = TRUE,
           NEW s \in Symbols, NEW stale \in BOOLEAN, NEW seconds \in Durations
    PROVE  DegradationOK(MarkChecked(g, s, stale, seconds))
  <1>1. DegradationOK(PauseScope(g, s, seconds, TRUE))
    BY PauseScopeOK DEF Scopes
  <1>2. MarkChecked(g, s, stale, seconds) \in {PauseScope(g, s, seconds, TRUE), g}
    BY DEF MarkChecked
  <1> QED  BY <1>1, <1>2

\* The step of a check that may escalate.
LEMMA CheckDoneOK ==
    ASSUME NEW g, DegradationOK(g), now \in Nat, NEW c \in Checks,
           NEW works \in BOOLEAN, NEW seconds \in Durations,
           CheckDone(g, c, works, seconds)
    PROVE  DegradationOK(deg')
  <1>1. DegradationOK(PauseScope(g, All, seconds, TRUE))
    BY PauseScopeOK DEF Scopes
  <1>2. deg' = g \/ deg' = PauseScope(g, All, seconds, TRUE)
    BY DEF CheckDone
  <1> QED  BY <1>1, <1>2

\* An order in the guard stack keeps every pause covered.
LEMMA OrderStepPauses ==
    ASSUME PauseInv, MarkAllowsReduce = TRUE, OrderStep
    PROVE  now' = now /\ DegradationOK(deg')
  <1>1. now \in Nat /\ DegradationOK(deg)
    BY DEF PauseInv
  <1>2. 0 \in 0..(SlippageAfter - 1)
    BY ThresholdAssumption
  <1>3. ASSUME NEW s \in Symbols, NEW d \in Durations, NEW reducing \in BOOLEAN,
               BlockOnStaleMark(s, reducing, d)
        PROVE  now' = now /\ DegradationOK(deg')
    BY <1>1, <1>3, MarkCheckedOK DEF BlockOnStaleMark
  <1>4. ASSUME NEW s \in Symbols, NEW d \in Durations, NEW reducing \in BOOLEAN,
               NEW stale \in BOOLEAN, BlockOnSlippage(s, reducing, stale, d)
        PROVE  now' = now /\ DegradationOK(deg')
    <2>1. DegradationOK(MarkChecked(deg, s, stale, d))
      BY <1>1, MarkCheckedOK
    <2>2. DegradationOK(RecordSlippageFailure(MarkChecked(deg, s, stale, d), s, d))
      BY <1>1, <2>1, SlippageFailureOK
    <2> QED  BY <1>4, <2>2 DEF BlockOnSlippage
  <1>5. ASSUME NEW t \in Tasks, NEW s \in Symbols, NEW d \in Durations,
               NEW reducing \in BOOLEAN, NEW stale \in BOOLEAN, NEW works \in BOOLEAN,
               PassGuards(t, s, reducing, stale, works, d)
        PROVE  now' = now /\ DegradationOK(deg')
    <2> DEFINE g == [MarkChecked(deg, s, stale, d) EXCEPT !.slippage[s] = 0]
    <2>1. DegradationOK(MarkChecked(deg, s, stale, d))
      BY <1>1, MarkCheckedOK
    <2>2. DegradationOK(g)
      BY <1>2, <2>1, CountersOK
    <2>3. CheckDone(g, "slippage_guard", works, d) /\ now' = now
      BY <1>5 DEF PassGuards
    <2> HIDE DEF g
    <2>4. DegradationOK(deg')
      BY <1>1, <2>2, <2>3, CheckDoneOK DEF Checks
    <2> QED  BY <2>3, <2>4
  <1>6. ASSUME NEW t \in Tasks, NEW works \in BOOLEAN, NEW d \in Durations,
               PreviewReturns(t, works, d)
        PROVE  now' = now /\ DegradationOK(deg')
    BY <1>1, <1>6, CheckDoneOK DEF PreviewReturns, Checks
  <1>7. ASSUME NEW t \in Tasks, PreviewRefuses(t) \/ SubmitOrder(t)
        PROVE  now' = now /\ DegradationOK(deg')
    BY <1>1, <1>7 DEF PreviewRefuses, SubmitOrder, Leave
  <1> QED  BY <1>3, <1>4, <1>5, <1>6, <1>7 DEF OrderStep

\* Whatever else halts trading keeps every pause covered.
LEMMA HaltStepPauses ==
    ASSUME PauseInv, HaltStep
    PROVE  now' = now /\ DegradationOK(deg')
  <1>1. now \in Nat /\ DegradationOK(deg)
    BY DEF PauseInv
  <1>2. ASSUME NEW d \in Durations
        PROVE  DegradationOK(PauseScope(deg, All, d, TRUE))
    BY <1>1, PauseScopeOK DEF Scopes
  <1>3. ASSUME NEW d \in Durations, WsReconnected(d) \/ WsStale(d)
        PROVE  now' = now /\ DegradationOK(deg')
    BY <1>2, <1>3 DEF WsReconnected, WsStale
  <1>4. ASSUME VolatilityBreaker
        PROVE  now' = now /\ DegradationOK(deg')
    BY <1>1, <1>4 DEF VolatilityBreaker
  <1>5. ASSUME NEW h, StartHalt(h)
        PROVE  now' = now /\ DegradationOK(deg')
    BY <1>1, <1>5 DEF StartHalt
  <1>6. ASSUME NEW h, NEW d \in Durations, FinishHalt(h, d)
        PROVE  now' = now /\ DegradationOK(deg')
    BY <1>2, <1>6 DEF FinishHalt
  <1>7. ASSUME NEW works \in BOOLEAN, NEW d \in Durations, BrokerRead(works, d)
        PROVE  now' = now /\ DegradationOK(deg')
    <2>1. DegradationOK(RecordBrokerFailure(deg, d))
      BY <1>1, BrokerFailureOK
    <2>2. DegradationOK([deg EXCEPT !.outage = 0])
      BY <1>1, CountersOK, ThresholdAssumption
    <2> QED  BY <1>7, <2>1, <2>2 DEF BrokerRead
  <1> QED  BY <1>3, <1>4, <1>5, <1>6, <1>7 DEF HaltStep

\* Every step keeps PauseInv.
LEMMA PauseInvStep ==
    ASSUME PauseInv, MarkAllowsReduce = TRUE, [HaltNext]_haltVars
    PROVE  PauseInv'
  <1>1. now \in Nat /\ DegradationOK(deg)
    BY DEF PauseInv
  <1>2. ASSUME now' = now, DegradationOK(deg')
        PROVE  PauseInv'
    BY <1>1, <1>2 DEF PauseInv, DegradationOK, Covered
  <1>3. CASE OrderStep
    BY <1>2, <1>3, OrderStepPauses
  <1>4. CASE HaltStep
    BY <1>2, <1>4, HaltStepPauses
  <1>5. CASE RiskStep
    <2>1. now' = now /\ deg' = deg
      BY <1>5 DEF RiskStep, TrackDailyPnl, SweepSetsBaseline, SweepWrites, ResetDailyTracking
    <2> QED  BY <1>1, <1>2, <2>1
  <1>6. CASE Tick
    <2>1. now' \in Nat /\ now' = now + 1 /\ deg' = deg
      BY <1>1, <1>6 DEF Tick
    <2>2. deg.opens \in [Symbols -> Nat]
      BY <1>1 DEF DegradationOK, Degradations
    <2>3. Covered(deg, now')
      BY <1>1, <2>1, <2>2 DEF DegradationOK, Covered
    <2> QED  BY <1>1, <2>1, <2>3 DEF PauseInv, DegradationOK, Degradations, Covered
  <1>7. CASE NextDay
    BY <1>1, <1>2, <1>7 DEF NextDay
  <1>8. CASE Restart \/ DieWhileSaving
    <2>1. now' = now /\ deg' = NoDegradation
      BY <1>8 DEF Restart, DieWhileSaving, StartFrom
    <2> QED  BY <1>1, <1>2, <2>1, NoDegradationOK
  <1>9. CASE UNCHANGED haltVars
    BY <1>1, <1>2, <1>9 DEF haltVars
  <1> QED  BY <1>3, <1>4, <1>5, <1>6, <1>7, <1>8, <1>9 DEF HaltNext

\* With the default of mark_staleness_allow_reduce_only, an order is held back
\* until the latest end that any part of the engine asked for: is_paused needs
\* only one record per scope.
THEOREM PausesHold ==
    ASSUME MarkAllowsReduce = TRUE
    PROVE  HaltSpec => []PausesAreHonoured
  <1>1. HaltInit => PauseInv
    BY NoDegradationOK DEF HaltInit, PauseInv
  <1>2. PauseInv /\ [HaltNext]_haltVars => PauseInv'
    BY PauseInvStep
  <1>3. PauseInv => PausesAreHonoured
    <2> SUFFICES ASSUME PauseInv, NEW s \in Symbols
                 PROVE  /\ now < deg.opens[s] => IsPaused(s, FALSE)
                        /\ now < deg.reduces[s] => IsPaused(s, TRUE)
      BY DEF PausesAreHonoured
    <2>1. /\ now \in Nat /\ deg.opens[s] \in Nat
          /\ deg.pause[All].until \in Nat /\ deg.pause[s].until \in Nat
      BY DEF PauseInv, DegradationOK, Degradations, Pauses, Scopes
    <2>2. /\ deg.reduces[s] = 0
          /\ \/ deg.opens[s] <= now
             \/ deg.opens[s] <= deg.pause[All].until
             \/ deg.opens[s] <= deg.pause[s].until
      BY DEF PauseInv, DegradationOK, Covered
    <2> QED  BY <2>1, <2>2 DEF IsPaused
  <1> QED  BY <1>1, <1>2, <1>3, PTL DEF HaltSpec

-----------------------------------------------------------------------------
(* The daily loss limit, as long as nothing goes wrong with the state file. *)

\* Reduce-only mode for a loss, in a LiveRiskManager.
Stopped(r) == r.triggered = TRUE /\ r.reduceOnly = TRUE

LossInv ==
    /\ day \in 0..MaxDay
    /\ risk \in Risks
    /\ writing = NoState
    /\ tripped # NoDay => tripped \in 0..day
    /\ tripped = day =>
          /\ Stopped(risk)
          /\ saved \in States /\ saved.day = day /\ Stopped(saved.risk)
    /\ saved \in States => saved.day \in 0..day
    /\ risk.reduceOnly = TRUE =>
          saved \in States /\ (saved.day = day => saved.risk.reduceOnly = TRUE)

\* Faults are counted, and never forgotten.
FaultCount == faults' = faults \/ faults' = faults + 1

LEMMA SaveCounts ==
    ASSUME NEW r, SaveState(r)
    PROVE  FaultCount
  BY DEF SaveState, Fault, FaultCount

LEMMA SetModeCounts ==
    ASSUME SetReduceOnlyMode
    PROVE  FaultCount
  BY SaveCounts DEF SetReduceOnlyMode

\* Every step counts at most one fault.
LEMMA StepCounts ==
    ASSUME [HaltNext]_haltVars
    PROVE  FaultCount
  <1>1. ASSUME NEW g, NEW c, NEW works, NEW seconds, CheckDone(g, c, works, seconds)
        PROVE  FaultCount
    BY <1>1, SetModeCounts DEF CheckDone, FaultCount
  <1>2. CASE OrderStep
    <2>1. ASSUME NEW t, NEW s, NEW d, NEW reducing, NEW stale,
                 \/ BlockOnStaleMark(s, reducing, d) \/ BlockOnSlippage(s, reducing, stale, d)
                 \/ PreviewRefuses(t) \/ SubmitOrder(t)
          PROVE  FaultCount
      BY <2>1 DEF BlockOnStaleMark, BlockOnSlippage, PreviewRefuses, SubmitOrder, Leave,
         FaultCount
    <2>2. ASSUME NEW t, NEW s, NEW d, NEW reducing, NEW stale, NEW works,
                 PassGuards(t, s, reducing, stale, works, d) \/ PreviewReturns(t, works, d)
          PROVE  FaultCount
      BY <1>1, <2>2 DEF PassGuards, PreviewReturns
    <2> QED  BY <1>2, <2>1, <2>2 DEF OrderStep
  <1>3. CASE HaltStep
    <2>1. ASSUME NEW d, NEW h, NEW works,
                 WsReconnected(d) \/ FinishHalt(h, d) \/ BrokerRead(works, d)
          PROVE  FaultCount
      BY <2>1 DEF WsReconnected, FinishHalt, BrokerRead, FaultCount
    <2>2. ASSUME NEW d, NEW h, WsStale(d) \/ VolatilityBreaker \/ StartHalt(h)
          PROVE  FaultCount
      BY <2>2, SetModeCounts DEF WsStale, VolatilityBreaker, StartHalt
    <2> QED  BY <1>3, <2>1, <2>2 DEF HaltStep
  <1>4. ASSUME NEW e, TrackDailyPnl(e)
        PROVE  FaultCount
    BY <1>4, SaveCounts DEF TrackDailyPnl
  <1>5. ASSUME NEW e, SweepSetsBaseline(e)
        PROVE  FaultCount
    BY <1>5 DEF SweepSetsBaseline, Fault, FaultCount
  <1>6. CASE SweepWrites
    BY <1>6 DEF SweepWrites, FaultCount
  <1>7. CASE ResetDailyTracking
    BY <1>7, SaveCounts DEF ResetDailyTracking
  <1>8. CASE RiskStep
    BY <1>4, <1>5, <1>6, <1>7, <1>8 DEF RiskStep
  <1>9. CASE Tick \/ NextDay \/ Restart \/ DieWhileSaving \/ UNCHANGED haltVars
    BY <1>9 DEF Tick, NextDay, Restart, DieWhileSaving, Fault, haltVars, FaultCount
  <1> QED  BY <1>2, <1>3, <1>8, <1>9 DEF HaltNext

\* A save that does not fail leaves in the file what is in memory.
LEMMA SaveKeepsLoss ==
    ASSUME LossInv, faults = 0, faults' = 0, NEW r \in Risks, SaveState(r)
    PROVE  saved' \in States /\ saved'.day = day /\ saved'.risk = r
  BY DEF LossInv, SaveState, StateToSave, States, Fault

\* set_reduce_only_mode, whoever calls it.
LEMMA SetModeKeepsLoss ==
    ASSUME LossInv, faults = 0, faults' = 0, SetReduceOnlyMode,
           day' = day, tripped' = tripped, writing' = writing
    PROVE  LossInv'
  <1>1. risk' \in Risks /\ risk'.triggered = risk.triggered /\ risk'.reduceOnly = TRUE
    BY DEF LossInv, SetReduceOnlyMode, Risks
  <1>2. saved' \in States /\ saved'.day = day /\ saved'.risk = risk'
    BY <1>1, SaveKeepsLoss DEF SetReduceOnlyMode
  <1> QED  BY <1>1, <1>2 DEF LossInv, Stopped

\* A step that leaves the risk manager alone.
LEMMA OtherStepKeepsLoss ==
    ASSUME LossInv, UNCHANGED <<day, risk, saved, writing, tripped>>
    PROVE  LossInv'
  BY DEF LossInv, Stopped

\* A check of the validation infrastructure, escalating or not.
LEMMA CheckKeepsLoss ==
    ASSUME LossInv, faults = 0, faults' = 0, NEW g, NEW c, NEW works, NEW seconds,
           CheckDone(g, c, works, seconds),
           day' = day, tripped' = tripped, writing' = writing
    PROVE  LossInv'
  <1>1. SetReduceOnlyMode \/ UNCHANGED <<risk, saved>>
    BY DEF CheckDone
  <1> QED  BY <1>1, SetModeKeepsLoss, OtherStepKeepsLoss

\* An order in the guard stack keeps LossInv.
LEMMA OrderStepLoss ==
    ASSUME LossInv, faults = 0, faults' = 0, OrderStep
    PROVE  LossInv'
  <1>1. ASSUME NEW s, NEW d, NEW reducing, NEW stale,
               BlockOnStaleMark(s, reducing, d) \/ BlockOnSlippage(s, reducing, stale, d)
        PROVE  LossInv'
    BY <1>1, OtherStepKeepsLoss DEF BlockOnStaleMark, BlockOnSlippage
  <1>2. ASSUME NEW t, NEW s, NEW d, NEW reducing, NEW stale, NEW works,
               PassGuards(t, s, reducing, stale, works, d)
        PROVE  LossInv'
    BY <1>2, CheckKeepsLoss DEF PassGuards
  <1>3. ASSUME NEW t, NEW works, NEW d, PreviewReturns(t, works, d)
        PROVE  LossInv'
    BY <1>3, CheckKeepsLoss DEF PreviewReturns
  <1>4. ASSUME NEW t, PreviewRefuses(t) \/ SubmitOrder(t)
        PROVE  LossInv'
    BY <1>4, OtherStepKeepsLoss DEF PreviewRefuses, SubmitOrder, Leave
  <1> QED  BY <1>1, <1>2, <1>3, <1>4 DEF OrderStep

\* The halts and the broker's reads keep LossInv.
LEMMA HaltStepLoss ==
    ASSUME LossInv, faults = 0, faults' = 0, HaltStep
    PROVE  LossInv'
  <1>1. ASSUME NEW d, WsStale(d)
        PROVE  LossInv'
    BY <1>1, SetModeKeepsLoss DEF WsStale
  <1>2. ASSUME VolatilityBreaker
        PROVE  LossInv'
    BY <1>2, SetModeKeepsLoss DEF VolatilityBreaker
  <1>3. ASSUME NEW h, StartHalt(h)
        PROVE  LossInv'
    BY <1>3, SetModeKeepsLoss DEF StartHalt
  <1>4. ASSUME NEW h, NEW d, NEW works,
               WsReconnected(d) \/ FinishHalt(h, d) \/ BrokerRead(works, d)
        PROVE  LossInv'
    BY <1>4, OtherStepKeepsLoss DEF WsReconnected, FinishHalt, BrokerRead
  <1> QED  BY <1>1, <1>2, <1>3, <1>4 DEF HaltStep

\* track_daily_pnl and reset_daily_tracking keep LossInv.
LEMMA RiskStepLoss ==
    ASSUME LossInv, faults = 0, faults' = 0, RiskStep
    PROVE  LossInv'
  <1>1. ASSUME NEW e \in Equities, TrackDailyPnl(e)
        PROVE  LossInv'
    <2>1. risk' \in Risks
      <3>1. [equity |-> e, day |-> day] \in Baselines
        BY DEF LossInv, Baselines
      <3> QED  BY <1>1, <3>1 DEF LossInv, TrackDailyPnl, Risks
    <2>2. saved' \in States /\ saved'.day = day /\ saved'.risk = risk'
      BY <1>1, <2>1, SaveKeepsLoss DEF TrackDailyPnl
    <2>3. day' = day /\ writing' = writing
      BY <1>1 DEF TrackDailyPnl
    <2>4. CASE tripped' = tripped /\ risk' = [risk EXCEPT !.baseline = [equity |-> e, day |-> day]]
      BY <2>1, <2>2, <2>3, <2>4 DEF LossInv, Stopped, Risks
    <2>5. CASE tripped' = day /\ risk' = [risk EXCEPT !.triggered = TRUE, !.reduceOnly = TRUE]
      <3>1. Stopped(risk')
        BY <2>5 DEF LossInv, Stopped, Risks
      <3>2. day \in 0..day
        BY ThresholdAssumption DEF LossInv
      <3> QED  BY <2>1, <2>2, <2>3, <2>5, <3>1, <3>2 DEF LossInv
    <2> QED  BY <1>1, <2>4, <2>5 DEF TrackDailyPnl
  <1>2. ASSUME NEW e \in Equities, SweepSetsBaseline(e)
        PROVE  FALSE
    BY <1>2 DEF SweepSetsBaseline, Fault
  <1>3. ASSUME SweepWrites
        PROVE  FALSE
    BY <1>3 DEF SweepWrites, LossInv
  <1>4. ASSUME ResetDailyTracking
        PROVE  LossInv'
    <2>1. NoHalt \in Risks
      BY DEF NoHalt, Risks
    <2>2. tripped' = NoDay /\ day' = day /\ writing' = writing /\ risk' = NoHalt
      BY <1>4 DEF ResetDailyTracking
    <2>3. tripped' # day'
      BY <2>2, AbsenceAssumption DEF LossInv
    <2>4. saved' \in States /\ saved'.day = day
      BY <1>4, <2>1, <2>2, SaveKeepsLoss DEF ResetDailyTracking
    <2>5. risk'.reduceOnly = FALSE
      BY <2>2 DEF NoHalt
    <2>6. day \in 0..day
      BY ThresholdAssumption DEF LossInv
    <2> QED  BY <2>1, <2>2, <2>3, <2>4, <2>5, <2>6 DEF LossInv
  <1> QED  BY <1>1, <1>2, <1>3, <1>4 DEF RiskStep

\* Every step keeps LossInv.
LEMMA LossInvStep ==
    ASSUME LossInv, faults = 0, faults' = 0, [HaltNext]_haltVars
    PROVE  LossInv'
  <1>1. CASE NextDay
    <2>1. day' = day + 1 /\ day' \in 0..MaxDay /\ day \in Nat
      BY <1>1, ThresholdAssumption DEF NextDay, LossInv
    <2>2. UNCHANGED <<risk, saved, writing, tripped>>
      BY <1>1 DEF NextDay
    <2>3. tripped # NoDay => tripped \in 0..day /\ tripped \in 0..day' /\ tripped # day'
      BY <2>1 DEF LossInv
    <2>4. day' # NoDay
      BY <2>1, AbsenceAssumption
    <2>5. saved \in States => saved.day \in 0..day' /\ saved.day # day'
      BY <2>1 DEF LossInv
    <2> QED  BY <2>1, <2>2, <2>3, <2>4, <2>5 DEF LossInv
  <1>2. CASE Restart
    <2>1. /\ saved' = saved /\ risk' = LoadedRisk(saved) /\ writing' = NoState
          /\ UNCHANGED <<day, tripped>>
      BY <1>2 DEF Restart, StartFrom
    <2>2. risk' \in Risks
      BY <2>1 DEF LoadedRisk, States, NoHalt, Risks
    <2>3. NoHalt.reduceOnly = FALSE
      BY DEF NoHalt
    <2> QED  BY <2>1, <2>2, <2>3 DEF LossInv, LoadedRisk, Stopped
  <1>3. CASE DieWhileSaving
    BY <1>3 DEF DieWhileSaving, Fault
  <1>4. CASE Tick \/ UNCHANGED haltVars
    BY <1>4, OtherStepKeepsLoss DEF Tick, haltVars
  <1> QED  BY <1>1, <1>2, <1>3, <1>4, OrderStepLoss, HaltStepLoss, RiskStepLoss DEF HaltNext

\* LossInv, for as long as there was no fault.
LossUnlessFault == faults \in Nat /\ (faults = 0 => LossInv)

LEMMA LossFromStart == HaltInit => LossUnlessFault
  <1> SUFFICES ASSUME HaltInit
               PROVE  LossUnlessFault
    OBVIOUS
  <1>1. day \in 0..MaxDay /\ tripped = NoDay
    BY ThresholdAssumption DEF HaltInit
  <1>2. tripped # day
    BY <1>1, AbsenceAssumption
  <1>3. risk \in Risks /\ risk.reduceOnly = FALSE
    BY DEF HaltInit, NoHalt, Risks
  <1>4. saved \notin States /\ writing = NoState /\ faults = 0
    BY AbsenceAssumption DEF HaltInit
  <1> QED  BY <1>1, <1>2, <1>3, <1>4 DEF LossInv, LossUnlessFault

LEMMA LossKept == LossUnlessFault /\ [HaltNext]_haltVars => LossUnlessFault'
  <1> SUFFICES ASSUME LossUnlessFault, [HaltNext]_haltVars
               PROVE  LossUnlessFault'
    OBVIOUS
  <1>1. faults \in Nat /\ faults' \in Nat /\ (faults' = 0 => faults = 0)
    BY StepCounts DEF LossUnlessFault, FaultCount
  <1>2. ASSUME faults' = 0
        PROVE  LossInv'
    BY <1>1, <1>2, LossInvStep DEF LossUnlessFault
  <1> QED  BY <1>1, <1>2 DEF LossUnlessFault

\* As long as each save reaches the state file, whole and before the next, the
\* daily loss limit holds to the end of its trading day over any number of
\* restarts (track_daily_pnl, _save_state, _load_state).
THEOREM DailyLossLasts == HaltSpec => []DailyLossHolds
  <1>1. LossUnlessFault => DailyLossHolds
    BY DEF LossUnlessFault, LossInv, DailyLossHolds, Stopped
  <1> QED  BY <1>1, LossFromStart, LossKept, PTL DEF HaltSpec

\* As long as each save reaches the state file, reduce-only mode ends only with its
\* trading day or when daily tracking is reset: a restart on the same day finds the
\* mode in the file (set_reduce_only_mode, _save_state, _load_state).
THEOREM ModeOutlivesRestart == HaltSpec => HaltsOutliveRestart
  <1> DEFINE Kept == faults' = 0 /\ risk.reduceOnly /\ ~risk'.reduceOnly =>
                        ResetDailyTracking \/ (saved \in States /\ saved.day # day)
  <1>1. LossUnlessFault /\ [HaltNext]_haltVars => [Kept]_haltVars
    <2> SUFFICES ASSUME LossUnlessFault, [HaltNext]_haltVars,
                        faults' = 0, risk.reduceOnly, ~risk'.reduceOnly
                 PROVE  ResetDailyTracking \/ (saved \in States /\ saved.day # day)
      OBVIOUS
    <2>1. LossInv
      BY StepCounts DEF LossUnlessFault, FaultCount
    <2>2. risk \in Risks /\ risk.reduceOnly = TRUE
      BY <2>1 DEF LossInv, Risks
    <2>3. ASSUME SetReduceOnlyMode PROVE FALSE
      BY <2>2, <2>3 DEF SetReduceOnlyMode, Risks
    <2>4. ASSUME UNCHANGED risk PROVE FALSE
      BY <2>4
    <2>5. ASSUME NEW g, NEW c, NEW works, NEW d, CheckDone(g, c, works, d) PROVE FALSE
      BY <2>3, <2>4, <2>5 DEF CheckDone
    <2>6. ~OrderStep
      <3>1. ASSUME NEW s, NEW d, NEW reducing, NEW stale,
                   BlockOnStaleMark(s, reducing, d) \/ BlockOnSlippage(s, reducing, stale, d)
            PROVE  FALSE
        BY <2>4, <3>1 DEF BlockOnStaleMark, BlockOnSlippage
      <3>2. ASSUME NEW t, NEW s, NEW d, NEW reducing, NEW stale, NEW works,
                   PassGuards(t, s, reducing, stale, works, d) \/ PreviewReturns(t, works, d)
            PROVE  FALSE
        BY <2>5, <3>2 DEF PassGuards, PreviewReturns
      <3>3. ASSUME NEW t, PreviewRefuses(t) \/ SubmitOrder(t) PROVE FALSE
        BY <2>4, <3>3 DEF PreviewRefuses, SubmitOrder, Leave
      <3> QED  BY <3>1, <3>2, <3>3 DEF OrderStep
    <2>7. ~HaltStep
      <3>1. ASSUME NEW d, NEW h, NEW works,
                   WsReconnected(d) \/ FinishHalt(h, d) \/ BrokerRead(works, d)
            PROVE  FALSE
        BY <2>4, <3>1 DEF WsReconnected, FinishHalt, BrokerRead
      <3>2. ASSUME NEW d, NEW h, WsStale(d) \/ VolatilityBreaker \/ StartHalt(h) PROVE FALSE
        BY <2>3, <3>2 DEF WsStale, VolatilityBreaker, StartHalt
      <3> QED  BY <3>1, <3>2 DEF HaltStep
    <2>8. ASSUME RiskStep PROVE ResetDailyTracking
      <3>1. ASSUME NEW e, TrackDailyPnl(e) \/ SweepSetsBaseline(e) PROVE FALSE
        BY <2>2, <3>1 DEF TrackDailyPnl, SweepSetsBaseline, Risks
      <3>2. ~SweepWrites
        BY <2>4 DEF SweepWrites
      <3> QED  BY <2>8, <3>1, <3>2 DEF RiskStep
    <2>9. ~(Tick \/ NextDay \/ UNCHANGED haltVars)
      BY <2>4 DEF Tick, NextDay, haltVars
    <2>10. ASSUME Restart PROVE saved \in States /\ saved.day # day
      <3>1. risk' = LoadedRisk(saved)
        BY <2>10 DEF Restart, StartFrom
      <3> QED  BY <2>1, <2>2, <3>1 DEF LossInv, LoadedRisk
    <2>11. ~DieWhileSaving
      BY StepCounts DEF LossUnlessFault, DieWhileSaving, Fault
    <2> QED  BY <2>6, <2>7, <2>8, <2>9, <2>10, <2>11 DEF HaltNext
  <1> QED  BY <1>1, LossFromStart, LossKept, PTL DEF HaltSpec, HaltsOutliveRestart

-----------------------------------------------------------------------------
(* Halts that come while an order waits for its preview, whatever goes     *)
(* wrong with the state file.                                              *)

\* The loss limit is never tripped without reduce-only mode.
Follows(r) == r \in Risks /\ (r.triggered = TRUE => r.reduceOnly = TRUE)

TripInv ==
    /\ Follows(risk)
    /\ saved \in States => Follows(saved.risk)
    /\ writing \in States => Follows(writing.risk)
    /\ day \in 0..MaxDay
    /\ order \in [Tasks -> Orders]

\* What a save leaves in the file.
LEMMA SaveFollows ==
    ASSUME TripInv, NEW r, Follows(r), SaveState(r)
    PROVE  saved' \in States => Follows(saved'.risk)
  BY DEF TripInv, SaveState, StateToSave

LEMMA SetModeFollows ==
    ASSUME TripInv, SetReduceOnlyMode
    PROVE  Follows(risk') /\ (saved' \in States => Follows(saved'.risk))
  <1>1. Follows(risk')
    BY DEF TripInv, Follows, SetReduceOnlyMode, Risks
  <1> QED  BY <1>1, SaveFollows DEF SetReduceOnlyMode

\* The steps that at most turn reduce-only mode on.
LEMMA ModeStepFollows ==
    ASSUME TripInv, SetReduceOnlyMode \/ UNCHANGED <<risk, saved>>,
           UNCHANGED <<writing, day>>, order' \in [Tasks -> Orders]
    PROVE  TripInv'
  <1>1. Follows(risk') /\ (saved' \in States => Follows(saved'.risk))
    BY SetModeFollows DEF TripInv
  <1> QED  BY <1>1 DEF TripInv, Follows

\* What an order is handed over with, in the guard stack or after its preview.
LEMMA GoSendMarks ==
    ASSUME TripInv, NEW t \in Tasks, NEW reducing \in BOOLEAN, GoSend(t, reducing),
           Follows(risk')
    PROVE  /\ order' \in [Tasks -> Orders]
           /\ \A u \in Tasks : u # t => order'[u] = order[u]
           /\ risk'.triggered = TRUE => order'[t].flag = TRUE
           /\ reducing => order'[t].flag = TRUE
  <1> DEFINE f == FinalReduceOnlyFlag(reducing, risk'.reduceOnly)
             o == [pc |-> "send", reducing |-> reducing, flag |-> f]
  <1>1. risk'.reduceOnly \in BOOLEAN
    BY DEF Follows, Risks
  <1>2. f \in BOOLEAN /\ (reducing => f = TRUE) /\ (risk'.reduceOnly = TRUE => f = TRUE)
    BY <1>1 DEF FinalReduceOnlyFlag
  <1>3. order' = [order EXCEPT ![t] = o]
    BY DEF GoSend
  <1> HIDE DEF f
  <1>4. f \in BOOLEAN
    BY <1>2
  <1>5. o \in Orders /\ o.flag = f
    BY <1>4 DEF Orders
  <1> HIDE DEF o
  <1> QED  BY <1>2, <1>3, <1>5 DEF TripInv, Follows

\* An order that goes on to its preview, or leaves.
LEMMA OrderWaits ==
    ASSUME TripInv, NEW t \in Tasks, NEW o \in Orders, o.pc # "send",
           order' = [order EXCEPT ![t] = o]
    PROVE  /\ order' \in [Tasks -> Orders]
           /\ \A u \in Tasks : order'[u].pc = "send" => order'[u] = order[u]
  BY DEF TripInv

\* No order is handed over by this step under a tripped limit, unless marked.
Marked == \A t \in Tasks :
              order[t].pc # "send" /\ order'[t].pc = "send" /\ risk.triggered => order'[t].flag

\* A step that leaves the orders alone.
LEMMA OrdersAlone ==
    ASSUME TripInv, order' = order, SetReduceOnlyMode \/ UNCHANGED <<risk, saved>>,
           UNCHANGED <<writing, day>>
    PROVE  TripInv' /\ Marked
  BY ModeStepFollows DEF TripInv, Marked

LEMMA CheckFollows ==
    ASSUME TripInv, NEW g, NEW c, NEW works, NEW d, CheckDone(g, c, works, d)
    PROVE  /\ SetReduceOnlyMode \/ UNCHANGED <<risk, saved>>
           /\ Follows(risk')
           /\ risk.triggered = TRUE => risk'.triggered = TRUE
  <1>1. SetReduceOnlyMode \/ UNCHANGED <<risk, saved>>
    BY DEF CheckDone
  <1>2. Follows(risk')
    BY <1>1, SetModeFollows DEF TripInv
  <1>3. risk.triggered = TRUE => risk'.triggered = TRUE
    BY <1>1 DEF SetReduceOnlyMode, TripInv, Follows, Risks
  <1> QED  BY <1>1, <1>2, <1>3

LEMMA OrderStepMarks ==
    ASSUME TripInv, OrderStep
    PROVE  TripInv' /\ Marked
  <1>0. risk \in Risks
    BY DEF TripInv, Follows
  <1>1. ASSUME NEW s, NEW d, NEW reducing, NEW stale,
               BlockOnStaleMark(s, reducing, d) \/ BlockOnSlippage(s, reducing, stale, d)
        PROVE  TripInv' /\ Marked
    BY <1>1, OrdersAlone DEF BlockOnStaleMark, BlockOnSlippage
  <1>2. ASSUME NEW t \in Tasks, NEW s, NEW d, NEW reducing \in BOOLEAN, NEW stale, NEW works,
               PassGuards(t, s, reducing, stale, works, d)
        PROVE  TripInv' /\ Marked
    <2>1. PICK g : CheckDone(g, "slippage_guard", works, d)
      BY <1>2 DEF PassGuards
    <2>2. /\ SetReduceOnlyMode \/ UNCHANGED <<risk, saved>>
          /\ Follows(risk') /\ UNCHANGED <<writing, day>>
      BY <1>2, <2>1, CheckFollows DEF PassGuards
    <2>3. risk.triggered = TRUE => reducing
      BY <1>2 DEF PassGuards, Admitted, BlockedByMode
    <2>4. CASE GoSend(t, reducing)
      <3>1. /\ order' \in [Tasks -> Orders]
            /\ \A u \in Tasks : u # t => order'[u] = order[u]
            /\ reducing => order'[t].flag = TRUE
        BY <2>2, <2>4, GoSendMarks
      <3>2. TripInv'
        BY <2>2, <3>1, ModeStepFollows
      <3> QED  BY <1>0, <2>3, <3>1, <3>2 DEF Marked, Risks
    <2>5. CASE order' = [order EXCEPT ![t] = [pc |-> "preview", reducing |-> reducing,
                                              flag |-> reducing]]
      <3>1. [pc |-> "preview", reducing |-> reducing, flag |-> reducing] \in Orders
        BY DEF Orders
      <3>2. /\ order' \in [Tasks -> Orders]
            /\ \A u \in Tasks : order'[u].pc = "send" => order'[u] = order[u]
        BY <2>5, <3>1, OrderWaits
      <3> QED  BY <2>2, <3>2, ModeStepFollows DEF Marked
    <2> QED  BY <1>2, <2>4, <2>5 DEF PassGuards
  <1>3. ASSUME NEW t \in Tasks, NEW works, NEW d, PreviewReturns(t, works, d)
        PROVE  TripInv' /\ Marked
    <2>1. CheckDone(deg, "order_preview", works, d) /\ GoSend(t, order[t].reducing)
          /\ UNCHANGED <<writing, day>> /\ order[t].reducing \in BOOLEAN
      BY <1>3 DEF PreviewReturns, TripInv, Orders
    <2>2. /\ SetReduceOnlyMode \/ UNCHANGED <<risk, saved>>
          /\ Follows(risk') /\ (risk.triggered = TRUE => risk'.triggered = TRUE)
      BY <2>1, CheckFollows
    <2>3. /\ order' \in [Tasks -> Orders]
          /\ \A u \in Tasks : u # t => order'[u] = order[u]
          /\ risk'.triggered = TRUE => order'[t].flag = TRUE
      BY <2>1, <2>2, GoSendMarks
    <2>4. TripInv'
      BY <2>1, <2>2, <2>3, ModeStepFollows
    <2> QED  BY <1>0, <2>2, <2>3, <2>4 DEF Marked, Risks
  <1>4. ASSUME NEW t \in Tasks, PreviewRefuses(t) \/ SubmitOrder(t)
        PROVE  TripInv' /\ Marked
    <2>1. /\ order' = [order EXCEPT ![t] = [pc |-> "idle", reducing |-> FALSE, flag |-> FALSE]]
          /\ UNCHANGED <<risk, saved, writing, day>>
      BY <1>4 DEF PreviewRefuses, SubmitOrder, Leave
    <2>2. [pc |-> "idle", reducing |-> FALSE, flag |-> FALSE] \in Orders
      BY DEF Orders
    <2>3. /\ order' \in [Tasks -> Orders]
          /\ \A u \in Tasks : order'[u].pc = "send" => order'[u] = order[u]
      BY <2>1, <2>2, OrderWaits
    <2> QED  BY <2>1, <2>3, ModeStepFollows DEF Marked
  <1> QED  BY <1>1, <1>2, <1>3, <1>4 DEF OrderStep

LEMMA RiskStepMarks ==
    ASSUME TripInv, RiskStep
    PROVE  TripInv' /\ Marked
  <1>1. order' = order /\ day' = day
    BY DEF RiskStep, TrackDailyPnl, SweepSetsBaseline, SweepWrites, ResetDailyTracking
  <1>2. Marked
    BY <1>1 DEF Marked
  <1>3. ASSUME NEW e \in Equities, TrackDailyPnl(e)
        PROVE  TripInv'
    <2>1. [equity |-> e, day |-> day] \in Baselines
      BY DEF TripInv, Baselines
    <2>2. Follows(risk')
      BY <1>3, <2>1 DEF TrackDailyPnl, TripInv, Follows, Risks
    <2>3. saved' \in States => Follows(saved'.risk)
      BY <1>3, <2>2, SaveFollows DEF TrackDailyPnl
    <2> QED  BY <1>1, <1>3, <2>2, <2>3 DEF TrackDailyPnl, TripInv, Follows
  <1>4. ASSUME NEW e \in Equities, SweepSetsBaseline(e)
        PROVE  TripInv'
    <2>1. [equity |-> e, day |-> day] \in Baselines
      BY DEF TripInv, Baselines
    <2>2. Follows(risk')
      BY <1>4, <2>1 DEF SweepSetsBaseline, TripInv, Follows, Risks
    <2>3. writing'.risk = risk' /\ saved' = saved
      BY <1>4 DEF SweepSetsBaseline, StateToSave
    <2> QED  BY <1>1, <2>2, <2>3 DEF TripInv, Follows
  <1>5. ASSUME SweepWrites
        PROVE  TripInv'
    <2>1. saved' = writing /\ writing' = NoState /\ risk' = risk
      BY <1>5 DEF SweepWrites
    <2>2. NoState \notin States
      BY AbsenceAssumption
    <2> QED  BY <1>1, <2>1, <2>2 DEF TripInv, Follows
  <1>6. ASSUME ResetDailyTracking
        PROVE  TripInv'
    <2>1. risk' = NoHalt /\ Follows(NoHalt) /\ SaveState(risk') /\ writing' = writing
      BY <1>6 DEF ResetDailyTracking, NoHalt, Follows, Risks
    <2>2. saved' \in States => Follows(saved'.risk)
      BY <2>1, SaveFollows
    <2> QED  BY <1>1, <2>1, <2>2 DEF TripInv, Follows
  <1> QED  BY <1>2, <1>3, <1>4, <1>5, <1>6 DEF RiskStep

LEMMA HaltStepMarks ==
    ASSUME TripInv, HaltStep
    PROVE  TripInv' /\ Marked
  <1>1. ASSUME NEW d, NEW h, NEW works,
               \/ WsReconnected(d) \/ WsStale(d) \/ VolatilityBreaker
               \/ StartHalt(h) \/ FinishHalt(h, d) \/ BrokerRead(works, d)
        PROVE  TripInv' /\ Marked
    <2>1. /\ SetReduceOnlyMode \/ UNCHANGED <<risk, saved>>
          /\ UNCHANGED <<order, writing, day>>
      BY <1>1 DEF WsReconnected, WsStale, VolatilityBreaker, StartHalt, FinishHalt, BrokerRead
    <2> QED  BY <2>1, OrdersAlone
  <1> QED  BY <1>1 DEF HaltStep

LEMMA RestartMarks ==
    ASSUME TripInv, NEW f, StartFrom(f), f = saved \/ f = TornState
    PROVE  TripInv' /\ Marked
  <1>1. /\ saved' = f /\ risk' = LoadedRisk(f) /\ writing' = NoState /\ order' = NoOrders
        /\ day' = day
    BY DEF StartFrom
  <1>2. NoState \notin States /\ TornState \notin States
    BY AbsenceAssumption
  <1>3. NoOrders \in [Tasks -> Orders] /\ \A t \in Tasks : NoOrders[t].pc = "idle"
    BY DEF NoOrders, Orders
  <1>4. Follows(NoHalt)
    BY DEF Follows, NoHalt, Risks
  <1>5. f \in States => Follows(f.risk)
    BY <1>2 DEF TripInv
  <1>6. Follows(risk')
    BY <1>1, <1>4, <1>5 DEF LoadedRisk
  <1> QED  BY <1>1, <1>2, <1>3, <1>5, <1>6 DEF TripInv, Follows, Marked

LEMMA TripFromStart == HaltInit => TripInv
  <1> SUFFICES ASSUME HaltInit PROVE TripInv
    OBVIOUS
  <1>1. NoState \notin States /\ saved = NoState /\ writing = NoState /\ risk = NoHalt
    BY AbsenceAssumption DEF HaltInit
  <1>2. Follows(NoHalt) /\ NoOrders \in [Tasks -> Orders] /\ order = NoOrders
    BY DEF HaltInit, Follows, NoHalt, Risks, NoOrders, Orders
  <1>3. day \in 0..MaxDay
    BY ThresholdAssumption DEF HaltInit
  <1> QED  BY <1>1, <1>2, <1>3 DEF TripInv

LEMMA TripKept == TripInv /\ [HaltNext]_haltVars => TripInv' /\ Marked
  <1> SUFFICES ASSUME TripInv, [HaltNext]_haltVars
               PROVE  TripInv' /\ Marked
    OBVIOUS
  <1>1. CASE Tick \/ UNCHANGED haltVars
    BY <1>1, OrdersAlone DEF Tick, haltVars
  <1>2. CASE NextDay
    <2>1. day' \in 0..MaxDay /\ UNCHANGED <<risk, saved, writing, order>>
      BY <1>2, ThresholdAssumption DEF NextDay, TripInv
    <2> QED  BY <2>1 DEF TripInv, Follows, Marked
  <1>3. CASE Restart \/ DieWhileSaving
    BY <1>3, RestartMarks DEF Restart, DieWhileSaving
  <1> QED  BY <1>1, <1>2, <1>3, OrderStepMarks, RiskStepMarks, HaltStepMarks DEF HaltNext

\* However the loss limit is tripped while an order waits for its preview, and
\* whatever becomes of the state file, the order is handed over as reduce-only.
THEOREM LateHaltsReachOrders == HaltSpec => LateHaltsMarkOrders
  BY TripFromStart, TripKept, PTL DEF HaltSpec, LateHaltsMarkOrders, Marked

-----------------------------------------------------------------------------
(* Types.  What risk and the orders are is in TripInv; here is the rest.    *)

\* pause_all and pause_symbol, whatever they let on.
LEMMA PauseTyped ==
    ASSUME NEW g \in Degradations, now \in Nat, NEW scope \in Scopes,
           NEW seconds \in Durations, NEW allow \in BOOLEAN
    PROVE  PauseScope(g, scope, seconds, allow) \in Degradations
  <1> DEFINE end == now + seconds
             p == IF g.pause[scope].until > end THEN g.pause[scope]
                  ELSE [until |-> end, allow |-> allow]
             h == PauseScope(g, scope, seconds, allow)
  <1>1. end \in Nat
    BY ThresholdAssumption
  <1>2. /\ g.pause \in [Scopes -> Pauses] /\ g.opens \in [Symbols -> Nat]
        /\ g.reduces \in [Symbols -> Nat]
    BY DEF Degradations
  <1>3. p \in Pauses
    BY <1>1, <1>2 DEF Pauses
  <1>4. /\ h.pause = [g.pause EXCEPT ![scope] = p]
        /\ h.opens = Latest(g.opens, scope, end)
        /\ h.reduces = g.reduces \/ h.reduces = Latest(g.reduces, scope, end)
        /\ h.slippage = g.slippage /\ h.outage = g.outage
        /\ h = [pause |-> h.pause, slippage |-> h.slippage, outage |-> h.outage,
                opens |-> h.opens, reduces |-> h.reduces]
    BY DEF PauseScope, Paused
  <1> HIDE DEF h, p, end
  <1>5. h.opens \in [Symbols -> Nat] /\ h.reduces \in [Symbols -> Nat]
    BY <1>1, <1>2, <1>4, LatestEnds
  <1> QED  BY <1>2, <1>3, <1>4, <1>5 DEF Degradations, h

\* A pause that lets reducing orders on.
LEMMA OpenPauseTyped ==
    ASSUME NEW g \in Degradations, now \in Nat, NEW scope \in Scopes, NEW seconds \in Durations
    PROVE  PauseScope(g, scope, seconds, TRUE) \in Degradations
  <1>1. PICK allow \in BOOLEAN : allow = TRUE
    OBVIOUS
  <1> QED  BY <1>1, PauseTyped

\* The counters of failed slippage checks and broker reads.
LEMMA CountersTyped ==
    ASSUME NEW g \in Degradations
    PROVE  /\ \A s \in Symbols : \A n \in 0..(SlippageAfter - 1) :
                 [g EXCEPT !.slippage[s] = n] \in Degradations
           /\ \A n \in 0..(OutageAfter - 1) : [g EXCEPT !.outage = n] \in Degradations
  BY DEF Degradations

LEMMA SlippageFailureTyped ==
    ASSUME NEW g \in Degradations, now \in Nat, NEW s \in Symbols, NEW seconds \in Durations
    PROVE  RecordSlippageFailure(g, s, seconds) \in Degradations
  <1> DEFINE h == PauseScope(g, s, seconds, TRUE)
  <1>1. h \in Degradations
    BY OpenPauseTyped DEF Scopes
  <1> HIDE DEF h
  <1>2. 0 \in 0..(SlippageAfter - 1) /\ g.slippage[s] \in 0..(SlippageAfter - 1)
    BY ThresholdAssumption DEF Degradations
  <1>3. [h EXCEPT !.slippage[s] = 0] \in Degradations
    BY <1>1, <1>2, CountersTyped
  <1>4. ASSUME ~(g.slippage[s] + 1 >= SlippageAfter)
        PROVE  [g EXCEPT !.slippage[s] = g.slippage[s] + 1] \in Degradations
    <2>1. g.slippage[s] + 1 \in 0..(SlippageAfter - 1)
      BY <1>2, <1>4, ThresholdAssumption
    <2> QED  BY <2>1, CountersTyped
  <1> QED  BY <1>3, <1>4 DEF RecordSlippageFailure, h

LEMMA BrokerFailureTyped ==
    ASSUME NEW g \in Degradations, now \in Nat, NEW seconds \in Durations
    PROVE  RecordBrokerFailure(g, seconds) \in Degradations
  <1> DEFINE h == PauseScope(g, All, seconds, TRUE)
  <1>1. h \in Degradations
    BY OpenPauseTyped DEF Scopes
  <1> HIDE DEF h
  <1>2. 0 \in 0..(OutageAfter - 1) /\ g.outage \in 0..(OutageAfter - 1)
    BY ThresholdAssumption DEF Degradations
  <1>3. [h EXCEPT !.outage = 0] \in Degradations
    BY <1>1, <1>2, CountersTyped
  <1>4. ASSUME ~(g.outage + 1 >= OutageAfter)
        PROVE  [g EXCEPT !.outage = g.outage + 1] \in Degradations
    <2>1. g.outage + 1 \in 0..(OutageAfter - 1)
      BY <1>2, <1>4, ThresholdAssumption
    <2> QED  BY <2>1, CountersTyped
  <1> QED  BY <1>3, <1>4 DEF RecordBrokerFailure, h

LEMMA MarkTyped ==
    ASSUME NEW g \in Degradations, now \in Nat, NEW s \in Symbols,
           NEW stale \in BOOLEAN, NEW seconds \in Durations
    PROVE  MarkChecked(g, s, stale, seconds) \in Degradations
  <1>1. PICK allow \in BOOLEAN : allow = MarkAllowsReduce
    BY OptionAssumption
  <1>2. PauseScope(g, s, seconds, allow) \in Degradations
    BY PauseTyped DEF Scopes
  <1> QED  BY <1>1, <1>2 DEF MarkChecked

\* The variables besides the orders, the clock of days and the risk manager's state.
RestTypeOK ==
    /\ now \in 0..MaxTime /\ deg \in Degradations
    /\ checks \in [Checks -> 0..CheckCap] /\ previewOn \in BOOLEAN
    /\ saved \in States \cup {NoState, TornState} /\ writing \in States \cup {NoState}
    /\ halting \subseteq HaltSources
    /\ tripped \in 0..MaxDay \cup {NoDay} /\ faults \in 0..MaxFaults

LEMMA TypeParts == HaltTypeOK <=> /\ RestTypeOK /\ day \in 0..MaxDay
                                  /\ risk \in Risks /\ order \in [Tasks -> Orders]
  BY DEF HaltTypeOK, RestTypeOK

\* _save_state
LEMMA SaveTyped ==
    ASSUME RestTypeOK, TripInv, NEW r \in Risks, SaveState(r)
    PROVE  saved' \in States \cup {NoState, TornState} /\ faults' \in 0..MaxFaults
  <1>1. StateToSave(r) \in States
    BY DEF StateToSave, States, TripInv
  <1>2. faults' = faults \/ (faults < MaxFaults /\ faults' = faults + 1)
    BY DEF SaveState, Fault
  <1>3. faults' \in 0..MaxFaults
    BY <1>2, OptionAssumption DEF RestTypeOK
  <1> QED  BY <1>1, <1>3 DEF SaveState, RestTypeOK

\* A step that at most turns reduce-only mode on, saves included.
LEMMA ModeTyped ==
    ASSUME RestTypeOK, TripInv, SetReduceOnlyMode \/ UNCHANGED <<saved, faults>>
    PROVE  saved' \in States \cup {NoState, TornState} /\ faults' \in 0..MaxFaults
  <1>1. CASE SetReduceOnlyMode
    <2>1. risk' \in Risks /\ SaveState(risk')
      BY <1>1 DEF SetReduceOnlyMode, TripInv, Follows, Risks
    <2> QED  BY <2>1, SaveTyped
  <1>2. CASE UNCHANGED <<saved, faults>>
    BY <1>2 DEF RestTypeOK
  <1> QED  BY <1>1, <1>2

\* The counters of a check that worked, or did not.
LEMMA CheckTyped ==
    ASSUME RestTypeOK, TripInv, NEW g \in Degradations, NEW c \in Checks,
           NEW works \in BOOLEAN, NEW seconds \in Durations,
           CheckDone(g, c, works, seconds)
    PROVE  /\ checks' \in [Checks -> 0..CheckCap] /\ deg' \in Degradations
           /\ saved' \in States \cup {NoState, TornState} /\ faults' \in 0..MaxFaults
  <1>0. now \in Nat
    BY ThresholdAssumption DEF RestTypeOK
  <1>1. CheckCap \in Nat
    BY ThresholdAssumption DEF CheckCap
  <1>2. checks' \in [Checks -> 0..CheckCap]
    <2> DEFINE v == IF works THEN 0 ELSE IF checks[c] < CheckCap THEN checks[c] + 1 ELSE checks[c]
    <2>1. checks[c] \in 0..CheckCap /\ checks \in [Checks -> 0..CheckCap]
      BY DEF RestTypeOK
    <2>2. v \in 0..CheckCap
      BY <1>1, <2>1
    <2>3. checks' = [checks EXCEPT ![c] = v]
      BY DEF CheckDone, CountCheck
    <2> HIDE DEF v
    <2> QED  BY <2>1, <2>2, <2>3
  <1>3. PauseScope(g, All, seconds, TRUE) \in Degradations
    BY <1>0, OpenPauseTyped DEF Scopes
  <1>4. /\ SetReduceOnlyMode \/ UNCHANGED <<saved, faults>>
        /\ deg' = g \/ deg' = PauseScope(g, All, seconds, TRUE)
    BY DEF CheckDone
  <1> QED  BY <1>2, <1>3, <1>4, ModeTyped

\* A step of the guard stack.
LEMMA OrderStepTyped ==
    ASSUME RestTypeOK, TripInv, OrderStep
    PROVE  RestTypeOK'
  <1>1. now \in Nat /\ deg \in Degradations
    BY ThresholdAssumption DEF RestTypeOK
  <1>2. ASSUME NEW s \in Symbols, NEW d \in Durations, NEW reducing \in BOOLEAN,
               BlockOnStaleMark(s, reducing, d)
        PROVE  RestTypeOK'
    <2>1. MarkChecked(deg, s, TRUE, d) \in Degradations
      <3>1. PICK stale \in BOOLEAN : stale = TRUE
        OBVIOUS
      <3> QED  BY <1>1, <3>1, MarkTyped
    <2> QED  BY <1>2, <2>1 DEF BlockOnStaleMark, RestTypeOK
  <1>3. ASSUME NEW s \in Symbols, NEW d \in Durations, NEW reducing \in BOOLEAN,
               NEW stale \in BOOLEAN, BlockOnSlippage(s, reducing, stale, d)
        PROVE  RestTypeOK'
    <2>1. MarkChecked(deg, s, stale, d) \in Degradations
      BY <1>1, MarkTyped
    <2>2. deg' \in Degradations
      BY <1>1, <1>3, <2>1, SlippageFailureTyped DEF BlockOnSlippage
    <2> QED  BY <1>3, <2>2 DEF BlockOnSlippage, RestTypeOK
  <1>4. ASSUME NEW t \in Tasks, NEW s \in Symbols, NEW d \in Durations,
               NEW reducing \in BOOLEAN, NEW stale \in BOOLEAN, NEW works \in BOOLEAN,
               PassGuards(t, s, reducing, stale, works, d)
        PROVE  RestTypeOK'
    <2> DEFINE g == [MarkChecked(deg, s, stale, d) EXCEPT !.slippage[s] = 0]
    <2>1. MarkChecked(deg, s, stale, d) \in Degradations /\ 0 \in 0..(SlippageAfter - 1)
      BY <1>1, MarkTyped, ThresholdAssumption
    <2>2. g \in Degradations
      BY <2>1, CountersTyped
    <2>3. /\ CheckDone(g, "slippage_guard", works, d)
          /\ UNCHANGED <<now, writing, halting, tripped>>
      BY <1>4 DEF PassGuards
    <2>4. previewOn' \in BOOLEAN
      BY <1>4 DEF PassGuards
    <2> HIDE DEF g
    <2>5. /\ checks' \in [Checks -> 0..CheckCap] /\ deg' \in Degradations
          /\ saved' \in States \cup {NoState, TornState} /\ faults' \in 0..MaxFaults
      BY <2>2, <2>3, CheckTyped DEF Checks
    <2> QED  BY <2>3, <2>4, <2>5 DEF RestTypeOK
  <1>5. ASSUME NEW t \in Tasks, NEW works \in BOOLEAN, NEW d \in Durations,
               PreviewReturns(t, works, d)
        PROVE  RestTypeOK'
    <2>1. /\ CheckDone(deg, "order_preview", works, d)
          /\ UNCHANGED <<now, previewOn, writing, halting, tripped>>
      BY <1>5 DEF PreviewReturns
    <2>2. /\ checks' \in [Checks -> 0..CheckCap] /\ deg' \in Degradations
          /\ saved' \in States \cup {NoState, TornState} /\ faults' \in 0..MaxFaults
      BY <1>1, <2>1, CheckTyped DEF Checks
    <2> QED  BY <2>1, <2>2 DEF RestTypeOK
  <1>6. ASSUME NEW t \in Tasks, PreviewRefuses(t) \/ SubmitOrder(t)
        PROVE  RestTypeOK'
    BY <1>6 DEF PreviewRefuses, SubmitOrder, Leave, RestTypeOK
  <1> QED  BY <1>2, <1>3, <1>4, <1>5, <1>6 DEF OrderStep

\* A step of the risk manager, or of the guard sweep that keeps its state.
LEMMA RiskStepTyped ==
    ASSUME RestTypeOK, TripInv, TripInv', RiskStep
    PROVE  RestTypeOK'
  <1>1. /\ UNCHANGED <<now, day, deg, checks, previewOn, halting>>
    BY DEF RiskStep, TrackDailyPnl, SweepSetsBaseline, SweepWrites, ResetDailyTracking
  <1>2. risk' \in Risks /\ day \in 0..MaxDay
    BY DEF TripInv, Follows
  <1>3. ASSUME NEW e \in Equities, TrackDailyPnl(e)
        PROVE  RestTypeOK'
    <2>1. SaveState(risk') /\ writing' = writing /\ tripped' \in {tripped, day}
      BY <1>3 DEF TrackDailyPnl
    <2> QED  BY <1>1, <1>2, <2>1, SaveTyped DEF RestTypeOK
  <1>4. ASSUME NEW e \in Equities, SweepSetsBaseline(e)
        PROVE  RestTypeOK'
    <2>1. /\ writing' = [day |-> day, risk |-> risk'] /\ UNCHANGED <<saved, tripped>>
          /\ faults < MaxFaults /\ faults' = faults + 1
      BY <1>4 DEF SweepSetsBaseline, StateToSave, Fault
    <2>2. writing' \in States
      BY <1>2, <2>1 DEF States
    <2>3. faults' \in 0..MaxFaults
      BY <2>1, OptionAssumption DEF RestTypeOK
    <2> QED  BY <1>1, <2>1, <2>2, <2>3 DEF RestTypeOK
  <1>5. ASSUME SweepWrites
        PROVE  RestTypeOK'
    BY <1>1, <1>5 DEF SweepWrites, RestTypeOK
  <1>6. ASSUME ResetDailyTracking
        PROVE  RestTypeOK'
    <2>1. SaveState(risk') /\ writing' = writing /\ tripped' = NoDay
      BY <1>6 DEF ResetDailyTracking
    <2> QED  BY <1>1, <1>2, <2>1, SaveTyped DEF RestTypeOK
  <1> QED  BY <1>3, <1>4, <1>5, <1>6 DEF RiskStep

\* Whatever else halts trading.
LEMMA HaltStepTyped ==
    ASSUME RestTypeOK, TripInv, HaltStep
    PROVE  RestTypeOK'
  <1>1. now \in Nat /\ deg \in Degradations
    BY ThresholdAssumption DEF RestTypeOK
  <1>2. ASSUME SetReduceOnlyMode \/ UNCHANGED <<saved, faults>>, deg' \in Degradations,
               UNCHANGED <<now, checks, previewOn, writing, tripped>>,
               halting' \subseteq HaltSources
        PROVE  RestTypeOK'
    BY <1>2, ModeTyped DEF RestTypeOK
  <1>3. halting \subseteq HaltSources
    BY DEF RestTypeOK
  <1>4. ASSUME NEW d \in Durations
        PROVE  PauseScope(deg, All, d, TRUE) \in Degradations
    BY <1>1, OpenPauseTyped DEF Scopes
  <1>5. ASSUME NEW d \in Durations, WsReconnected(d) \/ WsStale(d)
        PROVE  RestTypeOK'
    BY <1>2, <1>3, <1>4, <1>5 DEF WsReconnected, WsStale
  <1>6. ASSUME VolatilityBreaker
        PROVE  RestTypeOK'
    BY <1>1, <1>2, <1>3, <1>6 DEF VolatilityBreaker
  <1>7. ASSUME NEW h \in HaltSources, StartHalt(h)
        PROVE  RestTypeOK'
    BY <1>1, <1>2, <1>3, <1>7 DEF StartHalt
  <1>8. ASSUME NEW h \in HaltSources, NEW d \in Durations, FinishHalt(h, d)
        PROVE  RestTypeOK'
    BY <1>2, <1>3, <1>4, <1>8 DEF FinishHalt
  <1>9. ASSUME NEW works \in BOOLEAN, NEW d \in Durations, BrokerRead(works, d)
        PROVE  RestTypeOK'
    <2>1. [deg EXCEPT !.outage = 0] \in Degradations
      BY <1>1, CountersTyped, ThresholdAssumption
    <2>2. RecordBrokerFailure(deg, d) \in Degradations
      BY <1>1, BrokerFailureTyped
    <2> QED  BY <1>2, <1>3, <1>9, <2>1, <2>2 DEF BrokerRead
  <1> QED  BY <1>5, <1>6, <1>7, <1>8, <1>9 DEF HaltStep

LEMMA RestartTyped ==
    ASSUME RestTypeOK, NEW f \in {saved, TornState}, StartFrom(f), faults' \in 0..MaxFaults
    PROVE  RestTypeOK'
  <1>1. NoDegradation \in Degradations
    BY ThresholdAssumption DEF Degradations, NoDegradation, Pauses, Scopes
  <1>2. [c \in Checks |-> 0] \in [Checks -> 0..CheckCap]
    BY ThresholdAssumption DEF CheckCap
  <1> QED  BY <1>1, <1>2 DEF StartFrom, RestTypeOK

\* Type correctness of trading halts: above all, no counter passes its threshold
\* (record_slippage_failure and record_broker_failure start over) and what is read
\* back from the state file is a state that was written.
THEOREM HaltTypes == HaltSpec => []HaltTypeOK
  <1>1. HaltInit => RestTypeOK
    <2> SUFFICES ASSUME HaltInit PROVE RestTypeOK
      OBVIOUS
    <2>1. NoDegradation \in Degradations
      BY ThresholdAssumption DEF Degradations, NoDegradation, Pauses, Scopes
    <2>2. [c \in Checks |-> 0] \in [Checks -> 0..CheckCap]
      BY ThresholdAssumption DEF CheckCap
    <2> QED  BY <2>1, <2>2, ThresholdAssumption, OptionAssumption DEF HaltInit, RestTypeOK
  <1>2. RestTypeOK /\ TripInv /\ TripInv' /\ [HaltNext]_haltVars => RestTypeOK'
    <2> SUFFICES ASSUME RestTypeOK, TripInv, TripInv', [HaltNext]_haltVars
                 PROVE  RestTypeOK'
      OBVIOUS
    <2>1. CASE Tick \/ NextDay \/ UNCHANGED haltVars
      <3>1. /\ UNCHANGED <<deg, checks, previewOn, saved, writing, halting, tripped, faults>>
            /\ now' = now \/ (now < MaxTime /\ now' = now + 1)
        BY <2>1 DEF Tick, NextDay, haltVars
      <3>2. now' \in 0..MaxTime
        BY <3>1, ThresholdAssumption DEF RestTypeOK
      <3> QED  BY <3>1, <3>2 DEF RestTypeOK
    <2>2. CASE Restart
      <3>1. StartFrom(saved) /\ faults' \in 0..MaxFaults
        BY <2>2 DEF Restart, RestTypeOK
      <3> QED  BY <3>1, RestartTyped
    <2>3. CASE DieWhileSaving
      <3>1. StartFrom(TornState) /\ faults < MaxFaults /\ faults' = faults + 1
        BY <2>3 DEF DieWhileSaving, Fault
      <3>2. faults' \in 0..MaxFaults
        BY <3>1, OptionAssumption DEF RestTypeOK
      <3> QED  BY <3>1, <3>2, RestartTyped
    <2> QED  BY <2>1, <2>2, <2>3, OrderStepTyped, RiskStepTyped, HaltStepTyped DEF HaltNext
  <1>3. RestTypeOK /\ TripInv => HaltTypeOK
    BY TypeParts DEF TripInv, Follows
  <1> QED  BY <1>1, <1>2, <1>3, TripFromStart, TripKept, PTL DEF HaltSpec
=============================================================================
