---------------------------- MODULE TradingHalts ----------------------------
(***************************************************************************)
(* What stops the engine from opening positions, and how long that lasts:  *)
(* the pauses of DegradationState (live_trade/degradation.py), reduce-only *)
(* mode and the daily loss limit of LiveRiskManager with its state file    *)
(* (risk/manager/__init__.py), the counters that trip them, and the guard  *)
(* stack an order passes (engines/order_guards.py) on its way to           *)
(* OrderSubmission.                                                        *)
(*                                                                         *)
(* The guard stack runs without suspending up to the order preview, so     *)
(* that part is one step; the preview and the hand-over to the broker's    *)
(* thread pool are awaits during which other tasks and the guard sweep's   *)
(* thread may halt trading.  An order that is blocked without a trace is   *)
(* no step.  A pause that has expired is as good as none, cleared or not.  *)
(***************************************************************************)
EXTENDS Naturals, FiniteSets

CONSTANTS
    Symbols,
    All,                \* the scope of a global pause
    Tasks,              \* orders that may be in the guard stack at once
    Durations,          \* the pause lengths the configuration may give
    MaxTime, MaxDay,    \* bounds on the clock and on the trading days
    Equities,           \* account equity, in units of the daily loss limit
    SlippageAfter,      \* slippage_failure_pause_after
    OutageAfter,        \* broker_outage_max_failures
    EscalateAfter,      \* ValidationFailureTracker.escalation_threshold
    PreviewAfter,       \* preview_failure_disable_after
    MarkAllowsReduce,   \* mark_staleness_allow_reduce_only
    OperatorResets,     \* does anyone call reset_daily_tracking?
    SaveFaults,         \* what may go wrong with the state file
    MaxFaults,          \* bound on how often it does
    HaltSources,        \* what halts trading by cancelling all orders first
    NoBaseline, NoState, TornState, NoDay

VARIABLES
    now, day,
    deg,        \* DegradationState; its fields "opens" and "reduces" are history:
                \* the latest end anyone asked for, for opening and for reducing orders
    checks,     \* consecutive failures of the validation infrastructure
    previewOn,  \* enable_order_preview
    risk,       \* LiveRiskManager's daily state
    saved,      \* its state file
    writing,    \* a save of the guard sweep's thread that has not reached the file
    halting,    \* halts that are still cancelling orders before they pause
    order,      \* the order each task is guarding
    tripped,    \* history: the trading day on which the loss limit was last hit
    faults      \* history: how often the file did not get what it was meant to

haltVars ==
    <<now, day, deg, checks, previewOn, risk, saved, writing, halting, order, tripped, faults>>

Scopes == Symbols \cup {All}
Checks == {"slippage_guard", "order_preview"}
\* Failures are only compared with these two thresholds.
CheckCap == IF EscalateAfter > PreviewAfter THEN EscalateAfter ELSE PreviewAfter

Pauses == [until: Nat, allow: BOOLEAN]
Degradations == [pause: [Scopes -> Pauses], slippage: [Symbols -> 0..(SlippageAfter - 1)],
                 outage: 0..(OutageAfter - 1), opens: [Symbols -> Nat],
                 reduces: [Symbols -> Nat]]
Baselines == [equity: Equities, day: 0..MaxDay]     \* the day is history
Risks == [reduceOnly: BOOLEAN, triggered: BOOLEAN, baseline: Baselines \cup {NoBaseline}]
States == [day: 0..MaxDay, risk: Risks]
Orders == [pc: {"idle", "preview", "send"}, reducing: BOOLEAN, flag: BOOLEAN]

ASSUME ThresholdAssumption ==
    /\ SlippageAfter \in Nat \ {0} /\ OutageAfter \in Nat \ {0}
    /\ EscalateAfter \in Nat \ {0} /\ PreviewAfter \in Nat \ {0}
    /\ MaxTime \in Nat /\ MaxDay \in Nat
    /\ Durations \subseteq Nat /\ Equities \subseteq Nat
ASSUME ScopeAssumption == All \notin Symbols
ASSUME OptionAssumption ==
    /\ MarkAllowsReduce \in BOOLEAN /\ OperatorResets \in BOOLEAN
    /\ SaveFaults \subseteq {"torn", "stale", "fails"} /\ MaxFaults \in Nat
    /\ HaltSources \subseteq {"guard_failure", "drift"}
ASSUME AbsenceAssumption ==
    /\ NoBaseline \notin Baselines
    /\ NoState \notin States /\ TornState \notin States /\ NoState # TornState
    /\ NoDay \notin 0..MaxDay

NoHalt == [reduceOnly |-> FALSE, triggered |-> FALSE, baseline |-> NoBaseline]
NoDegradation ==
    [pause |-> [s \in Scopes |-> [until |-> 0, allow |-> TRUE]],
     slippage |-> [s \in Symbols |-> 0], outage |-> 0,
     opens |-> [s \in Symbols |-> 0], reduces |-> [s \in Symbols |-> 0]]
NoOrders == [t \in Tasks |-> [pc |-> "idle", reducing |-> FALSE, flag |-> FALSE]]

HaltInit ==
    /\ now = 0 /\ day = 0
    /\ deg = NoDegradation
    /\ checks = [c \in Checks |-> 0] /\ previewOn = TRUE
    /\ risk = NoHalt /\ saved = NoState /\ writing = NoState
    /\ halting = {}
    /\ order = NoOrders
    /\ tripped = NoDay /\ faults = 0

-----------------------------------------------------------------------------
(* DegradationState.                                                       *)

Latest(ends, scope, until) ==
    [s \in Symbols |-> IF scope \in {All, s} /\ ends[s] < until THEN until ELSE ends[s]]

\* The state after a request to pause the scope, with p as the scope's pause.
Paused(g, scope, until, allow, p) ==
    [pause |-> [g.pause EXCEPT ![scope] = p],
     slippage |-> g.slippage, outage |-> g.outage,
     opens |-> Latest(g.opens, scope, until),
     reduces |-> IF allow THEN g.reduces ELSE Latest(g.reduces, scope, until)]

\* Mutated form: the new pause always wins.
PauseScopeAfresh(g, scope, seconds, allow) ==
    Paused(g, scope, now + seconds, allow, [until |-> now + seconds, allow |-> allow])

\* pause_all and pause_symbol: a pause is extended, never shortened.
PauseScope(g, scope, seconds, allow) ==
    Paused(g, scope, now + seconds, allow,
           IF g.pause[scope].until > now + seconds THEN g.pause[scope]
           ELSE [until |-> now + seconds, allow |-> allow])

IsPaused(s, reducing) ==
    IF now < deg.pause[All].until THEN ~(reducing /\ deg.pause[All].allow)
    ELSE now < deg.pause[s].until /\ ~(reducing /\ deg.pause[s].allow)

RecordSlippageFailure(g, s, seconds) ==
    IF g.slippage[s] + 1 >= SlippageAfter
    THEN [PauseScope(g, s, seconds, TRUE) EXCEPT !.slippage[s] = 0]
    ELSE [g EXCEPT !.slippage[s] = @ + 1]

RecordBrokerFailure(g, seconds) ==
    IF g.outage + 1 >= OutageAfter
    THEN [PauseScope(g, All, seconds, TRUE) EXCEPT !.outage = 0]
    ELSE [g EXCEPT !.outage = @ + 1]

-----------------------------------------------------------------------------
(* LiveRiskManager.                                                        *)

\* Mutated form: the trip of the loss limit is not written.
StateToSaveUntripped(r) == [day |-> day, risk |-> [r EXCEPT !.triggered = FALSE]]

\* Mutated form: a mode that somebody else will set again is not written.
StateToSaveModeless(r) == [day |-> day, risk |-> [r EXCEPT !.reduceOnly = r.triggered]]

StateToSave(r) == [day |-> day, risk |-> r]

\* Something goes wrong with the file.
Fault(f) == f \in SaveFaults /\ faults < MaxFaults /\ faults' = faults + 1

\* _save_state: an error is noted and otherwise ignored.
SaveState(r) ==
    \/ saved' = StateToSave(r) /\ UNCHANGED faults
    \/ Fault("fails") /\ UNCHANGED saved

\* _load_state: nothing of another trading day, and nothing if the file is damaged.
LoadedRisk(f) == IF f \in States /\ f.day = day THEN f.risk ELSE NoHalt

SetReduceOnlyMode ==
    /\ risk' = [risk EXCEPT !.reduceOnly = TRUE]
    /\ SaveState(risk')

\* check_order
BlockedByMode(reducing) == (risk.reduceOnly \/ risk.triggered) /\ ~reducing

\* track_daily_pnl: the first equity of the day is the baseline, a loss of the
\* limit or more trips it.
TrackDailyPnl(e) ==
    /\ \/ /\ risk.baseline = NoBaseline
          /\ risk' = [risk EXCEPT !.baseline = [equity |-> e, day |-> day]]
          /\ UNCHANGED tripped
       \/ /\ risk.baseline # NoBaseline /\ e < risk.baseline.equity
          /\ risk' = [risk EXCEPT !.triggered = TRUE, !.reduceOnly = TRUE]
          /\ tripped' = day
    /\ SaveState(risk')
    /\ UNCHANGED <<now, day, deg, checks, previewOn, writing, halting, order>>

\* The guard sweep's thread sets the baseline: what it is about to write was
\* collected before whatever the event loop changes and saves meanwhile.
SweepSetsBaseline(e) ==
    /\ Fault("stale")
    /\ risk.baseline = NoBaseline /\ writing = NoState
    /\ risk' = [risk EXCEPT !.baseline = [equity |-> e, day |-> day]]
    /\ writing' = StateToSave(risk')
    /\ UNCHANGED <<now, day, deg, checks, previewOn, saved, halting, order, tripped>>

SweepWrites ==
    /\ writing # NoState
    /\ saved' = writing
    /\ writing' = NoState
    /\ UNCHANGED <<now, day, deg, checks, previewOn, risk, halting, order, tripped, faults>>

ResetDailyTracking ==
    /\ OperatorResets
    /\ risk' = NoHalt
    /\ SaveState(risk')
    /\ tripped' = NoDay
    /\ UNCHANGED <<now, day, deg, checks, previewOn, writing, halting, order>>

-----------------------------------------------------------------------------
(* What halts trading.                                                     *)

\* A reconnected feed, once seen: a pause for state sync.
WsReconnected(seconds) ==
    /\ deg' = PauseScope(deg, All, seconds, TRUE)
    /\ UNCHANGED <<now, day, checks, previewOn, risk, saved, writing, halting, order, tripped, faults>>

WsStale(seconds) ==
    /\ SetReduceOnlyMode
    /\ deg' = PauseScope(deg, All, seconds, TRUE)
    /\ UNCHANGED <<now, day, checks, previewOn, writing, halting, order, tripped>>

\* The volatility breaker, in the guard sweep's thread.
VolatilityBreaker ==
    /\ SetReduceOnlyMode
    /\ UNCHANGED <<now, day, deg, checks, previewOn, writing, halting, order, tripped>>

\* _handle_guard_failure and handle_order_reconciliation_drift: reduce-only at
\* once, the pause after the orders have been cancelled (which never raises).
StartHalt(h) ==
    /\ SetReduceOnlyMode
    /\ halting' = halting \cup {h}
    /\ UNCHANGED <<now, day, deg, checks, previewOn, writing, order, tripped>>

FinishHalt(h, seconds) ==
    /\ h \in halting
    /\ halting' = halting \ {h}
    /\ deg' = PauseScope(deg, All, seconds, TRUE)
    /\ UNCHANGED <<now, day, checks, previewOn, risk, saved, writing, order, tripped, faults>>

BrokerRead(works, seconds) ==
    /\ deg' = IF works THEN [deg EXCEPT !.outage = 0] ELSE RecordBrokerFailure(deg, seconds)
    /\ UNCHANGED <<now, day, checks, previewOn, risk, saved, writing, halting, order, tripped, faults>>

-----------------------------------------------------------------------------
(* An order in the guard stack.                                            *)

\* The degradation gate and reduce-only mode let the order on.
Admitted(s, reducing) == ~IsPaused(s, reducing) /\ ~BlockedByMode(reducing)

\* check_mark_staleness pauses the symbol either way.
MarkChecked(g, s, stale, seconds) ==
    IF stale THEN PauseScope(g, s, seconds, MarkAllowsReduce) ELSE g

\* A stale mark blocks an order unless it reduces and that is allowed.
PassesMark(stale, reducing) == stale => MarkAllowsReduce /\ reducing

BlockOnStaleMark(s, reducing, seconds) ==
    /\ Admitted(s, reducing)
    /\ ~PassesMark(TRUE, reducing)
    /\ deg' = MarkChecked(deg, s, TRUE, seconds)
    /\ UNCHANGED <<now, day, checks, previewOn, risk, saved, writing, halting, order, tripped, faults>>

BlockOnSlippage(s, reducing, stale, seconds) ==
    /\ Admitted(s, reducing) /\ PassesMark(stale, reducing)
    /\ deg' = RecordSlippageFailure(MarkChecked(deg, s, stale, seconds), s, seconds)
    /\ UNCHANGED <<now, day, checks, previewOn, risk, saved, writing, halting, order, tripped, faults>>

\* ValidationFailureTracker: record_success, or record_failure with its escalation.
CountCheck(c, works) ==
    checks' = [checks EXCEPT ![c] = IF works THEN 0 ELSE IF @ < CheckCap THEN @ + 1 ELSE @]

Escalates(c, works) == ~works /\ checks[c] + 1 >= EscalateAfter

\* The check's result, and reduce-only mode with a global pause if it escalates.
CheckDone(g, c, works, seconds) ==
    /\ CountCheck(c, works)
    /\ IF Escalates(c, works)
       THEN SetReduceOnlyMode /\ deg' = PauseScope(g, All, seconds, TRUE)
       ELSE UNCHANGED <<risk, saved, faults>> /\ deg' = g

\* Mutated form: sends what was asked for.
FinalReduceOnlyFlagAsked(reducing, mode) == reducing

\* finalize_reduce_only_flag
FinalReduceOnlyFlag(reducing, mode) == reducing \/ mode

GoSend(t, reducing) ==
    order' = [order EXCEPT ![t] = [pc |-> "send", reducing |-> reducing,
                                   flag |-> FinalReduceOnlyFlag(reducing, risk'.reduceOnly)]]

\* The stack up to the preview; a slippage check that cannot be made lets the
\* order on, and so does an escalation that it sets off.
PassGuards(t, s, reducing, stale, works, seconds) ==
    /\ order[t].pc = "idle"
    /\ Admitted(s, reducing) /\ PassesMark(stale, reducing)
    /\ CheckDone([MarkChecked(deg, s, stale, seconds) EXCEPT !.slippage[s] = 0],
                 "slippage_guard", works, seconds)
    /\ previewOn' = (previewOn /\ checks["order_preview"] < PreviewAfter)
    /\ IF previewOn'
       THEN order' = [order EXCEPT ![t] = [pc |-> "preview", reducing |-> reducing,
                                           flag |-> reducing]]
       ELSE GoSend(t, reducing)
    /\ UNCHANGED <<now, day, writing, halting, tripped>>

PreviewReturns(t, works, seconds) ==
    /\ order[t].pc = "preview"
    /\ CheckDone(deg, "order_preview", works, seconds)
    /\ GoSend(t, order[t].reducing)
    /\ UNCHANGED <<now, day, previewOn, writing, halting, tripped>>

Leave(t) ==
    /\ order' = [order EXCEPT ![t] = [pc |-> "idle", reducing |-> FALSE, flag |-> FALSE]]
    /\ UNCHANGED <<now, day, deg, checks, previewOn, risk, saved, writing, halting, tripped, faults>>

PreviewRefuses(t) == order[t].pc = "preview" /\ Leave(t)

\* submit_order_with_result takes over.
SubmitOrder(t) == order[t].pc = "send" /\ Leave(t)

-----------------------------------------------------------------------------
(* Time and restarts.                                                      *)

Tick ==
    /\ now < MaxTime
    /\ now' = now + 1
    /\ UNCHANGED <<day, deg, checks, previewOn, risk, saved, writing, halting, order, tripped, faults>>

NextDay ==
    /\ day < MaxDay
    /\ day' = day + 1
    /\ UNCHANGED <<now, deg, checks, previewOn, risk, saved, writing, halting, order, tripped, faults>>

\* Pauses and counters are lost, the risk manager reads its file.
StartFrom(f) ==
    /\ saved' = f
    /\ risk' = LoadedRisk(f)
    /\ deg' = NoDegradation
    /\ checks' = [c \in Checks |-> 0] /\ previewOn' = TRUE
    /\ writing' = NoState /\ halting' = {}
    /\ order' = NoOrders
    /\ UNCHANGED <<now, day, tripped>>

Restart == StartFrom(saved) /\ UNCHANGED faults

\* The process dies while it writes its state: the file was opened with "w".
DieWhileSaving == Fault("torn") /\ StartFrom(TornState)

OrderStep ==
    \/ \E s \in Symbols, d \in Durations, reducing, stale, works \in BOOLEAN :
          \/ BlockOnStaleMark(s, reducing, d)
          \/ BlockOnSlippage(s, reducing, stale, d)
          \/ \E t \in Tasks : PassGuards(t, s, reducing, stale, works, d)
    \/ \E t \in Tasks, works \in BOOLEAN, d \in Durations : PreviewReturns(t, works, d)
    \/ \E t \in Tasks : PreviewRefuses(t) \/ SubmitOrder(t)

RiskStep ==
    \/ \E e \in Equities : TrackDailyPnl(e) \/ SweepSetsBaseline(e)
    \/ SweepWrites
    \/ ResetDailyTracking

HaltStep ==
    \/ \E d \in Durations : WsReconnected(d) \/ WsStale(d)
    \/ VolatilityBreaker
    \/ \E h \in HaltSources :
          StartHalt(h) \/ \E d \in Durations : FinishHalt(h, d)
    \/ \E works \in BOOLEAN, d \in Durations : BrokerRead(works, d)

HaltNext == OrderStep \/ RiskStep \/ HaltStep \/ Tick \/ NextDay \/ Restart \/ DieWhileSaving

HaltSpec == HaltInit /\ [][HaltNext]_haltVars

-----------------------------------------------------------------------------
(* Properties.                                                             *)

HaltTypeOK ==
    /\ now \in 0..MaxTime /\ day \in 0..MaxDay
    /\ deg \in Degradations
    /\ checks \in [Checks -> 0..CheckCap]
    /\ previewOn \in BOOLEAN
    /\ risk \in Risks
    /\ saved \in States \cup {NoState, TornState}
    /\ writing \in States \cup {NoState}
    /\ halting \subseteq HaltSources
    /\ order \in [Tasks -> Orders]
    /\ tripped \in 0..MaxDay \cup {NoDay} /\ faults \in 0..MaxFaults

\* "Pauses are monotonic": however many parts of the engine pause a symbol or
\* everything, with one record per scope, an order is held back until the
\* latest end that any of them asked for.
PausesAreHonoured ==
    \A s \in Symbols :
        /\ now < deg.opens[s] => IsPaused(s, FALSE)
        /\ now < deg.reduces[s] => IsPaused(s, TRUE)

\* As long as every save reaches the file, reduce-only mode, whoever set it, ends
\* with its trading day or when daily tracking is reset, and not by restarting
\* the process (_load_state restores it).
HaltsOutliveRestart ==
    [][faults' = 0 /\ risk.reduceOnly /\ ~risk'.reduceOnly =>
         ResetDailyTracking \/ (saved \in States /\ saved.day # day)]_haltVars

\* For the rest of the day on which the loss limit was hit, over any number of
\* restarts, the limit stays tripped and reduce-only mode stays on, as long as
\* every save reaches the file (track_daily_pnl, _load_state).
DailyLossHolds == faults = 0 /\ tripped = day => risk.triggered /\ risk.reduceOnly

\* A halt that comes while an order waits for its preview still reaches it: an
\* order handed to the broker after the loss limit was hit is reduce-only.
LateHaltsMarkOrders ==
    [][\A t \in Tasks :
        order[t].pc # "send" /\ order'[t].pc = "send" /\ risk.triggered =>
            order'[t].flag]_haltVars
=============================================================================
