---------------------------- MODULE BotLifecycle ----------------------------
(***************************************************************************)
(* How the bot starts and stops: TradingBot (live_trade/bot.py), the       *)
(* state of TradingEngine (engines/strategy.py) and the coordinator that   *)
(* owns its background tasks (engines/runtime/coordinator.py).             *)
(*                                                                         *)
(* run(), stop() and flatten_and_stop() are coroutines of one event loop   *)
(* and may overlap; the drain is a task of its own that outlives a         *)
(* cancelled caller, and the background tasks end when they choose to.     *)
(* One action is what happens between two awaits.  A broker call is in a   *)
(* thread, which no cancellation reaches.                                  *)
(*                                                                         *)
(* The trading loop stands for itself and the guard sweep, which only the  *)
(* clean-up of tasks ends; the feed for the tasks that have a stop hook.   *)
(* run() is called once, as the run command does, before anyone stops the  *)
(* bot.                                                                    *)
(***************************************************************************)
EXTENDS Naturals, FiniteSets

CONSTANTS
    Loop, Feed,         \* background tasks
    Hook,               \* a stop hook that outlives its timeout
    Symbols,
    OwnExecutor,        \* broker_calls_use_dedicated_executor
    MaxCancelled,       \* bound on the calls that are cancelled
    Nobody

ASSUME LifeAssumption == Nobody \notin {"run", "stop", "flatten"}

VARIABLES
    bot,        \* TradingBotState
    eng,        \* EngineState
    rt,         \* RuntimeEngineState
    broken,     \* _graceful_shutdown_failed of the coordinator
    lock,       \* _lifecycle_lock
    drain,      \* the drain task: where it is, and whether startup failed
    at,         \* where each call of the bot is
    closing,    \* is run() in its finally block?
    task,       \* the background tasks
    asked,      \* tasks that were cancelled and have not noticed yet
    owned,      \* _named_tasks of the coordinator
    preserve,   \* _preserve_flatten_failure_state of the bot
    keepCalls,  \* _preserve_broker_calls_on_shutdown of the engine
    pool,       \* the executor of the broker calls
    cycle,      \* where the trading loop is
    flight,     \* symbols with an order in a thread
    held,       \* positions at the broker
    flat        \* flatten_and_stop: what is left to close, and did a close fail?

states == <<bot, eng, rt, broken>>
tasks == <<task, asked, owned>>
flags == <<preserve, keepCalls, pool>>
market == <<cycle, flight, held>>
vars == <<states, lock, drain, at, closing, tasks, flags, market, flat>>

Calls == {"run", "stop", "flatten"}
Workers == {Loop, Feed}
Owned == Workers \union {Hook}
Ended == {"returned", "failed", "cancelled"}
Up(t) == task[t] = "up"
Gone == {"ended", "gone"}
-----------------------------------------------------------------------------
(* The two lifecycles have the same table; a transition that is not in it is *)
(* logged and ignored.                                                       *)

LEGAL_TRANSITIONS ==
    [init |-> {"starting", "stopping", "stopped"},
     starting |-> {"running", "stopping", "error"},
     running |-> {"stopping", "error"},
     stopping |-> {"stopped", "error"},
     stopped |-> {"starting", "stopping"},
     error |-> {"stopping", "stopped"}]

Transition(state, target) == IF target \in LEGAL_TRANSITIONS[state] THEN target ELSE state

Running(state) == state \in {"starting", "running"}

Move(c, place) == at' = [at EXCEPT ![c] = place]
-----------------------------------------------------------------------------
Init ==
    /\ bot = "init" /\ eng = "init" /\ rt = "idle" /\ broken = FALSE
    /\ lock = Nobody
    /\ drain = [at |-> "none", failed |-> FALSE]
    /\ at = [c \in Calls |-> "idle"]
    /\ closing = FALSE
    /\ task = [t \in Owned |-> "off"] /\ asked = {} /\ owned = {}
    /\ preserve = FALSE /\ keepCalls = FALSE
    /\ pool = IF OwnExecutor THEN "own" ELSE "shared"
    /\ cycle = "top" /\ flight = {} /\ held = {}
    /\ flat = [todo |-> {}, failed |-> FALSE]
-----------------------------------------------------------------------------
(* Startup.  The steps up to the trading loop do not suspend; starting the   *)
(* feed and the reporters does.  A step that fails, and a cancelled startup, *)
(* drain what has been started.                                              *)

\* TradingBot.run calls start_background_tasks; nobody holds the lock yet
CallRun ==
    /\ at["run"] = "idle" /\ lock = Nobody
    /\ bot' = Transition(bot, "starting")
    /\ lock' = "run"
    /\ rt' = "initializing" /\ broken' = FALSE
    /\ \/ /\ eng' = Transition(Transition(eng, "starting"), "running")
          /\ task' = [task EXCEPT ![Loop] = "up"] /\ owned' = owned \union {Loop}
          /\ Move("run", "feed")
          /\ UNCHANGED drain
       \/ /\ eng' \in {eng, Transition(eng, "starting")}
          /\ drain' = [at |-> "new", failed |-> TRUE]
          /\ Move("run", "undo")
          /\ UNCHANGED <<task, owned>>
    /\ UNCHANGED <<closing, asked, flags, market, flat>>

\* the last step; the lock is released and run() goes on without a pause
StartFeed ==
    /\ at["run"] = "feed"
    /\ task' = [task EXCEPT ![Feed] = "up"] /\ owned' = owned \union {Feed}
    /\ rt' = "running" /\ lock' = Nobody
    /\ bot' = Transition(bot, "running")
    /\ Move("run", "gather")
    /\ UNCHANGED <<eng, broken, drain, closing, asked, flags, market, flat>>

\* a later step fails, or run() is cancelled in it
StartupFails ==
    /\ at["run"] = "feed"
    /\ drain' = [at |-> "new", failed |-> TRUE]
    /\ Move("run", "undo")
    /\ UNCHANGED <<states, lock, closing, tasks, flags, market, flat>>

\* run() raises before its try block, whose cleanup is not for a failed start; only an
\* error, not a cancellation, is a state of the engine
StartupIsUndone ==
    /\ at["run"] = "undo" /\ drain.at = "none"
    /\ eng' \in {eng, Transition(eng, "error")}
    /\ lock' = Nobody
    /\ Move("run", "ended")
    /\ UNCHANGED <<bot, rt, broken, drain, closing, tasks, flags, market, flat>>
-----------------------------------------------------------------------------
(* The drain task: the stop hooks, the executor of the broker calls, then    *)
(* the tasks that are left, each wait with a timeout.                        *)

DrainBegins ==
    /\ drain.at = "new"
    /\ rt' = "draining"
    /\ drain' = [drain EXCEPT !.at = "hooks"]
    /\ UNCHANGED <<bot, eng, broken, lock, at, closing, tasks, flags, market, flat>>

\* every hook of the plan ran: what it stops is stopped
HooksRun ==
    /\ drain.at = "hooks"
    /\ task' = [task EXCEPT ![Feed] = IF Up(Feed) THEN "cancelled" ELSE @]
    /\ asked' = asked \ {Feed}
    /\ drain' = [drain EXCEPT !.at = "calls"]
    /\ UNCHANGED <<states, owned, lock, at, closing, flags, market, flat>>

\* a hook raises, or outlives its timeout and stays with the coordinator
HookFails ==
    /\ drain.at = "hooks"
    /\ broken' = TRUE
    /\ \/ UNCHANGED tasks
       \/ /\ task' = [task EXCEPT ![Hook] = "up"]
          /\ asked' = asked \union {Hook} /\ owned' = owned \union {Hook}
    /\ drain' = [drain EXCEPT !.at = "calls"]
    /\ UNCHANGED <<bot, eng, rt, lock, at, closing, flags, market, flat>>

\* an order that a thread has in hand: it opens, adds to or closes a position, or fails
Landings(s) == {held, held \union {s}, held \ {s}}

\* BoundedToThread.shutdown waits for the threads of an executor of its own; later calls
\* go through the default executor
ShutCalls(shut) ==
    IF shut /\ pool = "own"
    THEN /\ pool' = "shared"
         /\ flight' = {}
         /\ \E landed \in SUBSET flight, left \in SUBSET flight :
                held' = (held \union landed) \ left
    ELSE UNCHANGED <<pool, flight, held>>

\* Mutated form: the clean-up waits for the tasks without cancelling them
CancelTasksWaiting ==
    /\ drain.at = "calls"
    /\ ShutCalls(~keepCalls)
    /\ drain' = [drain EXCEPT !.at = "wait"]
    /\ UNCHANGED <<states, lock, at, closing, tasks, preserve, keepCalls, cycle, flat>>

\* the executor's hook and the cancellations follow without a pause
CancelTasks ==
    /\ drain.at = "calls"
    /\ ShutCalls(~keepCalls)
    /\ asked' = asked \union {t \in owned : Up(t)}
    /\ drain' = [drain EXCEPT !.at = "wait"]
    /\ UNCHANGED <<states, lock, at, closing, task, owned, preserve, keepCalls, cycle,
                   flat>>

DrainEnds ==
    /\ drain.at = "wait" /\ \A t \in owned : ~Up(t)
    /\ owned' = {}
    /\ rt' = IF drain.failed \/ broken THEN "failed" ELSE "terminated"
    /\ drain' = [at |-> "none", failed |-> FALSE]
    /\ UNCHANGED <<bot, eng, broken, lock, at, closing, task, asked, flags, market,
                   flat>>

\* Mutated form: the timeout is logged and nothing more
DrainTimesOutQuietly ==
    /\ drain.at = "wait" /\ \E t \in owned : Up(t)
    /\ owned' = {t \in owned : Up(t)}
    /\ rt' = "failed"
    /\ drain' = [at |-> "none", failed |-> FALSE]
    /\ UNCHANGED <<bot, eng, broken, lock, at, closing, task, asked, flags, market, flat>>

\* Mutated form: the tasks are forgotten once they have been cancelled
DrainTimesOutForgetting ==
    /\ drain.at = "wait" /\ \E t \in owned : Up(t)
    /\ owned' = {}
    /\ broken' = TRUE
    /\ rt' = "failed"
    /\ drain' = [at |-> "none", failed |-> FALSE]
    /\ UNCHANGED <<bot, eng, lock, at, closing, task, asked, flags, market, flat>>

\* task_cleanup_timeout_seconds: the tasks that are still up stay with the coordinator
DrainTimesOut ==
    /\ drain.at = "wait" /\ \E t \in owned : Up(t)
    /\ owned' = {t \in owned : Up(t)}
    /\ broken' = TRUE
    /\ rt' = "failed"
    /\ drain' = [at |-> "none", failed |-> FALSE]
    /\ UNCHANGED <<bot, eng, lock, at, closing, task, asked, flags, market, flat>>
-----------------------------------------------------------------------------
(* TradingEngine.shutdown.  The engine is stopping at once, also while       *)
(* someone else has the lock.                                                *)

\* a call that has the lock drains, awaits the drain that is on, or, when the coordinator
\* has ended, only cancels what it still owns
EnterShutdown(c) ==
    /\ at[c] = "lock" /\ lock = Nobody
    /\ lock' = c
    /\ IF rt \in {"terminated", "failed"}
       THEN /\ asked' = asked \union {t \in owned : Up(t)}
            /\ Move(c, "sweep")
            /\ UNCHANGED drain
       ELSE /\ drain' = IF drain.at = "none" THEN [at |-> "new", failed |-> FALSE] ELSE drain
            /\ Move(c, "drain")
            /\ UNCHANGED asked
    /\ UNCHANGED <<states, closing, task, owned, flags, market, flat>>

\* the sweep of an ended coordinator waits with the same timeout
SweepTimesOut(c) ==
    /\ at[c] = "sweep" /\ \E t \in owned : Up(t)
    /\ broken' = TRUE
    /\ owned' = {t \in owned : Up(t)}
    /\ Move(c, "drain")
    /\ UNCHANGED <<bot, eng, rt, lock, drain, closing, task, asked, flags, market,
                   flat>>

\* is the shutdown that c waits for over, and what has the engine come to?
ShutdownIsOver(c) ==
    \/ at[c] = "drain" /\ drain.at = "none"
    \/ at[c] = "sweep" /\ \A t \in owned : ~Up(t)

EngineAfter == Transition(eng, IF broken THEN "error" ELSE "stopped")

\* _finalize_stop_state: a shutdown that failed is not reported as a clean stop
FinalState(engine) == Transition(bot, IF engine = "error" THEN "error" ELSE "stopped")

\* c lets go of the lock and of the tasks that have ended
ShutdownReturns(c) ==
    /\ ShutdownIsOver(c)
    /\ lock' = Nobody
    /\ owned' = {t \in owned : Up(t)}
    /\ UNCHANGED <<rt, broken, drain, task, asked, keepCalls, cycle>>
-----------------------------------------------------------------------------
(* run(): it waits for its tasks and then cleans up, whoever ended them.  A  *)
(* flatten that failed keeps its state and the broker calls.                 *)

\* the finally block up to engine.shutdown, from state b of the bot and e of the engine
BeginCleanup(b, e) ==
    /\ closing' = TRUE
    /\ bot' = IF preserve THEN b ELSE Transition(b, "stopping")
    /\ eng' = Transition(e, "stopping")
    /\ Move("run", "lock")

GatherEnds ==
    /\ at["run"] = "gather"
    /\ LET failed == \E t \in Workers : task[t] = "failed"
       IN  /\ \/ \E t \in Workers : task[t] \in {"failed", "cancelled"}
              \/ \A t \in Workers : task[t] \in Ended
           /\ BeginCleanup(IF failed THEN Transition(bot, "error") ELSE bot, eng)
    /\ UNCHANGED <<rt, broken, lock, drain, tasks, flags, market, flat>>

\* with single_cycle, run() shuts the engine down after one interval, and once more in
\* its finally block; that it was asked for shows only here
SingleCycleEnds ==
    /\ at["run"] = "gather"
    /\ eng' = Transition(eng, "stopping")
    /\ Move("run", "lock")
    /\ UNCHANGED <<bot, rt, broken, lock, drain, closing, tasks, flags, market, flat>>

SingleCycleCleansUp ==
    /\ ~closing
    /\ ShutdownReturns("run")
    /\ BeginCleanup(bot, EngineAfter)
    /\ UNCHANGED <<preserve, pool, flight, held, flat>>

\* Mutated form: the flag is not read again
RunCleansUpUnchecked ==
    /\ closing
    /\ ShutdownReturns("run")
    /\ eng' = EngineAfter
    /\ ShutCalls(TRUE)
    /\ bot' = FinalState(EngineAfter)
    /\ Move("run", "ended")
    /\ UNCHANGED <<closing, preserve, flat>>

\* the flag is read again: a flatten may have failed in the meantime
RunCleansUp ==
    /\ closing
    /\ ShutdownReturns("run")
    /\ eng' = EngineAfter
    /\ ShutCalls(~preserve)
    /\ bot' = IF preserve THEN bot ELSE FinalState(EngineAfter)
    /\ Move("run", "ended")
    /\ UNCHANGED <<closing, preserve, flat>>
-----------------------------------------------------------------------------
(* stop() and flatten_and_stop().                                            *)

CallStop ==
    /\ at["stop"] = "idle" /\ at["run"] # "idle"
    /\ preserve' = FALSE
    /\ bot' = Transition(bot, "stopping")
    /\ eng' = Transition(eng, "stopping")
    /\ Move("stop", "lock")
    /\ UNCHANGED <<rt, broken, lock, drain, closing, tasks, keepCalls, pool, market,
                   flat>>

StopReturns ==
    /\ ShutdownReturns("stop")
    /\ eng' = EngineAfter
    /\ ShutCalls(TRUE)
    /\ bot' = FinalState(EngineAfter)
    /\ Move("stop", "ended")
    /\ UNCHANGED <<closing, preserve, flat>>

CallFlatten ==
    /\ at["flatten"] = "idle" /\ at["run"] # "idle"
    /\ preserve' = FALSE
    /\ bot' = Transition(bot, "stopping")
    /\ Move("flatten", "list")
    /\ UNCHANGED <<eng, rt, broken, lock, drain, closing, tasks, keepCalls, pool,
                   market, flat>>

\* list_positions answers, or fails (as it does without a broker)
ListPositions ==
    /\ at["flatten"] = "list"
    /\ \/ flat' = [flat EXCEPT !.todo = held]
       \/ flat' = [flat EXCEPT !.failed = TRUE]
    /\ Move("flatten", "close")
    /\ UNCHANGED <<states, lock, drain, closing, tasks, flags, market>>

\* a reduce-only market order for each position that was listed; a close that fails does
\* not keep the others from being tried
ClosePosition(s) ==
    /\ at["flatten"] = "close" /\ s \in flat.todo
    /\ \/ /\ held' = held \ {s}
          /\ flat' = [flat EXCEPT !.todo = @ \ {s}]
       \/ /\ flat' = [flat EXCEPT !.todo = @ \ {s}, !.failed = TRUE]
          /\ UNCHANGED held
    /\ UNCHANGED <<states, lock, drain, at, closing, tasks, flags, cycle, flight>>

FlattenShutsDown ==
    /\ at["flatten"] = "close" /\ flat.todo = {}
    /\ preserve' = (preserve \/ flat.failed)
    /\ keepCalls' = (keepCalls \/ flat.failed)
    /\ eng' = Transition(eng, "stopping")
    /\ Move("flatten", "lock")
    /\ UNCHANGED <<bot, rt, broken, lock, drain, closing, tasks, pool, market, flat>>

FlattenReturns ==
    /\ ~flat.failed
    /\ ShutdownReturns("flatten")
    /\ eng' = EngineAfter
    /\ ShutCalls(TRUE)
    /\ preserve' = FALSE
    /\ bot' = FinalState(EngineAfter)
    /\ Move("flatten", "ended")
    /\ UNCHANGED <<closing, flat>>

\* _handle_flatten_failure, up to the alert it awaits
FlattenFails ==
    /\ flat.failed
    /\ ShutdownReturns("flatten")
    /\ eng' = EngineAfter
    /\ preserve' = TRUE
    /\ Move("flatten", "alert")
    /\ UNCHANGED <<bot, closing, pool, flight, held, flat>>

ReportFlattenFailure ==
    /\ at["flatten"] = "alert"
    /\ bot' = Transition(bot, "error")
    /\ Move("flatten", "ended")
    /\ UNCHANGED <<eng, rt, broken, lock, drain, closing, tasks, flags, market, flat>>
-----------------------------------------------------------------------------
(* The event loop cancels a call, a signal arrives.                          *)

\* a cancelled caller lets go of the lock, the drain goes on (asyncio.shield); run() that
\* waits for its tasks cancels them and cleans up
CancelCall(c) ==
    /\ Cardinality({d \in Calls : at[d] = "gone"}) < MaxCancelled
    /\ at[c] \notin Gone \union {"idle", "feed"}
    /\ IF c = "run" /\ at[c] = "gather"
       THEN /\ asked' \in {asked, asked \union {t \in Workers : Up(t)}}
            /\ BeginCleanup(bot, eng)
            /\ UNCHANGED lock
       ELSE IF c = "run" /\ ~closing /\ at[c] # "undo"
       THEN /\ BeginCleanup(bot, eng)
            /\ lock' = IF lock = c THEN Nobody ELSE lock
            /\ UNCHANGED asked
       ELSE /\ Move(c, "gone")
            /\ lock' = IF lock = c THEN Nobody ELSE lock
            /\ UNCHANGED <<asked, bot, eng, closing>>
    /\ UNCHANGED <<rt, broken, drain, task, owned, flags, market, flat>>

\* the handler of SIGINT and SIGTERM: bot.running = False forces the bot's state
Signal ==
    /\ at["run"] # "idle"
    /\ bot' = "stopped"
    /\ UNCHANGED <<eng, rt, broken, lock, drain, at, closing, tasks, flags, market, flat>>
-----------------------------------------------------------------------------
(* The background tasks and the threads.                                     *)

\* a task that was cancelled does nothing more than end
Working == Up(Loop) /\ Loop \notin asked

\* _run_loop looks at the engine's state between two cycles only
LoopTurns ==
    /\ Working /\ cycle = "top"
    /\ IF Running(eng) THEN cycle' = "cycle" /\ UNCHANGED task
                       ELSE task' = [task EXCEPT ![Loop] = "returned"] /\ UNCHANGED cycle
    /\ UNCHANGED <<states, lock, drain, at, closing, asked, owned, flags, flight, held,
                   flat>>

\* an order that passed the guards goes to a thread
PlaceOrder(s) ==
    /\ Working /\ cycle = "cycle" /\ s \notin flight
    /\ flight' = flight \union {s}
    /\ UNCHANGED <<states, lock, drain, at, closing, tasks, flags, cycle, held, flat>>

CycleEnds ==
    /\ Working /\ cycle = "cycle" /\ flight = {}
    /\ cycle' = "top"
    /\ UNCHANGED <<states, lock, drain, at, closing, tasks, flags, flight, held, flat>>

OrderLands(s) ==
    /\ s \in flight
    /\ flight' = flight \ {s}
    /\ held' \in Landings(s)
    /\ UNCHANGED <<states, lock, drain, at, closing, tasks, flags, cycle, flat>>

\* the feed ends by itself, or with an error
FeedEnds ==
    /\ Up(Feed)
    /\ \E how \in {"returned", "failed"} : task' = [task EXCEPT ![Feed] = how]
    /\ asked' = asked \ {Feed}
    /\ UNCHANGED <<states, lock, drain, at, closing, owned, flags, market, flat>>

TaskIsCancelled(t) ==
    /\ Up(t) /\ t \in asked
    /\ task' = [task EXCEPT ![t] = "cancelled"]
    /\ asked' = asked \ {t}
    /\ cycle' = IF t = Loop THEN "top" ELSE cycle
    /\ UNCHANGED <<states, lock, drain, at, closing, owned, flags, flight, held, flat>>
-----------------------------------------------------------------------------
Start == CallRun \/ StartFeed \/ StartupFails \/ StartupIsUndone

Drain ==
    DrainBegins \/ HooksRun \/ HookFails \/ CancelTasks \/ DrainEnds \/ DrainTimesOut

Run == GatherEnds \/ SingleCycleEnds \/ SingleCycleCleansUp \/ RunCleansUp

Stop == CallStop \/ StopReturns

Flatten ==
    \/ CallFlatten \/ ListPositions \/ FlattenShutsDown
    \/ FlattenReturns \/ FlattenFails \/ ReportFlattenFailure
    \/ \E s \in Symbols : ClosePosition(s)

Background ==
    \/ LoopTurns \/ CycleEnds \/ FeedEnds
    \/ \E s \in Symbols : PlaceOrder(s) \/ OrderLands(s)
    \/ \E t \in Owned : TaskIsCancelled(t)

Next ==
    \/ Start \/ Drain \/ Run \/ Stop \/ Flatten \/ Background
    \/ \E c \in Calls : EnterShutdown(c) \/ SweepTimesOut(c) \/ CancelCall(c)

Spec == Init /\ [][Next]_vars

(* The event loop serves every call and task that can go on, waits have       *)
(* timeouts, the broker's requests end, and a cancelled task ends.  Nobody    *)
(* has to call, fail, cancel or signal.                                       *)
Fairness ==
    /\ WF_vars(StartFeed \/ StartupIsUndone)
    /\ WF_vars(Drain)
    /\ WF_vars(GatherEnds \/ SingleCycleCleansUp \/ RunCleansUp)
    /\ WF_vars(StopReturns)
    /\ WF_vars(ListPositions \/ FlattenShutsDown \/ FlattenReturns \/ FlattenFails
                  \/ ReportFlattenFailure \/ \E s \in Symbols : ClosePosition(s))
    /\ \A c \in Calls : WF_vars(EnterShutdown(c))
    /\ \A c \in Calls : WF_vars(SweepTimesOut(c))
    /\ \A t \in Owned : WF_vars(TaskIsCancelled(t))

FairSpec == Spec /\ Fairness

\* the bot under signals as well
SignalSpec == Init /\ [][Next \/ Signal]_vars /\ Fairness
-----------------------------------------------------------------------------
(* Properties.                                                               *)

\* Everything has a value of its kind, and only a call that waits for the coordinator, or
\* run() that starts, holds the lifecycle lock (_run_lifecycle_serialized).
LifeTypeOK ==
    /\ {bot, eng} \subseteq DOMAIN LEGAL_TRANSITIONS
    /\ rt \in {"idle", "initializing", "running", "draining", "terminated", "failed"}
    /\ drain.at \in {"none", "new", "hooks", "calls", "wait"}
    /\ task \in [Owned -> Ended \union {"off", "up"}]
    /\ asked \subseteq Owned /\ owned \subseteq Owned
    /\ flight \subseteq Symbols /\ held \subseteq Symbols
    /\ lock \in Calls \union {Nobody}
    /\ lock # Nobody => at[lock] \in {"feed", "undo", "drain", "sweep"}

\* A bot that reports a clean stop has stopped: no background task runs, also none that
\* outlived its clean-up, whoever stopped it and whatever overlapped.
CleanStopIsClean ==
    bot = "stopped" => ~broken /\ \A t \in Owned : ~Up(t)

\* The coordinator never lets go of a task that is still running, over any timeout,
\* cancelled caller or failed start: the next shutdown can still end it.
NothingIsOrphaned == \A t \in Owned : Up(t) => t \in owned

\* Once a flatten has failed, neither the cleanup of run() nor the drain turns that into a
\* clean stop or ends the broker calls it needs; only a new stop() or flatten does, or one
\* that had begun before.
FlattenFailureIsKept ==
    [][preserve /\ preserve' /\ at["stop"] \in Gone \union {"idle"} =>
           /\ bot' = "stopped" => bot = "stopped"
           /\ pool' = pool]_vars

\* nobody waits: who asked for a stop has it, and run() has ended with it
Settled ==
    /\ \A c \in {"stop", "flatten"} : \/ at[c] \in {"idle", "gone"}
                                      \/ at[c] = "ended" /\ at["run"] \in Gone
    /\ closing => at["run"] \in Gone

\* Nobody waits for ever for the lock, for the drain, or for a task that does not end: a
\* stop() or flatten_and_stop() that is not cancelled returns and ends run() too, also
\* when it overtakes the startup, and run() that cleans up comes to its end.
StopsAreCarriedOut == []<>Settled

\* A bot that says it is stopped ends its run: "Signal received, shutting down...".
StoppedBotsEnd == bot = "stopped" ~> at["run"] \in Gone
=============================================================================
