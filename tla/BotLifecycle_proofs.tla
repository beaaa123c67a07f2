------------------------ MODULE BotLifecycle_proofs ------------------------
(***************************************************************************)
(* Proofs about how the bot starts and stops, for any symbols, executors   *)
(* and number of cancelled calls.                                          *)
(*                                                                         *)
(* The coordinator goes one way: once it has ended (Over) no drain begins  *)
(* again and no task starts, so what its last drain left is decided there  *)
(* (Ending).  A call that waits for the coordinator has set the engine to  *)
(* stopping before (Stopping), so a shutdown that failed shows as an error *)
(* of the engine and then of the bot (StoppedIsOver), however the calls    *)
(* overlap.                                                                *)
(***************************************************************************)
EXTENDS BotLifecycle, TLAPS

LifeStates == {"init", "starting", "running", "stopping", "stopped", "error"}

CallPlaces ==
    {"idle", "feed", "undo", "gather", "lock", "drain", "sweep", "list", "close", "alert",
     "ended", "gone"}

\* The types that the steps rely on, those of LifeTypeOK among them.
LifeTypes ==
    /\ bot \in LifeStates /\ eng \in LifeStates
    /\ rt \in {"idle", "initializing", "running", "draining", "terminated", "failed"}
    /\ broken \in BOOLEAN /\ preserve \in BOOLEAN /\ keepCalls \in BOOLEAN
    /\ lock \in Calls \union {Nobody}
    /\ drain \in [at : {"none", "new", "hooks", "calls", "wait"}, failed : BOOLEAN]
    /\ at \in [Calls -> CallPlaces]
    /\ task \in [Owned -> Ended \union {"off", "up"}]
    /\ asked \subseteq Owned /\ owned \subseteq Owned
    /\ flight \subseteq Symbols /\ held \subseteq Symbols
    /\ flat \in [todo : SUBSET Symbols, failed : BOOLEAN]

-----------------------------------------------------------------------------
(* The inductive invariant.                                                *)

\* The coordinator has ended.
Over == rt \in {"terminated", "failed"}

\* Before run() is called nothing is.
Begun ==
    at["run"] = "idle" =>
        /\ rt = "idle" /\ drain.at = "none" /\ ~broken /\ bot = "init" /\ eng = "init"
        /\ \A c \in Calls : at[c] = "idle"
        /\ \A t \in Owned : ~Up(t)

\* Who is inside the lifecycle lock has it, and who has it is inside.
Inside == {"feed", "undo", "drain", "sweep"}
Holding ==
    /\ \A c \in Calls : at[c] \in Inside => lock = c
    /\ lock # Nobody => at[lock] \in Inside

\* Nobody drains while run() is starting the feed.
Starting == at["run"] = "feed" => rt = "initializing" /\ drain.at = "none" /\ ~broken

Draining ==
    /\ rt = "draining" <=> drain.at \in {"hooks", "calls", "wait"}
    /\ drain.at = "new" => ~Over

\* What a call waits for is on, or over.
Awaited ==
    \A c \in Calls :
        /\ at[c] \in {"undo", "drain"} => drain.at # "none" \/ Over
        /\ at[c] = "sweep" => Over

\* A shutdown that failed is known when it ends, and one that did not has left no task.
Ending ==
    /\ broken => rt = "failed" \/ drain.at \in {"calls", "wait"}
    /\ Over => broken \/ \A t \in Owned : ~Up(t)

Stopping ==
    \A c \in Calls : at[c] \in {"lock", "drain", "sweep"} => eng \in {"stopping", "stopped", "error"}

StoppedIsOver == bot = "stopped" \/ eng = "stopped" => Over /\ ~broken

\* A flatten that failed has told the engine to keep the broker calls.
CallsAreKept ==
    /\ preserve => keepCalls
    /\ at["flatten"] \in {"lock", "drain", "sweep"} /\ flat.failed => keepCalls

LifeCore ==
    /\ Begun /\ Holding /\ Starting /\ Draining /\ Awaited /\ Ending /\ Stopping
    /\ StoppedIsOver /\ CallsAreKept /\ NothingIsOrphaned

LifeInv == LifeTypes /\ LifeCore

-----------------------------------------------------------------------------
(* The two lifecycles.                                                     *)

LEMMA TransitionTyped ==
    ASSUME NEW s \in LifeStates, NEW t \in LifeStates
    PROVE  Transition(s, t) \in {s, t} /\ Transition(s, t) \in LifeStates
  BY DEF Transition

\* Everything can be stopped.
LEMMA StoppingIsLegal == ASSUME NEW s \in LifeStates PROVE Transition(s, "stopping") = "stopping"
  BY DEF Transition, LEGAL_TRANSITIONS, LifeStates

\* What a shutdown makes of an engine that is stopping.
LEMMA ShutdownShows ==
    ASSUME eng \in {"stopping", "stopped", "error"}, broken \in BOOLEAN
    PROVE  /\ EngineAfter \in {"stopped", "error"}
           /\ EngineAfter = "stopped" => ~broken \/ eng = "stopped"
  BY DEF EngineAfter, Transition, LEGAL_TRANSITIONS

LEMMA BotShows ==
    ASSUME NEW b \in LifeStates, NEW e \in LifeStates
    PROVE  LET final == Transition(b, IF e = "error" THEN "error" ELSE "stopped")
           IN  /\ final \in LifeStates
               /\ final = "stopped" => e # "error" \/ b = "stopped"
  BY DEF Transition, LifeStates

LEMMA InitLife == Init => LifeInv
  <1> SUFFICES ASSUME Init PROVE LifeInv
    OBVIOUS
  <1>1. LifeTypes
    BY DEF Init, LifeTypes, LifeStates, CallPlaces, Calls, Owned, Workers, Ended
  <1>2. LifeCore
    BY LifeAssumption DEF Init, LifeCore, Begun, Holding, Inside, Starting, Draining, Awaited,
       Ending, Stopping, StoppedIsOver, CallsAreKept, NothingIsOrphaned, Over, Up, Calls
  <1> QED
    BY <1>1, <1>2 DEF LifeInv
-----------------------------------------------------------------------------
(* Every action keeps the invariant: startup and drain.                    *)

\* Nothing was there before, so the first run() cannot find anything else in its way.
LEMMA CallRunKeeps ==
    ASSUME LifeInv, CallRun
    PROVE  LifeInv'
  <1>1. /\ bot = "init" /\ eng = "init" /\ drain.at = "none" /\ lock = Nobody
        /\ \A c \in Calls : at[c] = "idle"
        /\ \A t \in Owned : ~Up(t)
    BY DEF LifeInv, LifeCore, Begun, CallRun
  <1>2. bot' = "starting" /\ eng' \in {"init", "starting", "running"}
    BY <1>1 DEF CallRun, Transition, LEGAL_TRANSITIONS
  <1>3. /\ lock' = "run" /\ rt' = "initializing" /\ broken' = FALSE
        /\ UNCHANGED <<closing, asked, preserve, keepCalls, flight, held, flat>>
    BY DEF CallRun, flags, market
  <1>4. CASE /\ task' = [task EXCEPT ![Loop] = "up"] /\ owned' = owned \union {Loop}
             /\ Move("run", "feed") /\ UNCHANGED drain
    <2>1. LifeTypes'
      BY <1>2, <1>3, <1>4 DEF LifeInv, LifeTypes, LifeStates, CallPlaces, Calls, Owned, Workers,
         Move
    <2>2. at'["run"] = "feed" /\ at'["stop"] = "idle" /\ at'["flatten"] = "idle"
      BY <1>1, <1>4 DEF LifeInv, LifeTypes, Calls, Move
    <2>3. NothingIsOrphaned'
      BY <1>1, <1>4 DEF LifeInv, LifeTypes, NothingIsOrphaned, Up, Owned, Workers
    <2>4. (Begun /\ Holding /\ Starting /\ Draining /\ Awaited)'
      BY <1>1, <1>3, <1>4, <2>2 DEF Begun, Holding, Inside, Starting, Draining, Awaited, Over,
         Calls
    <2>5. (Ending /\ Stopping /\ StoppedIsOver /\ CallsAreKept)'
      BY <1>2, <1>3, <2>2 DEF LifeInv, LifeCore, Ending, Stopping, StoppedIsOver, CallsAreKept,
         Over, Calls
    <2> QED
      BY <2>1, <2>3, <2>4, <2>5 DEF LifeInv, LifeCore
  <1>5. CASE /\ drain' = [at |-> "new", failed |-> TRUE]
             /\ Move("run", "undo") /\ UNCHANGED <<task, owned>>
    <2>1. LifeTypes'
      BY <1>2, <1>3, <1>5 DEF LifeInv, LifeTypes, LifeStates, CallPlaces, Calls, Move
    <2>2. at'["run"] = "undo" /\ at'["stop"] = "idle" /\ at'["flatten"] = "idle"
      BY <1>1, <1>5 DEF LifeInv, LifeTypes, Calls, Move
    <2>3. NothingIsOrphaned'
      BY <1>1, <1>5 DEF NothingIsOrphaned, Up
    <2>4. (Begun /\ Holding /\ Starting /\ Draining /\ Awaited)'
      BY <1>3, <1>5, <2>2 DEF Begun, Holding, Inside, Starting, Draining, Awaited, Over, Calls
    <2>5. (Ending /\ Stopping /\ StoppedIsOver /\ CallsAreKept)'
      BY <1>2, <1>3, <2>2 DEF LifeInv, LifeCore, Ending, Stopping, StoppedIsOver, CallsAreKept,
         Over, Calls
    <2> QED
      BY <2>1, <2>3, <2>4, <2>5 DEF LifeInv, LifeCore
  <1> QED
    BY <1>4, <1>5 DEF CallRun

LEMMA StartFeedKeeps ==
    ASSUME LifeInv, StartFeed
    PROVE  LifeInv'
  <1>1. Transition(bot, "running") \in {bot, "running"}
    BY TransitionTyped DEF LifeInv, LifeTypes, LifeStates
  <1>2. LifeTypes'
    BY <1>1 DEF StartFeed, LifeInv, LifeTypes, LifeStates, CallPlaces, Calls, Owned, Workers,
       Ended, Move, flags, market
  <1>3. LifeCore'
    BY <1>1, LifeAssumption DEF StartFeed, LifeInv, LifeTypes, LifeCore, Begun, Holding, Inside,
       Starting, Draining, Awaited, Ending, Stopping, StoppedIsOver, CallsAreKept,
       NothingIsOrphaned, Over, Up, Calls, Move, Owned, Workers, flags
  <1> QED
    BY <1>2, <1>3 DEF LifeInv

LEMMA StartupFailsKeeps ==
    ASSUME LifeInv, StartupFails
    PROVE  LifeInv'
  <1>1. LifeTypes'
    BY DEF StartupFails, LifeInv, LifeTypes, LifeStates, CallPlaces, Calls, Owned, Workers,
       Ended, Move, flags, market, states, tasks
  <1>2. LifeCore'
    BY LifeAssumption DEF StartupFails, LifeInv, LifeTypes, LifeCore, Begun, Holding, Inside,
       Starting, Draining, Awaited, Ending, Stopping, StoppedIsOver, CallsAreKept,
       NothingIsOrphaned, Over, Up, Calls, Move, flags, states, tasks
  <1> QED
    BY <1>1, <1>2 DEF LifeInv

LEMMA StartupIsUndoneKeeps ==
    ASSUME LifeInv, StartupIsUndone
    PROVE  LifeInv'
  <1>1. eng' \in {eng, "error"}
    BY TransitionTyped DEF StartupIsUndone, LifeInv, LifeTypes, LifeStates
  <1>2. LifeTypes'
    BY <1>1 DEF StartupIsUndone, LifeInv, LifeTypes, LifeStates, CallPlaces, Calls, Owned,
       Workers, Ended, Move, flags, market, tasks
  <1>3. LifeCore'
    BY <1>1, LifeAssumption DEF StartupIsUndone, LifeInv, LifeTypes, LifeCore, Begun, Holding,
       Inside, Starting, Draining, Awaited, Ending, Stopping, StoppedIsOver, CallsAreKept,
       NothingIsOrphaned, Over, Up, Calls, Move, flags, tasks
  <1> QED
    BY <1>2, <1>3 DEF LifeInv

LEMMA DrainBeginsKeeps ==
    ASSUME LifeInv, DrainBegins
    PROVE  LifeInv'
  <1>1. LifeTypes'
    BY DEF DrainBegins, LifeInv, LifeTypes, LifeStates, CallPlaces, Calls, Owned, Workers,
       Ended, Move, flags, market, tasks
  <1>2. LifeCore'
    BY LifeAssumption DEF DrainBegins, LifeInv, LifeTypes, LifeCore, Begun, Holding, Inside,
       Starting, Draining, Awaited, Ending, Stopping, StoppedIsOver, CallsAreKept,
       NothingIsOrphaned, Over, Up, Calls, Move, flags, tasks
  <1> QED
    BY <1>1, <1>2 DEF LifeInv

LEMMA HooksRunKeeps ==
    ASSUME LifeInv, HooksRun
    PROVE  LifeInv'
  <1>1. LifeTypes'
    BY DEF HooksRun, LifeInv, LifeTypes, LifeStates, CallPlaces, Calls, Owned, Workers, Ended,
       Move, flags, market, states, Up
  <1>2. LifeCore'
    BY LifeAssumption DEF HooksRun, LifeInv, LifeTypes, LifeCore, Begun, Holding, Inside,
       Starting, Draining, Awaited, Ending, Stopping, StoppedIsOver, CallsAreKept,
       NothingIsOrphaned, Over, Up, Calls, Move, flags, states
  <1> QED
    BY <1>1, <1>2 DEF LifeInv

LEMMA HookFailsKeeps ==
    ASSUME LifeInv, HookFails
    PROVE  LifeInv'
  <1>1. LifeTypes'
    BY DEF HookFails, LifeInv, LifeTypes, LifeStates, CallPlaces, Calls, Owned, Workers, Ended,
       Move, flags, market, tasks
  <1>2. LifeCore'
    BY LifeAssumption DEF HookFails, LifeInv, LifeTypes, LifeCore, Begun, Holding, Inside,
       Starting, Draining, Awaited, Ending, Stopping, StoppedIsOver, CallsAreKept,
       NothingIsOrphaned, Over, Up, Calls, Move, flags, tasks, Owned
  <1> QED
    BY <1>1, <1>2 DEF LifeInv

\* Closing the executor of the broker calls only lands what its threads have in hand.
LEMMA ShutCallsTyped ==
    ASSUME LifeTypes, NEW shut, ShutCalls(shut)
    PROVE  flight' \subseteq Symbols /\ held' \subseteq Symbols
  BY DEF ShutCalls, LifeTypes

LEMMA CancelTasksKeeps ==
    ASSUME LifeInv, CancelTasks
    PROVE  LifeInv'
  <1>1. flight' \subseteq Symbols /\ held' \subseteq Symbols
    BY ShutCallsTyped DEF CancelTasks, LifeInv
  <1>2. LifeTypes'
    BY <1>1 DEF CancelTasks, LifeInv, LifeTypes, LifeStates, CallPlaces, Calls, Owned, Workers,
       Ended, Move, states, Up
  <1>3. LifeCore'
    BY <1>1, LifeAssumption DEF CancelTasks, LifeInv, LifeTypes, LifeCore, Begun, Holding,
       Inside, Starting, Draining, Awaited, Ending, Stopping, StoppedIsOver, CallsAreKept,
       NothingIsOrphaned, Over, Up, Calls, Move, states
  <1> QED
    BY <1>2, <1>3 DEF LifeInv

\* A drain that ends in time leaves no task behind.
LEMMA DrainEndsKeeps ==
    ASSUME LifeInv, DrainEnds
    PROVE  LifeInv'
  <1>1. LifeTypes'
    BY DEF DrainEnds, LifeInv, LifeTypes, LifeStates, CallPlaces, Calls, Owned, Workers, Ended,
       Move, flags, market
  <1>2. LifeCore'
    BY LifeAssumption DEF DrainEnds, LifeInv, LifeTypes, LifeCore, Begun, Holding, Inside,
       Starting, Draining, Awaited, Ending, Stopping, StoppedIsOver, CallsAreKept,
       NothingIsOrphaned, Over, Up, Calls, Move, flags
  <1> QED
    BY <1>1, <1>2 DEF LifeInv

LEMMA DrainTimesOutKeeps ==
    ASSUME LifeInv, DrainTimesOut
    PROVE  LifeInv'
  <1>1. LifeTypes'
    BY DEF DrainTimesOut, LifeInv, LifeTypes, LifeStates, CallPlaces, Calls, Owned, Workers,
       Ended, Move, flags, market, Up
  <1>2. LifeCore'
    BY LifeAssumption DEF DrainTimesOut, LifeInv, LifeTypes, LifeCore, Begun, Holding, Inside,
       Starting, Draining, Awaited, Ending, Stopping, StoppedIsOver, CallsAreKept,
       NothingIsOrphaned, Over, Up, Calls, Move, flags
  <1> QED
    BY <1>1, <1>2 DEF LifeInv
-----------------------------------------------------------------------------
(* Shutdown, and run().                                                    *)

LEMMA EnterShutdownKeeps ==
    ASSUME LifeInv, NEW c \in Calls, EnterShutdown(c)
    PROVE  LifeInv'
  <1>1. LifeTypes'
    <2>1. asked' \subseteq Owned
      BY DEF EnterShutdown, LifeInv, LifeTypes
    <2>2. at' \in [Calls -> CallPlaces]
      BY DEF EnterShutdown, LifeInv, LifeTypes, CallPlaces, Move
    <2>3. drain' = drain \/ drain' = [at |-> "new", failed |-> FALSE]
      BY DEF EnterShutdown
    <2>4. drain' \in [at : {"none", "new", "hooks", "calls", "wait"}, failed : BOOLEAN]
      <3>1. CASE drain' = drain
        BY <3>1 DEF LifeInv, LifeTypes
      <3>2. CASE drain' = [at |-> "new", failed |-> FALSE]
        BY <3>2
      <3> QED
        BY <2>3, <3>1, <3>2
    <2> QED
      BY <2>1, <2>2, <2>4 DEF EnterShutdown, LifeInv, LifeTypes, flags, market, states
  <1>2. LifeCore'
    BY LifeAssumption DEF EnterShutdown, LifeInv, LifeTypes, LifeCore, Begun, Holding, Inside,
       Starting, Draining, Awaited, Ending, Stopping, StoppedIsOver, CallsAreKept,
       NothingIsOrphaned, Over, Up, Calls, Move, flags, states
  <1> QED
    BY <1>1, <1>2 DEF LifeInv

LEMMA SweepTimesOutKeeps ==
    ASSUME LifeInv, NEW c \in Calls, SweepTimesOut(c)
    PROVE  LifeInv'
  <1>1. LifeTypes'
    BY DEF SweepTimesOut, LifeInv, LifeTypes, LifeStates, CallPlaces, Calls, Owned, Workers,
       Ended, Move, flags, market, Up
  <1>2. LifeCore'
    BY LifeAssumption DEF SweepTimesOut, LifeInv, LifeTypes, LifeCore, Begun, Holding, Inside,
       Starting, Draining, Awaited, Ending, Stopping, StoppedIsOver, CallsAreKept,
       NothingIsOrphaned, Over, Up, Calls, Move, flags
  <1> QED
    BY <1>1, <1>2 DEF LifeInv

\* Whoever returns from a shutdown waited for a coordinator that has ended, and tells
\* the engine what has become of it.
LEMMA ReturnsFromOver ==
    ASSUME LifeInv, NEW c \in Calls, ShutdownReturns(c)
    PROVE  /\ at[c] \in {"drain", "sweep"} /\ lock = c /\ Over
           /\ EngineAfter \in {"stopped", "error"}
           /\ EngineAfter = "stopped" => ~broken /\ \A t \in Owned : ~Up(t)
           /\ FinalState(EngineAfter) \in LifeStates
           /\ FinalState(EngineAfter) = "stopped" => ~broken
  <1>1. at[c] \in {"drain", "sweep"} /\ lock = c /\ Over
    BY DEF ShutdownReturns, ShutdownIsOver, LifeInv, LifeCore, Holding, Inside, Awaited
  <1>2. eng \in {"stopping", "stopped", "error"} /\ broken \in BOOLEAN
    BY <1>1 DEF LifeInv, LifeCore, LifeTypes, Stopping
  <1>3. EngineAfter \in {"stopped", "error"} /\ (EngineAfter = "stopped" => ~broken)
    BY <1>2, ShutdownShows DEF LifeInv, LifeCore, StoppedIsOver
  <1>4. FinalState(EngineAfter) \in LifeStates
        /\ (FinalState(EngineAfter) = "stopped" => EngineAfter # "error" \/ bot = "stopped")
    BY <1>3, BotShows DEF FinalState, LifeInv, LifeTypes, LifeStates
  <1>5. ~broken => \A t \in Owned : ~Up(t)
    BY <1>1 DEF LifeInv, LifeCore, Ending
  <1>6. bot = "stopped" => ~broken
    BY DEF LifeInv, LifeCore, StoppedIsOver
  <1> QED
    BY <1>1, <1>3, <1>4, <1>5, <1>6

\* What a returning call sets, besides what ShutdownReturns does to the coordinator.
Settles(c, place) ==
    /\ Move(c, place)
    /\ bot' \in LifeStates /\ (bot' = "stopped" => bot = "stopped" \/ ~broken)
    /\ eng' = IF place = "lock" THEN "stopping" ELSE EngineAfter
    /\ preserve' \in BOOLEAN
    /\ preserve' => preserve \/ (c = "flatten" /\ flat.failed)
    /\ flight' \subseteq Symbols /\ held' \subseteq Symbols /\ UNCHANGED flat

LEMMA ReturnKeeps ==
    ASSUME LifeInv, NEW c \in Calls, NEW place \in {"lock", "ended", "alert"},
           ShutdownReturns(c), Settles(c, place), place = "lock" => c # "flatten"
    PROVE  LifeInv'
  <1>1. /\ at[c] \in {"drain", "sweep"} /\ lock = c /\ Over
        /\ EngineAfter \in {"stopped", "error"} /\ (EngineAfter = "stopped" => ~broken)
    BY ReturnsFromOver
  <1>2. /\ lock' = Nobody /\ owned' = {t \in owned : Up(t)}
        /\ UNCHANGED <<rt, broken, drain, task, asked, keepCalls, cycle>>
    BY DEF ShutdownReturns
  <1>3. at' = [at EXCEPT ![c] = place]
    BY DEF Settles, Move
  <1>4. LifeTypes'
    BY <1>1, <1>2, <1>3 DEF Settles, LifeInv, LifeTypes, LifeStates, CallPlaces
  <1>5. NothingIsOrphaned'
    BY <1>2 DEF LifeInv, LifeCore, NothingIsOrphaned, Up
  <1>6. \A d \in Calls : at'[d] = IF d = c THEN place ELSE at[d]
    BY <1>3 DEF LifeInv, LifeTypes
  <1>7. (Begun /\ Holding /\ Starting)'
    BY <1>1, <1>2, <1>6, LifeAssumption DEF Settles, LifeInv, LifeCore, Begun, Holding, Inside,
       Starting, Over, Calls
  <1>8. (Draining /\ Awaited /\ Ending)'
    BY <1>1, <1>2, <1>6 DEF LifeInv, LifeCore, Draining, Awaited, Ending, Over, Up
  <1>9. (Stopping /\ StoppedIsOver)'
    BY <1>1, <1>2, <1>6 DEF Settles, LifeInv, LifeCore, Stopping, StoppedIsOver, Over
  <1>10. CallsAreKept'
    BY <1>1, <1>2, <1>6 DEF Settles, LifeInv, LifeCore, CallsAreKept, Calls
  <1> QED
    BY <1>4, <1>5, <1>7, <1>8, <1>9, <1>10 DEF LifeInv, LifeCore

LEMMA EngineStops ==
    ASSUME LifeInv, NEW c \in Calls, ShutdownReturns(c)
    PROVE  Transition(EngineAfter, "stopping") = "stopping"
  <1>1. EngineAfter \in LifeStates
    BY ReturnsFromOver DEF LifeStates
  <1> QED
    BY <1>1, StoppingIsLegal

LEMMA SingleCycleCleansUpKeeps ==
    ASSUME LifeInv, SingleCycleCleansUp
    PROVE  LifeInv'
  <1>1. ShutdownReturns("run") /\ "run" \in Calls
    BY DEF SingleCycleCleansUp, Calls
  <1>2. eng' = "stopping" /\ Move("run", "lock")
    BY <1>1, EngineStops DEF SingleCycleCleansUp, BeginCleanup
  <1>3. bot' \in {bot, "stopping"} /\ bot' \in LifeStates
    BY TransitionTyped DEF SingleCycleCleansUp, BeginCleanup, LifeInv, LifeTypes, LifeStates
  <1>4. Settles("run", "lock")
    BY <1>2, <1>3 DEF SingleCycleCleansUp, Settles, LifeInv, LifeTypes
  <1> QED
    BY <1>1, <1>4, ReturnKeeps

LEMMA RunCleansUpKeeps ==
    ASSUME LifeInv, RunCleansUp
    PROVE  LifeInv'
  <1>1. ShutdownReturns("run") /\ "run" \in Calls
    BY DEF RunCleansUp, Calls
  <1>2. bot' \in LifeStates /\ (bot' = "stopped" => bot = "stopped" \/ ~broken)
    BY <1>1, ReturnsFromOver DEF RunCleansUp, LifeInv, LifeTypes
  <1>3. flight' \subseteq Symbols /\ held' \subseteq Symbols
    BY ShutCallsTyped DEF RunCleansUp, LifeInv
  <1>4. Settles("run", "ended")
    BY <1>2, <1>3 DEF RunCleansUp, Settles, LifeInv, LifeTypes
  <1> QED
    BY <1>1, <1>4, ReturnKeeps

LEMMA StopReturnsKeeps ==
    ASSUME LifeInv, StopReturns
    PROVE  LifeInv'
  <1>1. ShutdownReturns("stop") /\ "stop" \in Calls
    BY DEF StopReturns, Calls
  <1>2. bot' \in LifeStates /\ (bot' = "stopped" => bot = "stopped" \/ ~broken)
    BY <1>1, ReturnsFromOver DEF StopReturns, LifeInv, LifeTypes
  <1>3. flight' \subseteq Symbols /\ held' \subseteq Symbols
    BY ShutCallsTyped DEF StopReturns, LifeInv
  <1>4. Settles("stop", "ended")
    BY <1>2, <1>3 DEF StopReturns, Settles, LifeInv, LifeTypes
  <1> QED
    BY <1>1, <1>4, ReturnKeeps

LEMMA FlattenReturnsKeeps ==
    ASSUME LifeInv, FlattenReturns
    PROVE  LifeInv'
  <1>1. ShutdownReturns("flatten") /\ "flatten" \in Calls
    BY DEF FlattenReturns, Calls
  <1>2. bot' \in LifeStates /\ (bot' = "stopped" => bot = "stopped" \/ ~broken)
    BY <1>1, ReturnsFromOver DEF FlattenReturns, LifeInv, LifeTypes
  <1>3. flight' \subseteq Symbols /\ held' \subseteq Symbols
    BY ShutCallsTyped DEF FlattenReturns, LifeInv
  <1>4. Settles("flatten", "ended")
    BY <1>2, <1>3 DEF FlattenReturns, Settles, LifeInv, LifeTypes
  <1> QED
    BY <1>1, <1>4, ReturnKeeps

LEMMA FlattenFailsKeeps ==
    ASSUME LifeInv, FlattenFails
    PROVE  LifeInv'
  <1>1. ShutdownReturns("flatten") /\ "flatten" \in Calls
    BY DEF FlattenFails, Calls
  <1>2. Settles("flatten", "alert")
    BY DEF FlattenFails, Settles, LifeInv, LifeTypes
  <1> QED
    BY <1>1, <1>2, ReturnKeeps
LEMMA MoveTyped ==
    ASSUME LifeTypes, NEW c \in Calls, NEW place \in CallPlaces, Move(c, place)
    PROVE  /\ at' \in [Calls -> CallPlaces]
           /\ \A d \in Calls : at'[d] = IF d = c THEN place ELSE at[d]
  BY DEF LifeTypes, Move

\* A call that goes to the lock has set the engine to stopping.
LEMMA EngineIsStopping ==
    ASSUME LifeInv
    PROVE  /\ Transition(eng, "stopping") = "stopping"
           /\ Transition(bot, "stopping") = "stopping"
           /\ Transition(Transition(bot, "error"), "stopping") = "stopping"
           /\ Transition(bot, "error") \in {bot, "error"}
  BY StoppingIsLegal, TransitionTyped DEF LifeInv, LifeTypes, LifeStates

LEMMA GatherEndsKeeps ==
    ASSUME LifeInv, GatherEnds
    PROVE  LifeInv'
  <1>1. eng' = "stopping" /\ bot' \in {bot, "stopping", "error"}
    BY EngineIsStopping DEF GatherEnds, BeginCleanup
  <1>2. LifeTypes'
    BY <1>1 DEF GatherEnds, LifeInv, LifeTypes, LifeStates, CallPlaces, Calls, Owned, Workers,
       Ended, Move, flags, market, tasks, BeginCleanup
  <1>3. LifeCore'
    BY <1>1, LifeAssumption DEF GatherEnds, LifeInv, LifeTypes, LifeCore, Begun, Holding,
       Inside, Starting, Draining, Awaited, Ending, Stopping, StoppedIsOver, CallsAreKept,
       NothingIsOrphaned, Over, Up, Calls, Move, flags, tasks, BeginCleanup
  <1> QED
    BY <1>2, <1>3 DEF LifeInv

LEMMA SingleCycleEndsKeeps ==
    ASSUME LifeInv, SingleCycleEnds
    PROVE  LifeInv'
  <1>1. eng' = "stopping"
    BY EngineIsStopping DEF SingleCycleEnds
  <1>2. LifeTypes'
    BY <1>1 DEF SingleCycleEnds, LifeInv, LifeTypes, LifeStates, CallPlaces, Calls, Owned,
       Workers, Ended, Move, flags, market, tasks
  <1>3. LifeCore'
    BY <1>1, LifeAssumption DEF SingleCycleEnds, LifeInv, LifeTypes, LifeCore, Begun, Holding,
       Inside, Starting, Draining, Awaited, Ending, Stopping, StoppedIsOver, CallsAreKept,
       NothingIsOrphaned, Over, Up, Calls, Move, flags, tasks
  <1> QED
    BY <1>2, <1>3 DEF LifeInv

-----------------------------------------------------------------------------
(* stop(), flatten_and_stop() and cancellation.                            *)

LEMMA CallStopKeeps ==
    ASSUME LifeInv, CallStop
    PROVE  LifeInv'
  <1>1. eng' = "stopping" /\ bot' = "stopping"
    BY EngineIsStopping DEF CallStop
  <1>2. LifeTypes'
    BY <1>1 DEF CallStop, LifeInv, LifeTypes, LifeStates, CallPlaces, Calls, Owned, Workers,
       Ended, Move, market, tasks
  <1>3. LifeCore'
    BY <1>1, LifeAssumption DEF CallStop, LifeInv, LifeTypes, LifeCore, Begun, Holding, Inside,
       Starting, Draining, Awaited, Ending, Stopping, StoppedIsOver, CallsAreKept,
       NothingIsOrphaned, Over, Up, Calls, Move, tasks
  <1> QED
    BY <1>2, <1>3 DEF LifeInv

LEMMA CallFlattenKeeps ==
    ASSUME LifeInv, CallFlatten
    PROVE  LifeInv'
  <1>1. bot' = "stopping" /\ at["flatten"] = "idle" /\ at["run"] # "idle" /\ ~preserve'
        /\ preserve' \in BOOLEAN /\ bot' \in LifeStates
        /\ UNCHANGED <<eng, rt, broken, lock, drain, tasks, keepCalls, market, flat>>
    BY EngineIsStopping DEF CallFlatten, LifeStates
  <1>2. /\ at' \in [Calls -> CallPlaces]
        /\ \A d \in Calls : at'[d] = IF d = "flatten" THEN "list" ELSE at[d]
    BY MoveTyped DEF CallFlatten, LifeInv, Calls, CallPlaces
  <1>3. LifeTypes'
    BY <1>1, <1>2 DEF LifeInv, LifeTypes, tasks, market
  <1>4. (Begun /\ Starting /\ Draining /\ CallsAreKept)'
    BY <1>1, <1>2 DEF LifeInv, LifeCore, Begun, Starting, Draining, CallsAreKept, Over, Calls
  <1>5. (Holding /\ Awaited)'
    BY <1>1, <1>2 DEF LifeInv, LifeTypes, LifeCore, Holding, Inside, Awaited, Over
  <1>6. (Ending /\ Stopping /\ StoppedIsOver /\ NothingIsOrphaned)'
    BY <1>1, <1>2 DEF LifeInv, LifeCore, Ending, Stopping, StoppedIsOver, NothingIsOrphaned,
       Over, Up, tasks
  <1> QED
    BY <1>3, <1>4, <1>5, <1>6 DEF LifeInv, LifeCore

LEMMA ListPositionsKeeps ==
    ASSUME LifeInv, ListPositions
    PROVE  LifeInv'
  <1>1. at["flatten"] = "list" /\ UNCHANGED <<states, lock, drain, tasks, flags, market>>
        /\ flat' \in [todo : SUBSET Symbols, failed : BOOLEAN]
    BY DEF ListPositions, LifeInv, LifeTypes
  <1>2. /\ at' \in [Calls -> CallPlaces]
        /\ \A d \in Calls : at'[d] = IF d = "flatten" THEN "close" ELSE at[d]
    BY MoveTyped DEF ListPositions, LifeInv, Calls, CallPlaces
  <1>3. LifeTypes'
    BY <1>1, <1>2 DEF LifeInv, LifeTypes, states, tasks, flags, market
  <1>4. (Begun /\ Starting /\ Draining /\ CallsAreKept)'
    BY <1>1, <1>2 DEF LifeInv, LifeCore, Begun, Starting, Draining, CallsAreKept, Over, Calls,
       states, flags
  <1>5. (Holding /\ Awaited)'
    BY <1>1, <1>2 DEF LifeInv, LifeTypes, LifeCore, Holding, Inside, Awaited, Over, states
  <1>6. (Ending /\ Stopping /\ StoppedIsOver /\ NothingIsOrphaned)'
    BY <1>1, <1>2 DEF LifeInv, LifeCore, Ending, Stopping, StoppedIsOver, NothingIsOrphaned,
       Over, Up, states, tasks
  <1> QED
    BY <1>3, <1>4, <1>5, <1>6 DEF LifeInv, LifeCore

LEMMA ClosePositionKeeps ==
    ASSUME LifeInv, NEW s \in Symbols, ClosePosition(s)
    PROVE  LifeInv'
  <1>1. /\ held' \subseteq Symbols
        /\ flat' \in [todo : SUBSET Symbols, failed : BOOLEAN]
    BY DEF ClosePosition, LifeInv, LifeTypes
  <1>2. at["flatten"] = "close" /\ UNCHANGED <<states, lock, drain, at, tasks, flags, flight>>
    BY DEF ClosePosition
  <1>3. LifeTypes'
    BY <1>1, <1>2 DEF LifeInv, LifeTypes, states, tasks, flags
  <1>4. LifeCore'
    BY <1>2 DEF LifeInv, LifeCore, Begun, Holding, Starting, Draining, Awaited, Ending,
       Stopping, StoppedIsOver, CallsAreKept, NothingIsOrphaned, Over, Up, states, tasks, flags
  <1> QED
    BY <1>3, <1>4 DEF LifeInv

LEMMA FlattenShutsDownKeeps ==
    ASSUME LifeInv, FlattenShutsDown
    PROVE  LifeInv'
  <1>1. eng' = "stopping"
    BY EngineIsStopping DEF FlattenShutsDown
  <1>2. LifeTypes'
    BY <1>1 DEF FlattenShutsDown, LifeInv, LifeTypes, LifeStates, CallPlaces, Calls, Owned,
       Workers, Ended, Move, market, tasks
  <1>3. LifeCore'
    BY <1>1, LifeAssumption DEF FlattenShutsDown, LifeInv, LifeTypes, LifeCore, Begun, Holding,
       Inside, Starting, Draining, Awaited, Ending, Stopping, StoppedIsOver, CallsAreKept,
       NothingIsOrphaned, Over, Up, Calls, Move, tasks
  <1> QED
    BY <1>2, <1>3 DEF LifeInv

LEMMA ReportFlattenFailureKeeps ==
    ASSUME LifeInv, ReportFlattenFailure
    PROVE  LifeInv'
  <1>1. bot' \in {bot, "error"}
    BY EngineIsStopping DEF ReportFlattenFailure
  <1>2. LifeTypes'
    BY <1>1 DEF ReportFlattenFailure, LifeInv, LifeTypes, LifeStates, CallPlaces, Calls, Owned,
       Workers, Ended, Move, flags, market, tasks
  <1>3. LifeCore'
    BY <1>1, LifeAssumption DEF ReportFlattenFailure, LifeInv, LifeTypes, LifeCore, Begun,
       Holding, Inside, Starting, Draining, Awaited, Ending, Stopping, StoppedIsOver,
       CallsAreKept, NothingIsOrphaned, Over, Up, Calls, Move, flags, tasks
  <1> QED
    BY <1>2, <1>3 DEF LifeInv

\* A cancelled call lets go of the lock; run() begins its cleanup instead, once.
LEMMA CancelCallKeeps ==
    ASSUME LifeInv, NEW c \in Calls, CancelCall(c)
    PROVE  LifeInv'
  <1>1. at[c] \notin {"idle", "feed", "gone"} /\ asked' \subseteq Owned
        /\ UNCHANGED <<rt, broken, drain, task, owned, flags, market, flat>>
    BY DEF CancelCall, Gone, LifeInv, LifeTypes, Workers, Owned
  <1>2. lock' = IF lock = c THEN Nobody ELSE lock
    BY DEF CancelCall, LifeInv, LifeCore, LifeTypes, Holding, Inside
  <1>3. PICK place \in {"lock", "gone"} :
          /\ Move(c, place)
          /\ place = "lock" => c = "run" /\ eng' = "stopping"
          /\ eng' \in {eng, "stopping"} /\ bot' \in {bot, "stopping"}
    <2>1. CASE BeginCleanup(bot, eng) /\ c = "run"
      BY <2>1, EngineIsStopping DEF BeginCleanup
    <2>2. CASE Move(c, "gone") /\ UNCHANGED <<bot, eng>>
      BY <2>2
    <2> QED
      BY <2>1, <2>2 DEF CancelCall
  <1>4. /\ at' \in [Calls -> CallPlaces]
        /\ \A d \in Calls : at'[d] = IF d = c THEN place ELSE at[d]
    BY <1>3, MoveTyped DEF LifeInv, CallPlaces
  <1>5. LifeTypes'
    BY <1>1, <1>2, <1>3, <1>4 DEF LifeInv, LifeTypes, LifeStates, flags, market
  <1>6. (Begun /\ Starting /\ Draining)'
    BY <1>1, <1>3, <1>4 DEF LifeInv, LifeCore, Begun, Starting, Draining, Over, Calls
  <1>7. CallsAreKept'
    BY <1>1, <1>3, <1>4 DEF LifeInv, LifeCore, CallsAreKept, Calls, flags
  <1>8. (Holding /\ Awaited)'
    BY <1>1, <1>2, <1>3, <1>4 DEF LifeInv, LifeTypes, LifeCore, Holding, Inside, Awaited, Over
  <1>9. (Ending /\ NothingIsOrphaned)'
    BY <1>1 DEF LifeInv, LifeCore, Ending, NothingIsOrphaned, Over, Up
  <1>10. (Stopping /\ StoppedIsOver)'
    BY <1>1, <1>3, <1>4 DEF LifeInv, LifeCore, Stopping, StoppedIsOver, Over
  <1> QED
    BY <1>5, <1>6, <1>7, <1>8, <1>9, <1>10 DEF LifeInv, LifeCore
-----------------------------------------------------------------------------
(* The tasks and threads, which change no call and no state of the bot.    *)

LEMMA BackgroundKeepsCore ==
    ASSUME LifeInv, UNCHANGED <<states, lock, drain, at, closing, owned, flags, flat>>,
           \A t \in Owned : Up(t)' => Up(t)
    PROVE  LifeCore'
  <1>1. UNCHANGED <<bot, eng, rt, broken, lock, drain, at, owned, preserve, keepCalls, flat>>
    BY DEF states, flags
  <1>2. (Begun /\ Ending /\ NothingIsOrphaned)'
    BY <1>1 DEF LifeInv, LifeCore, Begun, Ending, NothingIsOrphaned, Over
  <1>3. (Holding /\ Starting /\ Draining /\ Awaited /\ Stopping /\ StoppedIsOver /\ CallsAreKept)'
    BY <1>1 DEF LifeInv, LifeCore, Holding, Starting, Draining, Awaited, Stopping,
       StoppedIsOver, CallsAreKept, Over
  <1> QED
    BY <1>2, <1>3 DEF LifeCore

LEMMA BackgroundKeeps ==
    ASSUME LifeInv, Background
    PROVE  LifeInv'
  <1>1. UNCHANGED <<states, lock, drain, at, closing, owned, flags, flat>>
    BY DEF Background, LoopTurns, CycleEnds, FeedEnds, PlaceOrder, OrderLands, TaskIsCancelled,
       tasks, market
  <1>2. /\ task' \in [Owned -> Ended \union {"off", "up"}] /\ asked' \subseteq Owned
        /\ flight' \subseteq Symbols /\ held' \subseteq Symbols
        /\ \A t \in Owned : Up(t)' => Up(t)
    <2>1. CASE LoopTurns
      BY <2>1 DEF LoopTurns, LifeInv, LifeTypes, Ended, Up, Working
    <2>2. CASE CycleEnds
      BY <2>2 DEF CycleEnds, LifeInv, LifeTypes, Up, tasks
    <2>3. CASE FeedEnds
      BY <2>3 DEF FeedEnds, LifeInv, LifeTypes, Ended, Up, market
    <2>4. ASSUME NEW s \in Symbols, PlaceOrder(s) \/ OrderLands(s)
          PROVE  /\ task' \in [Owned -> Ended \union {"off", "up"}] /\ asked' \subseteq Owned
                 /\ flight' \subseteq Symbols /\ held' \subseteq Symbols
                 /\ \A t \in Owned : Up(t)' => Up(t)
      BY <2>4 DEF PlaceOrder, OrderLands, Landings, LifeInv, LifeTypes, Up, tasks
    <2>5. ASSUME NEW t \in Owned, TaskIsCancelled(t)
          PROVE  /\ task' \in [Owned -> Ended \union {"off", "up"}] /\ asked' \subseteq Owned
                 /\ flight' \subseteq Symbols /\ held' \subseteq Symbols
                 /\ \A u \in Owned : Up(u)' => Up(u)
      BY <2>5 DEF TaskIsCancelled, LifeInv, LifeTypes, Ended, Up
    <2> QED
      BY <2>1, <2>2, <2>3, <2>4, <2>5 DEF Background
  <1>3. LifeTypes'
    BY <1>1, <1>2 DEF LifeInv, LifeTypes, states, flags
  <1> QED
    BY <1>1, <1>2, <1>3, BackgroundKeepsCore DEF LifeInv

-----------------------------------------------------------------------------
(* The theorems.                                                           *)

LEMMA LifeInvStep == LifeInv /\ [Next]_vars => LifeInv'
  <1> SUFFICES ASSUME LifeInv, [Next]_vars PROVE LifeInv'
    OBVIOUS
  <1>1. CASE Start
    BY <1>1, CallRunKeeps, StartFeedKeeps, StartupFailsKeeps, StartupIsUndoneKeeps DEF Start
  <1>2. CASE Drain
    BY <1>2, DrainBeginsKeeps, HooksRunKeeps, HookFailsKeeps, CancelTasksKeeps, DrainEndsKeeps,
       DrainTimesOutKeeps DEF Drain
  <1>3. CASE Run
    BY <1>3, GatherEndsKeeps, SingleCycleEndsKeeps, SingleCycleCleansUpKeeps, RunCleansUpKeeps
       DEF Run
  <1>4. CASE Stop
    BY <1>4, CallStopKeeps, StopReturnsKeeps DEF Stop
  <1>5. CASE Flatten
    BY <1>5, CallFlattenKeeps, ListPositionsKeeps, ClosePositionKeeps, FlattenShutsDownKeeps,
       FlattenReturnsKeeps, FlattenFailsKeeps, ReportFlattenFailureKeeps DEF Flatten
  <1>6. CASE Background
    BY <1>6, BackgroundKeeps
  <1>7. ASSUME NEW c \in Calls, EnterShutdown(c) \/ SweepTimesOut(c) \/ CancelCall(c)
        PROVE  LifeInv'
    BY <1>7, EnterShutdownKeeps, SweepTimesOutKeeps, CancelCallKeeps
  <1>8. CASE UNCHANGED vars
    <2>1. LifeTypes'
      BY <1>8 DEF LifeInv, LifeTypes, vars, states, tasks, flags, market
    <2>2. LifeCore'
      BY <1>8, BackgroundKeepsCore DEF vars, tasks, Up
    <2> QED
      BY <2>1, <2>2 DEF LifeInv
  <1> QED
    BY <1>1, <1>2, <1>3, <1>4, <1>5, <1>6, <1>7, <1>8 DEF Next

LEMMA LifeInvAlways == Spec => []LifeInv
  BY InitLife, LifeInvStep, PTL DEF Spec

\* Everything keeps its kind, and only a call that waits for the coordinator, or run()
\* that starts, holds the lifecycle lock.
THEOREM LifeTypesHold == Spec => []LifeTypeOK
  <1>1. LifeInv => LifeTypeOK
    BY DEF LifeInv, LifeTypes, LifeCore, Holding, Inside, LifeTypeOK, LEGAL_TRANSITIONS,
       LifeStates
  <1> QED
    BY LifeInvAlways, <1>1, PTL

\* A bot that reports a clean stop has stopped (_finalize_stop_state), whichever of
\* run(), stop() and flatten_and_stop() overlapped, were cancelled or timed out.
THEOREM StopIsClean == Spec => []CleanStopIsClean
  <1>1. LifeInv => CleanStopIsClean
    BY DEF LifeInv, LifeCore, StoppedIsOver, Ending, CleanStopIsClean
  <1> QED
    BY LifeInvAlways, <1>1, PTL

\* The coordinator never lets go of a running task (_named_tasks), over any timeout,
\* cancelled caller or failed start.
THEOREM TasksStayOwned == Spec => []NothingIsOrphaned
  <1>1. LifeInv => NothingIsOrphaned
    BY DEF LifeInv, LifeCore
  <1> QED
    BY LifeInvAlways, <1>1, PTL

\* The broker calls are closed, and the bot told that it has stopped, by nobody but the
\* calls that may: what a step that does either looks like.
LEMMA OnlyReturnsSettle ==
    ASSUME LifeInv, [Next]_vars, preserve, preserve', at["stop"] \in Gone \union {"idle"}
    PROVE  (bot' = "stopped" => bot = "stopped") /\ pool' = pool
  <1>1. keepCalls /\ bot \in LifeStates
    BY DEF LifeInv, LifeTypes, LifeCore, CallsAreKept
  <1>2. \A t \in LifeStates : Transition(bot, t) \in {bot, t}
    BY <1>1, TransitionTyped
  <1>3. \A t \in LifeStates : Transition(Transition(bot, "error"), t) \in {bot, "error", t}
    BY <1>1, TransitionTyped DEF LifeStates
  <1>4. CASE Start
    BY <1>2, <1>4 DEF Start, CallRun, StartFeed, StartupFails, StartupIsUndone, states, flags,
       LifeStates
  <1>5. CASE Drain
    BY <1>1, <1>5 DEF Drain, DrainBegins, HooksRun, HookFails, CancelTasks, DrainEnds,
       DrainTimesOut, ShutCalls, states, flags
  <1>6. CASE Run
    BY <1>2, <1>3, <1>6 DEF Run, GatherEnds, SingleCycleEnds, SingleCycleCleansUp, RunCleansUp,
       BeginCleanup, ShutCalls, flags, LifeStates
  <1>7. CASE Stop
    BY <1>7 DEF Stop, CallStop, StopReturns, ShutdownReturns, ShutdownIsOver, Gone
  <1>8. CASE Flatten
    BY <1>2, <1>8 DEF Flatten, CallFlatten, ListPositions, ClosePosition, FlattenShutsDown,
       FlattenReturns, FlattenFails, ReportFlattenFailure, states, flags, LifeStates
  <1>9. CASE Background
    BY <1>9 DEF Background, LoopTurns, CycleEnds, FeedEnds, PlaceOrder, OrderLands,
       TaskIsCancelled, states, flags
  <1>10. ASSUME NEW c \in Calls, EnterShutdown(c) \/ SweepTimesOut(c) \/ CancelCall(c)
         PROVE  (bot' = "stopped" => bot = "stopped") /\ pool' = pool
    BY <1>2, <1>10 DEF EnterShutdown, SweepTimesOut, CancelCall, BeginCleanup, states, flags,
       LifeStates
  <1>11. CASE UNCHANGED vars
    BY <1>11 DEF vars, states, flags
  <1> QED
    BY <1>4, <1>5, <1>6, <1>7, <1>8, <1>9, <1>10, <1>11 DEF Next

\* A flatten that failed stays one (_handle_flatten_failure): nobody but a stop() turns
\* it into a clean stop or closes the broker calls that it needs.
THEOREM FailureIsKept == Spec => FlattenFailureIsKept
  <1>1. LifeInv /\ [Next]_vars =>
          [preserve /\ preserve' /\ at["stop"] \in Gone \union {"idle"} =>
              (bot' = "stopped" => bot = "stopped") /\ pool' = pool]_vars
    BY OnlyReturnsSettle
  <1> QED
    BY LifeInvAlways, <1>1, PTL DEF Spec, FlattenFailureIsKept
=============================================================================
