# Verification of GPT-Trader

TLA+ models of the parts of GPT-Trader that can lose money by a wrong step: how an
order is admitted, sent, recorded and reconciled; how trading is halted and the bot
stopped; how trade ideas are approved and executed; what positions are computed from;
and how paid experiments spend. Every definition is translated from
`src/gpt_trader` (in this tree `src/src/gpt_trader`); `PROJECT.json` maps each one to
its lines. TLC checks small instances; TLAPS proves the central properties for every
value of the constants.

## 1. The system

GPT-Trader (about 105,000 lines of Python) observes a market, proposes trades,
admits them against a risk budget and executes them, on paper or (gated) on
Coinbase.

| Part | State it keeps | Operations | Hard behaviour |
|---|---|---|---|
| Order table (`persistence/orders_store.py`, `core/order_intent.py`) | SQLite table `orders`, one row per client order id, `order_id` unique | `reserve_submission`, `upsert_by_client_id`, `update_status`, `cleanup_old_orders` | writers in any order, duplicates, conflicting receipts, `INSERT OR REPLACE` |
| Durable submission (`live_trade/execution/order_submission.py`, `broker_executor.py`) | the row, the engine's `open_orders`, the call in flight | `submit_order_with_result` | threads, timeouts with late arrival, retry, crash between reservation and receipt |
| Audit and reconciliation (`engines/order_audit.py`, `order_reconciliation.py`) | what it read before its awaits, drift counter | one audit per trading cycle | stale reads, lost events, false drift |
| User events and backfill (`coinbase/user_event_handler.py`) | dedupe ring, watermark, backfill slot | order update, fill, REST order | lost, repeated, reordered messages |
| Fill accounting (`persistence/orders_accounting.py`, `core/fill_accounting.py`) | tables of fill facts, observations and baselines | `record_fill`, `record_baseline`, `projections` | facts out of order, twice, beside snapshots of the same order |
| Guards and halts (`degradation.py`, `risk/manager`, `engines/order_guards.py`, `guard_manager.py`, `ws_health_monitor.py`, `equity_calculator.py`) | pauses, failure counters, reduce-only mode, daily loss, JSON state file | pause, trip, escalate, guard an order, cancel all | halts racing an order in the stack, restart in the trading day, torn file |
| Engine lifecycle (`bot.py`, `engines/strategy.py`, `engines/runtime/coordinator.py`, `bounded_to_thread.py`) | three state machines, a lock, a drain task, background tasks, a thread pool | `run`, `stop`, `flatten_and_stop` | calls that overlap at every await, are cancelled, time out; tasks that do not end |
| Trade ideas (`features/trade_ideas`) | audit log, records, closeouts, budget log, autonomy log | propose, revise, approve, admit, execute, expire, attribute | admission races, losses that become known late, refusals that must leave a trace |
| Idea execution (`features/idea_execution`, `trade_ideas/execution_journal.py`, `position_operations.py`) | journal of intents and receipts, positions, reservations | execute, recover, exit, attribute, reconcile | a crash at any step, several executors, operators in between |
| Recorded experiments (`features/experiment`) | a run's journal, the shared spend ledger | run, resume, ask a model, settle a bill | interrupted runs, calls nobody waits for, two processes on one run |
| Event store, WebSocket and REST clients, recorder, backtesting, strategies, monitoring, security, CLI and web | various | | listed in `PROJECT.json` "components" with the reason each is not modelled |

How they interact: the trading loop (one asyncio task) runs the guard stack for a
decision and hands the order to a thread pool, where `OrderSubmitter` looks the client
id up, reserves it, calls the broker and records the receipt. The venue's events, the
REST backfill and the audit write the same table from the event loop, and fill facts
and baselines beside it. Failures of feeds, broker reads, validations, runtime guards
or reconciliation set pauses and reduce-only mode, which the guard stack reads before
the next order. On restart the table is what is left of the orders, the state file what
is left of the halts. Ideas live in a database of their own: people, the sweep and the
event lane approve them against budget and autonomy, the paper cycle and other
executors carry them out, and what is realized feeds back into the budget's daily loss.
Experiments share nothing with trading but the exit rules; they pay from one ledger.

## 2. The modules

| Module | Models | State | One action is |
|---|---|---|---|
| `OrdersStore` | the order table | `orders` | one SQLite transaction |
| `OrderSubmission` (extends it) | `OrderSubmitter`, `BrokerExecutor`, the REST adapter's duplicate lookup; venue, late requests, all other writers (`ObserveVenue`), crashes | `venue`, `late` (external), `call`, `openOrders`, `claims` (history) | a transaction, half of a broker call, or a read that a later step uses |
| `SubmissionContract` | what submission promises: admit once, place only what was admitted, at most once | `admitted`, `placed` | abstract |
| `OrderReconciliation` (extends `OrderSubmission`) | audit, user events, backfill, cancel-all; here they replace `ObserveVenue` | `audit`, `drift`, `escalated`, `sweep` | an await of the audit |
| `FillAccounting` (extends `OrdersStore`) | fill facts, observations, baselines, their projection, and the two writers | `tape`, `ended`, `now` (venue), `facts`, `observations`, `baseline`, `paid`, `sending`, `ws`, `backfill` | one transaction |
| `TradingHalts` | `DegradationState`, `LiveRiskManager`'s daily state and file, the counters, the guard stack | `deg`, `checks`, `previewOn`, `risk`, `saved`, `writing`, `halting`, `order`; history: `opens`, `reduces`, `tripped`, `faults` | a stretch without an await |
| `BotLifecycle` | `TradingBot`, the state of `TradingEngine`, the runtime coordinator | `bot`, `eng`, `rt`, `broken`, `lock`, `drain`, `at`, `task`, `owned`, `pool`, `cycle`, `flight`, `held`, ... | a stretch between two awaits |
| `TradeIdeas` | idea lifecycle, risk kernel, policy, budget and autonomy logs, event lane | `state`, `stored`, `audited`, `approver`, `closeout`, `budget`, `level`, `logOk`, `lane`, the day | a service method (one write transaction); the lane takes several |
| `IdeaExecution` | executor, paper cycle, exit monitor, journal, positions, operators | `state`, `fill`, `closeout`, `journal`, `simulated`, `exec`, `turn` | a transaction, or a broker call |
| `PositionLedger` | what the paper ledger promises of a position | `opened`, `booked`, `settled` | abstract |
| `ExperimentRun` | trade manager's and rulebook author's runs, transport, spend ledger, provider | `journal`, `account`, `proc`, `calls`, `bill`, `wire` | a transaction of the ledger or of a journal, or half of a model call |
| `*_proofs` | theorems about the modules they extend | | |
| `MC*` | the constants of the TLC instances | | |

Data are abstracted to what the properties tell apart. A payload stands for symbol,
side, type and quantity (its quantity is kept, since fills are compared with it);
statuses are the code's own; timestamps, checksums, metrics and logs are left out.
Time is a counter, trading days another one. Variables marked "history" record what
happened and are read by properties only.

**Orders.** `call[w].pc` is the place in `submit_order_with_result`: `lookup`
(`_get_existing_record`), `existing` (`_handle_existing_submission`), `reserve`
(`_record_pending_submission`), `send` and `reply` (`_execute_broker_order`, the two
halves of the request), `record`, `refuse`, `noid` (the three ways a result is
recorded), `fail` (`_record_failed_submission`). `late` holds requests whose sender
timed out or died; they may still reach the venue. In `OrderReconciliation`,
`audit.pc` is the await the audit is at; `listing`, `tracked` and `pending` are what
it read before. A row is refreshed from `get_order`, normalised to the venue's id, or
recovered from the listing, with the receipt rules of the table deciding every write;
the write may be refused or fail.

**Fill accounting.** `Plan` says which executions the venue has in store for each
order. An event reports the first n of them as one cumulative snapshot, late, in any
order and any number of times; only the backfill reports them one by one. One symbol,
integer prices, no fees; where the code's decimals would average two prices to a
fraction, `\div` rounds, so exactness is stated of replays in which no average is rounded
(`Exact`), as none is in the run. The venue and the operator who
declares a baseline tell the truth. The in-memory dedupe ring is subsumed: every event
may come again at any time.

**Halts.** The guard stack up to the preview runs without suspending and is one action
(`PassGuards`); the preview and the hand-over are awaits. Equity is counted in units of
the daily loss limit. `SaveFaults` says what may go wrong with the state file: a torn
write (`open(..., "w")`, then the process dies), a stale write (two threads save
without a lock), a write that fails; `MaxFaults` bounds how often.

**Lifecycle.** `at[c]` is where `run()`, `stop()` or `flatten_and_stop()` is, `drain`
the coordinator's drain task, which is shielded from its callers' cancellation. `Loop`
stands for the trading loop and the guard sweep, `Feed` for the tasks with a stop hook,
`Hook` for a stop hook that outlives its timeout. `run()` is called once, before
anybody stops the bot, as the run command does; `single_cycle` matters only where
`run()` then shuts down itself. A call that finds the lock free may pause before it
takes it. A missing broker is a listing that fails; a market close counts as filled
when it is placed; alerts and the emergency-close row are left out.

**Ideas.** One service method is one transaction and one step; the event lane reads the
budget, the context and the autonomy level and records the outcome in transactions of
their own. The record of an idea is the number of its revision; the checks of its own
numbers are one flag (`eligible`), equity is constant so that the notional cap is a
number, drawdown is the sum of the known losses. The budget log is seeded at start,
its and the autonomy log's version numbers are left out. Time does not pass inside a
transaction; sessions, marks and candles are inputs. Approver, due and late are
forgotten once nothing reads them. In `IdeaExecution` an idea is `open` until it is
approved; admission, the broker call, its receipt and its reconciliation are four
steps with a possible crash between any two.

**Experiments.** A bar settles what the last one decided, asks a model when a turn is
due, and commits with the turn. `proc[p]` is a process that creates or resumes a run;
between BEGIN IMMEDIATE and COMMIT it holds the run's write lock. What a bar does to
the account is a choice among what `advance` allows (`MayHappen`), and what is decided
among what `parse_reply` and `evaluate` accept (`Decisions`). One account stands for
the symbols of an author's portfolio, which share only the turn. A reply may bill more
than was reserved; a 4xx answer or an overload bills nothing; a timeout, a lost
connection or a server error leaves the call in `wire`, where the provider may still
process it.

## 3. The runs

| Run | Question | Bounds | Result |
|---|---|---|---|
| `store` | Does the table keep its rules under any receipts in any order, also ones without the client id? | 2 ids, payloads of quantity 1 and 2 | holds, 13,422 states |
| `submission` | Two threads, one client id, two payloads: timeouts, late arrivals, store failures, other writers, crashes. Is an order sent once, recorded truly, and the contract refined? | 2 callers (symmetric), 2 attempts | holds, 403,506 states |
| `reconciliation` | Do audit, events, backfill and cancel-all write only truths from stale reads, with a failing store? | 1 order of quantity 2 | holds, 449,975 states |
| `reconciliation_liveness` | When is drift escalated, is an overlooked live order always noticed, and do audits alone settle ended orders and clear ghost ids? | 1 order of quantity 1, 2 attempts, drift threshold 2 | holds, 262,815 states |
| `halts` | Pauses, daily loss and reduce-only mode over the clock, restarts, a change of day, a fault of the state file and orders in the guard stack | 1 symbol, 2 pause lengths, 1 order, thresholds 1 and 2, at most 1 fault, 1 halt source | holds, 655,940 states |
| `ideas` | Who approves and executes within which budget and autonomy, with losses becoming known in between? | 2 ideas, 1 lane, a wide and a tight budget, 2 days | holds, 439,101 states |
| `execution` | One order per idea, journal and audit trail in agreement, positions never over-reduced, over crashes, two executors and operators; the ledger refines `PositionLedger` | 1 position of quantity 2, 2 reductions, 1 crash | holds, 136,559 states |
| `execution_liveness` | Do receipts reach the ledger, expired ideas get closed out, approved ideas get handled? | 2 opening ideas, no operator, 1 crash | holds, 7,050 states |
| `fill_accounting` | Is nothing counted twice, does a complete projection have every fill and is it the venue's own, do baselines hold, is no fill locked out? | an own order that fills in two, a foreign one; opening position 1 | holds, 605,329 states |
| `experiment` | Does spend stay under the cap, is a committed bar never asked again, do ledger and journals agree, are accounts sound? | a manager's run of 3 bars, an author's of 2, 2 processes (symmetric), 3 calls, cap 3 | holds, 2,558,901 states |
| `lifecycle` | Is a clean stop clean, is no task lost, is a failed flatten kept, does every stop come to its end? | 1 loop, 1 feed, 1 symbol, 1 cancelled call | holds, 623,855 states |
| `lifecycle_signal` | Does a bot that was signalled stop? | the same, no cancellation | **violated** (finding, section 5) |

Why the bounds are enough. In the table every interaction is between two rows. In the
submission protocol client ids do not interact (venue ids are distinct and messages
name the client id), so one id with two callers shows every race; two payloads give a
conflict, quantity 2 a partial fill; more attempts than two are not in the code, and
the theorems cover any number of all of these. The audit handles orders one by one, so
one order beside one submission shows each stale read; the drift threshold 2 makes the
count and its reset happen. Two pause lengths and one symbol under its own and the
global scope give every nesting of two pauses; the proof covers the rest; one halt
source stands for both, which set the same state. `MaxTime` and `MaxDay` end clock and
calendar; `MaxFilled` bounds reported fills, `CheckCap` the validation counters, which
are compared with two thresholds and nothing else. Two ideas against a budget with room
for one or two show every admission race between them. Two reductions of one position
of two can over-reduce it in every way (one takes half, the other whatever is left).
Two orders of opposite sides, one of which can turn the position short at two prices,
make the profit depend on the order of execution. In `experiment` three bars are an
entry, its fill with an exit, and the exit's fill; three calls under a cap of 3 with
worst cases 1 and 2 reach the cap with a call in flight. Where a run's bounds hide
more, the theorems (section 4) have none.

Fairness. It is stated in four specifications only.

* `LiveReconSpec`: weak fairness of the audit's steps (the trading loop runs an audit in
  every cycle, and the REST client's requests time out), and strong fairness of an
  answer to `get_order` (a venue asked again and again does not fail for ever). Nothing
  is assumed of events, of the submitting threads or of the venue's progress. The
  properties also ask that restarts end (`RestartsEnd`): a process that always dies
  before its audit settles nothing.
* `FairExecSpec`: turns are scheduled again and again (the cycle runs on a schedule), an
  executor that lives makes progress, and strong fairness that a mark and an open
  session meet an approved idea in some turn. Crashes are bounded by `MaxCrashes`.
* `FairSpec` and `SignalSpec` of `BotLifecycle`: the event loop serves every call that
  can go on, waits have timeouts, REST calls end, and a cancelled task ends. Nobody has
  to call, cancel or fail. Signals happen in `SignalSpec` only.

`CHECK_DEADLOCK` is off in `ideas`, `lifecycle`, `lifecycle_signal` and `experiment`,
where everything may really have come to its end (all ideas terminal on the last day,
the bot stopped, the cap spent); it is on everywhere else.

Type invariants. Each component's module states one, and it is proved
(section 4), so no listed run has it among its INVARIANTS.

## 4. What is proved

All proofs are checked by TLAPS to the last leaf, from the constants' own assumptions
and what is named here. Every safety invariant, every action property and both
refinements of the passing runs are theorems; the liveness properties are not.

* **Table** (first part of `OrderReconciliation_proofs`). `StoreInv` = types, unique order
  ids, admitted receipts; the three are proved together, since that an update keeps the
  ids unique needs the types and the old uniqueness. From it: `OrderIdsStayUnique`,
  the action properties `ReceiptsGrow` and `PendingRowsSurvive`, and
  `ReceiptsStayAdmitted`, which no run checks: `ReceiptsAreTrue` says more.
* **Submission** (second part of the same module), for messages that name the client id
  (`EchoesClientId`). `AtMostOneSubmission` and `IntentBeforeOrder` are not inductive.
  `CoreInv` adds `Filed` (rows exist only under client ids, carry an intent and an
  order id that is theirs: their own client id or its venue id), `Counted` (a client id
  has been claimed once exactly when it has a row) and `BackedBy` (every working call,
  every request in the network and every order at the venue has a row with its
  payload). The argument: a row once reserved is never removed and never changes its
  payload, because every writer uses an order id of its own client id; so the
  reservation can succeed once only. `TruthInv` adds that what a row or an answer says
  is borne out by the venue (`Borne`): an acknowledged status means an order there, a
  fill is no larger than the venue's, and a status of `Executed` is the venue's own,
  with its quantity. That lasts because the venue only advances, so an answer that was
  true when it was given still is when it is recorded. Results: `SubmissionTypes`,
  `NeverResent`, `OrdersAreBacked`, `RowsTellTheTruth`, `SuccessStaysReal`, and the
  refinement `SubmissionImplementsContract` (rows are admissions, venue orders
  placements), for any number of callers, ids, payloads and attempts.
* **Reconciliation** (its third part). `ReconInv` is `TruthInv` and
  what a stale read is worth: an order that the audit has listed or was answered is the
  venue's now or has been (`Was`), a row it has read is still there, for the same payload
  and with no fewer fills (`Reread`); `TasksFit` says that the audit never works on an
  order it has not read. Each action is shown to do to the orders what one of four kinds
  of step may do (`OrdersStep`: a step of a submission, one that only tracks, a write
  that the venue bears out, a cancellation), and each of these to keep the reads.
  Results: `ReconciliationTypes`; `PromisesHoldAmongWriters`, that among all these
  writers submissions keep the four promises above; `OtherWritersObserve`, that the
  writers do nothing that `OrderSubmission` does not allow them; and, for a store that
  does not fail, `EscalationStaysJustified`. A failing store makes its conclusion false:
  the audit then escalates for an order that it could not write.
* **Fill accounting** (`FillAccounting_proofs`), for any orders, plans of execution,
  clocks and limits. A venue order has its row under its own client id and nowhere else
  (`Placed`), so no receipt replaces another's row. `RowFits` says what a row may report
  (`Says`): no more than was executed; what a settled row reports is a first part of
  the executions, of which there is one value, since more executions fill more
  (`FilledGrows`); a cancelled one reports all of them; and a row without its venue id
  has no fills. A snapshot says so because the venue only goes on (`SaysLasts`), facts
  because they add up to no more than was executed, and to all that was asked for only
  when they are all the executions there are (`FactsAddUp`). So a settled row takes no
  other receipt and no other value, and what a baseline has bound stays (`BoundInv`):
  an order it covers has ended by then, or its row is closed short (`CoveredIsOver`).
  Results: `AccountTypes`, `FillsAreCountedOnce`, `BaselinesHold`,
  `FactsCanBeCompleted` (`FactIsAdmissible`, `OrderIsReachable`), and
  `CompleteHasAllFills`: facts that add up to what a row reports are all the executions
  of its order (`FactsAddUp`), and a covered order has none after its baseline.
* **Exactness** (last part of the same module), `CompletionIsExact`: position, entry price
  and profit of a complete projection are those of the venue's own order of execution. The
  tape and the sorted facts are two arrangements of one set (`CompleteHasEveryFill`, and
  `TimesInv`: the tape is sorted by time). Both are cut after each time of execution
  (`CutExists`), and the positions at the cuts are shown equal, one time after the other,
  for arrangements of any length (`ArrangementsAgree`). For one time, `ClearGroup`: what
  is not ambiguous is all on one side, and only adds, only reduces, or turns the position
  over at one price. `After` gives the position such a group leads to from the sum of its
  sizes and the sum of its values, which do not depend on an order; `Walk` proves that
  replaying the group one by one gets there. `Exact` is needed in one place: the average
  after one more purchase is then the cost divided by the units (`Averaged`), which makes
  cost additive. The opening position is any integer, prices are any naturals
  (`OpeningAssumption`, `VenueAssumption`).
* **Halts** (`TradingHalts_proofs`). `PausesHold`: with `Covered`, that the pause record
  of the global or of the symbol's scope reaches to the latest requested end, under the
  default `mark_staleness_allow_reduce_only` (every pause then allows reducing orders).
  `DailyLossLasts` and `ModeOutlivesRestart`: until the first fault of the file; `LossInv`
  adds that the file of a tripped day holds the trip, and that of a process in
  reduce-only mode the mode, which is what the next process reads.
  `LateHaltsReachOrders`, with faults: `TripInv` says that neither the memory nor a file,
  also an old one, holds a trip without the mode. `HaltTypes`, with `TripInv` for the
  risk manager's state and the orders: no counter passes its threshold, and a damaged or
  outdated file is never taken for a state.
* **Ideas** (`TradeIdeas_proofs`). `MachineStaysInBounds` and
  `BreachAlwaysEndsAutonomy`, for any ideas, lanes, budgets, revisions and losses. The
  action properties need `LanesKnow`: a lane that has seen its idea approved works on an
  idea that never goes back behind its approval, so that whoever executes it is checked
  against the level and the losses of that moment. `IdeaTypesHold`, with `TypeInv`, which
  adds that a lane at work has an idea. `ApprovalsStayInTheEnvelope`: every approval, also
  the several of one sweep, was weighed with the others counted in (`Weighed`), and the
  losses and tickets the policy saw are those of the state it leaves.
* **Execution** (`IdeaExecution_proofs`). `ExecTypes`, `OneOrderEver` and `JournalAndAuditAgree`, for
  any ideas, quantities, executors and crashes. The intent is written in the
  transaction that admits an idea, so an executor about to call the broker is the only
  one with that idea (`Apart`) and nobody has called for it before (`Calls`); a receipt
  is replayed only from an entry that holds it (`Replayed`), and a fill from a receipt
  stays one (`AuditInv`). `PositionsStaySound` and the refinement
  `ExecutionKeepsTheLedger`: `PositionInv` adds that nothing is admitted with quantity
  zero and that a closeout, a simulated resolution and a fill mean an idea that has
  ended so. A receipt moves a quantity from reserved to booked, and a position that is
  closed has nothing reserved, so that no receipt can arrive for it any more.
* **Experiments** (`ExperimentRun_proofs`). `RunTypes`, `TurnsAreNotResent` and
  `AccountsStaySound`, for any runs, processes, bars, prices and crashes.
  `CommittedTurnsAreNotResent` is not inductive: `TurnInv` adds that a process between
  BEGIN and COMMIT is alone in its run (`Exclusive`), stands at the bar the journal does
  not have yet and has the run's last call (`Fits`), and that no call is ahead of its
  run's journal (`CallsAreBehind`). `SpendIsCapped`: a call is counted at its reservation
  until it is settled, and what it is settled at covers its bill (`BillsAreCounted`),
  since a call that the provider may still process is never settled for less
  (`WireIsOpen`, `CallIsOpen`). `ReadingsAreClean`: an author's scheduled bars are
  journaled with their call (`TurnsAreJournaled`), and calls go forward.
* **Lifecycle** (`BotLifecycle_proofs`). `LifeTypesHold`, `StopIsClean`, `TasksStayOwned`
  and `FailureIsKept`, for any symbols, executors and cancelled calls, with the hooks and
  tasks of the model. `LifeInv`: the lock's holder is the call inside it (`Holding`); the
  coordinator goes one way, and what its last drain left is decided when it ends
  (`Draining`, `Ending`); a call waiting for it has set the engine to stopping
  (`Stopping`), so that a shutdown that failed shows as an error and `stopped` means a
  coordinator that is over and unbroken (`StoppedIsOver`).
* **Sums** (`FiniteSums`). The sum of naturals over a finite set, as the community
  modules define it by recursion over an order that CHOOSE picks, exists and does not
  depend on the order (`SumSplit`), is natural, monotone and a function of the summands.
  The library's induction theorems are not used: `SubsetInduction` and `NatSetInduction` take a
  set where they take a predicate, and are proved by a minimal counterexample. A part sums to no
  more than the whole, a proper part of positive summands to less (`SumOfPart`,
  `SumOfProperPart`), and summands may be renamed (`SumMoved`). Spend, positions and
  fills rest on these.

Only model-checked: the liveness properties (`OverlookedOrdersEscalate`, `EndedOrdersAreRecorded`, `GhostsAreCleared`,
`FilledReceiptsAreRecorded`, `ExpiredIdeasAreAttributed`, `ApprovedIdeasAreHandled`,
`StopsAreCarriedOut`). They are out of the prover's reach and stay with TLC, as does
ENABLED; no module uses RECURSIVE operators.

## 5. What the models showed about the code

One statement of the repository that the code does not keep has a run of its own
(`PROJECT.json`, "findings"): SIGINT and SIGTERM set the bot's reported state to
`STOPPED` and nothing else (`cli/commands/run.py:76`); `run()` waits on for its tasks
and the engine trades on, while the handler's message says "shutting down..." and
`docs/RUNBOOKS.md:265` relies on it.

Observations met on the way. They are behaviours of the code that limit what a property
can say, or that a property had to be stated around.

Orders:

* A message without a client id is filed under the venue's id; `INSERT OR REPLACE` then
  deletes the acknowledged row, and the client id may be sent again. `submission` has a
  venue that echoes the id; `store` has both.
* After a lost acknowledgment the row is FAILED, and the next submission of the id is
  answered REJECTED although the order may be live (`order_submission.py:587`).
* An answer with status REJECTED is recorded by `_process_rejection`; the FAILED record
  that follows is refused by the store, so the caller is told "uncertain"
  (`order_submission.py:1120`).
* `_record_failed_submission` files the row under the client id again, also when an
  event had given it the venue's order id (`order_submission.py:499`).
* `cleanup_old_orders` also deletes FAILED rows, whose orders may exist
  (`orders_store.py:839`). With WAL and `synchronous=NORMAL` a power failure can lose the
  last commits (`orders_store.py:165`); the models have process crashes only.
* A row that was never acknowledged and whose order has ended cannot be looked up by the
  venue's id and stays PENDING (`order_reconciliation.py:302`); hence
  `EndedOrdersAreRecorded` is about acknowledged rows.
* Were one audit enough to escalate drift (`ORDER_RECONCILIATION_DRIFT_MAX_FAILURES` is 3),
  it could be escalated with nothing wrong: an event that records a further fill between
  the audit's listing and its recovery of the order makes the table refuse the older
  snapshot, and the order counts as unknown (`order_reconciliation.py:93`). The theorem
  about `EscalationIsJustified` is for every threshold and says so.
* A backfill requested while another runs, or within 30 seconds of one, is dropped, and
  its watermark is kept per process (`user_event_handler.py:356`, `:411`).
* Fill accounting: `handle_fill` takes the first fills of an order without a row for all
  of it; until the order update corrects that, later fills of it are refused
  (`orders_accounting.py:233`; `NoFillIsLockedOut` excludes it by `ClosedShort`).
  A baseline whose covered receipt changed would make every projection raise
  (`:331`); `CoveredReceiptsHold` shows that it cannot.
  A row that was closed short counts as a complete receipt, and a baseline may cover it
  (`:286`) while its order still executes: what follows is in no fact, and the projection
  says that it is complete. It was found by the attempt to prove `CompleteHasEveryFill`; TLC
  shows it for a foreign order of three executions (the run's has one). `Current`
  therefore excludes it (`ClosedShort`).

Halts:

* Preview failures escalate to reduce-only mode and a global pause, against the comment
  on that very line (`validation.py:597`).
* Nobody calls `reset_daily_tracking`: a process that runs over midnight measures the
  loss against an earlier day (`risk/manager/__init__.py:364`).
* A crash inside `_save_state` leaves a file that cannot be parsed, and the next process
  starts without its halts; a save that fails, or an older one that overtakes a newer
  (event loop and guard sweep save without a lock), does the same. `DailyLossHolds` and
  `HaltsOutliveRestart` therefore speak of the time before the first such fault.
* With `mark_staleness_allow_reduce_only` off, a global pause that allows reducing orders
  hides a symbol pause that does not (`degradation.py:169`). This is why `PausesHold`
  assumes the default setting.
* An order that was handed to the thread pool goes out as it is, whatever is halted
  afterwards (`strategy.py:1758`).

Lifecycle:

* `flatten_and_stop` closes the positions it listed while the engine still trades; a
  position opened meanwhile stays open (`bot.py:285`).
* `STOPPED` to `ERROR` is no legal transition, so a failure after the stop is only
  logged (`live_trade/lifecycle.py:50`).

Ideas:

* The event lane records a denial with the idea it read before it was evaluated; a
  reviewer may have replaced it meanwhile, and the audit event then no longer matches
  the stored record (`kernel.py:347`).
* If an operator cancels an idea while its broker call is in flight, a filled receipt of
  a cancelled idea makes every later turn raise (`cycle.py:382`).
  `execution_liveness` has no operator.
* The quantity a reduction reserves is only released by its fill or by a dead receipt
  (`position_operations.py:227`).

Market data (`features/brokerages/coinbase/ws.py`, not modelled, see section 6): the
reconnect back-off undoes a `disconnect()` that comes while it sleeps; after the reconnect
limit nothing reconnects; subscriptions are appended again on every reconnect; the
sequence guard starts afresh with each connection.

## 6. What is not modelled

Within the modelled parts: integration mode of the submitter; the kill switch (a
configuration constant); the clamping of a reducing quantity; the CFM reduce-only mode,
which no order path reads; the arithmetic of leverage, exposure and liquidation guards;
prices, timestamps, checksums, telemetry and wording. Replay, scorecards, reports and
proposers of trade ideas only read the store or draft ideas. Of the experiments, the
free rule channels, protocol files, estimates, held-out valuation and the readings are
left out (a reading's breach rules are the property `ReadingsFindNoBreach`).

Whole components (`not_modelled` in `PROJECT.json`, with the reason for each): the
WebSocket and REST clients are seen by the models as what may arrive, fail or time out;
the event store is an append-only log whose readers are modelled where they act; the
recorder, backtesting, strategies and indicators are data capture and decimal
arithmetic, of which TLC could check nothing that a unit test does not; monitoring,
validators, configuration, CLI, web, preflight and the agents' and CI scripts, which
make up most of the repository's lines, keep no protocol state of their own. That is why
the mapped lines are a small share of all lines although the parts above are covered
operation by operation.

## 7. What could come next

1. The WebSocket client with its reader thread, reconnects and sequence guard, and the
   REST client's circuit breaker.
2. The two-person rule and the event store's integrity scan.
