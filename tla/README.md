# SignalGrid in TLA+

A verification development for SignalGrid, an event-driven grid trader for
Binance USD-M futures. The specifications are translated from `src/signalgrid`;
line numbers below are of that tree.

## The system

SignalGrid is one Python process with one asyncio event loop and one SQLite
store. It watches public market streams, scores signals, and opens at most one
*campaign* per symbol: a finite grid of entries with one STOP and one TAKE
PROFIT. The exchange fills, fires and expires orders on its own all the while.

| component | state it keeps | operations | talks to |
|---|---|---|---|
| `execution/campaign.py` executor and registry | one persisted registry row per symbol: campaign id, status, activated, direction | `open_campaign`, `cleanup_if_flat`, `recover_after_reconciliation`, neutral activation | adapter (REST), store |
| `execution/binance.py` adapter | none | place starter / LIMIT / exit, reduce-only close, cancel | exchange; the gate is a callback into the store |
| `state/store.py` store | orders, algo orders, positions, processed events, `execution_ready`, `halted` | upserts, `halt`, `set_execution_ready` | everyone; each call commits |
| `state/user_data.py` processor | none | applies one account event to the store, halts on ambiguity | store |
| `state/user_stream.py` session | phase, buffer of early events | attach, snapshot, reconcile, drain, recover, open the gate, reconnect | exchange, reconciler, executor |
| `state/reconciliation.py` | none | three REST reads, compare with the store | exchange, store |
| `runtime.py` | mode, set of symbols being opened, tasks | start, wait for the gate, market event, open task, cleanup loop, stop | all of the above |
| `execution/grid.py` | none | signal to plan: levels, stop, target | |
| `execution/paper.py` PAPER broker | open campaign per symbol, last close per symbol | open, on_state | runtime |
| `scanner.py`, `risk/engine.py` | last evaluation and emission times | rate limit, freshness, caps, debounce | runtime, store or broker |
| `signals/*`, `engine.py` | none | floating-point scoring | |
| `market/*` | quotes, bars, flow bucket | event parsing, public streams, warm-up | runtime |
| `ops/*` | soak journal, demo telemetry | health, soak verdict, demo preflight | store, exchange |
| `backtest/*` | none | replay, walk-forward | |

### What is hard about it

* **Non-atomic handlers.** A handler of the executor is a sequence of
  synchronous REST calls. The event loop is blocked until it ends, so no
  account event reaches the store meanwhile, but the exchange moves between
  any two calls and the process may die there.
* **Two truths.** Decisions are taken from the store, which learns of anything
  only by user-stream events. The exchange is ahead of it by the events in
  flight, and by everything that happened while no stream was attached.
* **Ambiguous answers.** A call may raise after it took effect.
* **Reconnects.** A session buffers events, reads a snapshot that is not
  atomic, compares, drains the buffer, recovers campaigns and only then opens
  the entry gate.
* **Persistent flags.** `execution_ready` and `halted` outlive the process.
* **Two-sided grids.** A neutral campaign has no exits until its first fill,
  and both of its sides may fill before one is cancelled.

What makes the parts correct:

* executor: a position always has its exits or the store is halted; CLOSED and
  FAILED leave nothing on the exchange; a neutral campaign keeps one side;
* session and gate: entries only from a reconciled and recovered session, no
  gate over a halt or over an unprotected position;
* processor: rows never go back in time, duplicates change nothing;
* runtime, scanner and risk: one campaign and one open task per symbol, caps
  on positions and notional, an id of its own for every campaign;
* PAPER broker: the same plan gives the result its stop and target promise,
  and one market event does not close and reopen;
* preflight: a clean account, and nothing touched that is not SignalGrid's;
* walk-forward: no look-ahead, training blind to the test, no trade counted
  twice.

`PROJECT.json` lists the components with their status and the hazards line by
line.

## Modules

| module | models |
|---|---|
| `BinanceExchange` | the exchange for one symbol: position, LIMIT entries, exits, the event stream; what each call does and may answer (external) |
| `GridCampaign` | executor, store, user-stream session and runtime around it, and every property |
| `CampaignLifecycle` | the abstract specification: registry status, halt flag and entry gate only |
| `MCGridCampaign` | the levels as model values and the failures of `anything_goes` |
| `GridCampaignProofs`, `GridCampaignExitProofs`, `GridCampaignBookProofs` | theorems about `GridCampaign` |
| `UserData` | the user-data processor and the store's rows under event times, partial fills, lost, repeated and shuffled events |
| `PaperGrid` | PAPER mode of one symbol: market messages, the callbacks they leave on the loop, the planner's prices, the paper broker, the runtime's counters |
| `DemoPreflight` | the reset of the Demo account before a run |
| `SignalRisk` | from market events to open tasks over several symbols: watermark, scanner, risk caps, the runtime's tasks on one loop |
| `WalkForward` | the replay of a symbol bar by bar, and the folds of the walk-forward evaluation |
| `MCSignalRisk`, `MCWalkForward` | small sets of deployments and window sizes for TLC |
| `UserDataProofs`, `PaperGridProofs`, `DemoPreflightProofs`, `SignalRiskProofs`, `WalkForwardProofs` | theorems about each of them |

`GridCampaign` is where components interact. It keeps only what a handler of
the executor reads of a row, and delivers events in order; `UserData` looks at
the same processor the other way round, with a stream that misbehaves and no
executor. `SignalRisk` is the layer above `GridCampaign`: it has many symbols
and keeps of each campaign only what it holds and may still come to hold.
`PaperGrid`, `DemoPreflight` and `WalkForward` are programs of their own: in
PAPER mode there is no exchange, the preflight ends before the runtime starts,
and the backtest has no runtime.

### GridCampaign and the code

| code | model |
|---|---|
| a REST call of the executor | one action; `pc` names the next call, `caller` what catches its exception |
| the `except` blocks of an open or activation | `StopFails`, `TakeProfitFails`, `EmergencyClose`, `SetFailed`, `SetDegraded`, `HaltStore`, `Raise`: the halt and the status DEGRADED are separate commits, in the order of each path, and a crash may come between them |
| `_open_directional` | `StartOpen`, `PlaceStarter`, `PlaceStop`, `PlaceTakeProfit`, `PlaceLimit`, `FinishOpen` |
| `_open_neutral` | `StartOpen`, `PlaceLimit`, `FinishOpen`, `UnwindLimit`, `FinishUnwind`, `EmergencyClose` |
| `_activate_neutral_position` | `PlaceNeutralStop`, `PlaceNeutralTakeProfit`, `CancelOpposite`, `FinishOppose`, `NeutralEmergencyClose`, `DirectionFlipClose` |
| `_cleanup_once` and `cleanup_if_flat` | `CleanupOnce`, `CleanupIfFlat`, `SweepLimit`, `SweepExit`, `FinishSweep` |
| `recover_after_reconciliation` | `Recover` and its five cases, `Verify`, and the shared actions above with `caller = "recover"` |
| `_run_session` | `Attach`, `Snapshot` (three reads), `Reconcile` (compare, drain, stop if an alarm was drained, start recovery), `OpenGate` with its own look at the halt, `SessionEnd` |
| `on_message` | `Deliver`, one event at a time and only between handlers; `Alarm` when it halts (margin call, rejected trigger, foreign order, conflict, hedge mode), and for a halt by another symbol's handler |
| `_process_market_event`, `_open_testnet` | `Signal` (guards, schedules), `StartOpen` (the task's turn) |
| `run`, `_wait_execution_ready` | `StartRuntime`, `RuntimeReady`, `Stop`; `Crash` keeps exactly what was committed |

An entry has quantity one and fills whole. Prices are abstracted away: a LIMIT
entry may fill and an exit may fire at any moment they rest. Two exits of one
campaign share its side. A REST call may be rejected or take effect and raise;
which of these and of the other failures a run allows is the constant
`Adversary` (see `BinanceExchange`).

`"alarm"` in it is a halt that does not come from this symbol's handlers. In a
live session it ends nothing: `on_message` returns, the session and the runtime
go on, and an open that has been scheduled still gets its turn. It then
registers its campaign, because `registry.prepare` does not look at the halt,
and is refused at its first entry by the adapter's gate. `CampaignLifecycle`
says the same: `Prepare` asks only that no campaign is active, and what a halt
promises is that the gate stays shut. The session looks at the halt twice more,
after draining its buffer (`user_stream.py:213`) and after recovery
(`user_stream.py:231`); the first stands between a buffered alarm and the gate,
the second is behind recoveries that raise by themselves when they halt. What
`CampaignLifecycle` asks of `OpenGate` is that no campaign is still OPENING
when it opens; one that was DEGRADED before a crash may stay so if it is flat
with orders still to confirm.

### UserData and the code

| code | model |
|---|---|
| `on_message` | `Receive(i)`: one of `OrderUpdate`, `AlgoUpdate`, `AccountUpdate`, `AlarmUpdate` (margin call, hedge mode, foreign order) |
| `_order_update`, `_algo_update` | stale events first, then conflicts that halt, then `mark_event_once` and the upsert: `Stale`, `OrderConflict`, `AlgoConflict`, `Write` |
| `_account_update` | `PositionRow`: marks first, compares times after, deletes the row of a flat position |
| `processed_events` | `processed`: indices of `sent` stand for event hashes, which differ whenever two events do |
| the stream (external) | `PlaceOrder` ... `RaiseAlarm`; a fill emits the account update before the order update, both with one stamp |
| a session that ends, a crash inside a handler | `Lose` |

`channel` says how a behaviour's stream delivers: in order, in order with gaps
(what one socket does), or shuffled and repeated (what the processor's own
checks are written against).

### PaperGrid and the code

| code | model |
|---|---|
| `binance_events.on_message`, `SymbolState` | `Message`: the shared state changes at once, a callback is left on the loop |
| `_process_market_event` in PAPER mode | `Process`: `on_state`, the closed counter, and perhaps an open, in one synchronous step |
| `on_state` | `OnState`: validity, expiry, first touch, then stop, target, fills |
| `build_grid_plan` | `PlanAllowed` (a LONG plan's invalidation price must be positive), `Levels`, `LevelPrice`, `Stop`, `Target` |
| `active_campaign`, `_recently_closed` | `HoldsSymbol`, `Recent` |

A plan needs a valid quote here although the planner would fall back to the
last close: the signal engine's liquidity gate (`signals/engine.py:38`) answers
nothing without one.

### DemoPreflight and the code

| code | model |
|---|---|
| `reset_stale_demo_account` | the stages from "first" to "verify", each REST call a step |
| `provider.snapshot` | `ReadOrders`, `ReadAlgos`, `ReadPositions`: the account changes between them |
| cancel and close loops | `CancelEntry`, `ClosePosition`, `CancelAlgo`, one iteration each, and the steps that leave the loop |
| waiting loops | `JudgeFlat`, `JudgeClean` and `Again` |
| `preflight_demo` around it | `CheckMode` refuses an account that is in hedge mode or whose mode cannot be verified, every time; `PinLeverage`; an exception anywhere is `Fault`, a new run `Start` |
| exchange and user (external) | `FillEntry`, `TriggerExit`, `Meddle` |

Assumed of the user beside SignalGrid: he keeps the account's mode, his orders
do not fill during a run, and he opens, closes and turns no position.
`CleanWhenDone` and `ExitsUntilFlat` rest on it: no verification could see a
trade that is made after it.

### SignalRisk and the code

| code | model |
|---|---|
| `SymbolState.last_event_time_ms`, the router's callback | `Message`: the watermark never goes back, a callback joins `queue` |
| `_process_market_event`, TESTNET mode | `ProcessMarketEvent`: scanner, risk, plan and task in one synchronous step |
| `scanner.evaluate_symbol` | `Evaluate`: `RateLimited`, `Fresh`, then `Approved` before `Debounced`, so that a refused signal spends no debounce |
| `RiskEngine.decide` | `Approved`, `Size`, over `Known`: the positions of the store |
| `_opening_symbols`, the open task | `Busy`, `Schedule`, `OpenTestnet` with its `finally` |
| campaign id, a hash | `CampaignId`: the record of what is hashed |
| executor and exchange, in brief | `Opened`, `NotOpened`, `Fill`, `Exit`, `Deliver`, `Cleanup` |

Scores are left out: an evaluation of fresh data may give any setup and
strength, or none. Quantities are units of notional.

### WalkForward and the code

| code | model |
|---|---|
| one round of `run_backtest`'s loop | `ReplayBar`: execute the pending signal, exit, decide |
| the forced close after the loop | `Result` |
| `run_walk_forward`'s loop over candidates | `NextCandidate`, `Select`, `NoneSelected` |
| slices of a fold, context bars | `TrainEnd`, `TestEnd`, `ContextStart`, `InWindow` |
| the fold's report and the step to the next | `FinishTest`, `FinishFold`, `Fits` |

What a bar's prices decide (a signal, an invalid open, a stop) is arbitrary at
every bar, and so is which ranked candidate is the best.

A definition named `Mut...` is a plausible mistake in the definition that
follows it. It is used by nothing: it documents, and lets a run demonstrate,
that a property notices the mistake.

## Runs

| run | instance | shows |
|---|---|---|
| `anything_goes` | one campaign of any mode, two levels; rejected and lost calls, lost sessions, crashes, stops, alarms (1.8 M states) | `TypeOK`, `GateClosedWhenHalted`, `ActiveHasExits`, `NoneLeftOpening`, `StarterKeepsStop`, `EntryOnlyReconciled`, `GateOpensProtected`, `ClosesFlat`, `ImplementsLifecycle` |
| `next_campaign` | two LONG campaigns in turn, rejected calls, lost sessions, crashes, stops, alarms (1.7 M) | `StartsClean`, `FailedOpenHasNoExposure`, `RecoveryAcceptsProtected` |
| `progress` | LONG or NEUTRAL, a buy and a sell level, expiring exits, `FairSpec` | `FlatCampaignCloses`, `OppositeEntriesGo`, `PositionGetsExits`, `FlipHalts`, `DegradedHalts` |
| `v_entry_after_exit` | LONG, one level, no failure at all | a LIMIT fills after the stop fired: a position without a stop, no halt |
| `v_starter_lost` | LONG, one level, lost answers | the starter's answer is lost: FAILED over a live position, no halt |
| `v_recovery_rejects` | NEUTRAL, lost sessions | a fill is known from the buffer: recovery places both exits and halts because the store cannot have heard of them |
| `v_stale_gate` | LONG, crashes | the next start goes live on the crashed run's gate flag |
| `user_data` | one order of quantity 2, one exit, all three channels (5.0 M) | `RowsNewest`, `PositionNewest`, `NoFalseHalt` |
| `signal_risk` | two symbols; one position of a neutral market or two of a directional one (2.4 M) | `OneTaskPerSymbol`, `PositionsCapped`, `NotionalCapped`, `CampaignIdsDiffer` |
| `paper_grid` | three modes, two ladder levels or one per neutral side, moving quotes and queued callbacks (0.5 M) | `PaperTypeOK`, `FillsInsideStop`, `ResultMatchesReason`, `BudgetKept`, `OpensAfterClose`, `StatsBalance`, `ExitsPrompt` |
| `demo_preflight` | a configured and a foreign symbol, any leftovers, any position mode, one fault, `FairSpec` (3.1 M) | `CleanWhenDone`, `ExitsUntilFlat`, `HandsOff`, `EndsClean` |
| `walk_forward` | seven bars, two candidates, seven window configurations, `FairSpec` (0.3 M) | `NextBarEntry`, `SelectionBlind`, `OosInTestWindow`, `OosCountedOnce`, `WalkEnds` |

Type invariants of `UserData`, `DemoPreflight`, `SignalRisk` and `WalkForward`
are proved, and not checked again in a run.

The four `v_...` runs each violate a property that the repository states in
words; `PROJECT.json` quotes the line under `findings`. Two of the properties
also pass in `next_campaign`, which leaves out the lost answers and the neutral
grids that violate them, and that locates the cause. `ActivePositionHasStop`
needs no failure to be violated; its passing counterpart is `StarterKeepsStop`
in `anything_goes`: what loses its stop is always the fill of a LIMIT entry,
never the starter, whatever fails. `StartWaitsForReconcile` asks for the order
of two steps; that no entry follows from the flag it reads is
`EntryOnlyReconciled`.

**Bounds.** `MaxCampaigns`, the sets of levels and the modes. One level per
side is enough for every branch of the executor (its loops treat levels alike);
two are used: both on one side of a directional campaign, for a sweep and an
unwinding with some levels done and some not, and one on each side of a neutral
one. LONG and SHORT differ in a sign: both are in `anything_goes`, one of them
in the other runs. Two campaigns are enough for what one leaves to the next:
ids of different campaigns never meet, and every campaign starts from the same
registry row. The event queue needs no bound, since every event belongs to one
of finitely many orders' status changes.

`UserData`: `MaxTime` 3 gives ties and gaps between stamps; `MaxEvents` 8 is
enough for the order to be placed, filled in two parts and the exit placed,
triggered and finished; `MaxShuffled` is lower because any event may then
come at any time. `Quantity` 2 gives one partial fill. `PaperGrid`: quotes of
a few ticks around a plan that spans them, so that one message may jump over
levels, stop and target at once; `MaxQueue` 2 is a callback that runs on a
state a later message wrote; two campaigns, for a close and the next open.
`DemoPreflight`: one symbol that may be traded and one that may not; `MaxPolls`
2 (20 in the code) for a waiting loop that goes round and one that gives up;
one fault, after which the preflight starts again.

`SignalRisk`: two symbols, for a signal of one between the other's approval and
its task; a market with one position and one with two; `MaxTime` 3 with
`Debounce` 2, `MaxAge` 1 makes events stale while they wait for the loop
(`MaxLag` 0: none arrives late; the theorems hold for any lag), lets a key be
emitted twice and a second time too early; `MaxWaiting` 2 is a second callback
of a symbol behind the one that schedules its task; `MaxPlans` 2 is one plan
more than the first cap. `WalkForward`: folds that overlap (`step` 1), touch
(2) and leave gaps (3), a context shorter than the train window, as long as it
and longer; seven bars hold up to four folds.

**Deadlock** is checked in `paper_grid`. It is not in the others: the event
budget of `user_data` and the clock of `signal_risk` end, a preflight that is
done or refused stays so, an evaluation is done, and in `GridCampaign` a halted
store with a stopped runtime and an account where nothing rests is a proper end
of the system.

**Fairness** (`FairSpec`). asyncio's ready queue is first in, first out, and
handlers are finite: the running handler goes on (weak fairness), and what
waits for the loop (an event, the session task, the periodic cleanup with its
grace) gets its turn although handlers keep disabling it in between (strong
fairness). Nothing is assumed of the exchange, of signals, or of who restarts
the process. `progress` allows no rejected call and no crash: an exception in
the cancelling of opposite entries ends the runtime without a halt
(`campaign.py:368`), and then nothing progresses. TLC shows this at once when
"rejected" is added. `FairSpec` of `DemoPreflight` says that the script takes
its next call (nothing else runs in its process) and that the operator starts
a failed preflight again, which is an assumption about him; nothing is
assumed of fills, triggers and faults. `FairSpec` of `WalkForward` is that of a
loop without waiting: it takes its next step.

Two properties hold only under the failures their run lists, and TLC finds
the exception when one more is allowed; each is a hazard in `PROJECT.json`:
`DegradedHalts` fails with crashes (between the DEGRADED commit and the halt),
`FailedOpenHasNoExposure` with neutral grids (a fill during unwinding is passed
over as -2011). `StarterKeepsStop` and the other properties of `anything_goes`
are checked without "expire": an exit that the exchange or the account's owner
ends is not replaced. "late", an event that takes longer than the cleanup's
grace, is in no run: the cleanup relies on the grace being longer, and closes a
campaign from a stale row without it.

Other properties are stated with the condition under which they hold.
`ClosesFlat` speaks of closes while the store is connected (`Connected`: a live
session, or the recovery of one that has just been reconciled): the cleanup
loop goes on over a dead session's store, and may close what it has not heard
of. `PositionsCapped` and `NotionalCapped` bound
what the caps of `RiskConfig` may be exceeded by. The caps are read against the
store's positions when a signal is approved; campaigns whose opens wait on the
loop, armed neutral grids and fills on their way are not among them, so the
excess is what the store did not show at the last approval, and no more.
`OosCountedOnce` leaves out folds that are closer than their test windows are
long, which the configuration allows: their out-of-sample trades overlap.
`PositionNewest` leaves out the shuffled channel: the row of a flat position
is deleted with its time, so an older update brings the position back
(`user_data.py:304`). `ExitsUntilFlat` speaks of runs whose first snapshot had
a position: another run does not wait for flatness, and an entry that fills
just before its cancellation (-2011) then loses its exits, although
`run_demo_reflex.py:237` promises to keep them until positions are flat; the
verification that follows does not pass, and the next start closes the
position. `HandsOff` excepts conditional orders placed by hand after the
first snapshot. `EndsClean` leaves out accounts that are not in one-way mode,
which every run refuses (`run_demo_reflex.py:342`), and those with somebody
else's orders or with positions outside the universe.

## Proofs

The theorems about `GridCampaign` hold for any levels, number of campaigns,
modes and failures, from `ExchangeAssumption` alone (levels are not named like
exits, `MaxCampaigns` is a natural number).

* `TypesHold`: `Spec => []TypeOK`. Not inductive alone, because a call names
  the orders of campaign number `rec.gen`, which must exist: `Numbered` says
  that a handler runs only on a numbered campaign.
* `HaltShutsGate`, `GateOpensOverExits`, `EntriesOnlyReconciled`: from
  `GateInv` (no recovery goes on after a halt, `pc` and `caller` agree) and
  `SessionInv` (an open gate means a live session, except for the flag that a
  crash leaves behind, which `StartRuntime` closes).
* `TroubleHalts`: `DegradedHalts`, assuming `"crash" \notin Adversary`.
* `ActiveMeansExits`: an activated ACTIVE campaign had both exits accepted on
  the side the registry says. `ExitInv` says what each phase knows of the
  exits placed so far; after a restart only the store knows, so `StoreInv`
  adds that neither store nor stream ever speaks of an exit that was not
  placed.
* `NoneStaysOpening` (`NoneLeftOpening`): a crash may leave a campaign OPENING
  between any two calls of its open. `OpeningInv` says that the store has
  heard of none of its orders: they are younger than the session the handler
  runs in, a crash ends that session and drops what its stream said, and the
  snapshots of the next one fill only the comparison, not the store. So
  recovery finds nothing to cancel, nothing can leave it pending, and it gives
  the campaign a status. `OrderInv` (entries exist only of campaigns that have
  been opened) is what makes a new campaign unheard of.
* `LifecycleImplemented` (`ImplementsLifecycle`): every step of `GridCampaign`
  is a step of `CampaignLifecycle` or leaves it alone. `PhaseInv` says which
  statuses each phase of a handler can see, so that, for example, a failed open
  that is degraded later is already halted; that the gate does not open over a
  campaign still OPENING is `OpeningInv` again.

The next theorems relate the store to the exchange, through the events in
flight.

* `NothingLost` (`SyncInv`, `LinkInv`): while the store is connected, the last
  event about a row, or the row itself when no event is in flight, is what the
  exchange has, and likewise for the position. A session that reconciles
  compares a snapshot that is not of one moment, so the invariant says which
  rows may differ from it, and that the session's buffer makes up for them
  (`Matches`, `Drains`).
* `ProtectedIsAccepted` (`RecoveryAcceptsProtected`), where no neutral grid is
  planned: with no acceptance on its way, a resting exit that the store has not
  heard of would be one whose acceptance was lost, which `NothingLost` excludes.
  Neutral grids are left out because recovery itself places their exits and
  then reads the store (`v_recovery_rejects`).
* `ClosedIsFlat` (`ClosesFlat`), without "late". The events of an order come in
  the order of its life (`PathInv`). Once the grace is over, the stream is quiet
  (`QuietInv`): no acceptance is on its way, and a position only with the fill
  that made it behind it. So the sweep knows of all that rests; what it has
  done with is cancelled (`SweepInv`), and a fill in flight would be of an order
  the store still has open, which leaves the campaign pending. The theorem is
  about one campaign of any mode and any number of directional ones
  (`NextInv`: entries of earlier campaigns have ended, and no fill of theirs is
  on its way). For neutral campaigns in turn TLC has a counterexample with lost
  answers: an entry whose placement raised is not unwound
  (`campaign.py:318`), and fills while the next campaign is swept. Without lost
  answers TLC finds none; that case is not proved.
* `CampaignsStartClean` (`StartsClean`) and `FailedIsFlat`
  (`FailedOpenHasNoExposure`), for directional campaigns, without "late" and
  "lost": `BetweenInv` says that the symbol is flat, on the exchange and in
  every event, from the moment a campaign has ended under a store that is not
  halted until the next one's starter is accepted. Exits of earlier campaigns
  do not rest either (`ExitEndedInv`), and a store that reconnects would have
  seen a position in the snapshot (`SnapPos`).
* `StarterHasStop` (`StarterKeepsStop`), without "expire": for a run's only
  campaign, of any mode, under every other failure, and for directional
  campaigns after one another without "late" and "lost". The campaign starts on
  a flat symbol (`ClearInv`, which for one campaign needs no other
  assumption), so without a fill its position is the starter's or none. The
  stop is placed when the stream has already told of that position
  (`StarterInv`), and events are applied in order, so a store that knows the
  stop as open knows the position (`StopHeard`). Hence a sweep, which begins
  on a flat store and cancels what the store has as open (`SideInv`), does not
  cancel the stop of a live position, and the stop fires only with the
  position. That it was placed at all follows phase by phase for every way to
  become ACTIVE or DEGRADED without a halt (`StopPlaced`): one of them is
  recovery after a crash between starter and stop, where the store, still
  OPENING, knows of no position, and once it does, both exits must rest.

The other components' theorems need only the ranges of their constants
(`UserDataAssumption`, `PaperAssumption`, which repeats what
`GridConfig.__post_init__` enforces, and `DemoAssumption`):

* `UserDataRowsNewest`, `UserDataPositionNewest`, `UserDataNoFalseHalt`: the
  invariant adds what the exchange never does. Stamps never go back (`Times`);
  of two events of the order the later one has the greater fill or cancels,
  and of two events of the exit the later one has the later status
  (`History`). Hence an older event is stale or, at the same time, a conflict,
  and a newer one neither. `InOrder` says that an unshuffled stream delivers
  nothing before what it has delivered.
* `PaperFillsInside`, `PaperResults`, `PaperBudget`, `PaperReopensLater`,
  `PaperCounts`, `PaperExitsPrompt`: from
  the geometry of a plan (`PlanShape`, `LevelFacts`), for any spacing and
  distances, and a clock argument: a close is remembered until an event of
  another time is seen. `OneSideTouched` shows that the broker's refusal of a
  two-sided first touch is unreachable.
* `DemoEndsClean`, `DemoKeepsExits`, `DemoHandsOff`: only an account in one-way
  mode gets past the first stage (`ModeSeen`). A snapshot is not of one
  moment, but what it missed cannot appear later. Entries only go away, with
  no entry no position appears, and each stage inherits that from the one
  before (`EntriesSeen`, `PositionsSeen`, `ExitsSeen`, `ManualSeen`).

* `RiskTypes`, `OneTask`, `PositionsStayCapped`, `IdsDiffer`,
  `NotionalStaysCapped` need
  `SignalRiskAssumption`, of which `IdsDiffer` uses that the debounce is longer
  than freshness and clock skew together. `OneTask`: the open tasks in the
  queue are the symbols of `opening`, one each, and such a symbol has no
  campaign (`Tasks`). `PositionsStayCapped` is an argument by counting: only an
  approval commits a symbol, and it was approved on what the store showed.
  `IdsDiffer`: the last emission of a key is at least as late as
  any of its plans, and a plan's event time is at most `Skew` ahead and
  `MaxAge` behind its emission (`Stamps`), so plans of one key that are
  `Debounce` apart carry different event times. `NotionalStaysCapped`
  (`NotionalCapped`): every other step pledges no more for any symbol, a plan
  pledges its size, which fits the room, for one (`OpenPledges`,
  `SchedulePledges`). What is pledged in all is a fold over the symbols; that
  the fold exists, is monotone and additive is shown by going to a smallest
  set of symbols for which it is not (`SetInduction`, `TotalSum`), since the
  library's induction theorems cannot be used.
* `WalkTypes`, `TradesLookBack`, `TrainingIsBlind`, `OosWithinWindow`,
  `OosOnce` need `WalkForwardAssumption`, and rest on one invariant, `WalkInv`:
  trades of a replay lie within its slice, before `bar`, and do not overlap
  (`ReplayInv`); those of earlier folds end before the test window of the
  present one (`OosOK`).
* `PaperTypes` is `PaperTypeOK`: a campaign opens at the prices of a plan, and
  a plan's prices are naturals.

Each inductive invariant was first checked with TLC on an instance of the
component. Left to TLC: the liveness properties, also `EndsClean` and
`WalkEnds` (fairness and ENABLED are beyond the prover). Every other property of a passing run is stated by a theorem.

## Not modelled, and the plan

Order of what comes next, most important first:

1. The preflight's run without a first position, as a violation of the
   comment it contradicts.
2. The session's keepalive and reconnect timing, over `GridCampaign`'s
   session.
3. The soak verdict against a reference definition.

Left out for good: signal scoring (stateless floating point), quantity and
price rounding, REST retries inside the SDK, public-stream sharding, the
download of market data, health and soak reports, and command lines.
