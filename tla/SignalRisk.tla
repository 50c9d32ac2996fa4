------------------------------ MODULE SignalRisk ------------------------------
(***************************************************************************)
(* From market events to open tasks, over several symbols: the event       *)
(* router's watermark (binance_events.py), the scanner (scanner.py), the   *)
(* risk caps (risk/engine.py) and the runtime's TESTNET path               *)
(* (runtime.py) on one event loop, above an exchange whose fills reach the *)
(* store later.                                                            *)
(*                                                                         *)
(* What a signal says is arbitrary: any setup, any strength, at any        *)
(* evaluation.  Notional is in units: a directional campaign starts with   *)
(* one unit and its LIMIT entries add the rest, one unit each; a neutral   *)
(* one may come to hold the half of its plan that is on one side.  The     *)
(* execution gate and how a campaign's orders go wrong are GridCampaign's  *)
(* subject: here the gate may be shut at any market event or open, and an  *)
(* open succeeds, fails without a position, or is refused.                 *)
(***************************************************************************)
EXTENDS Integers, Sequences, FiniteSets, FiniteSetsExt, Functions

CONSTANTS
  Symbols,         \* the configured symbols
  Setups,          \* grid mode and setup of a signal, the scanner's key
  NeutralSetups,   \* the ones that ask for a NEUTRAL_GRID
  Scaled,          \* base notional scaled by a signal's strength
  Deployments,     \* RiskConfig.max_positions and the setups of a market
  MaxTotal,        \* RiskConfig.max_total_notional_usdt
  MaxTrade,        \* RiskConfig.max_notional_per_trade_usdt
  MinInterval,     \* ScannerConfig.min_evaluation_interval_ms
  MaxAge,          \* ScannerConfig.max_market_data_age_ms
  Debounce,        \* ScannerConfig.signal_debounce_ms
  Skew,            \* how far the exchange's clock may be ahead
  MaxLag,          \* bound: how old an event may be when it arrives
  MaxTime,         \* bound: the process clock runs from 1 to MaxTime
  MaxWaiting,      \* bound: market callbacks of a symbol waiting on the loop
  MaxPlans         \* bound: campaigns scheduled

\* ScannerConfig.__post_init__, and its default debounce (5 s), which is longer
\* than its freshness limit (2.5 s) and the skew together.
ASSUME SignalRiskAssumption ==
  /\ IsFiniteSet(Symbols)
  /\ NeutralSetups \subseteq Setups
  /\ Scaled \subseteq Nat \ {0}
  /\ Deployments \subseteq [maxPositions : Nat \ {0}, setups : SUBSET Setups]
  /\ {MaxTotal, MaxTrade, MaxAge} \subseteq Nat \ {0}
  /\ {MinInterval, Debounce, Skew, MaxLag, MaxTime, MaxWaiting, MaxPlans} \subseteq Nat
  /\ Debounce > MaxAge + Skew

VARIABLES
  deployment, \* fixed when the runtime starts
  clock,      \* the process's time
  eventTime,  \* SymbolState.last_event_time_ms of each symbol, 0 if none
  queue,      \* callbacks and tasks on the loop, first in first out
  lastEval,   \* scanner: time of a symbol's last evaluation, 0 if none
  lastEmit,   \* scanner: time of a key's last emission, 0 if none
  opening,    \* runtime: _opening_symbols
  camp,       \* registry and resting entries of each symbol's campaign
  pos,        \* exchange: notional of each symbol's position
  spos,       \* store: the same, as far as account events have told it
  planned,    \* history: ids of the campaigns scheduled
  unseen      \* history: symbols the store did not show at the last approval

marketVars  == <<deployment, clock, eventTime>>
scannerVars == <<lastEval, lastEmit>>
accountVars == <<pos, spos>>
vars == <<marketVars, queue, scannerVars, opening, camp, accountVars, planned, unseen>>

\* armed: a neutral campaign that is not activated; rest: what its open LIMIT
\* entries may still add.
NoCampaign == [active |-> FALSE, armed |-> FALSE, rest |-> 0]
Campaign == [active : BOOLEAN, armed : BOOLEAN, rest : Nat]

Market(s)   == [kind |-> "market", symbol |-> s]
Open(s, n, neutral) == [kind |-> "open", symbol |-> s, size |-> n, neutral |-> neutral]
OpenTasks == [kind : {"open"}, symbol : Symbols, size : Nat \ {0}, neutral : BOOLEAN]
Callback  == [kind : {"market"}, symbol : Symbols] \cup OpenTasks

\* GridPlan's campaign id: a hash of symbol, mode, setup and event time.
CampaignId == [symbol : Symbols, setup : Setups, event : Nat]

Total(f) == MapThenSumSet(LAMBDA s : f[s], Symbols)
Lesser(a, b) == IF a < b THEN a ELSE b
Greater(a, b) == IF a > b THEN a ELSE b

RiskTypeOK ==
  /\ deployment \in Deployments
  /\ clock \in Nat
  /\ eventTime \in [Symbols -> Nat]
  /\ queue \in Seq(Callback)
  /\ lastEval \in [Symbols -> Nat]
  /\ lastEmit \in [Symbols \X Setups -> Nat]
  /\ opening \subseteq Symbols
  /\ camp \in [Symbols -> Campaign]
  /\ pos \in [Symbols -> Nat] /\ spos \in [Symbols -> Nat]
  /\ planned \in Seq(CampaignId)
  /\ unseen \in Nat

-----------------------------------------------------------------------------
(* The market. *)

Tick ==
  /\ clock < MaxTime
  /\ clock' = clock + 1
  /\ UNCHANGED <<deployment, eventTime, queue, scannerVars, opening, camp, accountVars, planned, unseen>>

\* A message moves its symbol's watermark, never back, and leaves a callback.
Message(s) ==
  /\ Cardinality({i \in DOMAIN queue : queue[i] = Market(s)}) < MaxWaiting
  /\ \E e \in 1 .. MaxTime + Skew :
       /\ clock - MaxLag <= e /\ e <= clock + Skew
       /\ eventTime' = [eventTime EXCEPT ![s] = Greater(@, e)]
  /\ queue' = Append(queue, Market(s))
  /\ UNCHANGED <<deployment, clock, scannerVars, opening, camp, accountVars, planned, unseen>>

-----------------------------------------------------------------------------
(* A market callback: scanner, risk, plan, task, in one synchronous step. *)

RateLimited(s) == lastEval[s] # 0 /\ clock - lastEval[s] < MinInterval
Fresh(s)       == eventTime[s] # 0 /\ clock - eventTime[s] <= MaxAge
MutNoDebounce(k) == FALSE
Debounced(k)   == lastEmit[k] # 0 /\ clock - lastEmit[k] < Debounce

\* RiskEngine.decide on the positions the store knows.
Known == {s \in Symbols : spos[s] # 0}
Room  == MaxTotal - Total(spos)
MutSizeIgnoresRoom(scaled) == Lesser(scaled, MaxTrade)
Size(scaled) == Lesser(Lesser(scaled, MaxTrade), Room)
MutOneTooMany(s) == Cardinality(Known) <= deployment.maxPositions /\ s \notin Known /\ Room \in Nat \ {0}
Approved(s)  == Cardinality(Known) < deployment.maxPositions /\ s \notin Known /\ Room \in Nat \ {0}

\* Symbols that have, or may come to have, a position.
Committed == opening \cup {s \in Symbols : camp[s].active \/ pos[s] # 0}

\* The notional a symbol has or may come to have.
TaskSize(s) ==
  IF s \in opening
    THEN LET task == CHOOSE t \in Range(queue) : t.kind = "open" /\ t.symbol = s
         IN  task.size
    ELSE 0
Pledged == [s \in Symbols |-> pos[s] + camp[s].rest + TaskSize(s)]

\* What of the commitments the store does not show: symbols without a
\* position, and notional that is not filled or not reported.
Unseen == Committed \ Known
UnseenNotional == Total([s \in Symbols |-> Greater(0, Pledged[s] - spos[s])])

\* The guards between an emitted signal and the task.
MutBusyRegistryOnly(s) == camp[s].active
Busy(s) == s \in opening \/ camp[s].active

\* _open_testnet is scheduled for a plan.
Schedule(s, setup, n) ==
  /\ Len(planned) < MaxPlans
  /\ opening' = opening \cup {s}
  /\ queue' = Append(Tail(queue), Open(s, n, setup \in NeutralSetups))
  /\ planned' = Append(planned, [symbol |-> s, setup |-> setup, event |-> eventTime[s]])
  /\ unseen' = Cardinality(Unseen)

\* A signal that is approved and not debounced is emitted.  The debounce is
\* spent on it whatever becomes of it: the plan may fail, the symbol be busy.
Emit(s, setup, scaled) ==
  /\ Approved(s) /\ ~Debounced(<<s, setup>>)
  /\ lastEmit' = [lastEmit EXCEPT ![<<s, setup>>] = clock]
  /\ \/ ~Busy(s) /\ Schedule(s, setup, Size(scaled))
     \/ queue' = Tail(queue) /\ UNCHANGED <<opening, planned, unseen>>

\* The signal passes, is refused by risk, or is debounced.
Pass == queue' = Tail(queue) /\ UNCHANGED <<lastEmit, opening, planned, unseen>>

\* Stale data passes; any other evaluation may pass too.
Evaluate(s) ==
  /\ ~RateLimited(s)
  /\ lastEval' = [lastEval EXCEPT ![s] = clock]
  /\ \/ Pass
     \/ /\ Fresh(s)
        /\ \E setup \in deployment.setups, scaled \in Scaled : Emit(s, setup, scaled)

\* The execution gate is shut, or the last evaluation too recent.
Ignore == Pass /\ UNCHANGED lastEval

ProcessMarketEvent ==
  /\ queue # <<>> /\ Head(queue).kind = "market"
  /\ Evaluate(Head(queue).symbol) \/ Ignore
  /\ UNCHANGED <<marketVars, camp, accountVars>>

-----------------------------------------------------------------------------
(* The open task. *)

Opened(t) ==
  /\ camp' = [camp EXCEPT ![t.symbol] =
       [active |-> TRUE, armed |-> t.neutral,
        rest |-> IF t.neutral THEN t.size \div 2 ELSE t.size - 1]]
  /\ pos' = [pos EXCEPT ![t.symbol] = IF t.neutral THEN @ ELSE @ + 1]

\* FAILED before any exposure, or refused: gate shut, geometry, leverage.
NotOpened == UNCHANGED <<camp, pos>>

\* The finally block runs whatever the outcome.
Freed(s) == opening \ {s}

OpenTestnet ==
  /\ queue # <<>> /\ Head(queue).kind = "open"
  /\ Opened(Head(queue)) \/ NotOpened
  /\ opening' = Freed(Head(queue).symbol)
  /\ queue' = Tail(queue)
  /\ UNCHANGED <<marketVars, scannerVars, spos, planned, unseen>>

-----------------------------------------------------------------------------
(* The account. *)

\* An entry fills.
Fill(s) ==
  /\ camp[s].active /\ camp[s].rest > 0
  /\ camp' = [camp EXCEPT ![s].rest = @ - 1]
  /\ pos' = [pos EXCEPT ![s] = @ + 1]
  /\ UNCHANGED <<marketVars, queue, scannerVars, opening, spos, planned, unseen>>

\* The exits, or the entries of a neutral grid's other side, end a position.
Exit(s) ==
  /\ pos[s] # 0
  /\ pos' = [pos EXCEPT ![s] = 0]
  /\ UNCHANGED <<marketVars, queue, scannerVars, opening, camp, spos, planned, unseen>>

\* The store hears of a position, as late as the stream likes and with the
\* gate shut too, when a session's buffer is drained; a neutral campaign is
\* activated by it.
Deliver(s) ==
  /\ spos[s] # pos[s]
  /\ spos' = [spos EXCEPT ![s] = pos[s]]
  /\ camp' = [camp EXCEPT ![s].armed = @ /\ pos[s] = 0]
  /\ UNCHANGED <<marketVars, queue, scannerVars, opening, pos, planned, unseen>>

\* cleanup_if_flat, past the grace: the entries of a campaign that is flat in
\* the store go and it closes; an armed one stays.
Cleanup(s) ==
  /\ camp[s].active /\ ~camp[s].armed /\ spos[s] = 0
  /\ camp' = [camp EXCEPT ![s] = NoCampaign]
  /\ UNCHANGED <<marketVars, queue, scannerVars, opening, accountVars, planned, unseen>>

-----------------------------------------------------------------------------
Init ==
  /\ deployment \in Deployments
  /\ clock = 1
  /\ eventTime = [s \in Symbols |-> 0]
  /\ queue = <<>>
  /\ lastEval = [s \in Symbols |-> 0]
  /\ lastEmit = [k \in Symbols \X Setups |-> 0]
  /\ opening = {}
  /\ camp = [s \in Symbols |-> NoCampaign]
  /\ pos = [s \in Symbols |-> 0] /\ spos = [s \in Symbols |-> 0]
  /\ planned = <<>>
  /\ unseen = 0

LoopStep == ProcessMarketEvent \/ OpenTestnet

Next ==
  \/ Tick
  \/ LoopStep
  \/ \E s \in Symbols : Message(s) \/ Fill(s) \/ Exit(s) \/ Deliver(s) \/ Cleanup(s)

Spec == Init /\ [][Next]_vars

-----------------------------------------------------------------------------
(* Properties. *)

\* _opening_symbols is exactly what waits to be opened: one task per symbol,
\* over no campaign, so the executor never has to refuse one as "already
\* active" and no symbol is left blocked by a task that has ended.
OneTaskPerSymbol ==
  /\ opening = {queue[i].symbol : i \in {j \in DOMAIN queue : queue[j].kind = "open"}}
  /\ \A i, j \in DOMAIN queue :
       i # j /\ queue[i].kind = "open" /\ queue[j].kind = "open"
         => queue[i].symbol # queue[j].symbol
  /\ \A s \in opening : ~camp[s].active

\* RiskConfig.max_positions is exceeded only by the symbols that were
\* committed, and that the store did not show, when the last campaign was
\* approved: opens on their way, armed neutral grids, events in flight.
PositionsCapped == Cardinality(Committed) <= deployment.maxPositions + unseen

\* RiskConfig.max_total_notional_usdt: a campaign is sized so that the
\* notional pledged exceeds it only by what the store did not show, resting
\* entries count for nothing until they fill; and no other step pledges more.
NotionalCapped ==
  [][IF planned' # planned
       THEN Total(Pledged') <= MaxTotal + UnseenNotional
       ELSE Total(Pledged') <= Total(Pledged)]_vars

\* No two campaigns get one campaign id, from which all client order ids are
\* made: debounce and freshness together keep the event times of two plans of
\* one symbol and setup apart.
CampaignIdsDiffer ==
  \A i, j \in DOMAIN planned : i # j => planned[i] # planned[j]
=============================================================================
