----------------------------- MODULE GridCampaign -----------------------------
(***************************************************************************)
(* The campaign executor of one symbol (execution/campaign.py) with the    *)
(* part of the runtime that drives it (runtime.py), the persisted store    *)
(* (state/store.py) and the user-stream session around it                  *)
(* (state/user_stream.py), against an exchange that acts on its own.       *)
(*                                                                         *)
(* A handler of the executor is one sequence of synchronous REST calls:    *)
(* pc is its next call.  The event loop is blocked until the handler ends, *)
(* so no account event is applied meanwhile, but the exchange goes on      *)
(* filling orders and firing exits, and the process may die, between any   *)
(* two calls.                                                              *)
(*                                                                         *)
(* A definition Mut... is a wrong version of the one after it: a run with  *)
(* it in place shows that a property would notice that mistake.            *)
(***************************************************************************)
EXTENDS BinanceExchange

VARIABLES
  rec,       \* the symbol's row of the persisted GridCampaignRegistry
  fresh,     \* rec changed less than cleanup_grace_seconds ago
  spos,      \* store: signed account position
  sord,      \* store: status of each LIMIT entry
  salgo,     \* store: status of each protective exit
  gate,      \* store: the persisted execution_ready flag
  halted,    \* store: the persisted halted flag
  runtime,   \* "stopped", "starting" (waiting for the gate) or "live"
  armed,     \* an _open_testnet task is scheduled
  snap,      \* REST snapshot a session is reconciling with
  pc,        \* next REST call of the running handler, "idle" if none runs
  caller,    \* what catches an exception of the running handler: a neutral
             \* "open", a "task" or "event" task that drops it, the "loop" or
             \* the session ("recover") that end with it
  todo,      \* levels and exits its loop has still to place or cancel
  placed,    \* entries a neutral open has placed
  pending    \* a cleanup cancel found its order gone (-2011)

storeVars   == <<spos, sord, salgo>>
flagVars    == <<gate, halted>>
runtimeVars == <<session, runtime, armed, snap>>
handlerVars == <<pc, caller, todo, placed, pending>>
vars == <<plan, exchangeVars, events, rec, fresh, storeVars, flagVars,
          runtimeVars, handlerVars>>

ActiveStatus == {"OPENING", "ACTIVE", "DEGRADED"}
CampaignStatus == ActiveStatus \cup {"NONE", "FAILED", "CLOSED"}
Calls == {"starter", "stop", "tp", "ladder", "emergency", "unwind",
          "nstop", "ntp", "oppose", "nemergency", "flip",
          "sweep", "recover", "verify", "failed", "degraded", "halt", "raise"}

cur      == rec.gen
neutral  == cur \in Gens /\ plan[cur] = NEUTRAL_GRID
active   == rec.status \in ActiveStatus
Own(l)   == <<cur, l>>
MutReadyIgnoresFlag == ~halted
Ready    == gate /\ ~halted                     \* StateStore.execution_ready

\* What the store says of the campaign's own orders.
RestingLimits == {l \in Limits : sord[Own(l)] = "NEW"}
RestingExits  == {x \in Exits : salgo[Own(x)] = "NEW"}

RegistryTypeOK ==
  /\ rec \in [gen : 0 .. MaxCampaigns, status : CampaignStatus,
              activated : BOOLEAN, dir : {0, 1, -1}]
  /\ fresh \in BOOLEAN

StoreTypeOK ==
  /\ spos \in Int
  /\ sord \in [Orders -> OrderStatus]
  /\ salgo \in [Algos -> AlgoStatus]

FlagTypeOK == gate \in BOOLEAN /\ halted \in BOOLEAN

RuntimeTypeOK ==
  /\ session \in {"down", "attached", "orders", "algos", "positions", "live"}
  /\ runtime \in {"stopped", "starting", "live"}
  /\ armed \in BOOLEAN
  /\ snap \in [ord : SUBSET Orders, algo : SUBSET Algos, pos : Int]

HandlerTypeOK ==
  /\ pc \in Calls \cup {"idle"}
  /\ caller \in {"none", "open", "task", "loop", "event", "recover"}
  /\ todo \subseteq Limits \cup Exits
  /\ placed \subseteq Limits
  /\ pending \in BOOLEAN

TypeOK ==
  /\ plan \in [Gens -> PlanModes]
  /\ AccountTypeOK
  /\ RegistryTypeOK
  /\ StoreTypeOK
  /\ FlagTypeOK
  /\ RuntimeTypeOK
  /\ HandlerTypeOK

NoSnapshot == [ord |-> {}, algo |-> {}, pos |-> 0]

Init ==
  /\ ExchangeInit
  /\ rec = [gen |-> 0, status |-> "NONE", activated |-> FALSE, dir |-> 0]
  /\ fresh = FALSE
  /\ spos = 0
  /\ sord = [c \in Orders |-> "NONE"]
  /\ salgo = [a \in Algos |-> "NONE"]
  /\ gate = FALSE
  /\ halted = FALSE
  /\ session = "down"
  /\ runtime = "stopped"
  /\ armed = FALSE
  /\ snap = NoSnapshot
  /\ pc = "idle"
  /\ caller = "none"
  /\ todo = {}
  /\ placed = {}
  /\ pending = FALSE

-----------------------------------------------------------------------------
(* Building blocks. *)

\* registry.set_status: the status, and updated_at_ms restarts the grace.
SetStatus(s) == rec' = [rec EXCEPT !.status = s] /\ fresh' = TRUE
KeepStatus   == UNCHANGED <<rec, fresh>>

\* store.halt: it also clears execution_ready.  These are several commits, the
\* halt first; no reader of the flag can tell them apart.
MutHaltKeepsGate == halted' = TRUE /\ UNCHANGED gate
Halt     == halted' = TRUE /\ gate' = FALSE
KeepFlag == UNCHANGED flagVars

\* The handler returns, or goes on with another call.
Done == /\ pc' = "idle" /\ caller' = "none"
        /\ todo' = {} /\ placed' = {} /\ pending' = FALSE
Goto(call, left) == /\ pc' = call /\ todo' = left
                    /\ UNCHANGED <<caller, placed, pending>>
Begin(call, left, by) == /\ pc' = call /\ todo' = left /\ caller' = by
                         /\ placed' = {} /\ pending' = FALSE

Effect(out, A) == IF Applied(out) THEN A ELSE UNCHANGED <<exchangeVars, events>>

\* The except block of an open: what it raises in turn ends the task.
Catch(call, left) == /\ pc' = call /\ todo' = left /\ caller' = "task"
                     /\ UNCHANGED <<placed, pending>>

\* An error past the point of no return: DEGRADED is committed, then the halt.
Degrade == SetStatus("DEGRADED") /\ KeepFlag

\* The end of a session's recovery: LIVE, and the entry gate opens, unless the
\* store has been halted (a recovery that halts has raised before it gets here).
OpenGate ==
  IF halted THEN Goto("raise", {}) /\ KeepFlag /\ UNCHANGED runtimeVars
  ELSE /\ Done
       /\ session' = "live" /\ gate' = TRUE /\ snap' = NoSnapshot
       /\ UNCHANGED <<runtime, armed, halted>>

HandlerFrame == UNCHANGED <<plan, storeVars, runtimeVars>>

-----------------------------------------------------------------------------
(* Opening a campaign. *)

\* _process_market_event: the gate is open, risk finds no position on the
\* symbol, no open is scheduled and no campaign is active.
Signal ==
  /\ runtime = "live" /\ pc = "idle"
  /\ Ready
  /\ spos = 0
  /\ ~armed /\ ~active
  /\ cur < MaxCampaigns
  /\ armed' = TRUE
  /\ UNCHANGED <<plan, exchangeVars, events, rec, fresh, storeVars, flagVars,
                 session, runtime, snap, handlerVars>>

\* open_campaign up to its first REST call; prepare refuses a second campaign.
StartOpen ==
  /\ armed /\ pc = "idle"
  /\ armed' = FALSE
  /\ IF active
       THEN KeepStatus /\ Done
       ELSE LET g == cur + 1 IN
            /\ rec' = [gen |-> g, status |-> "OPENING",
                       activated |-> plan[g] # NEUTRAL_GRID,
                       dir |-> IF plan[g] = NEUTRAL_GRID THEN 0 ELSE PlanDir(g)]
            /\ fresh' = TRUE
            /\ IF plan[g] = NEUTRAL_GRID THEN Begin("ladder", Limits, "open")
                                         ELSE Begin("starter", {}, "open")
  /\ UNCHANGED <<plan, exchangeVars, events, storeVars, flagVars, session, runtime, snap>>

\* The MARKET starter, behind the trigger pre-checks and the entry gate.  An
\* exception of any kind is taken to mean that there is no exposure.
PlaceStarter ==
  /\ pc = "starter"
  /\ \E out \in Answers :
       /\ IF Ready THEN Effect(out, MarketFill(rec.dir))
                   ELSE UNCHANGED <<exchangeVars, events>>
       /\ IF Ready /\ out = "ok"
            THEN Goto("stop", {}) /\ KeepStatus
            ELSE Done /\ SetStatus("FAILED")
  /\ KeepFlag /\ HandlerFrame

\* A stop that fails leads to the emergency close.
MutStopPassedOver == Goto("tp", {}) /\ KeepStatus
MutStopGivesUp    == Done /\ SetStatus("FAILED")
StopFails         == Catch("emergency", {}) /\ KeepStatus

PlaceStop ==
  /\ pc = "stop"
  /\ \E out \in ExitAnswers(Own("STOP")) :
       /\ Effect(out, AcceptExit(Own("STOP"), rec.dir))
       /\ IF out = "ok" THEN Goto("tp", {}) /\ KeepStatus ELSE StopFails
  /\ KeepFlag /\ HandlerFrame

\* A take profit that fails degrades the campaign: its stop stays.
MutTakeProfitPassedOver == Goto("ladder", Limits) /\ KeepStatus /\ KeepFlag
TakeProfitFails         == Catch("halt", {}) /\ Degrade

PlaceTakeProfit ==
  /\ pc = "tp"
  /\ \E out \in ExitAnswers(Own("TP")) :
       /\ Effect(out, AcceptExit(Own("TP"), rec.dir))
       /\ IF out = "ok" THEN Goto("ladder", Limits) /\ KeepStatus /\ KeepFlag
                        ELSE TakeProfitFails
  /\ HandlerFrame

\* One LIMIT entry of the ladder, in any order.  An error degrades a directional campaign.
PlaceLimit(l) ==
  /\ pc = "ladder" /\ l \in todo
  /\ \E out \in Answers :
       /\ IF Ready THEN Effect(out, AcceptLimit(Own(l)))
                   ELSE UNCHANGED <<exchangeVars, events>>
       /\ \/ /\ Ready /\ out = "ok"
             /\ todo' = todo \ {l} /\ placed' = placed \cup {l}
             /\ UNCHANGED <<pc, caller, pending>> /\ KeepStatus
          \/ /\ ~(Ready /\ out = "ok") /\ ~neutral
             /\ Catch("halt", {}) /\ SetStatus("DEGRADED")
          \/ /\ ~(Ready /\ out = "ok") /\ neutral
             /\ Goto("raise", {}) /\ KeepStatus
  /\ KeepFlag /\ HandlerFrame

MutOpenStaysOpening == KeepStatus
MarkActive          == SetStatus("ACTIVE")

\* All entries are placed: ACTIVE; a neutral campaign that already has a
\* position in the store is activated at once.
FinishOpen ==
  /\ pc = "ladder" /\ todo = {}
  /\ MarkActive
  /\ IF neutral /\ spos # 0 THEN Goto("nstop", {}) ELSE Done
  /\ KeepFlag /\ HandlerFrame
  /\ UNCHANGED <<exchangeVars, events>>

\* The emergency close of a failed open: the starter's quantity, or what the
\* store says of a neutral campaign's position.  When it fails a directional
\* open halts before it writes DEGRADED, a neutral one after.
EmergencyClose ==
  LET d == IF neutral THEN Sign(spos) ELSE rec.dir
      q == IF neutral THEN Abs(spos) ELSE 1
  IN /\ pc = "emergency"
     /\ \E out \in ReduceAnswers(d) :
          /\ Effect(out, ReduceOnly(d, q))
          /\ \/ out = "ok" /\ Goto("failed", {}) /\ KeepStatus /\ KeepFlag
             \/ out # "ok" /\ neutral /\ Goto("halt", {}) /\ Degrade
             \/ out # "ok" /\ ~neutral /\ Goto("degraded", {}) /\ KeepStatus /\ Halt
     /\ HandlerFrame

\* Unwinding a neutral open without known exposure: -2011 is passed over, any
\* other error halts and degrades.
UnwindLimit(l) ==
  /\ pc = "unwind" /\ l \in todo
  /\ \E out \in CancelAnswers(xord[Own(l)] = "NEW") :
       /\ Effect(out, CancelLimit(Own(l)))
       /\ IF out \in {"ok", "notfound"}
            THEN Goto("unwind", todo \ {l}) /\ KeepStatus /\ KeepFlag
            ELSE Goto("degraded", {}) /\ KeepStatus /\ Halt
  /\ HandlerFrame

FinishUnwind ==
  /\ pc = "unwind" /\ todo = {}
  /\ SetStatus("FAILED") /\ Done
  /\ KeepFlag /\ HandlerFrame
  /\ UNCHANGED <<exchangeVars, events>>

-----------------------------------------------------------------------------
(* Activating a neutral campaign that has a position. *)

PlaceNeutralStop ==
  /\ pc = "nstop"
  /\ \E out \in ExitAnswers(Own("STOP")) :
       /\ Effect(out, AcceptExit(Own("STOP"), Sign(spos)))
       /\ Goto(IF out = "ok" THEN "ntp" ELSE "nemergency", {})
  /\ KeepStatus /\ KeepFlag /\ HandlerFrame

\* The entries of the other side, as far as the store knows of them.
MutOppositeIsSame == {l \in RestingLimits : Side(Own(l)) = Sign(spos)}
OppositeEntries   == {l \in RestingLimits : Side(Own(l)) # Sign(spos)}

PlaceNeutralTakeProfit ==
  /\ pc = "ntp"
  /\ \E out \in ExitAnswers(Own("TP")) :
       /\ Effect(out, AcceptExit(Own("TP"), Sign(spos)))
       /\ IF out = "ok"
            THEN Goto("oppose", OppositeEntries) /\ KeepStatus /\ KeepFlag
            ELSE Goto("halt", {}) /\ Degrade
  /\ HandlerFrame

\* Cancelling the other side's entries.  On a campaign already activated an
\* error is only raised.
CancelOpposite(l) ==
  /\ pc = "oppose" /\ l \in todo
  /\ \E out \in CancelAnswers(xord[Own(l)] = "NEW") :
       /\ Effect(out, CancelLimit(Own(l)))
       /\ \/ /\ out \in {"ok", "notfound"}
             /\ Goto("oppose", todo \ {l}) /\ KeepStatus
          \/ /\ out \notin {"ok", "notfound"} /\ ~rec.activated
             /\ Goto("halt", {}) /\ SetStatus("DEGRADED")
          \/ /\ out \notin {"ok", "notfound"} /\ rec.activated
             /\ Goto("raise", {}) /\ KeepStatus
  /\ KeepFlag /\ HandlerFrame

\* registry.activate_neutral, and back to the caller: a recovery goes on to
\* verify the exits.
FinishOppose ==
  /\ pc = "oppose" /\ todo = {}
  /\ IF rec.activated THEN KeepStatus
     ELSE /\ rec' = [rec EXCEPT !.status = "ACTIVE", !.activated = TRUE,
                                !.dir = Sign(spos)]
          /\ fresh' = TRUE
  /\ IF caller = "recover" THEN Goto("verify", {}) ELSE Done
  /\ KeepFlag /\ HandlerFrame
  /\ UNCHANGED <<exchangeVars, events>>

\* The STOP could not be placed: close what the store says there is.
NeutralEmergencyClose ==
  /\ pc = "nemergency"
  /\ \E out \in ReduceAnswers(Sign(spos)) :
       /\ Effect(out, ReduceOnly(Sign(spos), Abs(spos)))
       /\ IF out = "ok" THEN Goto("failed", {}) /\ KeepStatus /\ KeepFlag
                        ELSE Goto("halt", {}) /\ Degrade
  /\ HandlerFrame

\* An activated campaign found on the other side is closed and degraded.
DirectionFlipClose ==
  /\ pc = "flip"
  /\ \E out \in ReduceAnswers(Sign(spos)) : Effect(out, ReduceOnly(Sign(spos), Abs(spos)))
  /\ Goto("degraded", {}) /\ KeepStatus /\ KeepFlag /\ HandlerFrame

\* What follows a close or a cancel, one store commit at a time.  Halting a store
\* that the handler has halted before it wrote DEGRADED changes nothing.
SetFailed ==
  /\ pc = "failed"
  /\ SetStatus("FAILED") /\ KeepFlag
  /\ Goto("halt", {}) /\ HandlerFrame
  /\ UNCHANGED <<exchangeVars, events>>

SetDegraded ==
  /\ pc = "degraded"
  /\ Degrade
  /\ Goto("halt", {}) /\ HandlerFrame
  /\ UNCHANGED <<exchangeVars, events>>

MutNoHalt ==
  /\ pc = "halt"
  /\ KeepFlag /\ KeepStatus
  /\ Goto("raise", {}) /\ HandlerFrame
  /\ UNCHANGED <<exchangeVars, events>>
HaltStore ==
  /\ pc = "halt"
  /\ Halt /\ KeepStatus
  /\ Goto("raise", {}) /\ HandlerFrame
  /\ UNCHANGED <<exchangeVars, events>>

-----------------------------------------------------------------------------
(* Cleaning up a campaign whose position is gone. *)

\* The registry's side of an activated campaign is not the position's.
MutNeverFlipped == FALSE
Flipped         == rec.dir # Sign(spos)

\* What is cancelled when the position is gone.
MutForgetsExits == RestingLimits
Leftovers       == RestingLimits \cup RestingExits

\* cleanup_if_flat up to its first REST call.
MutCleanupOnlyFlat(by) ==
  IF spos = 0 /\ rec.activated THEN Begin("sweep", Leftovers, by) ELSE Done
CleanupIfFlat(by) ==
  \/ spos # 0 /\ neutral /\ ~rec.activated /\ Begin("nstop", {}, by)
  \/ spos # 0 /\ neutral /\ rec.activated /\ Flipped /\ Begin("flip", {}, by)
  \/ /\ spos # 0 /\ neutral /\ rec.activated /\ ~Flipped
     /\ Begin("oppose", OppositeEntries, by)
  \/ spos # 0 /\ ~neutral /\ Done
  \/ spos = 0 /\ neutral /\ ~rec.activated /\ Done
  \/ spos = 0 /\ (~neutral \/ rec.activated) /\ Begin("sweep", Leftovers, by)

\* _cleanup_once, from the cleanup loop or after an account event: campaigns
\* ACTIVE or DEGRADED, past the grace unless a neutral one needs protection.
CleanupOnce(by) ==
  /\ pc = "idle"
  /\ \/ by = "loop" /\ runtime = "live"
     \/ by = "event" /\ session = "live"
  /\ rec.status \in {"ACTIVE", "DEGRADED"}
  /\ ~fresh \/ (neutral /\ ~rec.activated /\ spos # 0)
  /\ CleanupIfFlat(by)
  /\ UNCHANGED <<plan, exchangeVars, events, rec, fresh, storeVars, flagVars, runtimeVars>>

\* One cancelled order; one that was gone leaves the campaign pending.
MutSweptRetries(x, out) ==
  /\ todo' = IF out = "ok" THEN todo \ {x} ELSE todo
  /\ UNCHANGED <<pc, caller, placed, pending>> /\ KeepStatus /\ KeepFlag
Swept(x, out) ==
  /\ pending' = (pending \/ out = "notfound")
  /\ todo' = todo \ {x}
  /\ UNCHANGED <<pc, caller, placed>> /\ KeepStatus /\ KeepFlag

\* The limits first, then the exits.
SweepLimit(l) ==
  /\ pc = "sweep" /\ l \in todo \cap Limits
  /\ \E out \in CancelAnswers(xord[Own(l)] = "NEW") :
       /\ Effect(out, CancelLimit(Own(l)))
       /\ IF out \in {"ok", "notfound"}
            THEN Swept(l, out)
            ELSE Goto("halt", {}) /\ Degrade
  /\ HandlerFrame

SweepExit(x) ==
  /\ pc = "sweep" /\ todo \cap Limits = {} /\ x \in todo
  /\ x = "TP" => "STOP" \notin todo
  /\ \E out \in CancelAnswers(xalgo[Own(x)] = "NEW") :
       /\ Effect(out, CancelExit(Own(x)))
       /\ IF out \in {"ok", "notfound"}
            THEN Swept(x, out)
            ELSE Goto("halt", {}) /\ Degrade
  /\ HandlerFrame

\* CLOSED unless some order was already gone.
MutClosesPending == SetStatus("CLOSED")
MarkClosed       == IF pending THEN KeepStatus ELSE SetStatus("CLOSED")

\* The last store read.
FinishSweep ==
  /\ pc = "sweep" /\ todo = {}
  /\ IF spos # 0 THEN Goto("halt", {}) /\ Degrade /\ UNCHANGED runtimeVars
     ELSE /\ MarkClosed
          /\ IF caller = "recover" THEN OpenGate
                                  ELSE Done /\ KeepFlag /\ UNCHANGED runtimeVars
  /\ UNCHANGED <<plan, exchangeVars, events, storeVars>>

-----------------------------------------------------------------------------
(* Recovery: after every reconciliation, before the gate opens. *)

RecoverNothing == ~active /\ KeepStatus /\ OpenGate

\* An armed neutral campaign without a position waits for its first fill.
RecoverArmed ==
  /\ active /\ spos = 0 /\ neutral /\ ~rec.activated
  /\ SetStatus("ACTIVE") /\ OpenGate

RecoverFlat ==
  /\ active /\ spos = 0 /\ (~neutral \/ rec.activated)
  /\ Goto("sweep", Leftovers)
  /\ KeepStatus /\ KeepFlag /\ UNCHANGED runtimeVars

RecoverFlipped ==
  /\ active /\ spos # 0 /\ neutral /\ rec.activated /\ Flipped
  /\ Goto("halt", {}) /\ Degrade /\ UNCHANGED runtimeVars

RecoverPosition ==
  /\ active /\ spos # 0
  /\ \/ ~neutral /\ Goto("verify", {})
     \/ neutral /\ ~rec.activated /\ Goto("nstop", {})
     \/ neutral /\ rec.activated /\ ~Flipped /\ Goto("oppose", OppositeEntries)
  /\ KeepStatus /\ KeepFlag /\ UNCHANGED runtimeVars

Recover ==
  /\ pc = "recover"
  /\ \/ RecoverNothing \/ RecoverArmed \/ RecoverFlat
     \/ RecoverFlipped \/ RecoverPosition
  /\ UNCHANGED <<plan, exchangeVars, events, storeVars>>

\* A campaign with a position must have both exits active in the store.
MutOneExitDoes == RestingExits # {}
ExitsRest      == RestingExits = Exits

Verify ==
  /\ pc = "verify"
  /\ IF ExitsRest
       THEN SetStatus("ACTIVE") /\ OpenGate
       ELSE Goto("halt", {}) /\ Degrade /\ UNCHANGED runtimeVars
  /\ UNCHANGED <<plan, exchangeVars, events, storeVars>>

\* The runtime ends: its finally block closes the session and the gate.
StopRuntime ==
  /\ runtime' = "stopped" /\ session' = "down" /\ gate' = FALSE
  /\ armed' = FALSE /\ events' = <<>> /\ snap' = NoSnapshot
  /\ Done

\* Where an exception ends up: a neutral open unwinds its entries if the store
\* knows of no position and closes what it knows of otherwise, a task drops it,
\* the cleanup loop and the session end the runtime.
Raise ==
  /\ pc = "raise"
  /\ \/ /\ caller = "open" /\ spos = 0 /\ Catch("unwind", placed)
        /\ KeepFlag /\ UNCHANGED <<runtimeVars, events>>
     \/ /\ caller = "open" /\ spos # 0 /\ Catch("emergency", {})
        /\ KeepFlag /\ UNCHANGED <<runtimeVars, events>>
     \/ /\ caller \in {"task", "event"} /\ Done
        /\ KeepFlag /\ UNCHANGED <<runtimeVars, events>>
     \/ /\ caller \in {"loop", "recover"}
        /\ StopRuntime /\ halted' = (halted \/ caller = "recover")
  /\ UNCHANGED <<plan, exchangeVars, rec, fresh, storeVars>>

-----------------------------------------------------------------------------
(* The user stream and the runtime's life. *)

\* BinanceUserDataProcessor on one session's ordered events.
Deliver ==
  /\ session = "live" /\ pc = "idle" /\ events # <<>>
  /\ LET e == Head(events) IN
       /\ spos'  = IF e.kind = "ACCOUNT_UPDATE" THEN e.pos ELSE spos
       /\ sord'  = IF e.kind = "ORDER_TRADE_UPDATE"
                     THEN [sord EXCEPT ![e.id] = e.status] ELSE sord
       /\ salgo' = IF e.kind = "ALGO_UPDATE"
                     THEN [salgo EXCEPT ![e.id] = e.status] ELSE salgo
  /\ events' = Tail(events)
  /\ UNCHANGED <<plan, exchangeVars, rec, fresh, flagVars, runtimeVars, handlerVars>>

\* A halt by something else: the processor, on an event that leaves this symbol's
\* rows alone (it need not queue behind those that do not), or another symbol's
\* handler.  Nothing ends at once: a scheduled open still gets its turn.
Alarm ==
  /\ "alarm" \in Adversary /\ pc = "idle" /\ ~halted
  /\ session = "live" \/ runtime = "live"
  /\ Halt
  /\ UNCHANGED <<plan, exchangeVars, events, rec, fresh, storeVars, runtimeVars,
                 handlerVars>>

\* runtime.run on the persisted store.  A flag left open by a crash satisfies
\* _wait_execution_ready before the session's first step closes it.
StartRuntime ==
  /\ runtime = "stopped" /\ ~halted
  /\ runtime' = IF Ready THEN "live" ELSE "starting"
  /\ gate' = FALSE
  /\ UNCHANGED <<plan, exchangeVars, events, rec, fresh, storeVars, halted,
                 session, armed, snap, handlerVars>>

\* _wait_execution_ready sees the gate open.
RuntimeReady ==
  /\ runtime = "starting" /\ pc = "idle" /\ Ready
  /\ runtime' = "live"
  /\ UNCHANGED <<plan, exchangeVars, events, rec, fresh, storeVars, flagVars,
                 session, armed, snap, handlerVars>>

\* _run_session up to the attached stream, whose events are buffered.
Attach ==
  /\ runtime # "stopped" /\ session = "down" /\ pc = "idle" /\ ~halted
  /\ session' = "attached" /\ gate' = FALSE
  /\ UNCHANGED <<plan, exchangeVars, events, rec, fresh, storeVars, halted,
                 runtime, armed, snap, handlerVars>>

\* The three REST reads of a snapshot, in a worker thread.
Snapshot ==
  /\ \/ /\ session = "attached" /\ session' = "orders"
        /\ snap' = [snap EXCEPT !.ord = {c \in Orders : xord[c] = "NEW"}]
     \/ /\ session = "orders" /\ session' = "algos"
        /\ snap' = [snap EXCEPT !.algo = {a \in Algos : xalgo[a] = "NEW"}]
     \/ /\ session = "algos" /\ session' = "positions"
        /\ snap' = [snap EXCEPT !.pos = xpos]
  /\ UNCHANGED <<plan, exchangeVars, events, rec, fresh, storeVars, flagVars,
                 runtime, armed, handlerVars>>

\* AccountReconciler._compare: active rows and position, not the buffer.
MutMatchesPositions == snap.pos = spos
Matches ==
  /\ snap.ord = {c \in Orders : sord[c] = "NEW"}
  /\ snap.algo = {a \in Algos : salgo[a] = "NEW"}
  /\ snap.pos = spos

\* The last buffered event about a row decides what draining leaves in it.
LastOf(S) == IF \E i \in S : \A j \in S : j <= i
               THEN CHOOSE i \in S : \A j \in S : j <= i ELSE 0
Buffered(kind) == {i \in DOMAIN events : events[i].kind = kind}
About(kind, id) == {i \in Buffered(kind) : events[i].id = id}
MutDrainedKind(S, old) == IF LastOf(S) \in S THEN events[LastOf(S)].kind ELSE old
Drained(S, old) == IF LastOf(S) \in S THEN events[LastOf(S)].status ELSE old
DrainedPos == LET P == Buffered("ACCOUNT_UPDATE")
              IN  IF LastOf(P) \in P THEN events[LastOf(P)].pos ELSE spos

\* Compare, drain the buffer, start the recovery.  A mismatch halts and ends the
\* runtime; so does an alarm in the buffer, once all of it is drained.
Reconcile ==
  /\ session = "positions" /\ pc = "idle"
  /\ IF Matches /\ ~halted
       THEN /\ spos' = DrainedPos
            /\ sord' = [c \in Orders |-> Drained(About("ORDER_TRADE_UPDATE", c), sord[c])]
            /\ salgo' = [a \in Algos |-> Drained(About("ALGO_UPDATE", a), salgo[a])]
            /\ events' = <<>>
            /\ \/ /\ Begin("recover", {}, "recover")
                  /\ KeepFlag /\ UNCHANGED runtimeVars
               \/ "alarm" \in Adversary /\ StopRuntime /\ halted' = TRUE
       ELSE StopRuntime /\ halted' = TRUE /\ UNCHANGED storeVars
  /\ UNCHANGED <<plan, exchangeVars, rec, fresh>>

\* A session ends (stream lost, key expired, rotation, REST unavailable): its
\* undelivered events are gone.  A key's expiry may be among the drained events,
\* before recovery.  A halted store ends the runtime, also between two sessions.
SessionEnd ==
  /\ runtime # "stopped" /\ pc \in {"idle", "recover"}
  /\ ("drop" \in Adversary /\ session # "down") \/ halted
  /\ IF halted THEN StopRuntime
     ELSE /\ session' = "down" /\ gate' = FALSE /\ events' = <<>>
          /\ snap' = NoSnapshot /\ Done
          /\ UNCHANGED <<runtime, armed>>
  /\ UNCHANGED <<plan, exchangeVars, rec, fresh, storeVars, halted>>

\* The operator stops the runtime, or its start-up times out.
Stop ==
  /\ "stop" \in Adversary /\ runtime # "stopped" /\ pc = "idle"
  /\ StopRuntime
  /\ UNCHANGED <<plan, exchangeVars, rec, fresh, storeVars, halted>>

\* The process dies: the store keeps what it committed, the gate flag too.
Crash ==
  /\ "crash" \in Adversary /\ runtime # "stopped"
  /\ runtime' = "stopped" /\ session' = "down" /\ armed' = FALSE
  /\ events' = <<>> /\ snap' = NoSnapshot
  /\ Done
  /\ UNCHANGED <<plan, exchangeVars, rec, fresh, storeVars, flagVars>>

\* cleanup_grace_seconds pass; unless "late", the events have been processed.
GraceOver ==
  /\ fresh /\ pc = "idle"
  /\ "late" \in Adversary \/ events = <<>>
  /\ fresh' = FALSE
  /\ UNCHANGED <<plan, exchangeVars, events, rec, storeVars, flagVars, runtimeVars, handlerVars>>

ExchangeMoves ==
  /\ \/ \E c \in Orders : Fill(c)
     \/ \E a \in Algos : Fire(a) \/ Expire(a)
  /\ UNCHANGED <<plan, rec, fresh, storeVars, flagVars, runtimeVars, handlerVars>>

OpenStep ==
  \/ PlaceStarter \/ PlaceStop \/ PlaceTakeProfit \/ FinishOpen
  \/ EmergencyClose \/ FinishUnwind
  \/ \E l \in Limits : PlaceLimit(l) \/ UnwindLimit(l)

ActivateStep ==
  \/ PlaceNeutralStop \/ PlaceNeutralTakeProfit \/ FinishOppose
  \/ NeutralEmergencyClose \/ DirectionFlipClose
  \/ \E l \in Limits : CancelOpposite(l)

CleanupStep ==
  \/ \E l \in Limits : SweepLimit(l)
  \/ \E x \in Exits : SweepExit(x)
  \/ FinishSweep

ErrorStep == SetFailed \/ SetDegraded \/ HaltStore \/ Raise

HandlerStep ==
  OpenStep \/ ActivateStep \/ CleanupStep \/ Recover \/ Verify \/ ErrorStep

Next ==
  \/ Signal \/ StartOpen
  \/ HandlerStep
  \/ \E by \in {"loop", "event"} : CleanupOnce(by)
  \/ Deliver \/ Alarm
  \/ StartRuntime \/ RuntimeReady \/ Attach \/ Snapshot \/ Reconcile
  \/ SessionEnd \/ Stop \/ Crash \/ GraceOver
  \/ ExchangeMoves

Spec == Init /\ [][Next]_vars

\* asyncio's ready queue is first in, first out: a handler goes on with its
\* next call, and what waits for an idle loop (an event, the session task, the
\* periodic cleanup) gets its turn although handlers keep disabling it.
\* Nothing is asked of the exchange, of signals or of who starts the process.
Fairness ==
  /\ WF_vars(HandlerStep)
  /\ SF_vars(Deliver)
  /\ SF_vars(CleanupOnce("loop"))
  /\ SF_vars(GraceOver)
  /\ SF_vars(Attach) /\ WF_vars(Snapshot) /\ SF_vars(Reconcile)
  /\ SF_vars(RuntimeReady)

FairSpec == Spec /\ Fairness

-----------------------------------------------------------------------------
(* Properties. *)

Lifecycle == INSTANCE CampaignLifecycle WITH status <- rec.status

\* The registry, the halt flag and the gate go through no other statuses than
\* CampaignLifecycle's: no campaign is prepared over an active one, nothing
\* lifts a halt or opens the gate after it, and the gate never opens over a
\* campaign that is still OPENING.
ImplementsLifecycle == Lifecycle!LifecycleSpec

OpenOrders(g) == {l \in Limits : xord[<<g, l>>] = "NEW"}
OpenExits(g)  == {x \in Exits : xalgo[<<g, x>>] = "NEW"}

\* The runtime is at rest, connected and up to date, and thinks all is well.
Settled == /\ runtime = "live" /\ session = "live" /\ pc = "idle"
           /\ events = <<>> /\ ~halted

\* Trouble with live exposure stops new entries on the whole account: when a
\* handler has marked a campaign DEGRADED the store is halted.
DegradedHalts == rec.status = "DEGRADED" => halted \/ pc = "halt"

\* A halt shuts the entry gate, whichever component halts and whatever session,
\* recovery or restart would open the gate after it.
GateClosedWhenHalted == halted => ~gate

\* An activated campaign that is ACTIVE has had both its exits accepted by the
\* exchange, and they protect the side the registry says it is on.
ActiveHasExits ==
  (rec.status = "ACTIVE" /\ rec.activated /\ pc = "idle" /\ ~halted /\ session = "live")
    => \A x \in Exits : xalgo[Own(x)] # "NONE" /\ exitDir[cur] = rec.dir

\* A campaign is OPENING only while its open runs or the runtime is not at
\* rest: one cut short is resolved by recovery, or the store is halted.
NoneLeftOpening == Settled => rec.status # "OPENING"

\* An entry, the MARKET starter or a LIMIT, reaches the exchange only from a
\* session that has reconciled and recovered and on a store that is not halted,
\* whatever happens between the signal, the task's turn and the call.
StarterTraded  == pc = "starter" /\ pc' # pc /\ xpos' # xpos
LimitPlaced(c) == xord[c] = "NONE" /\ xord'[c] = "NEW"
EntryOnlyReconciled ==
  [][StarterTraded \/ (\E c \in Orders : LimitPlaced(c))
       => session = "live" /\ runtime = "live" /\ ~halted]_vars

\* The gate never reopens over a campaign whose known position lacks an exit.
GateOpensProtected ==
  [][~gate /\ gate' /\ active /\ spos # 0 => RestingExits = Exits]_vars

\* The store is connected to the exchange by a live session's events, from the
\* moment a reconciliation has drained the session's buffer.
Connected == session = "live" \/ caller = "recover"

\* While the store is connected a campaign is marked CLOSED only when the
\* exchange holds no position, no entry and no exit of it, although the handler
\* that closes it reads a store that is behind: nothing of it can trade
\* afterwards.
ClosesFlat ==
  [][rec.status # "CLOSED" /\ rec'.status = "CLOSED" /\ Connected
       => xpos = 0 /\ OpenOrders(cur) = {} /\ OpenExits(cur) = {}]_vars

\* A campaign starts on a symbol where no earlier campaign left a position or
\* an order on the exchange.
StartsClean ==
  [][rec'.gen # rec.gen
       => xpos = 0 /\ \A g \in Gens : OpenOrders(g) = {} /\ OpenExits(g) = {}]_vars

\* While the runtime believes that all is well, the position of its campaign
\* has a stop resting on the exchange.
ActivePositionHasStop ==
  Settled /\ active /\ xpos # 0 => "STOP" \in OpenExits(cur)

\* A campaign whose LIMIT entries have not filled is one starter, and that
\* starter has its stop on the exchange: no failed, lost or crashed call, no
\* reconnect and no cleanup between open and close takes it away.
StarterKeepsStop ==
  Settled /\ active /\ xpos # 0 /\ (\A l \in Limits : xord[Own(l)] # "FILLED")
    => "STOP" \in OpenExits(cur)

\* An open that FAILED without a halt has left no position behind.
FailedOpenHasNoExposure ==
  Settled /\ rec.status = "FAILED" => xpos = 0

\* Recovery does not halt over a campaign whose two exits rest on the exchange.
RecoveryAcceptsProtected ==
  [][pc = "verify" /\ OpenExits(cur) = Exits => pc' # "halt"]_vars

\* The runtime goes live, and starts to open campaigns and to clean them up,
\* after a session has reconciled.
StartWaitsForReconcile ==
  [][runtime # "live" /\ runtime' = "live" => session = "live"]_vars

\* A campaign whose position is gone is closed in the end, unless something
\* halts or the position comes back.
FlatCampaignCloses ==
  (active /\ rec.activated /\ xpos = 0 /\ pc = "idle")
    ~> (rec.status \in {"CLOSED", "FAILED"} \/ xpos # 0 \/ halted)

\* Once a neutral campaign has taken a side, the entries of the other side
\* leave the book.
OppositeEntriesGo ==
  \A c \in Orders :
    (active /\ neutral /\ rec.activated /\ c[1] = cur /\ spos # 0
       /\ xord[c] = "NEW" /\ Side(c) # rec.dir)
      ~> (xord[c] # "NEW" \/ spos = 0 \/ halted)

\* A neutral campaign known to have a position gets both exits placed.
ExitsPlaced == \E g \in Gens : g = cur /\ \A x \in Exits : xalgo[<<g, x>>] # "NONE"
PositionGetsExits ==
  (active /\ neutral /\ spos # 0) ~> (ExitsPlaced \/ halted \/ spos = 0)

\* A neutral campaign found on the side its exits do not protect is halted.
FlipHalts ==
  (active /\ neutral /\ rec.activated /\ Sign(spos) = -rec.dir)
     ~> (halted \/ Sign(spos) # -rec.dir)
=============================================================================
