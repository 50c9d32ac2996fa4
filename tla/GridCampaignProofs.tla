------------------------- MODULE GridCampaignProofs --------------------------
(***************************************************************************)
(* Type correctness of GridCampaign and what each of its steps does to the *)
(* account and to the registry; then the gate, the halt flag and the       *)
(* campaign's status: the safety properties that need no knowledge of the  *)
(* exchange's book, and the proof that it implements CampaignLifecycle.    *)
(*                                                                         *)
(* TypeOK is not inductive.  A call of a handler names the orders of the   *)
(* campaign it runs on, so an event has its type only if that campaign has *)
(* a number: Numbered adds this.  The properties after it each come from an*)
(* inductive invariant that says what the phase of the running handler (pc,*)
(* and caller, which catches its exceptions) knows of the flags, the       *)
(* session and the campaign's status.                                      *)
(***************************************************************************)
EXTENDS GridCampaign, SequenceTheorems, TLAPS

(* The exchange's calls keep its types. *)

\* The sign of a position is a direction, or none.
LEMMA SignType == ASSUME NEW n \in Int PROVE Sign(n) \in {0, 1, -1}
BY DEF Sign

\* A side is BUY or SELL.
LEMMA SideType == ASSUME NEW c PROVE Side(c) \in {1, -1}
BY DEF Side, PlanDir

\* The events the exchange builds are events.
LEMMA EventTypes ==
  /\ \A n \in Int : PosEvent(n) \in Event
  /\ \A c \in Orders, s \in OrderStatus : OrdEvent(c, s) \in Event
  /\ \A a \in Algos, s \in AlgoStatus : AlgoEvent(a, s) \in Event
BY DEF PosEvent, OrdEvent, AlgoEvent, Event

\* What is fed to the stream keeps its type.
LEMMA FeedType ==
  ASSUME events \in Seq(Event), NEW evs \in Seq(Event), Feed(evs)
  PROVE  events' \in Seq(Event)
BY DEF Feed

\* A market fill keeps the account's types.
LEMMA MarketFillType ==
  ASSUME AccountTypeOK, NEW n \in Int, MarketFill(n)
  PROVE  AccountTypeOK'
<1>1. <<PosEvent(xpos + n)>> \in Seq(Event)
  BY EventTypes DEF AccountTypeOK
<1>2. events' \in Seq(Event)
  BY <1>1, FeedType DEF AccountTypeOK, MarketFill
<1> QED
  BY <1>2 DEF AccountTypeOK, MarketFill

\* So does an accepted entry,
LEMMA AcceptLimitType ==
  ASSUME AccountTypeOK, NEW c \in Orders, AcceptLimit(c)
  PROVE  AccountTypeOK'
<1>1. <<OrdEvent(c, "NEW")>> \in Seq(Event)
  BY EventTypes DEF OrderStatus
<1>2. events' \in Seq(Event)
  BY <1>1, FeedType DEF AccountTypeOK, AcceptLimit
<1>3. xord' \in [Orders -> OrderStatus]
  BY DEF AccountTypeOK, AcceptLimit, OrderStatus
<1> QED
  BY <1>2, <1>3 DEF AccountTypeOK, AcceptLimit

\* a cancelled entry,
LEMMA CancelLimitType ==
  ASSUME AccountTypeOK, NEW c \in Orders, CancelLimit(c)
  PROVE  AccountTypeOK'
<1>1. <<OrdEvent(c, "CANCELED")>> \in Seq(Event)
  BY EventTypes DEF OrderStatus
<1>2. events' \in Seq(Event)
  BY <1>1, FeedType DEF AccountTypeOK, CancelLimit
<1>3. xord' \in [Orders -> OrderStatus]
  BY DEF AccountTypeOK, CancelLimit, OrderStatus
<1> QED
  BY <1>2, <1>3 DEF AccountTypeOK, CancelLimit

\* an accepted exit,
LEMMA AcceptExitType ==
  ASSUME AccountTypeOK, NEW a \in Algos, NEW d \in {0, 1, -1}, AcceptExit(a, d)
  PROVE  AccountTypeOK'
<1>1. <<AlgoEvent(a, "NEW")>> \in Seq(Event)
  BY EventTypes DEF AlgoStatus
<1>2. events' \in Seq(Event)
  BY <1>1, FeedType DEF AccountTypeOK, AcceptExit
<1>3. /\ xalgo' \in [Algos -> AlgoStatus]
      /\ exitDir' \in [Gens -> {0, 1, -1}]
  BY DEF AccountTypeOK, AcceptExit, AlgoStatus, Algos
<1> QED
  BY <1>2, <1>3 DEF AccountTypeOK, AcceptExit

\* a cancelled exit,
LEMMA CancelExitType ==
  ASSUME AccountTypeOK, NEW a \in Algos, CancelExit(a)
  PROVE  AccountTypeOK'
<1>1. <<AlgoEvent(a, "CANCELED")>> \in Seq(Event)
  BY EventTypes DEF AlgoStatus
<1>2. events' \in Seq(Event)
  BY <1>1, FeedType DEF AccountTypeOK, CancelExit
<1>3. xalgo' \in [Algos -> AlgoStatus]
  BY DEF AccountTypeOK, CancelExit, AlgoStatus
<1> QED
  BY <1>2, <1>3 DEF AccountTypeOK, CancelExit

\* and what the exchange does on its own.
LEMMA ExchangeMovesType ==
  ASSUME AccountTypeOK, ExchangeMoves
  PROVE  AccountTypeOK'
<1>1. ASSUME NEW c \in Orders, Fill(c) PROVE AccountTypeOK'
  <2>1. xpos + Side(c) \in Int
    BY SideType DEF AccountTypeOK
  <2>2. <<PosEvent(xpos + Side(c)), OrdEvent(c, "FILLED")>> \in Seq(Event)
    BY <2>1, EventTypes DEF OrderStatus
  <2>3. events' \in Seq(Event)
    BY <1>1, <2>2, FeedType DEF AccountTypeOK, Fill
  <2>4. xord' \in [Orders -> OrderStatus]
    BY <1>1 DEF AccountTypeOK, Fill, OrderStatus
  <2> QED
    BY <1>1, <2>1, <2>3, <2>4 DEF AccountTypeOK, Fill
<1>2. ASSUME NEW a \in Algos, Fire(a) PROVE AccountTypeOK'
  <2>1. /\ <<AlgoEvent(a, "FINISHED"), PosEvent(0)>> \in Seq(Event)
        /\ <<AlgoEvent(a, "EXPIRED")>> \in Seq(Event)
    BY EventTypes DEF AlgoStatus
  <2>2. events' \in Seq(Event)
    BY <1>2, <2>1, FeedType DEF AccountTypeOK, Fire
  <2>3. xalgo' \in [Algos -> AlgoStatus]
    BY <1>2 DEF AccountTypeOK, Fire, AlgoStatus
  <2> QED
    BY <1>2, <2>2, <2>3 DEF AccountTypeOK, Fire
<1>3. ASSUME NEW a \in Algos, Expire(a) PROVE AccountTypeOK'
  <2>1. <<AlgoEvent(a, "EXPIRED")>> \in Seq(Event)
    BY EventTypes DEF AlgoStatus
  <2>2. events' \in Seq(Event)
    BY <1>3, <2>1, FeedType DEF AccountTypeOK, Expire
  <2>3. xalgo' \in [Algos -> AlgoStatus]
    BY <1>3 DEF AccountTypeOK, Expire, AlgoStatus
  <2> QED
    BY <1>3, <2>2, <2>3 DEF AccountTypeOK, Expire
<1> QED
  BY <1>1, <1>2, <1>3 DEF ExchangeMoves

\* So does a step that leaves the account alone.
LEMMA SameAccountType ==
  ASSUME AccountTypeOK, UNCHANGED <<exchangeVars, events>>
  PROVE  AccountTypeOK'
BY DEF AccountTypeOK, exchangeVars

-----------------------------------------------------------------------------
(* Type correctness. *)

\* A campaign that has a status has an id within the bound, and so has the one
\* a handler works on.  A recovery starts on a store that is not halted.
Numbered ==
  /\ armed => cur < MaxCampaigns
  /\ rec.status # "NONE" => cur > 0
  /\ pc \notin {"idle", "recover"} => cur > 0
  /\ pc = "recover" => ~halted

TypeInv == TypeOK /\ Numbered

\* The ids of the running campaign's orders are ids.
LEMMA OwnType ==
  ASSUME TypeInv, cur > 0
  PROVE  /\ \A l \in Limits : Own(l) \in Orders
         /\ \A x \in Exits : Own(x) \in Algos
BY DEF TypeInv, TypeOK, RegistryTypeOK, Own, cur, Orders, Algos, Gens


\* What a step that places no exit does to the account and its events.
QuietEffect ==
  \/ UNCHANGED exchangeVars /\ (events' = events \/ events' = <<>>)
  \/ UNCHANGED exchangeVars /\ events # <<>> /\ events' = Tail(events)
  \/ \E n \in Int : MarketFill(n)
  \/ cur > 0 /\ \E l \in Limits : AcceptLimit(Own(l)) \/ CancelLimit(Own(l))
  \/ \E a \in Algos : xalgo[a] = "NEW" /\ CancelExit(a)
  \/ ExchangeMoves

ExitStep == \/ PlaceStop \/ PlaceTakeProfit
            \/ PlaceNeutralStop \/ PlaceNeutralTakeProfit

\* A step that leaves the account alone is a quiet one.
LEMMA SameEffect ==
  ASSUME UNCHANGED <<exchangeVars, events>> PROVE QuietEffect
BY DEF QuietEffect

\* Closing part or all of a position is one market fill.
LEMMA ReduceEffect ==
  ASSUME TypeInv, NEW d \in {0, 1, -1}, NEW q \in Int, ReduceOnly(d, q)
  PROVE  QuietEffect
BY DEF ReduceOnly, QuietEffect, Towards, TypeInv, TypeOK, AccountTypeOK

\* The other calls of an open place no exit,
LEMMA OpenEffect ==
  ASSUME TypeInv, OpenStep, ~PlaceStop, ~PlaceTakeProfit PROVE QuietEffect
<1>1. CASE PlaceStarter
  <2>1. PICK out \in Answers :
           IF Ready THEN Effect(out, MarketFill(rec.dir))
                    ELSE UNCHANGED <<exchangeVars, events>>
    BY <1>1 DEF PlaceStarter
  <2>2. rec.dir \in Int
    BY DEF TypeInv, TypeOK, RegistryTypeOK
  <2> QED
    BY <2>1, <2>2 DEF Effect, QuietEffect
<1>2. CASE FinishOpen \/ FinishUnwind
  BY <1>2, SameEffect DEF FinishOpen, FinishUnwind
<1>3. CASE EmergencyClose
  <2> DEFINE d == IF neutral THEN Sign(spos) ELSE rec.dir
             q == IF neutral THEN Abs(spos) ELSE 1
  <2>1. d \in {0, 1, -1} /\ q \in Int
    BY SignType DEF TypeInv, TypeOK, RegistryTypeOK, StoreTypeOK, Abs
  <2>2. PICK out \in ReduceAnswers(d) : Effect(out, ReduceOnly(d, q))
    BY <1>3 DEF EmergencyClose
  <2> HIDE DEF d, q
  <2> QED
    BY <2>1, <2>2, ReduceEffect, SameEffect DEF Effect
<1>4. ASSUME NEW l \in Limits, PlaceLimit(l) PROVE QuietEffect
  <2>1. PICK out \in Answers :
           IF Ready THEN Effect(out, AcceptLimit(Own(l)))
                    ELSE UNCHANGED <<exchangeVars, events>>
    BY <1>4 DEF PlaceLimit
  <2>2. cur > 0
    BY <1>4 DEF PlaceLimit, TypeInv, Numbered
  <2> QED
    BY <2>1, <2>2 DEF Effect, QuietEffect
<1>5. ASSUME NEW l \in Limits, UnwindLimit(l) PROVE QuietEffect
  <2>1. PICK out \in CancelAnswers(xord[Own(l)] = "NEW") : Effect(out, CancelLimit(Own(l)))
    BY <1>5 DEF UnwindLimit
  <2>2. cur > 0
    BY <1>5 DEF UnwindLimit, TypeInv, Numbered
  <2> QED
    BY <2>1, <2>2 DEF Effect, QuietEffect
<1> QED
  BY <1>1, <1>2, <1>3, <1>4, <1>5 DEF OpenStep

\* nor do those of an activation,
LEMMA ActivateEffect ==
  ASSUME TypeInv, ActivateStep, ~PlaceNeutralStop, ~PlaceNeutralTakeProfit
  PROVE  QuietEffect
<1>1. CASE FinishOppose
  BY <1>1, SameEffect DEF FinishOppose
<1>2. CASE NeutralEmergencyClose \/ DirectionFlipClose
  <2>1. PICK out \in ReduceAnswers(Sign(spos)) :
           Effect(out, ReduceOnly(Sign(spos), Abs(spos)))
    BY <1>2 DEF NeutralEmergencyClose, DirectionFlipClose
  <2>2. Sign(spos) \in {0, 1, -1} /\ Abs(spos) \in Int
    BY SignType DEF TypeInv, TypeOK, StoreTypeOK, Abs
  <2> QED
    BY <2>1, <2>2, ReduceEffect, SameEffect DEF Effect
<1>3. ASSUME NEW l \in Limits, CancelOpposite(l) PROVE QuietEffect
  <2>1. PICK out \in CancelAnswers(xord[Own(l)] = "NEW") : Effect(out, CancelLimit(Own(l)))
    BY <1>3 DEF CancelOpposite
  <2>2. cur > 0
    BY <1>3 DEF CancelOpposite, TypeInv, Numbered
  <2> QED
    BY <2>1, <2>2 DEF Effect, QuietEffect
<1> QED
  BY <1>1, <1>2, <1>3 DEF ActivateStep

\* nor those of a cleanup.
LEMMA CleanupEffect ==
  ASSUME TypeInv, CleanupStep PROVE QuietEffect
<1>1. ASSUME NEW l \in Limits, SweepLimit(l) PROVE QuietEffect
  <2>1. PICK out \in CancelAnswers(xord[Own(l)] = "NEW") : Effect(out, CancelLimit(Own(l)))
    BY <1>1 DEF SweepLimit
  <2>2. cur > 0
    BY <1>1 DEF SweepLimit, TypeInv, Numbered
  <2> QED
    BY <2>1, <2>2 DEF Effect, QuietEffect
<1>2. ASSUME NEW x \in Exits, SweepExit(x) PROVE QuietEffect
  <2>1. PICK out \in CancelAnswers(xalgo[Own(x)] = "NEW") : Effect(out, CancelExit(Own(x)))
    BY <1>2 DEF SweepExit
  <2>2. Own(x) \in Algos
    BY <1>2, OwnType DEF SweepExit, TypeInv, Numbered
  <2>3. Applied(out) => xalgo[Own(x)] = "NEW"
    BY <2>1 DEF CancelAnswers, Applied
  <2> QED
    BY <2>1, <2>2, <2>3 DEF Effect, QuietEffect
<1>3. CASE FinishSweep
  BY <1>3, SameEffect DEF FinishSweep
<1> QED
  BY <1>1, <1>2, <1>3 DEF CleanupStep

\* Four steps place exits; no other step adds one or turns one round.
LEMMA EffectStep ==
  ASSUME TypeInv, [Next]_vars, ~ExitStep PROVE QuietEffect
<1>1. CASE Recover \/ Verify \/ SetFailed \/ SetDegraded \/ HaltStore
  BY <1>1, SameEffect DEF Recover, Verify, SetFailed, SetDegraded, HaltStore
<1>2. CASE Raise
  BY <1>2 DEF Raise, StopRuntime, QuietEffect
<1>3. CASE Signal \/ StartOpen \/ \E by \in {"loop", "event"} : CleanupOnce(by)
  BY <1>3, SameEffect DEF Signal, StartOpen, CleanupOnce
<1>4. CASE Deliver
  BY <1>4 DEF Deliver, QuietEffect
<1>5. CASE StartRuntime \/ RuntimeReady \/ Attach \/ Snapshot \/ GraceOver \/ Alarm
  BY <1>5, SameEffect DEF StartRuntime, RuntimeReady, Attach, Snapshot, GraceOver, Alarm
<1>6. CASE Reconcile \/ SessionEnd \/ Stop \/ Crash
  BY <1>6 DEF Reconcile, SessionEnd, Stop, Crash, StopRuntime, QuietEffect
<1>7. CASE ExchangeMoves \/ UNCHANGED vars
  BY <1>7 DEF QuietEffect, vars
<1> QED
  BY <1>1, <1>2, <1>3, <1>4, <1>5, <1>6, <1>7, OpenEffect, ActivateEffect, CleanupEffect
     DEF Next, HandlerStep, ErrorStep, ExitStep

\* An exit is placed for the running campaign, on the side its handler goes by.
LEMMA ExitEffect ==
  ASSUME TypeInv, ExitStep
  PROVE  \/ UNCHANGED <<exchangeVars, events>>
         \/ PlaceStop /\ AcceptExit(Own("STOP"), rec.dir)
         \/ PlaceTakeProfit /\ AcceptExit(Own("TP"), rec.dir)
         \/ PlaceNeutralStop /\ AcceptExit(Own("STOP"), Sign(spos))
         \/ PlaceNeutralTakeProfit /\ AcceptExit(Own("TP"), Sign(spos))
BY DEF ExitStep, PlaceStop, PlaceTakeProfit, PlaceNeutralStop, PlaceNeutralTakeProfit, Effect

\* Every step keeps the exchange's types.
LEMMA AccountStep ==
  ASSUME TypeInv, [Next]_vars PROVE AccountTypeOK'
<1> USE DEF TypeInv, TypeOK
<1>1. CASE ExitStep
  <2>1. Own("STOP") \in Algos /\ Own("TP") \in Algos
    BY <1>1, OwnType DEF ExitStep, PlaceStop, PlaceTakeProfit, PlaceNeutralStop,
       PlaceNeutralTakeProfit, Numbered, Exits
  <2>2. rec.dir \in {0, 1, -1} /\ Sign(spos) \in {0, 1, -1}
    BY SignType DEF RegistryTypeOK, StoreTypeOK
  <2> QED
    BY <1>1, <2>1, <2>2, ExitEffect, AcceptExitType, SameAccountType
<1>2. CASE QuietEffect
  <2>1. CASE UNCHANGED exchangeVars /\ events # <<>> /\ events' = Tail(events)
    BY <2>1 DEF AccountTypeOK, exchangeVars
  <2>2. CASE UNCHANGED exchangeVars /\ events' = events
    BY <2>2, SameAccountType
  <2>3. CASE UNCHANGED exchangeVars /\ events' = <<>>
    BY <2>3 DEF AccountTypeOK, exchangeVars
  <2>4. cur > 0 => \A l \in Limits : Own(l) \in Orders
    BY OwnType
  <2> QED
    BY <1>2, <2>1, <2>2, <2>3, <2>4, MarketFillType, AcceptLimitType, CancelLimitType,
       CancelExitType, ExchangeMovesType DEF QuietEffect
<1> QED
  BY <1>1, <1>2, EffectStep

\* Steps that do not open or activate a campaign change at most its status.
LEMMA RegistryEffect ==
  ASSUME [Next]_vars
  PROVE  \/ StartOpen /\ ~active
         \/ FinishOppose /\ ~rec.activated
         \/ rec' = rec /\ (fresh' = fresh \/ fresh' = FALSE)
         \/ \E s \in CampaignStatus : SetStatus(s)
<1> USE DEF CampaignStatus, ActiveStatus, KeepStatus
<1>1. CASE OpenStep
  BY <1>1 DEF OpenStep, PlaceStarter, PlaceStop, PlaceTakeProfit, FinishOpen,
     EmergencyClose, FinishUnwind, PlaceLimit, UnwindLimit, StopFails, TakeProfitFails,
     Degrade, MarkActive
<1>2. CASE ActivateStep
  BY <1>2 DEF ActivateStep, PlaceNeutralStop, PlaceNeutralTakeProfit, FinishOppose,
     NeutralEmergencyClose, DirectionFlipClose, CancelOpposite, Degrade
<1>3. CASE CleanupStep
  BY <1>3 DEF CleanupStep, SweepLimit, SweepExit, FinishSweep, Swept, Degrade, MarkClosed
<1>4. CASE Recover \/ Verify \/ ErrorStep
  BY <1>4 DEF Recover, RecoverNothing, RecoverArmed, RecoverFlat, RecoverFlipped,
     RecoverPosition, Verify, ErrorStep, SetFailed, SetDegraded, HaltStore, Raise, Degrade
<1>5. CASE StartOpen
  BY <1>5 DEF StartOpen
<1>6. CASE \/ Signal \/ \E by \in {"loop", "event"} : CleanupOnce(by)
           \/ Deliver \/ StartRuntime \/ RuntimeReady \/ Attach \/ Snapshot \/ Reconcile
           \/ SessionEnd \/ Stop \/ Crash \/ GraceOver \/ Alarm \/ ExchangeMoves \/ UNCHANGED vars
  BY <1>6 DEF Signal, CleanupOnce, Deliver, StartRuntime, RuntimeReady, Attach, Snapshot,
     Reconcile, SessionEnd, Stop, Crash, GraceOver, Alarm, ExchangeMoves, vars
<1> QED
  BY <1>1, <1>2, <1>3, <1>4, <1>5, <1>6 DEF Next, HandlerStep

\* Only an open changes which campaign is registered; its side and whether it is
\* activated change with it, or when a neutral one is activated.
LEMMA GenStep ==
  ASSUME TypeInv, [Next]_vars
  PROVE  \/ StartOpen /\ ~active
         \/ FinishOppose /\ ~rec.activated /\ rec'.gen = rec.gen
         \/ rec'.gen = rec.gen /\ rec'.dir = rec.dir /\ rec'.activated = rec.activated
<1>1. \A st : SetStatus(st)
        => rec'.gen = rec.gen /\ rec'.dir = rec.dir /\ rec'.activated = rec.activated
  BY DEF SetStatus, TypeInv, TypeOK, RegistryTypeOK
<1>2. FinishOppose => rec'.gen = rec.gen
  BY DEF FinishOppose, KeepStatus, TypeInv, TypeOK, RegistryTypeOK
<1> QED
  BY <1>1, <1>2, RegistryEffect

\* Every step keeps the registry's types, and ids within the bound.
LEMMA RegistryStep ==
  ASSUME TypeInv, [Next]_vars PROVE RegistryTypeOK'
<1> USE DEF TypeInv, TypeOK
<1>1. CASE StartOpen /\ ~active
  <2> DEFINE g == cur + 1
  <2>1. /\ rec' = [gen |-> g, status |-> "OPENING",
                   activated |-> plan[g] # NEUTRAL_GRID,
                   dir |-> IF plan[g] = NEUTRAL_GRID THEN 0 ELSE PlanDir(g)]
        /\ fresh' = TRUE
    BY <1>1 DEF StartOpen
  <2>2. g \in 0 .. MaxCampaigns
    BY <1>1, ExchangeAssumption DEF StartOpen, Numbered, cur, RegistryTypeOK
  <2>3. PlanDir(g) \in {0, 1, -1}
    BY DEF PlanDir
  <2> HIDE DEF g
  <2> QED
    BY <2>1, <2>2, <2>3 DEF RegistryTypeOK, CampaignStatus, ActiveStatus
<1>2. CASE FinishOppose /\ ~rec.activated
  BY <1>2, SignType
     DEF FinishOppose, RegistryTypeOK, StoreTypeOK, CampaignStatus, ActiveStatus
<1>3. CASE \E s \in CampaignStatus : SetStatus(s)
  BY <1>3 DEF SetStatus, RegistryTypeOK
<1>4. CASE rec' = rec /\ (fresh' = fresh \/ fresh' = FALSE)
  BY <1>4 DEF RegistryTypeOK
<1> QED
  BY <1>1, <1>2, <1>3, <1>4, RegistryEffect

\* The last event about a row is one of the buffered ones.
LEMMA LastOfIn ==
  ASSUME NEW S, LastOf(S) \in S, S \subseteq DOMAIN events, events \in Seq(Event)
  PROVE  events[LastOf(S)] \in Event
BY DEF Event

\* Every step keeps the store's types.
LEMMA StoreStep ==
  ASSUME TypeInv, [Next]_vars PROVE StoreTypeOK'
<1> USE DEF TypeInv, TypeOK
<1>1. CASE Deliver
  <2>1. Head(events) \in Event
    BY <1>1 DEF Deliver, AccountTypeOK
  <2> QED
    BY <1>1, <2>1 DEF Deliver, StoreTypeOK, Event
<1>2. CASE Reconcile
  <2>1. CASE UNCHANGED storeVars
    BY <2>1 DEF storeVars, StoreTypeOK
  <2>2. CASE /\ spos' = DrainedPos
             /\ sord' = [c \in Orders |-> Drained(About("ORDER_TRADE_UPDATE", c), sord[c])]
             /\ salgo' = [a \in Algos |-> Drained(About("ALGO_UPDATE", a), salgo[a])]
    <3>1. spos' \in Int
      BY <2>2, LastOfIn DEF DrainedPos, Buffered, Event, StoreTypeOK, AccountTypeOK
    <3>2. ASSUME NEW c \in Orders
          PROVE  Drained(About("ORDER_TRADE_UPDATE", c), sord[c]) \in OrderStatus
      BY LastOfIn DEF About, Buffered, Drained, Event, StoreTypeOK, AccountTypeOK
    <3>3. ASSUME NEW a \in Algos
          PROVE  Drained(About("ALGO_UPDATE", a), salgo[a]) \in AlgoStatus
      BY LastOfIn DEF About, Buffered, Drained, Event, StoreTypeOK, AccountTypeOK
    <3> QED
      BY <2>2, <3>1, <3>2, <3>3 DEF StoreTypeOK
  <2> QED
    BY <1>2, <2>1, <2>2 DEF Reconcile
<1>3. CASE HandlerStep
  BY <1>3 DEF HandlerStep, OpenStep, PlaceStarter, PlaceStop, PlaceTakeProfit, FinishOpen,
     EmergencyClose, FinishUnwind, PlaceLimit, UnwindLimit, ActivateStep, PlaceNeutralStop,
     PlaceNeutralTakeProfit, FinishOppose, NeutralEmergencyClose, DirectionFlipClose,
     CancelOpposite, CleanupStep, SweepLimit, SweepExit, FinishSweep, Recover, Verify,
     ErrorStep, SetFailed, SetDegraded, HaltStore, Raise, HandlerFrame, storeVars, StoreTypeOK
<1>4. CASE \/ Signal \/ StartOpen \/ \E by \in {"loop", "event"} : CleanupOnce(by)
           \/ StartRuntime \/ RuntimeReady \/ Attach \/ Snapshot
           \/ SessionEnd \/ Stop \/ Crash \/ GraceOver \/ Alarm \/ ExchangeMoves \/ UNCHANGED vars
  BY <1>4 DEF Signal, StartOpen, CleanupOnce, StartRuntime, RuntimeReady, Attach, Snapshot,
     SessionEnd, Stop, Crash, GraceOver, Alarm, ExchangeMoves, vars, storeVars, StoreTypeOK
<1> QED
  BY <1>1, <1>2, <1>3, <1>4 DEF Next

\* Every step keeps the two flags Boolean.
LEMMA FlagStep ==
  ASSUME TypeInv, [Next]_vars PROVE FlagTypeOK'
<1> USE DEF TypeInv, TypeOK, FlagTypeOK, KeepFlag, flagVars, Halt, Degrade
<1>1. CASE OpenStep \/ ActivateStep
  BY <1>1 DEF OpenStep, PlaceStarter, PlaceStop, PlaceTakeProfit, FinishOpen,
     EmergencyClose, FinishUnwind, PlaceLimit, UnwindLimit, ActivateStep, PlaceNeutralStop,
     PlaceNeutralTakeProfit, FinishOppose, NeutralEmergencyClose, DirectionFlipClose,
     CancelOpposite, TakeProfitFails
<1>2. CASE CleanupStep \/ Recover \/ Verify \/ ErrorStep
  BY <1>2 DEF CleanupStep, SweepLimit, SweepExit, Swept, FinishSweep, Recover, Verify,
     RecoverNothing, RecoverArmed, RecoverFlat, RecoverFlipped, RecoverPosition,
     ErrorStep, SetFailed, SetDegraded, HaltStore, Raise, StopRuntime, OpenGate
<1>3. CASE \/ Signal \/ StartOpen \/ \E by \in {"loop", "event"} : CleanupOnce(by)
           \/ Deliver \/ StartRuntime \/ RuntimeReady \/ Attach \/ Snapshot \/ Reconcile
           \/ SessionEnd \/ Stop \/ Crash \/ GraceOver \/ Alarm \/ ExchangeMoves \/ UNCHANGED vars
  BY <1>3 DEF Signal, StartOpen, CleanupOnce, Deliver, StartRuntime, RuntimeReady, Attach,
     Snapshot, Reconcile, SessionEnd, Stop, Crash, GraceOver, Alarm, ExchangeMoves, vars, StopRuntime
<1> QED
  BY <1>1, <1>2, <1>3 DEF Next, HandlerStep

\* A step that leaves session, runtime and snapshot alone keeps their types,
LEMMA RuntimeSame ==
  ASSUME RuntimeTypeOK, UNCHANGED runtimeVars PROVE RuntimeTypeOK'
BY DEF RuntimeTypeOK, runtimeVars

\* the empty snapshot is one,
LEMMA NoSnapshotType ==
  NoSnapshot \in [ord : SUBSET Orders, algo : SUBSET Algos, pos : Int]
BY DEF NoSnapshot

\* and so does the end of the runtime.
LEMMA StopRuntimeType ==
  ASSUME RuntimeTypeOK, StopRuntime PROVE RuntimeTypeOK'
BY NoSnapshotType DEF RuntimeTypeOK, StopRuntime

\* Every step keeps the types of the session, the runtime and the snapshot.
LEMMA RuntimeStep ==
  ASSUME TypeInv, [Next]_vars PROVE RuntimeTypeOK'
<1> USE DEF TypeInv, TypeOK
<1>1. CASE OpenStep \/ ActivateStep
  BY <1>1, RuntimeSame DEF OpenStep, PlaceStarter, PlaceStop, PlaceTakeProfit, FinishOpen,
     EmergencyClose, FinishUnwind, PlaceLimit, UnwindLimit, ActivateStep, PlaceNeutralStop,
     PlaceNeutralTakeProfit, FinishOppose, NeutralEmergencyClose, DirectionFlipClose,
     CancelOpposite, HandlerFrame
<1>2. CASE CleanupStep \/ SetFailed \/ SetDegraded \/ HaltStore
  BY <1>2, RuntimeSame, NoSnapshotType DEF CleanupStep, SweepLimit, SweepExit,
     FinishSweep, SetFailed, SetDegraded, HaltStore, HandlerFrame, OpenGate, RuntimeTypeOK
<1>3. CASE Recover \/ Verify
  BY <1>3, RuntimeSame, NoSnapshotType DEF Recover, RecoverNothing, RecoverArmed,
     RecoverFlat, RecoverFlipped, RecoverPosition, Verify, OpenGate, RuntimeTypeOK
<1>4. CASE Raise
  BY <1>4, RuntimeSame, StopRuntimeType DEF Raise
<1>5. CASE Snapshot
  BY <1>5 DEF Snapshot, RuntimeTypeOK, AccountTypeOK
<1>6. CASE Reconcile \/ Stop
  BY <1>6, RuntimeSame, StopRuntimeType DEF Reconcile, Stop
<1>7. CASE SessionEnd \/ Crash
  BY <1>7, StopRuntimeType, NoSnapshotType DEF SessionEnd, Crash, RuntimeTypeOK
<1>8. CASE \/ Signal \/ StartOpen \/ \E by \in {"loop", "event"} : CleanupOnce(by)
           \/ Deliver \/ StartRuntime \/ RuntimeReady \/ Attach
           \/ GraceOver \/ Alarm \/ ExchangeMoves \/ UNCHANGED vars
  BY <1>8, RuntimeSame DEF Signal, StartOpen, CleanupOnce, Deliver, StartRuntime,
     RuntimeReady, Attach, GraceOver, Alarm, ExchangeMoves, vars, runtimeVars, RuntimeTypeOK
<1> QED
  BY <1>1, <1>2, <1>3, <1>4, <1>5, <1>6, <1>7, <1>8 DEF Next, HandlerStep, ErrorStep

\* Leaving, continuing and starting a handler keep its types.
LEMMA HandlerType ==
  ASSUME HandlerTypeOK
  PROVE  /\ Done => HandlerTypeOK'
         /\ UNCHANGED handlerVars => HandlerTypeOK'
         /\ \A call \in Calls, left \in SUBSET (Limits \cup Exits) :
              /\ Goto(call, left) => HandlerTypeOK'
              /\ Catch(call, left) => HandlerTypeOK'
              /\ \A by \in {"open", "loop", "event", "recover"} :
                   Begin(call, left, by) => HandlerTypeOK'
BY DEF HandlerTypeOK, Done, handlerVars, Goto, Catch, Begin

\* Every step keeps the types of the running handler.
LEMMA HandlerTypeStep ==
  ASSUME TypeInv, [Next]_vars PROVE HandlerTypeOK'
<1> USE DEF TypeInv, TypeOK, Calls
<1>0. /\ {} \in SUBSET (Limits \cup Exits)
      /\ Limits \in SUBSET (Limits \cup Exits)
      /\ OppositeEntries \in SUBSET (Limits \cup Exits)
      /\ Leftovers \in SUBSET (Limits \cup Exits)
      /\ \A x : todo \ {x} \in SUBSET (Limits \cup Exits)
      /\ placed \in SUBSET (Limits \cup Exits)
  BY DEF OppositeEntries, Leftovers, RestingLimits, RestingExits, HandlerTypeOK
<1>1. CASE OpenStep
  <2>1. ASSUME NEW l \in Limits, PlaceLimit(l) PROVE HandlerTypeOK'
    <3>1. CASE /\ todo' = todo \ {l} /\ placed' = placed \cup {l}
               /\ UNCHANGED <<pc, caller, pending>>
      BY <3>1 DEF HandlerTypeOK
    <3>2. CASE Catch("halt", {}) \/ Goto("raise", {})
      BY <3>2, <1>0, HandlerType
    <3> QED
      BY <2>1, <3>1, <3>2 DEF PlaceLimit
  <2>2. ASSUME NEW l \in Limits, UnwindLimit(l) PROVE HandlerTypeOK'
    BY <2>2, <1>0, HandlerType DEF UnwindLimit
  <2>3. CASE PlaceStarter \/ PlaceStop \/ PlaceTakeProfit
    BY <2>3, <1>0, HandlerType DEF PlaceStarter, PlaceStop, StopFails, PlaceTakeProfit,
       TakeProfitFails
  <2>4. CASE FinishOpen \/ EmergencyClose \/ FinishUnwind
    BY <2>4, <1>0, HandlerType DEF FinishOpen, EmergencyClose, FinishUnwind
  <2> QED
    BY <1>1, <2>1, <2>2, <2>3, <2>4 DEF OpenStep
<1>2. CASE ActivateStep
  <2>1. CASE PlaceNeutralStop
    <3>1. Goto("ntp", {}) \/ Goto("nemergency", {})
      BY <2>1 DEF PlaceNeutralStop
    <3> QED
      BY <3>1, <1>0, HandlerType
  <2>2. ASSUME NEW l \in Limits, CancelOpposite(l) PROVE HandlerTypeOK'
    BY <2>2, <1>0, HandlerType DEF CancelOpposite
  <2>3. CASE \/ PlaceNeutralTakeProfit \/ FinishOppose
             \/ NeutralEmergencyClose \/ DirectionFlipClose
    BY <2>3, <1>0, HandlerType DEF PlaceNeutralTakeProfit, FinishOppose,
       NeutralEmergencyClose, DirectionFlipClose
  <2> QED
    BY <1>2, <2>1, <2>2, <2>3 DEF ActivateStep
<1>3. CASE CleanupStep
  <2>1. ASSUME NEW x, NEW out, Swept(x, out) PROVE HandlerTypeOK'
    BY <2>1 DEF Swept, HandlerTypeOK
  <2>2. ASSUME NEW l \in Limits, SweepLimit(l) PROVE HandlerTypeOK'
    BY <2>1, <2>2, <1>0, HandlerType DEF SweepLimit
  <2>3. ASSUME NEW x \in Exits, SweepExit(x) PROVE HandlerTypeOK'
    BY <2>1, <2>3, <1>0, HandlerType DEF SweepExit
  <2>4. CASE FinishSweep
    BY <2>4, <1>0, HandlerType DEF FinishSweep, OpenGate
  <2> QED
    BY <1>3, <2>2, <2>3, <2>4 DEF CleanupStep
<1>4. CASE Recover \/ Verify \/ ErrorStep
  BY <1>4, <1>0, HandlerType DEF Recover, RecoverNothing, RecoverArmed, RecoverFlat,
     RecoverFlipped, RecoverPosition, Verify, OpenGate, ErrorStep, SetFailed, SetDegraded,
     HaltStore, Raise, StopRuntime
<1>5. CASE StartOpen
  BY <1>5, <1>0, HandlerType DEF StartOpen
<1>6. CASE \E by \in {"loop", "event"} : CleanupOnce(by)
  BY <1>6, <1>0, HandlerType DEF CleanupOnce, CleanupIfFlat
<1>7. CASE Reconcile \/ SessionEnd \/ Stop \/ Crash
  BY <1>7, <1>0, HandlerType DEF Reconcile, SessionEnd, Stop, Crash, StopRuntime
<1>8. CASE \/ Signal \/ Deliver \/ StartRuntime \/ RuntimeReady \/ Attach \/ Snapshot
           \/ GraceOver \/ Alarm \/ ExchangeMoves \/ UNCHANGED vars
  BY <1>8, HandlerType DEF Signal, Deliver, StartRuntime, RuntimeReady, Attach, Snapshot,
     GraceOver, Alarm, ExchangeMoves, vars
<1> QED
  BY <1>1, <1>2, <1>3, <1>4, <1>5, <1>6, <1>7, <1>8 DEF Next, HandlerStep

\* A handler runs on a numbered campaign, and only an open numbers the next.
LEMMA NumberedStep ==
  ASSUME TypeInv, [Next]_vars PROVE Numbered'
<1> USE DEF TypeInv, Numbered, cur
<1>1. ASSUME HandlerStep PROVE Numbered'
  <2>0. KeepStatus => rec' = rec
    BY DEF KeepStatus
  <2>1. ~StartOpen
    BY <1>1 DEF HandlerStep, OpenStep, PlaceStarter, PlaceStop, PlaceTakeProfit, FinishOpen,
       EmergencyClose, FinishUnwind, PlaceLimit, UnwindLimit, ActivateStep,
       PlaceNeutralStop, PlaceNeutralTakeProfit, FinishOppose, NeutralEmergencyClose,
       DirectionFlipClose, CancelOpposite, CleanupStep, SweepLimit, SweepExit,
       FinishSweep, Recover, Verify, ErrorStep, SetFailed, SetDegraded, HaltStore, Raise,
       StartOpen
  <2>2. rec'.gen = rec.gen /\ (armed' => armed)
    <3>1. rec'.gen = rec.gen
      BY <2>1, GenStep
    <3>2. armed' => armed
      BY <1>1 DEF HandlerStep, OpenStep, PlaceStarter, PlaceStop, PlaceTakeProfit, FinishOpen,
         EmergencyClose, FinishUnwind, PlaceLimit, UnwindLimit, ActivateStep,
         PlaceNeutralStop, PlaceNeutralTakeProfit, FinishOppose, NeutralEmergencyClose,
         DirectionFlipClose, CancelOpposite, CleanupStep, SweepLimit, SweepExit,
         FinishSweep, Recover, RecoverNothing, RecoverArmed, RecoverFlat, RecoverFlipped,
         RecoverPosition, Verify, ErrorStep, SetFailed, SetDegraded, HaltStore, Raise,
         HandlerFrame, runtimeVars, OpenGate, StopRuntime
    <3> QED
      BY <3>1, <3>2
  <2>3. pc # "recover" => cur > 0
    <3>1. pc # "idle"
      BY <1>1 DEF HandlerStep, OpenStep, PlaceStarter, PlaceStop, PlaceTakeProfit, FinishOpen,
         EmergencyClose, FinishUnwind, PlaceLimit, UnwindLimit, ActivateStep,
         PlaceNeutralStop, PlaceNeutralTakeProfit, FinishOppose, NeutralEmergencyClose,
         DirectionFlipClose, CancelOpposite, CleanupStep, SweepLimit, SweepExit,
         FinishSweep, Recover, Verify, ErrorStep, SetFailed, SetDegraded, HaltStore, Raise
    <3> QED
      BY <3>1
  <2>6. pc' # "recover"
    BY <1>1 DEF HandlerStep, OpenStep, PlaceStarter, PlaceStop, StopFails, PlaceTakeProfit,
       TakeProfitFails, FinishOpen, EmergencyClose, FinishUnwind, PlaceLimit, UnwindLimit,
       ActivateStep, PlaceNeutralStop, PlaceNeutralTakeProfit, FinishOppose,
       NeutralEmergencyClose, DirectionFlipClose, CancelOpposite, CleanupStep, SweepLimit,
       SweepExit, Swept, FinishSweep, Recover, RecoverNothing, RecoverArmed, RecoverFlat,
       RecoverFlipped, RecoverPosition, Verify, ErrorStep, SetFailed, SetDegraded, HaltStore,
       Raise, StopRuntime, OpenGate, Goto, Catch, Done
  <2>4. CASE pc # "recover"
    BY <2>2, <2>3, <2>4, <2>6
  <2>5. CASE pc = "recover"
    <3>1. Recover
      BY <1>1, <2>5 DEF HandlerStep, OpenStep, PlaceStarter, PlaceStop, PlaceTakeProfit,
         FinishOpen, EmergencyClose, FinishUnwind, PlaceLimit, UnwindLimit, ActivateStep,
         PlaceNeutralStop, PlaceNeutralTakeProfit, FinishOppose, NeutralEmergencyClose,
         DirectionFlipClose, CancelOpposite, CleanupStep, SweepLimit, SweepExit,
         FinishSweep, Verify, ErrorStep, SetFailed, SetDegraded, HaltStore, Raise
    <3>2. active => cur > 0
      BY DEF active, ActiveStatus
    <3>3. CASE RecoverNothing
      BY <3>1, <3>3, <2>0, <2>2, <2>5, <2>6 DEF RecoverNothing, OpenGate, Done
    <3>4. CASE RecoverArmed \/ RecoverFlat \/ RecoverFlipped \/ RecoverPosition
      BY <3>4, <3>2, <2>2, <2>6 DEF RecoverArmed, RecoverFlat, RecoverFlipped, RecoverPosition
    <3> QED
      BY <3>1, <3>3, <3>4 DEF Recover
  <2> QED
    BY <2>4, <2>5, <2>6
<1>2. CASE StartOpen
  BY <1>2 DEF StartOpen, KeepStatus, Done, Begin, TypeOK, RegistryTypeOK
<1>3. CASE Signal
  BY <1>3 DEF Signal, handlerVars
<1>4. CASE \E by \in {"loop", "event"} : CleanupOnce(by)
  BY <1>4 DEF CleanupOnce, CleanupIfFlat, Begin, Done, runtimeVars
<1>5. CASE Reconcile \/ SessionEnd \/ Stop \/ Crash
  BY <1>5 DEF Reconcile, SessionEnd, Stop, Crash, StopRuntime, KeepFlag,
     flagVars, Done, Begin, runtimeVars
<1>6. CASE \/ Deliver \/ StartRuntime \/ RuntimeReady \/ Attach \/ Snapshot
           \/ GraceOver \/ Alarm \/ ExchangeMoves \/ UNCHANGED vars
  BY <1>6 DEF Deliver, StartRuntime, RuntimeReady, Attach, Snapshot,
     GraceOver, Alarm, ExchangeMoves, vars, handlerVars, runtimeVars, flagVars
<1> QED
  BY <1>1, <1>2, <1>3, <1>4, <1>5, <1>6 DEF Next

\* Plans never change.
LEMMA PlanStep ==
  ASSUME [Next]_vars PROVE plan' = plan
<1>1. CASE HandlerStep
  BY <1>1 DEF HandlerStep, OpenStep, PlaceStarter, PlaceStop, PlaceTakeProfit, FinishOpen,
     EmergencyClose, FinishUnwind, PlaceLimit, UnwindLimit, ActivateStep,
     PlaceNeutralStop, PlaceNeutralTakeProfit, FinishOppose, NeutralEmergencyClose,
     DirectionFlipClose, CancelOpposite, CleanupStep, SweepLimit, SweepExit,
     FinishSweep, Recover, Verify, ErrorStep, SetFailed, SetDegraded, HaltStore, Raise,
     HandlerFrame
<1>2. CASE \/ Signal \/ StartOpen \/ \E by \in {"loop", "event"} : CleanupOnce(by)
           \/ Deliver \/ StartRuntime \/ RuntimeReady \/ Attach \/ Snapshot \/ Reconcile
           \/ SessionEnd \/ Stop \/ Crash \/ GraceOver \/ Alarm \/ ExchangeMoves \/ UNCHANGED vars
  BY <1>2 DEF Signal, StartOpen, CleanupOnce, Deliver, StartRuntime, RuntimeReady, Attach,
     Snapshot, Reconcile, SessionEnd, Stop, Crash, GraceOver, Alarm, ExchangeMoves, vars
<1> QED
  BY <1>1, <1>2 DEF Next

\* The state before the first step has the right types.
LEMMA InitType == Init => TypeInv
<1> SUFFICES ASSUME Init PROVE TypeInv
  OBVIOUS
<1>1. AccountTypeOK /\ plan \in [Gens -> PlanModes]
  <2>1. events \in Seq(Event)
    BY DEF Init, ExchangeInit
  <2> QED
    BY <2>1 DEF Init, ExchangeInit, AccountTypeOK, OrderStatus, AlgoStatus
<1>2. RegistryTypeOK
  <2>1. 0 \in 0 .. MaxCampaigns
    BY ExchangeAssumption
  <2> QED
    BY <2>1 DEF Init, RegistryTypeOK, CampaignStatus
<1>6. FlagTypeOK /\ HandlerTypeOK
  BY DEF Init, FlagTypeOK, HandlerTypeOK
<1>5. StoreTypeOK
  BY DEF Init, StoreTypeOK, OrderStatus, AlgoStatus
<1>3. RuntimeTypeOK
  BY NoSnapshotType DEF Init, RuntimeTypeOK
<1>4. Numbered
  BY DEF Init, Numbered
<1> QED
  BY <1>1, <1>2, <1>3, <1>4, <1>5, <1>6 DEF TypeInv, TypeOK

\* Every step keeps every type.
LEMMA TypeStep == TypeInv /\ [Next]_vars => TypeInv'
<1> SUFFICES ASSUME TypeInv, [Next]_vars PROVE TypeInv'
  OBVIOUS
<1>1. (plan \in [Gens -> PlanModes])'
  BY PlanStep DEF TypeInv, TypeOK
<1> QED
  BY <1>1, AccountStep, RegistryStep, StoreStep, FlagStep, RuntimeStep, HandlerTypeStep,
     NumberedStep DEF TypeInv, TypeOK

\* So the types, and the ids, hold in every state.
LEMMA TypeInvariant == Spec => []TypeInv
BY InitType, TypeStep, PTL DEF Spec

\* All variables keep their types, whatever the exchange, the process and the
\* stream do: a store row is what an event carried, never something else.
THEOREM TypesHold == Spec => []TypeOK
BY TypeInvariant, PTL DEF TypeInv

-----------------------------------------------------------------------------
(* The halt flag and the entry gate. *)

Opening == {"starter", "stop", "tp", "ladder"}

\* What a session's recovery runs: the handlers it may end the recovery from.
Recovering == /\ caller = "recover"
              /\ pc \in {"recover", "verify", "sweep", "nstop", "ntp", "oppose"}

\* No recovery goes on once something has halted, and only a recovery recovers.
GateInv ==
  /\ GateClosedWhenHalted
  /\ Recovering => ~halted
  /\ pc \in {"recover", "verify"} => caller = "recover"
  /\ pc \in Opening => caller = "open"

\* Every step keeps the gate shut after a halt.
LEMMA GateStep == GateInv /\ [Next]_vars => GateInv'
<1> SUFFICES ASSUME GateInv, [Next]_vars PROVE GateInv'
  OBVIOUS
<1> USE DEF GateInv, GateClosedWhenHalted, Recovering, Opening, KeepFlag, flagVars, Halt,
            Degrade, Goto, Catch, Done, Begin
<1>1. CASE OpenStep
  <2>1. CASE PlaceStarter \/ PlaceStop \/ PlaceTakeProfit
    BY <2>1 DEF PlaceStarter, PlaceStop, StopFails, PlaceTakeProfit, TakeProfitFails
  <2>2. CASE FinishOpen \/ FinishUnwind
    BY <2>2 DEF FinishOpen, FinishUnwind
  <2>4. CASE EmergencyClose
    <3>1. \/ Goto("failed", {}) /\ KeepFlag
          \/ Goto("halt", {}) /\ KeepFlag
          \/ Goto("degraded", {}) /\ Halt
      BY <2>4 DEF EmergencyClose
    <3> QED
      BY <2>4, <3>1 DEF EmergencyClose
  <2>3. ASSUME NEW l \in Limits, PlaceLimit(l) \/ UnwindLimit(l) PROVE GateInv'
    BY <2>3 DEF PlaceLimit, UnwindLimit
  <2> QED
    BY <1>1, <2>1, <2>2, <2>3, <2>4 DEF OpenStep
<1>2. CASE ActivateStep
  <2>1. ASSUME NEW l \in Limits, CancelOpposite(l) PROVE GateInv'
    BY <2>1 DEF CancelOpposite
  <2>2. CASE PlaceNeutralStop \/ PlaceNeutralTakeProfit
    BY <2>2 DEF PlaceNeutralStop, PlaceNeutralTakeProfit
  <2>3. CASE FinishOppose \/ NeutralEmergencyClose \/ DirectionFlipClose
    BY <2>3 DEF FinishOppose, NeutralEmergencyClose, DirectionFlipClose
  <2> QED
    BY <1>2, <2>1, <2>2, <2>3 DEF ActivateStep
<1>3. CASE CleanupStep
  <2>1. ASSUME NEW l \in Limits, SweepLimit(l) PROVE GateInv'
    BY <2>1 DEF SweepLimit, Swept
  <2>2. ASSUME NEW x \in Exits, SweepExit(x) PROVE GateInv'
    BY <2>2 DEF SweepExit, Swept
  <2>3. CASE FinishSweep
    BY <2>3 DEF FinishSweep, OpenGate
  <2> QED
    BY <1>3, <2>1, <2>2, <2>3 DEF CleanupStep
<1>4. CASE Recover \/ Verify
  BY <1>4 DEF Recover, RecoverNothing, RecoverArmed, RecoverFlat, RecoverFlipped,
     RecoverPosition, Verify, OpenGate
<1>5. CASE ErrorStep
  BY <1>5 DEF ErrorStep, SetFailed, SetDegraded, HaltStore, Raise, StopRuntime
<1>6. CASE StartOpen
  BY <1>6 DEF StartOpen
<1>7. CASE \E by \in {"loop", "event"} : CleanupOnce(by)
  BY <1>7 DEF CleanupOnce, CleanupIfFlat
<1>8. CASE Reconcile \/ SessionEnd \/ Stop \/ Crash
  BY <1>8 DEF Reconcile, SessionEnd, Stop, Crash, StopRuntime
<1>9. CASE \/ Signal \/ Deliver \/ StartRuntime \/ RuntimeReady \/ Attach \/ Snapshot
           \/ GraceOver \/ Alarm \/ ExchangeMoves \/ UNCHANGED vars
  BY <1>9 DEF Signal, Deliver, StartRuntime, RuntimeReady, Attach, Snapshot,
     GraceOver, Alarm, ExchangeMoves, vars, handlerVars
<1> QED
  BY <1>1, <1>2, <1>3, <1>4, <1>5, <1>6, <1>7, <1>8, <1>9 DEF Next, HandlerStep

\* So the gate stays shut in every behaviour.
LEMMA GateInvariant == Spec => []GateInv
<1>1. Init => GateInv
  BY DEF Init, GateInv, GateClosedWhenHalted, Recovering, Opening
<1> QED
  BY <1>1, GateStep, PTL DEF Spec

\* A halt by the executor, a session or the reconciler is never undone by a
\* recovery that opens the gate after it.
THEOREM HaltShutsGate == Spec => []GateClosedWhenHalted
BY GateInvariant, PTL DEF GateInv

\* The gate reopens over a known position only when both exits of the campaign
\* rest in the store: of the steps that open it, three have no position and
\* the fourth has just checked.
THEOREM GateOpensOverExits == Spec => GateOpensProtected
<1> DEFINE Step == ~gate /\ gate' /\ active /\ spos # 0 => RestingExits = Exits
<1>1. [Next]_vars => Step
  <2> SUFFICES ASSUME Next PROVE Step
    BY DEF vars, flagVars
  <2> USE DEF KeepFlag, flagVars, Halt, Degrade
  <2>1. CASE OpenStep \/ ActivateStep
    BY <2>1 DEF OpenStep, PlaceStarter, PlaceStop, PlaceTakeProfit, FinishOpen,
       EmergencyClose, FinishUnwind, PlaceLimit, UnwindLimit, TakeProfitFails, ActivateStep,
       PlaceNeutralStop, PlaceNeutralTakeProfit, FinishOppose, NeutralEmergencyClose,
       DirectionFlipClose, CancelOpposite
  <2>2. CASE CleanupStep \/ ErrorStep
    BY <2>2 DEF CleanupStep, SweepLimit, SweepExit, Swept, FinishSweep, ErrorStep, SetFailed,
       SetDegraded, HaltStore, Raise, StopRuntime
  <2>3. CASE Recover \/ Verify
    BY <2>3 DEF Recover, RecoverNothing, RecoverArmed, RecoverFlat, RecoverFlipped,
       RecoverPosition, Verify, ExitsRest
  <2>4. CASE \/ Signal \/ StartOpen \/ \E by \in {"loop", "event"} : CleanupOnce(by)
             \/ Deliver \/ StartRuntime \/ RuntimeReady \/ Attach \/ Snapshot \/ Reconcile
             \/ SessionEnd \/ Stop \/ Crash \/ GraceOver \/ Alarm \/ ExchangeMoves
    BY <2>4 DEF Signal, StartOpen, CleanupOnce, Deliver, StartRuntime, RuntimeReady, Attach,
       Snapshot, Reconcile, SessionEnd, Stop, Crash, GraceOver, Alarm, ExchangeMoves, StopRuntime
  <2> QED
    BY <2>1, <2>2, <2>3, <2>4 DEF Next, HandlerStep
<1> QED
  BY <1>1, PTL DEF Spec, GateOpensProtected

-----------------------------------------------------------------------------
(* Entries reach the exchange only from a reconciled session. *)

\* The gate of a running runtime is open only over a live session, and opens
\* are scheduled and run only by a live runtime.
SessionInv ==
  /\ gate /\ runtime # "stopped" => session = "live"
  /\ armed => runtime = "live"
  /\ pc \in Opening => runtime = "live"

\* Every step keeps the gate over a live session.
LEMMA SessionStep == SessionInv /\ [Next]_vars => SessionInv'
<1> SUFFICES ASSUME SessionInv, [Next]_vars PROVE SessionInv'
  OBVIOUS
<1> USE DEF SessionInv, Opening, KeepFlag, flagVars, runtimeVars, Halt, Degrade,
            Goto, Catch, Done, Begin, HandlerFrame
<1>1. CASE OpenStep
  <2>1. CASE PlaceStarter
    BY <2>1 DEF PlaceStarter
  <2>2. CASE PlaceStop \/ PlaceTakeProfit
    BY <2>2 DEF PlaceStop, StopFails, PlaceTakeProfit, TakeProfitFails
  <2>3. CASE FinishOpen \/ EmergencyClose \/ FinishUnwind
    BY <2>3 DEF FinishOpen, EmergencyClose, FinishUnwind
  <2>4. ASSUME NEW l \in Limits, PlaceLimit(l) \/ UnwindLimit(l) PROVE SessionInv'
    BY <2>4 DEF PlaceLimit, UnwindLimit
  <2> QED
    BY <1>1, <2>1, <2>2, <2>3, <2>4 DEF OpenStep
<1>2. CASE ActivateStep
  <2>1. ASSUME NEW l \in Limits, CancelOpposite(l) PROVE SessionInv'
    BY <2>1 DEF CancelOpposite
  <2>2. CASE PlaceNeutralStop \/ PlaceNeutralTakeProfit
    BY <2>2 DEF PlaceNeutralStop, PlaceNeutralTakeProfit
  <2>3. CASE FinishOppose \/ NeutralEmergencyClose \/ DirectionFlipClose
    BY <2>3 DEF FinishOppose, NeutralEmergencyClose, DirectionFlipClose
  <2> QED
    BY <1>2, <2>1, <2>2, <2>3 DEF ActivateStep
<1>3. CASE CleanupStep
  <2>1. ASSUME NEW l \in Limits, SweepLimit(l) PROVE SessionInv'
    BY <2>1 DEF SweepLimit, Swept
  <2>2. ASSUME NEW x \in Exits, SweepExit(x) PROVE SessionInv'
    BY <2>2 DEF SweepExit, Swept
  <2>3. CASE FinishSweep
    BY <2>3 DEF FinishSweep, OpenGate
  <2> QED
    BY <1>3, <2>1, <2>2, <2>3 DEF CleanupStep
<1>4. CASE Recover \/ Verify
  BY <1>4 DEF Recover, RecoverNothing, RecoverArmed, RecoverFlat, RecoverFlipped,
     RecoverPosition, Verify, OpenGate
<1>5. CASE ErrorStep
  BY <1>5 DEF ErrorStep, SetFailed, SetDegraded, HaltStore, Raise, StopRuntime
<1>6. CASE StartOpen
  BY <1>6 DEF StartOpen
<1>7. CASE \E by \in {"loop", "event"} : CleanupOnce(by)
  BY <1>7 DEF CleanupOnce, CleanupIfFlat
<1>8. CASE Reconcile \/ SessionEnd \/ Stop \/ Crash
  BY <1>8 DEF Reconcile, SessionEnd, Stop, Crash, StopRuntime
<1>9. CASE Signal \/ StartRuntime \/ RuntimeReady \/ Attach \/ Snapshot
  BY <1>9 DEF Signal, StartRuntime, RuntimeReady, Attach, Snapshot, handlerVars
<1>10. CASE Deliver \/ GraceOver \/ Alarm \/ ExchangeMoves \/ UNCHANGED vars
  BY <1>10 DEF Deliver, GraceOver, Alarm, ExchangeMoves, vars, handlerVars
<1> QED
  BY <1>1, <1>2, <1>3, <1>4, <1>5, <1>6, <1>7, <1>8, <1>9, <1>10 DEF Next, HandlerStep

\* So it does in every behaviour.
LEMMA SessionInvariant == Spec => []SessionInv
<1>1. Init => SessionInv
  BY DEF Init, SessionInv, Opening
<1> QED
  BY <1>1, SessionStep, PTL DEF Spec

\* Other calls put no entry on the book.
LEMMA NoNewEntry ==
  ASSUME TypeInv, NEW c \in Orders, xord[c] = "NONE", xord'[c] = "NEW"
  PROVE  /\ ~UNCHANGED exchangeVars
         /\ \A n : ~MarketFill(n)
         /\ \A a, d : ~AcceptExit(a, d)
         /\ \A o : ~CancelLimit(o)
         /\ \A a : ~CancelExit(a)
         /\ \A d, q : ~ReduceOnly(d, q)
         /\ ~ExchangeMoves
BY DEF TypeInv, TypeOK, AccountTypeOK, exchangeVars, MarketFill, AcceptExit, CancelLimit,
   CancelExit, ReduceOnly, ExchangeMoves, Fill, Fire, Expire

\* The MARKET starter trades in its own call, and behind the entry gate.
LEMMA StarterBehindGate ==
  ASSUME [Next]_vars, StarterTraded PROVE Ready
<1> USE DEF StarterTraded
<1>1. CASE PlaceStarter
  BY <1>1 DEF PlaceStarter, exchangeVars
<1>2. ASSUME NEW l \in Limits
      PROVE  ~(PlaceLimit(l) \/ UnwindLimit(l) \/ CancelOpposite(l) \/ SweepLimit(l))
  BY DEF PlaceLimit, UnwindLimit, CancelOpposite, SweepLimit
<1>3. ~(PlaceStop \/ PlaceTakeProfit \/ FinishOpen \/ EmergencyClose \/ FinishUnwind)
  BY DEF PlaceStop, PlaceTakeProfit, FinishOpen, EmergencyClose, FinishUnwind
<1>4. ~(\/ PlaceNeutralStop \/ PlaceNeutralTakeProfit \/ FinishOppose
        \/ NeutralEmergencyClose \/ DirectionFlipClose)
  BY DEF PlaceNeutralStop, PlaceNeutralTakeProfit, FinishOppose, NeutralEmergencyClose,
     DirectionFlipClose
<1>5. ~(FinishSweep \/ Recover \/ Verify \/ ErrorStep) /\ \A x : ~SweepExit(x)
  BY DEF SweepExit, FinishSweep, Recover, Verify, ErrorStep, SetFailed, SetDegraded,
     HaltStore, Raise
<1>6. ~(\/ Signal \/ StartOpen \/ \E by \in {"loop", "event"} : CleanupOnce(by)
        \/ Deliver \/ StartRuntime \/ RuntimeReady \/ Attach \/ Snapshot \/ Reconcile
        \/ SessionEnd \/ Stop \/ Crash \/ GraceOver \/ Alarm \/ ExchangeMoves
        \/ UNCHANGED vars)
  BY DEF Signal, StartOpen, CleanupOnce, Deliver, StartRuntime, RuntimeReady, Attach,
     Snapshot, Reconcile, SessionEnd, Stop, Crash, GraceOver, Alarm, ExchangeMoves, vars,
     handlerVars, exchangeVars
<1> QED
  BY <1>1, <1>2, <1>3, <1>4, <1>5, <1>6
     DEF Next, HandlerStep, OpenStep, ActivateStep, CleanupStep

\* An entry the exchange accepts, the starter or a LIMIT of the ladder, comes
\* from a call whose gate check has just passed, on a live session: a signal,
\* its task and the call may lie far apart, with halts, reconnects and restarts
\* between them.
THEOREM EntriesOnlyReconciled == Spec => EntryOnlyReconciled
<1> DEFINE Step == StarterTraded \/ (\E c \in Orders : LimitPlaced(c))
                     => session = "live" /\ runtime = "live" /\ ~halted
<1>1. TypeInv /\ SessionInv /\ [Next]_vars => Step
  <2> SUFFICES ASSUME TypeInv, SessionInv, [Next]_vars,
                      StarterTraded \/ \E c \in Orders : LimitPlaced(c)
               PROVE  session = "live" /\ runtime = "live" /\ ~halted
    OBVIOUS
  <2>1. CASE StarterTraded
    BY <2>1, StarterBehindGate DEF StarterTraded, Ready, SessionInv, Opening
  <2>2. ASSUME NEW c \in Orders, LimitPlaced(c)
        PROVE  session = "live" /\ runtime = "live" /\ ~halted
    <3> USE <2>2, NoNewEntry DEF Effect, LimitPlaced
    <3>1. ~(PlaceStarter \/ PlaceStop \/ PlaceTakeProfit)
      BY DEF PlaceStarter, PlaceStop, PlaceTakeProfit
    <3>2. ~(FinishOpen \/ EmergencyClose \/ FinishUnwind)
      BY DEF FinishOpen, EmergencyClose, FinishUnwind
    <3>3. ASSUME NEW l \in Limits PROVE ~UnwindLimit(l)
      BY DEF UnwindLimit
    <3>4. ASSUME NEW l \in Limits, PlaceLimit(l)
          PROVE  session = "live" /\ runtime = "live" /\ ~halted
      <4>1. Ready
        BY <3>4 DEF PlaceLimit
      <4> QED
        BY <3>4, <4>1 DEF PlaceLimit, Ready, SessionInv, Opening
    <3>5. ~ActivateStep
      BY DEF ActivateStep, PlaceNeutralStop, PlaceNeutralTakeProfit, FinishOppose,
         NeutralEmergencyClose, DirectionFlipClose, CancelOpposite
    <3>6. ~CleanupStep
      BY DEF CleanupStep, SweepLimit, SweepExit, FinishSweep
    <3>7. ~(Recover \/ Verify \/ ErrorStep)
      BY DEF Recover, Verify, ErrorStep, SetFailed, SetDegraded, HaltStore, Raise
    <3>8. ~(\/ Signal \/ StartOpen \/ \E by \in {"loop", "event"} : CleanupOnce(by)
            \/ Deliver \/ StartRuntime \/ RuntimeReady \/ Attach \/ Snapshot
            \/ Reconcile \/ SessionEnd \/ Stop \/ Crash \/ GraceOver \/ Alarm
            \/ ExchangeMoves \/ UNCHANGED vars)
      BY DEF Signal, StartOpen, CleanupOnce, Deliver, StartRuntime, RuntimeReady, Attach,
         Snapshot, Reconcile, SessionEnd, Stop, Crash, GraceOver, Alarm, vars
    <3> QED
      BY <3>1, <3>2, <3>3, <3>4, <3>5, <3>6, <3>7, <3>8 DEF Next, HandlerStep, OpenStep
  <2> QED
    BY <2>1, <2>2
<1>2. Spec => []TypeInv
  BY InitType, TypeStep, PTL DEF Spec
<1> QED
  BY <1>1, <1>2, SessionInvariant, PTL DEF Spec, EntryOnlyReconciled

-----------------------------------------------------------------------------
(* A campaign in trouble halts the account. *)

\* Without a crash, every step halts a campaign it degrades.
LEMMA DegradedStep ==
  ASSUME "crash" \notin Adversary, TypeInv, DegradedHalts, [Next]_vars
  PROVE  DegradedHalts'
<1> USE DEF DegradedHalts, KeepFlag, flagVars, Halt, Degrade, Goto, Catch, Done, Begin
<1>0. /\ KeepStatus => rec' = rec
      /\ \A s : SetStatus(s) => rec'.status = s
  BY DEF KeepStatus, SetStatus, TypeInv, TypeOK, RegistryTypeOK
<1>1. CASE OpenStep
  <2>1. CASE PlaceStarter \/ PlaceStop \/ PlaceTakeProfit
    BY <1>0, <2>1 DEF PlaceStarter, PlaceStop, StopFails, PlaceTakeProfit, TakeProfitFails
  <2>2. CASE FinishOpen \/ FinishUnwind
    BY <1>0, <2>2 DEF FinishOpen, FinishUnwind, MarkActive
  <2>3. CASE EmergencyClose
    <3>1. \/ KeepStatus /\ KeepFlag
          \/ Goto("halt", {})
          \/ Halt
      BY <2>3 DEF EmergencyClose
    <3> QED
      BY <1>0, <2>3, <3>1 DEF EmergencyClose
  <2>4. ASSUME NEW l \in Limits, PlaceLimit(l) \/ UnwindLimit(l) PROVE DegradedHalts'
    BY <1>0, <2>4 DEF PlaceLimit, UnwindLimit
  <2> QED
    BY <1>1, <2>1, <2>2, <2>3, <2>4 DEF OpenStep
<1>2. CASE ActivateStep
  <2>1. ASSUME NEW l \in Limits, CancelOpposite(l) PROVE DegradedHalts'
    BY <1>0, <2>1 DEF CancelOpposite
  <2>2. CASE PlaceNeutralStop \/ PlaceNeutralTakeProfit
    BY <1>0, <2>2 DEF PlaceNeutralStop, PlaceNeutralTakeProfit
  <2>3. CASE FinishOppose
    BY <1>0, <2>3 DEF FinishOppose, TypeInv, TypeOK, RegistryTypeOK
  <2>4. CASE NeutralEmergencyClose \/ DirectionFlipClose
    BY <1>0, <2>4 DEF NeutralEmergencyClose, DirectionFlipClose
  <2> QED
    BY <1>2, <2>1, <2>2, <2>3, <2>4 DEF ActivateStep
<1>3. CASE CleanupStep
  <2>1. ASSUME NEW l \in Limits, SweepLimit(l) PROVE DegradedHalts'
    BY <1>0, <2>1 DEF SweepLimit, Swept
  <2>2. ASSUME NEW x \in Exits, SweepExit(x) PROVE DegradedHalts'
    BY <1>0, <2>2 DEF SweepExit, Swept
  <2>3. CASE FinishSweep
    BY <1>0, <2>3 DEF FinishSweep, MarkClosed, OpenGate
  <2> QED
    BY <1>3, <2>1, <2>2, <2>3 DEF CleanupStep
<1>4. CASE Recover \/ Verify
  BY <1>0, <1>4 DEF Recover, RecoverNothing, RecoverArmed, RecoverFlat, RecoverFlipped,
     RecoverPosition, Verify, OpenGate
<1>5. CASE ErrorStep
  BY <1>0, <1>5 DEF ErrorStep, SetFailed, SetDegraded, HaltStore, Raise, StopRuntime
<1>6. CASE StartOpen
  BY <1>0, <1>6 DEF StartOpen
<1>7. CASE \E by \in {"loop", "event"} : CleanupOnce(by)
  BY <1>7 DEF CleanupOnce
<1>8. CASE Reconcile \/ SessionEnd \/ Stop
  BY <1>8 DEF Reconcile, SessionEnd, Stop, StopRuntime
<1>9. CASE \/ Signal \/ Deliver \/ StartRuntime \/ RuntimeReady \/ Attach \/ Snapshot
           \/ GraceOver \/ Alarm \/ ExchangeMoves \/ UNCHANGED vars
  BY <1>9 DEF Signal, Deliver, StartRuntime, RuntimeReady, Attach, Snapshot,
     GraceOver, Alarm, ExchangeMoves, vars, handlerVars
<1> QED
  BY <1>1, <1>2, <1>3, <1>4, <1>5, <1>6, <1>7, <1>8, <1>9 DEF Next, HandlerStep, Crash

\* While the process survives, a campaign is marked DEGRADED only on the way to
\* a halt of the store, which no later step lifts.
THEOREM TroubleHalts ==
  ASSUME "crash" \notin Adversary
  PROVE  Spec => []DegradedHalts
<1>1. Init => TypeInv /\ DegradedHalts
  BY InitType DEF Init, DegradedHalts
<1>2. TypeInv /\ DegradedHalts /\ [Next]_vars => (TypeInv /\ DegradedHalts)'
  BY TypeStep, DegradedStep
<1> QED
  BY <1>1, <1>2, PTL DEF Spec

-----------------------------------------------------------------------------
(* GridCampaign implements CampaignLifecycle. *)

\* A campaign an open may still have to close: it is active, or it was given
\* up with a halt.
GivenUp == active \/ (rec.status = "FAILED" /\ halted)

\* What each phase of a handler knows of the campaign's status.  A neutral open
\* that activates its campaign (caller "open" after the ladder) has a position.
PhaseInv ==
  /\ armed => ~active /\ pc \in {"idle", "recover"}
  /\ pc = "idle" => caller = "none"
  /\ pc \in Opening \cup {"unwind"} => rec.status = "OPENING"
  /\ pc \in {"nstop", "ntp", "oppose", "nemergency", "flip", "sweep", "verify"} => active
  /\ pc \in {"emergency", "failed", "degraded"} => GivenUp
  /\ pc = "halt" => rec.status \in {"FAILED", "DEGRADED"}
  /\ pc = "sweep" => /\ caller # "open"
                     /\ caller = "recover" \/ rec.status # "OPENING"
  /\ caller = "open" /\ pc \notin Opening
       => spos # 0 \/ (pc = "raise" /\ rec.status = "OPENING")
  /\ pc = "raise" /\ caller = "open" => GivenUp

\* What the registry's updates do to the status, and to whether it is active.
LEMMA StatusFacts ==
  ASSUME TypeInv
  PROVE  /\ KeepStatus => rec' = rec
         /\ \A s : SetStatus(s) => rec'.status = s
BY DEF KeepStatus, SetStatus, TypeInv, TypeOK, RegistryTypeOK

\* Every step keeps what the phases know.
LEMMA PhaseStep ==
  ASSUME TypeInv, GateInv, PhaseInv, [Next]_vars PROVE PhaseInv'
<1> USE StatusFacts
    DEF PhaseInv, Opening, GivenUp, active, ActiveStatus, KeepFlag, flagVars, Halt,
        Degrade, Goto, Catch, Done, Begin, HandlerFrame, runtimeVars, storeVars
<1>1. CASE OpenStep
  <2>1. CASE PlaceStarter
    BY <2>1 DEF PlaceStarter
  <2>2. CASE PlaceStop
    BY <2>2 DEF PlaceStop, StopFails
  <2>3. CASE PlaceTakeProfit
    BY <2>3 DEF PlaceTakeProfit, TakeProfitFails
  <2>4. CASE FinishOpen
    BY <2>4 DEF FinishOpen, MarkActive
  <2>5. CASE EmergencyClose
    <3>1. \/ Goto("failed", {}) /\ KeepStatus /\ KeepFlag
          \/ Goto("halt", {}) /\ Degrade
          \/ Goto("degraded", {}) /\ KeepStatus /\ Halt
      BY <2>5 DEF EmergencyClose
    <3> QED
      BY <2>5, <3>1 DEF EmergencyClose
  <2>6. ASSUME NEW l \in Limits, PlaceLimit(l) PROVE PhaseInv'
    BY <2>6 DEF PlaceLimit
  <2>7. ASSUME NEW l \in Limits, UnwindLimit(l) PROVE PhaseInv'
    BY <2>7 DEF UnwindLimit
  <2>8. CASE FinishUnwind
    BY <2>8 DEF FinishUnwind
  <2> QED
    BY <1>1, <2>1, <2>2, <2>3, <2>4, <2>5, <2>6, <2>7, <2>8 DEF OpenStep
<1>2. CASE ActivateStep
  <2>1. ASSUME NEW l \in Limits, CancelOpposite(l) PROVE PhaseInv'
    BY <2>1 DEF CancelOpposite
  <2>2. CASE PlaceNeutralStop
    BY <2>2 DEF PlaceNeutralStop
  <2>3. CASE PlaceNeutralTakeProfit
    BY <2>3 DEF PlaceNeutralTakeProfit
  <2>4. CASE FinishOppose
    <3>1. active'
      BY <2>4 DEF FinishOppose, TypeInv, TypeOK, RegistryTypeOK
    <3> QED
      BY <2>4, <3>1 DEF FinishOppose
  <2>5. CASE NeutralEmergencyClose
    BY <2>5 DEF NeutralEmergencyClose
  <2>6. CASE DirectionFlipClose
    BY <2>6 DEF DirectionFlipClose
  <2> QED
    BY <1>2, <2>1, <2>2, <2>3, <2>4, <2>5, <2>6 DEF ActivateStep
<1>3. CASE CleanupStep
  <2>1. ASSUME NEW l \in Limits, SweepLimit(l) PROVE PhaseInv'
    BY <2>1 DEF SweepLimit, Swept
  <2>2. ASSUME NEW x \in Exits, SweepExit(x) PROVE PhaseInv'
    BY <2>2 DEF SweepExit, Swept
  <2>3. CASE FinishSweep
    BY <2>3 DEF FinishSweep, MarkClosed, OpenGate
  <2> QED
    BY <1>3, <2>1, <2>2, <2>3 DEF CleanupStep
<1>4. CASE Recover
  <2>1. CASE RecoverNothing \/ RecoverArmed
    BY <1>4, <2>1 DEF GateInv, Recovering, Recover, RecoverNothing, RecoverArmed, OpenGate
  <2>2. CASE RecoverFlat \/ RecoverFlipped \/ RecoverPosition
    BY <1>4, <2>2 DEF GateInv, Recover, RecoverFlat, RecoverFlipped, RecoverPosition
  <2> QED
    BY <1>4, <2>1, <2>2 DEF Recover
<1>5. CASE Verify
  BY <1>5 DEF GateInv, Verify, OpenGate
<1>6. CASE ErrorStep
  <2>1. CASE SetFailed
    BY <2>1 DEF SetFailed
  <2>2. CASE SetDegraded
    BY <2>2 DEF SetDegraded
  <2>3. CASE HaltStore
    BY <2>3 DEF HaltStore
  <2>4. CASE Raise
    BY <2>4 DEF Raise, StopRuntime
  <2> QED
    BY <1>6, <2>1, <2>2, <2>3, <2>4 DEF ErrorStep
<1>7. CASE StartOpen
  BY <1>7 DEF StartOpen
<1>8. CASE Signal
  BY <1>8 DEF Signal, Ready, handlerVars
<1>9. CASE \E by \in {"loop", "event"} : CleanupOnce(by)
  BY <1>9 DEF CleanupOnce, CleanupIfFlat
<1>10. CASE Reconcile
  BY <1>10 DEF Reconcile, StopRuntime
<1>11. CASE SessionEnd \/ Stop \/ Crash
  BY <1>11 DEF SessionEnd, Stop, Crash, StopRuntime
<1>12. CASE Deliver \/ StartRuntime \/ RuntimeReady \/ Attach \/ Snapshot
  BY <1>12 DEF Deliver, StartRuntime, RuntimeReady, Attach, Snapshot, handlerVars
<1>13. CASE GraceOver \/ Alarm \/ ExchangeMoves \/ UNCHANGED vars
  BY <1>13 DEF GraceOver, Alarm, ExchangeMoves, vars, handlerVars
<1> QED
  BY <1>1, <1>2, <1>3, <1>4, <1>5, <1>6, <1>7, <1>8, <1>9, <1>10, <1>11, <1>12, <1>13
     DEF Next, HandlerStep

\* So the phases know it in every state.
LEMMA PhaseInvariant == Spec => []PhaseInv
<1>1. Init => PhaseInv
  BY DEF Init, PhaseInv, Opening, active, ActiveStatus, GivenUp
<1>2. TypeInv /\ GateInv /\ PhaseInv /\ [Next]_vars => PhaseInv'
  BY PhaseStep
<1> QED
  BY <1>1, <1>2, TypeInvariant, GateInvariant, PTL DEF Spec

==============================================================================
