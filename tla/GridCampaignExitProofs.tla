----------------------- MODULE GridCampaignExitProofs ------------------------
(***************************************************************************)
(* An activated campaign that is ACTIVE has its exits, and no campaign is  *)
(* left OPENING.                                                           *)
(*                                                                         *)
(* The exits a campaign relies on were placed by the call before, or by an *)
(* earlier run of the process, of which a recovery only knows the store.  So*)
(* the invariant has two parts: the store and the stream are truthful about*)
(* exits (StoreInv), and each phase knows which exits were placed and which*)
(* side they protect (ExitInv).  While a campaign is OPENING, the store has*)
(* not heard of its orders (OpeningInv).                                   *)
(***************************************************************************)
EXTENDS GridCampaignProofs

(* An ACTIVE campaign has its exits. *)

Placed(x)   == xalgo[Own(x)] # "NONE"
Protects(d) == (\A x \in Exits : Placed(x)) /\ exitDir[cur] = d

\* The store and the stream know of no exit that was not placed, and later
\* campaigns have none.
StoreInv ==
  /\ \A a \in Algos : salgo[a] # "NONE" => xalgo[a] # "NONE"
  /\ \A i \in DOMAIN events :
       events[i].kind = "ALGO_UPDATE" => xalgo[events[i].id] # "NONE"
  /\ \A a \in Algos : xalgo[a] # "NONE" => a[1] <= cur

\* What each phase of a handler knows of the campaign's exits, and what every
\* campaign that got through its open or its activation has.
ExitPhases ==
  /\ pc \in {"starter", "stop", "tp"} => ~neutral
  /\ pc \in {"nstop", "ntp"} => neutral /\ ~rec.activated
  /\ pc = "oppose" => neutral
  /\ pc = "ladder" /\ neutral => ~rec.activated
  /\ pc = "tp" => Placed("STOP")
  /\ pc = "ladder" /\ ~neutral => Protects(rec.dir)
  /\ pc = "ntp" => Placed("STOP")
  /\ pc = "oppose" /\ ~rec.activated => Protects(Sign(spos))
ExitsOf ==
  /\ ~neutral => rec.activated
  /\ ~neutral => \A x \in Exits : Placed(x) => exitDir[cur] = rec.dir
  /\ rec.activated /\ (neutral \/ rec.status = "ACTIVE") => Protects(rec.dir)
ExitInv == cur > 0 => ExitPhases /\ ExitsOf

\* An event on the stream was there before or has just been fed to it,
LEMMA FeedEvents ==
  ASSUME events \in Seq(Event), NEW evs \in Seq(Event), Feed(evs), NEW i \in DOMAIN events'
  PROVE  \/ i \in DOMAIN events /\ events'[i] = events[i]
         \/ \E j \in DOMAIN evs : events'[i] = evs[j]
<1>1. CASE events' = events
  BY <1>1
<1>2. CASE events' = events \o evs
  <2>1. /\ DOMAIN events = 1 .. Len(events)
        /\ DOMAIN evs = 1 .. Len(evs)
        /\ i \in 1 .. Len(events) + Len(evs)
    BY <1>2
  <2>2. CASE i <= Len(events)
    BY <1>2, <2>1, <2>2
  <2>3. CASE i > Len(events)
    <3>1. i - Len(events) \in DOMAIN evs
      BY <2>1, <2>3
    <3>2. events'[i] = evs[i - Len(events)]
      BY <1>2, <2>1, <2>3
    <3> QED
      BY <3>1, <3>2
  <2> QED
    BY <2>1, <2>2, <2>3
<1> QED
  BY <1>1, <1>2 DEF Feed

\* alone,
LEMMA FeedOne ==
  ASSUME events \in Seq(Event), NEW e \in Event, Feed(<<e>>), NEW i \in DOMAIN events'
  PROVE  (i \in DOMAIN events /\ events'[i] = events[i]) \/ events'[i] = e
<1>1. <<e>> \in Seq(Event) /\ \A j \in DOMAIN <<e>> : <<e>>[j] = e
  OBVIOUS
<1> DEFINE evs == <<e>>
<1> HIDE DEF evs
<1> QED
  BY <1>1, FeedEvents DEF evs

\* or with another.
LEMMA FeedTwo ==
  ASSUME events \in Seq(Event), NEW e \in Event, NEW f \in Event, Feed(<<e, f>>),
         NEW i \in DOMAIN events'
  PROVE  (i \in DOMAIN events /\ events'[i] = events[i]) \/ events'[i] \in {e, f}
<1>1. <<e, f>> \in Seq(Event) /\ \A j \in DOMAIN <<e, f>> : <<e, f>>[j] \in {e, f}
  OBVIOUS
<1> QED
  BY <1>1, FeedEvents

\* Steps that place no exit leave the placed ones, and their side, as they are.
LEMMA QuietExits ==
  ASSUME TypeInv, QuietEffect
  PROVE  /\ exitDir' = exitDir
         /\ \A a \in Algos : xalgo'[a] = "NONE" <=> xalgo[a] = "NONE"
<1> USE DEF TypeInv, TypeOK, AccountTypeOK
<1>1. CASE ExchangeMoves
  BY <1>1 DEF ExchangeMoves, Fill, Fire, Expire
<1>2. CASE \E a \in Algos : xalgo[a] = "NEW" /\ CancelExit(a)
  BY <1>2 DEF CancelExit
<1> QED
  BY <1>1, <1>2 DEF QuietEffect, MarketFill, AcceptLimit, CancelLimit, exchangeVars

\* The events such a step adds are about exits that were placed.
LEMMA QuietEvents ==
  ASSUME TypeInv, StoreInv, QuietEffect, NEW i \in DOMAIN events',
         events'[i].kind = "ALGO_UPDATE"
  PROVE  xalgo'[events'[i].id] # "NONE"
<1> USE DEF TypeInv, TypeOK
<1>1. /\ events \in Seq(Event)
      /\ \A j \in DOMAIN events : events[j].kind = "ALGO_UPDATE" => events[j].id \in Algos
  BY DEF AccountTypeOK, Event
<1>2. ASSUME NEW j \in DOMAIN events, events'[i] = events[j]
      PROVE  xalgo'[events'[i].id] # "NONE"
  BY <1>1, <1>2, QuietExits DEF StoreInv
<1>3. CASE UNCHANGED exchangeVars /\ (events' = events \/ events' = <<>>)
  BY <1>2, <1>3
<1>4. CASE UNCHANGED exchangeVars /\ events # <<>> /\ events' = Tail(events)
  <2>1. i + 1 \in DOMAIN events /\ events'[i] = events[i + 1]
    BY <1>1, <1>4
  <2> QED
    BY <1>2, <2>1
<1>5. ASSUME NEW n \in Int, MarketFill(n) PROVE xalgo'[events'[i].id] # "NONE"
  <2>1. PosEvent(xpos + n) \in Event /\ PosEvent(xpos + n).kind # "ALGO_UPDATE"
    BY EventTypes DEF AccountTypeOK, PosEvent
  <2> QED
    BY <1>1, <1>2, <1>5, <2>1, FeedOne DEF MarketFill
<1>6. ASSUME cur > 0, NEW l \in Limits, AcceptLimit(Own(l)) \/ CancelLimit(Own(l))
      PROVE  xalgo'[events'[i].id] # "NONE"
  <2> DEFINE c == Own(l)
  <2>0. c \in Orders
    BY <1>6, OwnType
  <2> HIDE DEF c
  <2>1. \A st \in OrderStatus :
          OrdEvent(c, st) \in Event /\ OrdEvent(c, st).kind # "ALGO_UPDATE"
    BY <2>0, EventTypes DEF OrdEvent
  <2>2. \E st \in OrderStatus : Feed(<<OrdEvent(c, st)>>)
    BY <1>6 DEF AcceptLimit, CancelLimit, OrderStatus, c
  <2> QED
    BY <1>1, <1>2, <2>1, <2>2, FeedOne
<1>7. ASSUME NEW a \in Algos, xalgo[a] = "NEW", CancelExit(a)
      PROVE  xalgo'[events'[i].id] # "NONE"
  <2>1. AlgoEvent(a, "CANCELED") \in Event /\ AlgoEvent(a, "CANCELED").id = a
    BY EventTypes DEF AlgoStatus, AlgoEvent
  <2>2. xalgo'[a] # "NONE"
    BY <1>7 DEF CancelExit, AccountTypeOK
  <2> QED
    BY <1>1, <1>2, <1>7, <2>1, <2>2, FeedOne DEF CancelExit
<1>8. ASSUME NEW c \in Orders, Fill(c) PROVE xalgo'[events'[i].id] # "NONE"
  <2>0. xpos + Side(c) \in Int
    BY SideType DEF AccountTypeOK
  <2>1. /\ PosEvent(xpos + Side(c)) \in Event /\ OrdEvent(c, "FILLED") \in Event
        /\ PosEvent(xpos + Side(c)).kind # "ALGO_UPDATE"
        /\ OrdEvent(c, "FILLED").kind # "ALGO_UPDATE"
    BY <2>0, EventTypes DEF OrderStatus, PosEvent, OrdEvent
  <2> QED
    BY <1>1, <1>2, <1>8, <2>1, FeedTwo DEF Fill
<1>9. ASSUME NEW a \in Algos, Fire(a) \/ Expire(a) PROVE xalgo'[events'[i].id] # "NONE"
  <2>1. /\ \A st \in AlgoStatus : AlgoEvent(a, st) \in Event /\ AlgoEvent(a, st).id = a
        /\ PosEvent(0) \in Event /\ PosEvent(0).kind # "ALGO_UPDATE"
    BY EventTypes DEF AlgoEvent, PosEvent
  <2>2. xalgo'[a] # "NONE"
    BY <1>9 DEF Fire, Expire, AccountTypeOK
  <2>3. \/ Feed(<<AlgoEvent(a, "FINISHED"), PosEvent(0)>>)
        \/ Feed(<<AlgoEvent(a, "EXPIRED")>>)
    BY <1>9 DEF Fire, Expire
  <2> QED
    BY <1>1, <1>2, <2>1, <2>2, <2>3, FeedOne, FeedTwo DEF AlgoStatus
<1> QED
  BY <1>3, <1>4, <1>5, <1>6, <1>7, <1>8, <1>9 DEF QuietEffect, ExchangeMoves

\* Placing an exit of the running campaign adds it and announces it.
LEMMA PlacedExit ==
  ASSUME TypeInv, cur > 0, NEW x \in Exits, NEW d \in {0, 1, -1}, AcceptExit(Own(x), d)
  PROVE  /\ exitDir' = [exitDir EXCEPT ![cur] = d] /\ exitDir'[cur] = d
         /\ xalgo'[Own(x)] # "NONE"
         /\ \A a \in Algos : a # Own(x) => xalgo'[a] = xalgo[a]
         /\ \A i \in DOMAIN events' :
              \/ i \in DOMAIN events /\ events'[i] = events[i]
              \/ events'[i] = AlgoEvent(Own(x), "NEW")
<1>1. Own(x) \in Algos /\ Own(x)[1] = cur /\ cur \in Gens
  BY OwnType DEF Own, cur, Gens, TypeInv, TypeOK, RegistryTypeOK
<1>2. AlgoEvent(Own(x), "NEW") \in Event
  BY <1>1, EventTypes DEF AlgoStatus
<1>3. \A i \in DOMAIN events' : \/ i \in DOMAIN events /\ events'[i] = events[i]
                                \/ events'[i] = AlgoEvent(Own(x), "NEW")
  BY <1>2, FeedOne DEF AcceptExit, TypeInv, TypeOK, AccountTypeOK
<1> QED
  BY <1>1, <1>3 DEF AcceptExit, TypeInv, TypeOK, AccountTypeOK

\* A step that places an exit, in full.
LEMMA ExitPlaced ==
  ASSUME TypeInv, ExitStep, ~UNCHANGED <<exchangeVars, events>>
  PROVE  /\ cur > 0
         /\ \/ PlaceStop /\ AcceptExit(Own("STOP"), rec.dir)
            \/ PlaceTakeProfit /\ AcceptExit(Own("TP"), rec.dir)
            \/ PlaceNeutralStop /\ AcceptExit(Own("STOP"), Sign(spos))
            \/ PlaceNeutralTakeProfit /\ AcceptExit(Own("TP"), Sign(spos))
         /\ rec.dir \in {0, 1, -1} /\ Sign(spos) \in {0, 1, -1}
<1>1. cur > 0
  BY DEF ExitStep, PlaceStop, PlaceTakeProfit, PlaceNeutralStop, PlaceNeutralTakeProfit,
     TypeInv, Numbered
<1> QED
  BY <1>1, ExitEffect, SignType DEF TypeInv, TypeOK, RegistryTypeOK, StoreTypeOK

\* No step takes an exit's placement back.
LEMMA PlacedStays ==
  ASSUME TypeInv, [Next]_vars
  PROVE  \A a \in Algos : xalgo[a] # "NONE" => xalgo'[a] # "NONE"
<1>1. CASE QuietEffect
  BY <1>1, QuietExits
<1>2. CASE ExitStep /\ ~UNCHANGED <<exchangeVars, events>>
  <2>1. \E x \in Exits : \E d \in {0, 1, -1} : AcceptExit(Own(x), d)
    BY <1>2, ExitPlaced DEF Exits
  <2> QED
    BY <1>2, <2>1, ExitPlaced, PlacedExit
<1> QED
  BY <1>1, <1>2, EffectStep, SameEffect

\* Every step leaves the store and the stream truthful about exits.
LEMMA StoreInvStep ==
  ASSUME TypeInv, StoreInv, [Next]_vars PROVE StoreInv'
<1> USE DEF TypeInv, TypeOK
<1>1. \A a \in Algos : salgo'[a] # "NONE" => xalgo'[a] # "NONE"
  <2>1. CASE Deliver
    <3>1. Head(events) = events[1] /\ 1 \in DOMAIN events /\ Head(events) \in Event
      BY <2>1 DEF Deliver, AccountTypeOK
    <3>2. \A a \in Algos : salgo'[a] # "NONE"
            => salgo[a] # "NONE" \/ (Head(events).kind = "ALGO_UPDATE" /\ a = Head(events).id)
      BY <2>1, <3>1 DEF Deliver, StoreTypeOK, Event
    <3> QED
      BY <3>1, <3>2, PlacedStays DEF StoreInv
  <2>2. CASE Reconcile
    <3>1. ASSUME NEW a \in Algos, salgo'[a] # "NONE"
          PROVE  \/ salgo[a] # "NONE"
                 \/ \E i \in DOMAIN events : events[i].kind = "ALGO_UPDATE" /\ events[i].id = a
      BY <2>2, <3>1 DEF Reconcile, storeVars, Drained, About, Buffered
    <3> QED
      BY <3>1, PlacedStays DEF StoreInv
  <2>3. CASE salgo' = salgo
    BY <2>3, PlacedStays DEF StoreInv
  <2>4. CASE HandlerStep
    BY <2>3, <2>4 DEF HandlerStep, OpenStep, PlaceStarter, PlaceStop, PlaceTakeProfit,
       FinishOpen, EmergencyClose, FinishUnwind, PlaceLimit, UnwindLimit, ActivateStep,
       PlaceNeutralStop, PlaceNeutralTakeProfit, FinishOppose, NeutralEmergencyClose,
       DirectionFlipClose, CancelOpposite, CleanupStep, SweepLimit, SweepExit, FinishSweep,
       Recover, Verify, ErrorStep, SetFailed, SetDegraded, HaltStore, Raise, HandlerFrame,
       storeVars
  <2>5. CASE \/ Signal \/ StartOpen \/ \E by \in {"loop", "event"} : CleanupOnce(by)
             \/ StartRuntime \/ RuntimeReady \/ Attach \/ Snapshot
             \/ SessionEnd \/ Stop \/ Crash \/ GraceOver \/ Alarm \/ ExchangeMoves \/ UNCHANGED vars
    BY <2>3, <2>5 DEF Signal, StartOpen, CleanupOnce, StartRuntime, RuntimeReady, Attach,
       Snapshot, SessionEnd, Stop, Crash, GraceOver, Alarm, ExchangeMoves, vars, storeVars
  <2> QED
    BY <2>1, <2>2, <2>4, <2>5 DEF Next
<1>2. \A i \in DOMAIN events' :
        events'[i].kind = "ALGO_UPDATE" => xalgo'[events'[i].id] # "NONE"
  <2>1. CASE QuietEffect
    BY <2>1, QuietEvents
  <2>2. CASE ExitStep /\ ~UNCHANGED <<exchangeVars, events>>
    <3>1. cur > 0 /\ \E x \in Exits : \E d \in {0, 1, -1} : AcceptExit(Own(x), d)
      BY <2>2, ExitPlaced DEF Exits
    <3>2. PICK x \in Exits, d \in {0, 1, -1} : AcceptExit(Own(x), d)
      BY <3>1
    <3>3. AlgoEvent(Own(x), "NEW").id = Own(x)
      BY DEF AlgoEvent
    <3>4. \A j \in DOMAIN events : events[j].kind = "ALGO_UPDATE" => events[j].id \in Algos
      BY DEF AccountTypeOK, Event
    <3> QED
      BY <3>1, <3>2, <3>3, <3>4, PlacedExit, PlacedStays DEF StoreInv
  <2> QED
    BY <2>1, <2>2, EffectStep, SameEffect
<1>3. \A a \in Algos : xalgo'[a] # "NONE" => a[1] <= cur'
  <2>1. cur <= cur'
    <3>1. CASE StartOpen /\ ~active
      BY <3>1 DEF StartOpen, RegistryTypeOK, cur
    <3>2. CASE rec'.gen = rec.gen
      BY <3>2 DEF RegistryTypeOK, cur
    <3> QED
      BY <3>1, <3>2, GenStep
  <2>2. CASE QuietEffect
    <3>1. \A a \in Algos : xalgo'[a] # "NONE" => a[1] <= cur
      BY <2>2, QuietExits DEF StoreInv
    <3> QED
      BY <2>1, <3>1, RegistryStep DEF Algos, Gens, cur, RegistryTypeOK
  <2>3. CASE ExitStep /\ ~UNCHANGED <<exchangeVars, events>>
    <3>1. cur > 0 /\ \E x \in Exits : \E d \in {0, 1, -1} : AcceptExit(Own(x), d)
      BY <2>3, ExitPlaced DEF Exits
    <3>2. PICK x \in Exits, d \in {0, 1, -1} : AcceptExit(Own(x), d)
      BY <3>1
    <3>3. Own(x)[1] = cur
      BY DEF Own
    <3>4. \A a \in Algos : xalgo'[a] # "NONE" => xalgo[a] # "NONE" \/ a = Own(x)
      BY <3>1, <3>2, PlacedExit
    <3>5. \A a \in Algos : xalgo'[a] # "NONE" => a[1] <= cur
      BY <3>3, <3>4 DEF StoreInv, cur, RegistryTypeOK
    <3> QED
      BY <2>1, <3>5, RegistryStep DEF Algos, Gens, cur, RegistryTypeOK
  <2> QED
    BY <2>2, <2>3, EffectStep, SameEffect
<1> QED
  BY <1>1, <1>2, <1>3 DEF StoreInv

\* The same campaign, and no exit placed: what its exits protect stays.
LEMMA QuietPlaced ==
  ASSUME TypeInv, [Next]_vars, QuietEffect, rec'.gen = rec.gen, cur > 0
  PROVE  /\ neutral' = neutral
         /\ \A x \in Exits : Placed(x)' = Placed(x)
         /\ exitDir'[cur'] = exitDir[cur]
<1>1. plan' = plan /\ cur' = cur
  BY PlanStep DEF cur
<1>2. \A x \in Exits : Own(x) \in Algos
  BY OwnType
<1> QED
  BY <1>1, <1>2, QuietExits DEF neutral, Placed, Own

\* The first open of a campaign finds none of its exits placed.
LEMMA ExitInvOpen ==
  ASSUME TypeInv, StoreInv, [Next]_vars, StartOpen, ~active PROVE ExitInv'
<1> DEFINE g == cur + 1
<1>1. /\ rec' = [gen |-> g, status |-> "OPENING",
                 activated |-> plan[g] # NEUTRAL_GRID,
                 dir |-> IF plan[g] = NEUTRAL_GRID THEN 0 ELSE PlanDir(g)]
      /\ plan' = plan /\ xalgo' = xalgo
  BY DEF StartOpen, exchangeVars
<1>2. g \in Gens /\ cur' = g
  BY <1>1, ExchangeAssumption
     DEF StartOpen, TypeInv, TypeOK, Numbered, cur, RegistryTypeOK, Gens
<1>3. neutral' = (plan[g] = NEUTRAL_GRID)
  BY <1>1, <1>2 DEF neutral
<1>4. rec'.activated = ~neutral' /\ rec'.status = "OPENING"
  BY <1>1, <1>3
<1>5. \A x \in Exits : ~Placed(x)'
  <2>1. \A x \in Exits : <<g, x>> \in Algos /\ <<g, x>>[1] = g /\ ~(g <= cur)
    BY <1>2 DEF Algos, TypeInv, TypeOK, RegistryTypeOK, cur
  <2> QED
    BY <1>1, <1>2, <2>1 DEF StoreInv, Placed, Own
<1>6. IF neutral' THEN pc' = "ladder" ELSE pc' = "starter"
  BY <1>3 DEF StartOpen, Begin
<1> HIDE DEF g
<1> QED
  BY <1>4, <1>5, <1>6 DEF ExitInv, ExitPhases, ExitsOf

\* Placing an exit.
LEMMA ExitInvPlace ==
  ASSUME TypeInv, ExitInv, [Next]_vars, ExitStep, ~UNCHANGED <<exchangeVars, events>>
  PROVE  ExitInv'
<1> USE DEF Goto, Catch, HandlerFrame, storeVars
<1>1. cur > 0 /\ rec'.gen = rec.gen /\ rec'.dir = rec.dir /\ rec'.activated = rec.activated
  BY ExitPlaced, GenStep DEF ExitStep, StartOpen, FinishOppose, PlaceStop, PlaceTakeProfit,
     PlaceNeutralStop, PlaceNeutralTakeProfit
<1>2. cur' = cur /\ neutral' = neutral /\ \A x : Own(x)' = Own(x)
  BY <1>1, PlanStep DEF cur, neutral, Own
<1>3. \A x \in Exits : Placed(x) => Placed(x)'
  BY <1>1, <1>2, OwnType, PlacedStays DEF Placed
<1>4. ExitPhases /\ ExitsOf
  BY <1>1 DEF ExitInv
<1>5. "STOP" \in Exits /\ "TP" \in Exits /\ \A x \in Exits : x = "STOP" \/ x = "TP"
  BY DEF Exits
<1>6. ASSUME NEW x \in Exits, NEW d \in {0, 1, -1}, AcceptExit(Own(x), d)
      PROVE  Placed(x)' /\ exitDir'[cur'] = d
  BY <1>1, <1>2, <1>6, PlacedExit DEF Placed
<1>7. CASE PlaceStop /\ AcceptExit(Own("STOP"), rec.dir)
  <2>1. Placed("STOP")' /\ exitDir'[cur'] = rec.dir /\ ~neutral
    BY <1>4, <1>5, <1>6, <1>7, ExitPlaced DEF PlaceStop, ExitPhases
  <2>2. pc' \in {"tp", "emergency"} /\ rec' = rec
    BY <1>7 DEF PlaceStop, StopFails, KeepStatus
  <2> QED
    BY <1>1, <1>2, <1>3, <1>4, <2>1, <2>2 DEF ExitInv, ExitPhases, ExitsOf, Protects
<1>8. CASE PlaceTakeProfit /\ AcceptExit(Own("TP"), rec.dir)
  <2>1. Placed("TP")' /\ Placed("STOP")' /\ exitDir'[cur'] = rec.dir /\ ~neutral
    BY <1>3, <1>4, <1>5, <1>6, <1>8, ExitPlaced DEF PlaceTakeProfit, ExitPhases
  <2>2. pc' \in {"ladder", "halt"}
    BY <1>8 DEF PlaceTakeProfit, TakeProfitFails
  <2> QED
    BY <1>1, <1>2, <1>4, <1>5, <2>1, <2>2 DEF ExitInv, ExitPhases, ExitsOf, Protects
<1>9. CASE PlaceNeutralStop /\ AcceptExit(Own("STOP"), Sign(spos))
  <2>1. Placed("STOP")' /\ neutral /\ ~rec.activated
    BY <1>4, <1>5, <1>6, <1>9, ExitPlaced DEF PlaceNeutralStop, ExitPhases
  <2>2. pc' \in {"ntp", "nemergency"}
    BY <1>9 DEF PlaceNeutralStop
  <2> QED
    BY <1>1, <1>2, <2>1, <2>2 DEF ExitInv, ExitPhases, ExitsOf
<1>10. CASE PlaceNeutralTakeProfit /\ AcceptExit(Own("TP"), Sign(spos))
  <2>1. /\ Placed("TP")' /\ Placed("STOP")' /\ exitDir'[cur'] = Sign(spos)
        /\ neutral /\ ~rec.activated
    BY <1>3, <1>4, <1>5, <1>6, <1>10, ExitPlaced DEF PlaceNeutralTakeProfit, ExitPhases
  <2>2. pc' \in {"oppose", "halt"} /\ Sign(spos)' = Sign(spos)
    BY <1>10 DEF PlaceNeutralTakeProfit, Sign
  <2> QED
    BY <1>1, <1>2, <1>5, <2>1, <2>2 DEF ExitInv, ExitPhases, ExitsOf, Protects
<1> QED
  BY <1>7, <1>8, <1>9, <1>10, ExitPlaced

\* An exit that was not accepted ends the way to the next call.
LEMMA ExitRefused ==
  ASSUME TypeInv, ExitStep, UNCHANGED <<exchangeVars, events>>
  PROVE  pc' \in {"emergency", "halt", "nemergency"}
<1>1. cur > 0
  BY DEF ExitStep, PlaceStop, PlaceTakeProfit, PlaceNeutralStop, PlaceNeutralTakeProfit,
     TypeInv, Numbered
<1>2. ASSUME NEW x \in Exits, NEW d, AcceptExit(Own(x), d), "ok" \in ExitAnswers(Own(x))
      PROVE  FALSE
  <2>1. xalgo[Own(x)] = "NONE"
    BY <1>2 DEF ExitAnswers
  <2>2. xalgo'[Own(x)] = "NEW"
    BY <1>1, <1>2, OwnType DEF AcceptExit, TypeInv, TypeOK, AccountTypeOK
  <2> QED
    BY <2>1, <2>2 DEF exchangeVars
<1>3. "STOP" \in Exits /\ "TP" \in Exits /\ Applied("ok")
  BY DEF Exits, Applied
<1> QED
  BY <1>2, <1>3 DEF ExitStep, PlaceStop, StopFails, PlaceTakeProfit, TakeProfitFails,
     PlaceNeutralStop, PlaceNeutralTakeProfit, Effect, Goto, Catch

Placing == {"starter", "stop", "tp", "ladder", "nstop", "ntp", "oppose"}

\* How a handler comes to a call that places exits or relies on them, without
\* placing one.
LEMMA PlacingReached ==
  ASSUME TypeInv, ExitPhases, [Next]_vars, ~(StartOpen /\ ~active), pc' \in Placing,
         ExitStep => pc' \in {"emergency", "halt", "nemergency"}
  PROVE  \/ pc' = pc /\ spos' = spos
         \/ PlaceStarter /\ pc' = "stop"
         \/ pc' = "nstop" /\ neutral /\ ~rec.activated
         \/ pc' = "oppose" /\ neutral /\ rec.activated
<1> USE DEF Placing, Goto, Catch, Done, Begin, HandlerFrame, storeVars, handlerVars
<1>1. CASE OpenStep
  BY <1>1 DEF OpenStep, ExitStep, PlaceStarter, FinishOpen, EmergencyClose, FinishUnwind,
     PlaceLimit, UnwindLimit, ExitPhases
<1>2. CASE ActivateStep
  BY <1>2 DEF ActivateStep, ExitStep, FinishOppose, NeutralEmergencyClose,
     DirectionFlipClose, CancelOpposite
<1>3. CASE CleanupStep
  BY <1>3 DEF CleanupStep, SweepLimit, SweepExit, FinishSweep, OpenGate, Swept
<1>4. CASE Recover \/ Verify \/ ErrorStep
  BY <1>4 DEF Recover, RecoverNothing, RecoverArmed, RecoverFlat, RecoverFlipped,
     RecoverPosition, Verify, OpenGate, ErrorStep, SetFailed, SetDegraded, HaltStore, Raise,
     StopRuntime
<1>5. CASE StartOpen \/ \E by \in {"loop", "event"} : CleanupOnce(by)
  BY <1>5 DEF StartOpen, CleanupOnce, CleanupIfFlat
<1>6. CASE Reconcile \/ SessionEnd \/ Stop \/ Crash
  BY <1>6 DEF Reconcile, SessionEnd, Stop, Crash, StopRuntime
<1>7. CASE \/ Signal \/ Deliver \/ StartRuntime \/ RuntimeReady \/ Attach \/ Snapshot
           \/ GraceOver \/ Alarm \/ ExchangeMoves \/ UNCHANGED vars
  BY <1>7 DEF Signal, Deliver, StartRuntime, RuntimeReady, Attach, Snapshot,
     GraceOver, Alarm, ExchangeMoves, vars
<1> QED
  BY <1>1, <1>2, <1>3, <1>4, <1>5, <1>6, <1>7 DEF Next, HandlerStep

\* The steps that turn a campaign ACTIVE.
LEMMA ActiveReached ==
  ASSUME TypeInv, [Next]_vars, rec'.status = "ACTIVE", rec.status # "ACTIVE"
  PROVE  FinishOpen \/ FinishOppose \/ RecoverArmed \/ (Verify /\ ExitsRest)
<1> USE StatusFacts
<1>1. CASE OpenStep
  BY <1>1 DEF OpenStep, PlaceStarter, PlaceStop, StopFails, PlaceTakeProfit, TakeProfitFails,
     EmergencyClose, FinishUnwind, PlaceLimit, UnwindLimit, Degrade
<1>2. CASE ActivateStep
  BY <1>2 DEF ActivateStep, PlaceNeutralStop, PlaceNeutralTakeProfit, NeutralEmergencyClose,
     DirectionFlipClose, CancelOpposite, Degrade
<1>3. CASE CleanupStep
  BY <1>3 DEF CleanupStep, SweepLimit, SweepExit, FinishSweep, Swept, Degrade, MarkClosed
<1>4. CASE Recover \/ Verify \/ ErrorStep
  BY <1>4 DEF Recover, RecoverNothing, RecoverFlat, RecoverFlipped, RecoverPosition, Verify,
     ErrorStep, SetFailed, SetDegraded, HaltStore, Raise, Degrade
<1>5. CASE StartOpen
  BY <1>5 DEF StartOpen
<1>6. CASE \/ Signal \/ \E by \in {"loop", "event"} : CleanupOnce(by)
           \/ Deliver \/ StartRuntime \/ RuntimeReady \/ Attach \/ Snapshot \/ Reconcile
           \/ SessionEnd \/ Stop \/ Crash \/ GraceOver \/ Alarm \/ ExchangeMoves \/ UNCHANGED vars
  BY <1>6 DEF Signal, CleanupOnce, Deliver, StartRuntime, RuntimeReady, Attach, Snapshot,
     Reconcile, SessionEnd, Stop, Crash, GraceOver, Alarm, ExchangeMoves, vars
<1> QED
  BY <1>1, <1>2, <1>3, <1>4, <1>5, <1>6 DEF Next, HandlerStep

\* Every other step leaves the exits placed and turns no campaign ACTIVE whose
\* exits it has not placed or found.
LEMMA ExitInvQuiet ==
  ASSUME TypeInv, StoreInv, ExitInv, [Next]_vars, QuietEffect, ~(StartOpen /\ ~active),
         ExitStep => pc' \in {"emergency", "halt", "nemergency"}
  PROVE  ExitInv'
<1> SUFFICES ASSUME cur > 0 PROVE ExitInv'
  <2>1. rec'.gen = rec.gen
    BY GenStep
  <2> QED
    BY <2>1 DEF ExitInv, cur
<1>1. ExitPhases /\ ExitsOf
  BY DEF ExitInv
<1>2. rec'.gen = rec.gen /\ cur' = cur
  BY GenStep DEF cur
<1>3. /\ neutral' = neutral
      /\ \A x \in Exits : Placed(x)' = Placed(x)
      /\ exitDir'[cur'] = exitDir[cur]
      /\ Placed("STOP")' = Placed("STOP")
  BY <1>2, QuietPlaced DEF Exits
<1>4. CASE FinishOppose /\ ~rec.activated
  <2>1. /\ rec'.activated /\ rec'.dir = Sign(spos) /\ neutral /\ Protects(Sign(spos))
        /\ pc' \in {"verify", "idle"}
    BY <1>1, <1>4 DEF FinishOppose, ExitPhases, TypeInv, TypeOK, RegistryTypeOK, Goto, Done
  <2> QED
    BY <1>3, <2>1 DEF ExitInv, ExitPhases, ExitsOf, Protects
<1>5. ASSUME rec'.dir = rec.dir, rec'.activated = rec.activated PROVE ExitInv'
  <2>1. ExitPhases'
    <3>1. CASE pc' \notin Placing
      BY <3>1 DEF Placing, ExitPhases
    <3>2. CASE pc' = pc /\ spos' = spos
      BY <1>1, <1>3, <1>5, <3>2 DEF ExitPhases, Protects, Sign
    <3>3. CASE PlaceStarter /\ pc' = "stop"
      BY <1>1, <1>3, <3>3 DEF ExitPhases, PlaceStarter
    <3>4. CASE \/ pc' = "nstop" /\ neutral /\ ~rec.activated
               \/ pc' = "oppose" /\ neutral /\ rec.activated
      BY <1>3, <1>5, <3>4 DEF ExitPhases
    <3> QED
      BY <1>1, <3>1, <3>2, <3>3, <3>4, PlacingReached
  <2>2. rec'.status = "ACTIVE" /\ rec.activated => neutral \/ Protects(rec.dir)
    <3>1. CASE rec.status = "ACTIVE"
      BY <1>1, <3>1 DEF ExitsOf
    <3>2. CASE FinishOpen
      BY <1>1, <3>2 DEF FinishOpen, ExitPhases
    <3>3. CASE FinishOppose
      BY <1>1, <3>3 DEF FinishOppose, ExitPhases
    <3>4. CASE RecoverArmed
      BY <3>4 DEF RecoverArmed
    <3>5. CASE Verify /\ ExitsRest
      <4>1. \A x \in Exits : Placed(x)
        BY <3>5, OwnType DEF ExitsRest, RestingExits, StoreInv, Placed
      <4> QED
        BY <1>1, <4>1 DEF ExitsOf, Protects, Exits
    <3> QED
      BY <3>1, <3>2, <3>3, <3>4, <3>5, ActiveReached
  <2>3. ExitsOf'
    BY <1>1, <1>3, <1>5, <2>2 DEF ExitsOf, Protects
  <2> QED
    BY <2>1, <2>3 DEF ExitInv
<1> QED
  BY <1>4, <1>5, GenStep

\* Every step keeps what is known of the exits.
LEMMA ExitInvStep ==
  ASSUME TypeInv, StoreInv, ExitInv, [Next]_vars PROVE ExitInv'
<1>1. CASE StartOpen /\ ~active
  BY <1>1, ExitInvOpen
<1>2. CASE ExitStep /\ ~UNCHANGED <<exchangeVars, events>>
  BY <1>2, ExitInvPlace
<1>3. CASE ExitStep /\ UNCHANGED <<exchangeVars, events>>
  <2>1. ~StartOpen
    BY <1>3 DEF ExitStep, PlaceStop, PlaceTakeProfit, PlaceNeutralStop,
       PlaceNeutralTakeProfit, StartOpen
  <2> QED
    BY <1>3, <2>1, ExitRefused, SameEffect, ExitInvQuiet
<1>4. CASE ~ExitStep /\ ~(StartOpen /\ ~active)
  BY <1>4, EffectStep, ExitInvQuiet
<1> QED
  BY <1>1, <1>2, <1>3, <1>4

\* An activated campaign turns or stays ACTIVE only when the exchange has taken
\* both its exits, on the side the registry has for it: through lost answers,
\* crashes between the calls, and recoveries from what the store knows.
THEOREM ActiveMeansExits == Spec => []ActiveHasExits
<1>1. Init => StoreInv /\ ExitInv
  BY DEF Init, ExchangeInit, StoreInv, ExitInv, cur
<1>2. TypeInv /\ StoreInv /\ ExitInv /\ [Next]_vars => (StoreInv /\ ExitInv)'
  BY StoreInvStep, ExitInvStep
<1>3. TypeInv /\ ExitInv => ActiveHasExits
  BY DEF TypeInv, Numbered, ExitInv, ExitsOf, ActiveHasExits, Protects, Placed
<1>4. Spec => []TypeInv
  BY InitType, TypeStep, PTL DEF Spec
<1> QED
  BY <1>1, <1>2, <1>3, <1>4, PTL DEF Spec

-----------------------------------------------------------------------------
(* No campaign is left OPENING. *)

\* Entries exist, in the store, on the exchange and on the stream, only of
\* campaigns that have been opened.
OrderInv ==
  /\ \A c \in Orders : sord[c] # "NONE" \/ xord[c] # "NONE" => c[1] <= cur
  /\ \A i \in DOMAIN events :
       events[i].kind = "ORDER_TRADE_UPDATE" => events[i].id[1] <= cur

\* No event tells of an order that has just been accepted.
NothingNew ==
  \A i \in DOMAIN events : events[i].kind # "ACCOUNT_UPDATE" => events[i].status # "NEW"

\* While a campaign is OPENING the store has not heard of its orders.  It is
\* OPENING between handlers only after a crash, when no session is live and
\* what its stream said is gone; recovery then finds nothing to cancel that
\* could leave it pending, and whatever else ends the open gives it a status.
OpeningInv ==
  rec.status = "OPENING" =>
    /\ RestingLimits = {} /\ RestingExits = {}
    /\ pc \in {"idle", "recover", "sweep"} => NothingNew
    /\ pc = "idle" => session # "live"
    /\ pc = "recover" => ~pending
    /\ pc = "sweep" => todo = {} /\ ~pending
    /\ pc = "raise" => caller = "open"
    /\ pc # "halt"
    /\ neutral => ~rec.activated

\* What a step adds to the stream about entries is about entries that exist or
\* that the running campaign's handler has just placed.
LEMMA OrderEvents ==
  ASSUME TypeInv, OrderInv, [Next]_vars, NEW i \in DOMAIN events',
         events'[i].kind = "ORDER_TRADE_UPDATE"
  PROVE  events'[i].id[1] <= cur
<1> USE DEF TypeInv, TypeOK
<1>1. /\ events \in Seq(Event) /\ cur \in Nat
      /\ cur > 0 => \A l \in Limits : Own(l) \in Orders /\ Own(l)[1] <= cur
      /\ cur > 0 => \A x \in Exits : Own(x) \in Algos
  BY OwnType, ExchangeAssumption DEF AccountTypeOK, RegistryTypeOK, cur, Own
<1>2. ASSUME NEW j \in DOMAIN events, events'[i] = events[j] PROVE events'[i].id[1] <= cur
  BY <1>2 DEF OrderInv
<1>3. CASE UNCHANGED exchangeVars /\ (events' = events \/ events' = <<>>)
  BY <1>2, <1>3
<1>4. CASE UNCHANGED exchangeVars /\ events # <<>> /\ events' = Tail(events)
  <2>1. i + 1 \in DOMAIN events /\ events'[i] = events[i + 1]
    BY <1>1, <1>4
  <2> QED
    BY <1>2, <2>1
<1>5. ASSUME NEW n \in Int, MarketFill(n) PROVE events'[i].id[1] <= cur
  <2>1. /\ PosEvent(xpos + n) \in Event
        /\ PosEvent(xpos + n).kind # "ORDER_TRADE_UPDATE"
    BY EventTypes DEF AccountTypeOK, PosEvent
  <2> QED
    BY <1>1, <1>2, <1>5, <2>1, FeedOne DEF MarketFill
<1>6. ASSUME NEW c \in Orders, c[1] <= cur, NEW st \in OrderStatus, Feed(<<OrdEvent(c, st)>>)
      PROVE  events'[i].id[1] <= cur
  <2>1. OrdEvent(c, st) \in Event /\ OrdEvent(c, st).id = c
    BY EventTypes DEF OrdEvent
  <2> QED
    BY <1>1, <1>2, <1>6, <2>1, FeedOne
<1>7. ASSUME cur > 0, NEW l \in Limits, AcceptLimit(Own(l)) \/ CancelLimit(Own(l))
      PROVE  events'[i].id[1] <= cur
  BY <1>1, <1>6, <1>7 DEF AcceptLimit, CancelLimit, OrderStatus
<1>8. ASSUME NEW a \in Algos, NEW st \in AlgoStatus, Feed(<<AlgoEvent(a, st)>>)
      PROVE  events'[i].id[1] <= cur
  <2>1. AlgoEvent(a, st) \in Event /\ AlgoEvent(a, st).kind # "ORDER_TRADE_UPDATE"
    BY EventTypes DEF AlgoEvent
  <2> QED
    BY <1>1, <1>2, <1>8, <2>1, FeedOne
<1>9. ASSUME NEW a \in Algos, CancelExit(a) \/ Fire(a) \/ Expire(a)
      PROVE  events'[i].id[1] <= cur
  <2>1. CASE Feed(<<AlgoEvent(a, "FINISHED"), PosEvent(0)>>)
    <3>1. AlgoEvent(a, "FINISHED") \in Event /\ PosEvent(0) \in Event
      BY EventTypes DEF AlgoStatus
    <3>2. /\ AlgoEvent(a, "FINISHED").kind # "ORDER_TRADE_UPDATE"
          /\ PosEvent(0).kind # "ORDER_TRADE_UPDATE"
      BY DEF AlgoEvent, PosEvent
    <3> QED
      BY <1>1, <1>2, <2>1, <3>1, <3>2, FeedTwo
  <2>2. CASE \E st \in AlgoStatus : Feed(<<AlgoEvent(a, st)>>)
    BY <1>8, <2>2
  <2> QED
    BY <1>9, <2>1, <2>2 DEF CancelExit, Fire, Expire, AlgoStatus
<1>10. ASSUME NEW c \in Orders, Fill(c) PROVE events'[i].id[1] <= cur
  <2>1. xpos + Side(c) \in Int /\ c[1] <= cur
    BY <1>10, SideType DEF AccountTypeOK, OrderInv, Fill
  <2>2. /\ PosEvent(xpos + Side(c)) \in Event /\ OrdEvent(c, "FILLED") \in Event
        /\ PosEvent(xpos + Side(c)).kind # "ORDER_TRADE_UPDATE"
        /\ OrdEvent(c, "FILLED").id = c
    BY <2>1, EventTypes DEF OrderStatus, PosEvent, OrdEvent
  <2> QED
    BY <1>1, <1>2, <1>10, <2>1, <2>2, FeedTwo DEF Fill
<1>11. CASE QuietEffect
  BY <1>3, <1>4, <1>5, <1>7, <1>9, <1>10, <1>11 DEF QuietEffect, ExchangeMoves
<1>12. CASE ExitStep /\ ~UNCHANGED <<exchangeVars, events>>
  BY <1>1, <1>8, <1>12, ExitPlaced DEF AcceptExit, AlgoStatus, Exits
<1> QED
  BY <1>11, <1>12, EffectStep, SameEffect

\* Entries are placed for the running campaign.
LEMMA EntriesOwn ==
  ASSUME TypeInv, [Next]_vars, NEW c \in Orders, xord'[c] # "NONE", xord[c] = "NONE"
  PROVE  c[1] <= cur
<1> USE DEF TypeInv, TypeOK
<1>1. CASE ExitStep /\ ~UNCHANGED <<exchangeVars, events>>
  BY <1>1, ExitPlaced DEF AcceptExit
<1>2. CASE QuietEffect
  <2>1. \E l \in Limits : AcceptLimit(Own(l)) \/ CancelLimit(Own(l))
    BY <1>2 DEF QuietEffect, MarketFill, CancelExit, ExchangeMoves, Fill, Fire, Expire,
       AccountTypeOK, exchangeVars
  <2>2. \E l \in Limits : c = Own(l)
    BY <2>1 DEF AcceptLimit, CancelLimit, AccountTypeOK
  <2> QED
    BY <2>2, ExchangeAssumption DEF Own, cur, RegistryTypeOK
<1> QED
  BY <1>1, <1>2, EffectStep, SameEffect

\* Only delivering an event and draining the buffer change the store's rows.
LEMMA StoreSteps ==
  ASSUME [Next]_vars, ~Deliver, ~Reconcile
  PROVE  UNCHANGED storeVars
<1>1. CASE HandlerStep
  BY <1>1 DEF HandlerStep, OpenStep, PlaceStarter, PlaceStop, PlaceTakeProfit, FinishOpen,
     EmergencyClose, FinishUnwind, PlaceLimit, UnwindLimit, ActivateStep, PlaceNeutralStop,
     PlaceNeutralTakeProfit, FinishOppose, NeutralEmergencyClose, DirectionFlipClose,
     CancelOpposite, CleanupStep, SweepLimit, SweepExit, FinishSweep, Recover, Verify,
     ErrorStep, SetFailed, SetDegraded, HaltStore, Raise, HandlerFrame
<1>2. CASE \/ Signal \/ StartOpen \/ \E by \in {"loop", "event"} : CleanupOnce(by)
           \/ StartRuntime \/ RuntimeReady \/ Attach \/ Snapshot
           \/ SessionEnd \/ Stop \/ Crash \/ GraceOver \/ Alarm \/ ExchangeMoves \/ UNCHANGED vars
  BY <1>2 DEF Signal, StartOpen, CleanupOnce, StartRuntime, RuntimeReady, Attach, Snapshot,
     SessionEnd, Stop, Crash, GraceOver, Alarm, ExchangeMoves, vars
<1> QED
  BY <1>1, <1>2 DEF Next

\* What the store says of an order after a step, it said before, or an event did.
LEMMA StoreHears ==
  ASSUME TypeInv, [Next]_vars
  PROVE  /\ \A c \in Orders : \/ sord'[c] = sord[c]
                              \/ \E i \in DOMAIN events :
                                   /\ events[i].kind = "ORDER_TRADE_UPDATE"
                                   /\ events[i].id = c /\ events[i].status = sord'[c]
         /\ \A a \in Algos : \/ salgo'[a] = salgo[a]
                             \/ \E i \in DOMAIN events :
                                  /\ events[i].kind = "ALGO_UPDATE"
                                  /\ events[i].id = a /\ events[i].status = salgo'[a]
<1> USE DEF TypeInv, TypeOK, storeVars
<1>1. CASE Deliver
  <2>1. Head(events) = events[1] /\ 1 \in DOMAIN events
    BY <1>1 DEF Deliver, AccountTypeOK
  <2> QED
    BY <1>1, <2>1 DEF Deliver, StoreTypeOK
<1>2. CASE Reconcile
  <2>1. \/ UNCHANGED storeVars
        \/ /\ sord' = [c \in Orders |-> Drained(About("ORDER_TRADE_UPDATE", c), sord[c])]
           /\ salgo' = [a \in Algos |-> Drained(About("ALGO_UPDATE", a), salgo[a])]
    BY <1>2 DEF Reconcile
  <2>2. \A kind, id, old : \/ Drained(About(kind, id), old) = old
                           \/ \E i \in DOMAIN events :
                                /\ events[i].kind = kind /\ events[i].id = id
                                /\ events[i].status = Drained(About(kind, id), old)
    BY DEF Drained, About, Buffered
  <2> HIDE DEF TypeInv, TypeOK
  <2> QED
    BY <2>1, <2>2
<1> QED
  BY <1>1, <1>2, StoreSteps

\* Every step keeps entries to campaigns that have been opened.
LEMMA OrderInvStep ==
  ASSUME TypeInv, OrderInv, [Next]_vars PROVE OrderInv'
<1>1. cur \in Nat /\ cur' \in Nat /\ cur <= cur'
  <2>1. cur \in Nat /\ cur' \in Nat
    BY TypeStep, ExchangeAssumption DEF TypeInv, TypeOK, RegistryTypeOK, cur
  <2>2. StartOpen /\ ~active => cur' = cur + 1
    BY DEF StartOpen, cur
  <2>3. cur' = cur \/ cur' = cur + 1
    BY <2>2, GenStep DEF cur
  <2> QED
    BY <2>1, <2>3
<1>2. ASSUME NEW c \in Orders, sord'[c] # "NONE" \/ xord'[c] # "NONE" PROVE c[1] <= cur
  BY <1>2, StoreHears, EntriesOwn DEF OrderInv
<1>3. \A c \in Orders : c[1] \in Nat
  BY ExchangeAssumption DEF Orders, Gens
<1>4. ASSUME NEW i \in DOMAIN events', events'[i].kind = "ORDER_TRADE_UPDATE"
      PROVE  events'[i].id[1] <= cur /\ events'[i].id \in Orders
  <2>1. events'[i] \in Event
    BY TypeStep DEF TypeInv, TypeOK, AccountTypeOK
  <2> QED
    BY <1>4, <2>1, OrderEvents DEF Event
<1> QED
  BY <1>1, <1>2, <1>3, <1>4 DEF OrderInv

\* A campaign turns OPENING when it is registered, and not again.
LEMMA OpeningKept ==
  ASSUME TypeInv, [Next]_vars, rec'.status = "OPENING"
  PROVE  (StartOpen /\ ~active) \/ rec' = rec
<1> USE StatusFacts DEF Degrade
<1>1. CASE OpenStep
  BY <1>1 DEF OpenStep, PlaceStarter, PlaceStop, StopFails, PlaceTakeProfit, TakeProfitFails,
     FinishOpen, MarkActive, EmergencyClose, FinishUnwind, PlaceLimit, UnwindLimit
<1>2. CASE ActivateStep
  BY <1>2 DEF ActivateStep, PlaceNeutralStop, PlaceNeutralTakeProfit, FinishOppose,
     NeutralEmergencyClose, DirectionFlipClose, CancelOpposite, TypeInv, TypeOK,
     RegistryTypeOK
<1>3. CASE CleanupStep
  BY <1>3 DEF CleanupStep, SweepLimit, SweepExit, FinishSweep, Swept, MarkClosed
<1>4. CASE Recover \/ Verify \/ ErrorStep
  BY <1>4 DEF Recover, RecoverNothing, RecoverArmed, RecoverFlat, RecoverFlipped,
     RecoverPosition, Verify, ErrorStep, SetFailed, SetDegraded, HaltStore, Raise
<1>5. CASE StartOpen
  BY <1>5 DEF StartOpen
<1>6. CASE \/ Signal \/ \E by \in {"loop", "event"} : CleanupOnce(by)
           \/ Deliver \/ StartRuntime \/ RuntimeReady \/ Attach \/ Snapshot \/ Reconcile
           \/ SessionEnd \/ Stop \/ Crash \/ GraceOver \/ Alarm \/ ExchangeMoves \/ UNCHANGED vars
  BY <1>6 DEF Signal, CleanupOnce, Deliver, StartRuntime, RuntimeReady, Attach, Snapshot,
     Reconcile, SessionEnd, Stop, Crash, GraceOver, Alarm, ExchangeMoves, vars
<1> QED
  BY <1>1, <1>2, <1>3, <1>4, <1>5, <1>6 DEF Next, HandlerStep

\* What the exchange does on its own is never news of an accepted order.
LEMMA MovesNothingNew ==
  ASSUME TypeInv, NothingNew, ExchangeMoves
  PROVE  NothingNew'
<1> USE DEF TypeInv, TypeOK
<1>0. events \in Seq(Event)
  BY DEF AccountTypeOK
<1> SUFFICES ASSUME NEW i \in DOMAIN events', events'[i].kind # "ACCOUNT_UPDATE"
             PROVE  events'[i].status # "NEW"
  BY DEF NothingNew
<1>1. ASSUME i \in DOMAIN events, events'[i] = events[i] PROVE events'[i].status # "NEW"
  BY <1>1 DEF NothingNew
<1>2. ASSUME NEW c \in Orders, Fill(c) PROVE events'[i].status # "NEW"
  <2>1. xpos + Side(c) \in Int
    BY SideType DEF AccountTypeOK
  <2>2. /\ PosEvent(xpos + Side(c)) \in Event /\ OrdEvent(c, "FILLED") \in Event
        /\ PosEvent(xpos + Side(c)).kind = "ACCOUNT_UPDATE"
        /\ OrdEvent(c, "FILLED").status = "FILLED"
    BY <2>1, EventTypes DEF OrderStatus, PosEvent, OrdEvent
  <2> QED
    BY <1>0, <1>1, <1>2, <2>2, FeedTwo DEF Fill
<1>3. ASSUME NEW a \in Algos, Fire(a) \/ Expire(a) PROVE events'[i].status # "NEW"
  <2>1. /\ AlgoEvent(a, "FINISHED") \in Event /\ AlgoEvent(a, "EXPIRED") \in Event
        /\ PosEvent(0) \in Event
    BY EventTypes DEF AlgoStatus
  <2>2. /\ AlgoEvent(a, "FINISHED").status = "FINISHED"
        /\ AlgoEvent(a, "EXPIRED").status = "EXPIRED"
        /\ PosEvent(0).kind = "ACCOUNT_UPDATE"
    BY DEF AlgoEvent, PosEvent
  <2>3. \/ Feed(<<AlgoEvent(a, "FINISHED"), PosEvent(0)>>)
        \/ Feed(<<AlgoEvent(a, "EXPIRED")>>)
    BY <1>3 DEF Fire, Expire
  <2> QED
    BY <1>0, <1>1, <2>1, <2>2, <2>3, FeedOne, FeedTwo
<1> QED
  BY <1>2, <1>3 DEF ExchangeMoves

\* Where a step that leaves a campaign OPENING can lead.
LEMMA OpeningControl ==
  ASSUME TypeInv, GateInv, ExitInv, OpeningInv, [Next]_vars,
         rec' = rec, rec.status = "OPENING"
  PROVE  \/ pc' \notin {"idle", "recover", "sweep", "raise", "halt"}
         \/ pc' = "raise" /\ caller' = "open"
         \/ pc' = "idle" /\ session' # "live" /\ events' = <<>>
         \/ pc' = "recover" /\ ~pending' /\ events' = <<>>
         \/ pc = "recover" /\ pc' = "sweep" /\ todo' = {} /\ ~pending' /\ events' = events
         \/ pc = "idle" /\ pc' = "idle" /\ session' # "live" /\ events' = events
         \/ /\ UNCHANGED handlerVars /\ (pc = "idle" => session' = session)
            /\ events' = events \/ ExchangeMoves
<1> USE StatusFacts DEF OpeningInv, Goto, Catch, Done, Begin, Degrade
<1>0. cur > 0 /\ active
  BY DEF TypeInv, Numbered, active, ActiveStatus
<1>1. CASE OpenStep
  <2>1. CASE PlaceStarter \/ PlaceStop \/ PlaceTakeProfit
    BY <2>1 DEF PlaceStarter, PlaceStop, StopFails, PlaceTakeProfit, TakeProfitFails
  <2>2. CASE FinishOpen \/ FinishUnwind
    BY <2>2 DEF FinishOpen, FinishUnwind, MarkActive
  <2>3. CASE EmergencyClose
    BY <2>3 DEF EmergencyClose
  <2>4. ASSUME NEW l \in Limits, PlaceLimit(l)
        PROVE  pc' = "ladder" \/ (pc' = "raise" /\ caller' = "open")
    BY <2>4 DEF PlaceLimit, GateInv, Opening
  <2>5. ASSUME NEW l \in Limits, UnwindLimit(l) PROVE pc' \in {"unwind", "degraded"}
    BY <2>5 DEF UnwindLimit
  <2> QED
    BY <1>1, <2>1, <2>2, <2>3, <2>4, <2>5 DEF OpenStep
<1>2. CASE ActivateStep
  <2>1. CASE PlaceNeutralStop \/ PlaceNeutralTakeProfit
    BY <2>1 DEF PlaceNeutralStop, PlaceNeutralTakeProfit
  <2>2. CASE FinishOppose
    BY <1>0, <2>2 DEF FinishOppose, ExitInv, ExitPhases, TypeInv, TypeOK, RegistryTypeOK
  <2>3. CASE NeutralEmergencyClose \/ DirectionFlipClose
    BY <2>3 DEF NeutralEmergencyClose, DirectionFlipClose
  <2>4. ASSUME NEW l \in Limits, CancelOpposite(l) PROVE pc' = "oppose"
    BY <1>0, <2>4 DEF CancelOpposite, ExitInv, ExitPhases
  <2> QED
    BY <1>2, <2>1, <2>2, <2>3, <2>4 DEF ActivateStep
<1>3. CASE CleanupStep
  BY <1>3 DEF CleanupStep, SweepLimit, SweepExit, FinishSweep, MarkClosed, OpenGate
<1>4. CASE Recover
  BY <1>0, <1>4 DEF Recover, RecoverNothing, RecoverArmed, RecoverFlat, RecoverFlipped,
     RecoverPosition, Leftovers
<1>5. CASE Verify \/ ErrorStep
  BY <1>5 DEF Verify, ErrorStep, SetFailed, SetDegraded, HaltStore, Raise, StopRuntime
<1>6. CASE StartOpen \/ \E by \in {"loop", "event"} : CleanupOnce(by)
  BY <1>0, <1>6 DEF StartOpen, CleanupOnce
<1>7. CASE Reconcile \/ SessionEnd \/ Stop \/ Crash
  BY <1>7 DEF Reconcile, SessionEnd, Stop, Crash, StopRuntime
<1>8. CASE Attach \/ Snapshot
  BY <1>8 DEF Attach, Snapshot, handlerVars
<1>9. CASE Signal \/ Deliver \/ StartRuntime \/ RuntimeReady \/ GraceOver \/ Alarm \/ UNCHANGED vars
  BY <1>9 DEF Signal, Deliver, StartRuntime, RuntimeReady, GraceOver, Alarm, vars, runtimeVars
<1>10. CASE ExchangeMoves
  BY <1>10 DEF ExchangeMoves, runtimeVars
<1> QED
  BY <1>1, <1>2, <1>3, <1>4, <1>5, <1>6, <1>7, <1>8, <1>9, <1>10 DEF Next, HandlerStep

\* A campaign that has just been registered is new to store and stream.
LEMMA OpeningStarts ==
  ASSUME TypeInv, StoreInv, OrderInv, [Next]_vars, StartOpen, ~active
  PROVE  OpeningInv'
<1> DEFINE g == cur + 1
<1>1. /\ rec'.gen = g /\ rec'.activated = (plan[g] # NEUTRAL_GRID)
      /\ plan' = plan /\ UNCHANGED storeVars
  BY DEF StartOpen
<1>2. g \in Gens /\ cur' = g /\ cur \in Nat
  BY <1>1, ExchangeAssumption
     DEF StartOpen, TypeInv, TypeOK, Numbered, cur, RegistryTypeOK, Gens
<1>3. neutral' => ~rec'.activated
  BY <1>1, <1>2 DEF neutral
<1>4. /\ \A l \in Limits : sord[<<g, l>>] = "NONE"
      /\ \A x \in Exits : salgo[<<g, x>>] = "NONE"
  <2>1. /\ \A l \in Limits : <<g, l>> \in Orders /\ <<g, l>>[1] = g
        /\ \A x \in Exits : <<g, x>> \in Algos /\ <<g, x>>[1] = g
        /\ ~(g <= cur)
    BY <1>2 DEF Orders, Algos
  <2> QED
    BY <2>1 DEF StoreInv, OrderInv
<1>5. RestingLimits' = {} /\ RestingExits' = {}
  BY <1>1, <1>2, <1>4 DEF RestingLimits, RestingExits, Own, storeVars
<1>6. pc' \in {"ladder", "starter"}
  BY DEF StartOpen, Begin
<1> HIDE DEF g
<1> QED
  BY <1>3, <1>5, <1>6 DEF OpeningInv

\* Every step leaves an OPENING campaign unheard of, or gives it a status.
LEMMA OpeningStep ==
  ASSUME TypeInv, GateInv, StoreInv, OrderInv, ExitInv, OpeningInv, [Next]_vars
  PROVE  OpeningInv'
<1>1. CASE StartOpen /\ ~active
  BY <1>1, OpeningStarts
<1>2. CASE rec' = rec /\ rec.status = "OPENING"
  <2>1. /\ RestingLimits = {} /\ RestingExits = {}
        /\ pc \in {"idle", "recover", "sweep"} => NothingNew
        /\ pc = "idle" => session # "live"
        /\ pc = "recover" => ~pending
        /\ pc = "sweep" => todo = {} /\ ~pending
        /\ pc = "raise" => caller = "open"
        /\ pc # "halt"
        /\ neutral => ~rec.activated
    BY <1>2 DEF OpeningInv
  <2>2. cur' = cur /\ neutral' = neutral /\ \A l : Own(l)' = Own(l)
    BY <1>2, PlanStep DEF cur, neutral, Own
  <2>3. RestingLimits' = {} /\ RestingExits' = {}
    <3>1. CASE UNCHANGED storeVars
      BY <2>1, <2>2, <3>1 DEF RestingLimits, RestingExits, storeVars
    <3>2. CASE Reconcile
      <4>1. /\ NothingNew /\ cur > 0
            /\ \A l \in Limits : Own(l) \in Orders
            /\ \A x \in Exits : Own(x) \in Algos
        BY <1>2, <2>1, <3>2, OwnType DEF Reconcile, TypeInv, Numbered
      <4>2. \A l \in Limits : sord'[Own(l)] # "NEW"
        BY <2>1, <4>1, StoreHears DEF NothingNew, RestingLimits
      <4>3. \A x \in Exits : salgo'[Own(x)] # "NEW"
        BY <2>1, <4>1, StoreHears DEF NothingNew, RestingExits
      <4> QED
        BY <2>2, <4>2, <4>3 DEF RestingLimits, RestingExits
    <3>3. ~Deliver
      BY <2>1 DEF Deliver
    <3> QED
      BY <3>1, <3>2, <3>3, StoreSteps
  <2>4. events' = <<>> => NothingNew'
    BY DEF NothingNew
  <2>5. events' = events /\ NothingNew => NothingNew'
    BY DEF NothingNew
  <2>6. ExchangeMoves /\ NothingNew => NothingNew'
    BY MovesNothingNew
  <2>7. /\ pc' \in {"idle", "recover", "sweep"} => NothingNew'
        /\ pc' = "idle" => session' # "live"
        /\ pc' = "recover" => ~pending'
        /\ pc' = "sweep" => todo' = {} /\ ~pending'
        /\ pc' = "raise" => caller' = "open"
        /\ pc' # "halt"
    BY <1>2, <2>1, <2>4, <2>5, <2>6, OpeningControl DEF handlerVars
  <2> QED
    BY <1>2, <2>1, <2>2, <2>3, <2>7 DEF OpeningInv
<1>3. CASE rec'.status # "OPENING"
  BY <1>3 DEF OpeningInv
<1> QED
  BY <1>1, <1>2, <1>3, OpeningKept

\* So an OPENING campaign is unheard of in every state.
LEMMA OpeningInvariant == Spec => []OpeningInv
<1>1. Init => TypeInv /\ StoreInv /\ ExitInv /\ OrderInv /\ OpeningInv
  BY InitType DEF Init, ExchangeInit, StoreInv, ExitInv, cur, OrderInv, OpeningInv
<1>2. TypeInv /\ GateInv /\ StoreInv /\ ExitInv /\ OrderInv /\ OpeningInv /\ [Next]_vars
        => (TypeInv /\ StoreInv /\ ExitInv /\ OrderInv /\ OpeningInv)'
  BY TypeStep, StoreInvStep, ExitInvStep, OrderInvStep, OpeningStep
<1> QED
  BY <1>1, <1>2, GateInvariant, PTL DEF Spec

\* An open that is cut short, by a crash between any two of its calls, is
\* resolved before the gate opens again: no campaign is OPENING when the
\* runtime is at rest.
THEOREM NoneStaysOpening == Spec => []NoneLeftOpening
<1>1. OpeningInv => NoneLeftOpening
  BY DEF OpeningInv, NoneLeftOpening, Settled
<1> QED
  BY <1>1, OpeningInvariant, PTL

-----------------------------------------------------------------------------
(* The registry, the halt flag and the gate implement CampaignLifecycle. *)

\* The step of CampaignLifecycle a step of the code takes, or none.
LifecycleStep == Lifecycle!LifecycleNext \/ UNCHANGED Lifecycle!lifecycleVars

\* Every step of the code is a step of the lifecycle, or leaves it alone.
LEMMA LifecycleStepOK ==
  ASSUME TypeInv, GateInv, PhaseInv, OpeningInv, [Next]_vars PROVE LifecycleStep
<1> USE StatusFacts
    DEF PhaseInv, Opening, GivenUp, active, ActiveStatus, KeepFlag, flagVars, Halt, Degrade,
        LifecycleStep, Lifecycle!LifecycleNext, Lifecycle!lifecycleVars, Lifecycle!Active
<1>1. CASE OpenStep
  <2>1. CASE PlaceStarter
    BY <2>1 DEF PlaceStarter, Lifecycle!Fail
  <2>2. CASE PlaceStop
    BY <2>2 DEF PlaceStop, StopFails
  <2>3. CASE PlaceTakeProfit
    BY <2>3 DEF PlaceTakeProfit, TakeProfitFails, Lifecycle!Degrade
  <2>4. CASE FinishOpen
    BY <2>4 DEF FinishOpen, MarkActive, Lifecycle!Establish
  <2>5. CASE EmergencyClose
    <3>1. \/ KeepStatus /\ (KeepFlag \/ Halt)
          \/ Degrade
      BY <2>5 DEF EmergencyClose
    <3>2. GivenUp
      BY <2>5 DEF EmergencyClose
    <3> QED
      BY <3>1, <3>2 DEF Lifecycle!Degrade, Lifecycle!HaltNow
  <2>6. ASSUME NEW l \in Limits, PlaceLimit(l) PROVE LifecycleStep
    BY <2>6 DEF PlaceLimit, Lifecycle!Degrade
  <2>7. ASSUME NEW l \in Limits, UnwindLimit(l) PROVE LifecycleStep
    BY <2>7 DEF UnwindLimit, Lifecycle!HaltNow
  <2>8. CASE FinishUnwind
    BY <2>8 DEF FinishUnwind, Lifecycle!Fail
  <2> QED
    BY <1>1, <2>1, <2>2, <2>3, <2>4, <2>5, <2>6, <2>7, <2>8 DEF OpenStep
<1>2. CASE ActivateStep
  <2>1. ASSUME NEW l \in Limits, CancelOpposite(l) PROVE LifecycleStep
    BY <2>1 DEF CancelOpposite, Lifecycle!Degrade
  <2>2. CASE PlaceNeutralStop \/ DirectionFlipClose
    BY <2>2 DEF PlaceNeutralStop, DirectionFlipClose
  <2>3. CASE PlaceNeutralTakeProfit \/ NeutralEmergencyClose
    BY <2>3 DEF PlaceNeutralTakeProfit, NeutralEmergencyClose, Lifecycle!Degrade
  <2>4. CASE FinishOppose
    <3>1. rec' = rec \/ rec'.status = "ACTIVE"
      BY <2>4 DEF FinishOppose, TypeInv, TypeOK, RegistryTypeOK
    <3> QED
      BY <2>4, <3>1 DEF FinishOppose, Lifecycle!Establish
  <2> QED
    BY <1>2, <2>1, <2>2, <2>3, <2>4 DEF ActivateStep
<1>3. CASE CleanupStep
  <2>1. ASSUME NEW l \in Limits, SweepLimit(l) PROVE LifecycleStep
    BY <2>1 DEF SweepLimit, Swept, Lifecycle!Degrade
  <2>2. ASSUME NEW x \in Exits, SweepExit(x) PROVE LifecycleStep
    BY <2>2 DEF SweepExit, Swept, Lifecycle!Degrade
  <2>3. CASE FinishSweep /\ spos # 0
    BY <2>3 DEF FinishSweep, Lifecycle!Degrade
  <2>4. CASE FinishSweep /\ spos = 0 /\ caller # "recover"
    BY <2>4 DEF FinishSweep, MarkClosed, Lifecycle!Close
  <2>5. CASE FinishSweep /\ spos = 0 /\ caller = "recover"
    <3>1. ~halted /\ active /\ OpenGate
      BY <2>5 DEF FinishSweep, GateInv, Recovering
    <3>2. CASE pending
      <4>1. rec.status # "OPENING" /\ rec'.status = rec.status
        BY <2>5, <3>2 DEF FinishSweep, MarkClosed, OpeningInv
      <4> QED
        BY <3>1, <4>1 DEF OpenGate, Lifecycle!OpenGate
    <3>3. CASE ~pending
      BY <2>5, <3>1, <3>3 DEF FinishSweep, MarkClosed, OpenGate, Lifecycle!OpenGate
    <3> QED
      BY <3>2, <3>3
  <2> QED
    BY <1>3, <2>1, <2>2, <2>3, <2>4, <2>5 DEF CleanupStep
<1>4. CASE Recover
  <2>1. ~halted
    BY <1>4 DEF Recover, GateInv, Recovering
  <2>2. CASE RecoverNothing
    <3>1. Lifecycle!Inactive
      BY <2>2 DEF RecoverNothing, Lifecycle!Inactive, TypeInv, TypeOK, RegistryTypeOK,
         CampaignStatus
    <3> QED
      BY <2>1, <2>2, <3>1 DEF RecoverNothing, OpenGate, Lifecycle!OpenGate
  <2>3. CASE RecoverArmed
    BY <2>1, <2>3 DEF RecoverArmed, OpenGate, Lifecycle!OpenGate
  <2>4. CASE RecoverFlipped
    BY <2>4 DEF RecoverFlipped, Lifecycle!Degrade
  <2>5. CASE RecoverFlat \/ RecoverPosition
    BY <2>5 DEF RecoverFlat, RecoverPosition
  <2> QED
    BY <1>4, <2>2, <2>3, <2>4, <2>5 DEF Recover
<1>5. CASE Verify
  BY <1>5 DEF Verify, OpenGate, GateInv, Recovering, Lifecycle!OpenGate, Lifecycle!Degrade
<1>6. CASE ErrorStep
  <2>1. CASE SetFailed
    BY <2>1 DEF SetFailed, Lifecycle!Fail
  <2>2. CASE SetDegraded
    BY <2>2 DEF SetDegraded, Lifecycle!Degrade
  <2>3. CASE HaltStore
    BY <2>3 DEF HaltStore, Lifecycle!HaltNow
  <2>4. CASE Raise
    BY <2>4 DEF Raise, StopRuntime, Lifecycle!HaltNow, Lifecycle!CloseGate, TypeInv, TypeOK,
       FlagTypeOK
  <2> QED
    BY <1>6, <2>1, <2>2, <2>3, <2>4 DEF ErrorStep
<1>7. CASE StartOpen
  <2>1. Lifecycle!Inactive
    BY <1>7 DEF StartOpen, Lifecycle!Inactive, TypeInv, TypeOK, RegistryTypeOK, CampaignStatus
  <2>2. rec'.status = "OPENING"
    BY <1>7 DEF StartOpen
  <2> QED
    BY <1>7, <2>1, <2>2 DEF StartOpen, Lifecycle!Prepare
<1>8. CASE \E by \in {"loop", "event"} : CleanupOnce(by)
  BY <1>8 DEF CleanupOnce
<1>9. CASE Signal \/ Deliver \/ RuntimeReady \/ Snapshot \/ Crash \/ GraceOver
  BY <1>9 DEF Signal, Deliver, RuntimeReady, Snapshot, Crash, GraceOver
<1>10. CASE StartRuntime \/ Attach \/ SessionEnd \/ Stop
  BY <1>10 DEF StartRuntime, Attach, SessionEnd, Stop, StopRuntime, Lifecycle!CloseGate
<1>11. CASE Reconcile
  BY <1>11 DEF Reconcile, StopRuntime, Lifecycle!HaltNow
<1>13. CASE Alarm
  BY <1>13 DEF Alarm, Lifecycle!HaltNow
<1>12. CASE ExchangeMoves \/ UNCHANGED vars
  BY <1>12 DEF ExchangeMoves, vars
<1> QED
  BY <1>1, <1>2, <1>3, <1>4, <1>5, <1>6, <1>7, <1>8, <1>9, <1>10, <1>11, <1>12, <1>13
     DEF Next, HandlerStep

\* Whatever the exchange, the stream, the process and alarms do, the executor
\* takes a campaign through the lifecycle's statuses only: it prepares none over
\* an active one, nothing lifts a halt or opens the gate after it, and the gate
\* opens over no campaign that is still OPENING.
THEOREM LifecycleImplemented == Spec => ImplementsLifecycle
<1>1. Init => Lifecycle!LifecycleInit
  BY DEF Init, Lifecycle!LifecycleInit
<1>2. TypeInv /\ GateInv /\ PhaseInv /\ OpeningInv /\ [Next]_vars
        => [Lifecycle!LifecycleNext]_Lifecycle!lifecycleVars
  BY LifecycleStepOK DEF LifecycleStep
<1> QED
  BY <1>1, <1>2, TypeInvariant, GateInvariant, PhaseInvariant, OpeningInvariant, PTL
     DEF Spec, ImplementsLifecycle, Lifecycle!LifecycleSpec
==============================================================================
