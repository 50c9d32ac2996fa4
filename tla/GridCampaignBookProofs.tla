----------------------- MODULE GridCampaignBookProofs ------------------------
(***************************************************************************)
(* What the store knows of the exchange through the events in flight, and  *)
(* what a campaign leaves behind.                                          *)
(*                                                                         *)
(* While the store is connected, every order, every exit and the position  *)
(* are on the exchange what the last event about them says, or, where none *)
(* is in flight, what the store says (SyncInv); the path of an order is one*)
(* way (PathInv).  So a sweep that finds a flat store and no open row ends *)
(* on a flat exchange: campaigns are closed flat, the next one starts on a *)
(* symbol where nothing is left, and an open that failed left nothing.     *)
(*                                                                         *)
(* The order: NothingLost and the first campaign, then what earlier        *)
(* campaigns may leave of entries (NextInv) and of exits, then the symbol  *)
(* between campaigns (BetweenInv), and last the stop of a campaign that is *)
(* only its starter (StarterInv, StopInv).                                 *)
(***************************************************************************)
EXTENDS GridCampaignExitProofs, WellFoundedInduction

(* The last event about a row. *)

Latest(S, i) == i \in S /\ \A j \in S : j <= i

\* Of the events about a row, if there are any, one is the last.
LEMMA HasLatest ==
  ASSUME events \in Seq(Event), NEW S \in SUBSET DOMAIN events, S # {}
  PROVE  \E i \in S : Latest(S, i)
<1> DEFINE n == Len(events)
           T == {n - i : i \in S}
<1>1. n \in Nat /\ \A i \in S : i \in 1 .. n
  OBVIOUS
<1> HIDE DEF n
<1>2. T \subseteq Nat /\ T # {}
  BY <1>1
<1>3. \E x \in T : \A y \in T : ~(<<y, x>> \in OpToRel(<, Nat))
  <2> HIDE DEF T
  <2> QED
    BY <1>2, NatLessThanWellFounded, WFMin
<1>4. PICK x \in T : \A y \in T : ~(<<y, x>> \in OpToRel(<, Nat))
  BY <1>3
<1>5. \A y \in T : ~(y < x)
  <2> HIDE DEF T
  <2>1. ASSUME NEW y \in T PROVE ~(y < x)
    <3>1. y \in Nat /\ x \in Nat /\ ~(<<y, x>> \in OpToRel(<, Nat))
      BY <1>2, <1>4
    <3> QED
      BY <3>1 DEF OpToRel
  <2> QED
    BY <2>1
<1>6. PICK i \in S : x = n - i
  OBVIOUS
<1>7. \A j \in S : j <= i
  <2>1. ASSUME NEW j \in S PROVE j <= i
    <3>1. n - j \in T /\ i \in 1 .. n /\ j \in 1 .. n
      BY <1>1
    <3>2. ~(n - j < n - i)
      BY <1>5, <1>6, <3>1
    <3> QED
      BY <1>1, <3>1, <3>2
  <2> QED
    BY <2>1
<1> QED
  BY <1>7 DEF Latest

\* It is the one that draining the buffer ends with.
LEMMA LastIsLatest ==
  ASSUME NEW S, S \subseteq Int, NEW i \in S, Latest(S, i)
  PROVE  LastOf(S) = i /\ LastOf(S) \in S
<1>1. \E k \in S : \A j \in S : j <= k
  BY DEF Latest
<1> DEFINE m == CHOOSE k \in S : \A j \in S : j <= k
<1>2. m \in S /\ \A j \in S : j <= m
  BY <1>1
<1>3. LastOf(S) = m
  BY <1>1 DEF LastOf
<1> HIDE DEF m
<1> QED
  BY <1>2, <1>3 DEF Latest

-----------------------------------------------------------------------------
(* What a step does to the exchange's book, and tells the stream of it. *)

\* What fed events say is what is true after the step, and what they do not
\* mention has not changed.
Told(evs) ==
  /\ \A j \in DOMAIN evs :
       /\ evs[j].kind = "ORDER_TRADE_UPDATE" => evs[j].status = xord'[evs[j].id]
       /\ evs[j].kind = "ALGO_UPDATE" => evs[j].status = xalgo'[evs[j].id]
       /\ evs[j].kind = "ACCOUNT_UPDATE" => evs[j].pos = xpos'
  /\ \A c \in Orders :
       (\A j \in DOMAIN evs : ~(evs[j].kind = "ORDER_TRADE_UPDATE" /\ evs[j].id = c))
         => xord'[c] = xord[c]
  /\ \A a \in Algos :
       (\A j \in DOMAIN evs : ~(evs[j].kind = "ALGO_UPDATE" /\ evs[j].id = a))
         => xalgo'[a] = xalgo[a]
  /\ (\A j \in DOMAIN evs : evs[j].kind # "ACCOUNT_UPDATE") => xpos' = xpos

TellsAll == \E evs \in Seq(Event) : Feed(evs) /\ Told(evs)

\* The effects a step may have on the book, with what the code and the
\* exchange check before each.
BookMove ==
  \/ UNCHANGED <<exchangeVars, events>>
  \/ pc = "starter" /\ Ready /\ MarketFill(rec.dir)
  \/ /\ pc \in {"emergency", "nemergency", "flip"}
     /\ \E d \in {0, 1, -1}, q \in Nat : Reducible(d) /\ ReduceOnly(d, q)
  \/ \E l \in todo \cap Limits : pc = "ladder" /\ Ready /\ AcceptLimit(Own(l))
  \/ \E l \in todo \cap Limits : /\ pc \in {"unwind", "oppose", "sweep"}
                                /\ xord[Own(l)] = "NEW" /\ CancelLimit(Own(l))
  \/ \E x \in Exits, d \in {0, 1, -1} : /\ pc \in {"stop", "tp", "nstop", "ntp"}
                                      /\ xalgo[Own(x)] = "NONE" /\ AcceptExit(Own(x), d)
  \/ \E x \in todo \cap Exits : /\ pc = "sweep" /\ xalgo[Own(x)] = "NEW"
                               /\ CancelExit(Own(x))
  \/ ExchangeMoves

\* A market fill is told,
LEMMA MarketFillTold ==
  ASSUME AccountTypeOK, NEW n \in Int, MarketFill(n) PROVE TellsAll
<1> DEFINE e == PosEvent(xpos + n)
<1>1. e \in Event /\ <<e>> \in Seq(Event)
  BY EventTypes DEF AccountTypeOK
<1>2. e.kind = "ACCOUNT_UPDATE" /\ e.pos = xpos'
  BY DEF PosEvent, MarketFill
<1>3. Feed(<<e>>) /\ UNCHANGED <<xord, xalgo>>
  BY DEF MarketFill
<1> HIDE DEF e
<1>4. Told(<<e>>)
  BY <1>2, <1>3 DEF Told
<1> QED
  BY <1>1, <1>3, <1>4 DEF TellsAll

\* so is an entry that is accepted, cancelled or ended in any other way,
LEMMA OrderTold ==
  ASSUME AccountTypeOK, NEW c \in Orders, NEW st \in OrderStatus,
         xord' = [xord EXCEPT ![c] = st], Feed(<<OrdEvent(c, st)>>),
         UNCHANGED <<xpos, xalgo>>
  PROVE  TellsAll
<1> DEFINE e == OrdEvent(c, st)
<1>1. e \in Event /\ <<e>> \in Seq(Event)
  BY EventTypes
<1>2. e.kind = "ORDER_TRADE_UPDATE" /\ e.status = st /\ e.id = c
  BY DEF OrdEvent
<1>3. Feed(<<e>>)
  OBVIOUS
<1>5. xord'[c] = st /\ \A b \in Orders : b # c => xord'[b] = xord[b]
  BY DEF AccountTypeOK
<1> HIDE DEF e
<1>4. Told(<<e>>)
  BY <1>2, <1>5 DEF Told
<1> QED
  BY <1>1, <1>3, <1>4 DEF TellsAll

\* an exit,
LEMMA ExitTold ==
  ASSUME AccountTypeOK, NEW a \in Algos, NEW st \in AlgoStatus,
         xalgo' = [xalgo EXCEPT ![a] = st], Feed(<<AlgoEvent(a, st)>>),
         UNCHANGED <<xpos, xord>>
  PROVE  TellsAll
<1> DEFINE e == AlgoEvent(a, st)
<1>1. e \in Event /\ <<e>> \in Seq(Event)
  BY EventTypes
<1>2. e.kind = "ALGO_UPDATE" /\ e.status = st /\ e.id = a
  BY DEF AlgoEvent
<1>3. Feed(<<e>>)
  OBVIOUS
<1>5. xalgo'[a] = st /\ \A b \in Algos : b # a => xalgo'[b] = xalgo[b]
  BY DEF AccountTypeOK
<1> HIDE DEF e
<1>4. Told(<<e>>)
  BY <1>2, <1>5 DEF Told
<1> QED
  BY <1>1, <1>3, <1>4 DEF TellsAll

\* and what the exchange does on its own.
LEMMA MovesTold ==
  ASSUME AccountTypeOK, ExchangeMoves PROVE TellsAll
<1>1. ASSUME NEW c \in Orders, Fill(c) PROVE TellsAll
  <2> DEFINE e == PosEvent(xpos + Side(c))
             f == OrdEvent(c, "FILLED")
  <2>1. xpos + Side(c) \in Int
    BY SideType DEF AccountTypeOK
  <2>2. e \in Event /\ f \in Event /\ <<e, f>> \in Seq(Event)
    BY <2>1, EventTypes DEF OrderStatus
  <2>3. /\ e.kind = "ACCOUNT_UPDATE" /\ e.pos = xpos'
        /\ f.kind = "ORDER_TRADE_UPDATE" /\ f.status = "FILLED" /\ f.id = c
    BY <1>1 DEF PosEvent, OrdEvent, Fill
  <2>4. Feed(<<e, f>>) /\ xalgo' = xalgo
    BY <1>1 DEF Fill
  <2>5. xord'[c] = "FILLED" /\ \A b \in Orders : b # c => xord'[b] = xord[b]
    BY <1>1 DEF AccountTypeOK, Fill
  <2> HIDE DEF e, f
  <2>6. Told(<<e, f>>)
    BY <2>3, <2>4, <2>5 DEF Told
  <2> QED
    BY <2>2, <2>4, <2>6 DEF TellsAll
<1>2. ASSUME NEW a \in Algos, Fire(a), Sign(xpos) = exitDir[a[1]] PROVE TellsAll
  <2> DEFINE e == AlgoEvent(a, "FINISHED")
             f == PosEvent(0)
  <2>2. e \in Event /\ f \in Event /\ <<e, f>> \in Seq(Event)
    BY EventTypes DEF AlgoStatus
  <2>3. /\ f.kind = "ACCOUNT_UPDATE" /\ f.pos = xpos'
        /\ e.kind = "ALGO_UPDATE" /\ e.status = "FINISHED" /\ e.id = a
    BY <1>2 DEF PosEvent, AlgoEvent, Fire
  <2>4. Feed(<<e, f>>) /\ xord' = xord
    BY <1>2 DEF Fire
  <2>5. xalgo'[a] = "FINISHED" /\ \A b \in Algos : b # a => xalgo'[b] = xalgo[b]
    BY <1>2 DEF AccountTypeOK, Fire
  <2> HIDE DEF e, f
  <2>6. Told(<<e, f>>)
    BY <2>3, <2>4, <2>5 DEF Told
  <2> QED
    BY <2>2, <2>4, <2>6 DEF TellsAll
<1>3. ASSUME NEW a \in Algos, Fire(a) \/ Expire(a), ~(Fire(a) /\ Sign(xpos) = exitDir[a[1]])
      PROVE  TellsAll
  BY <1>3, ExitTold DEF Fire, Expire, AlgoStatus
<1> QED
  BY <1>1, <1>2, <1>3 DEF ExchangeMoves

\* Whatever a step does to the book, the stream is told all of it.
LEMMA BookTold ==
  ASSUME TypeInv, BookMove PROVE TellsAll
<1> USE DEF TypeInv, TypeOK
<1>1. CASE UNCHANGED <<exchangeVars, events>>
  <2>1. <<>> \in Seq(Event) /\ events \o <<>> = events /\ DOMAIN <<>> = {}
    BY DEF AccountTypeOK
  <2>2. Feed(<<>>)
    BY <1>1, <2>1 DEF Feed
  <2>3. Told(<<>>)
    BY <1>1 DEF Told, exchangeVars
  <2> QED
    BY <2>1, <2>2, <2>3 DEF TellsAll
<1>2. CASE MarketFill(rec.dir)
  BY <1>2, MarketFillTold DEF RegistryTypeOK
<1>3. ASSUME NEW d \in {0, 1, -1}, NEW q \in Nat, ReduceOnly(d, q) PROVE TellsAll
  BY <1>3, MarketFillTold DEF ReduceOnly, Towards, AccountTypeOK
<1>4. ASSUME cur > 0, NEW l \in Limits, AcceptLimit(Own(l)) \/ CancelLimit(Own(l))
      PROVE  TellsAll
  <2>1. Own(l) \in Orders
    BY <1>4, OwnType
  <2> QED
    BY <1>4, <2>1, OrderTold DEF AcceptLimit, CancelLimit, OrderStatus
<1>5. ASSUME cur > 0, NEW x \in Exits, (\E d \in {0, 1, -1} : AcceptExit(Own(x), d)) \/ CancelExit(Own(x))
      PROVE  TellsAll
  <2>1. Own(x) \in Algos
    BY <1>5, OwnType
  <2> QED
    BY <1>5, <2>1, ExitTold DEF AcceptExit, CancelExit, AlgoStatus
<1>6. CASE ExchangeMoves
  BY <1>6, MovesTold
<1>7. pc \notin {"idle", "recover"} => cur > 0
  BY DEF Numbered
<1> QED
  BY <1>1, <1>2, <1>3, <1>4, <1>5, <1>6, <1>7 DEF BookMove

-----------------------------------------------------------------------------
(* The store, the session and the exchange's book. *)

\* A session has no buffer before it is attached, and recovers once.
LinkInv ==
  /\ session = "down" => events = <<>>
  /\ caller = "recover" => session = "positions"
  /\ pc = "idle" => caller = "none"
  /\ pc = "unwind" => caller # "recover"

\* A step that leaves the session and the store alone,
Steady == /\ UNCHANGED <<session, snap, storeVars>>
          /\ caller' = "recover" <=> caller = "recover"
          /\ BookMove

\* the end of a session,
Cut == /\ session' = "down" /\ events' = <<>> /\ caller' = "none"
       /\ UNCHANGED <<exchangeVars, storeVars>>

\* the end of its recovery,
Joins == /\ caller = "recover" /\ caller' = "none" /\ session' = "live"
         /\ UNCHANGED <<exchangeVars, events, storeVars>>

\* and a reconciliation that finds no difference.
Drains == Reconcile /\ Matches /\ ~halted

LinkStep == Steady \/ Cut \/ Joins \/ Drains \/ Deliver \/ Snapshot \/ Attach

\* The calls of an open leave the session and the store alone,
LEMMA OpenLink ==
  ASSUME TypeInv, GateInv, LinkInv, OpenStep PROVE Steady
<1> USE DEF Goto, Catch, Done, HandlerFrame, runtimeVars, storeVars, GateInv, Opening
<1>1. CASE PlaceStarter
  <2>1. BookMove
    BY <1>1 DEF PlaceStarter, Effect, BookMove
  <2> QED
    BY <1>1, <2>1 DEF PlaceStarter, Steady
<1>2. CASE PlaceStop \/ PlaceTakeProfit
  <2>1. rec.dir \in {0, 1, -1}
    BY DEF TypeInv, TypeOK, RegistryTypeOK
  <2>2. \A x, out : out \in ExitAnswers(Own(x)) /\ Applied(out) => xalgo[Own(x)] = "NONE"
    BY DEF ExitAnswers, Applied
  <2>3. BookMove
    BY <1>2, <2>1, <2>2 DEF PlaceStop, PlaceTakeProfit, Effect, BookMove, Exits
  <2> QED
    BY <1>2, <2>3 DEF PlaceStop, StopFails, PlaceTakeProfit, TakeProfitFails, Steady
<1>3. CASE FinishOpen \/ FinishUnwind
  <2>1. BookMove
    BY <1>3 DEF FinishOpen, FinishUnwind, BookMove
  <2> QED
    BY <1>3, <2>1 DEF FinishOpen, FinishUnwind, Steady, LinkInv
<1>4. CASE EmergencyClose
  <2> DEFINE d == IF neutral THEN Sign(spos) ELSE rec.dir
             q == IF neutral THEN Abs(spos) ELSE 1
  <2>1. d \in {0, 1, -1} /\ q \in Nat
    BY SignType DEF TypeInv, TypeOK, RegistryTypeOK, StoreTypeOK, Abs
  <2>2. PICK out \in ReduceAnswers(d) : Effect(out, ReduceOnly(d, q))
    BY <1>4 DEF EmergencyClose
  <2> HIDE DEF d, q
  <2>3. Applied(out) => Reducible(d)
    BY <2>2 DEF ReduceAnswers, Applied
  <2>4. BookMove
    BY <1>4, <2>1, <2>2, <2>3 DEF EmergencyClose, Effect, BookMove
  <2> QED
    BY <1>4, <2>4 DEF EmergencyClose, Steady
<1>5. ASSUME NEW l \in Limits, PlaceLimit(l) PROVE Steady
  <2>1. BookMove
    BY <1>5 DEF PlaceLimit, Effect, BookMove
  <2> QED
    BY <1>5, <2>1 DEF PlaceLimit, Steady
<1>6. ASSUME NEW l \in Limits, UnwindLimit(l) PROVE Steady
  <2>1. \A out : out \in CancelAnswers(xord[Own(l)] = "NEW") /\ Applied(out)
          => xord[Own(l)] = "NEW"
    BY DEF CancelAnswers, Applied
  <2>2. BookMove
    BY <1>6, <2>1 DEF UnwindLimit, Effect, BookMove
  <2> QED
    BY <1>6, <2>2 DEF UnwindLimit, Steady
<1> QED
  BY <1>1, <1>2, <1>3, <1>4, <1>5, <1>6 DEF OpenStep

\* so do those of an activation,
LEMMA ActivateLink ==
  ASSUME TypeInv, GateInv, LinkInv, ActivateStep PROVE Steady
<1> USE DEF Goto, Catch, Done, HandlerFrame, runtimeVars, storeVars
<1>1. CASE PlaceNeutralStop \/ PlaceNeutralTakeProfit
  <2>1. Sign(spos) \in {0, 1, -1}
    BY SignType DEF TypeInv, TypeOK, StoreTypeOK
  <2>2. \A x, out : out \in ExitAnswers(Own(x)) /\ Applied(out) => xalgo[Own(x)] = "NONE"
    BY DEF ExitAnswers, Applied
  <2>3. BookMove
    BY <1>1, <2>1, <2>2 DEF PlaceNeutralStop, PlaceNeutralTakeProfit, Effect, BookMove, Exits
  <2> QED
    BY <1>1, <2>3 DEF PlaceNeutralStop, PlaceNeutralTakeProfit, Steady
<1>2. CASE FinishOppose
  <2>1. BookMove
    BY <1>2 DEF FinishOppose, BookMove
  <2> QED
    BY <1>2, <2>1 DEF FinishOppose, Steady
<1>3. CASE NeutralEmergencyClose \/ DirectionFlipClose
  <2>1. Sign(spos) \in {0, 1, -1} /\ Abs(spos) \in Nat
    BY SignType DEF TypeInv, TypeOK, StoreTypeOK, Abs
  <2>2. PICK out \in ReduceAnswers(Sign(spos)) : Effect(out, ReduceOnly(Sign(spos), Abs(spos)))
    BY <1>3 DEF NeutralEmergencyClose, DirectionFlipClose
  <2>3. Applied(out) => Reducible(Sign(spos))
    BY <2>2 DEF ReduceAnswers, Applied
  <2>4. BookMove
    BY <1>3, <2>1, <2>2, <2>3 DEF NeutralEmergencyClose, DirectionFlipClose, Effect, BookMove
  <2> QED
    BY <1>3, <2>4 DEF NeutralEmergencyClose, DirectionFlipClose, Steady
<1>4. ASSUME NEW l \in Limits, CancelOpposite(l) PROVE Steady
  <2>1. \A out : out \in CancelAnswers(xord[Own(l)] = "NEW") /\ Applied(out)
          => xord[Own(l)] = "NEW"
    BY DEF CancelAnswers, Applied
  <2>2. BookMove
    BY <1>4, <2>1 DEF CancelOpposite, Effect, BookMove
  <2> QED
    BY <1>4, <2>2 DEF CancelOpposite, Steady
<1> QED
  BY <1>1, <1>2, <1>3, <1>4 DEF ActivateStep

\* and those of a cleanup, until a recovery ends with it.
LEMMA CleanupLink ==
  ASSUME TypeInv, GateInv, LinkInv, CleanupStep PROVE Steady \/ Joins
<1> USE DEF Goto, Catch, Done, HandlerFrame, runtimeVars, storeVars
<1>1. ASSUME NEW l \in Limits, SweepLimit(l) PROVE Steady
  <2>1. \A out : out \in CancelAnswers(xord[Own(l)] = "NEW") /\ Applied(out)
          => xord[Own(l)] = "NEW"
    BY DEF CancelAnswers, Applied
  <2>2. BookMove
    BY <1>1, <2>1 DEF SweepLimit, Effect, BookMove
  <2> QED
    BY <1>1, <2>2 DEF SweepLimit, Swept, Steady
<1>2. ASSUME NEW x \in Exits, SweepExit(x) PROVE Steady
  <2>1. \A out : out \in CancelAnswers(xalgo[Own(x)] = "NEW") /\ Applied(out)
          => xalgo[Own(x)] = "NEW"
    BY DEF CancelAnswers, Applied
  <2>2. BookMove
    BY <1>2, <2>1 DEF SweepExit, Effect, BookMove
  <2> QED
    BY <1>2, <2>2 DEF SweepExit, Swept, Steady
<1>3. CASE FinishSweep
  <2>1. BookMove
    BY <1>3 DEF FinishSweep, BookMove
  <2> QED
    BY <1>3, <2>1 DEF FinishSweep, OpenGate, Steady, Joins
<1> QED
  BY <1>1, <1>2, <1>3 DEF CleanupStep

\* Every step does one of these things to session, store and book.
LEMMA LinkSteps ==
  ASSUME TypeInv, GateInv, LinkInv, [Next]_vars PROVE LinkStep
<1> USE DEF LinkStep, Goto, Catch, Done, Begin, HandlerFrame, runtimeVars, storeVars
<1>0. UNCHANGED <<exchangeVars, events>> => BookMove
  BY DEF BookMove
<1>1. CASE Recover \/ Verify
  BY <1>0, <1>1 DEF Recover, RecoverNothing, RecoverArmed, RecoverFlat, RecoverFlipped,
     RecoverPosition, Verify, OpenGate, GateInv, Steady, Joins
<1>2. CASE ErrorStep
  BY <1>0, <1>2 DEF ErrorStep, SetFailed, SetDegraded, HaltStore, Raise, StopRuntime,
     Steady, Cut
<1>3. CASE Signal \/ StartOpen \/ \E by \in {"loop", "event"} : CleanupOnce(by)
  BY <1>0, <1>3 DEF Signal, StartOpen, CleanupOnce, CleanupIfFlat, Steady, LinkInv, handlerVars
<1>4. CASE StartRuntime \/ RuntimeReady \/ GraceOver \/ Alarm \/ UNCHANGED vars
  BY <1>0, <1>4 DEF StartRuntime, RuntimeReady, GraceOver, Alarm, vars, handlerVars, Steady
<1>5. CASE Reconcile
  BY <1>5 DEF Reconcile, StopRuntime, Drains, Cut
<1>6. CASE SessionEnd \/ Stop \/ Crash
  BY <1>6 DEF SessionEnd, Stop, Crash, StopRuntime, Cut
<1>7. CASE ExchangeMoves
  BY <1>7 DEF ExchangeMoves, BookMove, Steady, handlerVars
<1> QED
  BY <1>1, <1>2, <1>3, <1>4, <1>5, <1>6, <1>7, OpenLink, ActivateLink, CleanupLink
     DEF Next, HandlerStep

\* Every step keeps the session's bookkeeping.
LEMMA LinkInvStep ==
  ASSUME TypeInv, GateInv, PhaseInv, LinkInv, [Next]_vars PROVE LinkInv'
<1>1. PhaseInv'
  BY PhaseStep
<1>2. LinkStep
  BY LinkSteps
<1>3. pc' = "unwind" => caller' # "recover"
  <2> SUFFICES ASSUME pc' = "unwind" PROVE caller' # "recover"
    OBVIOUS
  <2> USE DEF Goto, Catch, Done, Begin, LinkInv
  <2>1. CASE OpenStep
    BY <2>1 DEF OpenStep, PlaceStarter, PlaceStop, StopFails, PlaceTakeProfit,
       TakeProfitFails, FinishOpen, EmergencyClose, FinishUnwind, PlaceLimit, UnwindLimit
  <2>2. CASE ActivateStep
    BY <2>2 DEF ActivateStep, PlaceNeutralStop, PlaceNeutralTakeProfit, FinishOppose,
       NeutralEmergencyClose, DirectionFlipClose, CancelOpposite
  <2>3. CASE CleanupStep
    BY <2>3 DEF CleanupStep, SweepLimit, SweepExit, FinishSweep, Swept, OpenGate
  <2>4. CASE Recover \/ Verify \/ ErrorStep
    BY <2>4 DEF Recover, RecoverNothing, RecoverArmed, RecoverFlat, RecoverFlipped,
       RecoverPosition, Verify, ErrorStep, SetFailed, SetDegraded, HaltStore, Raise, StopRuntime,
       OpenGate
  <2>5. CASE StartOpen \/ \E by \in {"loop", "event"} : CleanupOnce(by)
    BY <2>5 DEF StartOpen, CleanupOnce, CleanupIfFlat
  <2>6. CASE Reconcile \/ SessionEnd \/ Stop \/ Crash
    BY <2>6 DEF Reconcile, SessionEnd, Stop, Crash, StopRuntime
  <2>7. CASE \/ Signal \/ Deliver \/ StartRuntime \/ RuntimeReady \/ Attach \/ Snapshot
             \/ GraceOver \/ Alarm \/ ExchangeMoves \/ UNCHANGED vars
    BY <2>7 DEF Signal, Deliver, StartRuntime, RuntimeReady, Attach, Snapshot,
       GraceOver, Alarm, ExchangeMoves, vars, handlerVars
  <2> QED
    BY <2>1, <2>2, <2>3, <2>4, <2>5, <2>6, <2>7 DEF Next, HandlerStep
<1>4. pc' = "idle" => caller' = "none"
  BY <1>1 DEF PhaseInv
<1>5. session' = "down" => events' = <<>>
  <2>1. CASE Steady
    BY <2>1, BookTold DEF Steady, LinkInv, TellsAll, Feed
  <2>2. CASE Cut \/ Joins
    BY <2>2 DEF Cut, Joins
  <2>3. CASE Drains \/ Deliver \/ Snapshot \/ Attach
    BY <2>3 DEF Drains, Reconcile, Deliver, Snapshot, Attach, runtimeVars, LinkInv
  <2> QED
    BY <1>2, <2>1, <2>2, <2>3 DEF LinkStep
<1>6. caller' = "recover" => session' = "positions"
  <2>1. CASE Steady \/ Cut \/ Joins
    BY <2>1 DEF Steady, Cut, Joins, LinkInv
  <2>2. CASE Drains
    BY <2>2 DEF Drains, Reconcile, runtimeVars, StopRuntime, Done
  <2>3. CASE Deliver \/ Snapshot \/ Attach
    BY <2>3 DEF Deliver, Snapshot, Attach, runtimeVars, handlerVars, LinkInv
  <2> QED
    BY <1>2, <2>1, <2>2, <2>3 DEF LinkStep
<1> QED
  BY <1>3, <1>4, <1>5, <1>6 DEF LinkInv

OrderNews(c) == About("ORDER_TRADE_UPDATE", c)
ExitNews(a)  == About("ALGO_UPDATE", a)
PosNews      == Buffered("ACCOUNT_UPDATE")

\* The last event about a row is what the exchange has in it.
NewsTrue ==
  /\ \A c \in Orders : \A i \in OrderNews(c) :
       Latest(OrderNews(c), i) => events[i].status = xord[c]
  /\ \A a \in Algos : \A i \in ExitNews(a) :
       Latest(ExitNews(a), i) => events[i].status = xalgo[a]
  /\ \A i \in PosNews : Latest(PosNews, i) => events[i].pos = xpos

\* Without one, a connected store knows whether the order is open,
StoreTrue ==
  /\ \A c \in Orders : OrderNews(c) = {} => (sord[c] = "NEW" <=> xord[c] = "NEW")
  /\ \A a \in Algos : ExitNews(a) = {} => (salgo[a] = "NEW" <=> xalgo[a] = "NEW")
  /\ PosNews = {} => spos = xpos

\* and the snapshot of a session that is not connected yet does, once read.
SnapTrue ==
  /\ session \in {"orders", "algos", "positions"}
       => \A c \in Orders : OrderNews(c) = {} => (c \in snap.ord <=> xord[c] = "NEW")
  /\ session \in {"algos", "positions"}
       => \A a \in Algos : ExitNews(a) = {} => (a \in snap.algo <=> xalgo[a] = "NEW")
  /\ session = "positions" => (PosNews = {} => snap.pos = xpos)

\* So nothing is lost between the exchange and a connected store: what the
\* store does not say, an event on its way will.
SyncInv == /\ NewsTrue
           /\ Connected => StoreTrue
           /\ ~Connected => SnapTrue

\* Where the events of a step stand in the stream.
LEMMA FedEvents ==
  ASSUME events \in Seq(Event), NEW evs \in Seq(Event), session # "down", Feed(evs)
  PROVE  /\ \A i \in DOMAIN events : i \in DOMAIN events' /\ events'[i] = events[i]
         /\ \A j \in DOMAIN evs : \E i \in DOMAIN events' :
              events'[i] = evs[j] /\ \A k \in DOMAIN events : k < i
         /\ \A i \in DOMAIN events' :
              i \in DOMAIN events \/ \E j \in DOMAIN evs : events'[i] = evs[j]
         /\ \A i \in DOMAIN events' : i \in Int
<1>1. events' = events \o evs
  BY DEF Feed
<1>2. /\ DOMAIN events = 1 .. Len(events) /\ DOMAIN evs = 1 .. Len(evs)
      /\ Len(events) \in Nat /\ Len(evs) \in Nat
      /\ DOMAIN events' = 1 .. Len(events) + Len(evs)
  BY <1>1
<1>3. \A i \in DOMAIN events : i \in DOMAIN events' /\ events'[i] = events[i]
  BY <1>1, <1>2
<1>4. ASSUME NEW j \in DOMAIN evs
      PROVE  \E i \in DOMAIN events' : events'[i] = evs[j] /\ \A k \in DOMAIN events : k < i
  <2>1. /\ Len(events) + j \in DOMAIN events' /\ events'[Len(events) + j] = evs[j]
        /\ \A k \in DOMAIN events : k < Len(events) + j
    BY <1>1, <1>2
  <2> QED
    BY <2>1
<1>5. \A i \in DOMAIN events' :
        i \in DOMAIN events \/ \E j \in DOMAIN evs : events'[i] = evs[j]
  BY FeedEvents
<1> QED
  BY <1>2, <1>3, <1>4, <1>5

\* Where they stand once the first has been delivered.
LEMMA TailEvents ==
  ASSUME events \in Seq(Event), events # <<>>, events' = Tail(events)
  PROVE  /\ 1 \in DOMAIN events /\ Head(events) = events[1]
         /\ \A i \in DOMAIN events' : i + 1 \in DOMAIN events /\ events'[i] = events[i + 1]
         /\ \A i \in DOMAIN events : i # 1 => i - 1 \in DOMAIN events' /\ events'[i - 1] = events[i]
         /\ \A i \in DOMAIN events' : i \in Nat /\ i >= 1
         /\ \A i \in DOMAIN events : i \in Nat /\ i >= 1
BY DEF Event

\* What is told keeps the stream true.
LEMMA ToldNews ==
  ASSUME TypeInv, LinkInv, NewsTrue, TellsAll
  PROVE  /\ NewsTrue'
         /\ session # "down" =>
              /\ \A c \in Orders :
                   OrderNews(c)' = {} => OrderNews(c) = {} /\ xord'[c] = xord[c]
              /\ \A a \in Algos :
                   ExitNews(a)' = {} => ExitNews(a) = {} /\ xalgo'[a] = xalgo[a]
              /\ PosNews' = {} => PosNews = {} /\ xpos' = xpos
<1> USE DEF OrderNews, ExitNews, PosNews, About, Buffered
<1>1. PICK evs \in Seq(Event) : Feed(evs) /\ Told(evs)
  BY DEF TellsAll
<1>0. events \in Seq(Event) /\ \A i \in DOMAIN events : i \in Int
  BY DEF TypeInv, TypeOK, AccountTypeOK
<1>2. CASE session = "down"
  <2>1. DOMAIN events' = {}
    BY <1>1, <1>2 DEF Feed, LinkInv
  <2> QED
    BY <1>2, <2>1 DEF NewsTrue
<1>3. CASE session # "down"
  <2>1. /\ \A i \in DOMAIN events : i \in DOMAIN events' /\ events'[i] = events[i]
        /\ \A j \in DOMAIN evs : \E i \in DOMAIN events' :
             events'[i] = evs[j] /\ \A k \in DOMAIN events : k < i
        /\ \A i \in DOMAIN events' :
             i \in DOMAIN events \/ \E j \in DOMAIN evs : events'[i] = evs[j]
        /\ \A i \in DOMAIN events' : i \in Int
    BY <1>0, <1>1, <1>3, FedEvents
  <2>2. ASSUME NEW c \in Orders
        PROVE  /\ \A i \in OrderNews(c)' : Latest(OrderNews(c), i)' => events'[i].status = xord'[c]
               /\ OrderNews(c)' = {} => OrderNews(c) = {} /\ xord'[c] = xord[c]
    <3>1. (\E j \in DOMAIN evs : evs[j].kind = "ORDER_TRADE_UPDATE" /\ evs[j].id = c)
             \/ xord'[c] = xord[c]
      BY <1>1 DEF Told
    <3>2. ASSUME NEW i \in OrderNews(c)', Latest(OrderNews(c), i)'
          PROVE  events'[i].status = xord'[c]
      <4>1. CASE \E j \in DOMAIN evs : events'[i] = evs[j]
        BY <1>1, <4>1 DEF Told
      <4>2. CASE i \in DOMAIN events /\ ~\E j \in DOMAIN evs : events'[i] = evs[j]
        <5>1. i \in OrderNews(c) /\ events'[i] = events[i]
          BY <2>1, <4>2
        <5>2. \A j \in OrderNews(c) : j <= i
          BY <2>1, <3>2 DEF Latest
        <5>3. xord'[c] = xord[c]
          <6>1. ASSUME NEW j \in DOMAIN evs, evs[j].kind = "ORDER_TRADE_UPDATE", evs[j].id = c
                PROVE  FALSE
            <7>1. PICK k \in DOMAIN events' : events'[k] = evs[j] /\ i < k
              BY <2>1, <4>2
            <7>2. k <= i
              BY <3>2, <6>1, <7>1 DEF Latest
            <7>3. i \in Int /\ k \in Int
              BY <2>1, <4>2, <7>1
            <7> QED
              BY <7>1, <7>2, <7>3
          <6> QED
            BY <3>1, <6>1
        <5> QED
          BY <5>1, <5>2, <5>3 DEF Latest, NewsTrue
      <4> QED
        BY <2>1, <4>1, <4>2
    <3> QED
      BY <2>1, <3>1, <3>2
  <2>3. ASSUME NEW a \in Algos
        PROVE  /\ \A i \in ExitNews(a)' : Latest(ExitNews(a), i)' => events'[i].status = xalgo'[a]
               /\ ExitNews(a)' = {} => ExitNews(a) = {} /\ xalgo'[a] = xalgo[a]
    <3>1. (\E j \in DOMAIN evs : evs[j].kind = "ALGO_UPDATE" /\ evs[j].id = a)
             \/ xalgo'[a] = xalgo[a]
      BY <1>1 DEF Told
    <3>2. ASSUME NEW i \in ExitNews(a)', Latest(ExitNews(a), i)'
          PROVE  events'[i].status = xalgo'[a]
      <4>1. CASE \E j \in DOMAIN evs : events'[i] = evs[j]
        BY <1>1, <4>1 DEF Told
      <4>2. CASE i \in DOMAIN events /\ ~\E j \in DOMAIN evs : events'[i] = evs[j]
        <5>1. i \in ExitNews(a) /\ events'[i] = events[i]
          BY <2>1, <4>2
        <5>2. \A j \in ExitNews(a) : j <= i
          BY <2>1, <3>2 DEF Latest
        <5>3. xalgo'[a] = xalgo[a]
          <6>1. ASSUME NEW j \in DOMAIN evs, evs[j].kind = "ALGO_UPDATE", evs[j].id = a
                PROVE  FALSE
            <7>1. PICK k \in DOMAIN events' : events'[k] = evs[j] /\ i < k
              BY <2>1, <4>2
            <7>2. k <= i
              BY <3>2, <6>1, <7>1 DEF Latest
            <7>3. i \in Int /\ k \in Int
              BY <2>1, <4>2, <7>1
            <7> QED
              BY <7>1, <7>2, <7>3
          <6> QED
            BY <3>1, <6>1
        <5> QED
          BY <5>1, <5>2, <5>3 DEF Latest, NewsTrue
      <4> QED
        BY <2>1, <4>1, <4>2
    <3> QED
      BY <2>1, <3>1, <3>2
  <2>4. /\ \A i \in PosNews' : Latest(PosNews, i)' => events'[i].pos = xpos'
        /\ PosNews' = {} => PosNews = {} /\ xpos' = xpos
    <3>1. (\E j \in DOMAIN evs : evs[j].kind = "ACCOUNT_UPDATE")
             \/ xpos' = xpos
      BY <1>1 DEF Told
    <3>2. ASSUME NEW i \in PosNews', Latest(PosNews, i)'
          PROVE  events'[i].pos = xpos'
      <4>1. CASE \E j \in DOMAIN evs : events'[i] = evs[j]
        BY <1>1, <4>1 DEF Told
      <4>2. CASE i \in DOMAIN events /\ ~\E j \in DOMAIN evs : events'[i] = evs[j]
        <5>1. i \in PosNews /\ events'[i] = events[i]
          BY <2>1, <4>2
        <5>2. \A j \in PosNews : j <= i
          BY <2>1, <3>2 DEF Latest
        <5>3. xpos' = xpos
          <6>1. ASSUME NEW j \in DOMAIN evs, evs[j].kind = "ACCOUNT_UPDATE"
                PROVE  FALSE
            <7>1. PICK k \in DOMAIN events' : events'[k] = evs[j] /\ i < k
              BY <2>1, <4>2
            <7>2. k <= i
              BY <3>2, <6>1, <7>1 DEF Latest
            <7>3. i \in Int /\ k \in Int
              BY <2>1, <4>2, <7>1
            <7> QED
              BY <7>1, <7>2, <7>3
          <6> QED
            BY <3>1, <6>1
        <5> QED
          BY <5>1, <5>2, <5>3 DEF Latest, NewsTrue
      <4> QED
        BY <2>1, <4>1, <4>2
    <3> QED
      BY <2>1, <3>1, <3>2
  <2> QED
    BY <2>2, <2>3, <2>4 DEF NewsTrue
<1> QED
  BY <1>2, <1>3

\* The same stream and book are as true,
LEMMA SameNews ==
  ASSUME NewsTrue, UNCHANGED <<exchangeVars, events>>
  PROVE  /\ NewsTrue' /\ PosNews' = PosNews
         /\ \A c : OrderNews(c)' = OrderNews(c)
         /\ \A a : ExitNews(a)' = ExitNews(a)
BY DEF NewsTrue, OrderNews, ExitNews, PosNews, About, Buffered, Latest, exchangeVars

\* and an empty stream has nothing to say.
LEMMA NoNews ==
  ASSUME events' = <<>>
  PROVE  /\ NewsTrue' /\ PosNews' = {}
         /\ \A c : OrderNews(c)' = {}
         /\ \A a : ExitNews(a)' = {}
<1>1. DOMAIN events' = {}
  OBVIOUS
<1> QED
  BY <1>1 DEF NewsTrue, OrderNews, ExitNews, PosNews, About, Buffered

\* Draining the buffer leaves in the store what the exchange has.
LEMMA DrainTrue ==
  ASSUME TypeInv, LinkInv, SyncInv, Drains
  PROVE  /\ \A c \in Orders : sord'[c] = "NEW" <=> xord[c] = "NEW"
         /\ \A a \in Algos : salgo'[a] = "NEW" <=> xalgo[a] = "NEW"
         /\ spos' = xpos
<1>1. events \in Seq(Event) /\ DOMAIN events \subseteq Int
  BY DEF TypeInv, TypeOK, AccountTypeOK
<1>2. /\ session = "positions" /\ ~Connected
      /\ \A c \in Orders : sord'[c] = Drained(OrderNews(c), sord[c])
      /\ \A a \in Algos : salgo'[a] = Drained(ExitNews(a), salgo[a])
      /\ spos' = DrainedPos /\ Matches
  BY DEF Drains, Reconcile, LinkInv, Connected, OrderNews, ExitNews
<1>3. NewsTrue /\ SnapTrue
  BY <1>2 DEF SyncInv
<1>4. ASSUME NEW S \in SUBSET DOMAIN events
      PROVE  \/ S = {} /\ LastOf(S) \notin S
             \/ LastOf(S) \in S /\ Latest(S, LastOf(S))
  BY <1>1, HasLatest, LastIsLatest
<1>5. ASSUME NEW c \in Orders PROVE sord'[c] = "NEW" <=> xord[c] = "NEW"
  <2>1. OrderNews(c) \in SUBSET DOMAIN events
    BY DEF OrderNews, About, Buffered
  <2>2. CASE OrderNews(c) = {} /\ LastOf(OrderNews(c)) \notin OrderNews(c)
    BY <1>2, <1>3, <2>2 DEF SnapTrue, Matches, Drained
  <2>3. CASE LastOf(OrderNews(c)) \in OrderNews(c) /\ Latest(OrderNews(c), LastOf(OrderNews(c)))
    BY <1>2, <1>3, <2>3 DEF NewsTrue, Drained
  <2> QED
    BY <1>4, <2>1, <2>2, <2>3
<1>6. ASSUME NEW a \in Algos PROVE salgo'[a] = "NEW" <=> xalgo[a] = "NEW"
  <2>1. ExitNews(a) \in SUBSET DOMAIN events
    BY DEF ExitNews, About, Buffered
  <2>2. CASE ExitNews(a) = {} /\ LastOf(ExitNews(a)) \notin ExitNews(a)
    BY <1>2, <1>3, <2>2 DEF SnapTrue, Matches, Drained
  <2>3. CASE LastOf(ExitNews(a)) \in ExitNews(a) /\ Latest(ExitNews(a), LastOf(ExitNews(a)))
    BY <1>2, <1>3, <2>3 DEF NewsTrue, Drained
  <2> QED
    BY <1>4, <2>1, <2>2, <2>3
<1>7. spos' = xpos
  <2>1. PosNews \in SUBSET DOMAIN events
    BY DEF PosNews, Buffered
  <2>2. CASE PosNews = {} /\ LastOf(PosNews) \notin PosNews
    BY <1>2, <1>3, <2>2 DEF SnapTrue, Matches, DrainedPos, PosNews
  <2>3. CASE LastOf(PosNews) \in PosNews /\ Latest(PosNews, LastOf(PosNews))
    BY <1>2, <1>3, <2>3 DEF NewsTrue, DrainedPos, PosNews
  <2> QED
    BY <1>4, <2>1, <2>2, <2>3
<1> QED
  BY <1>5, <1>6, <1>7

\* Delivering the first event moves what it says into the store.
LEMMA DeliverTrue ==
  ASSUME TypeInv, NewsTrue, StoreTrue, Deliver PROVE NewsTrue' /\ StoreTrue'
<1> USE DEF OrderNews, ExitNews, PosNews, About, Buffered
<1>1. /\ events \in Seq(Event) /\ events # <<>> /\ events' = Tail(events)
      /\ xord' = xord /\ xalgo' = xalgo /\ xpos' = xpos
  BY DEF Deliver, TypeInv, TypeOK, AccountTypeOK, exchangeVars
<1>2. /\ 1 \in DOMAIN events /\ Head(events) = events[1]
      /\ \A i \in DOMAIN events' : i + 1 \in DOMAIN events /\ events'[i] = events[i + 1]
      /\ \A i \in DOMAIN events : i # 1 => i - 1 \in DOMAIN events' /\ events'[i - 1] = events[i]
      /\ \A i \in DOMAIN events' : i \in Nat /\ i >= 1
      /\ \A i \in DOMAIN events : i \in Nat /\ i >= 1
  BY <1>1, TailEvents
<1>3. \A c \in Orders : /\ \A i \in OrderNews(c)' : i + 1 \in OrderNews(c)
                        /\ \A i \in OrderNews(c) : i # 1 => i - 1 \in OrderNews(c)'
  BY <1>2
<1>4. \A a \in Algos : /\ \A i \in ExitNews(a)' : i + 1 \in ExitNews(a)
                       /\ \A i \in ExitNews(a) : i # 1 => i - 1 \in ExitNews(a)'
  BY <1>2
<1>5. /\ \A i \in PosNews' : i + 1 \in PosNews
      /\ \A i \in PosNews : i # 1 => i - 1 \in PosNews'
  BY <1>2
<1>6. NewsTrue'
  <2>1. ASSUME NEW S \in SUBSET DOMAIN events, NEW T \in SUBSET DOMAIN events',
               \A i \in T : i + 1 \in S, \A i \in S : i # 1 => i - 1 \in T,
               NEW i \in T, \A j \in T : j <= i
        PROVE  Latest(S, i + 1)
    <3>1. ASSUME NEW j \in S PROVE j <= i + 1
      <4>1. j \in Nat /\ i \in Nat /\ (j # 1 => j - 1 <= i)
        BY <1>2, <2>1
      <4> QED
        BY <4>1
    <3> QED
      BY <2>1, <3>1 DEF Latest
  <2>2. ASSUME NEW c \in Orders, NEW i \in OrderNews(c)', Latest(OrderNews(c), i)'
        PROVE  events'[i].status = xord'[c]
    <3>1. Latest(OrderNews(c), i + 1)
      BY <1>3, <2>1, <2>2 DEF Latest
    <3> QED
      BY <1>1, <1>2, <3>1 DEF NewsTrue, Latest
  <2>3. ASSUME NEW a \in Algos, NEW i \in ExitNews(a)', Latest(ExitNews(a), i)'
        PROVE  events'[i].status = xalgo'[a]
    <3>1. Latest(ExitNews(a), i + 1)
      BY <1>4, <2>1, <2>3 DEF Latest
    <3> QED
      BY <1>1, <1>2, <3>1 DEF NewsTrue, Latest
  <2>4. ASSUME NEW i \in PosNews', Latest(PosNews, i)' PROVE events'[i].pos = xpos'
    <3>1. Latest(PosNews, i + 1)
      BY <1>5, <2>1, <2>4 DEF Latest
    <3> QED
      BY <1>1, <1>2, <3>1 DEF NewsTrue, Latest
  <2> QED
    BY <2>2, <2>3, <2>4 DEF NewsTrue
<1>7. ASSUME NEW c \in Orders, OrderNews(c)' = {} PROVE sord'[c] = "NEW" <=> xord'[c] = "NEW"
  <2>1. \A i \in OrderNews(c) : i = 1
    BY <1>3, <1>7
  <2>2. CASE 1 \in OrderNews(c)
    <3>1. events[1].status = xord[c]
      BY <1>2, <2>1, <2>2 DEF NewsTrue, Latest
    <3>2. sord' = [sord EXCEPT ![c] = events[1].status]
      BY <1>2, <2>2 DEF Deliver
    <3> QED
      BY <1>1, <3>1, <3>2 DEF TypeInv, TypeOK, StoreTypeOK
  <2>3. CASE 1 \notin OrderNews(c)
    <3>1. OrderNews(c) = {}
      BY <2>1, <2>3
    <3>2. sord'[c] = sord[c]
      BY <1>2, <2>3 DEF Deliver, TypeInv, TypeOK, StoreTypeOK
    <3> QED
      BY <1>1, <3>1, <3>2 DEF StoreTrue
  <2> QED
    BY <2>2, <2>3
<1>8. ASSUME NEW a \in Algos, ExitNews(a)' = {} PROVE salgo'[a] = "NEW" <=> xalgo'[a] = "NEW"
  <2>1. \A i \in ExitNews(a) : i = 1
    BY <1>4, <1>8
  <2>2. CASE 1 \in ExitNews(a)
    <3>1. events[1].status = xalgo[a]
      BY <1>2, <2>1, <2>2 DEF NewsTrue, Latest
    <3>2. salgo' = [salgo EXCEPT ![a] = events[1].status]
      BY <1>2, <2>2 DEF Deliver
    <3> QED
      BY <1>1, <3>1, <3>2 DEF TypeInv, TypeOK, StoreTypeOK
  <2>3. CASE 1 \notin ExitNews(a)
    <3>1. ExitNews(a) = {}
      BY <2>1, <2>3
    <3>2. salgo'[a] = salgo[a]
      BY <1>2, <2>3 DEF Deliver, TypeInv, TypeOK, StoreTypeOK
    <3> QED
      BY <1>1, <3>1, <3>2 DEF StoreTrue
  <2> QED
    BY <2>2, <2>3
<1>9. PosNews' = {} => spos' = xpos'
  <2> SUFFICES ASSUME PosNews' = {} PROVE spos' = xpos'
    OBVIOUS
  <2>1. \A i \in PosNews : i = 1
    BY <1>5
  <2>2. CASE 1 \in PosNews
    <3>1. events[1].pos = xpos
      BY <1>2, <2>1, <2>2 DEF NewsTrue, Latest
    <3> QED
      BY <1>1, <1>2, <2>2, <3>1 DEF Deliver
  <2>3. CASE 1 \notin PosNews
    <3>1. PosNews = {}
      BY <2>1, <2>3
    <3> QED
      BY <1>1, <1>2, <2>3, <3>1 DEF Deliver, StoreTrue
  <2> QED
    BY <2>2, <2>3
<1> QED
  BY <1>6, <1>7, <1>8, <1>9 DEF StoreTrue

\* Every step keeps store, stream and exchange consistent.
LEMMA SyncStep ==
  ASSUME TypeInv, LinkInv, LinkInv', SyncInv, LinkStep PROVE SyncInv'
<1>1. NewsTrue /\ (Connected => StoreTrue) /\ (~Connected => SnapTrue)
  BY DEF SyncInv
<1>2. CASE Steady
  <2>1. TellsAll /\ UNCHANGED <<session, snap, spos, sord, salgo>>
    BY <1>2, BookTold DEF Steady, storeVars
  <2>2. Connected' = Connected
    BY <1>2, <2>1 DEF Steady, Connected
  <2>3. Connected => session # "down"
    BY DEF Connected, LinkInv
  <2> QED
    BY <1>1, <2>1, <2>2, <2>3, ToldNews DEF SyncInv, StoreTrue, SnapTrue
<1>3. CASE Cut
  BY <1>3, NoNews DEF Cut, SyncInv, Connected, SnapTrue
<1>4. CASE Joins
  <2>1. Connected /\ Connected' /\ UNCHANGED <<xord, xalgo, xpos, spos, sord, salgo>>
    BY <1>4 DEF Joins, Connected, exchangeVars, storeVars
  <2> QED
    BY <1>1, <1>4, <2>1, SameNews DEF Joins, SyncInv, StoreTrue
<1>5. CASE Drains
  <2>1. /\ events' = <<>> /\ UNCHANGED <<xord, xalgo, xpos>>
        /\ Connected' \/ (~Connected' /\ session' = "down")
    BY <1>5 DEF Drains, Reconcile, Begin, StopRuntime, Done, Connected, exchangeVars, LinkInv
  <2> QED
    BY <1>5, <2>1, NoNews, DrainTrue DEF SyncInv, StoreTrue, SnapTrue
<1>6. CASE Deliver
  <2>1. Connected /\ Connected'
    BY <1>6 DEF Deliver, Connected, runtimeVars
  <2> QED
    BY <1>1, <1>6, <2>1, DeliverTrue DEF SyncInv
<1>7. CASE Snapshot
  <2>1. /\ ~Connected /\ ~Connected' /\ UNCHANGED <<exchangeVars, events>>
        /\ UNCHANGED <<xord, xalgo, xpos>>
    BY <1>7 DEF Snapshot, Connected, LinkInv, handlerVars, exchangeVars
  <2>2. SnapTrue' 
    BY <1>1, <1>7, <2>1, SameNews DEF Snapshot, SnapTrue, TypeInv, TypeOK, RuntimeTypeOK
  <2> QED
    BY <1>1, <2>1, <2>2, SameNews DEF SyncInv
<1>8. CASE Attach
  <2>1. ~Connected' /\ session' = "attached" /\ UNCHANGED <<exchangeVars, events>>
    BY <1>8 DEF Attach, Connected, LinkInv, handlerVars
  <2> QED
    BY <1>1, <2>1, SameNews DEF SyncInv, SnapTrue
<1> QED
  BY <1>2, <1>3, <1>4, <1>5, <1>6, <1>7, <1>8 DEF LinkStep

\* What the exchange has and the store does not say yet is on its way: after a
\* reconciliation nothing is lost until the session ends.
THEOREM NothingLost == Spec => [](LinkInv /\ SyncInv)
<1>1. Init => LinkInv /\ SyncInv
  <2> SUFFICES ASSUME Init PROVE LinkInv /\ SyncInv
    OBVIOUS
  <2>1. DOMAIN events = {} /\ session = "down" /\ caller = "none" /\ pc = "idle" /\ events = <<>>
    BY DEF Init, ExchangeInit
  <2> QED
    BY <2>1 DEF LinkInv, SyncInv, Connected, SnapTrue, NewsTrue, OrderNews, ExitNews,
       PosNews, About, Buffered
<1>2. TypeInv /\ GateInv /\ PhaseInv /\ LinkInv /\ SyncInv /\ [Next]_vars
        => LinkInv' /\ SyncInv'
  BY LinkInvStep, LinkSteps, SyncStep
<1> QED
  BY <1>1, <1>2, TypeInvariant, GateInvariant, PhaseInvariant, PTL DEF Spec

-----------------------------------------------------------------------------
(* Recovery accepts what is protected. *)

\* A recovery starts on a buffer that has just been drained, and what the
\* exchange does on its own meanwhile is no news of an accepted order.  (The
\* activation of a neutral campaign places exits on its way to verify.)
VerifyInv == pc = "recover" \/ (pc = "verify" /\ ~neutral) => NothingNew

\* How a recovery comes to its first step and to the check of the exits.
LEMMA VerifyReached ==
  ASSUME [Next]_vars, pc' \in {"recover", "verify"}
  PROVE  \/ pc' = "recover" /\ events' = <<>>
         \/ pc' = pc /\ rec' = rec /\ (events' = events \/ ExchangeMoves)
         \/ pc = "recover" /\ pc' = "verify" /\ rec' = rec /\ events' = events
         \/ FinishOppose
<1> USE DEF Goto, Catch, Done, Begin
<1>1. CASE OpenStep
  BY <1>1 DEF OpenStep, PlaceStarter, PlaceStop, StopFails, PlaceTakeProfit, TakeProfitFails,
     FinishOpen, EmergencyClose, FinishUnwind, PlaceLimit, UnwindLimit
<1>2. CASE ActivateStep
  BY <1>2 DEF ActivateStep, PlaceNeutralStop, PlaceNeutralTakeProfit,
     NeutralEmergencyClose, DirectionFlipClose, CancelOpposite
<1>3. CASE CleanupStep
  BY <1>3 DEF CleanupStep, SweepLimit, SweepExit, FinishSweep, Swept, OpenGate
<1>4. CASE Recover \/ Verify \/ ErrorStep
  BY <1>4 DEF Recover, RecoverNothing, RecoverArmed, RecoverFlat, RecoverFlipped,
     RecoverPosition, Verify, ErrorStep, SetFailed, SetDegraded, HaltStore, Raise,
     StopRuntime, KeepStatus, OpenGate
<1>5. CASE StartOpen \/ \E by \in {"loop", "event"} : CleanupOnce(by)
  BY <1>5 DEF StartOpen, CleanupOnce, CleanupIfFlat
<1>6. CASE Reconcile \/ SessionEnd \/ Stop \/ Crash
  BY <1>6 DEF Reconcile, SessionEnd, Stop, Crash, StopRuntime
<1>7. CASE \/ Signal \/ Deliver \/ StartRuntime \/ RuntimeReady \/ Attach \/ Snapshot
           \/ GraceOver \/ Alarm \/ ExchangeMoves \/ UNCHANGED vars
  BY <1>7 DEF Signal, Deliver, StartRuntime, RuntimeReady, Attach, Snapshot, GraceOver, Alarm,
     ExchangeMoves, vars, handlerVars
<1> QED
  BY <1>1, <1>2, <1>3, <1>4, <1>5, <1>6, <1>7 DEF Next, HandlerStep

\* Every step keeps that of a recovery.
LEMMA VerifyInvStep ==
  ASSUME TypeInv, ExitInv, VerifyInv, [Next]_vars PROVE VerifyInv'
<1> SUFFICES ASSUME pc' = "recover" \/ (pc' = "verify" /\ ~neutral') PROVE NothingNew'
  BY DEF VerifyInv
<1>1. events' = <<>> \/ (events' = events /\ NothingNew) => NothingNew'
  BY DEF NothingNew
<1>2. ExchangeMoves /\ NothingNew => NothingNew'
  BY MovesNothingNew
<1>3. CASE rec' = rec /\ pc' = pc /\ (events' = events \/ ExchangeMoves)
  <2>1. neutral' = neutral
    BY <1>3, PlanStep DEF neutral, cur
  <2> QED
    BY <1>1, <1>2, <1>3, <2>1 DEF VerifyInv
<1>4. CASE FinishOppose
  <2>1. neutral /\ pc' # "recover"
    BY <1>4 DEF FinishOppose, TypeInv, Numbered, ExitInv, ExitPhases, Goto, Done
  <2>2. neutral' = neutral
    BY <1>4, <2>1, PlanStep DEF FinishOppose, KeepStatus, neutral, cur, TypeInv, TypeOK,
       RegistryTypeOK
  <2> QED
    BY <2>1, <2>2
<1> QED
  BY <1>1, <1>3, <1>4, VerifyReached DEF VerifyInv

\* Recovery accepts a directional campaign whose two exits rest on the
\* exchange: without news of an accepted order, a resting exit the store has
\* not heard of would be one whose acceptance was lost.
THEOREM ProtectedIsAccepted ==
  ASSUME NEUTRAL_GRID \notin PlanModes
  PROVE  Spec => RecoveryAcceptsProtected
<1> DEFINE Step == pc = "verify" /\ OpenExits(cur) = Exits => pc' # "halt"
<1>1. Init => StoreInv /\ ExitInv /\ VerifyInv
  BY DEF Init, ExchangeInit, StoreInv, ExitInv, VerifyInv, cur
<1>2. TypeInv /\ StoreInv /\ ExitInv /\ VerifyInv /\ [Next]_vars
        => (StoreInv /\ ExitInv /\ VerifyInv)'
  BY StoreInvStep, ExitInvStep, VerifyInvStep
<1>3. TypeInv /\ GateInv /\ LinkInv /\ SyncInv /\ VerifyInv /\ [Next]_vars => Step
  <2> SUFFICES ASSUME TypeInv, GateInv, LinkInv, SyncInv, VerifyInv, [Next]_vars,
                      pc = "verify", OpenExits(cur) = Exits
               PROVE  pc' # "halt"
    OBVIOUS
  <2>1. cur > 0 /\ ~neutral
    BY DEF TypeInv, TypeOK, Numbered, neutral
  <2>2. NothingNew /\ StoreTrue /\ NewsTrue
    BY <2>1 DEF VerifyInv, GateInv, SyncInv, Connected
  <2>3. ASSUME NEW x \in Exits PROVE salgo[Own(x)] = "NEW"
    <3>1. Own(x) \in Algos /\ xalgo[Own(x)] = "NEW"
      BY <2>1, OwnType DEF OpenExits, Own
    <3>2. ExitNews(Own(x)) = {}
      <4> SUFFICES ASSUME ExitNews(Own(x)) # {} PROVE FALSE
        OBVIOUS
      <4>1. ExitNews(Own(x)) \in SUBSET DOMAIN events /\ events \in Seq(Event)
        BY DEF ExitNews, About, Buffered, TypeInv, TypeOK, AccountTypeOK
      <4>2. PICK i \in ExitNews(Own(x)) : Latest(ExitNews(Own(x)), i)
        BY <4>1, HasLatest
      <4>3. events[i].status = "NEW"
        BY <2>2, <3>1, <4>2 DEF NewsTrue
      <4> QED
        BY <2>2, <4>2, <4>3 DEF NothingNew, ExitNews, About, Buffered
    <3> QED
      BY <2>2, <3>1, <3>2 DEF StoreTrue
  <2>4. ExitsRest
    BY <2>3 DEF ExitsRest, RestingExits
  <2>5. CASE HandlerStep
    BY <2>4, <2>5 DEF HandlerStep, OpenStep, PlaceStarter, PlaceStop, PlaceTakeProfit,
       FinishOpen, EmergencyClose, FinishUnwind, PlaceLimit, UnwindLimit, ActivateStep,
       PlaceNeutralStop, PlaceNeutralTakeProfit, FinishOppose, NeutralEmergencyClose,
       DirectionFlipClose, CancelOpposite, CleanupStep, SweepLimit, SweepExit, FinishSweep,
       Recover, Verify, Done, ErrorStep, SetFailed, SetDegraded, HaltStore, Raise, OpenGate, Goto
  <2>6. CASE UNCHANGED pc \/ Done
    BY <2>6 DEF Done
  <2>7. CASE Next /\ ~HandlerStep
    BY <2>6, <2>7 DEF Next, Signal, StartOpen, CleanupOnce, Deliver, StartRuntime,
       RuntimeReady, Attach, Snapshot, Reconcile, SessionEnd, StopRuntime, Stop, Crash,
       GraceOver, Alarm, ExchangeMoves, handlerVars
  <2> QED
    BY <2>5, <2>6, <2>7 DEF vars, handlerVars
<1> QED
  BY <1>1, <1>2, <1>3, TypeInvariant, GateInvariant, NothingLost, PTL
     DEF Spec, RecoveryAcceptsProtected

-----------------------------------------------------------------------------
(* What a step does to one entry, and how the stream tells of it. *)

\* An event on its way says st of an entry.
Says(c, st) == \E i \in OrderNews(c) : events[i].status = st

\* The stream tells nothing new of an entry,
OrderKept(c) ==
  OrderNews(c)' = OrderNews(c) /\ \A i \in OrderNews(c) : events'[i] = events[i]

\* or one thing, last, if anybody is listening.
OrderTells(c, st) ==
  IF session = "down" THEN events' = events
  ELSE \E k \in DOMAIN events' :
         /\ events'[k].status = st /\ OrderNews(c)' = OrderNews(c) \cup {k}
         /\ \A i \in OrderNews(c) : i < k /\ events'[i] = events[i]

\* What is fed at the end of the stream adds to the news of its entry only.
LEMMA FedOrder ==
  ASSUME events \in Seq(Event), NEW c \in Orders, NEW st \in OrderStatus,
         \/ Feed(<<OrdEvent(c, st)>>)
         \/ \E n \in Int : Feed(<<PosEvent(n), OrdEvent(c, st)>>)
  PROVE  /\ OrderTells(c, st)
         /\ \A b \in Orders : b # c => OrderKept(b)
<1> USE DEF OrderNews, About, Buffered
<1>1. CASE session = "down"
  BY <1>1 DEF Feed, OrderTells, OrderKept
<1>2. CASE session # "down"
  <2> DEFINE e == OrdEvent(c, st)
             n == Len(events)
  <2>1. e \in Event /\ e.kind = "ORDER_TRADE_UPDATE" /\ e.id = c /\ e.status = st
    BY EventTypes DEF OrdEvent
  <2>2. n \in Nat /\ DOMAIN events = 1 .. n
    OBVIOUS
  <2>3. \E k \in DOMAIN events' :
          /\ events'[k] = e /\ k > n /\ k \in Int
          /\ \A i \in DOMAIN events' : i \in 1 .. n \/ i = k \/ events'[i].kind # "ORDER_TRADE_UPDATE"
          /\ \A i \in 1 .. n : i \in DOMAIN events' /\ events'[i] = events[i]
    <3>1. CASE Feed(<<e>>)
      <4> HIDE DEF e
      <4>1. events' = events \o <<e>>
        BY <1>2, <3>1 DEF Feed
      <4>2. DOMAIN events' = 1 .. n + 1 /\ events'[n + 1] = e
            /\ \A i \in 1 .. n : events'[i] = events[i]
        BY <2>1, <2>2, <4>1
      <4> QED
        BY <2>2, <4>2
    <3>2. ASSUME NEW m \in Int, Feed(<<PosEvent(m), e>>)
          PROVE  \E k \in DOMAIN events' :
                   /\ events'[k] = e /\ k > n /\ k \in Int
                   /\ \A i \in DOMAIN events' :
                        i \in 1 .. n \/ i = k \/ events'[i].kind # "ORDER_TRADE_UPDATE"
                   /\ \A i \in 1 .. n : i \in DOMAIN events' /\ events'[i] = events[i]
      <4> DEFINE f == PosEvent(m)
      <4>1. f \in Event /\ f.kind # "ORDER_TRADE_UPDATE"
        BY EventTypes DEF PosEvent
      <4>2. events' = events \o <<f, e>>
        BY <1>2, <3>2 DEF Feed
      <4> HIDE DEF e, f
      <4>3. /\ DOMAIN events' = 1 .. n + 2 /\ events'[n + 1] = f /\ events'[n + 2] = e
            /\ \A i \in 1 .. n : events'[i] = events[i]
        BY <2>1, <2>2, <4>1, <4>2
      <4>4. \A i \in 1 .. n + 2 : i \in 1 .. n \/ i = n + 1 \/ i = n + 2
        BY <2>2
      <4>5. n + 2 \in DOMAIN events' /\ n + 2 > n /\ \A i \in 1 .. n : i \in DOMAIN events'
        BY <2>2, <4>3
      <4> QED
        BY <4>1, <4>3, <4>4, <4>5
    <3> QED
      BY <3>1, <3>2
  <2> HIDE DEF e, n
  <2>4. PICK k \in DOMAIN events' :
          /\ events'[k] = e /\ k > n /\ k \in Int
          /\ \A i \in DOMAIN events' : i \in 1 .. n \/ i = k \/ events'[i].kind # "ORDER_TRADE_UPDATE"
          /\ \A i \in 1 .. n : i \in DOMAIN events' /\ events'[i] = events[i]
    BY <2>3
  <2>5. OrderNews(c)' = OrderNews(c) \cup {k}
    BY <2>1, <2>2, <2>4
  <2>6. \A i \in OrderNews(c) : i < k /\ events'[i] = events[i]
    <3>1. ASSUME NEW i \in OrderNews(c) PROVE i < k /\ events'[i] = events[i]
      <4>1. i \in 1 .. n /\ events'[i] = events[i] /\ k > n
        BY <2>2, <2>4
      <4>2. k \in Int
        BY <2>4
      <4> QED
        BY <2>2, <4>1, <4>2
    <3> QED
      BY <3>1
  <2>7. \A b \in Orders : b # c => OrderKept(b)
    BY <2>1, <2>2, <2>4 DEF OrderKept
  <2> QED
    BY <1>2, <2>1, <2>4, <2>5, <2>6, <2>7 DEF OrderTells
<1> QED
  BY <1>1, <1>2

\* What is fed about other things leaves an entry's news alone.
LEMMA FedOther ==
  ASSUME events \in Seq(Event), NEW evs \in Seq(Event), Feed(evs),
         \A j \in DOMAIN evs : evs[j].kind # "ORDER_TRADE_UPDATE"
  PROVE  \A c \in Orders : OrderKept(c)
<1> USE DEF OrderKept, OrderNews, About, Buffered
<1>1. CASE session = "down"
  BY <1>1 DEF Feed
<1>2. CASE session # "down"
  <2>1. /\ \A i \in DOMAIN events : i \in DOMAIN events' /\ events'[i] = events[i]
        /\ \A i \in DOMAIN events' :
             i \in DOMAIN events \/ \E j \in DOMAIN evs : events'[i] = evs[j]
    BY <1>2, FedEvents
  <2> QED
    BY <2>1
<1> QED
  BY <1>1, <1>2

\* One event does so too.
LEMMA FedOtherOne ==
  ASSUME events \in Seq(Event), NEW e \in Event, Feed(<<e>>), e.kind # "ORDER_TRADE_UPDATE"
  PROVE  \A c \in Orders : OrderKept(c)
<1>1. <<e>> \in Seq(Event) /\ \A j \in DOMAIN <<e>> : <<e>>[j] = e
  OBVIOUS
<1> DEFINE evs == <<e>>
<1> HIDE DEF evs
<1> QED
  BY <1>1, FedOther DEF evs

\* An entry is placed by the ladder of its campaign,
Accepted(c) == /\ pc = "ladder" /\ Ready /\ \E l \in todo \cap Limits : c = Own(l)
               /\ xord'[c] = "NEW" /\ OrderTells(c, "NEW")

\* cancelled by its handlers while it rests,
Cancelled(c) == /\ pc \in {"unwind", "oppose", "sweep"} /\ \E l \in todo \cap Limits : c = Own(l)
                /\ xord[c] = "NEW" /\ xord'[c] = "CANCELED" /\ OrderTells(c, "CANCELED")

\* and filled by the exchange.
Filled(c) == /\ Fill(c) /\ xord[c] = "NEW" /\ xord'[c] = "FILLED" /\ OrderTells(c, "FILLED")

EntryMove(c) == \/ xord'[c] = xord[c] /\ OrderKept(c)
                \/ Accepted(c) \/ Cancelled(c) \/ Filled(c)

\* These are all the moves of an entry.
LEMMA EntryMoves ==
  ASSUME TypeInv, BookMove PROVE \A c \in Orders : EntryMove(c)
<1> USE DEF TypeInv, TypeOK
<1>0. events \in Seq(Event) /\ (pc \notin {"idle", "recover"} => cur > 0)
  BY DEF AccountTypeOK, Numbered
<1>1. CASE UNCHANGED <<exchangeVars, events>>
  BY <1>1 DEF EntryMove, OrderKept, OrderNews, About, Buffered, exchangeVars
<1>2. ASSUME NEW n \in Int, MarketFill(n) PROVE \A c \in Orders : EntryMove(c)
  <2>1. /\ PosEvent(xpos + n) \in Event /\ Feed(<<PosEvent(xpos + n)>>)
        /\ xord' = xord
        /\ PosEvent(xpos + n).kind # "ORDER_TRADE_UPDATE"
    BY <1>2, EventTypes DEF AccountTypeOK, MarketFill, PosEvent
  <2> QED
    BY <1>0, <2>1, FedOtherOne DEF EntryMove
<1>3. ASSUME NEW a \in Algos, NEW st \in AlgoStatus, Feed(<<AlgoEvent(a, st)>>), xord' = xord
      PROVE  \A c \in Orders : EntryMove(c)
  <2>1. /\ AlgoEvent(a, st) \in Event
        /\ AlgoEvent(a, st).kind # "ORDER_TRADE_UPDATE"
    BY EventTypes DEF AlgoEvent
  <2> QED
    BY <1>0, <1>3, <2>1, FedOtherOne DEF EntryMove
<1>4. ASSUME NEW a \in Algos, Feed(<<AlgoEvent(a, "FINISHED"), PosEvent(0)>>), xord' = xord
      PROVE  \A c \in Orders : EntryMove(c)
  <2> DEFINE e == AlgoEvent(a, "FINISHED")
             f == PosEvent(0)
  <2>1. e \in Event /\ f \in Event
    BY EventTypes DEF AlgoStatus
  <2>2. e.kind # "ORDER_TRADE_UPDATE" /\ f.kind # "ORDER_TRADE_UPDATE" /\ Feed(<<e, f>>)
    BY <1>4 DEF AlgoEvent, PosEvent
  <2> HIDE DEF e, f
  <2>3. <<e, f>> \in Seq(Event) /\ \A j \in DOMAIN <<e, f>> : <<e, f>>[j].kind # "ORDER_TRADE_UPDATE"
    BY <2>1, <2>2
  <2> QED
    BY <1>0, <1>4, <2>2, <2>3, FedOther DEF EntryMove
<1>5. CASE pc = "starter" /\ Ready /\ MarketFill(rec.dir)
  BY <1>2, <1>5 DEF RegistryTypeOK
<1>6. CASE /\ pc \in {"emergency", "nemergency", "flip"}
           /\ \E d \in {0, 1, -1}, q \in Nat : Reducible(d) /\ ReduceOnly(d, q)
  BY <1>2, <1>6 DEF ReduceOnly, Towards, AccountTypeOK
<1>7. ASSUME NEW l \in todo \cap Limits, pc = "ladder", Ready, AcceptLimit(Own(l))
      PROVE  \A c \in Orders : EntryMove(c)
  <2>1. Own(l) \in Orders
    BY <1>0, <1>7, OwnType
  <2>2. OrderTells(Own(l), "NEW") /\ \A b \in Orders : b # Own(l) => OrderKept(b)
    BY <1>0, <1>7, <2>1, FedOrder DEF AcceptLimit, OrderStatus
  <2> QED
    BY <1>7, <2>1, <2>2 DEF AcceptLimit, AccountTypeOK, EntryMove, Accepted
<1>8. ASSUME NEW l \in todo \cap Limits, pc \in {"unwind", "oppose", "sweep"},
             xord[Own(l)] = "NEW", CancelLimit(Own(l))
      PROVE  \A c \in Orders : EntryMove(c)
  <2>1. Own(l) \in Orders
    BY <1>0, <1>8, OwnType
  <2>2. OrderTells(Own(l), "CANCELED") /\ \A b \in Orders : b # Own(l) => OrderKept(b)
    BY <1>0, <1>8, <2>1, FedOrder DEF CancelLimit, OrderStatus
  <2> QED
    BY <1>8, <2>1, <2>2 DEF CancelLimit, AccountTypeOK, EntryMove, Cancelled
<1>9. ASSUME NEW x \in Exits, cur > 0, (\E d : AcceptExit(Own(x), d)) \/ CancelExit(Own(x))
      PROVE  \A c \in Orders : EntryMove(c)
  <2>1. Own(x) \in Algos
    BY <1>9, OwnType
  <2> QED
    BY <1>3, <1>9, <2>1 DEF AcceptExit, CancelExit, AlgoStatus
<1>10. ASSUME NEW b \in Orders, Fill(b) PROVE \A c \in Orders : EntryMove(c)
  <2>1. OrderTells(b, "FILLED") /\ \A c \in Orders : c # b => OrderKept(c)
    <3>1. xpos + Side(b) \in Int /\ "FILLED" \in OrderStatus
      BY SideType DEF AccountTypeOK, OrderStatus
    <3>2. Feed(<<PosEvent(xpos + Side(b)), OrdEvent(b, "FILLED")>>)
      BY <1>10 DEF Fill
    <3> QED
      BY <1>0, <3>1, <3>2, FedOrder
  <2> QED
    BY <1>10, <2>1 DEF Fill, AccountTypeOK, EntryMove, Filled
<1>11. ASSUME NEW a \in Algos, Fire(a) \/ Expire(a) PROVE \A c \in Orders : EntryMove(c)
  BY <1>3, <1>4, <1>11 DEF Fire, Expire, AlgoStatus
<1> QED
  BY <1>0, <1>1, <1>5, <1>6, <1>7, <1>8, <1>9, <1>10, <1>11 DEF BookMove, ExchangeMoves

-----------------------------------------------------------------------------
(* The ladder, and the life of an entry's news. *)

\* The ladder places what was not placed before.
LadderInv ==
  /\ pc = "ladder" => \A l \in todo \cap Limits : xord[Own(l)] = "NONE"
  /\ pc \in {"starter", "stop", "tp"} => \A l \in Limits : xord[Own(l)] = "NONE"

\* How an open comes to its next call.
LEMMA OpeningReached ==
  ASSUME TypeInv, [Next]_vars, pc' \in Opening
  PROVE  \/ StartOpen /\ ~active
         \/ rec' = rec /\ pc' = pc /\ todo' = todo /\ (xord' = xord \/ ExchangeMoves)
         \/ /\ rec' = rec /\ pc' = "ladder" /\ pc = "ladder"
            /\ \E l \in todo : /\ todo' = todo \ {l}
                               /\ xord' = [xord EXCEPT ![Own(l)] = "NEW"]
         \/ /\ rec' = rec /\ xord' = xord
            /\ <<pc, pc'>> \in {<<"starter", "stop">>, <<"stop", "tp">>, <<"tp", "ladder">>}
<1> USE DEF Opening, Goto, Catch, Done, Begin, KeepStatus
<1>1. CASE OpenStep
  <2>1. CASE PlaceStarter
    BY <2>1 DEF PlaceStarter, Effect, MarketFill, exchangeVars
  <2>2. CASE PlaceStop \/ PlaceTakeProfit
    BY <2>2 DEF PlaceStop, StopFails, PlaceTakeProfit, TakeProfitFails, Effect, AcceptExit,
       exchangeVars
  <2>3. CASE FinishOpen \/ EmergencyClose \/ FinishUnwind
    BY <2>3 DEF FinishOpen, EmergencyClose, FinishUnwind
  <2>4. ASSUME NEW l \in Limits, PlaceLimit(l)
        PROVE  /\ rec' = rec /\ pc = "ladder" /\ pc' = "ladder"
               /\ l \in todo /\ todo' = todo \ {l} /\ xord' = [xord EXCEPT ![Own(l)] = "NEW"]
    BY <2>4 DEF PlaceLimit, Effect, Applied, AcceptLimit
  <2>5. ASSUME NEW l \in Limits, UnwindLimit(l) PROVE FALSE
    BY <2>5 DEF UnwindLimit
  <2> QED
    BY <1>1, <2>1, <2>2, <2>3, <2>4, <2>5 DEF OpenStep
<1>2. CASE ActivateStep
  BY <1>2 DEF ActivateStep, PlaceNeutralStop, PlaceNeutralTakeProfit, FinishOppose,
     NeutralEmergencyClose, DirectionFlipClose, CancelOpposite
<1>3. CASE CleanupStep
  BY <1>3 DEF CleanupStep, SweepLimit, SweepExit, FinishSweep, Swept, OpenGate
<1>4. CASE Recover \/ Verify \/ ErrorStep
  BY <1>4 DEF Recover, RecoverNothing, RecoverArmed, RecoverFlat, RecoverFlipped,
     RecoverPosition, Verify, ErrorStep, SetFailed, SetDegraded, HaltStore, Raise, StopRuntime,
     OpenGate
<1>5. CASE StartOpen \/ \E by \in {"loop", "event"} : CleanupOnce(by)
  BY <1>5 DEF StartOpen, CleanupOnce, CleanupIfFlat
<1>6. CASE Reconcile \/ SessionEnd \/ Stop \/ Crash
  BY <1>6 DEF Reconcile, SessionEnd, Stop, Crash, StopRuntime
<1>7. CASE \/ Signal \/ Deliver \/ StartRuntime \/ RuntimeReady \/ Attach \/ Snapshot
           \/ GraceOver \/ Alarm \/ ExchangeMoves \/ UNCHANGED vars
  BY <1>7 DEF Signal, Deliver, StartRuntime, RuntimeReady, Attach, Snapshot, GraceOver, Alarm,
     ExchangeMoves, vars, handlerVars, exchangeVars
<1> QED
  BY <1>1, <1>2, <1>3, <1>4, <1>5, <1>6, <1>7 DEF Next, HandlerStep

\* A campaign that is registered has no order yet.
LEMMA FreshCampaign ==
  ASSUME TypeInv, StoreInv, OrderInv, StartOpen, ~active
  PROVE  /\ cur' = cur + 1 /\ cur' \in Gens
         /\ \A l \in Limits : Own(l)' \in Orders /\ xord[Own(l)'] = "NONE" /\ sord[Own(l)'] = "NONE"
         /\ \A x \in Exits : Own(x)' \in Algos /\ xalgo[Own(x)'] = "NONE" /\ salgo[Own(x)'] = "NONE"
         /\ UNCHANGED <<exchangeVars, events, storeVars>>
<1> DEFINE g == cur + 1
<1>1. rec'.gen = g /\ UNCHANGED <<exchangeVars, events, storeVars>>
  BY DEF StartOpen
<1>2. g \in Gens /\ cur' = g /\ cur \in Nat
  BY <1>1, ExchangeAssumption
     DEF StartOpen, TypeInv, TypeOK, Numbered, cur, RegistryTypeOK, Gens
<1>3. /\ \A l \in Limits : <<g, l>> \in Orders /\ <<g, l>>[1] = g
      /\ \A x \in Exits : <<g, x>> \in Algos /\ <<g, x>>[1] = g
      /\ ~(g <= cur)
  BY <1>2 DEF Orders, Algos
<1>4. /\ \A l \in Limits : xord[<<g, l>>] = "NONE" /\ sord[<<g, l>>] = "NONE"
      /\ \A x \in Exits : xalgo[<<g, x>>] = "NONE" /\ salgo[<<g, x>>] = "NONE"
  BY <1>3 DEF StoreInv, OrderInv
<1> QED
  BY <1>1, <1>2, <1>3, <1>4 DEF Own

\* Every step keeps the ladder to what was not placed.
LEMMA LadderInvStep ==
  ASSUME TypeInv, StoreInv, OrderInv, LadderInv, [Next]_vars PROVE LadderInv'
<1> SUFFICES ASSUME pc' \in Opening PROVE LadderInv'
  BY DEF LadderInv, Opening
<1>1. CASE StartOpen /\ ~active
  BY <1>1, FreshCampaign DEF LadderInv, exchangeVars
<1>2. ASSUME rec' = rec PROVE \A l : Own(l)' = Own(l)
  BY <1>2 DEF Own, cur
<1>3. CASE rec' = rec /\ pc' = pc /\ todo' = todo /\ (xord' = xord \/ ExchangeMoves)
  <2>1. \A l \in Limits : Own(l) \in Orders
    BY <1>3, OwnType DEF Opening, TypeInv, Numbered
  <2>2. \A c \in Orders : xord[c] = "NONE" => xord'[c] = "NONE"
    BY <1>3 DEF ExchangeMoves, Fill, Fire, Expire, TypeInv, TypeOK, AccountTypeOK
  <2> QED
    BY <1>2, <1>3, <2>1, <2>2 DEF LadderInv
<1>4. CASE /\ rec' = rec /\ pc' = "ladder" /\ pc = "ladder"
           /\ \E l \in todo : /\ todo' = todo \ {l}
                              /\ xord' = [xord EXCEPT ![Own(l)] = "NEW"]
  <2>1. \A l \in Limits : Own(l) \in Orders
    BY <1>4, OwnType DEF TypeInv, Numbered
  <2>2. \A l, m : Own(l) = Own(m) => l = m
    BY DEF Own
  <2> QED
    BY <1>2, <1>4, <2>1, <2>2 DEF LadderInv, TypeInv, TypeOK, AccountTypeOK
<1>5. CASE /\ rec' = rec /\ xord' = xord
           /\ <<pc, pc'>> \in {<<"starter", "stop">>, <<"stop", "tp">>, <<"tp", "ladder">>}
  BY <1>2, <1>5 DEF LadderInv
<1> QED
  BY <1>1, <1>3, <1>4, <1>5, OpeningReached

\* The news of an entry begin with its acceptance and end with its end: there
\* are none of one that was not placed, all but the last tell that it rests,
\* and while there are some a connected store has heard that it rests or will.
EntryPath(c) ==
  /\ xord[c] = "NONE" => OrderNews(c) = {}
  /\ \A i, j \in OrderNews(c) : i < j => events[i].status = "NEW"
  /\ Connected /\ OrderNews(c) # {} => sord[c] = "NEW" \/ Says(c, "NEW")
PathInv == \A c \in Orders : EntryPath(c)

\* The news of an entry that rests on the exchange say so.
LEMMA RestingNews ==
  ASSUME TypeInv, NewsTrue, PathInv, NEW c \in Orders, xord[c] = "NEW"
  PROVE  \A i \in OrderNews(c) : events[i].status = "NEW"
<1>1. /\ OrderNews(c) \in SUBSET DOMAIN events /\ events \in Seq(Event)
      /\ OrderNews(c) \subseteq Int
  BY DEF OrderNews, About, Buffered, TypeInv, TypeOK, AccountTypeOK
<1> SUFFICES ASSUME NEW i \in OrderNews(c) PROVE events[i].status = "NEW"
  OBVIOUS
<1>2. PICK k \in OrderNews(c) : Latest(OrderNews(c), k)
  BY <1>1, HasLatest
<1>3. i < k \/ i = k
  BY <1>1, <1>2 DEF Latest
<1> QED
  BY <1>2, <1>3 DEF NewsTrue, PathInv, EntryPath

\* An end is told last.
LEMMA PathTells ==
  ASSUME TypeInv, TypeInv', SyncInv, PathInv, NEW c \in Orders, NEW st, xord[c] = "NEW",
         xord'[c] # "NONE", sord' = sord, Connected' = Connected,
         Connected => session # "down", OrderTells(c, st)
  PROVE  EntryPath(c)'
<1>1. \A i \in OrderNews(c) : events[i].status = "NEW"
  BY RestingNews DEF SyncInv
<1>2. CASE session = "down"
  <2>1. OrderNews(c)' = OrderNews(c) /\ events' = events /\ ~Connected'
    BY <1>2 DEF OrderTells, OrderNews, About, Buffered
  <2> QED
    BY <1>1, <2>1 DEF EntryPath
<1>3. CASE session # "down"
  <2>1. PICK k \in DOMAIN events' :
          /\ events'[k].status = st /\ OrderNews(c)' = OrderNews(c) \cup {k}
          /\ \A i \in OrderNews(c) : i < k /\ events'[i] = events[i]
    BY <1>3 DEF OrderTells
  <2>2. /\ events' \in Seq(Event) /\ events \in Seq(Event) /\ k \in Int
        /\ OrderNews(c) \subseteq Int
    BY <2>1 DEF TypeInv, TypeOK, AccountTypeOK, OrderNews, About, Buffered
  <2>3. \A i, j \in OrderNews(c)' : i < j => events'[i].status = "NEW"
    BY <1>1, <2>1, <2>2
  <2>4. Connected' => sord'[c] = "NEW" \/ Says(c, "NEW")'
    <3>1. CASE OrderNews(c) = {}
      BY <3>1 DEF SyncInv, StoreTrue
    <3>2. CASE OrderNews(c) # {}
      BY <1>1, <2>1, <3>2 DEF Says
    <3> QED
      BY <3>1, <3>2
  <2> QED
    BY <2>3, <2>4 DEF EntryPath
<1> QED
  BY <1>2, <1>3

\* Delivering the first event of an entry's news moves it into the store.
LEMMA PathDelivered ==
  ASSUME TypeInv, PathInv, Deliver, NEW c \in Orders PROVE EntryPath(c)'
<1> USE DEF OrderNews, About, Buffered
<1>1. /\ events \in Seq(Event) /\ events # <<>> /\ events' = Tail(events)
      /\ xord' = xord
  BY DEF Deliver, TypeInv, TypeOK, AccountTypeOK, exchangeVars
<1>2. /\ 1 \in DOMAIN events /\ Head(events) = events[1]
      /\ \A i \in DOMAIN events' : i + 1 \in DOMAIN events /\ events'[i] = events[i + 1]
      /\ \A i \in DOMAIN events : i # 1 => i - 1 \in DOMAIN events' /\ events'[i - 1] = events[i]
      /\ \A i \in DOMAIN events' : i \in Nat /\ i >= 1
      /\ \A i \in DOMAIN events : i \in Nat /\ i >= 1
  BY <1>1, TailEvents
<1>3. /\ \A i \in OrderNews(c)' : i + 1 \in OrderNews(c) /\ i \in Nat /\ i + 1 > 1
      /\ \A i \in OrderNews(c) : i # 1 => i - 1 \in OrderNews(c)'
  BY <1>2
<1>4. EntryPath(c) /\ Connected
  BY DEF PathInv, Deliver, Connected
<1>5. xord'[c] = "NONE" => OrderNews(c)' = {}
  BY <1>1, <1>3, <1>4 DEF EntryPath
<1>6. \A i, j \in OrderNews(c)' : i < j => events'[i].status = "NEW"
  <2>1. ASSUME NEW i \in OrderNews(c)', NEW j \in OrderNews(c)', i < j
        PROVE  events'[i].status = "NEW"
    <3>1. i + 1 < j + 1
      BY <1>3, <2>1
    <3> QED
      BY <1>2, <1>3, <1>4, <3>1 DEF EntryPath
  <2> QED
    BY <2>1
<1>7. OrderNews(c)' # {} => sord'[c] = "NEW" \/ Says(c, "NEW")'
  <2> SUFFICES ASSUME NEW j \in OrderNews(c)' PROVE sord'[c] = "NEW" \/ Says(c, "NEW")'
    OBVIOUS
  <2>1. CASE 1 \in OrderNews(c)
    <3>1. events[1].status = "NEW"
      BY <1>3, <1>4, <2>1 DEF EntryPath
    <3>2. sord' = [sord EXCEPT ![c] = events[1].status]
      BY <1>2, <2>1 DEF Deliver
    <3> QED
      BY <3>1, <3>2 DEF TypeInv, TypeOK, StoreTypeOK
  <2>2. CASE 1 \notin OrderNews(c)
    <3>1. sord'[c] = sord[c]
      BY <1>2, <2>2 DEF Deliver, TypeInv, TypeOK, StoreTypeOK
    <3>2. OrderNews(c) # {}
      BY <1>3
    <3>3. CASE Says(c, "NEW")
      <4>1. PICK i \in OrderNews(c) : events[i].status = "NEW"
        BY <3>3 DEF Says
      <4>2. i - 1 \in OrderNews(c)' /\ events'[i - 1].status = "NEW"
        BY <1>2, <1>3, <2>2, <4>1
      <4> QED
        BY <4>2 DEF Says
    <3> QED
      BY <1>4, <3>1, <3>2, <3>3 DEF EntryPath
  <2> QED
    BY <2>1, <2>2
<1> QED
  BY <1>5, <1>6, <1>7 DEF EntryPath

\* Every step keeps the news of an entry to its life.
LEMMA PathInvStep ==
  ASSUME TypeInv, TypeInv', LinkInv, SyncInv, LadderInv, PathInv, LinkStep
  PROVE  PathInv'
<1> SUFFICES ASSUME NEW c \in Orders PROVE EntryPath(c)'
  BY DEF PathInv
<1>0. EntryPath(c) /\ (Connected => session # "down")
  BY DEF PathInv, LinkInv, Connected
<1>1. CASE Steady
  <2>1. Connected' = Connected /\ sord' = sord
    BY <1>1 DEF Steady, Connected, storeVars
  <2>2. CASE xord'[c] = xord[c] /\ OrderKept(c)
    BY <1>0, <2>1, <2>2 DEF EntryPath, OrderKept, Says
  <2>3. CASE Accepted(c)
    <3>1. OrderNews(c) = {} /\ xord'[c] = "NEW"
      BY <1>0, <2>3 DEF Accepted, LadderInv, EntryPath
    <3>2. CASE session = "down"
      BY <1>0, <2>1, <2>3, <3>1, <3>2 DEF Accepted, OrderTells, OrderNews, About, Buffered, EntryPath
    <3>3. CASE session # "down"
      <4>1. PICK k \in DOMAIN events' :
              events'[k].status = "NEW" /\ OrderNews(c)' = OrderNews(c) \cup {k}
        BY <2>3, <3>3 DEF Accepted, OrderTells
      <4> QED
        BY <3>1, <4>1 DEF EntryPath, Says
    <3> QED
      BY <3>2, <3>3
  <2>4. CASE Cancelled(c) \/ Filled(c)
    BY <1>0, <2>1, <2>4, PathTells DEF Cancelled, Filled
  <2> QED
    BY <1>1, <2>2, <2>3, <2>4, EntryMoves DEF EntryMove, Steady
<1>2. CASE Cut \/ Drains
  BY <1>2, NoNews DEF Cut, Drains, Reconcile, EntryPath
<1>3. CASE Joins
  BY <1>0, <1>3 DEF Joins, EntryPath, Says, Connected, OrderNews, About, Buffered, exchangeVars, storeVars
<1>4. CASE Deliver
  BY <1>4, PathDelivered
<1>5. CASE Snapshot \/ Attach
  BY <1>0, <1>5 DEF Snapshot, Attach, EntryPath, Says, Connected, OrderNews, About, Buffered,
     exchangeVars, storeVars, handlerVars
<1> QED
  BY <1>1, <1>2, <1>3, <1>4, <1>5 DEF LinkStep

-----------------------------------------------------------------------------
(* The sweep. *)

\* What the store says rests and a sweep has done with is cancelled, unless it
\* was gone and left the campaign pending.
SweepInv == pc = "sweep" /\ ~pending =>
  /\ \A l \in Limits : sord[Own(l)] = "NEW" /\ l \notin todo => xord[Own(l)] = "CANCELED"
  /\ \A x \in Exits : salgo[Own(x)] = "NEW" /\ x \notin todo => xalgo[Own(x)] = "CANCELED"

\* How a sweep comes to its next call.
LEMMA SweepReached ==
  ASSUME TypeInv, [Next]_vars, pc' = "sweep"
  PROVE  /\ rec' = rec /\ UNCHANGED storeVars
         /\ \/ pc \in {"idle", "recover"} /\ todo' = Leftovers /\ spos = 0
               /\ UNCHANGED <<exchangeVars, events>>
               /\ (pc = "idle" => ~fresh) /\ fresh' = fresh /\ active
            \/ /\ pc = "sweep" /\ todo' = todo /\ pending' = pending
               /\ \/ UNCHANGED exchangeVars /\ (events' = events \/ events' = <<>>)
                  \/ ExchangeMoves
            \/ /\ pc = "sweep"
               /\ \E y \in todo :
                    /\ todo' = todo \ {y}
                    /\ \/ pending' /\ UNCHANGED <<exchangeVars, events>>
                       \/ pending' = pending /\ y \in Limits /\ CancelLimit(Own(y))
                       \/ pending' = pending /\ y \in Exits /\ CancelExit(Own(y))
<1> USE DEF Goto, Catch, Done, Begin, KeepStatus
<1>1. CASE OpenStep
  BY <1>1 DEF OpenStep, PlaceStarter, PlaceStop, StopFails, PlaceTakeProfit, TakeProfitFails,
     FinishOpen, EmergencyClose, FinishUnwind, PlaceLimit, UnwindLimit
<1>2. CASE ActivateStep
  BY <1>2 DEF ActivateStep, PlaceNeutralStop, PlaceNeutralTakeProfit, FinishOppose,
     NeutralEmergencyClose, DirectionFlipClose, CancelOpposite
<1>3. ASSUME NEW l \in Limits, SweepLimit(l)
      PROVE  /\ rec' = rec /\ UNCHANGED storeVars /\ pc = "sweep" /\ l \in todo
             /\ todo' = todo \ {l}
             /\ \/ pending' /\ UNCHANGED <<exchangeVars, events>>
                \/ pending' = pending /\ CancelLimit(Own(l))
  <2>1. PICK out \in CancelAnswers(xord[Own(l)] = "NEW") :
          /\ Effect(out, CancelLimit(Own(l))) /\ out \in {"ok", "notfound"} /\ Swept(l, out)
    BY <1>3 DEF SweepLimit
  <2>2. pending' = (pending \/ out = "notfound")
    BY <2>1 DEF Swept
  <2>3. out = "notfound" => UNCHANGED <<exchangeVars, events>>
    BY <2>1 DEF Effect, Applied
  <2>4. out = "ok" => CancelLimit(Own(l))
    BY <2>1 DEF Effect, Applied
  <2>5. CASE out = "ok"
    <3>1. pending' = pending
      BY <2>2, <2>5 DEF TypeInv, TypeOK, HandlerTypeOK
    <3> QED
      BY <1>3, <2>1, <2>4, <2>5, <3>1 DEF SweepLimit, HandlerFrame, Swept
  <2>6. CASE out = "notfound"
    <3>1. pending'
      BY <2>2, <2>6
    <3> QED
      BY <1>3, <2>1, <2>3, <2>6, <3>1 DEF SweepLimit, HandlerFrame, Swept
  <2> QED
    BY <2>1, <2>5, <2>6
<1>4. ASSUME NEW x \in Exits, SweepExit(x)
      PROVE  /\ rec' = rec /\ UNCHANGED storeVars /\ pc = "sweep" /\ x \in todo
             /\ todo' = todo \ {x}
             /\ \/ pending' /\ UNCHANGED <<exchangeVars, events>>
                \/ pending' = pending /\ CancelExit(Own(x))
  <2>1. PICK out \in CancelAnswers(xalgo[Own(x)] = "NEW") :
          /\ Effect(out, CancelExit(Own(x))) /\ out \in {"ok", "notfound"} /\ Swept(x, out)
    BY <1>4 DEF SweepExit
  <2>2. pending' = (pending \/ out = "notfound")
    BY <2>1 DEF Swept
  <2>3. out = "notfound" => UNCHANGED <<exchangeVars, events>>
    BY <2>1 DEF Effect, Applied
  <2>4. out = "ok" => CancelExit(Own(x))
    BY <2>1 DEF Effect, Applied
  <2>5. CASE out = "ok"
    <3>1. pending' = pending
      BY <2>2, <2>5 DEF TypeInv, TypeOK, HandlerTypeOK
    <3> QED
      BY <1>4, <2>1, <2>4, <2>5, <3>1 DEF SweepExit, HandlerFrame, Swept
  <2>6. CASE out = "notfound"
    <3>1. pending'
      BY <2>2, <2>6
    <3> QED
      BY <1>4, <2>1, <2>3, <2>6, <3>1 DEF SweepExit, HandlerFrame, Swept
  <2> QED
    BY <2>1, <2>5, <2>6
<1>5. CASE FinishSweep \/ Verify \/ ErrorStep
  BY <1>5 DEF FinishSweep, Verify, ErrorStep, SetFailed, SetDegraded, HaltStore, Raise,
     StopRuntime, OpenGate
<1>6. CASE Recover
  BY <1>6 DEF Recover, RecoverNothing, RecoverArmed, RecoverFlat, RecoverFlipped,
     RecoverPosition, OpenGate
<1>7. CASE StartOpen \/ Reconcile \/ SessionEnd \/ Stop \/ Crash
  BY <1>7 DEF StartOpen, Reconcile, SessionEnd, Stop, Crash, StopRuntime
<1>8. CASE \E by \in {"loop", "event"} : CleanupOnce(by)
  BY <1>8 DEF CleanupOnce, CleanupIfFlat, active, ActiveStatus
<1>9. CASE \/ Signal \/ Deliver \/ StartRuntime \/ RuntimeReady \/ Attach \/ Snapshot
           \/ GraceOver \/ Alarm \/ ExchangeMoves \/ UNCHANGED vars
  BY <1>9 DEF Signal, Deliver, StartRuntime, RuntimeReady, Attach, Snapshot, GraceOver, Alarm,
     ExchangeMoves, vars, handlerVars
<1> QED
  BY <1>1, <1>2, <1>3, <1>4, <1>5, <1>6, <1>7, <1>8, <1>9 DEF Next, HandlerStep, CleanupStep

\* Every step keeps what a sweep has done.
LEMMA SweepInvStep ==
  ASSUME TypeInv, SweepInv, [Next]_vars PROVE SweepInv'
<1> SUFFICES ASSUME pc' = "sweep", ~pending' PROVE SweepInv'
  BY DEF SweepInv
<1>1. rec' = rec /\ UNCHANGED <<sord, salgo>> /\ \A l : Own(l)' = Own(l)
  BY SweepReached DEF storeVars, Own, cur
<1>2. Limits \cap Exits = {}
  BY ExchangeAssumption DEF Exits
<1>3. CASE todo' = Leftovers
  BY <1>1, <1>2, <1>3 DEF SweepInv, Leftovers, RestingLimits, RestingExits
<1>4. ASSUME pc = "sweep"
      PROVE  /\ cur > 0
             /\ \A l \in Limits : Own(l) \in Orders
             /\ \A x \in Exits : Own(x) \in Algos
  BY <1>4, OwnType DEF TypeInv, Numbered
<1>5. CASE /\ pc = "sweep" /\ todo' = todo /\ pending' = pending
           /\ UNCHANGED exchangeVars \/ ExchangeMoves
  <2>1. /\ \A c \in Orders : xord[c] = "CANCELED" => xord'[c] = "CANCELED"
        /\ \A a \in Algos : xalgo[a] = "CANCELED" => xalgo'[a] = "CANCELED"
    BY <1>5 DEF ExchangeMoves, Fill, Fire, Expire, TypeInv, TypeOK, AccountTypeOK, exchangeVars
  <2> QED
    BY <1>1, <1>4, <1>5, <2>1 DEF SweepInv
<1>6. ASSUME NEW y \in todo, pc = "sweep", todo' = todo \ {y}, pending' = pending,
             \/ y \in Limits /\ CancelLimit(Own(y))
             \/ y \in Exits /\ CancelExit(Own(y))
      PROVE  SweepInv'
  <2>1. CASE y \in Limits /\ CancelLimit(Own(y))
    <3>1. xalgo' = xalgo /\ xord' = [xord EXCEPT ![Own(y)] = "CANCELED"]
      BY <2>1 DEF CancelLimit
    <3> QED
      BY <1>1, <1>2, <1>4, <1>6, <2>1, <3>1 DEF SweepInv, TypeInv, TypeOK, AccountTypeOK
  <2>2. CASE y \in Exits /\ CancelExit(Own(y))
    <3>1. xord' = xord /\ xalgo' = [xalgo EXCEPT ![Own(y)] = "CANCELED"]
      BY <2>2 DEF CancelExit
    <3> QED
      BY <1>1, <1>2, <1>4, <1>6, <2>2, <3>1 DEF SweepInv, TypeInv, TypeOK, AccountTypeOK
  <2> QED
    BY <1>6, <2>1, <2>2
<1> QED
  BY <1>3, <1>5, <1>6, SweepReached

-----------------------------------------------------------------------------
(* A quiet stream. *)

\* A position on its way comes before the fill of the entry that made it.
FillsTold ==
  \A i \in PosNews : events[i].pos # 0
    => \E j \in DOMAIN events : /\ i < j /\ events[j].kind = "ORDER_TRADE_UPDATE"
                                /\ events[j].status = "FILLED"

Quiet == NothingNew /\ FillsTold

\* The handlers that place nothing, or take over from one that placed nothing.
QuietPhase == \/ pc \in {"idle", "recover", "verify", "sweep", "halt"}
              \/ pc = "raise" /\ caller # "open"
              \/ pc = "oppose" /\ rec.activated

\* The stream is quiet once the grace is over, and in a recovery or a sweep.
Calm == pc \in {"recover", "sweep"} \/ (~fresh /\ QuietPhase)
QuietInv == Calm => Quiet

\* Events that bring neither an acceptance nor a position leave it quiet,
LEMMA QuietFed ==
  ASSUME events \in Seq(Event), NEW evs \in Seq(Event), Feed(evs), Quiet,
         \A j \in DOMAIN evs : /\ evs[j].kind # "ACCOUNT_UPDATE" => evs[j].status # "NEW"
                               /\ evs[j].kind = "ACCOUNT_UPDATE" => evs[j].pos = 0
  PROVE  Quiet'
<1>1. CASE session = "down"
  BY <1>1 DEF Feed, Quiet, NothingNew, FillsTold, PosNews, Buffered
<1>2. CASE session # "down"
  <2>1. /\ \A i \in DOMAIN events : i \in DOMAIN events' /\ events'[i] = events[i]
        /\ \A i \in DOMAIN events' :
             i \in DOMAIN events \/ \E j \in DOMAIN evs : events'[i] = evs[j]
    BY <1>2, FedEvents
  <2>2. NothingNew'
    BY <2>1 DEF Quiet, NothingNew
  <2>3. FillsTold'
    BY <2>1 DEF Quiet, FillsTold, PosNews, Buffered
  <2> QED
    BY <2>2, <2>3 DEF Quiet
<1> QED
  BY <1>1, <1>2

\* so does a fill,
LEMMA QuietFill ==
  ASSUME TypeInv, Quiet, NEW c \in Orders, Fill(c) PROVE Quiet'
<1> DEFINE e == PosEvent(xpos + Side(c))
           f == OrdEvent(c, "FILLED")
           n == Len(events)
<1>1. e \in Event /\ f \in Event /\ events \in Seq(Event)
  <2>1. xpos + Side(c) \in Int /\ "FILLED" \in OrderStatus
    BY SideType DEF TypeInv, TypeOK, AccountTypeOK, OrderStatus
  <2> QED
    BY <2>1, EventTypes DEF TypeInv, TypeOK, AccountTypeOK
<1>2. /\ e.kind = "ACCOUNT_UPDATE" /\ f.kind = "ORDER_TRADE_UPDATE" /\ f.status = "FILLED"
      /\ Feed(<<e, f>>)
  BY DEF PosEvent, OrdEvent, Fill
<1> HIDE DEF e, f
<1>3. CASE session = "down"
  BY <1>2, <1>3 DEF Feed, Quiet, NothingNew, FillsTold, PosNews, Buffered
<1>4. CASE session # "down"
  <2>1. events' = events \o <<e, f>>
    BY <1>2, <1>4 DEF Feed
  <2>2. n \in Nat /\ DOMAIN events = 1 .. n
    BY <1>1
  <2>3. /\ DOMAIN events' = 1 .. n + 2 /\ events'[n + 1] = e /\ events'[n + 2] = f
        /\ \A i \in 1 .. n : events'[i] = events[i]
    BY <1>1, <2>1, <2>2
  <2> HIDE DEF n
  <2>4. ASSUME NEW i \in DOMAIN events' PROVE i \in 1 .. n \/ i = n + 1 \/ i = n + 2
    BY <2>2, <2>3
  <2>5. NothingNew'
    BY <1>2, <2>2, <2>3, <2>4 DEF Quiet, NothingNew
  <2>6. FillsTold'
    <3> SUFFICES ASSUME NEW i \in PosNews'
                 PROVE  \E j \in DOMAIN events' : /\ i < j /\ events'[j].kind = "ORDER_TRADE_UPDATE"
                                                  /\ events'[j].status = "FILLED"
      BY DEF FillsTold
    <3>1. i # n + 2 /\ i \in DOMAIN events'
      BY <1>2, <2>3 DEF PosNews, Buffered
    <3>2. n + 2 \in DOMAIN events' /\ i < n + 2
      BY <2>2, <2>3, <2>4, <3>1
    <3> QED
      BY <1>2, <2>3, <3>2
  <2> QED
    BY <2>5, <2>6 DEF Quiet
<1> QED
  BY <1>3, <1>4

\* whatever else the exchange does, and what a cancelling handler asks of it.
LEMMA QuietMoves ==
  ASSUME TypeInv, Quiet,
         \/ ExchangeMoves
         \/ \E c \in Orders : CancelLimit(c)
         \/ \E a \in Algos : CancelExit(a)
  PROVE  Quiet'
<1>0. events \in Seq(Event)
  BY DEF TypeInv, TypeOK, AccountTypeOK
<1>1. ASSUME NEW e \in Event, Feed(<<e>>), e.kind # "ACCOUNT_UPDATE", e.status # "NEW"
      PROVE  Quiet'
  <2>1. <<e>> \in Seq(Event) /\ \A j \in DOMAIN <<e>> : <<e>>[j] = e
    OBVIOUS
  <2> DEFINE evs == <<e>>
  <2> HIDE DEF evs
  <2> QED
    BY <1>0, <1>1, <2>1, QuietFed DEF evs
<1>2. ASSUME NEW c \in Orders, CancelLimit(c) PROVE Quiet'
  <2>1. OrdEvent(c, "CANCELED") \in Event
    BY EventTypes DEF OrderStatus
  <2> QED
    BY <1>1, <1>2, <2>1 DEF CancelLimit, OrdEvent
<1>3. ASSUME NEW a \in Algos, NEW st \in AlgoStatus, st # "NEW", Feed(<<AlgoEvent(a, st)>>)
      PROVE  Quiet'
  <2>1. AlgoEvent(a, st) \in Event
    BY EventTypes
  <2> QED
    BY <1>1, <1>3, <2>1 DEF AlgoEvent
<1>4. ASSUME NEW a \in Algos, Feed(<<AlgoEvent(a, "FINISHED"), PosEvent(0)>>) PROVE Quiet'
  <2> DEFINE e == AlgoEvent(a, "FINISHED")
             f == PosEvent(0)
  <2>1. e \in Event /\ f \in Event
    BY EventTypes DEF AlgoStatus
  <2>2. /\ e.kind # "ACCOUNT_UPDATE" /\ e.status # "NEW"
        /\ f.kind = "ACCOUNT_UPDATE" /\ f.pos = 0 /\ Feed(<<e, f>>)
    BY <1>4 DEF AlgoEvent, PosEvent
  <2> HIDE DEF e, f
  <2>3. /\ <<e, f>> \in Seq(Event)
        /\ \A j \in DOMAIN <<e, f>> : <<e, f>>[j] = e \/ <<e, f>>[j] = f
    BY <2>1
  <2> DEFINE evs == <<e, f>>
  <2> HIDE DEF evs
  <2> QED
    BY <1>0, <2>2, <2>3, QuietFed DEF evs
<1>5. ASSUME NEW a \in Algos, Fire(a) \/ Expire(a) \/ CancelExit(a) PROVE Quiet'
  BY <1>3, <1>4, <1>5 DEF Fire, Expire, CancelExit, AlgoStatus
<1> QED
  BY <1>2, <1>5, QuietFill DEF ExchangeMoves

\* Delivering the first event leaves the rest as quiet.
LEMMA QuietTail ==
  ASSUME TypeInv, Quiet, events # <<>>, events' = Tail(events) PROVE Quiet'
<1>1. events \in Seq(Event)
  BY DEF TypeInv, TypeOK, AccountTypeOK
<1>2. /\ \A i \in DOMAIN events' : i + 1 \in DOMAIN events /\ events'[i] = events[i + 1]
      /\ \A i \in DOMAIN events : i # 1 => i - 1 \in DOMAIN events' /\ events'[i - 1] = events[i]
      /\ \A i \in DOMAIN events' : i \in Nat /\ i >= 1
      /\ \A i \in DOMAIN events : i \in Nat /\ i >= 1
  BY <1>1, TailEvents
<1>3. NothingNew'
  BY <1>2 DEF Quiet, NothingNew
<1>4. FillsTold'
  <2> SUFFICES ASSUME NEW i \in PosNews', events'[i].pos # 0
               PROVE  \E j \in DOMAIN events' : /\ i < j /\ events'[j].kind = "ORDER_TRADE_UPDATE"
                                                /\ events'[j].status = "FILLED"
    BY DEF FillsTold
  <2>1. i + 1 \in PosNews /\ events[i + 1].pos # 0 /\ i \in Nat /\ i >= 1
    BY <1>2 DEF PosNews, Buffered
  <2>2. PICK j \in DOMAIN events : /\ i + 1 < j /\ events[j].kind = "ORDER_TRADE_UPDATE"
                                   /\ events[j].status = "FILLED"
    BY <2>1 DEF Quiet, FillsTold
  <2>3. j # 1 /\ i < j - 1
    BY <1>2, <2>1, <2>2
  <2> QED
    BY <1>2, <2>2, <2>3
<1> QED
  BY <1>3, <1>4 DEF Quiet

\* What a step that ends calm does to the stream.
CalmStep == \/ events' = <<>>
            \/ events' = events
            \/ events # <<>> /\ events' = Tail(events)
            \/ ExchangeMoves
            \/ \E c \in Orders : CancelLimit(c)
            \/ \E a \in Algos : CancelExit(a)

\* Where the stream is calm it was so before the step, or is empty: the
\* handlers that place something restart the grace as they end.  An event that
\* takes longer than the grace is the exception.
LEMMA CalmReached ==
  ASSUME "late" \notin Adversary, TypeInv, GateInv, ExitInv, [Next]_vars, Calm'
  PROVE  events' = <<>> \/ (Calm /\ CalmStep)
<1> USE DEF Calm, QuietPhase, CalmStep, Goto, Catch, Done, Begin, Degrade, HandlerFrame, runtimeVars
<1>0. /\ KeepStatus => rec' = rec /\ fresh' = fresh
      /\ \A s : SetStatus(s) => fresh'
      /\ pc \notin {"idle", "recover"} => cur > 0
  BY DEF KeepStatus, SetStatus, TypeInv, Numbered
<1>1. CASE OpenStep
  <2>1. CASE PlaceStarter \/ PlaceStop \/ PlaceTakeProfit
    BY <1>0, <2>1 DEF PlaceStarter, PlaceStop, StopFails, PlaceTakeProfit, TakeProfitFails
  <2>2. CASE FinishOpen \/ FinishUnwind
    BY <1>0, <2>2 DEF FinishOpen, MarkActive, FinishUnwind
  <2>3. CASE EmergencyClose
    BY <1>0, <2>3 DEF EmergencyClose
  <2>4. ASSUME NEW l \in Limits, PlaceLimit(l) PROVE FALSE
    BY <1>0, <2>4 DEF PlaceLimit, GateInv, Opening
  <2>5. ASSUME NEW l \in Limits, UnwindLimit(l) PROVE FALSE
    BY <1>0, <2>5 DEF UnwindLimit
  <2> QED
    BY <1>1, <2>1, <2>2, <2>3, <2>4, <2>5 DEF OpenStep
<1>2. CASE ActivateStep
  <2>1. CASE PlaceNeutralStop \/ NeutralEmergencyClose \/ DirectionFlipClose
    BY <1>0, <2>1 DEF PlaceNeutralStop, NeutralEmergencyClose, DirectionFlipClose
  <2>2. CASE PlaceNeutralTakeProfit
    <3>1. ~rec.activated
      BY <1>0, <2>2 DEF PlaceNeutralTakeProfit, ExitInv, ExitPhases
    <3> QED
      BY <1>0, <2>2, <3>1 DEF PlaceNeutralTakeProfit
  <2>3. CASE FinishOppose
    BY <1>0, <2>3 DEF FinishOppose
  <2>4. ASSUME NEW l \in Limits, CancelOpposite(l) PROVE Calm /\ CalmStep
    <3>1. Own(l) \in Orders
      BY <1>0, <2>4, OwnType DEF CancelOpposite
    <3>2. CalmStep
      BY <2>4, <3>1 DEF CancelOpposite, Effect
    <3>3. Calm
      BY <1>0, <2>4 DEF CancelOpposite
    <3> QED
      BY <3>2, <3>3
  <2> QED
    BY <1>2, <2>1, <2>2, <2>3, <2>4 DEF ActivateStep
<1>3. CASE CleanupStep
  <2>1. ASSUME NEW l \in Limits, SweepLimit(l) PROVE Calm /\ CalmStep
    <3>1. Own(l) \in Orders
      BY <1>0, <2>1, OwnType DEF SweepLimit
    <3> QED
      BY <2>1, <3>1 DEF SweepLimit, Effect
  <2>2. ASSUME NEW x \in Exits, SweepExit(x) PROVE Calm /\ CalmStep
    <3>1. Own(x) \in Algos
      BY <1>0, <2>2, OwnType DEF SweepExit
    <3> QED
      BY <2>2, <3>1 DEF SweepExit, Effect
  <2>3. CASE FinishSweep
    BY <2>3 DEF FinishSweep
  <2> QED
    BY <1>3, <2>1, <2>2, <2>3 DEF CleanupStep
<1>4. CASE Recover \/ Verify
  BY <1>0, <1>4 DEF Recover, RecoverNothing, RecoverArmed, RecoverFlat, RecoverFlipped,
     RecoverPosition, Verify, OpenGate
<1>5. CASE ErrorStep
  BY <1>0, <1>5 DEF ErrorStep, SetFailed, SetDegraded, HaltStore, Raise, StopRuntime
<1>6. CASE StartOpen
  BY <1>0, <1>6 DEF StartOpen
<1>7. CASE \E by \in {"loop", "event"} : CleanupOnce(by)
  BY <1>0, <1>7 DEF CleanupOnce, CleanupIfFlat
<1>8. CASE Reconcile \/ SessionEnd \/ Stop \/ Crash
  BY <1>8 DEF Reconcile, SessionEnd, Stop, Crash, StopRuntime
<1>9. CASE Signal \/ StartRuntime \/ RuntimeReady \/ Attach \/ Snapshot \/ UNCHANGED vars
  BY <1>9 DEF Signal, StartRuntime, RuntimeReady, Attach, Snapshot, vars, handlerVars
<1>10. CASE Deliver
  BY <1>10 DEF Deliver, handlerVars
<1>11. CASE GraceOver
  BY <1>11 DEF GraceOver
<1>12. CASE ExchangeMoves \/ Alarm
  BY <1>12 DEF ExchangeMoves, Alarm, handlerVars
<1> QED
  BY <1>1, <1>2, <1>3, <1>4, <1>5, <1>6, <1>7, <1>8, <1>9, <1>10, <1>11, <1>12
     DEF Next, HandlerStep

\* Every step keeps a calm stream quiet.
LEMMA QuietInvStep ==
  ASSUME "late" \notin Adversary, TypeInv, GateInv, ExitInv, QuietInv, [Next]_vars
  PROVE  QuietInv'
<1> SUFFICES ASSUME Calm' PROVE Quiet'
  BY DEF QuietInv
<1>1. CASE events' = <<>>
  <2>1. DOMAIN events' = {}
    BY <1>1
  <2> QED
    BY <2>1 DEF Quiet, NothingNew, FillsTold, PosNews, Buffered
<1>2. CASE Calm /\ CalmStep
  <2>1. Quiet
    BY <1>2 DEF QuietInv
  <2>2. events' = events => Quiet'
    BY <2>1 DEF Quiet, NothingNew, FillsTold, PosNews, Buffered
  <2> QED
    BY <1>1, <1>2, <2>1, <2>2, QuietMoves, QuietTail DEF CalmStep
<1> QED
  BY <1>1, <1>2, CalmReached

-----------------------------------------------------------------------------
(* What a campaign that is closed leaves on the exchange. *)

\* Only a sweep that has nothing left to do, and found nothing gone, closes a
\* campaign.
LEMMA CloseReached ==
  ASSUME TypeInv, [Next]_vars, rec.status # "CLOSED", rec'.status = "CLOSED"
  PROVE  /\ FinishSweep /\ pc = "sweep" /\ todo = {} /\ spos = 0 /\ ~pending
         /\ cur > 0 /\ rec'.gen = rec.gen /\ UNCHANGED <<exchangeVars, events, storeVars>>
<1> USE StatusFacts DEF Degrade
<1>1. CASE OpenStep
  BY <1>1 DEF OpenStep, PlaceStarter, PlaceStop, StopFails, PlaceTakeProfit, TakeProfitFails,
     FinishOpen, MarkActive, EmergencyClose, FinishUnwind, PlaceLimit, UnwindLimit
<1>2. CASE ActivateStep
  BY <1>2 DEF ActivateStep, PlaceNeutralStop, PlaceNeutralTakeProfit, FinishOppose,
     NeutralEmergencyClose, DirectionFlipClose, CancelOpposite, TypeInv, TypeOK,
     RegistryTypeOK
<1>3. CASE (\E l \in Limits : SweepLimit(l)) \/ (\E x \in Exits : SweepExit(x))
  BY <1>3 DEF SweepLimit, SweepExit, Swept
<1>4. CASE FinishSweep
  <2>1. pc = "sweep" /\ todo = {} /\ cur > 0 /\ UNCHANGED <<exchangeVars, events, storeVars>>
    BY <1>4 DEF FinishSweep, TypeInv, Numbered
  <2>2. spos = 0 /\ ~pending
    BY <1>4 DEF FinishSweep, MarkClosed
  <2>3. rec'.gen = rec.gen
    BY <1>4, <2>2 DEF FinishSweep, MarkClosed, SetStatus, TypeInv, TypeOK, RegistryTypeOK
  <2> QED
    BY <1>4, <2>1, <2>2, <2>3
<1>5. CASE Recover \/ Verify \/ ErrorStep
  BY <1>5 DEF Recover, RecoverNothing, RecoverArmed, RecoverFlat, RecoverFlipped,
     RecoverPosition, Verify, ErrorStep, SetFailed, SetDegraded, HaltStore, Raise
<1>6. CASE StartOpen
  BY <1>6 DEF StartOpen
<1>7. CASE \/ Signal \/ \E by \in {"loop", "event"} : CleanupOnce(by)
           \/ Deliver \/ StartRuntime \/ RuntimeReady \/ Attach \/ Snapshot \/ Reconcile
           \/ SessionEnd \/ Stop \/ Crash \/ GraceOver \/ Alarm \/ ExchangeMoves \/ UNCHANGED vars
  BY <1>7 DEF Signal, CleanupOnce, Deliver, StartRuntime, RuntimeReady, Attach, Snapshot,
     Reconcile, SessionEnd, Stop, Crash, GraceOver, Alarm, ExchangeMoves, vars
<1> QED
  BY <1>1, <1>2, <1>3, <1>4, <1>5, <1>6, <1>7 DEF Next, HandlerStep, CleanupStep

\* What the stream says last of an entry that it says has ended.
LEMMA SaidEnded ==
  ASSUME TypeInv, NewsTrue, PathInv, NEW c \in Orders, Says(c, "FILLED")
  PROVE  xord[c] = "FILLED"
<1>1. /\ OrderNews(c) \in SUBSET DOMAIN events /\ events \in Seq(Event)
      /\ OrderNews(c) \subseteq Int
  BY DEF OrderNews, About, Buffered, TypeInv, TypeOK, AccountTypeOK
<1>2. PICK i \in OrderNews(c) : events[i].status = "FILLED"
  BY DEF Says
<1>3. PICK k \in OrderNews(c) : Latest(OrderNews(c), k)
  BY <1>1, <1>2, HasLatest
<1>4. i < k \/ i = k
  BY <1>1, <1>3 DEF Latest
<1>5. i = k
  BY <1>2, <1>4 DEF PathInv, EntryPath
<1> QED
  BY <1>2, <1>3, <1>5 DEF NewsTrue

\* On a quiet stream a connected store knows of every entry and every exit that
\* rests, and of every entry there is news of.
LEMMA QuietStore ==
  ASSUME TypeInv, SyncInv, PathInv, NothingNew, Connected
  PROVE  /\ \A c \in Orders : xord[c] = "NEW" \/ OrderNews(c) # {} => sord[c] = "NEW"
         /\ \A a \in Algos : xalgo[a] = "NEW" => salgo[a] = "NEW"
<1>0. NewsTrue /\ StoreTrue /\ events \in Seq(Event)
  BY DEF SyncInv, TypeInv, TypeOK, AccountTypeOK
<1>1. ASSUME NEW c \in Orders, OrderNews(c) # {} PROVE sord[c] = "NEW"
  <2>1. ~Says(c, "NEW")
    BY DEF Says, NothingNew, OrderNews, About, Buffered
  <2> QED
    BY <1>1, <2>1 DEF PathInv, EntryPath
<1>2. ASSUME NEW c \in Orders, xord[c] = "NEW", OrderNews(c) = {} PROVE sord[c] = "NEW"
  BY <1>0, <1>2 DEF StoreTrue
<1>3. ASSUME NEW a \in Algos, xalgo[a] = "NEW" PROVE salgo[a] = "NEW"
  <2>1. ExitNews(a) = {}
    <3> SUFFICES ASSUME ExitNews(a) # {} PROVE FALSE
      OBVIOUS
    <3>1. ExitNews(a) \in SUBSET DOMAIN events
      BY DEF ExitNews, About, Buffered
    <3>2. PICK i \in ExitNews(a) : Latest(ExitNews(a), i)
      BY <1>0, <3>1, HasLatest
    <3>3. events[i].status = "NEW"
      BY <1>0, <1>3, <3>2 DEF NewsTrue
    <3> QED
      BY <3>2, <3>3 DEF NothingNew, ExitNews, About, Buffered
  <2> QED
    BY <1>0, <1>3, <2>1 DEF StoreTrue
<1> QED
  BY <1>1, <1>2, <1>3

\* A sweep of a connected store that closes the campaign has cancelled all that
\* rested, and no fill of one of its entries is on its way.
LEMMA SweptClean ==
  ASSUME TypeInv, SyncInv, PathInv, SweepInv, QuietInv, Connected,
         pc = "sweep", todo = {}, ~pending, cur > 0
  PROVE  /\ \A l \in Limits : xord[Own(l)] # "NEW" /\ ~Says(Own(l), "FILLED")
         /\ \A x \in Exits : xalgo[Own(x)] # "NEW"
<1>1. NothingNew /\ NewsTrue
  BY DEF QuietInv, Calm, Quiet, SyncInv
<1>2. /\ \A l \in Limits : Own(l) \in Orders
      /\ \A x \in Exits : Own(x) \in Algos
  BY OwnType
<1>3. ASSUME NEW l \in Limits PROVE xord[Own(l)] # "NEW" /\ ~Says(Own(l), "FILLED")
  <2>1. xord[Own(l)] = "NEW" \/ OrderNews(Own(l)) # {} => xord[Own(l)] = "CANCELED"
    BY <1>1, <1>2, QuietStore DEF SweepInv
  <2>2. Says(Own(l), "FILLED") => OrderNews(Own(l)) # {} /\ xord[Own(l)] = "FILLED"
    <3>1. Says(Own(l), "FILLED") => OrderNews(Own(l)) # {}
      BY DEF Says
    <3> QED
      BY <1>1, <1>2, <3>1, SaidEnded
  <2> QED
    BY <2>1, <2>2
<1>4. ASSUME NEW x \in Exits PROVE xalgo[Own(x)] # "NEW"
  BY <1>1, <1>2, QuietStore DEF SweepInv
<1> QED
  BY <1>3, <1>4

\* No position, and none on its way.
Flat == xpos = 0 /\ \A i \in PosNews : events[i].pos = 0

\* Then, if none of an earlier campaign is either, the position is what the
\* store says it is: nothing.
LEMMA SweptFlat ==
  ASSUME TypeInv, OrderInv, SyncInv, PathInv, SweepInv, QuietInv, Connected,
         pc = "sweep", todo = {}, ~pending, spos = 0, cur > 0,
         \A c \in Orders : c[1] < cur => ~Says(c, "FILLED")
  PROVE  Flat
<1>1. NewsTrue /\ StoreTrue /\ events \in Seq(Event) /\ FillsTold
  BY DEF SyncInv, TypeInv, TypeOK, AccountTypeOK, QuietInv, Calm, Quiet
<1>2. ASSUME NEW j \in DOMAIN events, events[j].kind = "ORDER_TRADE_UPDATE",
             events[j].status = "FILLED"
      PROVE  FALSE
  <2> DEFINE c == events[j].id
  <2>1. c \in Orders /\ Says(c, "FILLED") /\ c[1] <= cur
    <3>1. events[j] \in Event
      BY <1>1
    <3>2. c \in Orders
      BY <1>2, <3>1 DEF Event
    <3>3. j \in OrderNews(c)
      BY <1>2 DEF OrderNews, About, Buffered
    <3> QED
      BY <1>2, <3>2, <3>3 DEF Says, OrderInv
  <2> HIDE DEF c
  <2>2. c[1] \in Int /\ cur \in Int /\ c[2] \in Limits
    BY <2>1, ExchangeAssumption DEF Orders, Gens, TypeInv, TypeOK, RegistryTypeOK, cur
  <2>3. CASE c[1] < cur
    BY <2>1, <2>3
  <2>4. CASE c[1] = cur
    <3>1. c = Own(c[2])
      BY <2>1, <2>4 DEF Own, Orders
    <3> QED
      BY <2>1, <2>2, <3>1, SweptClean
  <2> QED
    BY <2>1, <2>2, <2>3, <2>4
<1>3. \A i \in PosNews : events[i].pos = 0
  BY <1>1, <1>2 DEF FillsTold
<1>4. CASE PosNews = {}
  BY <1>1, <1>3, <1>4 DEF StoreTrue, Flat
<1>5. CASE PosNews # {}
  <2>1. PosNews \in SUBSET DOMAIN events
    BY DEF PosNews, Buffered
  <2>2. PICK i \in PosNews : Latest(PosNews, i)
    BY <1>1, <1>5, <2>1, HasLatest
  <2> QED
    BY <1>1, <1>3, <2>2 DEF NewsTrue, Flat
<1> QED
  BY <1>4, <1>5

-----------------------------------------------------------------------------
(* Campaigns after one another, when none is neutral. *)

\* The handlers of directional campaigns: what an open raises, its own except
\* blocks have caught.
DirInv ==
  /\ pc \in {"idle", "starter", "stop", "tp", "ladder", "emergency", "failed", "degraded",
             "halt", "raise", "sweep", "recover", "verify"}
  /\ caller = "open" => pc \in Opening

\* No campaign is neutral then.
LEMMA NotNeutral ==
  ASSUME TypeInv, NEUTRAL_GRID \notin PlanModes PROVE ~neutral
BY DEF TypeInv, TypeOK, neutral

\* Every step keeps to these handlers.
LEMMA DirInvStep ==
  ASSUME TypeInv, GateInv, DirInv, NEUTRAL_GRID \notin PlanModes, [Next]_vars PROVE DirInv'
<1> USE NotNeutral DEF DirInv, Opening, Goto, Catch, Done, Begin
<1>1. CASE OpenStep
  BY <1>1 DEF OpenStep, PlaceStarter, PlaceStop, StopFails, PlaceTakeProfit, TakeProfitFails,
     FinishOpen, EmergencyClose, FinishUnwind, PlaceLimit, UnwindLimit
<1>2. CASE ActivateStep
  BY <1>2 DEF ActivateStep, PlaceNeutralStop, PlaceNeutralTakeProfit, FinishOppose,
     NeutralEmergencyClose, DirectionFlipClose, CancelOpposite
<1>3. CASE CleanupStep
  BY <1>3 DEF CleanupStep, SweepLimit, SweepExit, FinishSweep, Swept, OpenGate
<1>4. CASE Recover \/ Verify \/ ErrorStep
  BY <1>4 DEF Recover, RecoverNothing, RecoverArmed, RecoverFlat, RecoverFlipped,
     RecoverPosition, Verify, ErrorStep, SetFailed, SetDegraded, HaltStore, Raise, StopRuntime,
     OpenGate
<1>5. CASE StartOpen
  <2>1. ~active => plan[cur + 1] # NEUTRAL_GRID
    BY <1>5, ExchangeAssumption DEF StartOpen, TypeInv, TypeOK, Numbered, cur, RegistryTypeOK, Gens
  <2> QED
    BY <1>5, <2>1 DEF StartOpen
<1>6. CASE \E by \in {"loop", "event"} : CleanupOnce(by)
  BY <1>6 DEF CleanupOnce, CleanupIfFlat
<1>7. CASE Reconcile \/ SessionEnd \/ Stop \/ Crash
  BY <1>7 DEF Reconcile, SessionEnd, Stop, Crash, StopRuntime
<1>8. CASE \/ Signal \/ Deliver \/ StartRuntime \/ RuntimeReady \/ Attach \/ Snapshot
           \/ GraceOver \/ Alarm \/ ExchangeMoves \/ UNCHANGED vars
  BY <1>8 DEF Signal, Deliver, StartRuntime, RuntimeReady, Attach, Snapshot, GraceOver, Alarm,
     ExchangeMoves, vars, handlerVars
<1> QED
  BY <1>1, <1>2, <1>3, <1>4, <1>5, <1>6, <1>7, <1>8 DEF Next, HandlerStep

\* The store has heard of no entry that was never placed.
KnownInv == \A c \in Orders : sord[c] # "NONE" => xord[c] # "NONE"

\* What the store hears, it hears from the stream; an entry that was placed
\* stays so.
LEMMA OrdersHeard ==
  ASSUME TypeInv, PathInv, [Next]_vars, LinkStep, NEW c \in Orders
  PROVE  /\ sord'[c] = sord[c] \/ (Says(c, sord'[c]) /\ xord[c] # "NONE")
         /\ xord[c] # "NONE" => xord'[c] # "NONE"
<1>1. sord'[c] = sord[c] \/ Says(c, sord'[c])
  BY StoreHears DEF Says, OrderNews, About, Buffered
<1>2. Says(c, sord'[c]) => xord[c] # "NONE"
  BY DEF Says, PathInv, EntryPath
<1>3. xord[c] # "NONE" => xord'[c] # "NONE"
  <2>1. CASE Steady
    BY <2>1, EntryMoves DEF Steady, EntryMove, Accepted, Cancelled, Filled
  <2>2. CASE Cut \/ Joins \/ Drains \/ Deliver \/ Snapshot \/ Attach
    BY <2>2 DEF Cut, Joins, Drains, Reconcile, Deliver, Snapshot, Attach, exchangeVars
  <2> QED
    BY <2>1, <2>2 DEF LinkStep
<1> QED
  BY <1>1, <1>2, <1>3

\* Every step keeps the store from hearing of what was not placed.
LEMMA KnownInvStep ==
  ASSUME TypeInv, PathInv, KnownInv, [Next]_vars, LinkStep PROVE KnownInv'
BY OrdersHeard DEF KnownInv

\* A failed open has placed no entry.
HeadInv == pc \in {"emergency", "failed"} => \A l \in Limits : xord[Own(l)] = "NONE"

\* How a directional open comes to its emergency close and out of it.
LEMMA HeadReached ==
  ASSUME TypeInv, DirInv, NEUTRAL_GRID \notin PlanModes, [Next]_vars,
         pc' \in {"emergency", "failed"}
  PROVE  /\ rec' = rec
         /\ \/ pc' = pc /\ (xord' = xord \/ ExchangeMoves)
            \/ pc \in {"stop", "emergency"} /\ xord' = xord
<1> USE NotNeutral DEF DirInv, Opening, Goto, Catch, Done, Begin, KeepStatus
<1>1. CASE OpenStep
  <2>1. CASE PlaceStop
    BY <2>1 DEF PlaceStop, StopFails, Effect, AcceptExit, exchangeVars
  <2>2. CASE EmergencyClose
    BY <2>2 DEF EmergencyClose, Effect, ReduceOnly, MarketFill, exchangeVars
  <2>3. CASE \/ PlaceStarter \/ PlaceTakeProfit \/ FinishOpen \/ FinishUnwind
             \/ \E l \in Limits : PlaceLimit(l) \/ UnwindLimit(l)
    BY <2>3 DEF PlaceStarter, PlaceTakeProfit, TakeProfitFails, FinishOpen, FinishUnwind,
       PlaceLimit, UnwindLimit
  <2> QED
    BY <1>1, <2>1, <2>2, <2>3 DEF OpenStep
<1>2. CASE ActivateStep
  BY <1>2 DEF ActivateStep, PlaceNeutralStop, PlaceNeutralTakeProfit, FinishOppose,
     NeutralEmergencyClose, DirectionFlipClose, CancelOpposite
<1>3. CASE CleanupStep
  BY <1>3 DEF CleanupStep, SweepLimit, SweepExit, FinishSweep, Swept, OpenGate
<1>4. CASE Recover \/ Verify \/ ErrorStep
  BY <1>4 DEF Recover, RecoverNothing, RecoverArmed, RecoverFlat, RecoverFlipped,
     RecoverPosition, Verify, ErrorStep, SetFailed, SetDegraded, HaltStore, Raise, StopRuntime,
     OpenGate
<1>5. CASE StartOpen \/ \E by \in {"loop", "event"} : CleanupOnce(by)
  BY <1>5 DEF StartOpen, CleanupOnce, CleanupIfFlat
<1>6. CASE Reconcile \/ SessionEnd \/ Stop \/ Crash
  BY <1>6 DEF Reconcile, SessionEnd, Stop, Crash, StopRuntime
<1>7. CASE \/ Signal \/ Deliver \/ StartRuntime \/ RuntimeReady \/ Attach \/ Snapshot
           \/ GraceOver \/ Alarm \/ ExchangeMoves \/ UNCHANGED vars
  BY <1>7 DEF Signal, Deliver, StartRuntime, RuntimeReady, Attach, Snapshot, GraceOver, Alarm,
     ExchangeMoves, vars, handlerVars, exchangeVars
<1> QED
  BY <1>1, <1>2, <1>3, <1>4, <1>5, <1>6, <1>7 DEF Next, HandlerStep

\* Every step keeps that.
LEMMA HeadInvStep ==
  ASSUME TypeInv, LadderInv, DirInv, HeadInv, NEUTRAL_GRID \notin PlanModes, [Next]_vars
  PROVE  HeadInv'
<1> SUFFICES ASSUME pc' \in {"emergency", "failed"} PROVE HeadInv'
  BY DEF HeadInv
<1>1. rec' = rec /\ \A l : Own(l)' = Own(l)
  BY HeadReached DEF Own, cur
<1>2. CASE pc' = pc /\ (xord' = xord \/ ExchangeMoves)
  <2>1. \A l \in Limits : Own(l) \in Orders
    BY <1>2, OwnType DEF TypeInv, Numbered
  <2>2. \A c \in Orders : xord[c] = "NONE" => xord'[c] = "NONE"
    BY <1>2 DEF ExchangeMoves, Fill, Fire, Expire, TypeInv, TypeOK, AccountTypeOK
  <2> QED
    BY <1>1, <1>2, <2>1, <2>2 DEF HeadInv
<1>3. CASE pc \in {"stop", "emergency"} /\ xord' = xord
  BY <1>1, <1>3 DEF HeadInv, LadderInv
<1> QED
  BY <1>2, <1>3, HeadReached

\* What a step may change of an entry and of what the stream says of it.
LEMMA EntryStep ==
  ASSUME TypeInv, LinkStep, NEW c \in Orders
  PROVE  /\ xord'[c] = xord[c] \/ Accepted(c) \/ Cancelled(c) \/ Filled(c)
         /\ \A st : Says(c, st)' => \/ Says(c, st)
                                    \/ Accepted(c) /\ st = "NEW"
                                    \/ Cancelled(c) /\ st = "CANCELED"
                                    \/ Filled(c) /\ st = "FILLED"
<1> USE DEF Says, OrderNews, About, Buffered
<1>1. CASE Steady
  <2>1. EntryMove(c)
    BY <1>1, EntryMoves DEF Steady
  <2>2. xord'[c] = xord[c] /\ OrderKept(c) => \A st : Says(c, st)' => Says(c, st)
    BY DEF OrderKept
  <2>3. ASSUME NEW s, OrderTells(c, s)
        PROVE  \A st : Says(c, st)' => Says(c, st) \/ st = s
    BY <2>3 DEF OrderTells
  <2> QED
    BY <2>1, <2>2, <2>3 DEF EntryMove, Accepted, Cancelled, Filled
<1>2. CASE Cut \/ Joins \/ Snapshot \/ Attach \/ Drains
  BY <1>2 DEF Cut, Joins, Snapshot, Attach, Drains, Reconcile, exchangeVars
<1>3. CASE Deliver
  <2>1. /\ xord' = xord /\ events' = Tail(events) /\ events # <<>> /\ events \in Seq(Event)
    BY <1>3 DEF Deliver, exchangeVars, TypeInv, TypeOK, AccountTypeOK
  <2>2. \A i \in DOMAIN events' : i + 1 \in DOMAIN events /\ events'[i] = events[i + 1]
    BY <2>1, TailEvents
  <2>3. \A st : Says(c, st)' => Says(c, st)
    BY <2>2
  <2> QED
    BY <2>1, <2>3
<1> QED
  BY <1>1, <1>2, <1>3 DEF LinkStep

\* An entry that an earlier campaign, or one that has ended, may have left: the
\* store knows it as open only if it is not, and will not hear that it is.
Gone(c) == (sord[c] = "NEW" => xord[c] = "CANCELED") /\ ~Says(c, "NEW")
GoneInv == \A c \in Orders : ~active \/ c[1] < cur => Gone(c)

\* Nothing brings such an entry back,
LEMMA GoneKept ==
  ASSUME TypeInv, PathInv, [Next]_vars, LinkStep, NEW c \in Orders, Gone(c), ~Accepted(c)
  PROVE  Gone(c)'
<1>1. ~Says(c, "NEW")'
  BY EntryStep DEF Gone
<1>2. sord'[c] = "NEW" => xord[c] = "CANCELED"
  BY OrdersHeard DEF Gone
<1>3. xord[c] = "CANCELED" => xord'[c] = "CANCELED"
  BY EntryStep DEF Cancelled, Filled
<1> QED
  BY <1>1, <1>2, <1>3 DEF Gone

\* neither does it fill.
Ended(c) == xord[c] # "NEW" /\ ~Says(c, "FILLED")
EndedInv == \A c \in Orders : armed \/ (Connected /\ ~active) \/ c[1] < cur => Ended(c)

LEMMA EndedKept ==
  ASSUME TypeInv, LinkStep, NEW c \in Orders, Ended(c), ~Accepted(c)
  PROVE  Ended(c)'
BY EntryStep DEF Ended, Cancelled, Filled

\* How an open of a directional campaign fails.
LEMMA FailReached ==
  ASSUME TypeInv, DirInv, NEUTRAL_GRID \notin PlanModes, [Next]_vars, active, ~active'
  PROVE  /\ rec'.gen = rec.gen
         /\ \/ rec'.status = "CLOSED"
            \/ /\ pc \in {"starter", "failed"} /\ rec'.status = "FAILED"
               /\ pc = "failed" => pc' = "halt"
               /\ UNCHANGED <<xord, xalgo, storeVars>>
<1> USE NotNeutral, StatusFacts DEF DirInv, Degrade, active, ActiveStatus
<1>0. rec'.gen = rec.gen
  BY GenStep DEF StartOpen
<1>1. CASE OpenStep
  <2>1. CASE PlaceStarter
    BY <1>0, <2>1 DEF PlaceStarter, Effect, MarketFill, exchangeVars, HandlerFrame
  <2>2. CASE PlaceStop \/ PlaceTakeProfit \/ FinishOpen \/ FinishUnwind
    BY <2>2 DEF PlaceStop, StopFails, PlaceTakeProfit, TakeProfitFails, FinishOpen,
       MarkActive, FinishUnwind
  <2>3. CASE EmergencyClose
    BY <2>3 DEF EmergencyClose
  <2>4. ASSUME NEW l \in Limits, PlaceLimit(l) \/ UnwindLimit(l) PROVE FALSE
    BY <2>4 DEF PlaceLimit, UnwindLimit
  <2> QED
    BY <1>1, <2>1, <2>2, <2>3, <2>4 DEF OpenStep
<1>2. CASE ActivateStep
  BY <1>2 DEF ActivateStep, PlaceNeutralStop, PlaceNeutralTakeProfit, FinishOppose,
     NeutralEmergencyClose, DirectionFlipClose, CancelOpposite
<1>3. CASE CleanupStep
  BY <1>0, <1>3 DEF CleanupStep, SweepLimit, SweepExit, FinishSweep, Swept, MarkClosed
<1>4. CASE Recover \/ Verify
  BY <1>4 DEF Recover, RecoverNothing, RecoverArmed, RecoverFlat, RecoverFlipped,
     RecoverPosition, Verify
<1>5. CASE ErrorStep
  BY <1>0, <1>5 DEF ErrorStep, SetFailed, SetDegraded, HaltStore, Raise, HandlerFrame, exchangeVars,
     Goto
<1>6. CASE StartOpen
  BY <1>6 DEF StartOpen, KeepStatus
<1>7. CASE \/ Signal \/ \E by \in {"loop", "event"} : CleanupOnce(by)
           \/ Deliver \/ StartRuntime \/ RuntimeReady \/ Attach \/ Snapshot \/ Reconcile
           \/ SessionEnd \/ Stop \/ Crash \/ GraceOver \/ Alarm \/ ExchangeMoves \/ UNCHANGED vars
  BY <1>7 DEF Signal, CleanupOnce, Deliver, StartRuntime, RuntimeReady, Attach, Snapshot,
     Reconcile, SessionEnd, Stop, Crash, GraceOver, Alarm, ExchangeMoves, vars
<1> QED
  BY <1>1, <1>2, <1>3, <1>4, <1>5, <1>6, <1>7 DEF Next, HandlerStep

\* An entry that was never placed is gone and ended.
LEMMA NoEntry ==
  ASSUME PathInv, KnownInv, NEW c \in Orders, xord[c] = "NONE"
  PROVE  Gone(c) /\ Ended(c)
BY DEF Gone, Ended, Says, PathInv, EntryPath, KnownInv

\* When a campaign ends its entries are gone, and ended if the store is
\* connected.
LEMMA EndClean ==
  ASSUME TypeInv, SyncInv, OrderInv, LadderInv, PathInv, SweepInv, QuietInv, DirInv, KnownInv,
         HeadInv, NEUTRAL_GRID \notin PlanModes, [Next]_vars, active, ~active',
         NEW c \in Orders, c[1] = cur
  PROVE  Gone(c) /\ (Connected => Ended(c))
<1>1. cur > 0 /\ c[2] \in Limits /\ c = Own(c[2])
  BY DEF TypeInv, Numbered, active, ActiveStatus, Orders, Own
<1>2. CASE rec'.status = "CLOSED"
  <2>1. pc = "sweep" /\ todo = {} /\ ~pending
    BY <1>2, CloseReached DEF active, ActiveStatus
  <2>2. sord[c] = "NEW" => xord[c] = "CANCELED"
    BY <1>1, <2>1 DEF SweepInv
  <2>3. ~Says(c, "NEW")
    BY <2>1 DEF QuietInv, Calm, Quiet, NothingNew, Says, OrderNews, About, Buffered
  <2>4. Connected => Ended(c)
    BY <1>1, <2>1, SweptClean DEF Ended
  <2> QED
    BY <2>2, <2>3, <2>4 DEF Gone
<1>3. CASE pc \in {"starter", "failed"}
  BY <1>1, <1>3, NoEntry DEF LadderInv, HeadInv
<1> QED
  BY <1>2, <1>3, FailReached

\* Every step keeps the entries of earlier campaigns gone,
LEMMA GoneInvStep ==
  ASSUME TypeInv, GateInv, PhaseInv, OrderInv, SyncInv, LadderInv, PathInv, SweepInv, QuietInv,
         DirInv, KnownInv, HeadInv, GoneInv, NEUTRAL_GRID \notin PlanModes, [Next]_vars, LinkStep
  PROVE  GoneInv'
<1> SUFFICES ASSUME NEW c \in Orders, ~active' \/ c[1] < cur' PROVE Gone(c)'
  BY DEF GoneInv
<1>0. c[1] \in Int /\ cur \in Int /\ cur' \in Int
  BY TypeStep, ExchangeAssumption DEF Orders, Gens, TypeInv, TypeOK, RegistryTypeOK, cur
<1>1. Accepted(c) => active /\ ~(c[1] < cur)
  BY <1>0 DEF Accepted, Own, PhaseInv, Opening, active, ActiveStatus
<1>2. CASE ~active \/ c[1] < cur
  BY <1>1, <1>2, GoneKept DEF GoneInv
<1>3. CASE active /\ ~(c[1] < cur)
  <2>1. cur' = cur
    BY <1>3, GenStep DEF cur
  <2>2. ~active' /\ ~Accepted(c)
    <3>1. ~active'
      BY <1>3, <2>1
    <3>2. Accepted(c) => rec'.status # "CLOSED" /\ pc \notin {"starter", "failed"}
      BY <1>3, CloseReached DEF Accepted, active, ActiveStatus
    <3> QED
      BY <1>3, <3>1, <3>2, FailReached
  <2>3. Gone(c)
    <3>1. CASE c[1] = cur
      BY <1>3, <2>2, <3>1, EndClean
    <3>2. CASE c[1] # cur
      <4>1. xord[c] = "NONE"
        BY <1>0, <1>3, <3>2 DEF OrderInv
      <4> QED
        BY <4>1, NoEntry
    <3> QED
      BY <3>1, <3>2
  <2> QED
    BY <2>2, <2>3, GoneKept
<1> QED
  BY <1>2, <1>3

\* Only a signal schedules an open.
LEMMA ArmedBySignal ==
  ASSUME [Next]_vars, ~Signal, armed' PROVE armed
<1> USE DEF HandlerFrame, runtimeVars, OpenGate
<1>1. CASE OpenStep
  BY <1>1 DEF OpenStep, PlaceStarter, PlaceStop, PlaceTakeProfit, FinishOpen, EmergencyClose,
     FinishUnwind, PlaceLimit, UnwindLimit
<1>2. CASE ActivateStep
  BY <1>2 DEF ActivateStep, PlaceNeutralStop, PlaceNeutralTakeProfit, FinishOppose,
     NeutralEmergencyClose, DirectionFlipClose, CancelOpposite
<1>3. CASE CleanupStep
  BY <1>3 DEF CleanupStep, SweepLimit, SweepExit, FinishSweep
<1>4. CASE Recover \/ Verify \/ ErrorStep
  BY <1>4 DEF Recover, RecoverNothing, RecoverArmed, RecoverFlat, RecoverFlipped,
     RecoverPosition, Verify, ErrorStep, SetFailed, SetDegraded, HaltStore, Raise, StopRuntime
<1>5. CASE StartOpen \/ Reconcile \/ SessionEnd \/ Stop \/ Crash
  BY <1>5 DEF StartOpen, Reconcile, SessionEnd, Stop, Crash, StopRuntime
<1>6. CASE \/ \E by \in {"loop", "event"} : CleanupOnce(by)
           \/ Deliver \/ StartRuntime \/ RuntimeReady \/ Attach \/ Snapshot
           \/ GraceOver \/ Alarm \/ ExchangeMoves \/ UNCHANGED vars
  BY <1>6 DEF CleanupOnce, Deliver, StartRuntime, RuntimeReady, Attach, Snapshot,
     GraceOver, Alarm, ExchangeMoves, vars
<1> QED
  BY <1>1, <1>2, <1>3, <1>4, <1>5, <1>6 DEF Next, HandlerStep

\* and ended.  A store that connects learns, from the snapshot and what came
\* after it, that none of them is open; and campaigns are opened only while it
\* is connected.
LEMMA EndedInvStep ==
  ASSUME TypeInv, GateInv, PhaseInv, SessionInv, OrderInv, LinkInv, SyncInv, SyncInv',
         LadderInv, PathInv, SweepInv, QuietInv, DirInv, KnownInv, HeadInv, GoneInv',
         EndedInv, NEUTRAL_GRID \notin PlanModes, [Next]_vars, LinkStep
  PROVE  EndedInv'
<1> SUFFICES ASSUME NEW c \in Orders, armed' \/ (Connected' /\ ~active') \/ c[1] < cur'
             PROVE  Ended(c)'
  BY DEF EndedInv
<1>0. c[1] \in Int /\ cur \in Int /\ cur' \in Int
  BY TypeStep, ExchangeAssumption DEF Orders, Gens, TypeInv, TypeOK, RegistryTypeOK, cur
<1>1. Accepted(c) => active /\ ~armed /\ ~(c[1] < cur)
  BY <1>0 DEF Accepted, Own, PhaseInv, Opening, active, ActiveStatus
<1>2. CASE armed \/ (Connected /\ ~active) \/ c[1] < cur
  BY <1>1, <1>2, EndedKept DEF EndedInv
<1>3. CASE ~armed /\ ~(Connected /\ ~active) /\ ~(c[1] < cur)
  <2>1. ~armed'
    <3>1. ~Signal
      BY <1>3 DEF Signal, Ready, SessionInv, Connected
    <3> QED
      BY <1>3, <3>1, ArmedBySignal
  <2>2. cur' = cur
    BY <1>3, GenStep DEF cur, StartOpen
  <2>3. Connected' /\ ~active'
    BY <1>3, <2>1, <2>2
  <2>4. CASE Connected
    <3>1. active
      BY <1>3, <2>4
    <3>2. ~Accepted(c)
      BY <2>3, <3>1, FailReached, CloseReached DEF Accepted, active, ActiveStatus
    <3>3. CASE c[1] = cur
      BY <2>3, <2>4, <3>1, <3>2, <3>3, EndClean, EndedKept
    <3>4. CASE c[1] # cur
      <4>1. xord[c] = "NONE"
        BY <1>0, <1>3, <3>4 DEF OrderInv
      <4> QED
        BY <3>2, <4>1, NoEntry, EndedKept
    <3> QED
      BY <3>3, <3>4
  <2>5. CASE ~Connected
    <3>1. Drains
      BY <2>3, <2>5 DEF LinkStep, Steady, Cut, Joins, Drains, Deliver, Snapshot, Attach,
         Connected, LinkInv, handlerVars
    <3>2. events' = <<>>
      BY <3>1 DEF Drains, Reconcile
    <3>3. OrderNews(c)' = {}
      BY <3>2, NoNews
    <3>4. sord'[c] = "NEW" <=> xord'[c] = "NEW"
      BY <2>3, <3>3 DEF SyncInv, StoreTrue
    <3>5. Gone(c)'
      BY <2>3 DEF GoneInv
    <3> QED
      BY <3>3, <3>4, <3>5 DEF Ended, Gone, Says
  <2> QED
    BY <2>4, <2>5
<1> QED
  BY <1>2, <1>3

-----------------------------------------------------------------------------
(* What is closed is flat. *)

\* Everything above, put together,
BookInv == /\ LinkInv /\ SyncInv /\ StoreInv /\ OrderInv /\ ExitInv
           /\ LadderInv /\ PathInv /\ SweepInv /\ QuietInv

LEMMA BookInvariant ==
  ASSUME "late" \notin Adversary PROVE Spec => []BookInv
<1>1. Init => BookInv
  <2> SUFFICES ASSUME Init PROVE BookInv
    OBVIOUS
  <2>1. /\ DOMAIN events = {} /\ session = "down" /\ caller = "none" /\ pc = "idle"
        /\ events = <<>> /\ xord = [c \in Orders |-> "NONE"] /\ sord = [c \in Orders |-> "NONE"]
        /\ xalgo = [a \in Algos |-> "NONE"] /\ salgo = [a \in Algos |-> "NONE"] /\ rec.gen = 0
    BY DEF Init, ExchangeInit
  <2>2. LinkInv /\ SyncInv
    BY <2>1 DEF LinkInv, SyncInv, Connected, SnapTrue, NewsTrue, OrderNews, ExitNews,
       PosNews, About, Buffered
  <2>3. StoreInv /\ OrderInv /\ ExitInv /\ LadderInv /\ SweepInv
    BY <2>1 DEF StoreInv, OrderInv, ExitInv, LadderInv, SweepInv, cur
  <2>4. PathInv /\ QuietInv
    BY <2>1 DEF PathInv, EntryPath, QuietInv, Quiet, NothingNew, FillsTold, PosNews, OrderNews,
       About, Buffered
  <2> QED
    BY <2>2, <2>3, <2>4 DEF BookInv
<1>2. TypeInv /\ TypeInv' /\ GateInv /\ PhaseInv /\ BookInv /\ [Next]_vars => BookInv'
  BY LinkInvStep, LinkSteps, SyncStep, StoreInvStep, OrderInvStep, ExitInvStep, LadderInvStep,
     PathInvStep, SweepInvStep, QuietInvStep DEF BookInv
<1> QED
  BY <1>1, <1>2, TypeInvariant, GateInvariant, PhaseInvariant, PTL DEF Spec

\* and of campaigns after one another.
NextInv == DirInv /\ KnownInv /\ HeadInv /\ GoneInv /\ EndedInv

LEMMA NextInvariant ==
  ASSUME "late" \notin Adversary, NEUTRAL_GRID \notin PlanModes PROVE Spec => []NextInv
<1>1. Init => NextInv
  <2> SUFFICES ASSUME Init PROVE NextInv
    OBVIOUS
  <2>1. /\ DOMAIN events = {} /\ caller = "none" /\ pc = "idle"
        /\ xord = [c \in Orders |-> "NONE"] /\ sord = [c \in Orders |-> "NONE"]
    BY DEF Init, ExchangeInit
  <2> QED
    BY <2>1 DEF NextInv, DirInv, KnownInv, HeadInv, GoneInv, Gone, EndedInv, Ended, Says,
       OrderNews, About, Buffered
<1>2. TypeInv /\ GateInv /\ PhaseInv /\ SessionInv /\ BookInv /\ BookInv' /\ NextInv /\ [Next]_vars
        => NextInv'
  <2> SUFFICES ASSUME TypeInv, GateInv, PhaseInv, SessionInv, BookInv, BookInv', NextInv, [Next]_vars
               PROVE  NextInv'
    OBVIOUS
  <2>1. LinkStep
    BY LinkSteps DEF BookInv
  <2>2. DirInv' /\ KnownInv' /\ HeadInv'
    BY <2>1, DirInvStep, KnownInvStep, HeadInvStep DEF BookInv, NextInv
  <2>3. GoneInv'
    BY <2>1, GoneInvStep DEF BookInv, NextInv
  <2>4. EndedInv'
    BY <2>1, <2>3, EndedInvStep DEF BookInv, NextInv
  <2> QED
    BY <2>2, <2>3, <2>4 DEF NextInv
<1> QED
  BY <1>1, <1>2, BookInvariant, TypeInvariant, GateInvariant, PhaseInvariant, SessionInvariant,
     PTL DEF Spec

\* No fill of an earlier campaign is on its way, if there is an earlier one.
NoLateFill == \A c \in Orders : c[1] < cur => ~Says(c, "FILLED")

\* While the store is connected, a campaign is closed only when nothing of it
\* is left: the sweep started on a quiet stream, so the store, which may be
\* behind, knew of all that rested, and every cancel met an open order.  It is
\* shown for one campaign of any mode, and for any number of directional ones.
THEOREM ClosedIsFlat ==
  ASSUME "late" \notin Adversary, MaxCampaigns <= 1 \/ NEUTRAL_GRID \notin PlanModes
  PROVE  Spec => ClosesFlat
<1> DEFINE Step == rec.status # "CLOSED" /\ rec'.status = "CLOSED" /\ Connected
                     => xpos = 0 /\ OpenOrders(cur) = {} /\ OpenExits(cur) = {}
<1>1. TypeInv /\ BookInv /\ NoLateFill /\ [Next]_vars => Step
  <2> SUFFICES ASSUME TypeInv, BookInv, NoLateFill, [Next]_vars, rec.status # "CLOSED",
                      rec'.status = "CLOSED", Connected
               PROVE  xpos = 0 /\ OpenOrders(cur) = {} /\ OpenExits(cur) = {}
    OBVIOUS
  <2>1. pc = "sweep" /\ todo = {} /\ spos = 0 /\ ~pending /\ cur > 0
    BY CloseReached
  <2>2. /\ \A l \in Limits : xord[Own(l)] # "NEW"
        /\ \A x \in Exits : xalgo[Own(x)] # "NEW"
    BY <2>1, SweptClean DEF BookInv
  <2>3. xpos = 0
    BY <2>1, SweptFlat DEF BookInv, NoLateFill, Flat
  <2> QED
    BY <2>2, <2>3 DEF OpenOrders, OpenExits, Own
<1>2. Spec => []NoLateFill
  <2>1. CASE MaxCampaigns <= 1
    <3>1. TypeInv => NoLateFill
      BY <2>1, ExchangeAssumption DEF NoLateFill, Orders, Gens, TypeInv, TypeOK, RegistryTypeOK, cur
    <3> QED
      BY <3>1, TypeInvariant, PTL
  <2>2. CASE NEUTRAL_GRID \notin PlanModes
    <3>1. NextInv => NoLateFill
      BY DEF NextInv, EndedInv, Ended, NoLateFill
    <3> QED
      BY <2>2, <3>1, NextInvariant, PTL
  <2> QED
    BY <2>1, <2>2
<1>3. [][Step]_vars => ClosesFlat
  BY DEF ClosesFlat
<1> QED
  BY <1>1, <1>2, <1>3, BookInvariant, TypeInvariant, PTL DEF Spec

-----------------------------------------------------------------------------
(* The exits of campaigns after one another. *)

\* An event on its way says st of an exit.
ExitSays(a, st) == \E i \in ExitNews(a) : events[i].status = st

\* An exit is placed by a handler of its campaign.
ExitAccepted(a) == /\ pc \in {"stop", "tp", "nstop", "ntp"}
                   /\ xalgo[a] = "NONE" /\ \E x \in Exits : a = Own(x)

\* What a step that does not place an exit may change of it: no event about its
\* acceptance is new.
LEMMA ExitMoved ==
  ASSUME TypeInv, Steady, NEW a \in Algos, ~ExitAccepted(a)
  PROVE  /\ \/ xalgo'[a] = xalgo[a]
            \/ xalgo[a] = "NEW" /\ xalgo'[a] \in {"FINISHED", "CANCELED", "EXPIRED"}
         /\ \A i \in ExitNews(a)' : events'[i].status = "NEW"
              => i \in DOMAIN events /\ events'[i] = events[i]
<1> USE DEF ExitNews, About, Buffered
<1>0. events \in Seq(Event) /\ xalgo \in [Algos -> AlgoStatus] /\ xpos \in Int
      /\ (pc \notin {"idle", "recover"} => cur > 0)
  BY DEF TypeInv, TypeOK, AccountTypeOK, Numbered
<1> DEFINE Kept == \A i \in ExitNews(a)' : events'[i].status = "NEW"
                     => i \in DOMAIN events /\ events'[i] = events[i]
           Silent(e) == ~(e.kind = "ALGO_UPDATE" /\ e.id = a /\ e.status = "NEW")
<1>1. ASSUME NEW e \in Event, Feed(<<e>>), Silent(e) PROVE Kept
  BY <1>0, <1>1, FeedOne
<1>2. ASSUME NEW e \in Event, NEW f \in Event, Feed(<<e, f>>), Silent(e), Silent(f) PROVE Kept
  BY <1>0, <1>2, FeedTwo
<1>3. /\ \A n \in Int : PosEvent(n) \in Event /\ Silent(PosEvent(n))
      /\ \A c \in Orders, s \in OrderStatus : OrdEvent(c, s) \in Event /\ Silent(OrdEvent(c, s))
  BY EventTypes DEF PosEvent, OrdEvent
<1>4. \A b \in Algos, s \in AlgoStatus : AlgoEvent(b, s) \in Event
  BY EventTypes
<1>5. \A b \in Algos, s \in AlgoStatus : b # a \/ s # "NEW" => Silent(AlgoEvent(b, s))
  BY DEF AlgoEvent
<1> HIDE DEF Silent
<1>6. ASSUME NEW n \in Int, MarketFill(n) PROVE xalgo' = xalgo /\ Kept
  BY <1>0, <1>1, <1>3, <1>6 DEF MarketFill
<1>7. CASE UNCHANGED <<exchangeVars, events>>
  BY <1>7 DEF exchangeVars
<1>8. CASE pc = "starter" /\ Ready /\ MarketFill(rec.dir)
  BY <1>6, <1>8 DEF TypeInv, TypeOK, RegistryTypeOK
<1>9. CASE /\ pc \in {"emergency", "nemergency", "flip"}
           /\ \E d \in {0, 1, -1}, q \in Nat : Reducible(d) /\ ReduceOnly(d, q)
  BY <1>0, <1>6, <1>9 DEF ReduceOnly, Towards
<1>10. ASSUME NEW l \in todo \cap Limits, pc # "idle", pc # "recover",
             AcceptLimit(Own(l)) \/ CancelLimit(Own(l))
      PROVE  xalgo' = xalgo /\ Kept
  <2>1. Own(l) \in Orders
    BY <1>0, <1>10, OwnType
  <2>2. xalgo' = xalgo /\ \E s \in OrderStatus : Feed(<<OrdEvent(Own(l), s)>>)
    BY <1>10 DEF AcceptLimit, CancelLimit, OrderStatus
  <2> QED
    BY <1>1, <1>3, <2>1, <2>2
<1>11. ASSUME NEW x \in Exits, NEW d \in {0, 1, -1}, pc \in {"stop", "tp", "nstop", "ntp"},
             xalgo[Own(x)] = "NONE", AcceptExit(Own(x), d)
      PROVE  xalgo'[a] = xalgo[a] /\ Kept
  <2>1. Own(x) \in Algos /\ Own(x) # a
    BY <1>0, <1>11, OwnType DEF ExitAccepted
  <2>2. xalgo'[a] = xalgo[a] /\ Feed(<<AlgoEvent(Own(x), "NEW")>>)
    BY <1>0, <1>11, <2>1 DEF AcceptExit
  <2> QED
    BY <1>1, <1>4, <1>5, <2>1, <2>2 DEF AlgoStatus
<1>12. ASSUME NEW x \in Exits, pc = "sweep", xalgo[Own(x)] = "NEW", CancelExit(Own(x))
      PROVE  /\ xalgo'[a] = xalgo[a] \/ (xalgo[a] = "NEW" /\ xalgo'[a] = "CANCELED")
             /\ Kept
  <2>1. Own(x) \in Algos
    BY <1>0, <1>12, OwnType
  <2>2. Feed(<<AlgoEvent(Own(x), "CANCELED")>>)
        /\ xalgo' = [xalgo EXCEPT ![Own(x)] = "CANCELED"]
    BY <1>12 DEF CancelExit
  <2>3. Kept
    BY <1>1, <1>4, <1>5, <2>1, <2>2 DEF AlgoStatus
  <2> QED
    BY <1>0, <1>12, <2>2, <2>3
<1>13. ASSUME NEW c \in Orders, Fill(c) PROVE xalgo' = xalgo /\ Kept
  <2>1. xpos + Side(c) \in Int /\ "FILLED" \in OrderStatus
    BY <1>0, SideType DEF OrderStatus
  <2>2. xalgo' = xalgo /\ Feed(<<PosEvent(xpos + Side(c)), OrdEvent(c, "FILLED")>>)
    BY <1>13 DEF Fill
  <2> QED
    BY <1>2, <1>3, <2>1, <2>2
<1>14. ASSUME NEW b \in Algos, Fire(b) \/ Expire(b)
      PROVE  /\ xalgo'[a] = xalgo[a]
                \/ (xalgo[a] = "NEW" /\ xalgo'[a] \in {"FINISHED", "EXPIRED"})
             /\ Kept
  <2>1. \/ Feed(<<AlgoEvent(b, "FINISHED"), PosEvent(0)>>)
        \/ Feed(<<AlgoEvent(b, "EXPIRED")>>)
    BY <1>14 DEF Fire, Expire
  <2>2. Kept
    BY <1>1, <1>2, <1>3, <1>4, <1>5, <2>1 DEF AlgoStatus
  <2>3. xalgo[b] = "NEW" /\ \E s \in {"FINISHED", "EXPIRED"} : xalgo' = [xalgo EXCEPT ![b] = s]
    BY <1>14 DEF Fire, Expire
  <2> QED
    BY <1>0, <2>2, <2>3
<1> HIDE DEF Kept
<1>15. BookMove
  BY DEF Steady
<1> QED
  BY <1>7, <1>8, <1>9, <1>10, <1>11, <1>12, <1>13, <1>14, <1>15, <1>6
     DEF BookMove, ExchangeMoves, Kept, MarketFill, ReduceOnly

\* So it is with every step.
LEMMA ExitMoves ==
  ASSUME TypeInv, LinkStep, NEW a \in Algos, ~ExitAccepted(a)
  PROVE  /\ \/ xalgo'[a] = xalgo[a]
            \/ xalgo[a] = "NEW" /\ xalgo'[a] \in {"FINISHED", "CANCELED", "EXPIRED"}
         /\ ExitSays(a, "NEW")' => ExitSays(a, "NEW")
<1> USE DEF ExitSays, ExitNews, About, Buffered
<1>1. CASE Steady
  BY <1>1, ExitMoved
<1>2. CASE Cut \/ Joins \/ Snapshot \/ Attach \/ Drains
  BY <1>2 DEF Cut, Joins, Snapshot, Attach, Drains, Reconcile, exchangeVars
<1>3. CASE Deliver
  <2>1. /\ xalgo' = xalgo /\ events' = Tail(events) /\ events # <<>> /\ events \in Seq(Event)
    BY <1>3 DEF Deliver, exchangeVars, TypeInv, TypeOK, AccountTypeOK
  <2>2. \A i \in DOMAIN events' : i + 1 \in DOMAIN events /\ events'[i] = events[i + 1]
    BY <2>1, TailEvents
  <2> QED
    BY <2>1, <2>2
<1> QED
  BY <1>1, <1>2, <1>3 DEF LinkStep

\* What the store hears of exits, it hears from the stream.
LEMMA ExitsHeard ==
  ASSUME TypeInv, [Next]_vars, NEW a \in Algos
  PROVE  salgo'[a] = salgo[a] \/ ExitSays(a, salgo'[a])
BY StoreHears DEF ExitSays, ExitNews, About, Buffered

\* An exit that an earlier campaign, or one that has ended, may have left: the
\* store knows it as open only if it is not, and will not hear that it is.
ExitGone(a) == (salgo[a] = "NEW" => xalgo[a] = "CANCELED") /\ ~ExitSays(a, "NEW")
ExitGoneInv == \A a \in Algos : ~active \/ a[1] < cur => ExitGone(a)

\* Those of campaigns that ended before a connected store, or before the next
\* campaign, do not rest either.
ExitEndedInv ==
  \A a \in Algos : armed \/ (Connected /\ ~active) \/ a[1] < cur => xalgo[a] # "NEW"

\* Nothing brings such an exit back,
LEMMA ExitGoneKept ==
  ASSUME TypeInv, [Next]_vars, LinkStep, NEW a \in Algos, ~ExitAccepted(a)
  PROVE  /\ ExitGone(a) => ExitGone(a)'
         /\ xalgo[a] # "NEW" => xalgo'[a] # "NEW"
<1>1. salgo'[a] = "NEW" /\ ExitGone(a) => xalgo[a] = "CANCELED"
  BY ExitsHeard DEF ExitGone
<1> QED
  BY <1>1, ExitMoves DEF ExitGone

\* and an exit that was never placed is one.
LEMMA NoExit ==
  ASSUME StoreInv, NEW a \in Algos, xalgo[a] = "NONE" PROVE ExitGone(a)
BY DEF StoreInv, ExitGone, ExitSays, ExitNews, About, Buffered

\* A failed open has left no exit, when no answer is lost: a stop that was not
\* accepted is not there.
ExitHeadInv ==
  pc \in {"starter", "stop", "emergency", "failed"} => \A x \in Exits : xalgo[Own(x)] = "NONE"

\* Every step keeps that.
LEMMA ExitHeadStep ==
  ASSUME TypeInv, StoreInv, OrderInv, DirInv, ExitHeadInv, NEUTRAL_GRID \notin PlanModes,
         "lost" \notin Adversary, [Next]_vars
  PROVE  ExitHeadInv'
<1> SUFFICES ASSUME pc' \in {"starter", "stop", "emergency", "failed"} PROVE ExitHeadInv'
  BY DEF ExitHeadInv
<1> DEFINE Phases == {"starter", "stop", "emergency", "failed"}
<1>0. Answers \subseteq {"ok", "rejected"} /\ (cur > 0 => \A x \in Exits : Own(x) \in Algos)
  BY OwnType DEF Answers
<1>1. \/ StartOpen /\ ~active
      \/ rec' = rec /\ pc \in Phases /\ (xalgo' = xalgo \/ ExchangeMoves)
  <2> USE NotNeutral DEF DirInv, Opening, Goto, Catch, Done, Begin, KeepStatus
  <2>1. CASE OpenStep
    <3>1. CASE PlaceStarter
      BY <3>1 DEF PlaceStarter, Effect, MarketFill, exchangeVars
    <3>2. CASE PlaceStop
      <4>1. PICK out \in ExitAnswers(Own("STOP")) :
              /\ Effect(out, AcceptExit(Own("STOP"), rec.dir))
              /\ IF out = "ok" THEN Goto("tp", {}) /\ KeepStatus ELSE StopFails
        BY <3>2 DEF PlaceStop
      <4>2. out = "rejected"
        BY <1>0, <4>1 DEF ExitAnswers
      <4> QED
        BY <3>2, <4>1, <4>2 DEF PlaceStop, StopFails, Effect, Applied, exchangeVars
    <3>3. CASE EmergencyClose
      BY <3>3 DEF EmergencyClose, Effect, ReduceOnly, MarketFill, exchangeVars
    <3>4. CASE \/ PlaceTakeProfit \/ FinishOpen \/ FinishUnwind
               \/ \E l \in Limits : PlaceLimit(l) \/ UnwindLimit(l)
      BY <3>4 DEF PlaceTakeProfit, TakeProfitFails, FinishOpen, FinishUnwind,
         PlaceLimit, UnwindLimit
    <3> QED
      BY <2>1, <3>1, <3>2, <3>3, <3>4 DEF OpenStep
  <2>2. CASE ActivateStep
    BY <2>2 DEF ActivateStep, PlaceNeutralStop, PlaceNeutralTakeProfit, FinishOppose,
       NeutralEmergencyClose, DirectionFlipClose, CancelOpposite
  <2>3. CASE CleanupStep
    BY <2>3 DEF CleanupStep, SweepLimit, SweepExit, FinishSweep, Swept, OpenGate
  <2>4. CASE Recover \/ Verify \/ ErrorStep
    BY <2>4 DEF Recover, RecoverNothing, RecoverArmed, RecoverFlat, RecoverFlipped,
       RecoverPosition, Verify, ErrorStep, SetFailed, SetDegraded, HaltStore, Raise, StopRuntime,
       OpenGate
  <2>5. CASE StartOpen \/ \E by \in {"loop", "event"} : CleanupOnce(by)
    BY <2>5 DEF StartOpen, CleanupOnce, CleanupIfFlat
  <2>6. CASE Reconcile \/ SessionEnd \/ Stop \/ Crash
    BY <2>6 DEF Reconcile, SessionEnd, Stop, Crash, StopRuntime
  <2>7. CASE \/ Signal \/ Deliver \/ StartRuntime \/ RuntimeReady \/ Attach \/ Snapshot
             \/ GraceOver \/ Alarm \/ ExchangeMoves \/ UNCHANGED vars
    BY <2>7 DEF Signal, Deliver, StartRuntime, RuntimeReady, Attach, Snapshot, GraceOver, Alarm,
       ExchangeMoves, vars, handlerVars, exchangeVars
  <2> QED
    BY <2>1, <2>2, <2>3, <2>4, <2>5, <2>6, <2>7 DEF Next, HandlerStep
<1>2. CASE StartOpen /\ ~active
  BY <1>2, FreshCampaign DEF ExitHeadInv, exchangeVars
<1>3. CASE rec' = rec /\ pc \in Phases /\ (xalgo' = xalgo \/ ExchangeMoves)
  <2>1. \A l : Own(l)' = Own(l)
    BY <1>3 DEF Own, cur
  <2>2. \A x \in Exits : Own(x) \in Algos
    BY <1>0, <1>3 DEF TypeInv, Numbered
  <2>3. \A a \in Algos : xalgo[a] = "NONE" => xalgo'[a] = "NONE"
    BY <1>3 DEF ExchangeMoves, Fill, Fire, Expire, TypeInv, TypeOK, AccountTypeOK
  <2> QED
    BY <1>3, <2>1, <2>2, <2>3 DEF ExitHeadInv
<1> QED
  BY <1>1, <1>2, <1>3

\* When a campaign ends its exits are gone, and off the book if the store is
\* connected.
LEMMA EndCleanExits ==
  ASSUME TypeInv, SyncInv, StoreInv, OrderInv, PathInv, SweepInv, QuietInv, DirInv,
         ExitHeadInv, NEUTRAL_GRID \notin PlanModes, [Next]_vars, active, ~active',
         NEW a \in Algos, a[1] = cur
  PROVE  ExitGone(a) /\ (Connected => xalgo[a] # "NEW")
<1>1. cur > 0 /\ a[2] \in Exits /\ a = Own(a[2])
  BY DEF TypeInv, Numbered, active, ActiveStatus, Algos, Own
<1>2. CASE rec'.status = "CLOSED"
  <2>1. pc = "sweep" /\ todo = {} /\ ~pending
    BY <1>2, CloseReached DEF active, ActiveStatus
  <2>2. salgo[a] = "NEW" => xalgo[a] = "CANCELED"
    BY <1>1, <2>1 DEF SweepInv
  <2>3. ~ExitSays(a, "NEW")
    BY <2>1 DEF QuietInv, Calm, Quiet, NothingNew, ExitSays, ExitNews, About, Buffered
  <2>4. Connected => xalgo[a] # "NEW"
    BY <1>1, <2>1, SweptClean
  <2> QED
    BY <2>2, <2>3, <2>4 DEF ExitGone
<1>3. CASE pc \in {"starter", "failed"}
  BY <1>1, <1>3, NoExit DEF ExitHeadInv
<1> QED
  BY <1>2, <1>3, FailReached

\* Every step keeps the exits of earlier campaigns gone,
LEMMA ExitGoneStep ==
  ASSUME TypeInv, PhaseInv, StoreInv, OrderInv, SyncInv, PathInv, SweepInv, QuietInv, DirInv,
         ExitHeadInv, ExitGoneInv, NEUTRAL_GRID \notin PlanModes, [Next]_vars, LinkStep
  PROVE  ExitGoneInv'
<1> SUFFICES ASSUME NEW a \in Algos, ~active' \/ a[1] < cur' PROVE ExitGone(a)'
  BY DEF ExitGoneInv
<1>0. a[1] \in Int /\ cur \in Int /\ cur' \in Int
  BY TypeStep, ExchangeAssumption DEF Algos, Gens, TypeInv, TypeOK, RegistryTypeOK, cur
<1>1. ExitAccepted(a) => active /\ ~(a[1] < cur) /\ pc \in {"stop", "tp", "nstop", "ntp"}
  BY <1>0 DEF ExitAccepted, Own, PhaseInv, Opening, active, ActiveStatus
<1>2. CASE ~active \/ a[1] < cur
  BY <1>1, <1>2, ExitGoneKept DEF ExitGoneInv
<1>3. CASE active /\ ~(a[1] < cur)
  <2>1. cur' = cur
    BY <1>3, GenStep DEF cur
  <2>2. ~active' /\ ~ExitAccepted(a)
    <3>1. ~active'
      BY <1>3, <2>1
    <3>2. ExitAccepted(a) => rec'.status # "CLOSED" /\ pc \notin {"starter", "failed"}
      BY <1>1, <1>3, CloseReached DEF active, ActiveStatus
    <3> QED
      BY <1>3, <3>1, <3>2, FailReached
  <2>3. ExitGone(a)
    <3>1. CASE a[1] = cur
      BY <1>3, <2>2, <3>1, EndCleanExits
    <3>2. CASE a[1] # cur
      <4>1. xalgo[a] = "NONE"
        BY <1>0, <1>3, <3>2 DEF StoreInv
      <4> QED
        BY <4>1, NoExit
    <3> QED
      BY <3>1, <3>2
  <2> QED
    BY <2>2, <2>3, ExitGoneKept
<1> QED
  BY <1>2, <1>3

\* and off the book.
LEMMA ExitEndedStep ==
  ASSUME TypeInv, PhaseInv, SessionInv, StoreInv, OrderInv, LinkInv, SyncInv, SyncInv',
         PathInv, SweepInv, QuietInv, DirInv, ExitHeadInv, ExitGoneInv',
         ExitEndedInv, NEUTRAL_GRID \notin PlanModes, [Next]_vars, LinkStep
  PROVE  ExitEndedInv'
<1> SUFFICES ASSUME NEW a \in Algos, armed' \/ (Connected' /\ ~active') \/ a[1] < cur'
             PROVE  xalgo'[a] # "NEW"
  BY DEF ExitEndedInv
<1>0. a[1] \in Int /\ cur \in Int /\ cur' \in Int
  BY TypeStep, ExchangeAssumption DEF Algos, Gens, TypeInv, TypeOK, RegistryTypeOK, cur
<1>1. ExitAccepted(a) => /\ active /\ ~armed /\ ~(a[1] < cur)
                         /\ pc \in {"stop", "tp", "nstop", "ntp"}
  BY <1>0 DEF ExitAccepted, Own, PhaseInv, Opening, active, ActiveStatus
<1>2. CASE armed \/ (Connected /\ ~active) \/ a[1] < cur
  BY <1>1, <1>2, ExitGoneKept DEF ExitEndedInv
<1>3. CASE ~armed /\ ~(Connected /\ ~active) /\ ~(a[1] < cur)
  <2>1. ~armed'
    <3>1. ~Signal
      BY <1>3 DEF Signal, Ready, SessionInv, Connected
    <3> QED
      BY <1>3, <3>1, ArmedBySignal
  <2>2. cur' = cur
    BY <1>3, GenStep DEF cur, StartOpen
  <2>3. Connected' /\ ~active'
    BY <1>3, <2>1, <2>2
  <2>4. CASE Connected
    <3>1. active
      BY <1>3, <2>4
    <3>2. ~ExitAccepted(a)
      BY <1>1, <2>3, <3>1, FailReached, CloseReached DEF active, ActiveStatus
    <3>3. CASE a[1] = cur
      BY <2>3, <2>4, <3>1, <3>2, <3>3, EndCleanExits, ExitGoneKept
    <3>4. CASE a[1] # cur
      <4>1. xalgo[a] = "NONE"
        BY <1>0, <1>3, <3>4 DEF StoreInv
      <4> QED
        BY <3>2, <4>1, ExitGoneKept
    <3> QED
      BY <3>3, <3>4
  <2>5. CASE ~Connected
    <3>1. Drains
      BY <2>3, <2>5 DEF LinkStep, Steady, Cut, Joins, Drains, Deliver, Snapshot, Attach,
         Connected, LinkInv, handlerVars
    <3>2. events' = <<>>
      BY <3>1 DEF Drains, Reconcile
    <3>3. ExitNews(a)' = {}
      BY <3>2, NoNews
    <3>4. salgo'[a] = "NEW" <=> xalgo'[a] = "NEW"
      BY <2>3, <3>3 DEF SyncInv, StoreTrue
    <3>5. ExitGone(a)'
      BY <2>3 DEF ExitGoneInv
    <3> QED
      BY <3>4, <3>5 DEF ExitGone
  <2> QED
    BY <2>4, <2>5
<1> QED
  BY <1>2, <1>3

-----------------------------------------------------------------------------
(* What a reconciliation may not see. *)

\* An entry is accepted only while the store is connected: a session that is
\* still reading its snapshot buffers no acceptance.
LiveCalls == ~Connected => \A c \in Orders : ~Says(c, "NEW")

\* What a handler that places entries finds.
LEMMA ReadyConnected ==
  ASSUME SessionInv, Ready, pc \in Opening PROVE session = "live"
BY DEF SessionInv, Ready

\* Every step keeps that.
LEMMA LiveCallsStep ==
  ASSUME TypeInv, SessionInv, LinkInv, LiveCalls, LinkStep PROVE LiveCalls'
<1> SUFFICES ASSUME ~Connected', NEW c \in Orders, Says(c, "NEW")' PROVE FALSE
  BY DEF LiveCalls
<1>1. CASE Connected
  <2>1. Cut
    BY <1>1 DEF LinkStep, Steady, Cut, Joins, Drains, Reconcile, Begin, Deliver, Snapshot,
       Attach, Connected, LinkInv, handlerVars, runtimeVars
  <2>2. OrderNews(c)' = {}
    BY <2>1, NoNews DEF Cut
  <2> QED
    BY <2>2 DEF Says
<1>2. CASE ~Connected
  <2>1. ~Accepted(c)
    BY <1>2, ReadyConnected DEF Accepted, Opening, Connected
  <2> QED
    BY <1>2, <2>1, EntryStep DEF LiveCalls
<1> QED
  BY <1>1, <1>2

\* A position the snapshot missed came from an entry that the snapshot, read
\* before, still had as open.
SnapPos == session = "positions" /\ ~Connected /\ xpos # 0
             => snap.pos # 0 \/ \E c \in snap.ord : xord[c] = "FILLED"

\* Every step keeps the snapshot so.
LEMMA SnapPosStep ==
  ASSUME TypeInv, SessionInv, LinkInv, SyncInv, PathInv, LiveCalls, SnapPos, LinkStep
  PROVE  SnapPos'
<1> SUFFICES ASSUME session' = "positions", ~Connected', xpos' # 0
             PROVE  (snap.pos # 0 \/ \E c \in snap.ord : xord[c] = "FILLED")'
  BY DEF SnapPos
<1>0. /\ xpos \in Int /\ xord \in [Orders -> OrderStatus] /\ snap.ord \subseteq Orders
      /\ (pc \notin {"idle", "recover"} => cur > 0)
  BY DEF TypeInv, TypeOK, AccountTypeOK, RuntimeTypeOK, Numbered
<1>1. CASE Snapshot
  BY <1>1 DEF Snapshot, TypeInv, TypeOK, RuntimeTypeOK, exchangeVars
<1>2. CASE Cut \/ Joins \/ Drains \/ Deliver \/ Attach
  BY <1>2 DEF Cut, Joins, Drains, Reconcile, Begin, StopRuntime, Deliver, Attach, Connected,
     LinkInv, runtimeVars, handlerVars
<1>3. CASE Steady
  <2>1. session = "positions" /\ ~Connected /\ snap' = snap
    BY <1>3 DEF Steady, Connected
  <2>2. ASSUME xpos # 0, \A c \in Orders : xord[c] = "FILLED" => xord'[c] = "FILLED"
        PROVE  (snap.pos # 0 \/ \E c \in snap.ord : xord[c] = "FILLED")'
    BY <1>0, <2>1, <2>2 DEF SnapPos
  <2>3. CASE UNCHANGED <<exchangeVars, events>>
    BY <2>2, <2>3 DEF exchangeVars
  <2>4. CASE pc = "starter" /\ Ready
    BY <2>1, <2>4, ReadyConnected DEF Opening
  <2>5. CASE pc = "ladder" /\ Ready
    BY <2>1, <2>5, ReadyConnected DEF Opening
  <2>6. ASSUME NEW d \in {0, 1, -1}, NEW q \in Nat, ReduceOnly(d, q)
        PROVE  (snap.pos # 0 \/ \E c \in snap.ord : xord[c] = "FILLED")'
    <3>1. xord' = xord
      BY <2>6 DEF ReduceOnly, MarketFill
    <3>2. xpos # 0
      BY <1>0, <2>6 DEF ReduceOnly, MarketFill, Abs
    <3> QED
      BY <2>2, <3>1, <3>2
  <2>7. ASSUME NEW l \in todo \cap Limits, pc # "idle", pc # "recover", xord[Own(l)] = "NEW",
               CancelLimit(Own(l))
        PROVE  (snap.pos # 0 \/ \E c \in snap.ord : xord[c] = "FILLED")'
    <3>1. Own(l) \in Orders /\ xpos' = xpos /\ xord' = [xord EXCEPT ![Own(l)] = "CANCELED"]
      BY <1>0, <2>7, OwnType DEF CancelLimit
    <3>2. \A c \in Orders : xord[c] = "FILLED" => xord'[c] = "FILLED"
      BY <1>0, <2>7, <3>1
    <3> QED
      BY <2>2, <3>1, <3>2
  <2>8. ASSUME NEW x \in Exits, (\E d \in {0, 1, -1} : AcceptExit(Own(x), d)) \/ CancelExit(Own(x))
        PROVE  (snap.pos # 0 \/ \E c \in snap.ord : xord[c] = "FILLED")'
    BY <2>2, <2>8 DEF AcceptExit, CancelExit
  <2>9. ASSUME NEW c \in Orders, Fill(c)
        PROVE  (snap.pos # 0 \/ \E b \in snap.ord : xord[b] = "FILLED")'
    <3>1. xord[c] = "NEW" /\ xord' = [xord EXCEPT ![c] = "FILLED"]
      BY <2>9 DEF Fill
    <3>2. OrderNews(c) = {}
      BY <2>1, <3>1, RestingNews DEF SyncInv, LiveCalls, Says
    <3>3. c \in snap.ord
      BY <2>1, <3>1, <3>2 DEF SyncInv, SnapTrue
    <3> QED
      BY <1>0, <2>1, <3>1, <3>3
  <2>10. ASSUME NEW a \in Algos, Fire(a) \/ Expire(a)
         PROVE  (snap.pos # 0 \/ \E c \in snap.ord : xord[c] = "FILLED")'
    BY <2>2, <2>10 DEF Fire, Expire
  <2>11. BookMove
    BY <1>3 DEF Steady
  <2> QED
    BY <2>3, <2>4, <2>5, <2>6, <2>7, <2>8, <2>9, <2>10, <2>11 DEF BookMove, ExchangeMoves
<1> QED
  BY <1>1, <1>2, <1>3 DEF LinkStep

-----------------------------------------------------------------------------
(* Trouble. *)

\* A failed open is still OPENING, and what it writes or raises after a close
\* that failed follows a halt.
TroubleInv ==
  /\ pc \in {"emergency", "failed"} => rec.status = "OPENING"
  /\ pc \in {"degraded", "raise"} => halted

\* Nothing lifts a halt, and a handler that is to halt does so unless the
\* process dies.
LEMMA HaltStays ==
  ASSUME TypeInv, [Next]_vars
  PROVE  /\ halted => halted'
         /\ pc = "halt" => \/ pc' = "halt"
                           \/ pc' = "raise" /\ halted'
                           \/ session' = "down" /\ caller' = "none" /\ pc' = "idle"
<1> USE DEF KeepFlag, flagVars, Halt, Degrade, OpenGate, Goto, Catch, Done, Begin
<1>1. CASE OpenStep
  <2>1. CASE PlaceStarter \/ PlaceStop \/ PlaceTakeProfit
    BY <2>1 DEF PlaceStarter, PlaceStop, PlaceTakeProfit, TakeProfitFails
  <2>2. CASE FinishOpen \/ FinishUnwind \/ EmergencyClose
    BY <2>2 DEF FinishOpen, FinishUnwind, EmergencyClose
  <2>3. ASSUME NEW l \in Limits, PlaceLimit(l) \/ UnwindLimit(l)
        PROVE  (halted => halted') /\ pc # "halt"
    BY <2>3 DEF PlaceLimit, UnwindLimit
  <2> QED
    BY <1>1, <2>1, <2>2, <2>3 DEF OpenStep
<1>2. CASE ActivateStep
  <2>1. CASE PlaceNeutralStop \/ PlaceNeutralTakeProfit \/ FinishOppose
    BY <2>1 DEF PlaceNeutralStop, PlaceNeutralTakeProfit, FinishOppose
  <2>2. CASE \/ NeutralEmergencyClose \/ DirectionFlipClose
             \/ \E l \in Limits : CancelOpposite(l)
    BY <2>2 DEF NeutralEmergencyClose, DirectionFlipClose, CancelOpposite
  <2> QED
    BY <1>2, <2>1, <2>2 DEF ActivateStep
<1>3. CASE CleanupStep
  BY <1>3 DEF CleanupStep, SweepLimit, SweepExit, FinishSweep, Swept
<1>4. CASE Recover \/ Verify
  BY <1>4 DEF Recover, RecoverNothing, RecoverArmed, RecoverFlat, RecoverFlipped,
     RecoverPosition, Verify
<1>5. CASE ErrorStep
  <2>1. CASE SetFailed \/ SetDegraded \/ HaltStore
    BY <2>1 DEF SetFailed, SetDegraded, HaltStore
  <2>2. CASE Raise
    <3>1. pc = "raise" /\ (halted' = halted \/ halted' = (halted \/ caller = "recover"))
      BY <2>2 DEF Raise
    <3> QED
      BY <3>1 DEF TypeInv, TypeOK, FlagTypeOK
  <2> QED
    BY <1>5, <2>1, <2>2 DEF ErrorStep
<1>6. CASE Reconcile \/ SessionEnd \/ Stop \/ Crash
  BY <1>6 DEF Reconcile, SessionEnd, Stop, Crash, StopRuntime
<1>7. CASE StartOpen \/ \E by \in {"loop", "event"} : CleanupOnce(by)
  BY <1>7 DEF StartOpen, CleanupOnce
<1>8. CASE \/ Signal \/ Deliver \/ StartRuntime \/ RuntimeReady \/ Attach \/ Snapshot
           \/ GraceOver \/ Alarm \/ ExchangeMoves \/ UNCHANGED vars
  BY <1>8 DEF Signal, Deliver, StartRuntime, RuntimeReady, Attach, Snapshot, GraceOver, Alarm,
     ExchangeMoves, vars, handlerVars
<1> QED
  BY <1>1, <1>2, <1>3, <1>4, <1>5, <1>6, <1>7, <1>8 DEF Next, HandlerStep

\* How a directional handler comes to write DEGRADED late, or to raise.
LEMMA RaiseReached ==
  ASSUME TypeInv, DirInv, NEUTRAL_GRID \notin PlanModes, [Next]_vars,
         pc' \in {"degraded", "raise"}
  PROVE  halted' \/ pc = pc'
<1> USE NotNeutral DEF DirInv, Opening, Halt, KeepFlag, flagVars, Goto, Catch, Done, Begin
<1>1. CASE OpenStep
  <2>1. CASE \/ PlaceStarter \/ PlaceStop \/ PlaceTakeProfit \/ FinishOpen \/ FinishUnwind
             \/ \E l \in Limits : PlaceLimit(l) \/ UnwindLimit(l)
    BY <2>1 DEF PlaceStarter, PlaceStop, StopFails, PlaceTakeProfit, TakeProfitFails,
       FinishOpen, FinishUnwind, PlaceLimit, UnwindLimit
  <2>2. CASE EmergencyClose
    BY <2>2 DEF EmergencyClose
  <2> QED
    BY <1>1, <2>1, <2>2 DEF OpenStep
<1>2. CASE ActivateStep
  BY <1>2 DEF ActivateStep, PlaceNeutralStop, PlaceNeutralTakeProfit, FinishOppose,
     NeutralEmergencyClose, DirectionFlipClose, CancelOpposite
<1>3. CASE CleanupStep
  BY <1>3 DEF CleanupStep, SweepLimit, SweepExit, FinishSweep, Swept, OpenGate
<1>4. CASE Recover \/ Verify \/ ErrorStep
  BY <1>4 DEF Recover, RecoverNothing, RecoverArmed, RecoverFlat, RecoverFlipped,
     RecoverPosition, Verify, ErrorStep, SetFailed, SetDegraded, HaltStore, Raise, StopRuntime,
     OpenGate
<1>5. CASE StartOpen \/ \E by \in {"loop", "event"} : CleanupOnce(by)
  BY <1>5 DEF StartOpen, CleanupOnce, CleanupIfFlat
<1>6. CASE Reconcile \/ SessionEnd \/ Stop \/ Crash
  BY <1>6 DEF Reconcile, SessionEnd, Stop, Crash, StopRuntime
<1>7. CASE \/ Signal \/ Deliver \/ StartRuntime \/ RuntimeReady \/ Attach \/ Snapshot
           \/ GraceOver \/ Alarm \/ ExchangeMoves \/ UNCHANGED vars
  BY <1>7 DEF Signal, Deliver, StartRuntime, RuntimeReady, Attach, Snapshot, GraceOver, Alarm,
     ExchangeMoves, vars, handlerVars
<1> QED
  BY <1>1, <1>2, <1>3, <1>4, <1>5, <1>6, <1>7 DEF Next, HandlerStep

\* Every step keeps that.
LEMMA TroubleInvStep ==
  ASSUME TypeInv, PhaseInv, DirInv, TroubleInv, NEUTRAL_GRID \notin PlanModes, [Next]_vars
  PROVE  TroubleInv'
<1>1. pc' \in {"emergency", "failed"} => rec'.status = "OPENING"
  <2> SUFFICES ASSUME pc' \in {"emergency", "failed"} PROVE rec'.status = "OPENING"
    OBVIOUS
  <2>1. rec' = rec /\ pc \in {"stop", "emergency", "failed"}
    BY HeadReached
  <2> QED
    BY <2>1 DEF PhaseInv, Opening, TroubleInv
<1>2. pc' \in {"degraded", "raise"} => halted'
  BY RaiseReached, HaltStays DEF TroubleInv
<1> QED
  BY <1>1, <1>2 DEF TroubleInv

\* So what a directional campaign that is not active may still run is a halt.
LEMMA InactivePhases ==
  ASSUME PhaseInv, DirInv, TroubleInv, ~active, ~halted
  PROVE  pc \in {"idle", "recover", "halt"}
BY DEF PhaseInv, DirInv, TroubleInv, Opening, active, ActiveStatus

-----------------------------------------------------------------------------
(* The symbol is flat between directional campaigns. *)

BetweenCampaigns == \/ armed
                    \/ pc = "starter"
                    \/ Connected /\ ~active /\ ~halted /\ pc \in {"idle", "recover"}
FlatInv == BetweenCampaigns => Flat

\* So the store says, whether connected or not.
KnownFlat == armed \/ (~active /\ ~halted) \/ rec.status = "OPENING" => spos = 0

\* Nothing but the starter makes a position then: no entry rests.
LEMMA FlatKept ==
  ASSUME TypeInv, LinkStep, Flat, \A c \in Orders : xord[c] # "NEW",
         \/ pc \in {"idle", "recover"}
         \/ UNCHANGED exchangeVars /\ (events' = events \/ events' = <<>>)
         \/ ExchangeMoves
  PROVE  Flat'
<1> USE DEF Flat, PosNews, Buffered
<1>0. events \in Seq(Event) /\ xpos = 0
  BY DEF TypeInv, TypeOK, AccountTypeOK
<1>1. CASE UNCHANGED exchangeVars /\ (events' = events \/ events' = <<>>)
  BY <1>1 DEF exchangeVars
<1>2. ASSUME NEW a \in Algos, Fire(a) \/ Expire(a) PROVE Flat'
  <2>1. \A s \in AlgoStatus : /\ AlgoEvent(a, s) \in Event
                              /\ AlgoEvent(a, s).kind # "ACCOUNT_UPDATE"
    BY EventTypes DEF AlgoEvent
  <2>2. PosEvent(0) \in Event /\ PosEvent(0).pos = 0
    BY EventTypes DEF PosEvent
  <2>3. xpos' = 0 /\ \/ Feed(<<AlgoEvent(a, "FINISHED"), PosEvent(0)>>)
                     \/ Feed(<<AlgoEvent(a, "EXPIRED")>>)
    BY <1>0, <1>2 DEF Fire, Expire
  <2>4. \A i \in DOMAIN events' : \/ i \in DOMAIN events /\ events'[i] = events[i]
                                  \/ events'[i].kind # "ACCOUNT_UPDATE" \/ events'[i].pos = 0
    BY <1>0, <2>1, <2>2, <2>3, FeedOne, FeedTwo DEF AlgoStatus
  <2> QED
    BY <2>3, <2>4
<1>3. CASE ExchangeMoves
  BY <1>2, <1>3 DEF ExchangeMoves, Fill
<1>4. CASE pc \in {"idle", "recover"} /\ Steady
  BY <1>1, <1>3, <1>4 DEF Steady, BookMove
<1>5. CASE Cut \/ Joins \/ Drains \/ Snapshot \/ Attach
  BY <1>1, <1>5 DEF Cut, Joins, Drains, Reconcile, Snapshot, Attach
<1>6. CASE Deliver
  <2>1. /\ xpos' = xpos /\ events' = Tail(events) /\ events # <<>>
    BY <1>6 DEF Deliver, exchangeVars
  <2>2. \A i \in DOMAIN events' : i + 1 \in DOMAIN events /\ events'[i] = events[i + 1]
    BY <1>0, <2>1, TailEvents
  <2> QED
    BY <2>1, <2>2
<1> QED
  BY <1>1, <1>3, <1>4, <1>5, <1>6 DEF LinkStep

\* A reconciliation that finds no difference while no known entry can have
\* filled finds no position the store does not know of.
LEMMA FlatDrain ==
  ASSUME SnapPos, Drains, ~Connected, spos = 0,
         \A c \in Orders : sord[c] = "NEW" => xord[c] # "FILLED"
  PROVE  xpos = 0
<1>1. snap.pos = 0 /\ snap.ord = {c \in Orders : sord[c] = "NEW"} /\ session = "positions"
  BY DEF Drains, Matches, Reconcile
<1> QED
  BY <1>1 DEF SnapPos

\* What happens where the starter is called,
LEMMA StarterSteps ==
  ASSUME [Next]_vars, pc = "starter", ~armed
  PROVE  \/ PlaceStarter
         \/ UNCHANGED exchangeVars /\ (events' = events \/ events' = <<>>)
         \/ ExchangeMoves
<1>1. CASE OpenStep
  BY <1>1 DEF OpenStep, PlaceStop, PlaceTakeProfit, FinishOpen, EmergencyClose,
     FinishUnwind, PlaceLimit, UnwindLimit
<1>2. CASE ActivateStep \/ CleanupStep \/ Recover \/ Verify \/ ErrorStep
  BY <1>2 DEF ActivateStep, PlaceNeutralStop, PlaceNeutralTakeProfit, FinishOppose,
     NeutralEmergencyClose, DirectionFlipClose, CancelOpposite, CleanupStep, SweepLimit,
     SweepExit, FinishSweep, Recover, Verify, ErrorStep, SetFailed, SetDegraded, HaltStore, Raise
<1>3. CASE Next /\ ~HandlerStep
  BY <1>3 DEF Next, Signal, StartOpen, CleanupOnce, Deliver, StartRuntime, RuntimeReady,
     Attach, Snapshot, Reconcile, SessionEnd, StopRuntime, Stop, Crash, GraceOver, Alarm
<1> QED
  BY <1>1, <1>2, <1>3 DEF HandlerStep, vars

\* and when no answer is lost.
LEMMA StarterMoves ==
  ASSUME "lost" \notin Adversary, [Next]_vars, pc = "starter", ~armed
  PROVE  \/ pc' = "stop" /\ rec' = rec /\ ~armed'
         \/ UNCHANGED exchangeVars /\ (events' = events \/ events' = <<>>)
         \/ ExchangeMoves
<1>1. CASE PlaceStarter
  BY <1>1 DEF PlaceStarter, Answers, Effect, Applied, HandlerFrame, runtimeVars, Goto, Done,
     KeepStatus
<1> QED
  BY <1>1, StarterSteps

\* Where the symbol is flat no entry rests.
LEMMA FlatNoEntry ==
  ASSUME TypeInv, OrderInv, LadderInv, EndedInv,
         armed \/ pc = "starter" \/ (Connected /\ ~active)
  PROVE  \A c \in Orders : xord[c] # "NEW"
<1> SUFFICES ASSUME NEW c \in Orders, ~(armed \/ (Connected /\ ~active)) PROVE xord[c] # "NEW"
  BY DEF EndedInv, Ended
<1>1. pc = "starter" /\ c[1] \in Int /\ cur \in Int /\ c[2] \in Limits /\ c = <<c[1], c[2]>>
  BY ExchangeAssumption DEF Orders, Gens, TypeInv, TypeOK, RegistryTypeOK, cur
<1>2. CASE c[1] < cur
  BY <1>2 DEF EndedInv, Ended
<1>3. CASE c[1] = cur
  BY <1>1, <1>3 DEF LadderInv, Own
<1>4. CASE c[1] > cur
  BY <1>1, <1>4 DEF OrderInv
<1> QED
  BY <1>1, <1>2, <1>3, <1>4

\* No entry that the store knows as open has filled, where a reconciliation
\* meets a campaign that has ended, or one whose open was cut short.
LEMMA NoKnownFill ==
  ASSUME TypeInv, OrderInv, OpeningInv, GoneInv, ~active \/ rec.status = "OPENING"
  PROVE  \A c \in Orders : sord[c] = "NEW" => xord[c] # "FILLED"
<1> SUFFICES ASSUME NEW c \in Orders, sord[c] = "NEW" PROVE xord[c] # "FILLED"
  OBVIOUS
<1>1. c[1] \in Int /\ cur \in Int /\ c[2] \in Limits /\ c = <<c[1], c[2]>>
  BY ExchangeAssumption DEF Orders, Gens, TypeInv, TypeOK, RegistryTypeOK, cur
<1>2. CASE ~active \/ c[1] < cur
  BY <1>2 DEF GoneInv, Gone
<1>3. CASE rec.status = "OPENING" /\ c[1] = cur
  BY <1>1, <1>3 DEF OpeningInv, RestingLimits, Own
<1>4. CASE c[1] > cur
  BY <1>1, <1>4 DEF OrderInv
<1> QED
  BY <1>1, <1>2, <1>3, <1>4

\* Every step keeps the symbol flat between campaigns: an open that fails has
\* not filled, a campaign is closed flat, and a store connects to a flat
\* exchange if it knows of no position.
LEMMA FlatInvStep ==
  ASSUME TypeInv, GateInv, PhaseInv, SessionInv, BookInv, OpeningInv, NextInv, SnapPos,
         TroubleInv, FlatInv, KnownFlat, NEUTRAL_GRID \notin PlanModes, "lost" \notin Adversary,
         [Next]_vars, LinkStep
  PROVE  FlatInv'
<1> USE DEF BookInv, NextInv
<1> SUFFICES ASSUME \/ armed' \/ pc' = "starter"
                    \/ Connected' /\ ~active' /\ ~halted' /\ pc' \in {"idle", "recover"}
             PROVE  Flat'
  BY DEF FlatInv, BetweenCampaigns
<1> DEFINE D == \/ armed \/ pc = "starter"
                \/ Connected /\ ~active /\ ~halted /\ pc \in {"idle", "recover"}
<1>0. /\ pc = "starter" => active /\ ~armed
      /\ armed => pc \in {"idle", "recover"} /\ ~active
  BY DEF PhaseInv, Opening, active, ActiveStatus
<1>1. CASE D
  <2>1. Flat /\ \A c \in Orders : xord[c] # "NEW"
    BY <1>1, FlatNoEntry DEF FlatInv, BetweenCampaigns
  <2>2. CASE pc \in {"idle", "recover"}
    BY <2>1, <2>2, FlatKept
  <2>3. CASE pc = "starter"
    <3>1. ~(pc' = "stop" /\ rec' = rec /\ ~armed')
      <4> SUFFICES ASSUME pc' = "stop", rec' = rec, ~armed' PROVE FALSE
        OBVIOUS
      <4>1. active'
        BY <1>0, <2>3 DEF active
      <4> QED
        BY <4>1
    <3> QED
      BY <1>0, <2>1, <2>3, <3>1, StarterMoves, FlatKept
  <2> QED
    BY <1>0, <1>1, <2>2, <2>3
<1>2. CASE ~D
  <2>1. ~armed'
    <3>1. ~Signal
      BY <1>2 DEF Signal, Ready, SessionInv, Connected
    <3> QED
      BY <1>2, <3>1, ArmedBySignal
  <2>2. pc' # "starter"
    <3> SUFFICES ASSUME pc' = "starter" PROVE FALSE
      OBVIOUS
    <3> QED
      BY <1>2, OpeningReached DEF Opening, StartOpen
  <2>3. Connected' /\ ~active' /\ ~halted' /\ pc' \in {"idle", "recover"} /\ ~halted
    BY <2>1, <2>2, HaltStays
  <2>4. CASE Connected /\ active
    <3>1. rec'.status = "CLOSED"
      BY <1>2, <2>3, <2>4, FailReached
    <3>2. /\ pc = "sweep" /\ todo = {} /\ spos = 0 /\ ~pending /\ cur > 0
          /\ UNCHANGED <<exchangeVars, events>>
      BY <2>4, <3>1, CloseReached DEF active, ActiveStatus
    <3>3. Flat
      BY <2>4, <3>2, SweptFlat DEF EndedInv, Ended
    <3> QED
      BY <3>2, <3>3 DEF Flat, PosNews, Buffered, exchangeVars
  <2>5. CASE Connected /\ ~active
    <3>1. pc = "halt"
      BY <1>2, <2>3, <2>5, InactivePhases
    <3> QED
      BY <2>3, <3>1, HaltStays DEF Connected
  <2>6. CASE ~Connected
    <3>1. Drains
      BY <2>3, <2>6 DEF LinkStep, Steady, Cut, Joins, Drains, Deliver, Snapshot, Attach,
         Connected, LinkInv, handlerVars
    <3>2. rec' = rec /\ events' = <<>> /\ xpos' = xpos
      BY <3>1 DEF Drains, Reconcile, exchangeVars
    <3>3. ~active
      BY <2>3, <3>2 DEF active
    <3>4. xpos = 0
      BY <2>3, <2>6, <3>1, <3>3, NoKnownFill, FlatDrain DEF KnownFlat
    <3> QED
      BY <3>2, <3>4 DEF Flat, PosNews, Buffered
  <2> QED
    BY <2>4, <2>5, <2>6
<1> QED
  BY <1>1, <1>2

\* Every step keeps the store to that.
LEMMA KnownFlatStep ==
  ASSUME TypeInv, PhaseInv, BookInv, SyncInv', OpeningInv, NextInv, SnapPos,
         TroubleInv, FlatInv, KnownFlat, NEUTRAL_GRID \notin PlanModes, [Next]_vars, LinkStep
  PROVE  KnownFlat'
<1> USE DEF BookInv, NextInv
<1> SUFFICES ASSUME armed' \/ (~active' /\ ~halted') \/ rec'.status = "OPENING"
             PROVE  spos' = 0
  BY DEF KnownFlat
<1> DEFINE K == armed \/ (~active /\ ~halted) \/ rec.status = "OPENING"
<1>0. armed => ~active
  BY DEF PhaseInv
<1>1. ~halted' => ~halted
  BY HaltStays
<1>2. CASE K
  <2>1. spos = 0
    BY <1>2 DEF KnownFlat
  <2>2. CASE Deliver
    <3>1. session = "live" /\ pc = "idle" /\ events # <<>> /\ events \in Seq(Event)
      BY <2>2 DEF Deliver, TypeInv, TypeOK, AccountTypeOK
    <3>2. Flat
      BY <1>2, <3>1 DEF OpeningInv, FlatInv, BetweenCampaigns, Connected
    <3>3. 1 \in DOMAIN events /\ Head(events) = events[1]
      BY <3>1
    <3> QED
      BY <2>1, <2>2, <3>2, <3>3 DEF Deliver, Flat, PosNews, Buffered
  <2>3. CASE Drains
    <3>1. xpos' = xpos
      BY <2>3 DEF Drains, Reconcile, exchangeVars
    <3>2. spos' = xpos'
      BY <2>3, <3>1, DrainTrue
    <3>3. ~Connected
      BY <2>3 DEF Drains, Reconcile, Connected, LinkInv
    <3> QED
      BY <1>0, <1>2, <2>1, <2>3, <3>1, <3>2, <3>3, NoKnownFill, FlatDrain
  <2>4. CASE ~Deliver /\ ~Drains
    BY <2>1, <2>4, StoreSteps DEF Drains, Reconcile, storeVars
  <2> QED
    BY <2>2, <2>3, <2>4
<1>3. CASE ~K
  <2>1. rec'.status # "OPENING" /\ ~armed'
    <3>1. ~Signal
      BY <1>3 DEF Signal, Ready
    <3> QED
      BY <1>3, <3>1, OpeningKept, ArmedBySignal DEF StartOpen
  <2>2. active /\ ~active'
    BY <1>1, <1>3, <2>1
  <2>3. pc \notin {"starter", "failed"}
    BY <1>3 DEF PhaseInv, Opening, TroubleInv
  <2>4. rec'.status = "CLOSED"
    BY <2>2, <2>3, FailReached
  <2> QED
    BY <2>2, <2>4, CloseReached DEF active, ActiveStatus, storeVars
<1> QED
  BY <1>2, <1>3

\* All of it,
BetweenInv == /\ OpeningInv /\ LiveCalls /\ SnapPos /\ ExitHeadInv /\ ExitGoneInv
              /\ ExitEndedInv /\ TroubleInv /\ FlatInv /\ KnownFlat

LEMMA BetweenInvariant ==
  ASSUME "late" \notin Adversary, "lost" \notin Adversary, NEUTRAL_GRID \notin PlanModes
  PROVE  Spec => []BetweenInv
<1>1. Init => BetweenInv
  <2> SUFFICES ASSUME Init PROVE BetweenInv
    OBVIOUS
  <2>1. /\ DOMAIN events = {} /\ caller = "none" /\ pc = "idle" /\ session = "down" /\ ~armed
        /\ xalgo = [a \in Algos |-> "NONE"] /\ salgo = [a \in Algos |-> "NONE"]
        /\ rec.status = "NONE" /\ spos = 0
    BY DEF Init, ExchangeInit
  <2>2. OpeningInv /\ LiveCalls /\ SnapPos /\ ExitHeadInv /\ TroubleInv /\ FlatInv /\ KnownFlat
    BY <2>1 DEF OpeningInv, LiveCalls, SnapPos, ExitHeadInv, TroubleInv, FlatInv,
       BetweenCampaigns, KnownFlat, Says, OrderNews, About, Buffered, Connected
  <2>3. ExitGoneInv /\ ExitEndedInv
    BY <2>1 DEF ExitGoneInv, ExitGone, ExitEndedInv, ExitSays, ExitNews, About, Buffered
  <2> QED
    BY <2>2, <2>3 DEF BetweenInv
<1>2. TypeInv /\ GateInv /\ PhaseInv /\ SessionInv /\ BookInv /\ BookInv' /\ NextInv
        /\ BetweenInv /\ [Next]_vars => BetweenInv'
  <2> SUFFICES ASSUME TypeInv, GateInv, PhaseInv, SessionInv, BookInv, BookInv', NextInv,
                      BetweenInv, [Next]_vars
               PROVE  BetweenInv'
    OBVIOUS
  <2>1. LinkStep
    BY LinkSteps DEF BookInv
  <2>2. OpeningInv' /\ LiveCalls' /\ SnapPos'
    BY <2>1, OpeningStep, LiveCallsStep, SnapPosStep DEF BookInv, BetweenInv
  <2>3. ExitHeadInv' /\ TroubleInv'
    BY ExitHeadStep, TroubleInvStep DEF BookInv, NextInv, BetweenInv
  <2>4. ExitGoneInv'
    BY <2>1, ExitGoneStep DEF BookInv, NextInv, BetweenInv
  <2>5. ExitEndedInv'
    BY <2>1, <2>4, ExitEndedStep DEF BookInv, NextInv, BetweenInv
  <2>6. FlatInv'
    BY <2>1, FlatInvStep DEF BetweenInv
  <2>7. KnownFlat'
    BY <2>1, KnownFlatStep DEF BookInv, BetweenInv
  <2> QED
    BY <2>2, <2>3, <2>4, <2>5, <2>6, <2>7 DEF BetweenInv
<1> QED
  BY <1>1, <1>2, BookInvariant, NextInvariant, TypeInvariant, GateInvariant, PhaseInvariant,
     SessionInvariant, PTL DEF Spec

\* A directional campaign starts on a symbol where no earlier one left anything,
\* when a placement that raises has not taken effect: earlier campaigns are
\* closed flat or failed before they filled, and a session that reconciles
\* would see what is left.
THEOREM CampaignsStartClean ==
  ASSUME "late" \notin Adversary, "lost" \notin Adversary, NEUTRAL_GRID \notin PlanModes
  PROVE  Spec => StartsClean
<1> DEFINE Step == rec'.gen # rec.gen
                     => xpos = 0 /\ \A g \in Gens : OpenOrders(g) = {} /\ OpenExits(g) = {}
<1>1. TypeInv /\ NextInv /\ BetweenInv /\ [Next]_vars => Step
  <2> SUFFICES ASSUME TypeInv, NextInv, BetweenInv, [Next]_vars, rec'.gen # rec.gen
               PROVE  xpos = 0 /\ \A g \in Gens : OpenOrders(g) = {} /\ OpenExits(g) = {}
    OBVIOUS
  <2>1. armed
    BY GenStep DEF StartOpen
  <2>2. /\ xpos = 0
        /\ \A c \in Orders : xord[c] # "NEW"
        /\ \A a \in Algos : xalgo[a] # "NEW"
    BY <2>1 DEF BetweenInv, FlatInv, BetweenCampaigns, Flat, NextInv, EndedInv, Ended, ExitEndedInv
  <2> QED
    BY <2>2 DEF OpenOrders, OpenExits, Orders, Algos
<1>2. [][Step]_vars => StartsClean
  BY DEF StartsClean
<1> QED
  BY <1>1, <1>2, NextInvariant, BetweenInvariant, TypeInvariant, PTL DEF Spec

\* Under the same assumptions an open that FAILED has left no position: its
\* starter was refused, or the emergency close that made it FAILED has halted
\* the store.
THEOREM FailedIsFlat ==
  ASSUME "late" \notin Adversary, "lost" \notin Adversary, NEUTRAL_GRID \notin PlanModes
  PROVE  Spec => []FailedOpenHasNoExposure
<1>1. BetweenInv => FailedOpenHasNoExposure
  BY DEF BetweenInv, FlatInv, BetweenCampaigns, Flat, FailedOpenHasNoExposure, Settled, Connected, active,
     ActiveStatus
<1> QED
  BY <1>1, BetweenInvariant, PTL

-----------------------------------------------------------------------------
(* The starter keeps its stop. *)

\* What holds in any run about rows, stream and openings.
RowsInv == /\ LinkInv /\ SyncInv /\ StoreInv /\ OrderInv /\ ExitInv /\ LadderInv /\ PathInv
           /\ OpeningInv /\ LiveCalls /\ SnapPos

LEMMA RowsInvariant == Spec => []RowsInv
<1>1. Init => RowsInv
  <2> SUFFICES ASSUME Init PROVE RowsInv
    OBVIOUS
  <2>1. /\ DOMAIN events = {} /\ session = "down" /\ caller = "none" /\ pc = "idle"
        /\ events = <<>> /\ xord = [c \in Orders |-> "NONE"] /\ sord = [c \in Orders |-> "NONE"]
        /\ xalgo = [a \in Algos |-> "NONE"] /\ salgo = [a \in Algos |-> "NONE"] /\ rec.gen = 0
        /\ rec.status = "NONE"
    BY DEF Init, ExchangeInit
  <2>2. LinkInv /\ SyncInv
    BY <2>1 DEF LinkInv, SyncInv, Connected, SnapTrue, NewsTrue, OrderNews, ExitNews,
       PosNews, About, Buffered
  <2>3. StoreInv /\ OrderInv /\ ExitInv /\ LadderInv
    BY <2>1 DEF StoreInv, OrderInv, ExitInv, LadderInv, cur
  <2>4. PathInv /\ OpeningInv /\ LiveCalls /\ SnapPos
    BY <2>1 DEF PathInv, EntryPath, OpeningInv, LiveCalls, SnapPos, Says, OrderNews,
       About, Buffered
  <2> QED
    BY <2>2, <2>3, <2>4 DEF RowsInv
<1>2. TypeInv /\ TypeInv' /\ GateInv /\ PhaseInv /\ SessionInv /\ RowsInv /\ [Next]_vars
        => RowsInv'
  <2> SUFFICES ASSUME TypeInv, TypeInv', GateInv, PhaseInv, SessionInv, RowsInv, [Next]_vars
               PROVE  RowsInv'
    OBVIOUS
  <2>1. LinkStep /\ LinkInv'
    BY LinkSteps, LinkInvStep DEF RowsInv
  <2>2. SyncInv' /\ StoreInv' /\ OrderInv' /\ ExitInv' /\ LadderInv' /\ PathInv'
    BY <2>1, SyncStep, StoreInvStep, OrderInvStep, ExitInvStep, LadderInvStep, PathInvStep
       DEF RowsInv
  <2>3. OpeningInv' /\ LiveCalls' /\ SnapPos'
    BY <2>1, OpeningStep, LiveCallsStep, SnapPosStep DEF RowsInv
  <2> QED
    BY <2>1, <2>2, <2>3 DEF RowsInv
<1> QED
  BY <1>1, <1>2, TypeInvariant, GateInvariant, PhaseInvariant, SessionInvariant, PTL DEF Spec

\* What the later phases of a handler know of the campaign: the closes that
\* follow the store, the unwinding and what an open goes on with are of neutral
\* campaigns; a sweep has found the store flat and cancels what it knows.
SideInv ==
  /\ pc \in {"nemergency", "flip", "unwind"} => neutral
  /\ pc = "degraded" => neutral \/ halted
  /\ caller = "open" /\ pc \notin Opening => neutral
  /\ pc = "verify" /\ ~neutral => spos # 0
  /\ pc = "sweep" => spos = 0 /\ \A x \in todo \cap Exits : salgo[Own(x)] = "NEW"

\* Where the phases come from.
LEMMA SideReached ==
  ASSUME TypeInv, GateInv, ExitInv, SideInv, [Next]_vars, cur > 0, ~(StartOpen /\ ~active)
  PROVE  /\ pc' \in {"nemergency", "flip", "unwind"} => neutral
         /\ pc' = "degraded" => neutral \/ halted'
         /\ caller' = "open" /\ pc' \notin Opening => neutral
         /\ pc' = "verify" /\ ~neutral => spos # 0 /\ spos' = spos
<1> USE DEF SideInv, Opening, Halt, Goto, Catch, Done, Begin
<1>0. /\ pc \in {"nstop", "ntp", "oppose"} => neutral
      /\ pc \in Opening => caller = "open"
      /\ pc \in {"verify", "recover"} => caller = "recover"
  BY DEF ExitInv, ExitPhases, GateInv
<1>1. CASE OpenStep
  <2>1. CASE PlaceStarter \/ PlaceStop \/ PlaceTakeProfit
    BY <1>0, <2>1 DEF PlaceStarter, PlaceStop, StopFails, PlaceTakeProfit, TakeProfitFails
  <2>2. CASE FinishOpen \/ FinishUnwind
    BY <1>0, <2>2 DEF FinishOpen, FinishUnwind
  <2>3. CASE EmergencyClose
    BY <1>0, <2>3 DEF EmergencyClose
  <2>4. ASSUME NEW l \in Limits, PlaceLimit(l)
        PROVE  \/ pc' = pc /\ caller' = caller /\ pc = "ladder"
               \/ pc' = "halt" /\ caller' = "task"
               \/ pc' = "raise" /\ neutral
    BY <2>4 DEF PlaceLimit
  <2>5. ASSUME NEW l \in Limits, UnwindLimit(l)
        PROVE  pc = "unwind" /\ caller' = caller /\ pc' \in {"unwind", "degraded"}
    BY <2>5 DEF UnwindLimit
  <2> QED
    BY <1>0, <1>1, <2>1, <2>2, <2>3, <2>4, <2>5 DEF OpenStep
<1>2. CASE ActivateStep
  BY <1>0, <1>2 DEF ActivateStep, PlaceNeutralStop, PlaceNeutralTakeProfit, FinishOppose,
     NeutralEmergencyClose, DirectionFlipClose, CancelOpposite
<1>3. CASE CleanupStep
  BY <1>0, <1>3 DEF CleanupStep, SweepLimit, SweepExit, FinishSweep, Swept, OpenGate
<1>4. CASE Recover \/ Verify
  BY <1>0, <1>4 DEF Recover, RecoverNothing, RecoverArmed, RecoverFlat, RecoverFlipped,
     RecoverPosition, Verify, storeVars, OpenGate
<1>5. CASE ErrorStep
  BY <1>0, <1>5 DEF ErrorStep, SetFailed, SetDegraded, HaltStore, Raise, StopRuntime
<1>6. CASE StartOpen \/ \E by \in {"loop", "event"} : CleanupOnce(by)
  BY <1>0, <1>6 DEF StartOpen, CleanupOnce, CleanupIfFlat
<1>7. CASE Reconcile \/ SessionEnd \/ Stop \/ Crash
  BY <1>0, <1>7 DEF Reconcile, SessionEnd, Stop, Crash, StopRuntime
<1>8. CASE \/ Signal \/ Deliver \/ StartRuntime \/ RuntimeReady \/ Attach \/ Snapshot
           \/ GraceOver \/ Alarm \/ ExchangeMoves \/ UNCHANGED vars
  BY <1>0, <1>8 DEF Signal, Deliver, StartRuntime, RuntimeReady, Attach, Snapshot, GraceOver,
     Alarm, ExchangeMoves, vars, handlerVars, storeVars, flagVars
<1> QED
  BY <1>1, <1>2, <1>3, <1>4, <1>5, <1>6, <1>7, <1>8 DEF Next, HandlerStep

\* Every step keeps that.
LEMMA SideInvStep ==
  ASSUME TypeInv, GateInv, PhaseInv, ExitInv, SideInv, [Next]_vars PROVE SideInv'
<1>1. CASE StartOpen /\ ~active
  BY <1>1 DEF StartOpen, SideInv, Opening, Begin
<1>2. CASE cur = 0 /\ ~(StartOpen /\ ~active)
  <2>1. cur' = 0 /\ TypeInv'
    BY <1>2, GenStep, TypeStep DEF cur, TypeInv, Numbered, FinishOppose, LinkInv
  <2>2. PhaseInv' /\ GateInv'
    BY PhaseStep, GateStep
  <2>3. pc' \in {"idle", "recover"} /\ caller' # "open"
    BY <2>1, <2>2 DEF TypeInv, Numbered, PhaseInv, GateInv
  <2> QED
    BY <2>3 DEF SideInv
<1>3. CASE cur > 0 /\ ~(StartOpen /\ ~active)
  <2>1. rec'.gen = rec.gen /\ neutral' = neutral
    BY <1>3, GenStep, PlanStep DEF neutral, cur
  <2>2. pc' = "sweep" => spos' = 0 /\ \A x \in todo' \cap Exits : salgo'[Own(x)'] = "NEW"
    <3> SUFFICES ASSUME pc' = "sweep"
                 PROVE  spos' = 0 /\ \A x \in todo' \cap Exits : salgo'[Own(x)] = "NEW"
      BY <2>1 DEF Own, cur
    <3>1. UNCHANGED storeVars
      BY SweepReached
    <3>2. CASE pc = "sweep" /\ todo' \subseteq todo
      BY <3>1, <3>2 DEF SideInv, storeVars
    <3>3. CASE todo' = Leftovers /\ spos = 0
      BY <3>1, <3>3, ExchangeAssumption DEF Leftovers, RestingLimits, RestingExits, storeVars, Exits
    <3> QED
      BY <3>2, <3>3, SweepReached
  <2> QED
    BY <1>3, <2>1, <2>2, SideReached DEF SideInv
<1> QED
  BY <1>1, <1>2, <1>3 DEF TypeInv, TypeOK, RegistryTypeOK, cur

\* The campaign has filled no LIMIT entry.
NoneFilled == \A l \in Limits : xord[Own(l)] # "FILLED"

\* A campaign starts where the symbol is flat and no earlier entry rests; the
\* store of one that is still OPENING has not heard of a position.
ClearInv ==
  /\ pc = "starter" => Flat
  /\ ~neutral /\ rec.status = "OPENING" => spos = 0
  /\ cur > 0 /\ neutral /\ NoneFilled => xpos = 0
  /\ \A c \in Orders : c[1] < cur => xord[c] # "NEW"

\* Of directional campaigns this is known already.
LEMMA DirectionalClear ==
  ASSUME "late" \notin Adversary, "lost" \notin Adversary, NEUTRAL_GRID \notin PlanModes
  PROVE  Spec => []ClearInv
<1>1. TypeInv /\ NextInv /\ BetweenInv => ClearInv
  <2> SUFFICES ASSUME TypeInv, NextInv, BetweenInv PROVE ClearInv
    OBVIOUS
  <2>1. ~neutral
    BY NotNeutral
  <2>2. pc = "starter" => Flat
    BY DEF BetweenInv, FlatInv, BetweenCampaigns
  <2>3. rec.status = "OPENING" => spos = 0
    BY DEF BetweenInv, KnownFlat
  <2>4. \A c \in Orders : c[1] < cur => xord[c] # "NEW"
    BY DEF NextInv, EndedInv, Ended
  <2> QED
    BY <2>1, <2>2, <2>3, <2>4 DEF ClearInv
<1> QED
  BY <1>1, TypeInvariant, NextInvariant, BetweenInvariant, PTL

\* The first campaign, if it is the only one, finds the symbol as it was.
SoloInv == ClearInv /\ (cur = 0 => Flat /\ spos = 0)

\* An only campaign is the first, and its orders are the only ones.
LEMMA SoloOrders ==
  ASSUME TypeInv, TypeInv', MaxCampaigns <= 1
  PROVE  /\ cur \in {0, 1} /\ cur' \in {0, 1}
         /\ \A c \in Orders : c[1] = 1 /\ c[2] \in Limits /\ c = <<c[1], c[2]>>
<1>1. cur \in 0 .. MaxCampaigns /\ cur' \in 0 .. MaxCampaigns /\ MaxCampaigns \in Nat
  BY ExchangeAssumption DEF TypeInv, TypeOK, RegistryTypeOK, cur
<1> QED
  BY <1>1 DEF Orders, Gens

\* Before the starter no entry of it rests.
LEMMA SoloNoEntry ==
  ASSUME TypeInv, TypeInv', OrderInv, LadderInv, MaxCampaigns <= 1, cur = 0 \/ pc = "starter"
  PROVE  \A c \in Orders : xord[c] # "NEW"
<1> SUFFICES ASSUME NEW c \in Orders PROVE xord[c] # "NEW"
  OBVIOUS
<1>1. cur \in {0, 1} /\ c[1] = 1 /\ c[2] \in Limits /\ c = <<c[1], c[2]>>
  BY SoloOrders
<1>2. CASE cur = 0
  BY <1>1, <1>2 DEF OrderInv
<1>3. CASE cur = 1
  BY <1>1, <1>3 DEF LadderInv, Own
<1> QED
  BY <1>1, <1>2, <1>3

\* Until its starter is accepted the symbol stays flat,
LEMMA SoloFlatStep ==
  ASSUME TypeInv, TypeInv', PhaseInv, RowsInv, SoloInv, MaxCampaigns <= 1,
         [Next]_vars, LinkStep, cur' = 0 \/ pc' = "starter"
  PROVE  Flat'
<1> USE DEF RowsInv
<1>1. cur \in {0, 1} /\ cur' \in {0, 1}
  BY SoloOrders
<1>2. CASE StartOpen /\ ~active
  <2>1. cur = 0 /\ UNCHANGED <<exchangeVars, events>>
    BY <1>1, <1>2, FreshCampaign
  <2> QED
    BY <2>1 DEF SoloInv, Flat, PosNews, Buffered, exchangeVars
<1>3. CASE cur = 0 /\ ~(StartOpen /\ ~active)
  <2>1. pc \in {"idle", "recover"} /\ Flat
    BY <1>3 DEF TypeInv, Numbered, SoloInv
  <2> QED
    BY <1>3, <2>1, SoloNoEntry, FlatKept
<1>4. CASE cur = 1 /\ ~(StartOpen /\ ~active)
  <2>1. pc' = "starter"
    BY <1>4, GenStep DEF cur
  <2>2. pc = "starter" /\ Flat /\ ~armed
    BY <1>4, <2>1, OpeningReached DEF Opening, PhaseInv, SoloInv, ClearInv
  <2>3. ~PlaceStarter
    BY <2>1 DEF PlaceStarter, Goto, Done
  <2> QED
    BY <2>2, <2>3, StarterSteps, SoloNoEntry, FlatKept
<1> QED
  BY <1>1, <1>2, <1>3, <1>4

\* and the store does not know of a position while it is OPENING.
LEMMA SoloStoreStep ==
  ASSUME TypeInv, TypeInv', RowsInv, SyncInv', SoloInv, MaxCampaigns <= 1, [Next]_vars,
         cur' = 0 \/ (~neutral' /\ rec'.status = "OPENING")
  PROVE  spos' = 0
<1> USE DEF RowsInv
<1>1. cur \in {0, 1} /\ cur' \in {0, 1}
  BY SoloOrders
<1>2. spos = 0 /\ \/ cur = 0 /\ Flat
                  \/ cur = 1 /\ rec.status = "OPENING"
  <2>1. CASE cur = 0
    BY <2>1 DEF SoloInv
  <2>2. CASE cur = 1
    <3>1. ~(StartOpen /\ ~active)
      BY <1>1, <2>2, FreshCampaign
    <3>2. cur' = 1 /\ rec'.status = "OPENING"
      BY <2>2, <3>1, GenStep DEF cur
    <3>3. rec' = rec
      BY <3>1, <3>2, OpeningKept
    <3>4. neutral' = neutral
      BY <3>3, PlanStep DEF neutral, cur
    <3> QED
      BY <2>2, <3>2, <3>3, <3>4 DEF SoloInv, ClearInv
  <2> QED
    BY <1>1, <2>1, <2>2
<1>3. CASE Deliver
  <2>1. session = "live" /\ pc = "idle" /\ events # <<>> /\ events \in Seq(Event)
    BY <1>3 DEF Deliver, TypeInv, TypeOK, AccountTypeOK
  <2>2. Flat
    BY <1>2, <2>1 DEF OpeningInv
  <2>3. 1 \in DOMAIN events /\ Head(events) = events[1]
    BY <2>1
  <2> QED
    BY <1>2, <1>3, <2>2, <2>3 DEF Deliver, Flat, PosNews, Buffered
<1>4. CASE Drains
  <2>1. xpos' = xpos /\ ~Connected
    BY <1>4 DEF Drains, Reconcile, exchangeVars, Connected, LinkInv
  <2>2. spos' = xpos'
    BY <1>4, <2>1, DrainTrue
  <2>3. CASE cur = 0
    BY <1>2, <2>1, <2>2, <2>3 DEF Flat
  <2>4. CASE cur = 1 /\ rec.status = "OPENING"
    <3>1. \A c \in Orders : sord[c] = "NEW" => xord[c] # "FILLED"
      BY <2>4, SoloOrders DEF OpeningInv, RestingLimits, Own
    <3> QED
      BY <1>2, <1>4, <2>1, <2>2, <3>1, FlatDrain
  <2> QED
    BY <1>2, <2>3, <2>4
<1>5. CASE ~Deliver /\ ~Drains
  BY <1>2, <1>5, StoreSteps DEF Drains, Reconcile, storeVars
<1> QED
  BY <1>3, <1>4, <1>5

\* A fill is for good.
LEMMA FilledStays ==
  ASSUME TypeInv, LadderInv, LinkStep, NEW c \in Orders, xord[c] = "FILLED"
  PROVE  xord'[c] = "FILLED"
BY EntryStep, ExchangeAssumption DEF Accepted, Cancelled, Filled, LadderInv

\* Without a fill a neutral campaign gets no position.
LEMMA SoloNeutralStep ==
  ASSUME TypeInv, TypeInv', RowsInv, SoloInv, MaxCampaigns <= 1, [Next]_vars, LinkStep,
         cur' > 0, neutral', NoneFilled'
  PROVE  xpos' = 0
<1> USE DEF RowsInv
<1>1. cur \in {0, 1} /\ cur' = 1 /\ xpos \in Int /\ xord \in [Orders -> OrderStatus]
  BY SoloOrders DEF TypeInv, TypeOK, AccountTypeOK
<1>2. CASE cur = 0
  <2>1. StartOpen /\ ~active
    BY <1>1, <1>2, GenStep DEF cur
  <2> QED
    BY <1>2, <2>1, FreshCampaign DEF SoloInv, Flat, exchangeVars
<1>3. CASE cur = 1
  <2>1. \A l \in Limits : Own(l)' = Own(l) /\ Own(l) \in Orders
    BY <1>1, <1>3, OwnType DEF Own, cur
  <2>2. neutral /\ NoneFilled
    BY <1>1, <1>3, <2>1, PlanStep, FilledStays DEF neutral, NoneFilled, cur
  <2>3. xpos = 0
    BY <1>3, <2>2 DEF SoloInv, ClearInv
  <2>4. ASSUME NEW c \in Orders, Fill(c) PROVE FALSE
    <3>1. c[2] \in Limits /\ c = Own(c[2]) /\ xord'[c] = "FILLED"
      BY <1>1, <1>3, <2>4, SoloOrders DEF Fill, Own
    <3> QED
      BY <2>1, <3>1 DEF NoneFilled
  <2>5. ASSUME NEW d \in {0, 1, -1}, NEW q \in Nat, ReduceOnly(d, q) PROVE xpos' = 0
    BY <2>3, <2>5 DEF ReduceOnly, MarketFill, Abs
  <2>6. pc # "starter"
    BY <1>3, <2>2 DEF ExitInv, ExitPhases
  <2>7. BookMove => xpos' = 0
    BY <2>3, <2>4, <2>5, <2>6 DEF BookMove, ExchangeMoves, Fire, Expire, AcceptLimit,
       CancelLimit, AcceptExit, CancelExit, exchangeVars
  <2> QED
    BY <2>3, <2>7 DEF LinkStep, Steady, Cut, Joins, Drains, Deliver, Snapshot, Attach, Reconcile,
       exchangeVars
<1> QED
  BY <1>1, <1>2, <1>3

\* So it is, step by step.
LEMMA SoloClear ==
  ASSUME MaxCampaigns <= 1 PROVE Spec => []ClearInv
<1>1. Init => SoloInv
  <2> SUFFICES ASSUME Init PROVE SoloInv
    OBVIOUS
  <2>1. /\ DOMAIN events = {} /\ pc = "idle" /\ xpos = 0 /\ spos = 0 /\ rec.gen = 0
        /\ xord = [c \in Orders |-> "NONE"] /\ rec.status = "NONE"
    BY DEF Init, ExchangeInit
  <2> QED
    BY <2>1 DEF SoloInv, ClearInv, Flat, PosNews, Buffered, cur
<1>2. TypeInv /\ TypeInv' /\ GateInv /\ PhaseInv /\ RowsInv /\ RowsInv' /\ SoloInv /\ [Next]_vars
        => SoloInv'
  <2> SUFFICES ASSUME TypeInv, TypeInv', GateInv, PhaseInv, RowsInv, RowsInv', SoloInv, [Next]_vars
               PROVE  SoloInv'
    OBVIOUS
  <2>1. LinkStep /\ SyncInv'
    BY LinkSteps DEF RowsInv
  <2>2. cur' = 0 \/ pc' = "starter" => Flat'
    BY <2>1, SoloFlatStep
  <2>3. cur' = 0 \/ (~neutral' /\ rec'.status = "OPENING") => spos' = 0
    BY <2>1, SoloStoreStep
  <2>4. cur' > 0 /\ neutral' /\ NoneFilled' => xpos' = 0
    BY <2>1, SoloNeutralStep
  <2>5. \A c \in Orders : c[1] < cur' => xord'[c] # "NEW"
    BY SoloOrders
  <2> QED
    BY <2>2, <2>3, <2>4, <2>5 DEF SoloInv, ClearInv
<1>3. SoloInv => ClearInv
  BY DEF SoloInv
<1> QED
  BY <1>1, <1>2, <1>3, TypeInvariant, GateInvariant, PhaseInvariant, RowsInvariant, PTL DEF Spec

\* So a campaign starts on a clear symbol, whether it is the only one or one of
\* directional ones after another.
LEMMA ClearInvariant ==
  ASSUME \/ MaxCampaigns <= 1
         \/ /\ "late" \notin Adversary /\ "lost" \notin Adversary
            /\ NEUTRAL_GRID \notin PlanModes
  PROVE  Spec => []ClearInv
BY SoloClear, DirectionalClear

\* The later phases are as described in any run.
LEMMA SideInvariant == Spec => []SideInv
<1>1. Init => SideInv
  BY DEF Init, SideInv, Opening
<1>2. TypeInv /\ GateInv /\ PhaseInv /\ RowsInv /\ SideInv /\ [Next]_vars => SideInv'
  BY SideInvStep DEF RowsInv
<1> QED
  BY <1>1, <1>2, TypeInvariant, GateInvariant, PhaseInvariant, RowsInvariant, PTL DEF Spec

\* A directional campaign that has filled none of its LIMIT entries is its
\* starter.
Lone    == cur > 0 /\ ~neutral /\ NoneFilled
TheStop == Own("STOP")

\* Its position is the starter's, and the stream has told of it before the stop
\* is placed.
StarterInv ==
  /\ pc \in {"starter", "stop"} => xalgo[TheStop] = "NONE"
  /\ Lone => xpos \in {0, rec.dir}
  /\ Lone /\ pc = "stop" => \E j \in PosNews : events[j].pos = rec.dir

\* The stop of such a position is not yet placed or rests; the store hears of
\* the position before it hears of the stop, and of nothing that ends it.
StopRests  == xalgo[TheStop] \in {"NONE", "NEW"}
StopHeard  ==
  /\ \A i \in PosNews : \A j \in PosNews :
       i < j /\ events[i].pos = rec.dir => events[j].pos = rec.dir
  /\ spos = rec.dir => \A i \in PosNews : events[i].pos = rec.dir
  /\ salgo[TheStop] = "NEW" => spos = rec.dir
  /\ \A i \in ExitNews(TheStop) : events[i].status = "NEW"
       => spos = rec.dir \/ \E j \in PosNews : j < i /\ events[j].pos = rec.dir
StopNeeded == rec.status \in {"ACTIVE", "DEGRADED"} /\ ~halted => xalgo[TheStop] # "NONE"
StopInv == Lone /\ xpos # 0 => StopRests /\ StopHeard /\ StopNeeded

\* What happens between the starter and the stop.
LEMMA StartingSteps ==
  ASSUME [Next]_vars, pc' \in {"starter", "stop"}, ~(StartOpen /\ ~active)
  PROVE  \/ PlaceStarter /\ pc' = "stop"
         \/ pc' = pc /\ (UNCHANGED <<exchangeVars, events>> \/ ExchangeMoves)
<1> USE DEF Goto, Catch, Done, Begin
<1>1. CASE OpenStep
  <2>1. CASE PlaceStarter
    BY <2>1 DEF PlaceStarter
  <2>2. CASE PlaceStop \/ PlaceTakeProfit \/ FinishOpen \/ EmergencyClose \/ FinishUnwind
    BY <2>2 DEF PlaceStop, StopFails, PlaceTakeProfit, TakeProfitFails, FinishOpen,
       EmergencyClose, FinishUnwind
  <2>3. ASSUME NEW l \in Limits, PlaceLimit(l) \/ UnwindLimit(l) PROVE FALSE
    BY <2>3 DEF PlaceLimit, UnwindLimit
  <2> QED
    BY <1>1, <2>1, <2>2, <2>3 DEF OpenStep
<1>2. CASE ActivateStep
  BY <1>2 DEF ActivateStep, PlaceNeutralStop, PlaceNeutralTakeProfit, FinishOppose,
     NeutralEmergencyClose, DirectionFlipClose, CancelOpposite
<1>3. CASE CleanupStep
  BY <1>3 DEF CleanupStep, SweepLimit, SweepExit, FinishSweep, Swept, OpenGate
<1>4. CASE Recover \/ Verify \/ ErrorStep
  BY <1>4 DEF Recover, RecoverNothing, RecoverArmed, RecoverFlat, RecoverFlipped,
     RecoverPosition, Verify, ErrorStep, SetFailed, SetDegraded, HaltStore, Raise, StopRuntime,
     OpenGate
<1>5. CASE StartOpen \/ \E by \in {"loop", "event"} : CleanupOnce(by)
  BY <1>5 DEF StartOpen, CleanupOnce, CleanupIfFlat
<1>6. CASE Reconcile \/ SessionEnd \/ Stop \/ Crash
  BY <1>6 DEF Reconcile, SessionEnd, Stop, Crash, StopRuntime
<1>7. CASE \/ Signal \/ StartRuntime \/ RuntimeReady \/ Attach \/ Snapshot
           \/ GraceOver \/ Alarm \/ ExchangeMoves \/ UNCHANGED vars
  BY <1>7 DEF Signal, StartRuntime, RuntimeReady, Attach, Snapshot, GraceOver, Alarm,
     ExchangeMoves, vars, handlerVars
<1>8. CASE Deliver
  BY <1>8 DEF Deliver, handlerVars
<1> QED
  BY <1>1, <1>2, <1>3, <1>4, <1>5, <1>6, <1>7, <1>8 DEF Next, HandlerStep

\* The starter, if it is accepted, is told to a stream that is attached.
LEMMA StarterTold ==
  ASSUME TypeInv, SessionInv, PlaceStarter, pc' = "stop", xpos = 0
  PROVE  /\ xalgo' = xalgo
         /\ \E j \in PosNews' : events'[j].pos = rec.dir
<1>1. pc = "starter" /\ Ready /\ MarketFill(rec.dir)
  BY DEF PlaceStarter, Goto, Done, Effect, Applied
<1>2. session = "live" /\ events \in Seq(Event) /\ rec.dir \in Int
  BY <1>1, ReadyConnected DEF Opening, TypeInv, TypeOK, AccountTypeOK, RegistryTypeOK
<1>3. events' = events \o <<PosEvent(rec.dir)>> /\ xalgo' = xalgo
  BY <1>1, <1>2 DEF MarketFill, Feed
<1>4. PosEvent(rec.dir).kind = "ACCOUNT_UPDATE" /\ PosEvent(rec.dir).pos = rec.dir
  BY DEF PosEvent
<1> DEFINE e == PosEvent(rec.dir)
           n == Len(events) + 1
<1> HIDE DEF e
<1>5. n \in DOMAIN events' /\ events'[n] = e
  BY <1>2, <1>3 DEF e
<1> QED
  BY <1>3, <1>4, <1>5 DEF PosNews, Buffered, e

\* A directional campaign keeps its id and its side.
LEMMA LoneKept ==
  ASSUME TypeInv, LadderInv, ExitInv, [Next]_vars, LinkStep, ~(StartOpen /\ ~active), Lone'
  PROVE  /\ Lone /\ cur' = cur /\ rec'.dir = rec.dir
         /\ \A l : Own(l)' = Own(l)
<1>1. cur' = cur /\ neutral' = neutral /\ \A l : Own(l)' = Own(l)
  BY GenStep, PlanStep DEF cur, neutral, Own
<1>2. cur > 0 /\ ~neutral
  BY <1>1 DEF Lone
<1>3. rec'.dir = rec.dir
  BY <1>2, GenStep DEF ExitInv, ExitsOf
<1>4. NoneFilled
  <2> SUFFICES ASSUME NEW l \in Limits, xord[Own(l)] = "FILLED" PROVE FALSE
    BY DEF NoneFilled
  <2>1. Own(l) \in Orders
    BY <1>2, OwnType
  <2>2. xord'[Own(l)] = "FILLED"
    BY <2>1, FilledStays
  <2> QED
    BY <1>1, <2>2 DEF Lone, NoneFilled
<1> QED
  BY <1>1, <1>2, <1>3, <1>4 DEF Lone

\* What a step may do to its position: the starter makes it, and what reduces
\* it or fires ends it.
LEMMA LonePosition ==
  ASSUME TypeInv, OrderInv, ClearInv, Lone, xpos \in {0, rec.dir}, BookMove,
         \A l \in Limits : xord'[Own(l)] # "FILLED"
  PROVE  \/ xpos' = xpos
         \/ xpos' = 0
         \/ pc = "starter" /\ Ready /\ MarketFill(rec.dir) /\ xpos = 0 /\ xpos' = rec.dir
<1>0. /\ xpos \in Int /\ xord \in [Orders -> OrderStatus] /\ rec.dir \in {0, 1, -1}
      /\ cur \in Int
  BY DEF TypeInv, TypeOK, AccountTypeOK, RegistryTypeOK, cur
<1>1. CASE pc = "starter" /\ Ready /\ MarketFill(rec.dir)
  BY <1>0, <1>1 DEF ClearInv, Flat, MarketFill
<1>2. ASSUME NEW d \in {0, 1, -1}, NEW q \in Nat, ReduceOnly(d, q)
      PROVE  xpos' \in {xpos, 0}
  BY <1>0, <1>2 DEF ReduceOnly, MarketFill, Abs, Towards
<1>3. ASSUME NEW c \in Orders, Fill(c) PROVE FALSE
  <2>1. xord[c] = "NEW" /\ xord'[c] = "FILLED"
    BY <1>0, <1>3 DEF Fill
  <2>2. c[1] <= cur /\ ~(c[1] < cur) /\ c[1] \in Int /\ c[2] \in Limits /\ c = <<c[1], c[2]>>
    BY <2>1, ExchangeAssumption DEF OrderInv, ClearInv, Orders, Gens
  <2>3. c = Own(c[2])
    BY <1>0, <2>2 DEF Own
  <2> QED
    BY <2>1, <2>2, <2>3
<1>4. ASSUME NEW a \in Algos, Fire(a) \/ Expire(a) PROVE xpos' \in {xpos, 0}
  BY <1>4 DEF Fire, Expire
<1> QED
  BY <1>1, <1>2, <1>3, <1>4 DEF BookMove, ExchangeMoves, AcceptLimit, CancelLimit,
     AcceptExit, CancelExit, exchangeVars

\* Every step keeps the position and what precedes the stop so.
LEMMA StarterInvStep ==
  ASSUME TypeInv, TypeInv', GateInv, SessionInv, RowsInv, ClearInv, ClearInv', StarterInv,
         [Next]_vars, LinkStep
  PROVE  StarterInv'
<1> USE DEF RowsInv
<1>0. LinkStep /\ ~Steady => UNCHANGED exchangeVars
  BY DEF LinkStep, Cut, Joins, Drains, Reconcile, Deliver, Snapshot, Attach
<1>1. CASE StartOpen /\ ~active
  <2>1. xalgo'[TheStop'] = "NONE"
    BY <1>1, FreshCampaign DEF TheStop, Exits, exchangeVars
  <2>2. pc' = "starter" \/ neutral'
    BY <1>1, FreshCampaign DEF StartOpen, Begin, neutral, cur
  <2>3. pc' # "stop"
    BY <1>1 DEF StartOpen, Begin
  <2> QED
    BY <2>1, <2>2, <2>3 DEF StarterInv, Lone, ClearInv, Flat
<1>2. CASE ~(StartOpen /\ ~active)
  <2>1. ASSUME pc' \in {"starter", "stop"}
        PROVE  /\ xalgo'[TheStop'] = "NONE"
               /\ pc' = "stop" /\ Lone' => \E j \in PosNews' : events'[j].pos = rec'.dir
    <3>1. CASE PlaceStarter /\ pc' = "stop"
      <4>1. pc = "starter" /\ xpos = 0 /\ cur > 0
        BY <3>1 DEF PlaceStarter, ClearInv, Flat, TypeInv, Numbered
      <4>2. rec' = rec
        BY <3>1 DEF PlaceStarter, Done, KeepStatus
      <4> QED
        BY <3>1, <4>1, <4>2, StarterTold DEF StarterInv, TheStop, Own, cur
    <3>2. CASE pc' = pc /\ (UNCHANGED <<exchangeVars, events>> \/ ExchangeMoves)
      <4>1. cur > 0 /\ rec'.gen = rec.gen
        BY <1>2, <2>1, <3>2, GenStep DEF TypeInv, Numbered, FinishOppose
      <4>2. TheStop' = TheStop /\ TheStop \in Algos /\ xalgo[TheStop] = "NONE"
        BY <2>1, <3>2, <4>1, OwnType DEF TheStop, Own, cur, Exits, StarterInv
      <4>3. xalgo'[TheStop] = "NONE"
        BY <3>2, <4>2 DEF exchangeVars, ExchangeMoves, Fill, Fire, Expire, TypeInv, TypeOK, AccountTypeOK
      <4>4. ASSUME pc' = "stop", Lone' PROVE \E j \in PosNews' : events'[j].pos = rec'.dir
        <5>1. Lone /\ rec'.dir = rec.dir
          BY <1>2, <4>4, LoneKept
        <5>2. PICK j \in PosNews : events[j].pos = rec.dir
          BY <3>2, <4>4, <5>1 DEF StarterInv
        <5>3. session # "down"
          BY <5>2 DEF LinkInv, PosNews, Buffered
        <5>4. TellsAll
          <6>1. BookMove
            BY <3>2 DEF BookMove
          <6> QED
            BY <6>1, BookTold
        <5>5. j \in DOMAIN events' /\ events'[j] = events[j]
          <6>1. PICK evs \in Seq(Event) : Feed(evs)
            BY <5>4 DEF TellsAll
          <6> QED
            BY <5>2, <5>3, <6>1, FedEvents DEF PosNews, Buffered, TypeInv, TypeOK, AccountTypeOK
        <5> QED
          BY <5>1, <5>2, <5>5 DEF PosNews, Buffered
      <4> QED
        BY <4>2, <4>3, <4>4
    <3> QED
      BY <1>2, <2>1, <3>1, <3>2, StartingSteps
  <2>2. ASSUME Lone' PROVE xpos' \in {0, rec'.dir}
    <3>1. Lone /\ rec'.dir = rec.dir /\ \A l : Own(l)' = Own(l)
      BY <1>2, <2>2, LoneKept
    <3>2. xpos \in {0, rec.dir}
      BY <3>1 DEF StarterInv
    <3>3. CASE Steady
      BY <2>2, <3>1, <3>2, <3>3, LonePosition DEF Steady, Lone, NoneFilled
    <3>4. CASE ~Steady
      BY <1>0, <3>1, <3>2, <3>4 DEF exchangeVars
    <3> QED
      BY <3>3, <3>4
  <2> QED
    BY <2>1, <2>2 DEF StarterInv
<1> QED
  BY <1>1, <1>2

\* Nothing ends the stop while the position stays: it fires only with it, and a
\* sweep cancels it only where the store says the position is gone.
LEMMA StopStays ==
  ASSUME TypeInv, ExitInv, SideInv, Lone, StopRests, StopHeard, "expire" \notin Adversary,
         xpos = rec.dir, xpos # 0, xpos' # 0, BookMove
  PROVE  xalgo'[TheStop] \in {"NONE", "NEW"}
<1>0. /\ TheStop \in Algos /\ xalgo \in [Algos -> AlgoStatus] /\ cur > 0
      /\ rec.dir \in {1, -1} /\ TheStop[1] = cur /\ \A x \in Exits : Own(x) \in Algos
  BY OwnType DEF Lone, TheStop, Own, Exits, TypeInv, TypeOK, AccountTypeOK, RegistryTypeOK
<1>1. ASSUME NEW a \in Algos, Fire(a) PROVE a # TheStop
  <2> SUFFICES ASSUME a = TheStop PROVE FALSE
    OBVIOUS
  <2>1. xalgo[TheStop] = "NEW" /\ Sign(xpos) # exitDir[cur]
    BY <1>0, <1>1 DEF Fire
  <2>2. exitDir[cur] = rec.dir
    BY <1>0, <2>1 DEF ExitInv, ExitsOf, Lone, Placed, TheStop, Exits
  <2> QED
    BY <1>0, <2>1, <2>2 DEF Sign
<1>2. ASSUME NEW a \in Algos, Fire(a) PROVE xalgo'[TheStop] = xalgo[TheStop]
  BY <1>0, <1>1, <1>2 DEF Fire
<1>3. ASSUME NEW x \in todo \cap Exits, pc = "sweep", CancelExit(Own(x))
      PROVE  xalgo'[TheStop] = xalgo[TheStop]
  <2>1. Own(x) # TheStop
    BY <1>0, <1>3 DEF SideInv, StopHeard, Lone
  <2> QED
    BY <1>0, <1>3, <2>1 DEF CancelExit
<1>4. ASSUME NEW x \in Exits, NEW d \in {0, 1, -1}, AcceptExit(Own(x), d)
      PROVE  xalgo'[TheStop] \in {"NONE", "NEW"}
  BY <1>0, <1>4 DEF AcceptExit, StopRests
<1> QED
  BY <1>2, <1>3, <1>4 DEF BookMove, ExchangeMoves, Fill, Expire, MarketFill, ReduceOnly,
     AcceptLimit, CancelLimit, StopRests, exchangeVars

\* How a campaign comes to be DEGRADED without a halt.
LEMMA DegradedReached ==
  ASSUME TypeInv, ExitInv, SideInv, [Next]_vars, cur > 0, ~neutral, ~(StartOpen /\ ~active),
         rec'.status = "DEGRADED", rec.status # "DEGRADED", ~halted'
  PROVE  pc \in {"tp", "ladder", "verify"} \/ (pc = "sweep" /\ todo # {})
<1> USE StatusFacts DEF SideInv, Halt, Opening
<1>0. pc \notin {"nstop", "ntp", "oppose"}
  BY DEF ExitInv, ExitPhases
<1>1. CASE OpenStep
  <2>1. CASE PlaceStarter \/ PlaceStop \/ PlaceTakeProfit
    BY <2>1 DEF PlaceStarter, PlaceStop, StopFails, PlaceTakeProfit
  <2>2. CASE FinishOpen \/ FinishUnwind
    BY <2>2 DEF FinishOpen, MarkActive, FinishUnwind
  <2>3. EmergencyClose => KeepStatus
    BY DEF EmergencyClose
  <2>4. ASSUME NEW l \in Limits, PlaceLimit(l) \/ UnwindLimit(l) PROVE pc = "ladder"
    BY <2>4 DEF PlaceLimit, UnwindLimit
  <2> QED
    BY <1>1, <2>1, <2>2, <2>3, <2>4 DEF OpenStep
<1>2. CASE ActivateStep
  BY <1>0, <1>2 DEF ActivateStep, PlaceNeutralStop, PlaceNeutralTakeProfit, FinishOppose,
     NeutralEmergencyClose, DirectionFlipClose, CancelOpposite
<1>3. CASE CleanupStep
  BY <1>3 DEF CleanupStep, SweepLimit, SweepExit, FinishSweep, MarkClosed
<1>4. CASE Recover \/ Verify
  BY <1>4 DEF Recover, RecoverNothing, RecoverArmed, RecoverFlat, RecoverFlipped,
     RecoverPosition, Verify
<1>5. CASE ErrorStep
  BY <1>5 DEF ErrorStep, SetFailed, SetDegraded, Degrade, KeepFlag, flagVars, HaltStore, Raise
<1>6. CASE \/ Signal \/ StartOpen \/ \E by \in {"loop", "event"} : CleanupOnce(by)
           \/ Deliver \/ StartRuntime \/ RuntimeReady \/ Attach \/ Snapshot \/ Reconcile
           \/ SessionEnd \/ Stop \/ Crash \/ GraceOver \/ Alarm \/ ExchangeMoves \/ UNCHANGED vars
  BY <1>6 DEF Signal, StartOpen, CleanupOnce, Deliver, StartRuntime, RuntimeReady, Attach,
     Snapshot, Reconcile, SessionEnd, Stop, Crash, GraceOver, Alarm, ExchangeMoves, vars
<1> QED
  BY <1>1, <1>2, <1>3, <1>4, <1>5, <1>6 DEF Next, HandlerStep

\* A directional campaign that the code believes to be open has its stop placed.
LEMMA StopPlaced ==
  ASSUME TypeInv, PhaseInv, ExitInv, StoreInv, OpeningInv, SideInv, ClearInv, [Next]_vars,
         cur > 0, ~neutral, ~(StartOpen /\ ~active), StopNeeded,
         rec'.status \in {"ACTIVE", "DEGRADED"}, ~halted'
  PROVE  xalgo[TheStop] # "NONE"
<1>0. ~halted
  BY HaltStays
<1>1. TheStop \in Algos /\ "STOP" \in Exits
  BY OwnType DEF TheStop, Exits
<1>2. CASE rec.status \in {"ACTIVE", "DEGRADED"}
  BY <1>0, <1>2 DEF StopNeeded
<1>3. CASE rec.status \notin {"ACTIVE", "DEGRADED"} /\ rec'.status = "ACTIVE"
  <2>1. FinishOpen \/ FinishOppose \/ RecoverArmed \/ (Verify /\ ExitsRest)
    BY <1>3, ActiveReached
  <2>2. ~FinishOppose /\ ~RecoverArmed
    BY DEF FinishOppose, RecoverArmed, ExitInv, ExitPhases
  <2>3. FinishOpen => Placed("STOP")
    BY <1>1 DEF FinishOpen, ExitInv, ExitPhases, Protects
  <2>4. ExitsRest => Placed("STOP")
    BY <1>1 DEF ExitsRest, RestingExits, StoreInv, Placed, TheStop
  <2> QED
    BY <2>1, <2>2, <2>3, <2>4 DEF Placed, TheStop
<1>4. CASE rec.status \notin {"ACTIVE", "DEGRADED"} /\ rec'.status = "DEGRADED"
  <2>1. pc \in {"tp", "ladder", "verify"} \/ (pc = "sweep" /\ todo # {})
    BY <1>4, DegradedReached
  <2>2. pc \in {"verify", "sweep"} => rec.status = "OPENING"
    BY <1>4 DEF PhaseInv, active, ActiveStatus
  <2>3. pc \in {"tp", "ladder"}
    BY <2>1, <2>2 DEF SideInv, ClearInv, OpeningInv
  <2> QED
    BY <1>1, <2>3 DEF ExitInv, ExitPhases, Protects, Placed, TheStop
<1> QED
  BY <1>2, <1>3, <1>4

\* Events that are fed come after those on their way.
LEMMA FedAfter ==
  ASSUME events \in Seq(Event), NEW evs \in Seq(Event), Feed(evs)
  PROVE  /\ \A i \in DOMAIN events : i \in DOMAIN events' /\ events'[i] = events[i]
         /\ \A i \in DOMAIN events', j \in DOMAIN events : i \notin DOMAIN events => j < i
         /\ \A i \in DOMAIN events' :
              i \in DOMAIN events \/ \E j \in DOMAIN evs : events'[i] = evs[j]
         /\ \A i \in DOMAIN events' : i \in Int
<1>1. events' = events \/ events' = events \o evs
  BY DEF Feed
<1> DEFINE m == Len(events)
           n == Len(events')
<1>3. m \in Nat /\ n \in Nat /\ DOMAIN events = 1 .. m /\ DOMAIN events' = 1 .. n /\ m <= n
  BY <1>1
<1>4. \A i \in DOMAIN events : events'[i] = events[i]
  BY <1>1
<1> HIDE DEF m, n
<1>2. \A i \in DOMAIN events' :
        i \in DOMAIN events \/ \E j \in DOMAIN evs : events'[i] = evs[j]
  BY FeedEvents
<1> QED
  BY <1>2, <1>3, <1>4

\* Where the starter is called, or called for, nothing has been heard of it.
LEMMA StarterUnheard ==
  ASSUME TypeInv, PhaseInv, StoreInv, ClearInv, StarterInv, cur > 0, ~neutral, pc = "starter"
  PROVE  /\ \A i \in PosNews : events[i].pos = 0
         /\ spos = 0 /\ salgo[TheStop] # "NEW" /\ ExitNews(TheStop) = {}
         /\ rec.status = "OPENING"
<1>1. TheStop \in Algos /\ xalgo[TheStop] = "NONE" /\ rec.status = "OPENING"
  BY OwnType DEF TheStop, Exits, StarterInv, PhaseInv, Opening
<1> QED
  BY <1>1 DEF ClearInv, Flat, StoreInv, ExitNews, About, Buffered

\* What a step tells keeps the order in which the store hears of the position
\* and of its stop.
LEMMA StopFed ==
  ASSUME TypeInv, PhaseInv, ExitInv, StoreInv, ClearInv, StarterInv, StopInv, Lone, Steady,
         xpos' = rec.dir, rec.dir # 0, xpos = rec.dir \/ pc = "starter",
         NEW a \in Algos, a = TheStop
  PROVE  /\ \A i \in PosNews' : \A j \in PosNews' :
              i < j /\ events'[i].pos = rec.dir => events'[j].pos = rec.dir
         /\ spos' = rec.dir => \A i \in PosNews' : events'[i].pos = rec.dir
         /\ salgo'[a] = "NEW" => spos' = rec.dir
         /\ \A i \in ExitNews(a)' : events'[i].status = "NEW"
              => spos' = rec.dir \/ \E j \in PosNews' : j < i /\ events'[j].pos = rec.dir
<1>1. PICK evs \in Seq(Event) : Feed(evs) /\ Told(evs)
  BY BookTold DEF Steady, TellsAll
<1>2. events \in Seq(Event) /\ spos' = spos /\ salgo' = salgo
  BY OwnType DEF TypeInv, TypeOK, AccountTypeOK, Lone, TheStop, Exits, Steady, storeVars
<1>3. /\ \A i \in PosNews : i \in PosNews' /\ events'[i] = events[i]
      /\ \A i \in PosNews' : \/ i \in PosNews /\ events'[i] = events[i]
                             \/ i \notin DOMAIN events /\ events'[i].pos = rec.dir
      /\ \A i \in PosNews', j \in PosNews : i \notin DOMAIN events => j < i
      /\ \A i \in PosNews' : i \in Int
  BY <1>1, <1>2, FedAfter DEF PosNews, Buffered, Told
<1>4. /\ \A i \in PosNews : \A j \in PosNews :
           i < j /\ events[i].pos = rec.dir => events[j].pos = rec.dir
      /\ spos = rec.dir => \A i \in PosNews : events[i].pos = rec.dir
      /\ salgo[a] = "NEW" => spos = rec.dir
      /\ \A i \in ExitNews(a) : events[i].status = "NEW"
           => spos = rec.dir \/ \E j \in PosNews : j < i /\ events[j].pos = rec.dir
  <2>1. CASE xpos = rec.dir
    BY <2>1 DEF StopInv, StopHeard
  <2>2. CASE pc = "starter"
    BY <2>2, StarterUnheard DEF Lone
  <2> QED
    BY <2>1, <2>2
<1>5. ASSUME NEW i \in PosNews', NEW j \in PosNews', i < j, events'[i].pos = rec.dir
      PROVE  events'[j].pos = rec.dir
  <2>1. CASE j \in PosNews
    <3>1. i \in PosNews
      BY <1>3, <1>5, <2>1
    <3> QED
      BY <1>3, <1>4, <1>5, <2>1, <3>1
  <2> QED
    BY <1>3, <2>1
<1>6. ASSUME NEW i \in ExitNews(a)', events'[i].status = "NEW"
      PROVE  spos' = rec.dir \/ \E j \in PosNews' : j < i /\ events'[j].pos = rec.dir
  <2>1. CASE i \in DOMAIN events
    <3>1. i \in ExitNews(a) /\ events'[i] = events[i]
      BY <1>1, <1>2, <1>6, <2>1, FedAfter DEF ExitNews, About, Buffered
    <3> QED
      BY <1>2, <1>3, <1>4, <1>6, <3>1
  <2>2. CASE i \notin DOMAIN events
    <3>1. ExitAccepted(a)
      BY <1>2, <1>6, <2>2, ExitMoved
    <3>2. pc = "stop"
      BY <3>1 DEF ExitAccepted, ExitInv, ExitPhases, Lone, Placed, TheStop
    <3>3. PICK j \in PosNews : events[j].pos = rec.dir
      BY <3>2 DEF StarterInv
    <3>4. j < i
      BY <1>1, <1>2, <1>6, <2>2, <3>3, FedAfter DEF PosNews, ExitNews, About, Buffered
    <3> QED
      BY <1>3, <3>3, <3>4
  <2> QED
    BY <2>1, <2>2
<1> QED
  BY <1>2, <1>3, <1>4, <1>5, <1>6

\* Delivering the first event keeps it too.
LEMMA StopDelivered ==
  ASSUME TypeInv, Lone, StopHeard, Deliver, NEW a \in Algos, a = TheStop
  PROVE  /\ \A i \in PosNews' : \A j \in PosNews' :
              i < j /\ events'[i].pos = rec.dir => events'[j].pos = rec.dir
         /\ spos' = rec.dir => \A i \in PosNews' : events'[i].pos = rec.dir
         /\ salgo'[a] = "NEW" => spos' = rec.dir
         /\ \A i \in ExitNews(a)' : events'[i].status = "NEW"
              => spos' = rec.dir \/ \E j \in PosNews' : j < i /\ events'[j].pos = rec.dir
<1> DEFINE e == events[1]
<1>1. /\ events \in Seq(Event) /\ events # <<>> /\ events' = Tail(events)
      /\ salgo \in [Algos -> AlgoStatus]
  BY OwnType DEF Deliver, TypeInv, TypeOK, AccountTypeOK, StoreTypeOK, Lone, TheStop, Exits
<1>2. 1 \in DOMAIN events /\ e = Head(events)
  BY <1>1, TailEvents
<1>3. /\ spos'  = IF e.kind = "ACCOUNT_UPDATE" THEN e.pos ELSE spos
      /\ salgo' = IF e.kind = "ALGO_UPDATE"
                    THEN [salgo EXCEPT ![e.id] = e.status] ELSE salgo
  BY <1>2 DEF Deliver
<1>4. /\ \A i \in PosNews' : /\ i \in Nat /\ i >= 1 /\ i + 1 \in PosNews
                             /\ events'[i] = events[i + 1]
      /\ \A i \in PosNews : i \in Nat /\ (i # 1 => i - 1 \in PosNews' /\ events'[i - 1] = events[i])
      /\ \A i \in ExitNews(a)' : /\ i \in Nat /\ i >= 1 /\ i + 1 \in ExitNews(a)
                                       /\ events'[i] = events[i + 1]
  BY <1>1, TailEvents DEF PosNews, ExitNews, About, Buffered
<1>5. e.kind = "ACCOUNT_UPDATE" => 1 \in PosNews
  BY <1>2 DEF PosNews, Buffered
<1>6. e.kind = "ALGO_UPDATE" /\ e.id = a => 1 \in ExitNews(a)
  BY <1>2 DEF ExitNews, About, Buffered
<1> HIDE DEF e
<1>7. ASSUME NEW i \in PosNews', NEW j \in PosNews', i < j, events'[i].pos = rec.dir
      PROVE  events'[j].pos = rec.dir
  BY <1>4, <1>7 DEF StopHeard
<1>8. ASSUME spos' = rec.dir, NEW i \in PosNews' PROVE events'[i].pos = rec.dir
  <2>1. CASE e.kind = "ACCOUNT_UPDATE"
    BY <1>3, <1>4, <1>5, <1>8, <2>1 DEF StopHeard, e
  <2>2. CASE e.kind # "ACCOUNT_UPDATE"
    BY <1>3, <1>4, <1>8, <2>2 DEF StopHeard
  <2> QED
    BY <2>1, <2>2
<1>9. spos = rec.dir => spos' = rec.dir
  BY <1>3, <1>5 DEF StopHeard, e
<1>10. ASSUME salgo'[a] = "NEW" PROVE spos' = rec.dir
  <2>1. CASE e.kind = "ALGO_UPDATE" /\ e.id = a
    <3>1. e.status = "NEW"
      BY <1>1, <1>3, <1>10, <2>1
    <3>2. ~\E j \in PosNews : j < 1
      BY <1>1, TailEvents DEF PosNews, Buffered
    <3> QED
      BY <1>6, <1>9, <2>1, <3>1, <3>2 DEF StopHeard, e
  <2>2. CASE ~(e.kind = "ALGO_UPDATE" /\ e.id = a)
    <3>1. salgo'[a] = salgo[a]
      BY <1>1, <1>3, <2>2
    <3> QED
      BY <1>9, <1>10, <3>1 DEF StopHeard
  <2> QED
    BY <2>1, <2>2
<1>11. ASSUME NEW i \in ExitNews(a)', events'[i].status = "NEW"
       PROVE  spos' = rec.dir \/ \E j \in PosNews' : j < i /\ events'[j].pos = rec.dir
  <2>1. i \in Nat /\ i + 1 \in ExitNews(a) /\ events[i + 1].status = "NEW"
    BY <1>4, <1>11
  <2>2. CASE spos = rec.dir
    BY <1>9, <2>2
  <2>3. ASSUME NEW j \in PosNews, j < i + 1, events[j].pos = rec.dir
        PROVE  spos' = rec.dir \/ \E k \in PosNews' : k < i /\ events'[k].pos = rec.dir
    <3>1. CASE j = 1
      <4>1. e.kind = "ACCOUNT_UPDATE" /\ e.pos = rec.dir
        BY <2>3, <3>1 DEF PosNews, Buffered, e
      <4> QED
        BY <1>3, <4>1
    <3>2. CASE j # 1
      <4>1. j - 1 \in PosNews' /\ events'[j - 1].pos = rec.dir /\ j \in Nat
        BY <1>4, <2>3, <3>2
      <4> QED
        BY <2>1, <2>3, <4>1
    <3> QED
      BY <3>1, <3>2
  <2> QED
    BY <2>1, <2>2, <2>3 DEF StopHeard
<1> QED
  BY <1>7, <1>8, <1>10, <1>11

\* Every step keeps the stop of such a position.
LEMMA StopInvStep ==
  ASSUME TypeInv, TypeInv', PhaseInv, RowsInv, RowsInv', SideInv, ClearInv, ClearInv',
         StarterInv, StarterInv', StopInv, "expire" \notin Adversary, [Next]_vars, LinkStep
  PROVE  StopInv'
<1> USE DEF RowsInv
<1> SUFFICES ASSUME Lone', xpos' # 0 PROVE StopRests' /\ StopHeard' /\ StopNeeded'
  BY DEF StopInv
<1>1. ~(StartOpen /\ ~active)
  <2> SUFFICES ASSUME StartOpen, ~active PROVE FALSE
    OBVIOUS
  <2>1. pc' = "starter" \/ neutral'
    BY FreshCampaign DEF StartOpen, Begin, neutral, cur
  <2> QED
    BY <2>1 DEF Lone, ClearInv, Flat
<1>2. /\ Lone /\ cur > 0 /\ ~neutral /\ rec'.dir = rec.dir /\ TheStop' = TheStop
      /\ \A l \in Limits : xord'[Own(l)] # "FILLED"
  BY <1>1, LoneKept DEF Lone, NoneFilled, TheStop
<1>3. PICK a \in Algos : a = TheStop /\ a = TheStop'
  BY <1>2, OwnType DEF TheStop, Exits
<1>4. xpos \in {0, rec.dir} /\ xpos' = rec.dir /\ rec.dir # 0
  BY <1>2 DEF StarterInv
<1>5. LinkStep /\ ~Steady => UNCHANGED exchangeVars
  BY DEF LinkStep, Cut, Joins, Drains, Reconcile, Deliver, Snapshot, Attach
<1>6. xpos = rec.dir \/ (pc = "starter" /\ Ready /\ MarketFill(rec.dir) /\ Steady)
  BY <1>2, <1>4, <1>5, LonePosition DEF Steady, exchangeVars
<1>7. StopRests'
  <2>1. CASE Steady /\ xpos = rec.dir
    BY <1>2, <1>4, <2>1, StopStays DEF Steady, StopInv, StopRests
  <2>2. CASE ~Steady /\ xpos = rec.dir
    BY <1>2, <1>4, <1>5, <2>2 DEF StopInv, StopRests, exchangeVars
  <2>3. CASE pc = "starter" /\ MarketFill(rec.dir)
    BY <1>2, <2>3 DEF StarterInv, StopRests, MarketFill
  <2> QED
    BY <1>6, <2>1, <2>2, <2>3
<1>8. StopHeard'
  <2>1. CASE Steady
    <3> USE DEF StopHeard, ExitNews, About, Buffered
    <3> QED
      BY <1>2, <1>3, <1>4, <1>6, <2>1, StopFed
  <2>2. CASE Deliver
    <3>1. StopHeard
      BY <1>2, <1>4, <1>6, <2>2 DEF StopInv, MarketFill, Deliver
    <3> QED
      BY <1>2, <1>3, <2>2, <3>1, StopDelivered DEF StopHeard, ExitNews, About, Buffered
  <2>3. CASE ~Steady /\ ~Deliver
    <3>1. StopHeard
      BY <1>2, <1>4, <1>6, <2>3 DEF StopInv
    <3>2. CASE Cut
      <4>1. PosNews' = {} /\ ExitNews(a)' = {} /\ spos' = spos /\ salgo' = salgo
        BY <3>2, NoNews DEF Cut, storeVars
      <4> QED
        BY <1>2, <1>3, <3>1, <4>1 DEF StopHeard, ExitNews, About, Buffered
    <3>3. CASE Drains
      <4>1. PosNews' = {} /\ ExitNews(a)' = {} /\ xpos' = xpos
        BY <3>3, NoNews DEF Drains, Reconcile, Begin, StopRuntime, exchangeVars
      <4>2. spos' = xpos' /\ (salgo'[a] = "NEW" <=> xalgo[a] = "NEW")
        BY <1>2, <3>3, <4>1, DrainTrue
      <4> QED
        BY <1>2, <1>3, <1>4, <4>1, <4>2 DEF StopHeard, ExitNews, About, Buffered
    <3>4. CASE Joins \/ Snapshot \/ Attach
      <4>1. events' = events /\ spos' = spos /\ salgo' = salgo
        BY <3>4 DEF Joins, Snapshot, Attach, storeVars
      <4> QED
        BY <1>2, <3>1, <4>1 DEF StopHeard, PosNews, ExitNews, About, Buffered
    <3> QED
      BY <2>3, <3>2, <3>3, <3>4 DEF LinkStep
  <2> QED
    BY <2>1, <2>2, <2>3
<1>9. StopNeeded'
  <2> SUFFICES ASSUME rec'.status \in {"ACTIVE", "DEGRADED"}, ~halted'
               PROVE  xalgo'[TheStop'] # "NONE"
    BY DEF StopNeeded
  <2>1. StopNeeded
    <3>1. CASE xpos = rec.dir
      BY <1>2, <1>4, <3>1 DEF StopInv
    <3>2. CASE pc = "starter"
      BY <1>2, <3>2, StarterUnheard DEF StopNeeded
    <3> QED
      BY <1>6, <3>1, <3>2
  <2>2. xalgo[TheStop] # "NONE"
    BY <1>1, <1>2, <2>1, StopPlaced
  <2> QED
    BY <1>2, <1>3, <2>2, PlacedStays
<1> QED
  BY <1>7, <1>8, <1>9

\* A campaign that is one starter has its stop resting whenever the runtime is
\* settled, unless the exchange takes exits away: for a run's only campaign
\* whatever fails, is lost, late, crashes or reconnects, and for directional
\* campaigns after one another when answers are not lost and events are
\* processed before the cleanup's grace is over.
THEOREM StarterHasStop ==
  ASSUME "expire" \notin Adversary,
         \/ MaxCampaigns <= 1
         \/ /\ "late" \notin Adversary /\ "lost" \notin Adversary
            /\ NEUTRAL_GRID \notin PlanModes
  PROVE  Spec => []StarterKeepsStop
<1>1. Init => StarterInv /\ StopInv
  BY DEF Init, ExchangeInit, StarterInv, StopInv, Lone, cur
<1>2. TypeInv /\ TypeInv' /\ GateInv /\ SessionInv /\ PhaseInv /\ RowsInv /\ RowsInv' /\ SideInv
        /\ ClearInv /\ ClearInv' /\ StarterInv /\ StopInv /\ [Next]_vars
        => StarterInv' /\ StopInv'
  <2> SUFFICES ASSUME TypeInv, TypeInv', GateInv, SessionInv, PhaseInv, RowsInv, RowsInv', SideInv,
                      ClearInv, ClearInv', StarterInv, StopInv, [Next]_vars
               PROVE  StarterInv' /\ StopInv'
    OBVIOUS
  <2>1. LinkStep
    BY LinkSteps DEF RowsInv
  <2>2. StarterInv'
    BY <2>1, StarterInvStep
  <2> QED
    BY <2>1, <2>2, StopInvStep
<1>3. TypeInv /\ RowsInv /\ ClearInv /\ StopInv => StarterKeepsStop
  <2> SUFFICES ASSUME TypeInv, RowsInv, ClearInv, StopInv, Settled, active, xpos # 0,
                      \A l \in Limits : xord[Own(l)] # "FILLED"
               PROVE  "STOP" \in OpenExits(cur)
    BY DEF StarterKeepsStop
  <2>1. cur > 0 /\ ~neutral
    BY DEF TypeInv, Numbered, active, ActiveStatus, ClearInv, NoneFilled
  <2>2. Lone
    BY <2>1 DEF Lone, NoneFilled
  <2>3. rec.status # "OPENING"
    BY DEF RowsInv, OpeningInv, Settled
  <2>4. rec.status \in {"ACTIVE", "DEGRADED"} /\ ~halted
    BY <2>3 DEF active, ActiveStatus, Settled
  <2>5. xalgo[TheStop] = "NEW"
    BY <2>2, <2>4 DEF StopInv, StopRests, StopNeeded
  <2> QED
    BY <2>5 DEF OpenExits, TheStop, Own, Exits
<1> QED
  BY <1>1, <1>2, <1>3, TypeInvariant, GateInvariant, SessionInvariant, PhaseInvariant,
     RowsInvariant, SideInvariant, ClearInvariant, PTL DEF Spec
=============================================================================
