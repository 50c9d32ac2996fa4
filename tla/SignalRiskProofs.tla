--------------------------- MODULE SignalRiskProofs ---------------------------
(***************************************************************************)
(* Theorems about the path from market events to open tasks, for any       *)
(* symbols, setups, caps, deployments and clocks.                          *)
(***************************************************************************)
EXTENDS SignalRisk, FiniteSetTheorems, SequenceTheorems, WellFoundedInduction, TLAPS

\* Callback i of queue q opens s.
IsTask(q, i, s) == i \in DOMAIN q /\ q[i].kind = "open" /\ q[i].symbol = s

\* OneTaskPerSymbol, symbol by symbol.
Tasks ==
  /\ \A s \in Symbols : s \in opening <=> \E i \in DOMAIN queue : IsTask(queue, i, s)
  /\ \A i, j \in DOMAIN queue, s \in Symbols :
       IsTask(queue, i, s) /\ IsTask(queue, j, s) => i = j
  /\ \A s \in opening : ~camp[s].active

\* What keeps the event times of two plans apart.
Stamps ==
  /\ 1 <= clock
  /\ \A s \in Symbols : eventTime[s] <= clock + Skew
  /\ \A s \in Symbols, setup \in Setups : lastEmit[<<s, setup>>] <= clock
  /\ \A i \in DOMAIN planned :
       LET last == lastEmit[<<planned[i].symbol, planned[i].setup>>]
       IN  last # 0 /\ planned[i].event <= last + Skew

-----------------------------------------------------------------------------
(* Callbacks and the queue. *)

LEMMA CallbackFacts ==
  ASSUME NEW c \in Callback
  PROVE  /\ c.symbol \in Symbols
         /\ c.kind \in {"market", "open"}
         /\ c.kind = "open" => c \in OpenTasks
BY DEF Callback, OpenTasks

LEMMA TaskForm ==
  ASSUME RiskTypeOK
  PROVE  OneTaskPerSymbol <=> Tasks
<1>1. \A i \in DOMAIN queue : queue[i] \in Callback
  BY LenProperties, ElementOfSeq DEF RiskTypeOK
<1>2. \A i \in DOMAIN queue : queue[i].symbol \in Symbols
  BY <1>1, CallbackFacts
<1>3. opening \subseteq Symbols
  BY DEF RiskTypeOK
<1> QED
  BY <1>2, <1>3 DEF OneTaskPerSymbol, Tasks, IsTask

\* A callback that is appended is the last one; the others stay.
LEMMA Appended ==
  ASSUME NEW q \in Seq(Callback), NEW c \in Callback
  PROVE  /\ Append(q, c) \in Seq(Callback)
         /\ DOMAIN Append(q, c) = 1 .. Len(q) + 1
         /\ DOMAIN q = 1 .. Len(q) /\ Len(q) \in Nat
         /\ \A i \in DOMAIN q : Append(q, c)[i] = q[i]
         /\ Append(q, c)[Len(q) + 1] = c
<1>1. Append(q, c) \in Seq(Callback) /\ Len(Append(q, c)) = Len(q) + 1
  BY AppendProperties
<1>2. DOMAIN Append(q, c) = 1 .. Len(Append(q, c)) /\ DOMAIN q = 1 .. Len(q) /\ Len(q) \in Nat
  BY <1>1, LenProperties
<1> QED
  BY <1>1, <1>2, AppendProperties

\* A callback that is taken was the first one; the others move up.
LEMMA Taken ==
  ASSUME NEW q \in Seq(Callback), q # <<>>
  PROVE  /\ Tail(q) \in Seq(Callback)
         /\ DOMAIN q = 1 .. Len(q) /\ Len(q) \in Nat \ {0}
         /\ DOMAIN Tail(q) = 1 .. Len(q) - 1
         /\ Head(q) = q[1] /\ Head(q) \in Callback
         /\ \A i \in DOMAIN Tail(q) : Tail(q)[i] = q[i + 1]
<1>1. Tail(q) \in Seq(Callback) /\ Len(Tail(q)) = Len(q) - 1 /\ Head(q) \in Callback
  BY HeadTailProperties
<1>2. DOMAIN Tail(q) = 1 .. Len(Tail(q)) /\ DOMAIN q = 1 .. Len(q) /\ Len(q) \in Nat
  BY <1>1, LenProperties
<1>3. Len(q) # 0
  BY EmptySeq
<1>4. \A i \in DOMAIN Tail(q) : Tail(q)[i] = q[i + 1]
  BY <1>1, <1>2, HeadTailProperties
<1> QED
  BY <1>1, <1>2, <1>3, <1>4

\* What scheduling a task, and only that, does.
Scheduled(s, setup, n) ==
  /\ s \in Symbols /\ setup \in Setups /\ n \in Nat \ {0}
  /\ s \notin opening /\ ~camp[s].active
  /\ Cardinality(Known) < deployment.maxPositions
  /\ n <= Room
  /\ Schedule(s, setup, n)
  /\ Fresh(s) /\ ~Debounced(<<s, setup>>)
  /\ lastEmit' = [lastEmit EXCEPT ![<<s, setup>>] = clock]

\* A market event passes, spends a debounce, or schedules a task.
LEMMA MarketEventFacts ==
  ASSUME RiskTypeOK, ProcessMarketEvent
  PROVE  /\ queue # <<>> /\ queue[1] \in Callback /\ queue[1].kind = "market"
         /\ UNCHANGED <<deployment, clock, eventTime, camp, pos, spos>>
         /\ lastEval' \in [Symbols -> Nat]
         /\ \/ /\ queue' = Tail(queue)
               /\ UNCHANGED <<opening, planned, unseen>>
               /\ \/ lastEmit' = lastEmit
                  \/ \E s \in Symbols, setup \in Setups :
                       lastEmit' = [lastEmit EXCEPT ![<<s, setup>>] = clock]
            \/ \E s \in Symbols, setup \in Setups, n \in Nat \ {0} : Scheduled(s, setup, n)
<1> DEFINE s == Head(queue).symbol
<1>1. queue # <<>> /\ Head(queue) = queue[1] /\ queue[1] \in Callback /\ queue[1].kind = "market"
  BY Taken DEF RiskTypeOK, ProcessMarketEvent
<1>2. s \in Symbols
  BY <1>1, CallbackFacts
<1>3. UNCHANGED <<deployment, clock, eventTime, camp, pos, spos>>
  BY DEF ProcessMarketEvent, marketVars, accountVars
<1>4. lastEval' \in [Symbols -> Nat]
  BY <1>2 DEF ProcessMarketEvent, Evaluate, Ignore, RiskTypeOK
<1>5. CASE Pass
  BY <1>1, <1>3, <1>4, <1>5 DEF Pass
<1>6. CASE ~Pass
  <2>1. PICK setup \in deployment.setups, scaled \in Scaled : Fresh(s) /\ Emit(s, setup, scaled)
    BY <1>6 DEF ProcessMarketEvent, Evaluate, Ignore
  <2>2. setup \in Setups
    BY SignalRiskAssumption DEF RiskTypeOK
  <2>3. CASE queue' = Tail(queue) /\ UNCHANGED <<opening, planned, unseen>>
    BY <1>1, <1>2, <1>3, <1>4, <2>1, <2>2, <2>3 DEF Emit
  <2>4. CASE ~Busy(s) /\ Schedule(s, setup, Size(scaled))
    <3>1. Size(scaled) \in Nat \ {0} /\ Size(scaled) <= Room
      BY <2>1, SignalRiskAssumption DEF Emit, Approved, Size, Lesser
    <3>2. Scheduled(s, setup, Size(scaled))
      BY <1>2, <2>1, <2>2, <2>4, <3>1 DEF Scheduled, Emit, Approved, Busy
    <3> QED
      BY <1>1, <1>2, <1>3, <1>4, <2>2, <3>1, <3>2
  <2> QED
    BY <2>1, <2>3, <2>4 DEF Emit
<1> QED
  BY <1>5, <1>6

\* An open task is taken, and its campaign opened or not.
LEMMA OpenFacts ==
  ASSUME RiskTypeOK, OpenTestnet
  PROVE  /\ queue # <<>> /\ queue[1] \in OpenTasks /\ queue' = Tail(queue)
         /\ opening' = opening \ {queue[1].symbol}
         /\ \A s \in Symbols : s # queue[1].symbol => camp'[s] = camp[s] /\ pos'[s] = pos[s]
         /\ camp' \in [Symbols -> Campaign] /\ pos' \in [Symbols -> Nat]
         /\ \/ camp' = camp /\ pos' = pos
            \/ camp'[queue[1].symbol].active
         /\ UNCHANGED <<deployment, clock, eventTime, lastEval, lastEmit, spos, planned, unseen>>
<1> DEFINE t == queue[1]
<1>1. queue # <<>> /\ Head(queue) = t /\ t \in Callback /\ t.kind = "open"
  BY Taken DEF RiskTypeOK, OpenTestnet
<1>2. t \in OpenTasks
  BY <1>1, CallbackFacts
<1>3. t.symbol \in Symbols /\ t.size \in Nat \ {0} /\ t.neutral \in BOOLEAN
  BY <1>2 DEF OpenTasks
<1>4. queue' = Tail(queue) /\ opening' = opening \ {t.symbol}
  BY <1>1 DEF OpenTestnet, Freed
<1>5. UNCHANGED <<deployment, clock, eventTime, lastEval, lastEmit, spos, planned, unseen>>
  BY DEF OpenTestnet, marketVars, scannerVars
<1>6. CASE Opened(t)
  <2> DEFINE c == [active |-> TRUE, armed |-> t.neutral,
                   rest |-> IF t.neutral THEN t.size \div 2 ELSE t.size - 1]
  <2>1. t.size \div 2 \in Nat /\ t.size - 1 \in Nat
    BY <1>3
  <2>2. c \in Campaign /\ c.active
    BY <1>3, <2>1 DEF Campaign
  <2>3. camp' = [camp EXCEPT ![t.symbol] = c]
    BY <1>6 DEF Opened
  <2>4. camp' \in [Symbols -> Campaign] /\ camp'[t.symbol].active
    BY <1>3, <2>2, <2>3 DEF RiskTypeOK
  <2>5. pos' \in [Symbols -> Nat]
    BY <1>3, <1>6 DEF Opened, RiskTypeOK
  <2>6. \A s \in Symbols : s # t.symbol => camp'[s] = camp[s] /\ pos'[s] = pos[s]
    BY <1>3, <1>6, <2>3 DEF Opened, RiskTypeOK
  <2> QED
    BY <1>1, <1>2, <1>4, <1>5, <2>4, <2>5, <2>6
<1>7. CASE NotOpened
  BY <1>1, <1>2, <1>4, <1>5, <1>7 DEF NotOpened, RiskTypeOK
<1> QED
  BY <1>1, <1>6, <1>7 DEF OpenTestnet

-----------------------------------------------------------------------------
(* Types. *)

LEMMA TypesInit == Init => RiskTypeOK
BY EmptySeq, SignalRiskAssumption DEF Init, RiskTypeOK, NoCampaign, Campaign

LEMMA ScheduledTypes ==
  ASSUME RiskTypeOK, queue # <<>>,
         NEW s, NEW setup, NEW n, Scheduled(s, setup, n)
  PROVE  /\ queue' \in Seq(Callback) /\ opening' \subseteq Symbols
         /\ lastEmit' \in [Symbols \X Setups -> Nat]
         /\ planned' \in Seq(CampaignId) /\ unseen' \in Nat
<1>1. s \in Symbols /\ setup \in Setups /\ n \in Nat \ {0}
  BY DEF Scheduled
<1>2. Open(s, n, setup \in NeutralSetups) \in Callback
  BY <1>1 DEF Open, Callback, OpenTasks
<1>3. Tail(queue) \in Seq(Callback)
  BY Taken DEF RiskTypeOK
<1>4. queue' \in Seq(Callback)
  BY <1>2, <1>3, AppendProperties DEF Scheduled, Schedule
<1>5. [symbol |-> s, setup |-> setup, event |-> eventTime[s]] \in CampaignId
  BY <1>1 DEF CampaignId, RiskTypeOK
<1>6. planned' \in Seq(CampaignId)
  BY <1>5, AppendProperties DEF Scheduled, Schedule, RiskTypeOK
<1>7. lastEmit' \in [Symbols \X Setups -> Nat]
  BY <1>1 DEF Scheduled, RiskTypeOK
<1>8. opening' \subseteq Symbols
  BY <1>1 DEF Scheduled, Schedule, RiskTypeOK
<1>9. Unseen \in SUBSET Symbols
  BY DEF Unseen, Committed, RiskTypeOK
<1>10. unseen' \in Nat
  BY <1>9, SignalRiskAssumption, FS_Subset, FS_CardinalityType DEF Scheduled, Schedule
<1> QED
  BY <1>4, <1>6, <1>7, <1>8, <1>10

LEMMA TypesStep ==
  ASSUME RiskTypeOK, [Next]_vars
  PROVE  RiskTypeOK'
<1>1. CASE Tick
  BY <1>1 DEF RiskTypeOK, Tick, scannerVars, accountVars
<1>2. ASSUME NEW s \in Symbols, Message(s)
      PROVE  RiskTypeOK'
  <2>1. Market(s) \in Callback
    BY DEF Market, Callback
  <2>2. queue' \in Seq(Callback)
    BY <1>2, <2>1, AppendProperties DEF Message, RiskTypeOK
  <2>3. eventTime' \in [Symbols -> Nat]
    <3>1. PICK e \in 1 .. MaxTime + Skew : eventTime' = [eventTime EXCEPT ![s] = Greater(@, e)]
      BY <1>2 DEF Message
    <3>2. e \in Nat
      BY <3>1, SignalRiskAssumption
    <3> QED
      BY <3>1, <3>2 DEF Greater, RiskTypeOK
  <2> QED
    BY <1>2, <2>2, <2>3 DEF RiskTypeOK, Message, scannerVars, accountVars
<1>3. CASE ProcessMarketEvent
  <2>1. Tail(queue) \in Seq(Callback)
    BY <1>3, MarketEventFacts, Taken DEF RiskTypeOK
  <2>2. CASE queue' = Tail(queue) /\ UNCHANGED <<opening, planned, unseen>> /\ lastEmit' = lastEmit
    BY <1>3, <2>1, <2>2, MarketEventFacts DEF RiskTypeOK
  <2>3. ASSUME queue' = Tail(queue), UNCHANGED <<opening, planned, unseen>>,
               NEW s \in Symbols, NEW setup \in Setups,
               lastEmit' = [lastEmit EXCEPT ![<<s, setup>>] = clock]
        PROVE  RiskTypeOK'
    BY <1>3, <2>1, <2>3, MarketEventFacts DEF RiskTypeOK
  <2>4. ASSUME NEW s \in Symbols, NEW setup \in Setups, NEW n \in Nat \ {0}, Scheduled(s, setup, n)
        PROVE  RiskTypeOK'
    BY <1>3, <2>4, MarketEventFacts, ScheduledTypes DEF RiskTypeOK
  <2> QED
    BY <1>3, <2>2, <2>3, <2>4, MarketEventFacts
<1>4. CASE OpenTestnet
  <2>1. queue' \in Seq(Callback) /\ opening' \subseteq Symbols
    BY <1>4, OpenFacts, Taken DEF RiskTypeOK
  <2> QED
    BY <1>4, <2>1, OpenFacts DEF RiskTypeOK
<1>5. ASSUME NEW s \in Symbols, Fill(s)
      PROVE  RiskTypeOK'
  <2>1. camp[s] \in Campaign /\ camp[s].rest - 1 \in Nat
    BY <1>5 DEF Fill, RiskTypeOK, Campaign
  <2>2. camp' \in [Symbols -> Campaign]
    BY <1>5, <2>1 DEF Fill, RiskTypeOK, Campaign
  <2>3. pos' \in [Symbols -> Nat]
    BY <1>5 DEF Fill, RiskTypeOK
  <2> QED
    BY <1>5, <2>2, <2>3 DEF RiskTypeOK, Fill, marketVars, scannerVars
<1>6. ASSUME NEW s \in Symbols, Exit(s)
      PROVE  RiskTypeOK'
  BY <1>6 DEF RiskTypeOK, Exit, marketVars, scannerVars
<1>7. ASSUME NEW s \in Symbols, Deliver(s)
      PROVE  RiskTypeOK'
  BY <1>7 DEF RiskTypeOK, Deliver, Campaign, marketVars, scannerVars
<1>8. ASSUME NEW s \in Symbols, Cleanup(s)
      PROVE  RiskTypeOK'
  BY <1>8 DEF RiskTypeOK, Cleanup, NoCampaign, Campaign, marketVars, scannerVars, accountVars
<1>9. CASE UNCHANGED vars
  BY <1>9 DEF RiskTypeOK, vars, marketVars, scannerVars, accountVars
<1> QED
  BY <1>1, <1>2, <1>3, <1>4, <1>5, <1>6, <1>7, <1>8, <1>9 DEF Next, LoopStep

\* Every variable keeps its type, for any symbols, caps and clocks.
THEOREM RiskTypes == Spec => []RiskTypeOK
<1> QED
  BY TypesInit, TypesStep, PTL DEF Spec

-----------------------------------------------------------------------------
(* One task per symbol. *)

LEMMA TasksInit == Init => Tasks
BY EmptySeq DEF Init, Tasks, IsTask, NoCampaign

\* A campaign only becomes active in its open task.
LEMMA OthersKeepTasks ==
  ASSUME RiskTypeOK, Tasks, UNCHANGED <<queue, opening>>,
         \A s \in Symbols : camp'[s].active => camp[s].active
  PROVE  Tasks'
BY DEF Tasks, IsTask, RiskTypeOK

LEMMA TasksTaken ==
  ASSUME RiskTypeOK, Tasks, queue # <<>>, queue[1].kind = "market",
         queue' = Tail(queue), UNCHANGED <<opening, camp>>
  PROVE  Tasks'
<1>1. /\ DOMAIN queue = 1 .. Len(queue) /\ Len(queue) \in Nat \ {0}
      /\ DOMAIN queue' = 1 .. Len(queue) - 1
      /\ \A i \in DOMAIN queue' : queue'[i] = queue[i + 1]
  BY Taken DEF RiskTypeOK
<1>2. \A i \in DOMAIN queue' : i + 1 \in DOMAIN queue
  BY <1>1
<1>3. \A i \in DOMAIN queue' : i \in Nat
  BY <1>1
<1>4. \A s \in Symbols, i \in DOMAIN queue' : IsTask(queue', i, s) <=> IsTask(queue, i + 1, s)
  BY <1>1, <1>2 DEF IsTask
<1>5. \A s \in Symbols, j \in DOMAIN queue :
        IsTask(queue, j, s) => j - 1 \in DOMAIN queue' /\ IsTask(queue', j - 1, s)
  <2> SUFFICES ASSUME NEW s \in Symbols, NEW j \in DOMAIN queue, IsTask(queue, j, s)
               PROVE  j - 1 \in DOMAIN queue' /\ IsTask(queue', j - 1, s)
    OBVIOUS
  <2>1. j \in 1 .. Len(queue) /\ j # 1
    BY <1>1 DEF IsTask
  <2>2. j - 1 \in DOMAIN queue' /\ (j - 1) + 1 = j
    BY <1>1, <2>1
  <2> QED
    BY <1>4, <2>2
<1>6. \A s \in Symbols : (\E i \in DOMAIN queue' : IsTask(queue', i, s))
                           <=> \E i \in DOMAIN queue : IsTask(queue, i, s)
  BY <1>2, <1>4, <1>5
<1>7. \A i, j \in DOMAIN queue', s \in Symbols :
        IsTask(queue', i, s) /\ IsTask(queue', j, s) => i = j
  <2> SUFFICES ASSUME NEW i \in DOMAIN queue', NEW j \in DOMAIN queue', NEW s \in Symbols,
                      IsTask(queue', i, s), IsTask(queue', j, s)
               PROVE  i = j
    OBVIOUS
  <2>1. i + 1 = j + 1
    BY <1>2, <1>4 DEF Tasks
  <2> QED
    BY <1>3, <2>1
<1> QED
  BY <1>6, <1>7 DEF Tasks

LEMMA TasksAppended ==
  ASSUME RiskTypeOK, Tasks, NEW s \in Symbols, queue' = Append(queue, Market(s)),
         UNCHANGED <<opening, camp>>
  PROVE  Tasks'
<1>1. Market(s) \in Callback /\ Market(s).kind = "market"
  BY DEF Market, Callback
<1>2. \A u \in Symbols : \A i : IsTask(queue', i, u) <=> IsTask(queue, i, u)
  <2>1. /\ DOMAIN queue' = 1 .. Len(queue) + 1
        /\ DOMAIN queue = 1 .. Len(queue) /\ Len(queue) \in Nat
        /\ \A i \in DOMAIN queue : queue'[i] = queue[i]
        /\ queue'[Len(queue) + 1].kind = "market"
    BY <1>1, Appended DEF RiskTypeOK
  <2>2. \A i \in DOMAIN queue' : i \in DOMAIN queue \/ i = Len(queue) + 1
    BY <2>1
  <2>3. DOMAIN queue \subseteq DOMAIN queue'
    BY <2>1
  <2> QED
    BY <2>1, <2>2, <2>3 DEF IsTask
<1> QED
  BY <1>2 DEF Tasks, IsTask

LEMMA TasksScheduled ==
  ASSUME RiskTypeOK, Tasks, queue # <<>>, queue[1].kind = "market",
         NEW s, NEW setup, NEW n, Scheduled(s, setup, n), UNCHANGED camp
  PROVE  Tasks'
<1> DEFINE q == Tail(queue)
           c == Open(s, n, setup \in NeutralSetups)
<1>1. s \in Symbols /\ n \in Nat \ {0} /\ s \notin opening /\ ~camp[s].active
  BY DEF Scheduled
<1>2. c \in Callback /\ c.kind = "open" /\ c.symbol = s
  BY <1>1 DEF Open, Callback, OpenTasks
<1>3. q \in Seq(Callback)
  BY Taken DEF RiskTypeOK
<1>4. /\ queue' = Append(q, c) /\ opening' = opening \cup {s}
  BY DEF Scheduled, Schedule
<1>5. /\ DOMAIN queue' = 1 .. Len(q) + 1
      /\ DOMAIN q = 1 .. Len(q) /\ Len(q) \in Nat
      /\ \A i \in DOMAIN q : queue'[i] = q[i]
      /\ queue'[Len(q) + 1] = c
  BY <1>2, <1>3, <1>4, Appended
<1>6. /\ DOMAIN queue = 1 .. Len(queue) /\ Len(queue) \in Nat \ {0}
      /\ DOMAIN q = 1 .. Len(queue) - 1
      /\ \A i \in DOMAIN q : q[i] = queue[i + 1]
  BY Taken DEF RiskTypeOK
<1>7. \A i : i \in DOMAIN queue' <=> i \in DOMAIN q \/ i = Len(q) + 1
  BY <1>5
<1>8. \A u \in Symbols, i \in DOMAIN q : IsTask(queue', i, u) <=> IsTask(queue, i + 1, u)
  BY <1>5, <1>6, <1>7 DEF IsTask
<1>9. \A u \in Symbols : IsTask(queue', Len(q) + 1, u) <=> u = s
  BY <1>2, <1>5, <1>7 DEF IsTask
<1>10. \A i \in DOMAIN queue : i = 1 \/ (i - 1 \in DOMAIN q /\ i = (i - 1) + 1)
  BY <1>6
<1>11. \A u \in Symbols : ~IsTask(queue, 1, u)
  BY DEF IsTask
<1>12. \A i \in DOMAIN queue : ~IsTask(queue, i, s)
  BY <1>1 DEF Tasks
<1>13. \A u \in Symbols : u \in opening' <=> \E i \in DOMAIN queue' : IsTask(queue', i, u)
  <2> SUFFICES ASSUME NEW u \in Symbols
               PROVE  u \in opening' <=> \E i \in DOMAIN queue' : IsTask(queue', i, u)
    OBVIOUS
  <2>1. CASE u = s
    BY <1>4, <1>7, <1>9, <2>1
  <2>2. CASE u # s
    <3>1. u \in opening' <=> \E i \in DOMAIN queue : IsTask(queue, i, u)
      BY <1>4, <2>2 DEF Tasks
    <3>2. ASSUME NEW i \in DOMAIN queue, IsTask(queue, i, u)
          PROVE  i - 1 \in DOMAIN queue' /\ IsTask(queue', i - 1, u)
      BY <1>7, <1>8, <1>10, <1>11, <3>2
    <3>3. ASSUME NEW i \in DOMAIN queue', IsTask(queue', i, u)
          PROVE  i + 1 \in DOMAIN queue /\ IsTask(queue, i + 1, u)
      <4>1. i \in DOMAIN q
        BY <1>7, <1>9, <2>2, <3>3
      <4> QED
        BY <1>6, <1>8, <3>3, <4>1
    <3> QED
      BY <3>1, <3>2, <3>3
  <2> QED
    BY <2>1, <2>2
<1>14. \A i, j \in DOMAIN queue', u \in Symbols :
         IsTask(queue', i, u) /\ IsTask(queue', j, u) => i = j
  <2> SUFFICES ASSUME NEW i \in DOMAIN queue', NEW j \in DOMAIN queue', NEW u \in Symbols,
                      IsTask(queue', i, u), IsTask(queue', j, u)
               PROVE  i = j
    OBVIOUS
  <2>1. CASE i \in DOMAIN q /\ j \in DOMAIN q
    <3>1. i + 1 \in DOMAIN queue /\ j + 1 \in DOMAIN queue /\ i \in Nat /\ j \in Nat
      BY <1>6, <2>1
    <3>2. i + 1 = j + 1
      BY <1>8, <2>1, <3>1 DEF Tasks
    <3> QED
      BY <3>1, <3>2
  <2>2. \A k \in DOMAIN q : ~IsTask(queue', k, s)
    <3>1. \A k \in DOMAIN q : k + 1 \in DOMAIN queue
      BY <1>6
    <3> QED
      BY <1>1, <1>8, <1>12, <3>1
  <2>3. CASE i = Len(q) + 1 \/ j = Len(q) + 1
    BY <1>7, <1>9, <2>2, <2>3
  <2> QED
    BY <1>7, <2>1, <2>3
<1>15. \A u \in opening' : ~camp'[u].active
  BY <1>1, <1>4 DEF Tasks
<1> QED
  BY <1>13, <1>14, <1>15 DEF Tasks

LEMMA TasksOpened ==
  ASSUME RiskTypeOK, Tasks, OpenTestnet
  PROVE  Tasks'
<1> DEFINE s == queue[1].symbol
<1>1. /\ queue # <<>> /\ queue' = Tail(queue) /\ queue[1].kind = "open" /\ s \in Symbols
      /\ opening' = opening \ {s}
      /\ \A u \in Symbols : u # s => camp'[u] = camp[u]
  BY OpenFacts DEF OpenTasks
<1>2. /\ DOMAIN queue = 1 .. Len(queue) /\ Len(queue) \in Nat \ {0}
      /\ DOMAIN queue' = 1 .. Len(queue) - 1
      /\ \A i \in DOMAIN queue' : queue'[i] = queue[i + 1]
  BY <1>1, Taken DEF RiskTypeOK
<1>3. IsTask(queue, 1, s) /\ 1 \in DOMAIN queue
  BY <1>1, <1>2 DEF IsTask
<1>4. \A i \in DOMAIN queue' : i + 1 \in DOMAIN queue /\ i + 1 # 1 /\ i \in Nat
  BY <1>2
<1>5. \A u \in Symbols, i \in DOMAIN queue' : IsTask(queue', i, u) <=> IsTask(queue, i + 1, u)
  BY <1>2, <1>4 DEF IsTask
<1>6. \A i \in DOMAIN queue' : ~IsTask(queue', i, s)
  BY <1>1, <1>3, <1>4, <1>5 DEF Tasks
<1>7. \A u \in Symbols : u \in opening' <=> \E i \in DOMAIN queue' : IsTask(queue', i, u)
  <2> SUFFICES ASSUME NEW u \in Symbols
               PROVE  u \in opening' <=> \E i \in DOMAIN queue' : IsTask(queue', i, u)
    OBVIOUS
  <2>1. CASE u = s
    BY <1>1, <1>6, <2>1
  <2>2. CASE u # s
    <3>1. ASSUME NEW i \in DOMAIN queue, IsTask(queue, i, u)
          PROVE  i - 1 \in DOMAIN queue' /\ IsTask(queue', i - 1, u)
      <4>1. i # 1
        BY <2>2, <3>1 DEF IsTask
      <4>2. i - 1 \in DOMAIN queue' /\ (i - 1) + 1 = i
        BY <1>2, <4>1
      <4> QED
        BY <1>5, <3>1, <4>2
    <3> QED
      BY <1>1, <1>4, <1>5, <2>2, <3>1 DEF Tasks
  <2> QED
    BY <2>1, <2>2
<1>8. \A i, j \in DOMAIN queue', u \in Symbols :
        IsTask(queue', i, u) /\ IsTask(queue', j, u) => i = j
  <2> SUFFICES ASSUME NEW i \in DOMAIN queue', NEW j \in DOMAIN queue', NEW u \in Symbols,
                      IsTask(queue', i, u), IsTask(queue', j, u)
               PROVE  i = j
    OBVIOUS
  <2>1. i + 1 = j + 1
    BY <1>4, <1>5 DEF Tasks
  <2> QED
    BY <1>4, <2>1
<1>9. \A u \in opening' : ~camp'[u].active
  BY <1>1 DEF Tasks, RiskTypeOK
<1> QED
  BY <1>7, <1>8, <1>9 DEF Tasks

\* Fills, exits, events and cleanups commit no symbol that was not.
LEMMA AccountFacts ==
  ASSUME RiskTypeOK, NEW s \in Symbols, Fill(s) \/ Exit(s) \/ Deliver(s) \/ Cleanup(s)
  PROVE  /\ \A u \in Symbols : camp'[u].active => camp[u].active
         /\ \A u \in Symbols : pos'[u] # 0 => camp[u].active \/ pos[u] # 0
<1> DEFINE c == camp[s]
<1>0. c \in Campaign /\ camp \in [Symbols -> Campaign] /\ pos \in [Symbols -> Nat]
  BY DEF RiskTypeOK
<1>1. CASE Fill(s)
  <2>1. camp' = [camp EXCEPT ![s] = [c EXCEPT !.rest = @ - 1]] /\ c.active
    BY <1>1 DEF Fill
  <2>2. [c EXCEPT !.rest = @ - 1].active = c.active
    BY <1>0 DEF Campaign
  <2>3. \A u \in Symbols : camp'[u].active => camp[u].active
    BY <1>0, <2>1, <2>2
  <2>4. \A u \in Symbols : u # s => pos'[u] = pos[u]
    BY <1>0, <1>1 DEF Fill
  <2> QED
    BY <2>1, <2>3, <2>4
<1>2. CASE Exit(s)
  BY <1>0, <1>2 DEF Exit
<1>3. CASE Deliver(s)
  <2>1. camp' = [camp EXCEPT ![s] = [c EXCEPT !.armed = @ /\ pos[s] = 0]] /\ pos' = pos
    BY <1>3 DEF Deliver
  <2>2. [c EXCEPT !.armed = @ /\ pos[s] = 0].active = c.active
    BY <1>0 DEF Campaign
  <2> QED
    BY <1>0, <2>1, <2>2
<1>4. CASE Cleanup(s)
  BY <1>0, <1>4 DEF Cleanup, NoCampaign, accountVars
<1> QED
  BY <1>1, <1>2, <1>3, <1>4

LEMMA TasksStep ==
  ASSUME RiskTypeOK, Tasks, [Next]_vars
  PROVE  Tasks'
<1>1. CASE Tick
  BY <1>1, OthersKeepTasks DEF Tick
<1>2. ASSUME NEW s \in Symbols, Message(s)
      PROVE  Tasks'
  BY <1>2, TasksAppended DEF Message
<1>3. CASE ProcessMarketEvent
  <2>1. CASE queue' = Tail(queue) /\ UNCHANGED opening
    BY <1>3, <2>1, MarketEventFacts, TasksTaken
  <2>2. ASSUME NEW s \in Symbols, NEW setup \in Setups, NEW n \in Nat \ {0}, Scheduled(s, setup, n)
        PROVE  Tasks'
    BY <1>3, <2>2, MarketEventFacts, TasksScheduled
  <2> QED
    BY <1>3, <2>1, <2>2, MarketEventFacts
<1>4. CASE OpenTestnet
  BY <1>4, TasksOpened
<1>5. ASSUME NEW s \in Symbols, Fill(s) \/ Exit(s) \/ Deliver(s) \/ Cleanup(s)
      PROVE  Tasks'
  <2>1. UNCHANGED <<queue, opening>>
    BY <1>5 DEF Fill, Exit, Deliver, Cleanup
  <2>2. \A u \in Symbols : camp'[u].active => camp[u].active
    BY <1>5, AccountFacts
  <2> QED
    BY <2>1, <2>2, OthersKeepTasks
<1>6. CASE UNCHANGED vars
  BY <1>6, OthersKeepTasks DEF vars
<1> QED
  BY <1>1, <1>2, <1>3, <1>4, <1>5, <1>6 DEF Next, LoopStep

\* However callbacks, tasks and campaigns interleave, a symbol has one task at
\* most, over no campaign, and _opening_symbols says which symbols have one.
THEOREM OneTask == Spec => []OneTaskPerSymbol
<1>1. Init => RiskTypeOK /\ Tasks
  BY TypesInit, TasksInit
<1>2. RiskTypeOK /\ Tasks /\ [Next]_vars => RiskTypeOK' /\ Tasks'
  BY TypesStep, TasksStep
<1>3. RiskTypeOK /\ Tasks => OneTaskPerSymbol
  BY TaskForm
<1> QED
  BY <1>1, <1>2, <1>3, PTL DEF Spec

-----------------------------------------------------------------------------
(* The cap on positions. *)

LEMMA CommittedFinite ==
  ASSUME RiskTypeOK
  PROVE  /\ IsFiniteSet(Committed) /\ Cardinality(Committed) \in Nat
         /\ IsFiniteSet(Known) /\ Cardinality(Known) \in Nat
         /\ IsFiniteSet(Unseen) /\ Cardinality(Unseen) \in Nat
         /\ Cardinality(Committed) <= Cardinality(Known) + Cardinality(Unseen)
<1>1. Committed \in SUBSET Symbols /\ Known \in SUBSET Symbols /\ Unseen \in SUBSET Symbols
  BY DEF Committed, Known, Unseen, RiskTypeOK
<1>2. IsFiniteSet(Committed) /\ IsFiniteSet(Known) /\ IsFiniteSet(Unseen)
  BY <1>1, SignalRiskAssumption, FS_Subset
<1>3. /\ Cardinality(Committed) \in Nat
      /\ Cardinality(Known) \in Nat
      /\ Cardinality(Unseen) \in Nat
  BY <1>2, FS_CardinalityType
<1>4. IsFiniteSet(Committed \cap Known)
      /\ Cardinality(Committed \cap Known) \in Nat
      /\ Cardinality(Committed \cap Known) <= Cardinality(Known)
  <2>1. Committed \cap Known \in SUBSET Known
    OBVIOUS
  <2> QED
    BY <1>2, <2>1, FS_Subset, FS_CardinalityType
<1>5. Cardinality(Unseen) = Cardinality(Committed) - Cardinality(Committed \cap Known)
  BY <1>2, FS_Difference DEF Unseen
<1> QED
  BY <1>2, <1>3, <1>4, <1>5

LEMMA PositionsInit == Init => PositionsCapped
<1> SUFFICES ASSUME Init
             PROVE  PositionsCapped
  OBVIOUS
<1>1. Committed = {}
  BY DEF Init, Committed, NoCampaign
<1>2. deployment.maxPositions \in Nat /\ unseen = 0
  BY SignalRiskAssumption DEF Init
<1> QED
  BY <1>1, <1>2, FS_EmptySet DEF PositionsCapped

\* Nothing but an approval commits a symbol.
LEMMA OthersKeepPositions ==
  ASSUME RiskTypeOK, PositionsCapped, UNCHANGED <<deployment, unseen>>,
         RiskTypeOK', Committed' \subseteq Committed
  PROVE  PositionsCapped'
<1>1. /\ IsFiniteSet(Committed) /\ Cardinality(Committed) \in Nat
      /\ Committed' \in SUBSET Committed
  BY CommittedFinite
<1>2. IsFiniteSet(Committed') /\ Cardinality(Committed') <= Cardinality(Committed)
  BY <1>1, FS_Subset
<1>3. Cardinality(Committed') \in Nat
  BY <1>2, FS_CardinalityType
<1>4. deployment.maxPositions \in Nat /\ unseen \in Nat
  BY SignalRiskAssumption DEF RiskTypeOK
<1> QED
  BY <1>1, <1>2, <1>3, <1>4 DEF PositionsCapped

LEMMA ApprovalKeepsPositions ==
  ASSUME RiskTypeOK, NEW s, NEW setup, NEW n, Scheduled(s, setup, n),
         UNCHANGED <<deployment, camp, pos, spos>>
  PROVE  PositionsCapped'
<1>1. /\ IsFiniteSet(Committed) /\ Cardinality(Committed) \in Nat
      /\ Cardinality(Known) \in Nat /\ Cardinality(Unseen) \in Nat
      /\ Cardinality(Committed) <= Cardinality(Known) + Cardinality(Unseen)
  BY CommittedFinite
<1>2. Committed' = Committed \cup {s}
  BY DEF Committed, Scheduled, Schedule
<1>3. Cardinality(Committed') <= Cardinality(Committed) + 1 /\ Cardinality(Committed') \in Nat
  BY <1>1, <1>2, FS_AddElement
<1>4. Cardinality(Known) < deployment.maxPositions /\ unseen' = Cardinality(Unseen)
  BY DEF Scheduled, Schedule
<1>5. deployment.maxPositions \in Nat
  BY SignalRiskAssumption DEF RiskTypeOK
<1> QED
  BY <1>1, <1>3, <1>4, <1>5 DEF PositionsCapped

LEMMA PositionsStep ==
  ASSUME RiskTypeOK, RiskTypeOK', Tasks, PositionsCapped, [Next]_vars
  PROVE  PositionsCapped'
<1>1. CASE Tick \/ UNCHANGED vars
  <2>1. UNCHANGED <<deployment, unseen>> /\ Committed' = Committed
    BY <1>1 DEF Tick, vars, marketVars, accountVars, Committed
  <2> QED
    BY <2>1, OthersKeepPositions
<1>2. ASSUME NEW s \in Symbols, Message(s) \/ Exit(s) \/ Deliver(s) \/ Cleanup(s) \/ Fill(s)
      PROVE  PositionsCapped'
  <2>1. UNCHANGED <<deployment, unseen, opening>>
    BY <1>2 DEF Message, Exit, Deliver, Cleanup, Fill, marketVars
  <2>2. \A u \in Symbols : camp'[u].active \/ pos'[u] # 0 => camp[u].active \/ pos[u] # 0
    <3>1. CASE Message(s)
      BY <3>1 DEF Message, accountVars
    <3> QED
      BY <1>2, <3>1, AccountFacts
  <2>3. Committed' \subseteq Committed
    BY <2>1, <2>2 DEF Committed
  <2> QED
    BY <2>1, <2>3, OthersKeepPositions
<1>3. CASE ProcessMarketEvent
  <2>1. CASE UNCHANGED <<opening, unseen>>
    <3>1. UNCHANGED <<deployment, camp, pos>>
      BY <1>3, MarketEventFacts
    <3>2. Committed' = Committed
      BY <2>1, <3>1 DEF Committed
    <3> QED
      BY <2>1, <3>1, <3>2, OthersKeepPositions
  <2>2. ASSUME NEW s \in Symbols, NEW setup \in Setups, NEW n \in Nat \ {0}, Scheduled(s, setup, n)
        PROVE  PositionsCapped'
    BY <1>3, <2>2, MarketEventFacts, ApprovalKeepsPositions
  <2> QED
    BY <1>3, <2>1, <2>2, MarketEventFacts
<1>4. CASE OpenTestnet
  <2> DEFINE s == queue[1].symbol
  <2>1. /\ queue # <<>> /\ queue[1] \in OpenTasks /\ opening' = opening \ {s}
        /\ \A u \in Symbols : u # s => camp'[u] = camp[u] /\ pos'[u] = pos[u]
        /\ UNCHANGED <<deployment, unseen>>
    BY <1>4, OpenFacts
  <2>2. s \in Symbols /\ IsTask(queue, 1, s) /\ 1 \in DOMAIN queue
    BY <2>1, Taken DEF IsTask, OpenTasks, RiskTypeOK
  <2>3. s \in opening
    BY <2>2 DEF Tasks
  <2>4. Committed' \subseteq Committed
    BY <2>1, <2>3 DEF Committed
  <2> QED
    BY <2>1, <2>4, OthersKeepPositions
<1> QED
  BY <1>1, <1>2, <1>3, <1>4 DEF Next, LoopStep

\* For any caps and symbols, the positions that exist or may come to exist
\* exceed max_positions by no more than the commitments the store did not show
\* when the last campaign was approved.
THEOREM PositionsStayCapped == Spec => []PositionsCapped
<1>1. Init => RiskTypeOK /\ Tasks /\ PositionsCapped
  BY TypesInit, TasksInit, PositionsInit
<1>2. RiskTypeOK /\ Tasks /\ PositionsCapped /\ [Next]_vars
        => (RiskTypeOK /\ Tasks /\ PositionsCapped)'
  BY TypesStep, TasksStep, PositionsStep
<1> QED
  BY <1>1, <1>2, PTL DEF Spec

-----------------------------------------------------------------------------
(* Campaign ids. *)

IdsInv == Stamps /\ CampaignIdsDiffer

LEMMA StampsInit == Init => IdsInv
BY SignalRiskAssumption DEF Init, IdsInv, Stamps, CampaignIdsDiffer

\* Later clocks, newer event times and spent debounces keep the stamps.
LEMMA OthersKeepStamps ==
  ASSUME RiskTypeOK, RiskTypeOK', IdsInv, UNCHANGED planned, clock <= clock',
         \A s \in Symbols : eventTime'[s] <= clock' + Skew,
         \A s \in Symbols, setup \in Setups :
           \/ lastEmit'[<<s, setup>>] = lastEmit[<<s, setup>>]
           \/ lastEmit'[<<s, setup>>] = clock
  PROVE  IdsInv'
<1>1. clock \in Nat /\ clock' \in Nat /\ Skew \in Nat
  BY SignalRiskAssumption DEF RiskTypeOK
<1>2. \A k \in Symbols \X Setups : lastEmit[k] \in Nat /\ lastEmit'[k] \in Nat
  BY DEF RiskTypeOK
<1>3. \A s \in Symbols, setup \in Setups :
        /\ lastEmit[<<s, setup>>] \in Nat
        /\ lastEmit[<<s, setup>>] <= clock
        /\ lastEmit[<<s, setup>>] <= lastEmit'[<<s, setup>>]
        /\ lastEmit'[<<s, setup>>] <= clock'
  <2> SUFFICES ASSUME NEW s \in Symbols, NEW setup \in Setups
               PROVE  /\ lastEmit[<<s, setup>>] \in Nat
                      /\ lastEmit[<<s, setup>>] <= clock
                      /\ lastEmit[<<s, setup>>] <= lastEmit'[<<s, setup>>]
                      /\ lastEmit'[<<s, setup>>] <= clock'
    OBVIOUS
  <2>1. lastEmit[<<s, setup>>] \in Nat /\ lastEmit'[<<s, setup>>] \in Nat
    BY <1>2
  <2>2. lastEmit[<<s, setup>>] <= clock
    BY DEF IdsInv, Stamps
  <2>3. lastEmit'[<<s, setup>>] = lastEmit[<<s, setup>>] \/ lastEmit'[<<s, setup>>] = clock
    OBVIOUS
  <2> QED
    BY <1>1, <2>1, <2>2, <2>3
<1>4. \A i \in DOMAIN planned :
        LET last == lastEmit'[<<planned[i].symbol, planned[i].setup>>]
        IN  last # 0 /\ planned[i].event <= last + Skew
  <2> SUFFICES ASSUME NEW i \in DOMAIN planned
               PROVE  LET last == lastEmit'[<<planned[i].symbol, planned[i].setup>>]
                      IN  last # 0 /\ planned[i].event <= last + Skew
    OBVIOUS
  <2>1. planned[i] \in CampaignId
    BY LenProperties, ElementOfSeq DEF RiskTypeOK
  <2>2. planned[i].symbol \in Symbols /\ planned[i].setup \in Setups /\ planned[i].event \in Nat
    BY <2>1 DEF CampaignId
  <2>3. /\ lastEmit[<<planned[i].symbol, planned[i].setup>>] # 0
        /\ planned[i].event <= lastEmit[<<planned[i].symbol, planned[i].setup>>] + Skew
    BY DEF IdsInv, Stamps
  <2>4. lastEmit'[<<planned[i].symbol, planned[i].setup>>] \in Nat
    BY <1>2, <2>2
  <2> QED
    BY <1>1, <1>3, <2>2, <2>3, <2>4
<1>5. 1 <= clock'
  BY <1>1 DEF IdsInv, Stamps
<1> QED
  BY <1>3, <1>4, <1>5 DEF IdsInv, Stamps, CampaignIdsDiffer

\* A new plan's event time is later than that of any plan of its key.
LEMMA ApprovalKeepsStamps ==
  ASSUME RiskTypeOK, RiskTypeOK', IdsInv, NEW s, NEW setup, NEW n, Scheduled(s, setup, n),
         UNCHANGED <<clock, eventTime>>
  PROVE  IdsInv'
<1> DEFINE k == <<s, setup>>
           new == [symbol |-> s, setup |-> setup, event |-> eventTime[s]]
<1>1. s \in Symbols /\ setup \in Setups /\ k \in Symbols \X Setups
  BY DEF Scheduled
<1>2. new \in CampaignId /\ eventTime[s] \in Nat /\ clock \in Nat
  BY <1>1 DEF CampaignId, RiskTypeOK
<1>3. planned' = Append(planned, new) /\ planned \in Seq(CampaignId)
  BY DEF Scheduled, Schedule, RiskTypeOK
<1>4. /\ DOMAIN planned' = 1 .. Len(planned) + 1 /\ DOMAIN planned = 1 .. Len(planned)
      /\ Len(planned) \in Nat
      /\ \A i \in DOMAIN planned : planned'[i] = planned[i]
      /\ planned'[Len(planned) + 1] = new
  <2>1. Len(planned') = Len(planned) + 1 /\ planned' \in Seq(CampaignId)
    BY <1>2, <1>3, AppendProperties
  <2> QED
    BY <1>2, <1>3, <2>1, AppendProperties, LenProperties
<1>5. lastEmit' = [lastEmit EXCEPT ![k] = clock] /\ lastEmit \in [Symbols \X Setups -> Nat]
  BY DEF Scheduled, RiskTypeOK
<1>6. MaxAge \in Nat /\ Debounce \in Nat /\ Skew \in Nat /\ Debounce > MaxAge + Skew
  BY SignalRiskAssumption
<1>7. ASSUME NEW i \in DOMAIN planned
      PROVE  /\ planned[i].symbol \in Symbols /\ planned[i].setup \in Setups
             /\ planned[i].event \in Nat
             /\ planned[i] # new
             /\ LET last == lastEmit'[<<planned[i].symbol, planned[i].setup>>]
                IN  last # 0 /\ planned[i].event <= last + Skew
  <2> DEFINE ki == <<planned[i].symbol, planned[i].setup>>
  <2>1. planned[i] \in CampaignId
    BY <1>3, <1>4, ElementOfSeq
  <2>2. planned[i].symbol \in Symbols /\ planned[i].setup \in Setups /\ planned[i].event \in Nat
    BY <2>1 DEF CampaignId
  <2>3. lastEmit[ki] # 0 /\ planned[i].event <= lastEmit[ki] + Skew /\ lastEmit[ki] <= clock
        /\ lastEmit[ki] \in Nat
    BY <1>5, <2>2 DEF IdsInv, Stamps
  <2>4. CASE ki = k
    <3>1. clock - lastEmit[k] >= Debounce
      BY <1>2, <1>6, <2>3, <2>4 DEF Scheduled, Debounced
    <3>2. clock - eventTime[s] <= MaxAge
      BY DEF Scheduled, Fresh
    <3>3. planned[i].event < eventTime[s]
      BY <1>2, <1>6, <2>2, <2>3, <2>4, <3>1, <3>2
    <3>4. planned[i] # new
      BY <1>2, <2>2, <3>3
    <3>5. lastEmit'[ki] = clock
      BY <1>1, <1>5, <2>4
    <3>6. clock # 0 /\ planned[i].event <= clock + Skew
      BY <1>2, <1>6, <2>2, <2>3
    <3> QED
      BY <2>2, <3>4, <3>5, <3>6
  <2>5. CASE ki # k
    <3>1. planned[i] # new
      BY <2>5
    <3>2. lastEmit'[ki] = lastEmit[ki]
      BY <1>5, <2>2, <2>5
    <3> QED
      BY <2>2, <2>3, <3>1, <3>2
  <2> QED
    BY <2>4, <2>5
<1>8. lastEmit'[k] = clock /\ clock # 0 /\ eventTime[s] <= clock + Skew
  BY <1>1, <1>2, <1>5 DEF IdsInv, Stamps
<1>9. \A i \in DOMAIN planned' : i \in DOMAIN planned \/ i = Len(planned) + 1
  BY <1>4
<1>10. CampaignIdsDiffer'
  <2>1. \A i, j \in DOMAIN planned : i # j => planned'[i] # planned'[j]
    BY <1>4 DEF IdsInv, CampaignIdsDiffer
  <2>2. \A i \in DOMAIN planned : planned'[i] # planned'[Len(planned) + 1]
    BY <1>4, <1>7
  <2> QED
    BY <1>9, <2>1, <2>2 DEF CampaignIdsDiffer
<1>11. \A i \in DOMAIN planned' :
         LET last == lastEmit'[<<planned'[i].symbol, planned'[i].setup>>]
         IN  last # 0 /\ planned'[i].event <= last + Skew
  <2>1. \A i \in DOMAIN planned :
          LET last == lastEmit'[<<planned'[i].symbol, planned'[i].setup>>]
          IN  last # 0 /\ planned'[i].event <= last + Skew
    BY <1>4, <1>7
  <2>2. LET last == lastEmit'[<<new.symbol, new.setup>>]
        IN  last # 0 /\ new.event <= last + Skew
    BY <1>8
  <2> QED
    BY <1>4, <1>9, <2>1, <2>2
<1>12. \A u \in Symbols, v \in Setups : lastEmit'[<<u, v>>] <= clock
  <2> SUFFICES ASSUME NEW u \in Symbols, NEW v \in Setups
               PROVE  lastEmit'[<<u, v>>] <= clock
    OBVIOUS
  <2>1. lastEmit[<<u, v>>] <= clock /\ <<u, v>> \in Symbols \X Setups
    BY DEF IdsInv, Stamps
  <2>2. lastEmit'[<<u, v>>] = lastEmit[<<u, v>>] \/ lastEmit'[<<u, v>>] = clock
    BY <1>5, <2>1
  <2> QED
    BY <1>2, <2>1, <2>2
<1> QED
  BY <1>10, <1>11, <1>12 DEF IdsInv, Stamps

LEMMA StampsStep ==
  ASSUME RiskTypeOK, RiskTypeOK', IdsInv, [Next]_vars
  PROVE  IdsInv'
<1>0. clock \in Nat /\ Skew \in Nat /\ \A s \in Symbols : eventTime[s] <= clock + Skew
  BY SignalRiskAssumption DEF RiskTypeOK, IdsInv, Stamps
<1>1. CASE Tick
  <2>1. \A s \in Symbols : eventTime[s] \in Nat /\ eventTime'[s] = eventTime[s]
    BY <1>1 DEF Tick, RiskTypeOK
  <2> QED
    BY <1>0, <1>1, <2>1, OthersKeepStamps DEF Tick, scannerVars
<1>2. ASSUME NEW s \in Symbols, Message(s)
      PROVE  IdsInv'
  <2>1. PICK e \in 1 .. MaxTime + Skew :
          e <= clock + Skew /\ eventTime' = [eventTime EXCEPT ![s] = Greater(@, e)]
    BY <1>2 DEF Message
  <2>2. \A u \in Symbols : eventTime'[u] <= clock + Skew
    BY <1>0, <2>1 DEF Greater, RiskTypeOK
  <2> QED
    BY <1>0, <1>2, <2>2, OthersKeepStamps DEF Message, scannerVars
<1>3. CASE ProcessMarketEvent
  <2>1. UNCHANGED <<clock, eventTime>>
    BY <1>3, MarketEventFacts
  <2>2. CASE UNCHANGED planned /\ lastEmit' = lastEmit
    BY <1>0, <2>1, <2>2, OthersKeepStamps
  <2>3. ASSUME UNCHANGED planned, NEW s \in Symbols, NEW setup \in Setups,
               lastEmit' = [lastEmit EXCEPT ![<<s, setup>>] = clock]
        PROVE  IdsInv'
    <3>1. \A u \in Symbols, v \in Setups :
            lastEmit'[<<u, v>>] = lastEmit[<<u, v>>] \/ lastEmit'[<<u, v>>] = clock
      BY <2>3 DEF RiskTypeOK
    <3> QED
      BY <1>0, <2>1, <2>3, <3>1, OthersKeepStamps
  <2>4. ASSUME NEW s \in Symbols, NEW setup \in Setups, NEW n \in Nat \ {0}, Scheduled(s, setup, n)
        PROVE  IdsInv'
    BY <2>1, <2>4, ApprovalKeepsStamps
  <2> QED
    BY <1>3, <2>2, <2>3, <2>4, MarketEventFacts
<1>4. CASE OpenTestnet
  BY <1>0, <1>4, OpenFacts, OthersKeepStamps
<1>5. ASSUME NEW s \in Symbols, Fill(s) \/ Exit(s) \/ Deliver(s) \/ Cleanup(s)
      PROVE  IdsInv'
  BY <1>0, <1>5, OthersKeepStamps DEF Fill, Exit, Deliver, Cleanup, marketVars, scannerVars
<1>6. CASE UNCHANGED vars
  BY <1>0, <1>6, OthersKeepStamps DEF vars, marketVars, scannerVars
<1> QED
  BY <1>1, <1>2, <1>3, <1>4, <1>5, <1>6 DEF Next, LoopStep

\* Whatever the market and the clock's skew do, debounce and freshness keep
\* the ids of any two campaigns apart.
THEOREM IdsDiffer == Spec => []CampaignIdsDiffer
<1>1. Init => RiskTypeOK /\ IdsInv
  BY TypesInit, StampsInit
<1>2. RiskTypeOK /\ IdsInv /\ [Next]_vars => RiskTypeOK' /\ IdsInv'
  BY TypesStep, StampsStep
<1>3. IdsInv => CampaignIdsDiffer
  BY DEF IdsInv
<1> QED
  BY <1>1, <1>2, <1>3, PTL DEF Spec

-----------------------------------------------------------------------------
(* Sums.  Total is a fold, which takes one symbol after another from the   *)
(* set: what holds of every sum follows by going down to the smallest set. *)

\* The symbol the fold takes next.
Pick(T) == CHOOSE x \in T : TRUE

\* g is f's sum over each set of symbols.
SumStep(g, f, T) == IF T = {} THEN 0 ELSE f[Pick(T)] + g[T \ {Pick(T)}]
IsSum(g, f) == g = [T \in SUBSET Symbols |-> SumStep(g, f, T)]

\* Total is that sum over all symbols, if there is one.
LEMMA TotalDef ==
  ASSUME NEW f
  PROVE  Total(f) = (CHOOSE g : IsSum(g, f))[Symbols]
BY DEF Total, MapThenSumSet, MapThenFoldSet, Pick, IsSum, SumStep

\* Naturals have a least one, which is the induction used below.
LEMMA Least ==
  ASSUME NEW A \in SUBSET Nat, A # {}
  PROVE  \E n \in A : \A m \in A : n <= m
<1>1. PICK n \in A : \A m \in A : <<m, n>> \notin OpToRel(<, Nat)
  BY NatLessThanWellFounded, WFMin
<1>2. \A m \in A : ~(m < n)
  BY <1>1 DEF OpToRel
<1> QED
  BY <1>2

\* The fold goes down to a set with one symbol less.
LEMMA Smaller ==
  ASSUME NEW T \in SUBSET Symbols
  PROVE  /\ Cardinality(T) \in Nat
         /\ Cardinality(T) = 0 <=> T = {}
         /\ T # {} => /\ Pick(T) \in T
                      /\ T \ {Pick(T)} \in SUBSET Symbols
                      /\ Cardinality(T \ {Pick(T)}) = Cardinality(T) - 1
<1>1. IsFiniteSet(T) /\ Cardinality(T) \in Nat
  BY SignalRiskAssumption, FS_Subset, FS_CardinalityType
<1>2. T # {} => Pick(T) \in T
  BY DEF Pick
<1> QED
  BY <1>1, <1>2, FS_EmptySet, FS_RemoveElement

\* Induction over the sets the fold goes through.
LEMMA SetInduction ==
  ASSUME NEW B,
         \A T \in SUBSET Symbols : T = {} \/ T \ {Pick(T)} \in B => T \in B
  PROVE  \A T \in SUBSET Symbols : T \in B
<1> DEFINE A == {Cardinality(T) : T \in (SUBSET Symbols) \ B}
<1>1. SUFFICES ASSUME A # {}
               PROVE  FALSE
  OBVIOUS
<1>2. A \in SUBSET Nat
  <2>1. \A T \in (SUBSET Symbols) \ B : Cardinality(T) \in Nat
    BY Smaller
  <2> QED
    BY <2>1
<1> HIDE DEF A
<1>3. PICK n \in A : \A m \in A : n <= m
  BY <1>1, <1>2, Least
<1>4. PICK T \in (SUBSET Symbols) \ B : n = Cardinality(T)
  BY <1>3 DEF A
<1>5. T # {} /\ T \ {Pick(T)} \in (SUBSET Symbols) \ B
  BY <1>4, Smaller
<1>6. Cardinality(T \ {Pick(T)}) \in A
  BY <1>5 DEF A
<1>7. Cardinality(T \ {Pick(T)}) = n - 1 /\ n \in Nat
  BY <1>4, <1>5, Smaller
<1> QED
  BY <1>3, <1>6, <1>7

\* A sum exists: over ever larger sets, g can be extended.
LEMMA SumExists ==
  ASSUME NEW f \in [Symbols -> Int]
  PROVE  \E g : IsSum(g, f)
<1> DEFINE Upto(n, g) == \A T \in SUBSET Symbols : Cardinality(T) <= n => g[T] = SumStep(g, f, T)
           Gs == [SUBSET Symbols -> Int]
           Missing == {n \in Nat : \A g \in Gs : ~Upto(n, g)}
<1>1. ASSUME NEW n \in Nat, NEW g \in Gs, n = 0 \/ Upto(n - 1, g)
      PROVE  \E h \in Gs : Upto(n, h)
  <2> DEFINE h == [T \in SUBSET Symbols |-> SumStep(g, f, T)]
  <2>1. \A T \in SUBSET Symbols : SumStep(g, f, T) \in Int
    <3> SUFFICES ASSUME NEW T \in SUBSET Symbols
                 PROVE  SumStep(g, f, T) \in Int
      OBVIOUS
    <3>1. T # {} => f[Pick(T)] \in Int /\ g[T \ {Pick(T)}] \in Int
      BY Smaller
    <3> QED
      BY <3>1 DEF SumStep
  <2>2. h \in Gs
    BY <2>1
  <2>3. ASSUME NEW T \in SUBSET Symbols, Cardinality(T) <= n
        PROVE  h[T] = SumStep(h, f, T)
    <3>1. CASE T = {}
      BY <3>1 DEF SumStep
    <3>2. CASE T # {}
      <4> DEFINE U == T \ {Pick(T)}
      <4>1. U \in SUBSET Symbols /\ Cardinality(U) <= n - 1 /\ n # 0
        BY <2>3, <3>2, Smaller
      <4>2. g[U] = h[U]
        BY <1>1, <4>1
      <4> QED
        BY <3>2, <4>2 DEF SumStep
    <3> QED
      BY <3>1, <3>2
  <2> QED
    BY <2>2, <2>3
<1>2. Missing = {}
  <2> SUFFICES ASSUME Missing # {}
               PROVE  FALSE
    OBVIOUS
  <2>1. PICK n \in Missing : \A m \in Missing : n <= m
    BY Least
  <2>2. n \in Nat /\ \A g \in Gs : ~Upto(n, g)
    BY <2>1
  <2>3. \E g \in Gs : n = 0 \/ Upto(n - 1, g)
    <3>1. CASE n = 0
      <4>1. [T \in SUBSET Symbols |-> 0] \in Gs
        OBVIOUS
      <4> QED
        BY <3>1, <4>1
    <3>2. CASE n # 0
      <4>1. n - 1 \in Nat /\ ~(n <= n - 1)
        BY <2>2, <3>2
      <4>2. n - 1 \notin Missing
        BY <2>1, <4>1
      <4>3. ~(\A g \in Gs : ~Upto(n - 1, g))
        BY <4>1, <4>2
      <4> HIDE DEF Upto
      <4> QED
        BY <4>3
    <3> QED
      BY <3>1, <3>2
  <2> HIDE DEF Upto, Gs
  <2> QED
    BY <1>1, <2>2, <2>3
<1>3. Cardinality(Symbols) \in Nat /\ \A T \in SUBSET Symbols : Cardinality(T) <= Cardinality(Symbols)
  BY SignalRiskAssumption, FS_Subset, FS_CardinalityType
<1>4. PICK g \in Gs : Upto(Cardinality(Symbols), g)
  BY <1>2, <1>3
<1>5. \A T \in SUBSET Symbols : g[T] = SumStep(g, f, T)
  BY <1>3, <1>4
<1>6. IsSum(g, f)
  BY <1>5 DEF IsSum
<1> QED
  BY <1>6

\* What the proofs about sums use.
LEMMA TotalSum ==
  ASSUME NEW f \in [Symbols -> Int]
  PROVE  \E g \in [SUBSET Symbols -> Int] :
           /\ Total(f) = g[Symbols]
           /\ g[{}] = 0
           /\ \A T \in SUBSET Symbols : T # {} => g[T] = f[Pick(T)] + g[T \ {Pick(T)}]
<1> DEFINE g == CHOOSE x : IsSum(x, f)
<1>1. IsSum(g, f)
  BY SumExists
<1>2. Total(f) = g[Symbols]
  BY TotalDef
<1> HIDE DEF g
<1>3. DOMAIN g = SUBSET Symbols /\ g = [T \in SUBSET Symbols |-> g[T]]
  BY <1>1 DEF IsSum
<1>4. \A T \in SUBSET Symbols : g[T] = SumStep(g, f, T)
  BY <1>1 DEF IsSum
<1>5. \A T \in SUBSET Symbols : g[T] \in Int
  <2> DEFINE B == {T \in SUBSET Symbols : g[T] \in Int}
  <2>1. ASSUME NEW T \in SUBSET Symbols, T = {} \/ T \ {Pick(T)} \in B
        PROVE  T \in B
    <3>1. T # {} => f[Pick(T)] \in Int /\ g[T \ {Pick(T)}] \in Int
      BY <2>1, Smaller
    <3>2. SumStep(g, f, T) \in Int
      BY <3>1 DEF SumStep
    <3> QED
      BY <1>4, <3>2
  <2> HIDE DEF B
  <2>2. \A T \in SUBSET Symbols : T \in B
    BY <2>1, SetInduction
  <2> QED
    BY <2>2 DEF B
<1>6. g \in [SUBSET Symbols -> Int]
  BY <1>3, <1>5
<1>7. g[{}] = 0
  BY <1>4 DEF SumStep
<1>8. \A T \in SUBSET Symbols : T # {} => g[T] = f[Pick(T)] + g[T \ {Pick(T)}]
  BY <1>4 DEF SumStep
<1> QED
  BY <1>2, <1>6, <1>7, <1>8

\* A sum of integers is one.
LEMMA TotalType ==
  ASSUME NEW f \in [Symbols -> Int]
  PROVE  Total(f) \in Int
<1>1. PICK g \in [SUBSET Symbols -> Int] : Total(f) = g[Symbols]
  BY TotalSum
<1> QED
  BY <1>1

\* Smaller terms, smaller sum.
LEMMA TotalMonotone ==
  ASSUME NEW f \in [Symbols -> Int], NEW a \in [Symbols -> Int],
         \A s \in Symbols : f[s] <= a[s]
  PROVE  Total(f) <= Total(a)
<1>1. PICK g \in [SUBSET Symbols -> Int] :
        /\ Total(f) = g[Symbols]
        /\ g[{}] = 0
        /\ \A T \in SUBSET Symbols : T # {} => g[T] = f[Pick(T)] + g[T \ {Pick(T)}]
  BY TotalSum
<1>2. PICK h \in [SUBSET Symbols -> Int] :
        /\ Total(a) = h[Symbols]
        /\ h[{}] = 0
        /\ \A T \in SUBSET Symbols : T # {} => h[T] = a[Pick(T)] + h[T \ {Pick(T)}]
  BY TotalSum
<1> DEFINE B == {T \in SUBSET Symbols : g[T] <= h[T]}
<1>3. ASSUME NEW T \in SUBSET Symbols, T = {} \/ T \ {Pick(T)} \in B
      PROVE  T \in B
  <2>1. CASE T = {}
    BY <1>1, <1>2, <2>1
  <2>2. CASE T # {}
    <3> DEFINE s == Pick(T)
               U == T \ {s}
    <3>1. s \in Symbols /\ U \in SUBSET Symbols /\ g[U] <= h[U]
      BY <1>3, <2>2, Smaller
    <3>2. g[T] = f[s] + g[U] /\ h[T] = a[s] + h[U]
      BY <1>1, <1>2, <2>2
    <3>3. f[s] \in Int /\ a[s] \in Int /\ f[s] <= a[s] /\ g[U] \in Int /\ h[U] \in Int
      BY <3>1
    <3> HIDE DEF s, U
    <3>4. g[T] <= h[T]
      BY <3>1, <3>2, <3>3
    <3> QED
      BY <3>4
  <2> QED
    BY <2>1, <2>2
<1> HIDE DEF B
<1>4. Symbols \in B
  BY <1>3, SetInduction
<1> QED
  BY <1>1, <1>2, <1>4 DEF B

\* The sum of sums.
LEMMA TotalAdds ==
  ASSUME NEW a \in [Symbols -> Int], NEW b \in [Symbols -> Int]
  PROVE  Total([s \in Symbols |-> a[s] + b[s]]) = Total(a) + Total(b)
<1> DEFINE f == [s \in Symbols |-> a[s] + b[s]]
<1>0. f \in [Symbols -> Int] /\ \A s \in Symbols : f[s] = a[s] + b[s]
  OBVIOUS
<1> HIDE DEF f
<1>1. PICK g \in [SUBSET Symbols -> Int] :
        /\ Total(f) = g[Symbols]
        /\ g[{}] = 0
        /\ \A T \in SUBSET Symbols : T # {} => g[T] = f[Pick(T)] + g[T \ {Pick(T)}]
  BY <1>0, TotalSum
<1>2. PICK h \in [SUBSET Symbols -> Int] :
        /\ Total(a) = h[Symbols]
        /\ h[{}] = 0
        /\ \A T \in SUBSET Symbols : T # {} => h[T] = a[Pick(T)] + h[T \ {Pick(T)}]
  BY TotalSum
<1>3. PICK k \in [SUBSET Symbols -> Int] :
        /\ Total(b) = k[Symbols]
        /\ k[{}] = 0
        /\ \A T \in SUBSET Symbols : T # {} => k[T] = b[Pick(T)] + k[T \ {Pick(T)}]
  BY TotalSum
<1> DEFINE B == {T \in SUBSET Symbols : g[T] = h[T] + k[T]}
<1>4. ASSUME NEW T \in SUBSET Symbols, T = {} \/ T \ {Pick(T)} \in B
      PROVE  T \in B
  <2>1. CASE T = {}
    BY <1>1, <1>2, <1>3, <2>1
  <2>2. CASE T # {}
    <3> DEFINE s == Pick(T)
               U == T \ {s}
    <3>1. s \in Symbols /\ U \in SUBSET Symbols /\ g[U] = h[U] + k[U]
      BY <1>4, <2>2, Smaller
    <3>2. g[T] = f[s] + g[U] /\ h[T] = a[s] + h[U] /\ k[T] = b[s] + k[U]
      BY <1>1, <1>2, <1>3, <2>2
    <3>3. /\ f[s] = a[s] + b[s] /\ a[s] \in Int /\ b[s] \in Int
          /\ g[U] \in Int /\ h[U] \in Int /\ k[U] \in Int
      BY <1>0, <3>1
    <3> HIDE DEF s, U
    <3>4. g[T] = h[T] + k[T]
      BY <3>1, <3>2, <3>3
    <3> QED
      BY <3>4
  <2> QED
    BY <2>1, <2>2
<1> HIDE DEF B
<1>5. Symbols \in B
  BY <1>4, SetInduction
<1>6. Total(f) = Total(a) + Total(b)
  BY <1>1, <1>2, <1>3, <1>5 DEF B
<1> QED
  BY <1>6 DEF f

\* One term, one sum.
LEMMA TotalOne ==
  ASSUME NEW s \in Symbols, NEW n \in Int
  PROVE  Total([u \in Symbols |-> IF u = s THEN n ELSE 0]) = n
<1> DEFINE f == [u \in Symbols |-> IF u = s THEN n ELSE 0]
<1>0. f \in [Symbols -> Int] /\ \A u \in Symbols : f[u] = IF u = s THEN n ELSE 0
  OBVIOUS
<1> HIDE DEF f
<1>1. PICK g \in [SUBSET Symbols -> Int] :
        /\ Total(f) = g[Symbols]
        /\ g[{}] = 0
        /\ \A T \in SUBSET Symbols : T # {} => g[T] = f[Pick(T)] + g[T \ {Pick(T)}]
  BY <1>0, TotalSum
<1> DEFINE B == {T \in SUBSET Symbols : g[T] = IF s \in T THEN n ELSE 0}
<1>2. ASSUME NEW T \in SUBSET Symbols, T = {} \/ T \ {Pick(T)} \in B
      PROVE  T \in B
  <2>1. CASE T = {}
    BY <1>1, <2>1
  <2>2. CASE T # {}
    <3>1. /\ Pick(T) \in T /\ Pick(T) \in Symbols
          /\ g[T \ {Pick(T)}] = IF s \in T /\ s # Pick(T) THEN n ELSE 0
      BY <1>2, <2>2, Smaller
    <3>2. g[T] = f[Pick(T)] + g[T \ {Pick(T)}]
      BY <1>1, <2>2
    <3>3. g[T] = IF s \in T THEN n ELSE 0
      BY <1>0, <3>1, <3>2
    <3> QED
      BY <3>3
  <2> QED
    BY <2>1, <2>2
<1> HIDE DEF B
<1>3. Symbols \in B
  BY <1>2, SetInduction
<1>4. Total(f) = n
  BY <1>1, <1>3 DEF B
<1> QED
  BY <1>4 DEF f

-----------------------------------------------------------------------------
(* The cap on notional. *)

\* The size of the one task of s.
LEMMA SizeOfTask ==
  ASSUME NEW q \in Seq(Callback), NEW s, NEW i \in DOMAIN q, IsTask(q, i, s),
         \A j \in DOMAIN q : IsTask(q, j, s) => i = j
  PROVE  (CHOOSE t \in Range(q) : t.kind = "open" /\ t.symbol = s).size = q[i].size
<1> DEFINE task == CHOOSE t \in Range(q) : t.kind = "open" /\ t.symbol = s
<1>1. q[i] \in Range(q) /\ q[i].kind = "open" /\ q[i].symbol = s
  BY DEF Range, IsTask
<1>2. task \in Range(q) /\ task.kind = "open" /\ task.symbol = s
  BY <1>1
<1>3. PICK j \in DOMAIN q : q[j] = task
  BY <1>2 DEF Range
<1>4. IsTask(q, j, s)
  BY <1>2, <1>3 DEF IsTask
<1> QED
  BY <1>3, <1>4

\* TaskSize, as a function of the queue and of _opening_symbols.
SizeIn(q, o, s) ==
  IF s \in o
    THEN (CHOOSE t \in Range(q) : t.kind = "open" /\ t.symbol = s).size
    ELSE 0

\* Before and after a step.
LEMMA SizeForm ==
  /\ \A s : TaskSize(s) = SizeIn(queue, opening, s)
  /\ \A s : TaskSize(s)' = SizeIn(queue', opening', s)
BY DEF TaskSize, SizeIn

\* Tasks, as a predicate of the same.
TasksIn(q, o) ==
  /\ \A s \in Symbols : s \in o <=> \E i \in DOMAIN q : IsTask(q, i, s)
  /\ \A i, j \in DOMAIN q, s \in Symbols : IsTask(q, i, s) /\ IsTask(q, j, s) => i = j

LEMMA Sizes ==
  ASSUME NEW q \in Seq(Callback), NEW o, TasksIn(q, o), NEW s \in Symbols
  PROVE  /\ s \notin o => SizeIn(q, o, s) = 0
         /\ \A i \in DOMAIN q : IsTask(q, i, s) => SizeIn(q, o, s) = q[i].size
         /\ SizeIn(q, o, s) \in Nat
<1>1. s \notin o => SizeIn(q, o, s) = 0
  BY DEF SizeIn
<1>2. \A i \in DOMAIN q : IsTask(q, i, s) => SizeIn(q, o, s) = q[i].size
  BY SizeOfTask DEF SizeIn, TasksIn
<1>3. SizeIn(q, o, s) \in Nat
  <2>1. CASE s \in o
    <3>1. PICK i \in DOMAIN q : IsTask(q, i, s)
      BY <2>1 DEF TasksIn
    <3>2. q[i] \in Callback
      BY LenProperties, ElementOfSeq
    <3>3. q[i] \in OpenTasks
      BY <3>1, <3>2, CallbackFacts DEF IsTask
    <3> QED
      BY <1>2, <3>1, <3>3 DEF OpenTasks
  <2> QED
    BY <1>1, <2>1
<1> QED
  BY <1>1, <1>2, <1>3

\* The same of the tasks before and after a step.
LEMMA SizesBefore ==
  ASSUME RiskTypeOK, Tasks, NEW s \in Symbols
  PROVE  /\ s \notin opening => TaskSize(s) = 0
         /\ \A i \in DOMAIN queue : IsTask(queue, i, s) => TaskSize(s) = queue[i].size
         /\ TaskSize(s) \in Nat
<1>1. TasksIn(queue, opening) /\ queue \in Seq(Callback)
  BY DEF Tasks, TasksIn, RiskTypeOK
<1> QED
  BY <1>1, Sizes, SizeForm

LEMMA SizesAfter ==
  ASSUME RiskTypeOK', Tasks', NEW s \in Symbols
  PROVE  /\ s \notin opening' => TaskSize(s)' = 0
         /\ \A i \in DOMAIN queue' : IsTask(queue', i, s) => TaskSize(s)' = queue'[i].size
         /\ TaskSize(s)' \in Nat
<1>1. PICK q \in Seq(Callback) : q = queue'
  BY DEF RiskTypeOK
<1>2. PICK o \in SUBSET Symbols : o = opening'
  BY DEF RiskTypeOK
<1>3. TasksIn(q, o)
  BY <1>1, <1>2 DEF Tasks, TasksIn
<1>4. TaskSize(s)' = SizeIn(q, o, s)
  BY <1>1, <1>2, SizeForm
<1> QED
  BY <1>1, <1>2, <1>3, <1>4, Sizes

\* A task that is still in the queue keeps its size.
LEMMA SizeKept ==
  ASSUME RiskTypeOK, RiskTypeOK', Tasks, Tasks', NEW s \in Symbols,
         s \in opening' => s \in opening,
         \A i \in DOMAIN queue : IsTask(queue, i, s) /\ s \in opening' =>
           \E j \in DOMAIN queue' : queue'[j] = queue[i]
  PROVE  TaskSize(s)' = IF s \in opening' THEN TaskSize(s) ELSE 0
<1>1. CASE s \notin opening'
  BY <1>1, SizesAfter
<1>2. CASE s \in opening'
  <2>1. PICK i \in DOMAIN queue : IsTask(queue, i, s)
    BY <1>2 DEF Tasks
  <2>2. PICK j \in DOMAIN queue' : queue'[j] = queue[i]
    BY <1>2, <2>1
  <2>3. IsTask(queue', j, s)
    BY <2>1, <2>2 DEF IsTask
  <2> QED
    BY <1>2, <2>1, <2>2, <2>3, SizesBefore, SizesAfter
<1> QED
  BY <1>1, <1>2

\* Callbacks that move up are still in the queue.
LEMMA MovedUp ==
  ASSUME NEW q \in Seq(Callback), q # <<>>
  PROVE  \A i \in DOMAIN q : i # 1 => \E j \in DOMAIN Tail(q) : Tail(q)[j] = q[i]
<1> SUFFICES ASSUME NEW i \in DOMAIN q, i # 1
             PROVE  \E j \in DOMAIN Tail(q) : Tail(q)[j] = q[i]
  OBVIOUS
<1>1. i - 1 \in DOMAIN Tail(q) /\ (i - 1) + 1 = i
  BY Taken
<1>2. Tail(q)[i - 1] = q[i]
  BY <1>1, Taken
<1> QED
  BY <1>1, <1>2

\* What is pledged for s, as a number.
PledgedOf(s) == pos[s] + camp[s].rest + TaskSize(s)

LEMMA PledgedBefore ==
  ASSUME RiskTypeOK, Tasks
  PROVE  /\ Pledged = [s \in Symbols |-> PledgedOf(s)]
         /\ \A s \in Symbols : PledgedOf(s) \in Nat /\ camp[s].rest \in Nat
         /\ Pledged \in [Symbols -> Int]
<1>1. \A s \in Symbols : PledgedOf(s) \in Nat /\ camp[s].rest \in Nat
  BY SizesBefore DEF RiskTypeOK, Campaign, PledgedOf
<1> QED
  BY <1>1 DEF Pledged, PledgedOf

LEMMA PledgedAfter ==
  ASSUME RiskTypeOK', Tasks'
  PROVE  /\ Pledged' = [s \in Symbols |-> PledgedOf(s)']
         /\ \A s \in Symbols : PledgedOf(s)' \in Nat /\ camp'[s].rest \in Nat
         /\ Pledged' \in [Symbols -> Int]
<1>1. \A s \in Symbols : PledgedOf(s)' \in Nat /\ camp'[s].rest \in Nat
  BY SizesAfter DEF RiskTypeOK, Campaign, PledgedOf
<1> QED
  BY <1>1 DEF Pledged, PledgedOf

\* A step that pledges no more for any symbol pledges no more in all.
LEMMA PledgesFall ==
  ASSUME RiskTypeOK, RiskTypeOK', Tasks, Tasks',
         \A s \in Symbols : PledgedOf(s)' <= PledgedOf(s)
  PROVE  Total(Pledged') <= Total(Pledged)
<1>1. PICK f \in [Symbols -> Int] : f = Pledged'
  BY PledgedAfter
<1>2. PICK a \in [Symbols -> Int] : a = Pledged
  BY PledgedBefore
<1>3. \A s \in Symbols : f[s] <= a[s]
  BY <1>1, <1>2, PledgedBefore, PledgedAfter
<1>4. Total(f) <= Total(a)
  BY <1>3, TotalMonotone
<1> QED
  BY <1>1, <1>2, <1>4

\* Fills turn what rests into a position; exits and cleanups only end; what
\* the store hears changes no commitment.
LEMMA AccountPledges ==
  ASSUME RiskTypeOK, RiskTypeOK', Tasks, Tasks', NEW s \in Symbols,
         Fill(s) \/ Exit(s) \/ Deliver(s) \/ Cleanup(s)
  PROVE  \A u \in Symbols : PledgedOf(u)' <= PledgedOf(u)
<1>1. \A u \in Symbols : TaskSize(u)' = TaskSize(u) /\ TaskSize(u) \in Nat
  <2>1. UNCHANGED <<queue, opening>>
    BY DEF Fill, Exit, Deliver, Cleanup
  <2> QED
    BY <2>1, SizesBefore DEF TaskSize
<1>2. \A u \in Symbols : pos'[u] + camp'[u].rest <= pos[u] + camp[u].rest
  <2> SUFFICES ASSUME NEW u \in Symbols
               PROVE  pos'[u] + camp'[u].rest <= pos[u] + camp[u].rest
    OBVIOUS
  <2>0. /\ camp \in [Symbols -> Campaign] /\ camp[u] \in Campaign /\ camp[s] \in Campaign
        /\ pos \in [Symbols -> Nat] /\ pos[u] \in Nat /\ camp[u].rest \in Nat
    BY DEF RiskTypeOK, Campaign
  <2>1. CASE Fill(s)
    <3>1. camp' = [camp EXCEPT ![s] = [camp[s] EXCEPT !.rest = @ - 1]]
          /\ pos' = [pos EXCEPT ![s] = @ + 1]
      BY <2>1 DEF Fill
    <3>2. [camp[s] EXCEPT !.rest = @ - 1].rest = camp[s].rest - 1
      BY <2>0 DEF Campaign
    <3>3. CASE u = s
      BY <2>0, <3>1, <3>2, <3>3
    <3>4. CASE u # s
      BY <2>0, <3>1, <3>4
    <3> QED
      BY <3>3, <3>4
  <2>2. CASE Exit(s)
    BY <2>0, <2>2 DEF Exit
  <2>3. CASE Deliver(s)
    <3>1. camp' = [camp EXCEPT ![s] = [camp[s] EXCEPT !.armed = @ /\ pos[s] = 0]] /\ pos' = pos
      BY <2>3 DEF Deliver
    <3>2. [camp[s] EXCEPT !.armed = @ /\ pos[s] = 0].rest = camp[s].rest
      BY <2>0 DEF Campaign
    <3>3. camp'[u].rest = camp[u].rest
      BY <2>0, <3>1, <3>2
    <3> QED
      BY <2>0, <3>1, <3>3
  <2>4. CASE Cleanup(s)
    <3>1. camp' = [camp EXCEPT ![s] = NoCampaign] /\ pos' = pos
      BY <2>4 DEF Cleanup, accountVars
    <3>2. camp'[u].rest = IF u = s THEN 0 ELSE camp[u].rest
      BY <2>0, <3>1 DEF NoCampaign
    <3> QED
      BY <2>0, <3>1, <3>2
  <2> QED
    BY <2>1, <2>2, <2>3, <2>4
<1>3. \A u \in Symbols : /\ pos[u] \in Nat /\ camp[u].rest \in Nat
                         /\ pos'[u] \in Nat /\ camp'[u].rest \in Nat
  BY PledgedBefore, PledgedAfter DEF RiskTypeOK
<1> QED
  BY <1>1, <1>2, <1>3 DEF PledgedOf

\* A callback that arrives, or passes, leaves the tasks alone.
LEMMA QueuePledges ==
  ASSUME RiskTypeOK, RiskTypeOK', Tasks, Tasks', UNCHANGED <<opening, camp, pos>>,
         \/ \E s \in Symbols : queue' = Append(queue, Market(s))
         \/ queue # <<>> /\ queue[1].kind = "market" /\ queue' = Tail(queue)
  PROVE  \A u \in Symbols : PledgedOf(u)' <= PledgedOf(u)
<1>1. \A i \in DOMAIN queue : queue[i].kind = "open" =>
        \E j \in DOMAIN queue' : queue'[j] = queue[i]
  <2>1. ASSUME NEW s \in Symbols, queue' = Append(queue, Market(s))
        PROVE  \A i \in DOMAIN queue : \E j \in DOMAIN queue' : queue'[j] = queue[i]
    <3>1. Market(s) \in Callback
      BY DEF Market, Callback
    <3>2. /\ DOMAIN queue' = 1 .. Len(queue) + 1
          /\ DOMAIN queue = 1 .. Len(queue) /\ Len(queue) \in Nat
          /\ \A i \in DOMAIN queue : queue'[i] = queue[i]
      BY <2>1, <3>1, Appended DEF RiskTypeOK
    <3>3. \A i \in DOMAIN queue : i \in DOMAIN queue'
      <4> DEFINE n == Len(queue)
      <4>1. n \in Nat /\ DOMAIN queue = 1 .. n /\ DOMAIN queue' = 1 .. n + 1
        BY <3>2
      <4> HIDE DEF n
      <4> QED
        BY <4>1
    <3> QED
      BY <3>2, <3>3
  <2>2. CASE queue # <<>> /\ queue[1].kind = "market" /\ queue' = Tail(queue)
    BY <2>2, MovedUp DEF RiskTypeOK
  <2> QED
    BY <2>1, <2>2
<1>2. \A u \in Symbols : TaskSize(u)' = TaskSize(u)
  <2> SUFFICES ASSUME NEW u \in Symbols
               PROVE  TaskSize(u)' = TaskSize(u)
    OBVIOUS
  <2>1. TaskSize(u)' = IF u \in opening' THEN TaskSize(u) ELSE 0
    BY <1>1, SizeKept DEF IsTask
  <2> QED
    BY <2>1, SizesBefore
<1> QED
  BY <1>2, PledgedBefore DEF PledgedOf

\* An open makes of its task's size a position and entries, or nothing.
LEMMA OpenPledges ==
  ASSUME RiskTypeOK, RiskTypeOK', Tasks, Tasks', OpenTestnet
  PROVE  \A u \in Symbols : PledgedOf(u)' <= PledgedOf(u)
<1> DEFINE t == queue[1]
<1>1. /\ queue # <<>> /\ t \in OpenTasks /\ queue' = Tail(queue)
      /\ opening' = opening \ {t.symbol}
      /\ \A u \in Symbols : u # t.symbol => camp'[u] = camp[u] /\ pos'[u] = pos[u]
  BY OpenFacts
<1>2. PICK s \in Symbols : s = t.symbol
  BY <1>1 DEF OpenTasks
<1>3. t.size \in Nat \ {0} /\ t.neutral \in BOOLEAN
  BY <1>1 DEF OpenTasks
<1>4. 1 \in DOMAIN queue /\ Head(queue) = t
  BY <1>1, Taken DEF RiskTypeOK
<1>5. IsTask(queue, 1, s)
  BY <1>1, <1>2, <1>4 DEF IsTask, OpenTasks
<1>6. TaskSize(s) = t.size /\ TaskSize(s)' = 0
  <2>1. s \notin opening'
    BY <1>1, <1>2
  <2> QED
    BY <1>4, <1>5, <2>1, SizesBefore, SizesAfter
<1>7. ASSUME NEW u \in Symbols, u # s
      PROVE  TaskSize(u)' = TaskSize(u)
  <2>1. \A i \in DOMAIN queue : IsTask(queue, i, u) => i # 1
    BY <1>2, <1>7 DEF IsTask
  <2>2. \A i \in DOMAIN queue : IsTask(queue, i, u) =>
          \E j \in DOMAIN queue' : queue'[j] = queue[i]
    BY <1>1, <2>1, MovedUp DEF RiskTypeOK
  <2>3. u \in opening' <=> u \in opening
    BY <1>1, <1>2, <1>7
  <2>4. TaskSize(u)' = IF u \in opening' THEN TaskSize(u) ELSE 0
    BY <2>2, <2>3, SizeKept
  <2> QED
    BY <2>3, <2>4, SizesBefore
<1>8. pos'[s] + camp'[s].rest <= pos[s] + camp[s].rest + t.size
  <2>0. pos \in [Symbols -> Nat] /\ camp \in [Symbols -> Campaign]
        /\ pos[s] \in Nat /\ camp[s].rest \in Nat
    BY <1>2, PledgedBefore DEF RiskTypeOK
  <2>1. CASE NotOpened
    BY <1>3, <2>0, <2>1 DEF NotOpened
  <2>2. CASE Opened(t)
    <3>1. camp'[s].rest = IF t.neutral THEN t.size \div 2 ELSE t.size - 1
      BY <1>2, <2>0, <2>2 DEF Opened
    <3>2. pos'[s] = IF t.neutral THEN pos[s] ELSE pos[s] + 1
      BY <1>2, <2>0, <2>2 DEF Opened
    <3>3. t.size \div 2 <= t.size /\ t.size \div 2 \in Nat
      BY <1>3
    <3> HIDE DEF t
    <3> QED
      BY <1>3, <2>0, <3>1, <3>2, <3>3
  <2> QED
    BY <1>4, <2>1, <2>2 DEF OpenTestnet
<1>9. \A u \in Symbols : /\ pos[u] \in Nat /\ camp[u].rest \in Nat
                         /\ pos'[u] \in Nat /\ camp'[u].rest \in Nat
                         /\ TaskSize(u) \in Nat
  BY PledgedBefore, PledgedAfter, SizesBefore DEF RiskTypeOK
<1> SUFFICES ASSUME NEW u \in Symbols
             PROVE  PledgedOf(u)' <= PledgedOf(u)
  OBVIOUS
<1>10. CASE u = s
  <2> HIDE DEF t
  <2> QED
    BY <1>3, <1>6, <1>8, <1>9, <1>10 DEF PledgedOf
<1>11. CASE u # s
  <2>1. PledgedOf(u)' = PledgedOf(u)
    BY <1>1, <1>2, <1>7, <1>11 DEF PledgedOf
  <2> QED
    BY <2>1, PledgedBefore
<1> QED
  BY <1>10, <1>11

\* A plan adds its size to what is pledged, and to nothing else.
LEMMA SchedulePledges ==
  ASSUME RiskTypeOK, RiskTypeOK', Tasks, Tasks', queue # <<>>, queue[1].kind = "market",
         UNCHANGED <<camp, pos>>,
         NEW s, NEW setup, NEW n, Scheduled(s, setup, n)
  PROVE  \A u \in Symbols : PledgedOf(u)' = PledgedOf(u) + IF u = s THEN n ELSE 0
<1> DEFINE q == Tail(queue)
           c == Open(s, n, setup \in NeutralSetups)
<1>1. s \in Symbols /\ n \in Nat \ {0} /\ s \notin opening
  BY DEF Scheduled
<1>2. c \in Callback /\ c.kind = "open" /\ c.symbol = s /\ c.size = n
  BY <1>1 DEF Open, Callback, OpenTasks
<1>3. q \in Seq(Callback)
  BY Taken DEF RiskTypeOK
<1>4. queue' = Append(q, c) /\ opening' = opening \cup {s}
  BY DEF Scheduled, Schedule
<1>5. /\ DOMAIN queue' = 1 .. Len(q) + 1
      /\ DOMAIN q = 1 .. Len(q) /\ Len(q) \in Nat
      /\ \A i \in DOMAIN q : queue'[i] = q[i]
      /\ queue'[Len(q) + 1] = c
  BY <1>2, <1>3, <1>4, Appended
<1>6. DOMAIN q \subseteq DOMAIN queue' /\ Len(q) + 1 \in DOMAIN queue'
  BY <1>5
<1>7. IsTask(queue', Len(q) + 1, s)
  BY <1>2, <1>5, <1>6 DEF IsTask
<1>8. TaskSize(s) = 0 /\ TaskSize(s)' = n
  BY <1>1, <1>2, <1>5, <1>6, <1>7, SizesBefore, SizesAfter
<1>9. ASSUME NEW u \in Symbols, u # s
      PROVE  TaskSize(u)' = TaskSize(u)
  <2>1. \A i \in DOMAIN queue : IsTask(queue, i, u) => i # 1
    BY DEF IsTask
  <2>2. \A i \in DOMAIN queue : i # 1 => \E j \in DOMAIN q : q[j] = queue[i]
    BY MovedUp DEF RiskTypeOK
  <2>3. \A i \in DOMAIN queue : IsTask(queue, i, u) =>
          \E j \in DOMAIN queue' : queue'[j] = queue[i]
    BY <1>5, <1>6, <2>1, <2>2
  <2>4. u \in opening' <=> u \in opening
    BY <1>4, <1>9
  <2>5. TaskSize(u)' = IF u \in opening' THEN TaskSize(u) ELSE 0
    BY <2>3, <2>4, SizeKept
  <2> QED
    BY <2>4, <2>5, SizesBefore
<1> SUFFICES ASSUME NEW u \in Symbols
             PROVE  PledgedOf(u)' = PledgedOf(u) + IF u = s THEN n ELSE 0
  OBVIOUS
<1>10. pos[u] \in Nat /\ camp[u].rest \in Nat /\ TaskSize(u) \in Nat
  BY PledgedBefore, SizesBefore DEF RiskTypeOK
<1> QED
  BY <1>1, <1>8, <1>9, <1>10 DEF PledgedOf

\* So a plan that fits into the room leaves the cap exceeded by no more than
\* what the store does not show.
LEMMA ScheduleCapped ==
  ASSUME RiskTypeOK, RiskTypeOK', Tasks, Tasks', queue # <<>>, queue[1].kind = "market",
         UNCHANGED <<camp, pos>>,
         NEW s, NEW setup, NEW n, Scheduled(s, setup, n)
  PROVE  Total(Pledged') <= MaxTotal + UnseenNotional
<1>1. s \in Symbols /\ n \in Nat /\ n <= MaxTotal - Total(spos) /\ MaxTotal \in Nat
  BY SignalRiskAssumption DEF Scheduled, Room
<1>2. PICK a \in [Symbols -> Int] : a = Pledged
  BY PledgedBefore
<1>3. PICK f \in [Symbols -> Int] : f = Pledged'
  BY PledgedAfter
<1>4. PICK b \in [Symbols -> Int] : b = [u \in Symbols |-> Greater(0, Pledged[u] - spos[u])]
  <2>1. \A u \in Symbols : Pledged[u] \in Int /\ spos[u] \in Int
    <3>1. Pledged \in [Symbols -> Int] /\ spos \in [Symbols -> Nat]
      BY PledgedBefore DEF RiskTypeOK
    <3> QED
      BY <3>1
  <2>2. \A u \in Symbols : Greater(0, Pledged[u] - spos[u]) \in Int
    BY <2>1 DEF Greater
  <2> QED
    BY <2>2
<1>5. PICK p \in [Symbols -> Int] : p = spos
  BY DEF RiskTypeOK
<1> DEFINE one  == [u \in Symbols |-> IF u = s THEN n ELSE 0]
           plus == [u \in Symbols |-> a[u] + one[u]]
           sum  == [u \in Symbols |-> p[u] + b[u]]
<1>6. one \in [Symbols -> Int] /\ plus \in [Symbols -> Int] /\ sum \in [Symbols -> Int]
  BY <1>1
<1>7. \A u \in Symbols : f[u] <= plus[u]
  <2> SUFFICES ASSUME NEW u \in Symbols
               PROVE  f[u] <= plus[u]
    OBVIOUS
  <2>1. f[u] = PledgedOf(u)' /\ a[u] = PledgedOf(u)
    BY <1>2, <1>3, PledgedBefore, PledgedAfter
  <2>2. f[u] = a[u] + IF u = s THEN n ELSE 0
    BY <2>1, SchedulePledges
  <2> QED
    BY <1>6, <2>2
<1>8. \A u \in Symbols : a[u] <= sum[u]
  <2>1. \A u \in Symbols : b[u] = Greater(0, a[u] - p[u])
    BY <1>2, <1>4, <1>5
  <2>2. \A u \in Symbols : a[u] \in Int /\ p[u] \in Int /\ b[u] \in Int
    OBVIOUS
  <2>3. \A u \in Symbols : a[u] <= p[u] + b[u]
    BY <2>1, <2>2 DEF Greater
  <2> QED
    BY <2>3
<1>9. Total(one) = n
  BY <1>1, TotalOne
<1>10. Total(plus) = Total(a) + Total(one)
  BY <1>6, TotalAdds
<1>11. Total(sum) = Total(p) + Total(b)
  BY TotalAdds
<1> HIDE DEF one, plus, sum
<1>12. Total(f) <= Total(plus) /\ Total(a) <= Total(sum)
  BY <1>6, <1>7, <1>8, TotalMonotone
<1>13. Total(f) \in Int /\ Total(a) \in Int /\ Total(p) \in Int /\ Total(b) \in Int
  BY TotalType
<1>14. Total(p) = Total(spos) /\ Total(b) = UnseenNotional /\ Total(f) = Total(Pledged')
  BY <1>3, <1>4, <1>5 DEF UnseenNotional
<1> QED
  BY <1>1, <1>9, <1>10, <1>11, <1>12, <1>13, <1>14

\* Every step, whoever takes it.
LEMMA NotionalStep ==
  ASSUME RiskTypeOK, RiskTypeOK', Tasks, Tasks', [Next]_vars
  PROVE  IF planned' # planned
           THEN Total(Pledged') <= MaxTotal + UnseenNotional
           ELSE Total(Pledged') <= Total(Pledged)
<1>1. CASE Tick \/ UNCHANGED vars
  <2>1. UNCHANGED <<planned, queue, opening, camp, pos>>
    BY <1>1 DEF Tick, vars, accountVars
  <2>2. \A u \in Symbols : PledgedOf(u)' = PledgedOf(u)
    BY <2>1 DEF PledgedOf, TaskSize
  <2> QED
    BY <2>1, <2>2, PledgedBefore, PledgesFall
<1>2. ASSUME NEW s \in Symbols, Message(s)
      PROVE  Total(Pledged') <= Total(Pledged) /\ planned' = planned
  <2>1. queue' = Append(queue, Market(s)) /\ UNCHANGED <<opening, camp, pos, planned>>
    BY <1>2 DEF Message, accountVars
  <2> QED
    BY <2>1, QueuePledges, PledgesFall
<1>3. ASSUME NEW s \in Symbols, Fill(s) \/ Exit(s) \/ Deliver(s) \/ Cleanup(s)
      PROVE  Total(Pledged') <= Total(Pledged) /\ planned' = planned
  <2>1. planned' = planned
    BY <1>3 DEF Fill, Exit, Deliver, Cleanup
  <2> QED
    BY <1>3, <2>1, AccountPledges, PledgesFall
<1>4. CASE OpenTestnet
  BY <1>4, OpenFacts, OpenPledges, PledgesFall
<1>5. CASE ProcessMarketEvent
  <2>1. queue # <<>> /\ queue[1].kind = "market" /\ UNCHANGED <<camp, pos>>
    BY <1>5, MarketEventFacts
  <2>2. CASE queue' = Tail(queue) /\ UNCHANGED <<opening, planned>>
    BY <2>1, <2>2, QueuePledges, PledgesFall
  <2>3. ASSUME NEW s \in Symbols, NEW setup \in Setups, NEW n \in Nat \ {0}, Scheduled(s, setup, n)
        PROVE  Total(Pledged') <= MaxTotal + UnseenNotional /\ planned' # planned
    <3>1. Total(Pledged') <= MaxTotal + UnseenNotional
      BY <2>1, <2>3, ScheduleCapped
    <3>2. [symbol |-> s, setup |-> setup, event |-> eventTime[s]] \in CampaignId
      BY DEF CampaignId, RiskTypeOK
    <3>3. Len(planned') = Len(planned) + 1 /\ Len(planned) \in Nat
      BY <2>3, <3>2, AppendProperties, LenProperties DEF Scheduled, Schedule, RiskTypeOK
    <3> QED
      BY <3>1, <3>3
  <2> QED
    BY <1>5, <2>2, <2>3, MarketEventFacts
<1> QED
  BY <1>1, <1>2, <1>3, <1>4, <1>5 DEF Next, LoopStep

\* For any cap and any symbols: a campaign is sized so that the notional
\* pledged, positions, resting entries and tasks together, exceeds
\* max_total_notional_usdt by no more than what the store did not show of it,
\* and no other step, a fill, an open or a cleanup, pledges more.
THEOREM NotionalStaysCapped == Spec => NotionalCapped
<1>1. Init => RiskTypeOK /\ Tasks
  BY TypesInit, TasksInit
<1>2. RiskTypeOK /\ Tasks /\ [Next]_vars => RiskTypeOK' /\ Tasks'
  BY TypesStep, TasksStep
<1>3. RiskTypeOK /\ RiskTypeOK' /\ Tasks /\ Tasks' /\ [Next]_vars =>
        [IF planned' # planned
           THEN Total(Pledged') <= MaxTotal + UnseenNotional
           ELSE Total(Pledged') <= Total(Pledged)]_vars
  BY NotionalStep
<1> QED
  BY <1>1, <1>2, <1>3, PTL DEF Spec, NotionalCapped
=============================================================================
