-------------------------- MODULE DemoPreflightProofs --------------------------
(***************************************************************************)
(* Theorems about the reset of the Demo account, for any symbols, numbers  *)
(* of snapshots and faults.  No snapshot is of one moment, so each part of *)
(* the invariant says what a read, once taken, still promises: entries,    *)
(* positions and exits only go away while nobody places new ones.          *)
(***************************************************************************)
EXTENDS DemoPreflight, TLAPS

Afterwards == {"close", "flatten", "second", "algos", "verify", "leverage", "done"}
Own(S)     == {a \in S : a[2] # "manual"}
Foreign(S) == {a \in S : a[2] = "manual"}

\* Entries are those the first snapshot saw, until all are cancelled.
EntriesSeen ==
  /\ stage = "first" /\ step # "orders" => Held(entry) \subseteq snap.entries
  /\ stage = "cancel" => Held(entry) \subseteq todo
  /\ stage \in Afterwards => Held(entry) = {}

\* Once there are no entries, a flat symbol stays flat.
PositionsSeen ==
  /\ stage = "cancel" => Held(snap.position) \subseteq Universe
  /\ stage = "close" => todo \subseteq Held(snap.position) \cap Universe
  /\ stage \in {"flatten", "verify"} /\ step = "decide" =>
       Held(position) \subseteq Held(snap.position)
  /\ stage = "second" => ~found
  /\ stage = "algos" /\ found => Held(position) = {}
  /\ stage \in {"leverage", "done"} => Held(position) = {}

\* The verification has seen every exit there is.
ExitsSeen ==
  /\ stage = "verify" /\ step \in {"positions", "decide"} => Own(algos) \subseteq snap.algos
  /\ stage \in {"leverage", "done"} => Own(algos) = {}

\* While nobody trades by hand, what the first snapshot did not see is not there.
ManualSeen ==
  ~meddled =>
    /\ stage = "first" /\ step \in {"positions", "decide"} =>
         Foreign(algos) \subseteq snap.algos
    /\ stage \in Afterwards \cup {"cancel"} => Foreign(algos) = {}

\* Nobody changes the mode, so no run passes the check in a wrong one.
ModeSeen == mode # "one-way" => stage \in {"mode", "failed"}

Inv == DemoTypeOK /\ ModeSeen /\ EntriesSeen /\ PositionsSeen /\ ExitsSeen /\ ManualSeen

-----------------------------------------------------------------------------

\* The initial states satisfy the invariant.
LEMMA InitInv == Init => Inv
<1> SUFFICES ASSUME Init PROVE Inv
  OBVIOUS
<1>1. Empty \in [entries : SUBSET Symbols, manual : SUBSET ByHand,
                 algos : SUBSET Algos, position : [Symbols -> Int]]
  BY DEF Empty
<1>2. DemoTypeOK
  <2>1. position \in [Symbols -> Int] /\ 0 \in 0 .. MaxPolls - 1 /\ 0 \in 0 .. MaxFaults
    BY DemoAssumption DEF Init
  <2>2. QED
    BY <1>1, <2>1 DEF Init, DemoTypeOK, Stages, Reading, Ended
<1>3. ModeSeen /\ EntriesSeen /\ PositionsSeen /\ ExitsSeen /\ ManualSeen
  BY DEF Init, ModeSeen, EntriesSeen, PositionsSeen, ExitsSeen, ManualSeen, Afterwards
<1>4. QED
  BY <1>2, <1>3 DEF Inv

\* The exchange and the user leave it true.
LEMMA OutsideInv == Inv /\ Outside => Inv'
<1> SUFFICES ASSUME Inv, Outside PROVE Inv'
  OBVIOUS
<1> USE DEF Inv, Outside, local
<1>0. ModeSeen'
  BY DEF ModeSeen
<1>1. CASE \E s \in Symbols : FillEntry(s)
  <2> PICK s \in Symbols : FillEntry(s)
    BY <1>1
  <2>1. entry' = [entry EXCEPT ![s] = 0] /\ entry[s] # 0
    BY DEF FillEntry
  <2>2. Held(entry') \subseteq Held(entry) /\ Held(entry) # {}
    BY <2>1 DEF Held, DemoTypeOK
  <2>3. DemoTypeOK'
    <3>1. entry' \in [Symbols -> {-1, 0, 1}]
      BY <2>1 DEF DemoTypeOK
    <3>2. position' \in [Symbols -> Int]
      <4>1. position[s] + entry[s] \in Int
        BY DEF DemoTypeOK
      <4>2. QED
        BY <4>1 DEF FillEntry, DemoTypeOK
    <3>3. QED
      BY <3>1, <3>2 DEF FillEntry, DemoTypeOK
  <2>4. EntriesSeen'
    BY <2>2 DEF EntriesSeen, Afterwards
  <2>5. stage \notin Afterwards
    BY <2>2 DEF EntriesSeen
  <2>6. PositionsSeen' /\ ExitsSeen' /\ ManualSeen'
    BY <2>5 DEF FillEntry, PositionsSeen, ExitsSeen, ManualSeen, Afterwards
  <2>7. QED
    BY <1>0, <2>3, <2>4, <2>6
<1>2. CASE \E s \in Symbols : TriggerExit(s)
  <2> PICK s \in Symbols : TriggerExit(s)
    BY <1>2
  <2>1. position' = [position EXCEPT ![s] = 0] /\ algos' \subseteq algos
    BY DEF TriggerExit
  <2>2. Held(position') \subseteq Held(position)
    BY <2>1 DEF Held, DemoTypeOK
  <2>3. DemoTypeOK'
    BY <2>1 DEF TriggerExit, DemoTypeOK
  <2>4. PositionsSeen'
    BY <2>2 DEF TriggerExit, PositionsSeen
  <2>5. EntriesSeen'
    BY DEF TriggerExit, EntriesSeen
  <2>6. ExitsSeen' /\ ManualSeen'
    BY <2>1 DEF TriggerExit, ExitsSeen, ManualSeen, Own, Foreign
  <2>7. QED
    BY <1>0, <2>3, <2>4, <2>5, <2>6
<1>3. CASE \E s \in ByHand : Meddle(s)
  <2> PICK s \in ByHand : Meddle(s)
    BY <1>3
  <2>1. Own(algos') = Own(algos)
    BY DEF Meddle, Own
  <2>2. DemoTypeOK'
    BY DEF Meddle, DemoTypeOK, Algos
  <2>3. EntriesSeen' /\ PositionsSeen'
    BY DEF Meddle, EntriesSeen, PositionsSeen
  <2>4. ExitsSeen' /\ ManualSeen'
    BY <2>1 DEF Meddle, ExitsSeen, ManualSeen
  <2>5. QED
    BY <1>0, <2>2, <2>3, <2>4
<1>4. QED
  BY <1>1, <1>2, <1>3

\* Reading a part of the account leaves it true.
LEMMA ReadInv ==
  ASSUME Inv, CheckMode \/ ReadOrders \/ ReadAlgos \/ ReadPositions,
         UNCHANGED <<mode, meddled, faults>>
  PROVE  Inv'
<1> USE DEF Inv, account, Reading
<1>0. ModeSeen'
  BY DEF ModeSeen, CheckMode, OneWay, ReadOrders, ReadAlgos, ReadPositions
<1>1. DemoTypeOK'
  BY DEF CheckMode, ReadOrders, ReadAlgos, ReadPositions, Goto, DemoTypeOK, Stages, Ended, Held
<1>2. EntriesSeen'
  BY DEF CheckMode, ReadOrders, ReadAlgos, ReadPositions, Goto, EntriesSeen, DemoTypeOK,
         Afterwards
<1>3. PositionsSeen'
  BY DEF CheckMode, ReadOrders, ReadAlgos, ReadPositions, Goto, PositionsSeen, DemoTypeOK
<1>4. ExitsSeen' /\ ManualSeen'
  BY DEF CheckMode, ReadOrders, ReadAlgos, ReadPositions, Goto, ExitsSeen, ManualSeen,
         DemoTypeOK, Afterwards, Own, Foreign
<1>5. QED
  BY <1>0, <1>1, <1>2, <1>3, <1>4

\* The decisions taken on a snapshot leave it true.
LEMMA JudgeInv ==
  ASSUME Inv, JudgeFirst \/ JudgeFlat \/ JudgeClean, UNCHANGED <<mode, meddled, faults>>
  PROVE  Inv'
<1> USE DEF Inv, account, Reading
<1>0. ModeSeen'
  BY DEF ModeSeen, JudgeFirst, JudgeFlat, JudgeClean
<1>1. DemoTypeOK'
  <2>1. Universe \subseteq Symbols /\ (polls + 1 < MaxPolls => polls + 1 \in 0 .. MaxPolls - 1)
    BY DemoAssumption DEF DemoTypeOK
  <2>2. CASE JudgeFirst
    BY <2>2 DEF JudgeFirst, DemoTypeOK, Stages, Ended
  <2>3. CASE JudgeFlat
    BY <2>1, <2>3 DEF JudgeFlat, Again, Goto, DemoTypeOK, Stages, Ended
  <2>4. CASE JudgeClean
    BY <2>1, <2>4 DEF JudgeClean, Again, Goto, DemoTypeOK, Stages, Ended
  <2>5. QED
    BY <2>2, <2>3, <2>4
<1>2. EntriesSeen'
  BY DEF JudgeFirst, JudgeFlat, JudgeClean, Again, Goto, EntriesSeen, Afterwards
<1>3. PositionsSeen'
  BY DEF JudgeFirst, JudgeFlat, JudgeClean, Again, Goto, PositionsSeen, Refused, MayUncover,
         Flat, Clean
<1>4. ExitsSeen'
  BY DEF JudgeFirst, JudgeFlat, JudgeClean, Again, Goto, ExitsSeen, Clean
<1>5. ManualSeen'
  <2>1. CASE JudgeFirst
    BY <2>1 DEF JudgeFirst, ManualSeen, Refused, Foreign, Afterwards
  <2>2. CASE JudgeFlat \/ JudgeClean
    BY <2>2 DEF JudgeFlat, JudgeClean, Again, Goto, ManualSeen, Afterwards
  <2>3. QED
    BY <2>1, <2>2
<1>6. QED
  BY <1>0, <1>1, <1>2, <1>3, <1>4, <1>5

\* So does every call that cancels, closes or pins.
LEMMA ActInv ==
  ASSUME Inv, UNCHANGED <<mode, meddled>>,
         \/ CancelEntry /\ UNCHANGED faults
         \/ EntriesCanceled /\ UNCHANGED faults
         \/ ClosePosition /\ UNCHANGED faults
         \/ CloseUnfilled
         \/ Closed /\ UNCHANGED faults
         \/ CancelAlgo /\ UNCHANGED faults
         \/ AlgosCanceled /\ UNCHANGED faults
         \/ PinLeverage /\ UNCHANGED faults
  PROVE  Inv'
<1> USE DEF Inv, account
<1>0. ModeSeen'
  BY DEF ModeSeen, CancelEntry, EntriesCanceled, ClosePosition, CloseUnfilled, Closed, CancelAlgo,
         AlgosCanceled, PinLeverage
<1>1. CASE CancelEntry /\ UNCHANGED faults
  <2> PICK s \in todo : entry' = [entry EXCEPT ![s] = 0] /\ todo' = todo \ {s}
    BY <1>1 DEF CancelEntry
  <2>1. Held(entry') \subseteq Held(entry) \ {s}
    BY DEF Held, DemoTypeOK
  <2>2. DemoTypeOK'
    BY <1>1 DEF CancelEntry, DemoTypeOK
  <2>3. EntriesSeen'
    BY <1>1, <2>1 DEF CancelEntry, EntriesSeen, Afterwards
  <2>4. PositionsSeen' /\ ExitsSeen' /\ ManualSeen'
    BY <1>1 DEF CancelEntry, PositionsSeen, ExitsSeen, ManualSeen
  <2>5. QED
    BY <1>0, <2>2, <2>3, <2>4
<1>2. CASE EntriesCanceled /\ UNCHANGED faults
  <2>1. DemoTypeOK'
    BY <1>2 DEF EntriesCanceled, DemoTypeOK, Stages, Held
  <2>2. EntriesSeen' /\ PositionsSeen' /\ ExitsSeen' /\ ManualSeen'
    BY <1>2 DEF EntriesCanceled, EntriesSeen, PositionsSeen, ExitsSeen, ManualSeen, Afterwards
  <2>3. QED
    BY <1>0, <2>1, <2>2
<1>3. CASE ClosePosition /\ UNCHANGED faults
  <2> PICK s \in todo :
        IF position[s] * snap.position[s] > 0
        THEN /\ position' = [position EXCEPT ![s] = Reduced(@, snap.position[s])]
             /\ todo' = todo \ {s}
             /\ UNCHANGED stage
        ELSE stage' = "failed" /\ UNCHANGED <<position, todo>>
    BY <1>3 DEF ClosePosition
  <2>1. s \in Symbols
    BY <1>3 DEF ClosePosition, PositionsSeen, Held
  <2>2. Reduced(position[s], snap.position[s]) \in Int
    BY <2>1 DEF Reduced, DemoTypeOK
  <2>3. position' \in [Symbols -> Int]
    BY <2>2 DEF DemoTypeOK
  <2>4. DemoTypeOK'
    BY <1>3, <2>3 DEF ClosePosition, DemoTypeOK, Stages, Ended
  <2>5. EntriesSeen' /\ PositionsSeen' /\ ExitsSeen' /\ ManualSeen'
    BY <1>3 DEF ClosePosition, EntriesSeen, PositionsSeen, ExitsSeen, ManualSeen, Afterwards
  <2>6. QED
    BY <1>0, <2>4, <2>5
<1>4. CASE CloseUnfilled
  <2>1. DemoTypeOK'
    BY <1>4, DemoAssumption DEF CloseUnfilled, DemoTypeOK
  <2>2. EntriesSeen' /\ PositionsSeen' /\ ExitsSeen' /\ ManualSeen'
    BY <1>4 DEF CloseUnfilled, EntriesSeen, PositionsSeen, ExitsSeen, ManualSeen
  <2>3. QED
    BY <1>0, <2>1, <2>2
<1>5. CASE Closed /\ UNCHANGED faults
  <2>1. DemoTypeOK'
    BY <1>5, DemoAssumption DEF Closed, Goto, DemoTypeOK, Stages, Reading
  <2>2. EntriesSeen' /\ PositionsSeen' /\ ExitsSeen' /\ ManualSeen'
    BY <1>5 DEF Closed, Goto, EntriesSeen, PositionsSeen, ExitsSeen, ManualSeen, Afterwards
  <2>3. QED
    BY <1>0, <2>1, <2>2
<1>6. CASE CancelAlgo /\ UNCHANGED faults
  <2>1. algos' \subseteq algos /\ todo' \subseteq todo
    BY <1>6 DEF CancelAlgo
  <2>2. DemoTypeOK'
    BY <1>6, <2>1 DEF CancelAlgo, DemoTypeOK
  <2>3. EntriesSeen' /\ PositionsSeen'
    BY <1>6 DEF CancelAlgo, EntriesSeen, PositionsSeen
  <2>4. ExitsSeen' /\ ManualSeen'
    BY <1>6, <2>1 DEF CancelAlgo, ExitsSeen, ManualSeen, Own, Foreign
  <2>5. QED
    BY <1>0, <2>2, <2>3, <2>4
<1>7. CASE AlgosCanceled /\ UNCHANGED faults
  <2>1. DemoTypeOK'
    BY <1>7, DemoAssumption DEF AlgosCanceled, Goto, DemoTypeOK, Stages, Reading
  <2>2. EntriesSeen' /\ PositionsSeen' /\ ExitsSeen' /\ ManualSeen'
    BY <1>7 DEF AlgosCanceled, Goto, EntriesSeen, PositionsSeen, ExitsSeen, ManualSeen,
                Afterwards
  <2>3. QED
    BY <1>0, <2>1, <2>2
<1>8. CASE PinLeverage /\ UNCHANGED faults
  <2>1. DemoTypeOK'
    BY <1>8 DEF PinLeverage, DemoTypeOK, Stages, Ended
  <2>2. EntriesSeen' /\ PositionsSeen' /\ ExitsSeen' /\ ManualSeen'
    BY <1>8 DEF PinLeverage, EntriesSeen, PositionsSeen, ExitsSeen, ManualSeen, Afterwards
  <2>3. QED
    BY <1>0, <2>1, <2>2
<1>9. QED
  BY <1>1, <1>2, <1>3, <1>4, <1>5, <1>6, <1>7, <1>8

\* A run that ends or starts promises nothing yet.
LEMMA RunInv == Inv /\ (Fault \/ Start) => Inv'
<1> SUFFICES ASSUME Inv, Fault \/ Start PROVE Inv'
  OBVIOUS
<1> USE DEF Inv, account
<1>1. Empty \in [entries : SUBSET Symbols, manual : SUBSET ByHand,
                 algos : SUBSET Algos, position : [Symbols -> Int]]
  BY DEF Empty
<1>2. DemoTypeOK'
  <2>1. CASE Fault
    BY <2>1, DemoAssumption DEF Fault, DemoTypeOK, Stages, Ended
  <2>2. CASE Start
    <3>1. 0 \in 0 .. MaxPolls - 1
      BY DemoAssumption
    <3>2. QED
      BY <2>2, <3>1, <1>1 DEF Start, Goto, DemoTypeOK, Stages, Ended, Reading
  <2>3. QED
    BY <2>1, <2>2
<1>3. ModeSeen' /\ EntriesSeen' /\ PositionsSeen' /\ ExitsSeen' /\ ManualSeen'
  BY DEF Fault, Start, Goto, ModeSeen, EntriesSeen, PositionsSeen, ExitsSeen, ManualSeen, Afterwards
<1>4. QED
  BY <1>2, <1>3

\* The invariant holds of every reachable state.
THEOREM DemoInvariant == Spec => []Inv
<1>1. Inv /\ [Next]_vars => Inv'
  <2> SUFFICES ASSUME Inv, [Next]_vars PROVE Inv'
    OBVIOUS
  <2>1. CASE UNCHANGED vars
    BY <2>1 DEF vars, account, local, Inv, DemoTypeOK, ModeSeen, EntriesSeen, PositionsSeen,
               ExitsSeen, ManualSeen
  <2>2. CASE Outside
    BY <2>2, OutsideInv
  <2>3. CASE Call
    BY <2>3, ReadInv, JudgeInv, ActInv DEF Call
  <2>4. CASE CloseUnfilled
    BY <2>4, ActInv DEF CloseUnfilled
  <2>5. CASE Fault \/ Start
    BY <2>5, RunInv
  <2>6. QED
    BY <2>1, <2>2, <2>3, <2>4, <2>5 DEF Next
<1>2. QED
  BY <1>1, InitInv, PTL DEF Spec

\* Types.
THEOREM DemoTypes == Spec => []DemoTypeOK
<1>1. Inv => DemoTypeOK
  BY DEF Inv
<1>2. QED
  BY <1>1, DemoInvariant, PTL

\* A preflight that lets the run start has left no entry, exit or position of
\* SignalGrid, however its snapshots were torn.
THEOREM DemoEndsClean == Spec => []CleanWhenDone
<1>1. Inv => CleanWhenDone
  BY DEF Inv, EntriesSeen, PositionsSeen, ExitsSeen, CleanWhenDone, Afterwards, Own
<1>2. QED
  BY <1>1, DemoInvariant, PTL

\* A run that has seen a position uncovers none.
THEOREM DemoKeepsExits == Spec => ExitsUntilFlat
<1>1. ASSUME Inv, [Next]_vars, NEW s \in Symbols, stage = "algos", found
      PROVE  position[s] = 0
  BY <1>1 DEF Inv, PositionsSeen, Held
<1>2. Inv /\ [Next]_vars =>
        [\A s \in Symbols :
           stage = "algos" /\ found /\ (\E k \in Exits : <<s, k>> \in algos \ algos')
             => position[s] = 0]_vars
  BY <1>1
<1>3. QED
  BY <1>2, DemoInvariant, PTL DEF Spec, ExitsUntilFlat

\* Orders of somebody else, positions outside the universe, and an account not
\* known to be in one-way mode are left alone.
THEOREM DemoHandsOff == Spec => HandsOff
<1> DEFINE Safe ==
      /\ manual \subseteq manual'
      /\ meddled \/ \A a \in algos \ algos' : a[2] # "manual"
      /\ stage = "close" /\ todo' # todo =>
           \A s \in Symbols \ Universe : position'[s] = position[s]
      /\ mode # "one-way" /\ local' # local => UNCHANGED account
<1>1. Inv /\ [Next]_vars => [Safe]_vars
  <2> SUFFICES ASSUME Inv, Next PROVE Safe
    OBVIOUS
  <2>1. manual \subseteq manual'
    BY DEF Next, Outside, FillEntry, TriggerExit, Meddle, Call, CheckMode, ReadOrders, ReadAlgos,
           ReadPositions, JudgeFirst, CancelEntry, EntriesCanceled, ClosePosition, Closed,
           JudgeFlat, CancelAlgo, AlgosCanceled, JudgeClean, PinLeverage, CloseUnfilled, Fault,
           Start, account
  <2>2. meddled \/ \A a \in algos \ algos' : a[2] # "manual"
    <3>1. CASE Outside
      <4>1. ASSUME NEW s \in Symbols, NEW k \in Exits PROVE <<s, k>>[2] # "manual"
        BY DEF Exits
      <4>2. QED
        BY <3>1, <4>1 DEF Outside, FillEntry, TriggerExit, Meddle
    <3>2. CASE CancelAlgo
      BY <3>2 DEF CancelAlgo, Inv, ManualSeen, Afterwards, Foreign
    <3>3. CASE UNCHANGED algos
      BY <3>3
    <3>4. QED
      BY <3>1, <3>2, <3>3
      DEF Next, Call, CheckMode, ReadOrders, ReadAlgos, ReadPositions, JudgeFirst, CancelEntry,
          EntriesCanceled, ClosePosition, Closed, JudgeFlat, AlgosCanceled, JudgeClean,
          PinLeverage, CloseUnfilled, Fault, Start, account
  <2>3. ASSUME stage = "close", todo' # todo, NEW s \in Symbols \ Universe
        PROVE  position'[s] = position[s]
    <3>1. CASE ClosePosition
      BY <2>3, <3>1 DEF ClosePosition, Inv, PositionsSeen, DemoTypeOK
    <3>2. CASE UNCHANGED position
      BY <3>2
    <3>3. QED
      BY <2>3, <3>1, <3>2
      DEF Next, Outside, local, Call, CheckMode, ReadOrders, ReadAlgos, ReadPositions, JudgeFirst,
          CancelEntry, EntriesCanceled, Closed, JudgeFlat, CancelAlgo, AlgosCanceled, JudgeClean,
          PinLeverage, CloseUnfilled, Fault, Start, account
  <2>4. mode # "one-way" /\ local' # local => UNCHANGED account
    <3>1. mode # "one-way" => stage \in {"mode", "failed"}
      BY DEF Inv, ModeSeen
    <3>2. QED
      BY <3>1
      DEF Next, Outside, Call, CheckMode, ReadOrders, ReadAlgos, ReadPositions, JudgeFirst,
          CancelEntry, EntriesCanceled, ClosePosition, Closed, JudgeFlat, CancelAlgo,
          AlgosCanceled, JudgeClean, PinLeverage, CloseUnfilled, Fault, Start, Reading
  <2>5. QED
    BY <2>1, <2>2, <2>3, <2>4
<1>2. QED
  BY <1>1, DemoInvariant, PTL DEF Spec, HandsOff
=============================================================================
