-------------------------- MODULE WalkForwardProofs --------------------------
(***************************************************************************)
(* Theorems about the walk-forward evaluation, for any number of bars and  *)
(* candidates, any window sizes and any signals.                           *)
(***************************************************************************)
EXTENDS WalkForward, SequenceTheorems, TLAPS

\* A trade as run_backtest makes them.
Sound(t) ==
  /\ t.entry = t.signal + 1 /\ t.entry <= t.exit
  /\ t.exit - t.entry < config.hold
Apart(t, u) == t.exit < u.entry \/ u.exit < t.entry

\* The replay: one position at a time, nothing ahead of the bar.
PendingOK ==
  pending # NoSignal => pending + 1 = bar /\ bar < SliceEnd /\ position = NoPosition
PositionOK ==
  position # NoPosition =>
    /\ position.entry = position.signal + 1 /\ position.entry < bar
    /\ bar - position.entry < config.hold
    /\ InWindow(position.entry)
    /\ \A t \in trades : t.exit < position.entry
TradesOK ==
  /\ \A t \in trades : Sound(t) /\ t.exit < bar /\ InWindow(t.entry)
  /\ \A t, u \in trades : t # u => Apart(t, u)
ReplayInv == bar <= SliceEnd /\ PendingOK /\ PositionOK /\ TradesOK

\* The folds: each out-of-sample trade in its own, all before this one.
OosOK ==
  /\ \A t \in oos : Sound(t)
  /\ OosInTestWindow
  /\ config.step >= config.test => \A t \in oos : t.exit < TrainEnd
  /\ OosCountedOnce

WalkInv == WalkTypeOK /\ ReplayInv /\ OosOK

-----------------------------------------------------------------------------
(* The sizes of a configuration, and the types that replays keep. *)

LEMMA ConfigFacts ==
  ASSUME WalkTypeOK
  PROVE  /\ config.train \in Nat \ {0} /\ config.test \in Nat \ {0}
         /\ config.step \in Nat \ {0} /\ config.hold \in Nat \ {0}
         /\ config.warmup \in Nat /\ config.trades \in Nat
         /\ TrainEnd \in Nat /\ TestEnd \in Nat /\ SliceEnd \in Nat
         /\ ContextStart \in Nat /\ ContextStart <= TrainEnd /\ trainStart < TrainEnd
         /\ TrainEnd < TestEnd
<1>1. config \in [train : Nat \ {0}, test : Nat \ {0}, step : Nat \ {0},
                  warmup : Nat, trades : Nat, hold : Nat \ {0}]
  BY WalkForwardAssumption DEF WalkTypeOK
<1>2. trainStart \in Nat
  BY DEF WalkTypeOK
<1> QED
  BY <1>1, <1>2 DEF TrainEnd, TestEnd, SliceEnd, ContextStart

\* The trades of a finished replay.
LEMMA ResultFacts ==
  ASSUME WalkTypeOK, ReplayInv, bar = SliceEnd
  PROVE  /\ Result \subseteq Trade
         /\ \A t \in Result : Sound(t) /\ t.exit < SliceEnd /\ InWindow(t.entry)
         /\ \A t, u \in Result : t # u => Apart(t, u)
<1>1. SliceEnd \in Nat /\ config.hold \in Nat
  BY ConfigFacts
<1>2. trades \subseteq Trade
  BY DEF WalkTypeOK
<1>3. CASE position = NoPosition
  BY <1>2, <1>3 DEF Result, ReplayInv, TradesOK
<1>4. CASE position # NoPosition
  <2> DEFINE last == Closed(position, SliceEnd - 1)
  <2>1. position \in Position
    BY <1>4 DEF WalkTypeOK
  <2>2. /\ position.entry = position.signal + 1 /\ position.entry < SliceEnd
        /\ SliceEnd - position.entry < config.hold
        /\ InWindow(position.entry)
        /\ \A t \in trades : t.exit < position.entry
    BY <1>4 DEF ReplayInv, PositionOK
  <2>3. position.signal \in Nat /\ position.entry \in Nat
    BY <2>1 DEF Position
  <2>4. /\ last.signal = position.signal /\ last.entry = position.entry
        /\ last.exit = SliceEnd - 1 /\ last \in Trade
    BY <1>1, <2>2, <2>3 DEF Closed, Trade
  <2>5. Sound(last) /\ last.exit < SliceEnd /\ InWindow(last.entry)
    BY <1>1, <2>2, <2>3, <2>4 DEF Sound
  <2>6. \A t \in trades : Apart(t, last) /\ Apart(last, t)
    BY <2>2, <2>4 DEF Apart
  <2>7. Result = trades \cup {last}
    BY <1>4 DEF Result
  <2>8. \A t \in trades : Sound(t) /\ t.exit < SliceEnd /\ InWindow(t.entry)
    BY DEF ReplayInv, TradesOK
  <2>9. \A t, u \in trades : t # u => Apart(t, u)
    BY DEF ReplayInv, TradesOK
  <2> HIDE DEF last
  <2> QED
    BY <1>2, <2>4, <2>5, <2>6, <2>7, <2>8, <2>9
<1> QED
  BY <1>3, <1>4

-----------------------------------------------------------------------------
(* One bar. *)

\* What the bar leaves in each outcome: nothing new, a position, or a trade.
LEMMA BarFacts ==
  ASSUME WalkTypeOK, ReplayInv, ReplayBar
  PROVE  /\ bar \in Nat /\ bar' = bar + 1 /\ bar < SliceEnd /\ phase # "done"
         /\ UNCHANGED <<config, trainStart, phase, candidate, ranked, folds, oos>>
         /\ \/ pending' = NoSignal
            \/ pending' = bar /\ bar + 1 < SliceEnd /\ position' = NoPosition
         /\ \E held \in Position \cup {NoPosition} :
              /\ held # NoPosition =>
                   /\ held.entry = held.signal + 1 /\ held.entry <= bar
                   /\ bar - held.entry < config.hold
                   /\ InWindow(held.entry)
                   /\ \A t \in trades : t.exit < held.entry
              /\ \/ /\ position' = held /\ trades' = trades
                    /\ held # NoPosition => bar - held.entry + 1 < config.hold
                 \/ /\ held # NoPosition /\ position' = NoPosition
                    /\ trades' = trades \cup {Closed(held, bar)}
<1>1. /\ bar \in Nat /\ bar' = bar + 1 /\ bar < SliceEnd /\ phase # "done"
      /\ UNCHANGED <<config, trainStart, phase, candidate, ranked, folds, oos>>
  BY DEF ReplayBar, WalkTypeOK
<1>2. PICK invalid, stop, signal \in BOOLEAN :
        LET held == Executed(invalid)
            out  == Exits(held, stop)
            left == IF out THEN NoPosition ELSE held
        IN  /\ trades' = IF out THEN trades \cup {Closed(held, bar)} ELSE trades
            /\ position' = left
            /\ pending' = IF signal /\ MayDecide(left) THEN bar ELSE StillPending
  BY DEF ReplayBar
<1> DEFINE held == Executed(invalid)
<1>3. config.hold \in Nat \ {0} /\ SliceEnd \in Nat
  BY ConfigFacts
<1>4. held \in Position \cup {NoPosition}
  BY <1>1 DEF Executed, Position, WalkTypeOK
<1>5. ASSUME held # NoPosition
      PROVE  /\ held.entry = held.signal + 1 /\ held.entry <= bar
             /\ bar - held.entry < config.hold
             /\ InWindow(held.entry)
             /\ \A t \in trades : t.exit < held.entry
  <2>1. CASE held = position
    <3>1. position \in Position /\ position # NoPosition
      BY <1>5, <2>1 DEF WalkTypeOK
    <3> QED
      BY <1>1, <2>1, <3>1 DEF ReplayInv, PositionOK, Position
  <2>2. CASE held # position
    <3>1. /\ held = [signal |-> pending, entry |-> bar] /\ pending # NoSignal /\ InWindow(bar)
      BY <2>2 DEF Executed
    <3>2. pending + 1 = bar /\ \A t \in trades : t.exit < bar
      BY <3>1 DEF ReplayInv, PendingOK, TradesOK
    <3>3. held.entry = bar /\ held.signal = pending
      BY <3>1
    <3> QED
      BY <1>1, <1>3, <3>1, <3>2, <3>3
  <2> QED
    BY <2>1, <2>2
<1>6. \/ /\ position' = held /\ trades' = trades
         /\ held # NoPosition => ~HeldOut(held)
      \/ /\ held # NoPosition /\ position' = NoPosition
         /\ trades' = trades \cup {Closed(held, bar)}
  BY <1>2 DEF Exits
<1>7. held # NoPosition => held.entry \in Nat
  BY <1>4 DEF Position
<1>8. held # NoPosition /\ ~HeldOut(held) => bar - held.entry + 1 < config.hold
  BY <1>1, <1>3, <1>7 DEF HeldOut
<1>9. \/ pending' = NoSignal
      \/ pending' = bar /\ bar + 1 < SliceEnd /\ position' = NoPosition
  BY <1>2 DEF MayDecide, StillPending, ReplayInv, PendingOK
<1> HIDE DEF held
<1> QED
  BY <1>1, <1>4, <1>5, <1>6, <1>8, <1>9

LEMMA BarKeepsInv ==
  ASSUME WalkInv, ReplayBar
  PROVE  WalkInv'
<1>1. /\ bar \in Nat /\ bar' = bar + 1 /\ bar < SliceEnd /\ phase # "done"
      /\ UNCHANGED <<config, trainStart, phase, candidate, ranked, folds, oos>>
      /\ \/ pending' = NoSignal
         \/ pending' = bar /\ bar + 1 < SliceEnd /\ position' = NoPosition
  BY BarFacts DEF WalkInv
<1>2. PICK held \in Position \cup {NoPosition} :
        /\ held # NoPosition =>
             /\ held.entry = held.signal + 1 /\ held.entry <= bar
             /\ bar - held.entry < config.hold
             /\ InWindow(held.entry)
             /\ \A t \in trades : t.exit < held.entry
        /\ \/ /\ position' = held /\ trades' = trades
              /\ held # NoPosition => bar - held.entry + 1 < config.hold
           \/ /\ held # NoPosition /\ position' = NoPosition
              /\ trades' = trades \cup {Closed(held, bar)}
  BY BarFacts DEF WalkInv
<1>3. /\ SliceEnd' = SliceEnd /\ TrainEnd' = TrainEnd /\ SliceEnd \in Nat
      /\ config.hold \in Nat
      /\ \A b : InWindow(b)' <=> InWindow(b)
  BY <1>1, ConfigFacts DEF WalkInv, SliceEnd, TestEnd, TrainEnd, InWindow
<1>4. bar' <= SliceEnd'
  BY <1>1, <1>3
<1>5. PendingOK'
  BY <1>1, <1>3 DEF PendingOK
<1>6. trades \subseteq Trade /\ TradesOK
  BY DEF WalkInv, WalkTypeOK, ReplayInv
<1>7. \A t \in trades : t.signal \in Nat /\ t.entry \in Nat /\ t.exit \in Nat
  BY <1>6 DEF Trade
<1>8. CASE position' = held /\ trades' = trades /\ (held # NoPosition => bar - held.entry + 1 < config.hold)
  <2>1. PositionOK'
    <3> SUFFICES ASSUME held # NoPosition
                 PROVE  PositionOK'
      BY <1>8 DEF PositionOK
    <3>1. held.entry \in Nat /\ held.signal \in Nat
      BY DEF Position
    <3>2. /\ held.entry = held.signal + 1 /\ held.entry <= bar
          /\ InWindow(held.entry) /\ \A t \in trades : t.exit < held.entry
          /\ bar - held.entry + 1 < config.hold
      BY <1>2, <1>8
    <3>3. held.entry < bar' /\ bar' - held.entry < config'.hold
      BY <1>1, <1>3, <3>1, <3>2
    <3> QED
      BY <1>1, <1>3, <1>8, <3>2, <3>3 DEF PositionOK
  <2>2. TradesOK'
    <3>1. \A t \in trades : t.exit < bar'
      BY <1>1, <1>6, <1>7 DEF TradesOK
    <3> QED
      BY <1>1, <1>3, <1>6, <1>8, <3>1 DEF TradesOK, Sound, Apart
  <2>3. WalkTypeOK'
    BY <1>1, <1>8 DEF WalkInv, WalkTypeOK
  <2> QED
    BY <1>1, <1>3, <1>4, <1>5, <2>1, <2>2, <2>3
    DEF WalkInv, ReplayInv, OosOK, OosInTestWindow, OosCountedOnce, Sound, TrainEnd
<1>9. CASE /\ held # NoPosition /\ position' = NoPosition
           /\ trades' = trades \cup {Closed(held, bar)}
  <2> DEFINE new == Closed(held, bar)
  <2>1. held.entry \in Nat /\ held.signal \in Nat
    BY <1>9 DEF Position
  <2>2. /\ held.entry = held.signal + 1 /\ held.entry <= bar
        /\ bar - held.entry < config.hold
        /\ InWindow(held.entry) /\ \A t \in trades : t.exit < held.entry
    BY <1>2, <1>9
  <2>3. new.entry = held.entry /\ new.signal = held.signal /\ new.exit = bar /\ new \in Trade
    BY <1>1, <2>1 DEF Closed, Trade
  <2>4. Sound(new) /\ new.exit < bar' /\ InWindow(new.entry)
    BY <1>1, <2>2, <2>3 DEF Sound
  <2>5. \A t \in trades : Apart(t, new) /\ Apart(new, t)
    BY <2>2, <2>3 DEF Apart
  <2>6. PositionOK'
    BY <1>9 DEF PositionOK
  <2>7. trades' = trades \cup {new}
    BY <1>9
  <2>8. \A t \in trades : t.exit < bar' /\ Sound(t) /\ InWindow(t.entry)
    BY <1>1, <1>6, <1>7 DEF TradesOK
  <2>9. \A t, u \in trades : t # u => Apart(t, u)
    BY <1>6 DEF TradesOK
  <2> HIDE DEF new
  <2>10. \A t, u \in trades' : t # u => Apart(t, u)
    BY <2>5, <2>7, <2>9
  <2>11. \A t \in trades' : t.exit < bar' /\ Sound(t) /\ InWindow(t.entry)
    BY <2>4, <2>7, <2>8
  <2>12. TradesOK'
    BY <1>1, <1>3, <2>10, <2>11 DEF TradesOK, Sound, Apart
  <2>13. WalkTypeOK'
    BY <1>1, <1>6, <1>9, <2>3, <2>7 DEF WalkInv, WalkTypeOK
  <2> QED
    BY <1>1, <1>3, <1>4, <1>5, <2>6, <2>12, <2>13
    DEF WalkInv, ReplayInv, OosOK, OosInTestWindow, OosCountedOnce, Sound, TrainEnd
<1> QED
  BY <1>2, <1>8, <1>9

-----------------------------------------------------------------------------
(* Between replays. *)

\* A replay begins with nothing behind it.
LEMMA ReplayBegins ==
  ASSUME NEW s \in Nat, Replay(s), s <= SliceEnd'
  PROVE  /\ ReplayInv'
         /\ bar' \in Nat /\ pending' \in Nat \cup {NoSignal}
         /\ position' \in Position \cup {NoPosition} /\ trades' \subseteq Trade
BY DEF Replay, ReplayInv, PendingOK, PositionOK, TradesOK

LEMMA RankedTypes ==
  ASSUME WalkTypeOK
  PROVE  Ranked \subseteq 1 .. Candidates
BY DEF Ranked, WalkTypeOK

\* Within a fold the out-of-sample trades and the windows stay.
LEMMA SameFold ==
  ASSUME WalkInv, UNCHANGED <<config, trainStart, folds, oos>>
  PROVE  OosOK' /\ TrainEnd' = TrainEnd /\ TestEnd' = TestEnd
BY DEF WalkInv, OosOK, OosInTestWindow, OosCountedOnce, Sound, TrainEnd, TestEnd

LEMMA NextCandidateKeepsInv ==
  ASSUME WalkInv, NextCandidate
  PROVE  WalkInv'
<1>1. /\ phase' = "train" /\ phase = "train" /\ candidate < Candidates
      /\ candidate' = candidate + 1 /\ ranked' = Ranked
      /\ Replay(trainStart)
      /\ UNCHANGED <<config, trainStart, phase, folds, oos>>
  BY DEF NextCandidate
<1>2. WalkTypeOK /\ trainStart \in Nat /\ candidate \in 1 .. Candidates
  BY DEF WalkInv, WalkTypeOK
<1>3. OosOK' /\ TrainEnd' = TrainEnd
  BY <1>1, SameFold
<1>4. trainStart <= SliceEnd'
  BY <1>1, <1>2, <1>3, ConfigFacts DEF SliceEnd
<1>5. /\ ReplayInv' /\ bar' \in Nat /\ pending' \in Nat \cup {NoSignal}
      /\ position' \in Position \cup {NoPosition} /\ trades' \subseteq Trade
  BY <1>1, <1>2, <1>4, ReplayBegins
<1>6. candidate' \in 1 .. Candidates
  BY <1>1, <1>2, WalkForwardAssumption
<1>7. ranked' \subseteq 1 .. Candidates
  BY <1>1, <1>2, RankedTypes
<1>8. WalkTypeOK'
  BY <1>1, <1>2, <1>5, <1>6, <1>7 DEF WalkTypeOK
<1> QED
  BY <1>3, <1>5, <1>8 DEF WalkInv

LEMMA SelectKeepsInv ==
  ASSUME WalkInv, Select
  PROVE  WalkInv'
<1>1. /\ phase' = "test" /\ candidate' \in Ranked /\ ranked' = Ranked
      /\ Replay(ContextStart)
      /\ UNCHANGED <<config, trainStart, folds, oos>>
  BY DEF Select
<1>2. WalkTypeOK /\ Ranked \subseteq 1 .. Candidates
  BY RankedTypes DEF WalkInv
<1>3. OosOK' /\ TestEnd' = TestEnd
  BY <1>1, SameFold
<1>4. ContextStart \in Nat /\ ContextStart <= SliceEnd'
  BY <1>1, <1>2, <1>3, ConfigFacts DEF SliceEnd
<1>5. /\ ReplayInv' /\ bar' \in Nat /\ pending' \in Nat \cup {NoSignal}
      /\ position' \in Position \cup {NoPosition} /\ trades' \subseteq Trade
  BY <1>1, <1>4, ReplayBegins
<1>6. WalkTypeOK'
  BY <1>1, <1>2, <1>5 DEF WalkTypeOK
<1> QED
  BY <1>3, <1>5, <1>6 DEF WalkInv

\* The fold that ends, whether a candidate was tested or none was selected.
LEMMA FoldEnds ==
  ASSUME WalkInv, NEW selected \in 0 .. Candidates, FinishFold(selected), config' = config
  PROVE  /\ ReplayInv'
         /\ oos' \subseteq OosTrade => WalkTypeOK'
         /\ folds' = Append(folds, [start |-> trainStart, selected |-> selected])
         /\ TrainEnd' = TrainEnd + config.step
         /\ \A i \in DOMAIN folds : i \in DOMAIN folds' /\ folds'[i] = folds[i]
         /\ Len(folds) + 1 \in DOMAIN folds'
         /\ folds'[Len(folds) + 1] = [start |-> trainStart, selected |-> selected]
<1>1. /\ folds' = Append(folds, [start |-> trainStart, selected |-> selected])
      /\ trainStart' = trainStart + config.step
      /\ phase' \in {"train", "done"} /\ candidate' = 1 /\ ranked' = {}
      /\ Replay(trainStart + config.step)
  BY DEF FinishFold, Step
<1>2. WalkTypeOK /\ trainStart \in Nat /\ folds \in Seq(Fold)
  BY DEF WalkInv, WalkTypeOK
<1>3. /\ config.step \in Nat \ {0} /\ config.train \in Nat /\ config.test \in Nat
  BY <1>2, ConfigFacts
<1>4. TrainEnd' = TrainEnd + config.step
  BY <1>1, <1>2, <1>3 DEF TrainEnd
<1>5. /\ trainStart + config.step \in Nat
      /\ trainStart + config.step <= SliceEnd'
  <2>1. \/ SliceEnd' = trainStart' + config'.train
        \/ SliceEnd' = (trainStart' + config'.train) + config'.test
    BY DEF TrainEnd, TestEnd, SliceEnd
  <2>2. config' = config
    OBVIOUS
  <2> QED
    BY <1>1, <1>2, <1>3, <2>1, <2>2
<1>6. /\ ReplayInv' /\ bar' \in Nat /\ pending' \in Nat \cup {NoSignal}
      /\ position' \in Position \cup {NoPosition} /\ trades' \subseteq Trade
  BY <1>1, <1>5, ReplayBegins
<1>7. [start |-> trainStart, selected |-> selected] \in Fold
  BY <1>2 DEF Fold
<1>8. /\ folds' \in Seq(Fold) /\ Len(folds') = Len(folds) + 1
      /\ folds'[Len(folds) + 1] = [start |-> trainStart, selected |-> selected]
      /\ \A i \in 1 .. Len(folds) : folds'[i] = folds[i]
  BY <1>1, <1>2, <1>7, AppendProperties
<1>9. Len(folds) \in Nat /\ DOMAIN folds = 1 .. Len(folds) /\ DOMAIN folds' = 1 .. Len(folds')
  BY <1>2, <1>8, LenProperties
<1>10. \A i \in DOMAIN folds : i \in DOMAIN folds' /\ folds'[i] = folds[i]
  BY <1>8, <1>9
<1>11. Len(folds) + 1 \in DOMAIN folds'
  BY <1>8, <1>9
<1>12. candidate' \in 1 .. Candidates
  BY <1>1, WalkForwardAssumption
<1>13. oos' \subseteq OosTrade => WalkTypeOK'
  BY <1>1, <1>2, <1>5, <1>6, <1>8, <1>12 DEF WalkTypeOK
<1> QED
  BY <1>1, <1>4, <1>6, <1>8, <1>10, <1>11, <1>13

\* The trades of earlier folds stay where they are, before what comes.
LEMMA OldTrades ==
  ASSUME WalkInv, NEW selected \in 0 .. Candidates, FinishFold(selected), config' = config,
         NEW t \in oos
  PROVE  /\ Sound(t) /\ t.fold \in DOMAIN folds' /\ folds'[t.fold].selected # 0
         /\ folds'[t.fold].start + config'.train <= t.entry
         /\ t.exit < folds'[t.fold].start + config'.train + config'.test
         /\ config.step >= config.test => t.exit < TrainEnd /\ t.exit < TrainEnd'
<1>1. /\ t.fold \in DOMAIN folds /\ folds[t.fold].selected # 0
      /\ folds[t.fold].start + config.train <= t.entry
      /\ t.exit < folds[t.fold].start + config.train + config.test
      /\ Sound(t)
      /\ config.step >= config.test => t.exit < TrainEnd
  BY DEF WalkInv, OosOK, OosInTestWindow
<1>2. t.fold \in DOMAIN folds' /\ folds'[t.fold] = folds[t.fold]
  BY <1>1, FoldEnds
<1>3. TrainEnd' = TrainEnd + config.step /\ TrainEnd \in Nat /\ config.step \in Nat
  BY FoldEnds, ConfigFacts DEF WalkInv
<1>4. t.exit \in Nat
  BY DEF WalkInv, WalkTypeOK, OosTrade
<1> QED
  BY <1>1, <1>2, <1>3, <1>4

LEMMA NoneSelectedKeepsInv ==
  ASSUME WalkInv, NoneSelected
  PROVE  WalkInv'
<1>1. FinishFold(0) /\ config' = config /\ oos' = oos /\ 0 \in 0 .. Candidates
  BY WalkForwardAssumption DEF NoneSelected
<1>2. oos' \subseteq OosTrade
  BY <1>1 DEF WalkInv, WalkTypeOK
<1>3. ReplayInv' /\ WalkTypeOK'
  BY <1>1, <1>2, FoldEnds
<1>4. \A t \in oos :
        /\ Sound(t) /\ t.fold \in DOMAIN folds' /\ folds'[t.fold].selected # 0
        /\ folds'[t.fold].start + config'.train <= t.entry
        /\ t.exit < folds'[t.fold].start + config'.train + config'.test
        /\ config.step >= config.test => t.exit < TrainEnd'
  BY <1>1, OldTrades
<1>5. OosCountedOnce'
  BY <1>1 DEF WalkInv, OosOK, OosCountedOnce
<1>6. OosInTestWindow'
  BY <1>1, <1>4 DEF OosInTestWindow
<1>7. OosOK'
  BY <1>1, <1>4, <1>5, <1>6 DEF OosOK, Sound
<1> QED
  BY <1>3, <1>7 DEF WalkInv

LEMMA FinishTestKeepsInv ==
  ASSUME WalkInv, FinishTest
  PROVE  WalkInv'
<1> DEFINE Out(t) == [fold |-> Len(folds) + 1, signal |-> t.signal,
                      entry |-> t.entry, exit |-> t.exit]
<1>1. /\ phase = "test" /\ bar = SliceEnd /\ config' = config
      /\ oos' = oos \cup {Out(t) : t \in Result}
      /\ FinishFold(candidate)
  BY DEF FinishTest
<1>2. candidate \in 0 .. Candidates /\ candidate # 0 /\ folds \in Seq(Fold) /\ oos \subseteq OosTrade
  BY WalkForwardAssumption DEF WalkInv, WalkTypeOK
<1>3. /\ Result \subseteq Trade
      /\ \A t \in Result : Sound(t) /\ t.exit < TestEnd /\ t.entry >= TrainEnd
      /\ \A t, u \in Result : t # u => Apart(t, u)
  BY <1>1, ResultFacts DEF WalkInv, SliceEnd, InWindow
<1>4. /\ config.train \in Nat /\ config.test \in Nat /\ config.step \in Nat
      /\ trainStart \in Nat /\ TrainEnd = trainStart + config.train
      /\ TestEnd = trainStart + config.train + config.test
      /\ TrainEnd' = trainStart + config.train + config.step
  BY <1>1, <1>2, ConfigFacts, FoldEnds DEF WalkInv, WalkTypeOK, TrainEnd, TestEnd
<1>5. /\ Len(folds) + 1 \in DOMAIN folds' /\ Len(folds) + 1 \in Nat
      /\ folds'[Len(folds) + 1].start = trainStart
      /\ folds'[Len(folds) + 1].selected # 0
  <2>1. /\ Len(folds) + 1 \in DOMAIN folds'
        /\ folds'[Len(folds) + 1] = [start |-> trainStart, selected |-> candidate]
    BY <1>1, <1>2, FoldEnds
  <2>2. Len(folds) \in Nat
    BY <1>2, LenProperties
  <2> QED
    BY <1>2, <2>1, <2>2
<1>6. \A t \in Result : t.signal \in Nat /\ t.entry \in Nat /\ t.exit \in Nat
  BY <1>3 DEF Trade
<1>7. \A t \in Result : Out(t) \in OosTrade
  BY <1>5, <1>6 DEF OosTrade
<1>8. oos' \subseteq OosTrade
  BY <1>1, <1>2, <1>7
<1>9. ReplayInv' /\ WalkTypeOK'
  BY <1>1, <1>2, <1>8, FoldEnds
<1>10. \A t \in oos :
         /\ Sound(t) /\ t.fold \in DOMAIN folds' /\ folds'[t.fold].selected # 0
         /\ folds'[t.fold].start + config'.train <= t.entry
         /\ t.exit < folds'[t.fold].start + config'.train + config'.test
         /\ config.step >= config.test => t.exit < TrainEnd /\ t.exit < TrainEnd'
  BY <1>1, <1>2, OldTrades
<1>11. ASSUME NEW r \in Result
       PROVE  /\ Sound(Out(r)) /\ Out(r).fold \in DOMAIN folds'
              /\ folds'[Out(r).fold].selected # 0
              /\ folds'[Out(r).fold].start + config'.train <= Out(r).entry
              /\ Out(r).exit < folds'[Out(r).fold].start + config'.train + config'.test
              /\ Out(r).entry = r.entry /\ Out(r).exit = r.exit
              /\ config.step >= config.test => Out(r).exit < TrainEnd'
  <2>1. /\ Out(r).fold = Len(folds) + 1 /\ Out(r).signal = r.signal
        /\ Out(r).entry = r.entry /\ Out(r).exit = r.exit
    OBVIOUS
  <2> HIDE DEF Out
  <2>2. r.exit < TestEnd /\ r.entry >= TrainEnd /\ r.exit \in Nat /\ r.entry \in Nat
    BY <1>3, <1>6
  <2>3. Sound(Out(r))
    BY <1>3, <2>1 DEF Sound
  <2>4. config.step >= config.test => r.exit < TrainEnd'
    BY <1>4, <2>2
  <2>5. /\ trainStart + config.train <= r.entry
        /\ r.exit < trainStart + config.train + config.test
    BY <1>4, <2>2
  <2> QED
    BY <1>1, <1>5, <2>1, <2>3, <2>4, <2>5
<1>12. OosInTestWindow'
  BY <1>1, <1>10, <1>11 DEF OosInTestWindow
<1>13. ASSUME config.step >= config.test, NEW t \in oos', NEW u \in oos', t # u
       PROVE  Apart(t, u)
  <2>1. CASE t \in oos /\ u \in oos
    BY <1>13, <2>1 DEF WalkInv, OosOK, OosCountedOnce, Apart
  <2>2. ASSUME NEW o \in oos, NEW r \in Result
        PROVE  o.exit < Out(r).entry
    <3>1. o.exit < TrainEnd /\ TrainEnd <= r.entry /\ Out(r).entry = r.entry
      BY <1>3, <1>10, <1>13
    <3>2. o.exit \in Nat
      BY <1>2 DEF OosTrade
    <3>3. r.entry \in Nat
      BY <1>6
    <3>4. TrainEnd \in Nat
      BY ConfigFacts DEF WalkInv
    <3> QED
      BY <3>1, <3>2, <3>3, <3>4
  <2>3. \A r, q \in Result : Out(r) # Out(q) => Apart(Out(r), Out(q))
    BY <1>3 DEF Apart
  <2> HIDE DEF Out
  <2>4. CASE t \in oos /\ u \notin oos
    BY <1>1, <2>2, <2>4 DEF Apart
  <2>5. CASE t \notin oos /\ u \in oos
    BY <1>1, <2>2, <2>5 DEF Apart
  <2>6. CASE t \notin oos /\ u \notin oos
    BY <1>1, <1>13, <2>3, <2>6
  <2> QED
    BY <2>1, <2>4, <2>5, <2>6
<1> HIDE DEF Out
<1>14. OosCountedOnce'
  BY <1>1, <1>13 DEF OosCountedOnce, Apart
<1>15. \A t \in oos' : Sound(t) /\ (config.step >= config.test => t.exit < TrainEnd')
  BY <1>1, <1>10, <1>11
<1>16. OosOK'
  BY <1>1, <1>12, <1>14, <1>15 DEF OosOK, Sound
<1> QED
  BY <1>9, <1>16 DEF WalkInv

-----------------------------------------------------------------------------
(* The inductive invariant. *)

LEMMA InitInv ==
  ASSUME Init
  PROVE  WalkInv
<1>1. config \in [train : Nat \ {0}, test : Nat \ {0}, step : Nat \ {0},
                  warmup : Nat, trades : Nat, hold : Nat \ {0}]
  BY WalkForwardAssumption DEF Init
<1>2. WalkTypeOK
  BY WalkForwardAssumption DEF Init, WalkTypeOK
<1>3. bar <= SliceEnd
  BY <1>1 DEF Init, SliceEnd, TrainEnd, TestEnd
<1> QED
  BY <1>2, <1>3 DEF Init, WalkInv, ReplayInv, PendingOK, PositionOK, TradesOK,
                    OosOK, OosInTestWindow, OosCountedOnce

LEMMA StutterKeepsInv ==
  ASSUME WalkInv, UNCHANGED vars
  PROVE  WalkInv'
<1>1. OosOK' /\ TrainEnd' = TrainEnd /\ TestEnd' = TestEnd
  BY SameFold DEF vars
<1>2. \A b : InWindow(b)' <=> InWindow(b)
  BY <1>1 DEF vars, InWindow
<1>3. ReplayInv'
  BY <1>1, <1>2 DEF vars, replayVars, WalkInv, ReplayInv, PendingOK, PositionOK, TradesOK,
                    Sound, Apart, SliceEnd
<1>4. WalkTypeOK'
  BY DEF vars, replayVars, WalkInv, WalkTypeOK
<1> QED
  BY <1>1, <1>3, <1>4 DEF WalkInv

LEMMA WalkInvHolds == Spec => []WalkInv
<1>1. WalkInv /\ [Next]_vars => WalkInv'
  BY BarKeepsInv, NextCandidateKeepsInv, SelectKeepsInv, NoneSelectedKeepsInv,
     FinishTestKeepsInv, StutterKeepsInv DEF Next
<1> QED
  BY InitInv, <1>1, PTL DEF Spec

-----------------------------------------------------------------------------
(* The theorems. *)

\* Types: the windows, the replay and the folds keep their shapes, for any
\* configuration of run_walk_forward.
THEOREM WalkTypes == Spec => []WalkTypeOK
BY WalkInvHolds, PTL DEF WalkInv

\* No look-ahead: run_backtest enters on the bar after the one that decided,
\* and holds no longer than max_holding_bars.
THEOREM TradesLookBack == Spec => []NextBarEntry
<1>1. WalkInv => NextBarEntry
  BY DEF WalkInv, ReplayInv, PendingOK, PositionOK, TradesOK, OosOK, Sound, NextBarEntry
<1> QED
  BY WalkInvHolds, <1>1, PTL

\* run_walk_forward ranks candidates by what ends before the test window.
THEOREM TrainingIsBlind == Spec => []SelectionBlind
<1>1. ASSUME WalkInv, phase = "train"
      PROVE  bar <= TrainEnd /\ \A t \in Result : t.exit < TrainEnd
  <2>1. SliceEnd = TrainEnd /\ TrainEnd \in Nat /\ bar \in Nat /\ bar <= TrainEnd
    BY <1>1, ConfigFacts DEF SliceEnd, WalkInv, WalkTypeOK, ReplayInv
  <2>2. \A t \in trades : t.exit < TrainEnd
    <3>1. \A t \in trades : t.exit \in Nat /\ t.exit < bar
      BY <1>1 DEF WalkInv, WalkTypeOK, Trade, ReplayInv, TradesOK
    <3> QED
      BY <2>1, <3>1
  <2>3. Closed(position, SliceEnd - 1).exit < TrainEnd
    BY <2>1 DEF Closed
  <2> QED
    BY <2>1, <2>2, <2>3 DEF Result
<1> QED
  BY WalkInvHolds, <1>1, PTL DEF SelectionBlind

\* Out-of-sample trades lie in the test window of a fold that selected a
\* candidate: the context bars of the test replay are never traded.
THEOREM OosWithinWindow == Spec => []OosInTestWindow
BY WalkInvHolds, PTL DEF WalkInv, OosOK

\* With a step of at least the test window no bar is in two out-of-sample
\* trades of run_walk_forward.
THEOREM OosOnce == Spec => []OosCountedOnce
BY WalkInvHolds, PTL DEF WalkInv, OosOK
=============================================================================
