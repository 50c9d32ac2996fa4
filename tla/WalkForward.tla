----------------------------- MODULE WalkForward -----------------------------
(***************************************************************************)
(* The walk-forward evaluation (backtest/walkforward.py) over the replay   *)
(* of one symbol's bars (backtest/engine.py), one action per bar.          *)
(*                                                                         *)
(* Bars are numbered from 0, as in the code.  Prices, fees and funding are *)
(* left out: whether a signal comes, whether the next open is beyond its   *)
(* invalidation, whether a bar hits a stop, and which candidate has the    *)
(* best expectancy are arbitrary.                                          *)
(***************************************************************************)
EXTENDS Integers, Sequences, FiniteSets

CONSTANTS
  Bars,         \* number of bars
  Candidates,   \* number of signal configurations
  Configs       \* window sizes, warm-up, least trades, longest holding

\* run_walk_forward's and run_backtest's own checks of their configuration.
ASSUME WalkForwardAssumption ==
  /\ Bars \in Nat /\ Candidates \in Nat \ {0}
  /\ Configs \subseteq [train : Nat \ {0}, test : Nat \ {0}, step : Nat \ {0},
                        warmup : Nat, trades : Nat, hold : Nat \ {0}]

VARIABLES
  config,       \* fixed for one evaluation
  trainStart,   \* train_start of the fold
  phase,        \* "train" on a candidate, "test" the selected one, "done"
  candidate,    \* candidate being replayed
  bar,          \* bar to be replayed next
  pending,      \* run_backtest's pending signal: the bar it was computed on
  position,     \* run_backtest's position
  trades,       \* trades of the replay
  ranked,       \* candidates with enough trades on the train window
  folds,        \* finished folds
  oos           \* out-of-sample trades of all folds

replayVars == <<bar, pending, position, trades>>
vars == <<config, trainStart, phase, candidate, replayVars, ranked, folds, oos>>

NoSignal   == -1
NoPosition == [signal |-> NoSignal, entry |-> -1]
Position   == [signal : Nat, entry : Nat]
Trade      == [signal : Nat, entry : Nat, exit : Nat]
OosTrade   == [fold : Nat, signal : Nat, entry : Nat, exit : Nat]
Fold       == [start : Nat, selected : 0 .. Candidates]   \* 0: none selected

WalkTypeOK ==
  /\ config \in Configs
  /\ trainStart \in Nat
  /\ phase \in {"train", "test", "done"}
  /\ candidate \in 1 .. Candidates
  /\ bar \in Nat
  /\ pending \in Nat \cup {NoSignal}
  /\ position \in Position \cup {NoPosition}
  /\ trades \subseteq Trade
  /\ ranked \subseteq 1 .. Candidates
  /\ folds \in Seq(Fold)
  /\ oos \subseteq OosTrade

-----------------------------------------------------------------------------
(* The slices of a fold. *)

TrainEnd == trainStart + config.train
TestEnd  == TrainEnd + config.test
MutFits(start) == start + config.train + config.test < Bars
Fits(start) == start + config.train + config.test <= Bars

\* The test replay starts with some bars of the train window as context.
ContextStart ==
  IF TrainEnd - config.warmup > trainStart THEN TrainEnd - config.warmup ELSE trainStart

\* Where the slice of the current replay ends.
MutTrainsOnTest == TestEnd
SliceEnd == IF phase = "train" THEN TrainEnd ELSE TestEnd

\* trade_start_ms is given for the test only.  trade_end_ms lies beyond the
\* slice and excludes nothing, so that WINDOW_END is never an exit's reason.
MutAnyBar(b) == TRUE
InWindow(b) == phase = "train" \/ b >= TrainEnd

-----------------------------------------------------------------------------
(* One bar of run_backtest: execute, exit, decide. *)

\* The position after the open: a pending signal is executed, unless it is
\* out of the window or the open is beyond its invalidation.
Executed(invalid) ==
  IF position = NoPosition /\ pending # NoSignal /\ InWindow(bar) /\ ~invalid
    THEN [signal |-> pending, entry |-> bar] ELSE position
MutStillPending == pending
StillPending == IF position = NoPosition THEN NoSignal ELSE pending

\* The bar may hit the stop, and ends the longest holding.
HeldOut(held) == bar - held.entry + 1 >= config.hold
Exits(held, stop) == held # NoPosition /\ (stop \/ HeldOut(held))
Closed(held, b) == [signal |-> held.signal, entry |-> held.entry, exit |-> b]

\* Only a complete bar is evaluated, and not the last one.
MayDecide(held) == held = NoPosition /\ StillPending = NoSignal /\ bar + 1 < SliceEnd

ReplayBar ==
  /\ phase # "done" /\ bar < SliceEnd
  /\ \E invalid, stop, signal \in BOOLEAN :
       LET held == Executed(invalid)
           out  == Exits(held, stop)
           left == IF out THEN NoPosition ELSE held
       IN  /\ trades' = IF out THEN trades \cup {Closed(held, bar)} ELSE trades
           /\ position' = left
           /\ pending' = IF signal /\ MayDecide(left) THEN bar ELSE StillPending
  /\ bar' = bar + 1
  /\ UNCHANGED <<config, trainStart, phase, candidate, ranked, folds, oos>>

-----------------------------------------------------------------------------
(* Between replays. *)

\* The trades of a replay, with the forced close at the last bar.
Result == IF position = NoPosition THEN trades ELSE trades \cup {Closed(position, SliceEnd - 1)}

Replay(start) ==
  /\ bar' = start /\ pending' = NoSignal /\ position' = NoPosition /\ trades' = {}

\* Candidates that are ranked, this one included if it traded enough.
Ranked == IF Cardinality(Result) >= config.trades THEN ranked \cup {candidate} ELSE ranked

\* The fold is reported, and the next one begins.
MutStep == 1
Step == config.step
FinishFold(selected) ==
  /\ folds' = Append(folds, [start |-> trainStart, selected |-> selected])
  /\ trainStart' = trainStart + Step
  /\ phase' = IF Fits(trainStart + Step) THEN "train" ELSE "done"
  /\ candidate' = 1 /\ ranked' = {}
  /\ Replay(trainStart + Step)

NextCandidate ==
  /\ phase = "train" /\ bar = SliceEnd /\ candidate < Candidates
  /\ candidate' = candidate + 1 /\ ranked' = Ranked
  /\ Replay(trainStart)
  /\ UNCHANGED <<config, trainStart, phase, folds, oos>>

\* The best of the ranked candidates is tested.
Select ==
  /\ phase = "train" /\ bar = SliceEnd /\ candidate = Candidates
  /\ \E c \in Ranked : candidate' = c
  /\ phase' = "test" /\ ranked' = Ranked
  /\ Replay(ContextStart)
  /\ UNCHANGED <<config, trainStart, folds, oos>>

NoneSelected ==
  /\ phase = "train" /\ bar = SliceEnd /\ candidate = Candidates /\ Ranked = {}
  /\ FinishFold(0)
  /\ UNCHANGED <<config, oos>>

FinishTest ==
  /\ phase = "test" /\ bar = SliceEnd
  /\ oos' = oos \cup {[fold |-> Len(folds) + 1, signal |-> t.signal,
                       entry |-> t.entry, exit |-> t.exit] : t \in Result}
  /\ FinishFold(candidate)
  /\ UNCHANGED config

-----------------------------------------------------------------------------
Init ==
  /\ config \in Configs
  /\ trainStart = 0
  /\ phase = IF Fits(0) THEN "train" ELSE "done"
  /\ candidate = 1
  /\ bar = 0 /\ pending = NoSignal /\ position = NoPosition /\ trades = {}
  /\ ranked = {}
  /\ folds = <<>>
  /\ oos = {}

Next == ReplayBar \/ NextCandidate \/ Select \/ NoneSelected \/ FinishTest

Spec == Init /\ [][Next]_vars

\* The evaluation is one loop that runs on.
FairSpec == Spec /\ WF_vars(Next)

-----------------------------------------------------------------------------
(* Properties. *)

\* No look-ahead: what is traded was decided on the bar before the entry, is
\* held for max_holding_bars at most, and what is pending is for the next bar.
NextBarEntry ==
  /\ \A t \in trades \cup oos :
       /\ t.entry = t.signal + 1 /\ t.entry <= t.exit
       /\ t.exit - t.entry < config.hold
  /\ position # NoPosition => position.entry = position.signal + 1 /\ position.entry < bar
  /\ pending # NoSignal => pending + 1 = bar /\ bar < SliceEnd

\* A candidate is ranked by trades that end before the first bar of the test
\* window, on a replay that never reads one.
SelectionBlind ==
  phase = "train" => bar <= TrainEnd /\ \A t \in Result : t.exit < TrainEnd

\* Every out-of-sample trade lies within the test window of its fold, a fold
\* that selected a candidate: the context bars before it are never traded.
OosInTestWindow ==
  \A t \in oos :
    LET start == folds[t.fold].start + config.train
    IN  /\ t.fold \in DOMAIN folds /\ folds[t.fold].selected # 0
        /\ start <= t.entry /\ t.exit < start + config.test

\* No bar is in two out-of-sample trades, in one fold or across folds, as
\* long as the folds are not closer than their test windows are long.
OosCountedOnce ==
  config.step >= config.test =>
    \A t, u \in oos : t # u => t.exit < u.entry \/ u.exit < t.entry

\* The evaluation ends, and has then tested every window that fits.
WalkEnds ==
  <>(phase = "done" /\ trainStart + config.train + config.test > Bars
       /\ \A i \in DOMAIN folds : folds[i].start = (i - 1) * config.step)
=============================================================================
