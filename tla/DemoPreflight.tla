----------------------------- MODULE DemoPreflight -----------------------------
(***************************************************************************)
(* The reset of the Demo account before a run (ops/run_demo_reflex.py):    *)
(* check that it is in one-way mode, read it, refuse what is not           *)
(* SignalGrid's, cancel the resting entries, close the positions, wait     *)
(* until flat, cancel the exits, verify that all is gone, pin the          *)
(* leverage.  Every REST call is a step, and a snapshot is three of them;  *)
(* in between the exchange fills entries and triggers exits and a user     *)
(* places orders by hand.  A run that fails may be started again.          *)
(*                                                                         *)
(* Assumed of that user: he keeps the account's mode, his orders do not    *)
(* fill during a run, and he opens, closes and turns no position: the      *)
(* preflight's verification could not see a trade made after it.           *)
(*                                                                         *)
(* Loops over orders and positions take them in any order.  A reply that   *)
(* is lost after its call took effect is that call and then a Fault.       *)
(***************************************************************************)
EXTENDS Integers, FiniteSets

CONSTANTS
  Symbols,    \* of the account
  Universe,   \* the configured ones
  ByHand,     \* those somebody else may have orders for
  MaxPolls,   \* bound: snapshots of one waiting loop, 20 in the code
  MaxFaults   \* bound: calls that fail for good, kills, unfilled closes

ASSUME DemoAssumption ==
  /\ Universe \subseteq Symbols /\ ByHand \subseteq Symbols
  /\ MaxPolls \in Nat \ {0}
  /\ MaxFaults \in Nat

VARIABLES
  mode,      \* the exchange: position mode, "unverified" if its reply does not say
  entry,     \* the exchange: signed quantity of SignalGrid's resting entry, or 0
  manual,    \* the exchange: symbols with an open order of somebody else
  algos,     \* the exchange: open conditional orders
  position,  \* the exchange: signed position of each symbol
  stage,     \* how far the preflight is
  step,      \* which part of a snapshot it reads next
  snap,      \* its last snapshot
  todo,      \* what is left of its current loop
  polls,     \* snapshots the current waiting loop has taken
  found,     \* its first snapshot had a position
  meddled,   \* a user has placed an order during this run
  faults     \* faults so far

account == <<entry, manual, algos, position>>
local   == <<stage, step, snap, todo, polls, found>>
vars    == <<mode, account, local, meddled, faults>>

Modes   == {"one-way", "hedge", "unverified"}

Exits   == {"STOP", "TAKE_PROFIT"}
Algos   == (Symbols \X Exits) \cup (ByHand \X {"manual"})
Reading == {"first", "flatten", "second", "verify"}
Ended   == {"done", "failed"}
Stages  == Reading \cup Ended \cup {"mode", "cancel", "close", "algos", "leverage"}

Held(p) == {s \in Symbols : p[s] # 0}

Empty == [entries |-> {}, manual |-> {}, algos |-> {}, position |-> [s \in Symbols |-> 0]]

-----------------------------------------------------------------------------
(* The exchange, and a user beside SignalGrid. *)

FillEntry(s) ==
  /\ entry[s] # 0
  /\ position' = [position EXCEPT ![s] = @ + entry[s]]
  /\ entry' = [entry EXCEPT ![s] = 0]
  /\ UNCHANGED <<manual, algos, meddled>>

TriggerExit(s) ==
  /\ position[s] # 0
  /\ \E k \in Exits : <<s, k>> \in algos /\ algos' = algos \ {<<s, k>>}
  /\ position' = [position EXCEPT ![s] = 0]
  /\ UNCHANGED <<entry, manual, meddled>>

Meddle(s) ==
  /\ \/ manual' = manual \cup {s} /\ UNCHANGED algos
     \/ algos' = algos \cup {<<s, "manual">>} /\ UNCHANGED manual
  /\ meddled' = TRUE
  /\ UNCHANGED <<entry, position>>

Outside ==
  /\ \/ \E s \in Symbols : FillEntry(s) \/ TriggerExit(s)
     \/ \E s \in ByHand : Meddle(s)
  /\ UNCHANGED <<mode, local, faults>>

-----------------------------------------------------------------------------
(* The preflight. *)

Goto(st) == stage' = st /\ step' = "orders"

\* get_current_position_mode, which retries by itself: anything but a plain "no"
\* to dualSidePosition ends the run.
MutOneWay == mode # "hedge"
OneWay    == mode = "one-way"

CheckMode ==
  /\ stage = "mode"
  /\ IF OneWay THEN Goto("first") ELSE stage' = "failed" /\ UNCHANGED step
  /\ UNCHANGED <<account, snap, todo, polls, found>>

\* provider.snapshot: three calls, in this order.
ReadOrders ==
  /\ stage \in Reading /\ step = "orders"
  /\ snap' = [snap EXCEPT !.entries = Held(entry), !.manual = manual]
  /\ step' = "algos"
  /\ UNCHANGED <<account, stage, todo, polls, found>>

ReadAlgos ==
  /\ stage \in Reading /\ step = "algos"
  /\ snap' = [snap EXCEPT !.algos = algos]
  /\ step' = "positions"
  /\ UNCHANGED <<account, stage, todo, polls, found>>

ReadPositions ==
  /\ stage \in Reading /\ step = "positions"
  /\ snap' = [snap EXCEPT !.position = position]
  /\ step' = "decide"
  /\ UNCHANGED <<account, stage, todo, polls, found>>

MutRefused == snap.manual # {} \/ \E a \in snap.algos : a[2] = "manual"
Refused ==
  \/ snap.manual # {}
  \/ \E a \in snap.algos : a[2] = "manual"
  \/ ~(Held(snap.position) \subseteq Universe)

JudgeFirst ==
  /\ stage = "first" /\ step = "decide"
  /\ found' = (Held(snap.position) # {})
  /\ IF Refused THEN stage' = "failed" /\ UNCHANGED todo
     ELSE stage' = "cancel" /\ todo' = snap.entries
  /\ UNCHANGED <<account, step, snap, polls>>

\* A missing order, -2011, is as good as a cancelled one.
CancelEntry ==
  /\ stage = "cancel"
  /\ \E s \in todo : entry' = [entry EXCEPT ![s] = 0] /\ todo' = todo \ {s}
  /\ UNCHANGED <<manual, algos, position, stage, step, snap, polls, found>>

MutEntriesCanceled ==
  /\ stage = "cancel" /\ todo = {}
  /\ stage' = "close"
  /\ todo' = {s \in Symbols : snap.position[s] > 0}
  /\ UNCHANGED <<account, step, snap, polls, found>>
EntriesCanceled ==
  /\ stage = "cancel" /\ todo = {}
  /\ stage' = "close"
  /\ todo' = Held(snap.position)
  /\ UNCHANGED <<account, step, snap, polls, found>>

\* What a reduce-only MARKET order of the quantity that was read leaves.
Reduced(p, q) == IF (p > 0 /\ q > p) \/ (p < 0 /\ q < p) THEN 0 ELSE p - q

\* It is rejected, and the reset fails, when the position is gone or turned.
ClosePosition ==
  /\ stage = "close"
  /\ \E s \in todo :
       IF position[s] * snap.position[s] > 0
       THEN /\ position' = [position EXCEPT ![s] = Reduced(@, snap.position[s])]
            /\ todo' = todo \ {s}
            /\ UNCHANGED stage
       ELSE stage' = "failed" /\ UNCHANGED <<position, todo>>
  /\ UNCHANGED <<entry, manual, algos, step, snap, polls, found>>

\* The exchange ends the close without a fill.
CloseUnfilled ==
  /\ stage = "close" /\ faults < MaxFaults
  /\ \E s \in todo : todo' = todo \ {s}
  /\ faults' = faults + 1
  /\ UNCHANGED <<mode, account, stage, step, snap, polls, found, meddled>>

Closed ==
  /\ stage = "close" /\ todo = {}
  /\ Goto(IF found THEN "flatten" ELSE "second")
  /\ polls' = 0
  /\ UNCHANGED <<account, snap, todo, found>>

\* Another snapshot, unless this was the last one allowed.
Again ==
  /\ IF polls + 1 < MaxPolls THEN Goto(stage) /\ polls' = polls + 1
     ELSE stage' = "failed" /\ UNCHANGED <<step, polls>>
  /\ UNCHANGED todo

Flat == Held(snap.position) = {}

\* A run that found no position does not look whether there is one now.
MutMayUncover == TRUE
MayUncover == stage = "second" \/ Flat

JudgeFlat ==
  /\ stage \in {"flatten", "second"} /\ step = "decide"
  /\ IF MayUncover THEN stage' = "algos" /\ todo' = snap.algos /\ UNCHANGED <<step, polls>>
     ELSE Again
  /\ UNCHANGED <<account, snap, found>>

CancelAlgo ==
  /\ stage = "algos"
  /\ \E a \in todo : algos' = algos \ {a} /\ todo' = todo \ {a}
  /\ UNCHANGED <<entry, manual, position, stage, step, snap, polls, found>>

AlgosCanceled ==
  /\ stage = "algos" /\ todo = {}
  /\ Goto("verify")
  /\ polls' = 0
  /\ UNCHANGED <<account, snap, todo, found>>

MutClean == snap.entries = {} /\ snap.manual = {} /\ snap.algos = {}
Clean == Flat /\ snap.entries = {} /\ snap.manual = {} /\ snap.algos = {}

JudgeClean ==
  /\ stage = "verify" /\ step = "decide"
  /\ IF Clean THEN stage' = "leverage" /\ todo' = Universe /\ UNCHANGED <<step, polls>>
     ELSE Again
  /\ UNCHANGED <<account, snap, found>>

PinLeverage ==
  /\ stage = "leverage"
  /\ \/ \E s \in todo : todo' = todo \ {s} /\ UNCHANGED stage
     \/ todo = {} /\ stage' = "done" /\ UNCHANGED todo
  /\ UNCHANGED <<account, step, snap, polls, found>>

Call ==
  /\ CheckMode \/ ReadOrders \/ ReadAlgos \/ ReadPositions \/ JudgeFirst
       \/ CancelEntry \/ EntriesCanceled \/ ClosePosition \/ Closed \/ JudgeFlat
       \/ CancelAlgo \/ AlgosCanceled \/ JudgeClean \/ PinLeverage
  /\ UNCHANGED <<mode, meddled, faults>>

\* A call fails for good, or the process is killed.
Fault ==
  /\ stage \notin Ended /\ faults < MaxFaults
  /\ stage' = "failed"
  /\ faults' = faults + 1
  /\ UNCHANGED <<mode, account, step, snap, todo, polls, found, meddled>>

\* The operator starts it again, with nothing of the last run.
Start ==
  /\ stage = "failed"
  /\ Goto("mode")
  /\ snap' = Empty /\ todo' = {} /\ polls' = 0 /\ found' = FALSE
  /\ meddled' = FALSE
  /\ UNCHANGED <<mode, account, faults>>

\* What an earlier run, and others, may have left.
Init ==
  /\ mode \in Modes
  /\ entry \in [Symbols -> {-1, 0, 1}]
  /\ manual \in SUBSET ByHand
  /\ algos \in SUBSET Algos
  /\ position \in [Symbols -> {-1, 0, 1}]
  /\ stage = "mode" /\ step = "orders"
  /\ snap = Empty /\ todo = {} /\ polls = 0 /\ found = FALSE
  /\ meddled = FALSE /\ faults = 0

Next == Outside \/ Call \/ CloseUnfilled \/ Fault \/ Start

Spec == Init /\ [][Next]_vars

\* The script runs on, and the operator does not give up.
FairSpec == Spec /\ WF_vars(Call) /\ WF_vars(Start)
-----------------------------------------------------------------------------
(* Properties. *)

\* Every variable has its type.
DemoTypeOK ==
  /\ mode \in Modes
  /\ entry \in [Symbols -> {-1, 0, 1}]
  /\ manual \subseteq ByHand
  /\ algos \subseteq Algos
  /\ position \in [Symbols -> Int]
  /\ stage \in Stages
  /\ step \in {"orders", "algos", "positions", "decide"}
  /\ snap \in [entries : SUBSET Symbols, manual : SUBSET ByHand,
               algos : SUBSET Algos, position : [Symbols -> Int]]
  /\ todo \subseteq Symbols \cup Algos
  /\ polls \in 0 .. MaxPolls - 1
  /\ found \in BOOLEAN /\ meddled \in BOOLEAN
  /\ faults \in 0 .. MaxFaults

\* When the leverage is pinned and the run may start, nothing that could trade
\* for SignalGrid is left and no position is open, although the snapshot that
\* said so is not of one moment.
CleanWhenDone ==
  stage \in {"leverage", "done"} =>
    /\ Held(entry) = {} /\ Held(position) = {}
    /\ \A a \in algos : a[2] = "manual"

\* A run that finds a position cancels the exits of flat symbols only, in
\* whatever order entries fill and exits trigger while it works.
ExitsUntilFlat ==
  [][\A s \in Symbols :
       stage = "algos" /\ found /\ (\E k \in Exits : <<s, k>> \in algos \ algos')
         => position[s] = 0]_vars

\* No order of somebody else is ever cancelled, nor, unless he placed one while
\* the run was under way, a conditional one; no position outside the universe is
\* traded; and on an account that is not known to be in one-way mode the
\* preflight does nothing at all.
HandsOff ==
  [][/\ manual \subseteq manual'
     /\ meddled \/ \A a \in algos \ algos' : a[2] # "manual"
     /\ stage = "close" /\ todo' # todo =>
          \A s \in Symbols \ Universe : position'[s] = position[s]
     /\ mode # "one-way" /\ local' # local => UNCHANGED account]_vars

\* Whatever was left in an account in one-way mode, and wherever earlier runs
\* failed, starting again ends with a clean account, unless orders or positions
\* are not SignalGrid's to touch.  (In another mode every run is refused.)
EndsClean ==
  <>(\/ stage = "done"
     \/ mode # "one-way"
     \/ manual # {} \/ \E a \in algos : a[2] = "manual"
     \/ ~(Held(position) \subseteq Universe))
=============================================================================
