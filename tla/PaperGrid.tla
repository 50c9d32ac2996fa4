------------------------------- MODULE PaperGrid -------------------------------
(***************************************************************************)
(* PAPER mode for one symbol: market messages (binance_events.py), the     *)
(* queue of callbacks they leave on the event loop, the planner's prices   *)
(* (execution/grid.py) and the paper broker (execution/paper.py).          *)
(*                                                                         *)
(* A message changes the shared SymbolState at once, its callback runs     *)
(* later and reads whatever the state has become.  A callback is one       *)
(* synchronous step: the broker's on_state, then perhaps an open.          *)
(*                                                                         *)
(* Quotes are in ticks, the prices of a plan in half ticks, so that the    *)
(* middle of a quote is a number.  A plan's spacing, target and stop       *)
(* distances are constants here; in the code they follow volatility.       *)
(***************************************************************************)
EXTENDS Integers

CONSTANTS
  Prices,          \* ticks a bid or an ask can have; 0 is "none"
  LadderLevels,    \* LIMIT entries of a directional grid
  NeutralLevels,   \* LIMIT entries per side of a neutral grid
  Spacing,         \* half ticks between two levels
  TargetDistance,  \* half ticks from the reference to a directional target
  StopDistance,    \* half ticks from the reference to a neutral stop
  Ttl,             \* how long a neutral grid stays armed
  MaxTime,         \* bound: event times are 1 .. MaxTime, 0 is "none"
  MaxQueue,        \* bound: callbacks waiting on the loop
  MaxCampaigns     \* bound: campaigns opened

\* GridConfig.__post_init__
ASSUME PaperAssumption ==
  /\ Prices \subseteq Nat \ {0}
  /\ {LadderLevels, NeutralLevels, Spacing, TargetDistance, StopDistance, Ttl}
       \subseteq Nat \ {0}
  /\ StopDistance > NeutralLevels * Spacing
  /\ {MaxTime, MaxQueue, MaxCampaigns} \subseteq Nat

VARIABLES
  quote,    \* best bid and ask of the SymbolState
  now,      \* its last_event_time_ms
  queued,   \* callbacks posted and not yet run
  camp,     \* the symbol's open campaign, or the last one closed
  recent,   \* event time kept in _recently_closed
  seen,     \* the broker's _last_event_ms
  stats,    \* campaigns opened and closed, as the runtime counts them
  closedAt  \* history: event time of the last close

vars == <<quote, now, queued, camp, recent, seen, stats, closedAt>>

Quotes     == [bid : Prices \cup {0}, ask : Prices \cup {0}]
Modes      == {"LONG_GRID", "SHORT_GRID", "NEUTRAL_GRID"}
Directions == {"LONG", "SHORT", "PASS"}
Indices    == 0 .. (LadderLevels + 2 * NeutralLevels)
NoEvent    == -1

-----------------------------------------------------------------------------
(* A plan: its levels, stop and target.  Level 0 is the MARKET starter. *)

Levels(c) == IF c.mode = "NEUTRAL_GRID" THEN 1 .. 2 * NeutralLevels
                                        ELSE 0 .. LadderLevels

LevelDir(c, i) ==
  CASE c.mode = "LONG_GRID"  -> "LONG"
    [] c.mode = "SHORT_GRID" -> "SHORT"
    [] OTHER -> IF i <= NeutralLevels THEN "LONG" ELSE "SHORT"

\* Steps between a level and the reference.
Depth(c, i) == IF c.mode = "NEUTRAL_GRID" /\ i > NeutralLevels
               THEN i - NeutralLevels ELSE i

\* d-wards from p by n: up for a LONG, down for a SHORT.
Towards(d, p, n) == IF d = "LONG" THEN p + n ELSE p - n

LevelPrice(c, i) == Towards(LevelDir(c, i), c.ref, -(Spacing * Depth(c, i)))

Stop(c, d) == IF c.mode = "NEUTRAL_GRID" THEN Towards(d, c.ref, -StopDistance)
                                         ELSE c.invalidation
Target(c, d) == IF c.mode = "NEUTRAL_GRID" THEN c.ref
                                           ELSE Towards(d, c.ref, TargetDistance)

\* a is worse than b, or better, for the holder of a d position.
Worse(d, a, b) == IF d = "LONG" THEN a < b ELSE a > b
Better(d, a, b) == Worse(d, b, a)

-----------------------------------------------------------------------------
(* The quote. *)

Valid    == quote.bid > 0 /\ quote.ask >= quote.bid
Mid      == quote.bid + quote.ask
ExitAt(d)  == 2 * (IF d = "LONG" THEN quote.bid ELSE quote.ask)
EntryAt(d) == 2 * (IF d = "LONG" THEN quote.ask ELSE quote.bid)

StopHit(c, d)   == ~Better(d, ExitAt(d), Stop(c, d))
TargetHit(c, d) == ~Worse(d, ExitAt(d), Target(c, d))
Touched(c, i)   == LET d == LevelDir(c, i)
                   IN  ~Worse(d, LevelPrice(c, i), EntryAt(d))

-----------------------------------------------------------------------------
(* The broker. *)

Filled(c) == {i \in Indices : c.fills[i] > 0}

Fill(c, S) ==
  [c EXCEPT !.fills = [i \in Indices |-> IF i \in S THEN c.fills[i] + 1
                                                    ELSE c.fills[i]]]

Close(c, reason, price) ==
  [c EXCEPT !.status = "CLOSED", !.reason = reason, !.price = price]

\* A level is filled once, on the side the campaign has taken.
MutRefill(c) == Fill(c, {i \in Levels(c) : LevelDir(c, i) = c.dir /\ Touched(c, i)})
FillTouched(c) ==
  Fill(c, {i \in Levels(c) \ Filled(c) : LevelDir(c, i) = c.dir /\ Touched(c, i)})

\* The levels an armed neutral grid's first touch fills decide its side.  A
\* quote touches levels of one side only, so the broker never refuses here.
FirstTouch(c) ==
  LET touched == {i \in Levels(c) : Touched(c, i)}
      dir     == LevelDir(c, CHOOSE i \in touched : TRUE)
  IN  IF touched = {} THEN c
      ELSE [Fill(c, {i \in touched : LevelDir(c, i) = dir}) EXCEPT !.dir = dir]

\* Stop before target before fills.
MutManageFillsFirst(c) ==
  LET f == FillTouched(c)
  IN  CASE StopHit(c, c.dir)   -> Close(f, "STOP", ExitAt(c.dir))
        [] TargetHit(c, c.dir) -> Close(f, "TAKE_PROFIT", ExitAt(c.dir))
        [] OTHER -> f
Manage(c) ==
  CASE StopHit(c, c.dir) -> Close(c, "STOP", ExitAt(c.dir))
    [] TargetHit(c, c.dir) /\ ~StopHit(c, c.dir) ->
         Close(c, "TAKE_PROFIT", ExitAt(c.dir))
    [] OTHER -> FillTouched(c)

Activated(c) == IF c.dir = "PASS" THEN FirstTouch(c) ELSE c
Expired(c)   == c.dir = "PASS" /\ now >= c.at + Ttl

\* on_state: what the present quote makes of the open campaign.
MutOnStateTouchReturns(c) ==
  CASE c.status # "OPEN" \/ ~Valid -> c
    [] c.status = "OPEN" /\ Valid /\ Expired(c) -> Close(c, "EXPIRED", Mid)
    [] OTHER -> IF c.dir = "PASS" THEN FirstTouch(c) ELSE Manage(c)
MutOnStateTouchThenExpire(c) ==
  LET a == Activated(c)
  IN  CASE c.status # "OPEN" \/ ~Valid -> c
        [] c.status = "OPEN" /\ Valid /\ Expired(c) -> Close(a, "EXPIRED", Mid)
        [] OTHER -> IF a.dir = "PASS" THEN a ELSE Manage(a)
OnState(c) ==
  CASE c.status # "OPEN" \/ ~Valid -> c
    [] c.status = "OPEN" /\ Valid /\ Expired(c) -> Close(c, "EXPIRED", Mid)
    [] OTHER -> LET a == Activated(c)
                IN  IF a.dir = "PASS" THEN a ELSE Manage(a)

\* active_campaign: a campaign closed by the event the broker saw last still
\* holds its symbol.
HoldsSymbol(status, closed, event) ==
  status = "OPEN" \/ (closed # NoEvent /\ closed = event)

\* What lets a plan be made: SignalEngine's liquidity gate lets no signal of a
\* state without a valid quote through (the planner's fallback to the last bar's
\* close is never taken here), and build_grid_plan has the other guards.
MutPlanAllowed(mode, invalidation) ==
  /\ Valid /\ now > 0
  /\ CASE mode = "LONG_GRID"  -> invalidation > 0 /\ invalidation < Mid
       [] mode = "SHORT_GRID" -> invalidation > Mid
       [] OTHER -> invalidation = 0
PlanAllowed(mode, invalidation) ==
  /\ Valid /\ now > 0
  /\ CASE mode = "LONG_GRID"  -> /\ invalidation > 0 /\ invalidation < Mid
                                 /\ Mid - Spacing * LadderLevels > 0
       [] mode = "SHORT_GRID" -> invalidation > Mid
       [] OTHER -> invalidation = 0 /\ Mid - Spacing * NeutralLevels > 0

\* open_campaign: a directional starter fills at the reference, in the middle
\* of the quote.
Opened(mode, invalidation) ==
  [status |-> "OPEN", mode |-> mode, ref |-> Mid, invalidation |-> invalidation,
   at |-> now, reason |-> "NONE", price |-> 0,
   dir |-> CASE mode = "LONG_GRID"  -> "LONG"
             [] mode = "SHORT_GRID" -> "SHORT"
             [] OTHER -> "PASS",
   fills |-> [i \in Indices |-> IF mode # "NEUTRAL_GRID" /\ i = 0 THEN 1 ELSE 0]]

NoCampaign == [status |-> "NONE", mode |-> "NEUTRAL_GRID", ref |-> 0,
               invalidation |-> 0, at |-> 0, reason |-> "NONE", price |-> 0,
               dir |-> "PASS", fills |-> [i \in Indices |-> 0]]

-----------------------------------------------------------------------------

Init ==
  /\ quote = [bid |-> 0, ask |-> 0]
  /\ now = 0
  /\ queued = 0
  /\ camp = NoCampaign
  /\ recent = NoEvent
  /\ seen = 0
  /\ stats = [opened |-> 0, closed |-> 0]
  /\ closedAt = NoEvent

\* The event time never goes back, whatever order the streams deliver in.
MutLatest(e) == IF e > 0 THEN e ELSE now
Latest(e) == IF e > now THEN e ELSE now

\* on_message: a book update, or another event that leaves the quote alone.
Message ==
  /\ queued < MaxQueue
  /\ quote' \in Quotes
  /\ \E e \in 0 .. MaxTime : now' = Latest(e)
  /\ queued' = queued + 1
  /\ UNCHANGED <<camp, recent, seen, stats, closedAt>>

\* _recently_closed after on_state.
MutRecent(closes) == IF closes THEN now ELSE NoEvent
Recent(closes) == CASE closes -> now
                    [] ~closes /\ recent # now -> NoEvent
                    [] OTHER -> recent

\* The runtime counts a close when the broker had a campaign before the event
\* and on_state hands back a closed one.
MutCountClose(closes) == stats.closed + (IF closes \/ recent = now THEN 1 ELSE 0)
CountClose(closes) ==
  stats.closed + (IF HoldsSymbol(camp.status, recent, seen) /\ closes THEN 1 ELSE 0)

\* _process_market_event in PAPER mode.
Process ==
  /\ queued > 0
  /\ queued' = queued - 1
  /\ seen' = now
  /\ LET c      == OnState(camp)
         closes == camp.status = "OPEN" /\ c.status = "CLOSED"
     IN  /\ recent' = Recent(closes)
         /\ closedAt' = IF closes THEN now ELSE closedAt
         /\ \/ /\ camp' = c
               /\ stats' = [stats EXCEPT !.closed = CountClose(closes)]
            \/ /\ ~HoldsSymbol(c.status, recent', seen')
               /\ stats.opened < MaxCampaigns
               /\ \E mode \in Modes, p \in Prices \cup {0} :
                    /\ PlanAllowed(mode, 2 * p)
                    /\ camp' = Opened(mode, 2 * p)
               /\ stats' = [opened |-> stats.opened + 1, closed |-> CountClose(closes)]
  /\ UNCHANGED <<quote, now>>

Next == Message \/ Process

Spec == Init /\ [][Next]_vars
-----------------------------------------------------------------------------
(* Properties. *)

Campaigns ==
  [status : {"NONE", "OPEN", "CLOSED"}, mode : Modes, ref : Nat,
   invalidation : Nat, at : Nat, dir : Directions,
   reason : {"NONE", "STOP", "TAKE_PROFIT", "EXPIRED"}, price : Nat,
   fills : [Indices -> Nat]]

\* Every variable has its type, and the planner never makes a level whose price
\* a fill would refuse.
PaperTypeOK ==
  /\ quote \in Quotes
  /\ now \in Nat
  /\ queued \in 0 .. MaxQueue
  /\ camp \in Campaigns
  /\ camp.status # "NONE" => \A i \in Levels(camp) : LevelPrice(camp, i) > 0
  /\ recent \in Nat \cup {NoEvent}
  /\ seen \in Nat
  /\ stats \in [opened : Nat, closed : Nat]
  /\ closedAt \in Nat \cup {NoEvent}

\* Whatever jumps the market makes, a level is filled only inside the
\* campaign's stop, although a directional stop may lie between the levels.
FillsInsideStop ==
  \A i \in Filled(camp) : Better(camp.dir, LevelPrice(camp, i), Stop(camp, camp.dir))

\* What a closed campaign is said to be is what it was: a TAKE_PROFIT gains on
\* every fill, a STOP loses on every fill, and only an unfilled grid EXPIRES.
ResultMatchesReason ==
  camp.status = "CLOSED" =>
    CASE camp.reason = "TAKE_PROFIT" ->
           /\ Filled(camp) # {}
           /\ \A i \in Filled(camp) : Better(camp.dir, camp.price, LevelPrice(camp, i))
      [] camp.reason = "STOP" ->
           /\ Filled(camp) # {}
           /\ \A i \in Filled(camp) : Worse(camp.dir, camp.price, LevelPrice(camp, i))
      [] OTHER -> camp.reason = "EXPIRED" /\ Filled(camp) = {}

\* A campaign fills each level at most once and on one side only: its exposure
\* stays within the plan's notional.
BudgetKept ==
  \A i \in Indices :
    /\ camp.fills[i] <= 1
    /\ camp.fills[i] = 1 => i \in Levels(camp) /\ LevelDir(camp, i) = camp.dir

\* A close and the next open never have the same event time, however many
\* callbacks of that time are still queued and whatever time a late message
\* carries: campaign ids, made of the event time, never repeat.
OpensAfterClose == camp.status = "OPEN" => camp.at > closedAt

\* Campaigns the runtime has opened and not counted as closed: the open one.
StatsBalance ==
  stats.opened - stats.closed = (IF camp.status = "OPEN" THEN 1 ELSE 0)

\* A callback that finds a campaign leaves no position at its stop or target
\* and no armed grid past its time, even when its first touch and its stop
\* come with the same quote.
ExitsPrompt ==
  [][Process /\ camp.status = "OPEN" /\ camp'.status = "OPEN" /\ Valid =>
       IF camp'.dir = "PASS" THEN now < camp'.at + Ttl
       ELSE ~StopHit(camp', camp'.dir) /\ ~TargetHit(camp', camp'.dir)]_vars
=============================================================================
