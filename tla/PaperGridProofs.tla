---------------------------- MODULE PaperGridProofs ----------------------------
(***************************************************************************)
(* Theorems about PAPER mode, for any prices, levels and distances.        *)
(***************************************************************************)
EXTENDS PaperGrid, TLAPS

Sides == {"LONG", "SHORT"}

\* What is known of a campaign from its plan: the side it may take and, for a
\* directional one, that its stop is on the losing side of the reference.
PlanShape(c) ==
  /\ c.mode = "LONG_GRID"  => c.dir = "LONG" /\ c.invalidation < c.ref
  /\ c.mode = "SHORT_GRID" => c.dir = "SHORT" /\ c.invalidation > c.ref

Inside(c) == \A i \in Filled(c) : Better(c.dir, LevelPrice(c, i), Stop(c, c.dir))

\* Fills are levels of the plan on the side taken, each at most once.
OwnFills(c) ==
  \A i \in Indices :
    /\ c.fills[i] <= 1
    /\ c.fills[i] = 1 => i \in Levels(c) /\ LevelDir(c, i) = c.dir

\* There are fills exactly when a side is taken.
SideTaken(c) == c.dir = "PASS" <=> Filled(c) = {}

Result(c) ==
  c.status = "CLOSED" =>
    CASE c.reason = "TAKE_PROFIT" ->
           /\ Filled(c) # {}
           /\ \A i \in Filled(c) : Better(c.dir, c.price, LevelPrice(c, i))
      [] c.reason = "STOP" ->
           /\ Filled(c) # {}
           /\ \A i \in Filled(c) : Worse(c.dir, c.price, LevelPrice(c, i))
      [] OTHER -> c.reason = "EXPIRED" /\ Filled(c) = {}

Sound(c) ==
  /\ c \in Campaigns
  /\ PlanShape(c)
  /\ Inside(c)
  /\ OwnFills(c)
  /\ SideTaken(c)
  /\ Result(c)

\* A close is remembered in recent until an event of another time is seen.
ClockInv ==
  /\ now \in Nat
  /\ recent \in Nat \cup {NoEvent}
  /\ closedAt \in Nat \cup {NoEvent}
  /\ seen \in Nat
  /\ closedAt <= seen /\ seen <= now
  /\ closedAt = seen => recent = closedAt
  /\ camp.status = "OPEN" => closedAt < camp.at

BrokerInv ==
  /\ quote \in Quotes
  /\ now \in Nat
  /\ Sound(camp)

CountInv ==
  /\ stats \in [opened : Nat, closed : Nat]
  /\ StatsBalance

-----------------------------------------------------------------------------
(* Prices. *)

\* The constants, one by one.
LEMMA Positive ==
  /\ LadderLevels \in Nat \ {0} /\ NeutralLevels \in Nat \ {0}
  /\ Spacing \in Nat \ {0} /\ TargetDistance \in Nat \ {0}
  /\ StopDistance \in Nat \ {0} /\ Ttl \in Nat \ {0}
  /\ StopDistance > NeutralLevels * Spacing
  /\ Prices \subseteq Nat \ {0}
BY PaperAssumption

\* Distances grow with the number of steps.
LEMMA Steps ==
  ASSUME NEW n \in Nat
  PROVE  /\ Spacing * n \in Nat
         /\ n > 0 => Spacing * n > 0
         /\ n <= NeutralLevels => Spacing * n <= NeutralLevels * Spacing
<1>1. Spacing * n \in Nat
  BY Positive
<1>2. n > 0 => Spacing * n > 0
  BY Positive
<1>3. n <= NeutralLevels => Spacing * n <= NeutralLevels * Spacing
  BY Positive
<1>4. QED
  BY <1>1, <1>2, <1>3

\* Every level is short of its side's target, and a neutral grid's levels lie
\* inside its stops.
LEMMA LevelFacts ==
  ASSUME NEW c \in Campaigns, NEW i \in Levels(c)
  PROVE  /\ i \in Indices
         /\ LevelDir(c, i) \in Sides
         /\ LevelPrice(c, i) \in Int
         /\ Worse(LevelDir(c, i), LevelPrice(c, i), Target(c, LevelDir(c, i)))
         /\ c.mode = "NEUTRAL_GRID" =>
              Better(LevelDir(c, i), LevelPrice(c, i), Stop(c, LevelDir(c, i)))
<1>1. i \in Indices /\ Depth(c, i) \in Nat
  BY Positive DEF Levels, Indices, Depth
<1>2. LevelDir(c, i) \in Sides
  BY DEF LevelDir, Sides
<1>3. c.ref \in Nat
  BY DEF Campaigns
<1>4. CASE c.mode = "NEUTRAL_GRID"
  <2>1. Depth(c, i) > 0 /\ Depth(c, i) <= NeutralLevels
    BY <1>4, Positive DEF Levels, Depth
  <2>2. PICK n \in Nat : n = Spacing * Depth(c, i)
    BY <1>1, Steps
  <2>3. n > 0 /\ n < StopDistance
    BY <2>1, <2>2, <1>1, Steps, Positive
  <2>4. QED
    BY <1>1, <1>2, <1>3, <1>4, <2>2, <2>3, Positive
    DEF LevelPrice, Towards, Worse, Better, Target, Stop, Sides
<1>5. CASE c.mode # "NEUTRAL_GRID"
  <2>1. PICK n \in Nat : n = Spacing * Depth(c, i)
    BY <1>1, Steps
  <2>2. QED
    BY <1>1, <1>2, <1>3, <1>5, <2>1, Positive
    DEF LevelPrice, Towards, Worse, Target, Sides
<1>6. QED
  BY <1>4, <1>5

\* Stops are numbers.
LEMMA StopInt ==
  ASSUME NEW c \in Campaigns, NEW d \in Sides
  PROVE  Stop(c, d) \in Int /\ Target(c, d) \in Int
BY Positive DEF Campaigns, Stop, Target, Towards

\* A valid quote's prices, from both sides.
LEMMA QuoteNat ==
  ASSUME quote \in Quotes
  PROVE  quote.bid \in Nat /\ quote.ask \in Nat
<1>1. Prices \cup {0} \subseteq Nat
  BY Positive
<1>2. quote.bid \in Prices \cup {0} /\ quote.ask \in Prices \cup {0}
  BY DEF Quotes
<1>3. QED
  BY <1>1, <1>2

LEMMA QuoteFacts ==
  ASSUME quote \in Quotes, Valid, NEW d \in Sides
  PROVE  /\ ExitAt(d) \in Nat /\ EntryAt(d) \in Nat /\ Mid \in Nat
         /\ ~Better(d, ExitAt(d), EntryAt(d))
BY QuoteNat DEF Valid, ExitAt, EntryAt, Mid, Better, Worse, Sides

\* A level that is touched while the stop is not hit lies inside the stop.
LEMMA TouchedInside ==
  ASSUME quote \in Quotes, Valid, NEW c \in Campaigns, NEW i \in Levels(c),
         Touched(c, i), ~StopHit(c, LevelDir(c, i))
  PROVE  Better(LevelDir(c, i), LevelPrice(c, i), Stop(c, LevelDir(c, i)))
<1> DEFINE d == LevelDir(c, i)
<1>1. d \in Sides /\ LevelPrice(c, i) \in Int
  BY LevelFacts
<1>2. Stop(c, d) \in Int
  BY <1>1, StopInt
<1>3. ExitAt(d) \in Nat /\ EntryAt(d) \in Nat /\ ~Better(d, ExitAt(d), EntryAt(d))
  BY <1>1, QuoteFacts
<1>4. ~Worse(d, LevelPrice(c, i), EntryAt(d)) /\ Better(d, ExitAt(d), Stop(c, d))
  BY DEF Touched, StopHit
<1> HIDE DEF d
<1>5. Better(d, LevelPrice(c, i), Stop(c, d))
  BY <1>1, <1>2, <1>3, <1>4 DEF Better, Worse, Sides
<1>6. QED
  BY <1>5 DEF d

\* A quote touches the levels of one side only: the broker's refusal of a
\* two-sided first touch is unreachable.
THEOREM OneSideTouched ==
  ASSUME quote \in Quotes, Valid, NEW c \in Campaigns, c.mode = "NEUTRAL_GRID",
         NEW i \in Levels(c), NEW j \in Levels(c), Touched(c, i), Touched(c, j)
  PROVE  LevelDir(c, i) = LevelDir(c, j)
<1>1. ASSUME NEW k \in Levels(c), Touched(c, k)
      PROVE  Worse(LevelDir(c, k), EntryAt(LevelDir(c, k)), c.ref)
  <2>1. /\ LevelDir(c, k) \in Sides
        /\ LevelPrice(c, k) \in Int
        /\ Worse(LevelDir(c, k), LevelPrice(c, k), c.ref)
    BY LevelFacts DEF Target
  <2>2. EntryAt(LevelDir(c, k)) \in Nat
    BY <2>1, QuoteFacts
  <2>3. ~Worse(LevelDir(c, k), LevelPrice(c, k), EntryAt(LevelDir(c, k)))
    BY <1>1 DEF Touched
  <2>4. QED
    BY <2>1, <2>2, <2>3 DEF Worse, Sides, Campaigns
<1>2. LevelDir(c, i) \in Sides /\ LevelDir(c, j) \in Sides
  BY LevelFacts
<1>3. ~(/\ Worse("LONG", EntryAt("LONG"), c.ref)
        /\ Worse("SHORT", EntryAt("SHORT"), c.ref))
  BY QuoteNat DEF Valid, EntryAt, Worse, Campaigns
<1>4. QED
  BY <1>1, <1>2, <1>3 DEF Sides

-----------------------------------------------------------------------------
(* What on_state does to a sound campaign. *)

\* The side of a sound campaign with a position.
LEMMA SideOf ==
  ASSUME NEW c, Sound(c), c.dir # "PASS"
  PROVE  c.dir \in Sides /\ c \in Campaigns
BY DEF Sound, Campaigns, Directions, Sides

\* Filling unfilled levels of a sound campaign, of one side and inside its
\* stop, keeps it sound.
LEMMA FillSound ==
  ASSUME NEW c, Sound(c), c.status = "OPEN",
         NEW S, S \subseteq Levels(c) \ Filled(c),
         NEW d \in Sides,
         c.dir \in {"PASS", d},
         c.dir = "PASS" => S # {} /\ c.mode = "NEUTRAL_GRID",
         \A i \in S : LevelDir(c, i) = d /\ Better(d, LevelPrice(c, i), Stop(c, d))
  PROVE  Sound([Fill(c, S) EXCEPT !.dir = d])
<1> DEFINE f == [Fill(c, S) EXCEPT !.dir = d]
<1>0. c \in Campaigns
  BY DEF Sound
<1>1. /\ f \in Campaigns
      /\ f.status = "OPEN" /\ f.mode = c.mode /\ f.ref = c.ref /\ f.dir = d
      /\ f.invalidation = c.invalidation /\ f.at = c.at
      /\ \A i \in Indices : f.fills[i] = IF i \in S THEN c.fills[i] + 1 ELSE c.fills[i]
  <2> DEFINE g == [i \in Indices |-> IF i \in S THEN c.fills[i] + 1 ELSE c.fills[i]]
  <2>1. g \in [Indices -> Nat]
    BY <1>0 DEF Campaigns
  <2>2. \A i \in Indices : g[i] = IF i \in S THEN c.fills[i] + 1 ELSE c.fills[i]
    OBVIOUS
  <2>3. f = [[c EXCEPT !.fills = g] EXCEPT !.dir = d]
    BY DEF Fill
  <2> HIDE DEF g, f
  <2>4. QED
    BY <1>0, <2>1, <2>2, <2>3 DEF Campaigns, Sides, Directions
<1>2. /\ \A i : LevelDir(f, i) = LevelDir(c, i) /\ LevelPrice(f, i) = LevelPrice(c, i)
      /\ Levels(f) = Levels(c) /\ Stop(f, d) = Stop(c, d)
  BY <1>1 DEF LevelDir, LevelPrice, Levels, Stop, Depth
<1> HIDE DEF f
<1>3. S \subseteq Indices /\ \A i \in S : c.fills[i] = 0
  <2>1. ASSUME NEW i \in S PROVE i \in Indices
    BY <1>0, LevelFacts
  <2>2. \A i \in Indices : c.fills[i] \in Nat
    BY <1>0 DEF Campaigns
  <2>3. QED
    BY <2>1, <2>2 DEF Filled
<1>4. Filled(f) = Filled(c) \cup S
  <2>1. \A i \in Indices : c.fills[i] \in Nat
    BY <1>0 DEF Campaigns
  <2>2. ASSUME NEW i \in Indices
        PROVE  f.fills[i] > 0 <=> (c.fills[i] > 0 \/ i \in S)
    BY <1>1, <1>3, <2>1
  <2>3. QED
    BY <1>3, <2>2 DEF Filled
<1>5. c.dir = "PASS" => Filled(c) = {}
  BY DEF Sound, SideTaken
<1>6. Inside(f)
  <2>1. ASSUME NEW i \in Filled(c) PROVE Better(d, LevelPrice(c, i), Stop(c, d))
    BY <1>5 DEF Sound, Inside
  <2>2. QED
    BY <1>1, <1>2, <1>4, <2>1 DEF Inside
<1>7. OwnFills(f)
  <2> SUFFICES ASSUME NEW i \in Indices
               PROVE  /\ f.fills[i] <= 1
                      /\ f.fills[i] = 1 => i \in Levels(f) /\ LevelDir(f, i) = f.dir
    BY DEF OwnFills
  <2>1. CASE i \in S
    BY <1>1, <1>2, <1>3, <2>1
  <2>2. CASE i \notin S
    <3>1. /\ f.fills[i] = c.fills[i] /\ c.fills[i] <= 1
          /\ c.fills[i] = 1 => i \in Levels(c) /\ LevelDir(c, i) = c.dir
      BY <1>1, <2>2 DEF Sound, OwnFills
    <3>2. c.fills[i] = 1 => i \in Filled(c)
      BY DEF Filled
    <3>3. QED
      BY <1>1, <1>2, <1>5, <3>1, <3>2
  <2>3. QED
    BY <2>1, <2>2
<1>8. SideTaken(f)
  <2>1. c.dir # "PASS" => Filled(c) # {}
    BY DEF Sound, SideTaken
  <2>2. QED
    BY <1>1, <1>4, <2>1 DEF SideTaken, Sides
<1>9. PlanShape(f)
  BY <1>1 DEF Sound, PlanShape
<1>10. Result(f)
  BY <1>1 DEF Result
<1>11. QED
  BY <1>1, <1>6, <1>7, <1>8, <1>9, <1>10 DEF Sound, f

\* The status, the stamp and the mode survive every fill.
LEMMA FillKeeps ==
  ASSUME NEW c, c \in Campaigns, NEW S, NEW d
  PROVE  LET f == [Fill(c, S) EXCEPT !.dir = d]
         IN  /\ f.status = c.status /\ f.at = c.at /\ f.dir = d
             /\ d = c.dir => f = Fill(c, S)
BY DEF Campaigns, Fill

\* Closing at the stop or the target gives the result its name says.
LEMMA CloseSound ==
  ASSUME NEW c, Sound(c), c.status = "OPEN",
         NEW reason \in {"STOP", "TAKE_PROFIT", "EXPIRED"}, NEW price \in Nat,
         reason = "EXPIRED" => c.dir = "PASS",
         reason # "EXPIRED" => c.dir # "PASS",
         reason = "STOP" => ~Better(c.dir, price, Stop(c, c.dir)),
         reason = "TAKE_PROFIT" => ~Worse(c.dir, price, Target(c, c.dir))
  PROVE  Sound(Close(c, reason, price))
<1> DEFINE f == Close(c, reason, price)
<1>0. c \in Campaigns
  BY DEF Sound
<1>1. /\ f \in Campaigns
      /\ f.status = "CLOSED" /\ f.reason = reason /\ f.price = price
      /\ f.mode = c.mode /\ f.ref = c.ref /\ f.dir = c.dir
      /\ f.invalidation = c.invalidation /\ f.fills = c.fills
  BY <1>0 DEF Campaigns, Close
<1>2. /\ \A i : LevelDir(f, i) = LevelDir(c, i) /\ LevelPrice(f, i) = LevelPrice(c, i)
      /\ Levels(f) = Levels(c) /\ \A d : Stop(f, d) = Stop(c, d)
      /\ Filled(f) = Filled(c)
  BY <1>1 DEF LevelDir, LevelPrice, Levels, Stop, Depth, Filled
<1> HIDE DEF f
<1>3. PlanShape(f) /\ Inside(f) /\ OwnFills(f) /\ SideTaken(f)
  <2>1. PlanShape(f)
    BY <1>1 DEF Sound, PlanShape
  <2>2. Inside(f)
    BY <1>1, <1>2 DEF Sound, Inside
  <2>3. OwnFills(f)
    BY <1>1, <1>2 DEF Sound, OwnFills
  <2>4. SideTaken(f)
    BY <1>1, <1>2 DEF Sound, SideTaken
  <2>5. QED
    BY <2>1, <2>2, <2>3, <2>4
<1>4. CASE reason = "EXPIRED"
  BY <1>1, <1>2, <1>3, <1>4 DEF Sound, SideTaken, Result, f
<1>5. CASE reason # "EXPIRED"
  <2>1. c.dir \in Sides /\ Filled(c) # {}
    BY <1>5, SideOf DEF Sound, SideTaken
  <2>2. ASSUME NEW i \in Filled(c)
        PROVE  /\ LevelPrice(c, i) \in Int
               /\ Better(c.dir, LevelPrice(c, i), Stop(c, c.dir))
               /\ Worse(c.dir, LevelPrice(c, i), Target(c, c.dir))
    <3>1. i \in Levels(c) /\ LevelDir(c, i) = c.dir
      <4>1. i \in Indices /\ c.fills[i] > 0 /\ c.fills[i] \in Nat
        BY <1>0 DEF Filled, Campaigns
      <4>2. c.fills[i] <= 1
        BY <4>1 DEF Sound, OwnFills
      <4>3. c.fills[i] = 1
        BY <4>1, <4>2
      <4>4. QED
        BY <4>1, <4>3 DEF Sound, OwnFills
    <3>2. LevelPrice(c, i) \in Int /\ Worse(c.dir, LevelPrice(c, i), Target(c, c.dir))
      BY <1>0, <3>1, LevelFacts
    <3>3. QED
      BY <3>2 DEF Sound, Inside
  <2>3. Stop(c, c.dir) \in Int /\ Target(c, c.dir) \in Int
    BY <1>0, <2>1, StopInt
  <2>4. CASE reason = "STOP"
    <3>1. ASSUME NEW i \in Filled(c) PROVE Worse(c.dir, price, LevelPrice(c, i))
      BY <2>1, <2>2, <2>3, <2>4 DEF Better, Worse, Sides
    <3>2. Result(f)
      BY <1>1, <1>2, <2>1, <2>4, <3>1 DEF Result
    <3>3. QED
      BY <1>1, <1>3, <3>2 DEF Sound, f
  <2>5. CASE reason = "TAKE_PROFIT"
    <3>1. ASSUME NEW i \in Filled(c) PROVE Better(c.dir, price, LevelPrice(c, i))
      BY <2>1, <2>2, <2>3, <2>5 DEF Better, Worse, Sides
    <3>2. Result(f)
      BY <1>1, <1>2, <2>1, <2>5, <3>1 DEF Result
    <3>3. QED
      BY <1>1, <1>3, <3>2 DEF Sound, f
  <2>6. QED
    BY <1>5, <2>4, <2>5
<1>6. QED
  BY <1>4, <1>5

\* Status and stamp after a close.
LEMMA CloseKeeps ==
  ASSUME NEW c, c \in Campaigns, NEW reason, NEW price
  PROVE  Close(c, reason, price).status = "CLOSED" /\ Close(c, reason, price).at = c.at
BY DEF Campaigns, Close

\* The fills of an event, once the stop is known not to be hit.
LEMMA FillTouchedSound ==
  ASSUME NEW c, Sound(c), c.status = "OPEN", c.dir # "PASS",
         quote \in Quotes, Valid, ~StopHit(c, c.dir)
  PROVE  /\ Sound(FillTouched(c))
         /\ FillTouched(c).status = "OPEN" /\ FillTouched(c).at = c.at
<1> DEFINE S == {i \in Levels(c) \ Filled(c) : LevelDir(c, i) = c.dir /\ Touched(c, i)}
<1>1. c.dir \in Sides /\ c \in Campaigns
  BY SideOf
<1>2. ASSUME NEW i \in S
      PROVE  LevelDir(c, i) = c.dir /\ Better(c.dir, LevelPrice(c, i), Stop(c, c.dir))
  BY <1>1, <1>2, TouchedInside
<1>3. Sound([Fill(c, S) EXCEPT !.dir = c.dir])
  <2>1. S \subseteq Levels(c) \ Filled(c)
    OBVIOUS
  <2> HIDE DEF S
  <2>2. QED
    BY <1>1, <1>2, <2>1, FillSound
<1>4. /\ [Fill(c, S) EXCEPT !.dir = c.dir] = Fill(c, S)
      /\ Fill(c, S).status = c.status /\ Fill(c, S).at = c.at
  <2> HIDE DEF S
  <2>1. QED
    BY <1>1, FillKeeps
<1>5. QED
  BY <1>3, <1>4 DEF FillTouched

\* The first touch of an armed neutral grid.
LEMMA FirstTouchSound ==
  ASSUME NEW c, Sound(c), c.status = "OPEN", c.dir = "PASS"
  PROVE  /\ Sound(FirstTouch(c))
         /\ FirstTouch(c).status = "OPEN" /\ FirstTouch(c).at = c.at
<1> DEFINE T == {i \in Levels(c) : Touched(c, i)}
           d == LevelDir(c, CHOOSE i \in T : TRUE)
           S == {i \in T : LevelDir(c, i) = d}
<1>1. CASE T = {}
  BY <1>1 DEF FirstTouch
<1>2. CASE T # {}
  <2>1. PICK k \in T : k = CHOOSE i \in T : TRUE
    BY <1>2
  <2>2. c \in Campaigns /\ k \in Levels(c) /\ d = LevelDir(c, k) /\ k \in S
    BY <2>1 DEF Sound
  <2>3. d \in Sides
    BY <2>2, LevelFacts
  <2>4. c.mode = "NEUTRAL_GRID"
    BY <2>2 DEF Sound, PlanShape, Campaigns, Modes
  <2>5. S \subseteq Levels(c) \ Filled(c) /\ S # {}
    BY <2>2 DEF Sound, SideTaken
  <2>6. ASSUME NEW i \in S
        PROVE  LevelDir(c, i) = d /\ Better(d, LevelPrice(c, i), Stop(c, d))
    <3>1. i \in Levels(c) /\ LevelDir(c, i) = d
      OBVIOUS
    <3>2. QED
      BY <2>2, <2>4, <3>1, LevelFacts
  <2>7. FirstTouch(c) = [Fill(c, S) EXCEPT !.dir = d]
    BY <1>2 DEF FirstTouch
  <2> HIDE DEF S, T, d
  <2>8. Sound([Fill(c, S) EXCEPT !.dir = d])
    BY <2>3, <2>4, <2>5, <2>6, FillSound
  <2>9. QED
    BY <2>2, <2>7, <2>8, FillKeeps
<1>3. QED
  BY <1>1, <1>2

\* The management of a position: stop, then target, then fills.
LEMMA ManageSound ==
  ASSUME NEW c, Sound(c), c.status = "OPEN", c.dir # "PASS", quote \in Quotes, Valid
  PROVE  /\ Sound(Manage(c)) /\ Manage(c).at = c.at
         /\ Manage(c).status \in {"OPEN", "CLOSED"}
<1>1. c.dir \in Sides /\ c \in Campaigns
  BY SideOf
<1>2. ExitAt(c.dir) \in Nat
  BY <1>1, QuoteFacts
<1>3. CASE StopHit(c, c.dir)
  <2>1. Manage(c) = Close(c, "STOP", ExitAt(c.dir))
    BY <1>3 DEF Manage
  <2>2. ~Better(c.dir, ExitAt(c.dir), Stop(c, c.dir))
    BY <1>3 DEF StopHit
  <2>3. QED
    BY <1>1, <1>2, <2>1, <2>2, CloseSound, CloseKeeps
<1>4. CASE ~StopHit(c, c.dir) /\ TargetHit(c, c.dir)
  <2>1. Manage(c) = Close(c, "TAKE_PROFIT", ExitAt(c.dir))
    BY <1>4 DEF Manage
  <2>2. ~Worse(c.dir, ExitAt(c.dir), Target(c, c.dir))
    BY <1>4 DEF TargetHit
  <2>3. QED
    BY <1>1, <1>2, <2>1, <2>2, CloseSound, CloseKeeps
<1>5. CASE ~StopHit(c, c.dir) /\ ~TargetHit(c, c.dir)
  <2>1. Manage(c) = FillTouched(c)
    BY <1>5 DEF Manage
  <2>2. QED
    BY <1>5, <2>1, FillTouchedSound
<1>6. QED
  BY <1>3, <1>4, <1>5

\* on_state keeps a campaign sound, its stamp, and a status that is not open.
LEMMA OnStateSound ==
  ASSUME NEW c, Sound(c), quote \in Quotes
  PROVE  /\ Sound(OnState(c)) /\ OnState(c).at = c.at
         /\ c.status # "OPEN" => OnState(c) = c
         /\ c.status = "OPEN" => OnState(c).status \in {"OPEN", "CLOSED"}
<1>0. c \in Campaigns
  BY DEF Sound
<1>1. CASE c.status # "OPEN" \/ ~Valid
  <2>1. OnState(c) = c
    BY <1>1 DEF OnState
  <2>2. QED
    BY <2>1
<1>2. CASE c.status = "OPEN" /\ Valid /\ Expired(c)
  <2>1. OnState(c) = Close(c, "EXPIRED", Mid)
    BY <1>2 DEF OnState
  <2>2. Mid \in Nat
    BY <1>2, QuoteNat DEF Mid
  <2>3. c.dir = "PASS"
    BY <1>2 DEF Expired
  <2>4. QED
    BY <1>0, <1>2, <2>1, <2>2, <2>3, CloseSound, CloseKeeps
<1>3. CASE c.status = "OPEN" /\ Valid /\ ~Expired(c)
  <2> DEFINE a == Activated(c)
  <2>1. OnState(c) = IF a.dir = "PASS" THEN a ELSE Manage(a)
    BY <1>3 DEF OnState
  <2>2. Sound(a) /\ a.status = "OPEN" /\ a.at = c.at
    BY <1>3, FirstTouchSound DEF Activated
  <2> HIDE DEF a
  <2>3. QED
    BY <1>3, <2>1, <2>2, ManageSound
<1>4. QED
  BY <1>1, <1>2, <1>3

\* A campaign starts sound.
LEMMA OpenedSound ==
  ASSUME quote \in Quotes, now \in Nat, NEW mode \in Modes, NEW p \in Prices \cup {0},
         PlanAllowed(mode, 2 * p)
  PROVE  /\ Sound(Opened(mode, 2 * p))
         /\ Opened(mode, 2 * p).status = "OPEN" /\ Opened(mode, 2 * p).at = now
<1> DEFINE c == Opened(mode, 2 * p)
           g == [i \in Indices |-> IF mode # "NEUTRAL_GRID" /\ i = 0 THEN 1 ELSE 0]
<1>1. Mid \in Nat /\ 2 * p \in Nat
  BY QuoteNat, Positive DEF Mid
<1>2. g \in [Indices -> Nat]
  OBVIOUS
<1>3. /\ c.status = "OPEN" /\ c.mode = mode /\ c.ref = Mid /\ c.invalidation = 2 * p
      /\ c.at = now /\ c.fills = g /\ c \in Campaigns
      /\ mode = "LONG_GRID" => c.dir = "LONG"
      /\ mode = "SHORT_GRID" => c.dir = "SHORT"
      /\ mode = "NEUTRAL_GRID" => c.dir = "PASS"
  <2> DEFINE dir == CASE mode = "LONG_GRID"  -> "LONG"
                      [] mode = "SHORT_GRID" -> "SHORT"
                      [] OTHER -> "PASS"
  <2>1. /\ dir \in Directions
        /\ mode = "LONG_GRID" => dir = "LONG"
        /\ mode = "SHORT_GRID" => dir = "SHORT"
        /\ mode = "NEUTRAL_GRID" => dir = "PASS"
    BY DEF Directions, Modes
  <2>2. c = [status |-> "OPEN", mode |-> mode, ref |-> Mid, invalidation |-> 2 * p,
             at |-> now, reason |-> "NONE", price |-> 0, dir |-> dir, fills |-> g]
    BY DEF Opened
  <2> HIDE DEF g, dir, c
  <2>3. QED
    BY <1>1, <1>2, <2>1, <2>2 DEF Campaigns
<1>4. 0 \in Indices
  BY Positive DEF Indices
<1>5. Filled(c) = IF mode = "NEUTRAL_GRID" THEN {} ELSE {0}
  BY <1>3, <1>4 DEF Filled
<1> HIDE DEF c
<1>6. PlanShape(c)
  <2>1. /\ mode = "LONG_GRID" => 2 * p < Mid
        /\ mode = "SHORT_GRID" => 2 * p > Mid
    BY DEF PlanAllowed
  <2>2. QED
    BY <1>3, <2>1 DEF PlanShape
<1>7. CASE mode = "NEUTRAL_GRID"
  <2>1. Sound(c)
    BY <1>3, <1>5, <1>6, <1>7 DEF Sound, Inside, OwnFills, SideTaken, Result
  <2>2. QED
    BY <1>3, <2>1 DEF c
<1>8. CASE mode # "NEUTRAL_GRID"
  <2>1. mode \in {"LONG_GRID", "SHORT_GRID"} /\ c.dir \in Sides
    BY <1>3, <1>8 DEF Modes, Sides
  <2>2. 0 \in Levels(c) /\ LevelDir(c, 0) = c.dir
    BY <1>3, <2>1, Positive DEF Levels, LevelDir
  <2>3. LevelPrice(c, 0) = Mid
    <3>1. Depth(c, 0) = 0 /\ Spacing * 0 = 0
      BY <1>3, <1>8, Positive DEF Depth
    <3>2. QED
      BY <1>1, <1>3, <3>1 DEF LevelPrice, Towards
  <2>4. Inside(c)
    <3>1. Stop(c, c.dir) = c.invalidation
      BY <1>3, <1>8 DEF Stop
    <3>2. Better(c.dir, Mid, c.invalidation)
      BY <1>1, <1>3, <1>6, <2>1 DEF PlanShape, Better, Worse
    <3>3. QED
      BY <1>5, <1>8, <2>3, <3>1, <3>2 DEF Inside
  <2>5. OwnFills(c)
    BY <1>3, <1>8, <2>2 DEF OwnFills
  <2>6. SideTaken(c)
    <3>1. 0 \in Filled(c)
      BY <1>5, <1>8
    <3>2. QED
      BY <2>1, <3>1 DEF SideTaken, Sides
  <2>7. Result(c)
    BY <1>3 DEF Result
  <2>8. QED
    BY <1>3, <1>6, <2>4, <2>5, <2>6, <2>7 DEF Sound, c
<1>9. QED
  BY <1>3, <1>7, <1>8 DEF c

-----------------------------------------------------------------------------
(* The invariants. *)

Inv == BrokerInv /\ ClockInv /\ CountInv

LEMMA InitInv == Init => Inv
<1> SUFFICES ASSUME Init PROVE Inv
  OBVIOUS
<1> USE DEF Init
<1>1. Sound(NoCampaign)
  <2> DEFINE g == [i \in Indices |-> 0]
  <2>1. g \in [Indices -> Nat] /\ NoCampaign.fills = g /\ \A i \in Indices : g[i] = 0
    BY DEF NoCampaign
  <2>2. NoCampaign \in Campaigns
    <3> HIDE DEF g
    <3>1. QED
      BY <2>1 DEF NoCampaign, Campaigns, Modes, Directions, g
  <2>3. Filled(NoCampaign) = {}
    BY <2>1 DEF Filled
  <2>4. /\ NoCampaign.mode = "NEUTRAL_GRID" /\ NoCampaign.dir = "PASS"
        /\ NoCampaign.status = "NONE"
    BY DEF NoCampaign
  <2>5. QED
    BY <2>1, <2>2, <2>3, <2>4
    DEF Sound, PlanShape, Inside, OwnFills, SideTaken, Result
<1>2. BrokerInv
  BY <1>1 DEF BrokerInv, Quotes
<1>3. ClockInv
  BY DEF ClockInv, NoEvent, NoCampaign
<1>4. CountInv
  BY DEF CountInv, StatsBalance, NoCampaign
<1>5. QED
  BY <1>2, <1>3, <1>4 DEF Inv

LEMMA MessageInv == Inv /\ Message => Inv'
<1> SUFFICES ASSUME Inv, Message PROVE Inv'
  OBVIOUS
<1>1. PICK e \in 0 .. MaxTime : now' = Latest(e)
  BY DEF Message
<1>2. now \in Nat /\ now' \in Nat /\ now' >= now
  BY <1>1, PaperAssumption DEF Inv, BrokerInv, Latest
<1>3. BrokerInv'
  BY <1>2 DEF Inv, BrokerInv, Message, Quotes
<1>4. ClockInv'
  BY <1>2 DEF Inv, ClockInv, Message
<1>5. CountInv'
  BY DEF Inv, CountInv, StatsBalance, Message
<1>6. QED
  BY <1>3, <1>4, <1>5 DEF Inv

LEMMA ProcessInv == Inv /\ Process => Inv'
<1> SUFFICES ASSUME Inv, Process PROVE Inv'
  OBVIOUS
<1> DEFINE c      == OnState(camp)
           closes == camp.status = "OPEN" /\ c.status = "CLOSED"
           opens  == /\ ~HoldsSymbol(c.status, recent', seen')
                     /\ \E mode \in Modes, p \in Prices \cup {0} :
                          /\ PlanAllowed(mode, 2 * p)
                          /\ camp' = Opened(mode, 2 * p)
                     /\ stats' = [opened |-> stats.opened + 1,
                                  closed |-> CountClose(closes)]
           stays  == /\ camp' = c
                     /\ stats' = [stats EXCEPT !.closed = CountClose(closes)]
<1>1. /\ Sound(c) /\ c.at = camp.at
      /\ camp.status # "OPEN" => c = camp
      /\ camp.status = "OPEN" => c.status \in {"OPEN", "CLOSED"}
  BY OnStateSound DEF Inv, BrokerInv
<1>2. /\ seen' = now /\ now' = now /\ quote' = quote
      /\ recent' = Recent(closes)
      /\ closedAt' = IF closes THEN now ELSE closedAt
      /\ stays \/ opens
  BY DEF Process
<1> HIDE DEF c, opens, stays
<1>3. opens => /\ Sound(camp') /\ camp'.status = "OPEN" /\ camp'.at = now
               /\ c.status # "OPEN"
               /\ recent' = NoEvent \/ recent' # now
  BY <1>2, OpenedSound DEF opens, HoldsSymbol, Inv, BrokerInv
<1>4. stays => camp' = c
  BY DEF stays
<1>5. BrokerInv'
  BY <1>1, <1>2, <1>3, <1>4 DEF Inv, BrokerInv, Quotes
<1>6. ClockInv'
  <2>1. /\ closedAt' \in Nat \cup {NoEvent} /\ closedAt' <= seen'
        /\ recent' \in Nat \cup {NoEvent}
    BY <1>2 DEF Inv, ClockInv, Recent, NoEvent
  <2>2. closedAt' = seen' => recent' = closedAt'
    BY <1>2 DEF Inv, ClockInv, Recent, NoEvent
  <2>3. stays => (camp'.status = "OPEN" => closedAt' < camp'.at)
    BY <1>1, <1>2, <1>4 DEF Inv, ClockInv
  <2>4. opens => closedAt' < camp'.at
    BY <1>2, <1>3, <2>1, <2>2 DEF Inv, ClockInv, NoEvent
  <2>5. QED
    BY <1>2, <2>1, <2>2, <2>3, <2>4 DEF Inv, ClockInv
<1>7. CountInv'
  <2>1. CountClose(closes) = stats.closed + (IF closes THEN 1 ELSE 0)
    BY DEF CountClose, HoldsSymbol
  <2>2. /\ stats \in [opened : Nat, closed : Nat]
        /\ stats.opened - stats.closed = (IF camp.status = "OPEN" THEN 1 ELSE 0)
    BY DEF Inv, CountInv, StatsBalance
  <2>3. CASE stays
    <3>1. stats' = [opened |-> stats.opened,
                    closed |-> stats.closed + (IF closes THEN 1 ELSE 0)]
      BY <2>1, <2>2, <2>3 DEF stays
    <3>2. camp' = c
      BY <1>4, <2>3
    <3>3. QED
      BY <1>1, <2>2, <3>1, <3>2 DEF CountInv, StatsBalance
  <2>4. CASE opens
    <3>1. stats' = [opened |-> stats.opened + 1,
                    closed |-> stats.closed + (IF closes THEN 1 ELSE 0)]
      BY <2>1, <2>4 DEF opens
    <3>2. QED
      BY <1>1, <1>3, <2>2, <2>4, <3>1 DEF CountInv, StatsBalance
  <2>5. QED
    BY <1>2, <2>3, <2>4
<1>8. QED
  BY <1>5, <1>6, <1>7 DEF Inv

\* The inductive invariant.
THEOREM PaperInvariant == Spec => []Inv
<1>1. Inv /\ [Next]_vars => Inv'
  <2> SUFFICES ASSUME Inv, [Next]_vars PROVE Inv'
    OBVIOUS
  <2>1. CASE UNCHANGED vars
    BY <2>1 DEF vars, Inv, BrokerInv, ClockInv, CountInv, StatsBalance
  <2>2. QED
    BY <2>1, MessageInv, ProcessInv DEF Next
<1>2. QED
  BY <1>1, InitInv, PTL DEF Spec

\* A level is filled only inside the campaign's stop.
THEOREM PaperFillsInside == Spec => []FillsInsideStop
<1>1. Inv => FillsInsideStop
  BY DEF Inv, BrokerInv, Sound, Inside, FillsInsideStop
<1>2. QED
  BY <1>1, PaperInvariant, PTL

\* A take profit gains on every fill, a stop loses on every fill, and only an
\* unfilled grid expires.
THEOREM PaperResults == Spec => []ResultMatchesReason
<1>1. Inv => ResultMatchesReason
  BY DEF Inv, BrokerInv, Sound, Result, ResultMatchesReason
<1>2. QED
  BY <1>1, PaperInvariant, PTL

\* Each level is filled at most once and on the campaign's side only.
THEOREM PaperBudget == Spec => []BudgetKept
<1>1. Inv => BudgetKept
  BY DEF Inv, BrokerInv, Sound, OwnFills, BudgetKept
<1>2. QED
  BY <1>1, PaperInvariant, PTL

\* No open shares the event time of a close before it.
THEOREM PaperReopensLater == Spec => []OpensAfterClose
<1>1. Inv => OpensAfterClose
  BY DEF Inv, BrokerInv, Sound, Campaigns, ClockInv, NoEvent, OpensAfterClose
<1>2. QED
  BY <1>1, PaperInvariant, PTL

\* The runtime's counters differ by the open campaign.
THEOREM PaperCounts == Spec => []StatsBalance
<1>1. Inv => StatsBalance
  BY DEF Inv, CountInv
<1>2. QED
  BY <1>1, PaperInvariant, PTL

\* What on_state leaves open is neither expired nor at its stop or target.
LEMMA OnStatePrompt ==
  ASSUME NEW c, Sound(c), quote \in Quotes, now \in Nat, Valid,
         c.status = "OPEN", OnState(c).status = "OPEN"
  PROVE  LET f == OnState(c)
         IN  IF f.dir = "PASS" THEN now < f.at + Ttl
             ELSE ~StopHit(f, f.dir) /\ ~TargetHit(f, f.dir)
<1> DEFINE a == Activated(c)
           f == OnState(c)
<1>1. c \in Campaigns
  BY DEF Sound
<1>2. ~Expired(c)
  BY <1>1, CloseKeeps DEF OnState
<1>3. f = IF a.dir = "PASS" THEN a ELSE Manage(a)
  BY <1>2 DEF OnState
<1>4. Sound(a) /\ a.status = "OPEN" /\ a.at = c.at
  BY FirstTouchSound DEF Activated
<1>5. CASE a.dir = "PASS"
  <2>1. c.dir = "PASS"
    BY <1>5 DEF Activated
  <2>2. now < c.at + Ttl
    BY <1>1, <1>2, <2>1, Positive DEF Expired, Campaigns
  <2>3. QED
    BY <1>3, <1>4, <1>5, <2>2
<1>6. CASE a.dir # "PASS"
  <2>1. f = Manage(a) /\ a \in Campaigns
    BY <1>3, <1>4, <1>6 DEF Sound
  <2>2. ~StopHit(a, a.dir) /\ ~TargetHit(a, a.dir) /\ f = FillTouched(a)
    BY <2>1, CloseKeeps DEF Manage
  <2>3. /\ f.dir = a.dir /\ f.mode = a.mode /\ f.ref = a.ref
        /\ f.invalidation = a.invalidation
    BY <2>1, <2>2 DEF FillTouched, Fill, Campaigns
  <2>4. Stop(f, f.dir) = Stop(a, a.dir) /\ Target(f, f.dir) = Target(a, a.dir)
    BY <2>3 DEF Stop, Target
  <2>5. ~StopHit(f, f.dir) /\ ~TargetHit(f, f.dir)
    BY <2>2, <2>3, <2>4 DEF StopHit, TargetHit
  <2>6. QED
    BY <1>6, <2>3, <2>5
<1>7. QED
  BY <1>5, <1>6

\* No callback leaves a campaign open past its time, stop or target.
THEOREM PaperExitsPrompt == Spec => ExitsPrompt
<1> DEFINE Prompt ==
      Process /\ camp.status = "OPEN" /\ camp'.status = "OPEN" /\ Valid =>
        IF camp'.dir = "PASS" THEN now < camp'.at + Ttl
        ELSE ~StopHit(camp', camp'.dir) /\ ~TargetHit(camp', camp'.dir)
<1>1. Inv => [Prompt]_vars
  <2> SUFFICES ASSUME Inv, Process, camp.status = "OPEN", camp'.status = "OPEN", Valid
               PROVE  IF camp'.dir = "PASS" THEN now < camp'.at + Ttl
                      ELSE ~StopHit(camp', camp'.dir) /\ ~TargetHit(camp', camp'.dir)
    OBVIOUS
  <2>1. Sound(camp) /\ quote \in Quotes /\ now \in Nat
    BY DEF Inv, BrokerInv
  <2>2. OnState(camp).status \in {"OPEN", "CLOSED"}
    BY <2>1, OnStateSound
  <2>3. CASE camp' = OnState(camp)
    BY <2>1, <2>3, OnStatePrompt
  <2>4. CASE ~HoldsSymbol(OnState(camp).status, recent', seen')
    <3>1. OnState(camp).status = "CLOSED"
      BY <2>2, <2>4 DEF HoldsSymbol
    <3>2. recent' = now /\ seen' = now
      BY <3>1 DEF Process, Recent
    <3>3. QED
      BY <2>1, <2>4, <3>2 DEF HoldsSymbol, NoEvent
  <2>5. QED
    BY <2>3, <2>4 DEF Process
<1>2. QED
  BY <1>1, PaperInvariant, PTL DEF ExitsPrompt

-----------------------------------------------------------------------------
(* Types, and the prices of levels. *)

PlanPriced(c) == c.status # "NONE" => \A i \in Levels(c) : LevelPrice(c, i) > 0

\* A campaign's levels are those of its mode and reference.
SamePlan(c, d) == d.mode = c.mode /\ d.ref = c.ref

LEMMA PlanPricedKept ==
  ASSUME NEW c, NEW d, SamePlan(c, d), PlanPriced(c), c.status # "NONE"
  PROVE  PlanPriced(d)
<1>1. Levels(d) = Levels(c)
  BY DEF SamePlan, Levels
<1>2. \A i : LevelPrice(d, i) = LevelPrice(c, i)
  BY DEF SamePlan, LevelPrice, LevelDir, Depth
<1>3. QED
  BY <1>1, <1>2 DEF PlanPriced

\* Neither fills nor a close touch the plan.
LEMMA OnStateSamePlan ==
  ASSUME NEW c, Sound(c), c.status = "OPEN"
  PROVE  SamePlan(c, OnState(c))
<1>1. ASSUME NEW a \in Campaigns, NEW reason, NEW price
      PROVE  SamePlan(a, Close(a, reason, price))
  BY DEF Close, SamePlan, Campaigns
<1>2. ASSUME NEW a \in Campaigns, NEW S
      PROVE  SamePlan(a, Fill(a, S))
  BY DEF Fill, SamePlan, Campaigns
<1>3. ASSUME NEW S, NEW d
      PROVE  SamePlan(c, [Fill(c, S) EXCEPT !.dir = d])
  BY DEF Fill, SamePlan, Sound, Campaigns
<1>4. /\ SamePlan(c, FirstTouch(c))
      /\ c.dir = "PASS" => FirstTouch(c) \in Campaigns
  BY <1>3, FirstTouchSound DEF FirstTouch, SamePlan, Sound
<1>5. SamePlan(c, Activated(c)) /\ Activated(c) \in Campaigns
  BY <1>4 DEF Activated, SamePlan, Sound
<1>6. ASSUME NEW a \in Campaigns
      PROVE  SamePlan(a, Manage(a))
  BY <1>1, <1>2 DEF Manage, FillTouched
<1>7. SamePlan(c, Close(c, "EXPIRED", Mid)) /\ SamePlan(c, c)
  BY <1>1 DEF Sound, SamePlan
<1>8. SamePlan(c, Manage(Activated(c)))
  BY <1>5, <1>6 DEF SamePlan
<1>9. QED
  BY <1>5, <1>7, <1>8 DEF OnState

\* build_grid_plan refuses a plan with a level at zero or below.
LEMMA OpenedPriced ==
  ASSUME quote \in Quotes, NEW mode \in Modes, NEW p \in Prices \cup {0},
         PlanAllowed(mode, 2 * p)
  PROVE  PlanPriced(Opened(mode, 2 * p))
<1> DEFINE c == Opened(mode, 2 * p)
<1>1. c.mode = mode /\ c.ref = Mid
  BY DEF Opened
<1>2. Mid \in Nat /\ Mid > 0
  BY QuoteNat DEF PlanAllowed, Valid, Mid
<1> HIDE DEF c
<1>3. ASSUME NEW i \in Levels(c)
      PROVE  LevelPrice(c, i) > 0
  <2>1. Depth(c, i) \in Nat
    BY <1>3, Positive DEF Levels, Depth
  <2>2. PICK n \in Nat : n = Spacing * Depth(c, i)
    BY <2>1, Steps
  <2>3. CASE mode = "LONG_GRID"
    <3>1. Depth(c, i) <= LadderLevels
      BY <1>1, <1>3, <2>3, Positive DEF Levels, Depth
    <3>2. Spacing * Depth(c, i) <= Spacing * LadderLevels
      BY <2>1, <3>1, Positive
    <3>3. PICK m \in Nat : m = Spacing * LadderLevels
      BY Positive
    <3>4. Mid - m > 0
      BY <2>3, <3>3 DEF PlanAllowed
    <3>5. LevelPrice(c, i) = Mid - n
      BY <1>1, <1>2, <2>2, <2>3 DEF LevelPrice, LevelDir, Towards
    <3>6. QED
      BY <1>2, <2>2, <3>2, <3>3, <3>4, <3>5
  <2>4. CASE LevelDir(c, i) = "SHORT"
    <3>1. LevelPrice(c, i) = Mid + n
      BY <1>1, <1>2, <2>2, <2>4 DEF LevelPrice, Towards
    <3>2. QED
      BY <1>2, <2>2, <3>1
  <2>5. CASE mode = "NEUTRAL_GRID" /\ i <= NeutralLevels
    <3>1. Depth(c, i) <= NeutralLevels
      BY <1>1, <1>3, <2>5, Positive DEF Levels, Depth
    <3>2. Spacing * Depth(c, i) <= Spacing * NeutralLevels
      BY <2>1, <3>1, Positive
    <3>3. PICK m \in Nat : m = Spacing * NeutralLevels
      BY Positive
    <3>4. Mid - m > 0
      BY <2>5, <3>3 DEF PlanAllowed
    <3>5. LevelPrice(c, i) = Mid - n
      BY <1>1, <1>2, <2>2, <2>5 DEF LevelPrice, LevelDir, Towards
    <3>6. QED
      BY <1>2, <2>2, <3>2, <3>3, <3>4, <3>5
  <2>6. mode = "LONG_GRID" \/ LevelDir(c, i) = "SHORT" \/ (mode = "NEUTRAL_GRID" /\ i <= NeutralLevels)
    BY <1>1 DEF LevelDir, Modes
  <2>7. QED
    BY <2>3, <2>4, <2>5, <2>6
<1>4. QED
  BY <1>3 DEF PlanPriced, c

\* Every variable of PAPER mode keeps its type, and no plan has a level whose
\* price a fill would refuse.
THEOREM PaperTypes == Spec => []PaperTypeOK
<1> DEFINE TypeInv == queued \in 0 .. MaxQueue /\ PlanPriced(camp)
<1>1. Init => TypeInv
  BY PaperAssumption DEF Init, NoCampaign, PlanPriced
<1>2. Inv /\ TypeInv /\ [Next]_vars => TypeInv'
  <2> SUFFICES ASSUME Inv, TypeInv, [Next]_vars
               PROVE  TypeInv'
    OBVIOUS
  <2>1. CASE UNCHANGED vars
    BY <2>1 DEF vars, PlanPriced, Levels, LevelPrice, LevelDir, Depth
  <2>2. CASE Message
    BY <2>2, PaperAssumption DEF Message
  <2>3. CASE Process
    <3>1. queued' \in 0 .. MaxQueue
      BY <2>3, PaperAssumption DEF Process
    <3>2. PlanPriced(OnState(camp))
      <4>1. Sound(camp) /\ quote \in Quotes
        BY DEF Inv, BrokerInv
      <4>2. CASE camp.status # "OPEN"
        BY <4>1, <4>2, OnStateSound
      <4>3. CASE camp.status = "OPEN"
        BY <4>1, <4>3, OnStateSamePlan, PlanPricedKept
      <4>4. QED
        BY <4>2, <4>3
    <3>3. camp' = OnState(camp) => PlanPriced(camp')
      BY <3>2
    <3>4. (\E mode \in Modes, p \in Prices \cup {0} :
             PlanAllowed(mode, 2 * p) /\ camp' = Opened(mode, 2 * p))
            => PlanPriced(camp')
      BY OpenedPriced DEF Inv, BrokerInv
    <3>5. PlanPriced(camp')
      BY <2>3, <3>3, <3>4 DEF Process
    <3>6. QED
      BY <3>1, <3>5 DEF PlanPriced, Levels, LevelPrice, LevelDir, Depth
  <2>4. QED
    BY <2>1, <2>2, <2>3 DEF Next
<1>3. Inv /\ TypeInv => PaperTypeOK
  BY DEF Inv, BrokerInv, ClockInv, CountInv, Sound, PlanPriced, PaperTypeOK
<1>4. QED
  BY <1>1, <1>2, <1>3, PaperInvariant, PTL DEF Spec
=============================================================================
