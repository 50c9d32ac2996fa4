--------------------------- MODULE BinanceExchange ---------------------------
(***************************************************************************)
(* The exchange as SignalGrid sees it: one symbol's position and the       *)
(* orders of its campaigns, the REST calls that change them, and the       *)
(* account events the exchange pushes on the user stream.  It is external: *)
(* everything here is read off the way src/ uses Binance.                  *)
(*                                                                         *)
(* Every entry has quantity one and fills whole; prices are abstracted to  *)
(* the order in which orders fill and exits fire.                          *)
(***************************************************************************)
EXTENDS Integers, Sequences

CONSTANTS
  Limits,        \* the LIMIT levels of a plan
  SellLimits,    \* the ones a NEUTRAL_GRID plan sells (the others buy)
  MaxCampaigns,  \* bound: campaigns opened on the symbol
  PlanModes,     \* the grid modes a signal may ask for
  Adversary      \* what may go wrong, see AdversaryMoves

LONG_GRID    == "LONG_GRID"
SHORT_GRID   == "SHORT_GRID"
NEUTRAL_GRID == "NEUTRAL_GRID"

\* "rejected": a REST call raises without effect.  "lost": it takes effect and
\* raises (timeout after the exchange accepted).  "drop": a user-stream session
\* ends.  "crash": the process dies.  "expire": the exchange ends a resting
\* order.  "late": an account event takes longer than the cleanup grace.
\* "stop": the operator stops the runtime.  "alarm": something that is not this
\* symbol's campaign halts the store: a margin call, an event of a foreign,
\* forced or hedge-mode order, a conflict, another symbol's handler.
AdversaryMoves ==
  {"rejected", "lost", "drop", "crash", "expire", "late", "stop", "alarm"}

ASSUME ExchangeAssumption ==
  /\ SellLimits \subseteq Limits
  /\ Limits \cap {"STOP", "TP"} = {}
  /\ MaxCampaigns \in Nat
  /\ PlanModes \subseteq {LONG_GRID, SHORT_GRID, NEUTRAL_GRID}
  /\ Adversary \subseteq AdversaryMoves

Gens   == 1 .. MaxCampaigns
Exits  == {"STOP", "TP"}
Orders == Gens \X Limits      \* client ids sg-g-<campaign>:level:<index>
Algos  == Gens \X Exits       \* client ids sg-x-<campaign>:stop | :tp

OrderStatus == {"NONE", "NEW", "FILLED", "CANCELED", "EXPIRED"}
AlgoStatus  == {"NONE", "NEW", "FINISHED", "CANCELED", "EXPIRED"}

VARIABLES
  plan,      \* the mode of each campaign's plan
  xpos,      \* signed position of the symbol
  xord,      \* status of each LIMIT entry
  xalgo,     \* status of each protective exit
  exitDir,   \* the direction a campaign's exits protect (0: none placed)
  session,   \* the user-stream session: "down", "attached" (buffering), the
             \* snapshot reads done ("orders", "algos", "positions"), "live"
  events     \* account events sent and not yet processed, in order

exchangeVars == <<xpos, xord, xalgo, exitDir>>

Directions == {1, -1}
PlanDir(g) == IF plan[g] = SHORT_GRID THEN -1 ELSE 1

\* BUY is 1, SELL is -1.
Side(c) == IF plan[c[1]] # NEUTRAL_GRID THEN PlanDir(c[1])
           ELSE IF c[2] \in SellLimits THEN -1 ELSE 1

Sign(n)        == IF n > 0 THEN 1 ELSE IF n < 0 THEN -1 ELSE 0
Abs(n)         == IF n < 0 THEN -n ELSE n
Towards(n, d)  == IF d = 1 THEN n ELSE -n

PosEvent(n)     == [kind |-> "ACCOUNT_UPDATE", pos |-> n]
OrdEvent(c, s)  == [kind |-> "ORDER_TRADE_UPDATE", id |-> c, status |-> s]
AlgoEvent(a, s) == [kind |-> "ALGO_UPDATE", id |-> a, status |-> s]

Event == [kind : {"ACCOUNT_UPDATE"}, pos : Int]
           \cup [kind : {"ORDER_TRADE_UPDATE"}, id : Orders, status : OrderStatus]
           \cup [kind : {"ALGO_UPDATE"}, id : Algos, status : AlgoStatus]

\* Events reach only a stream that is attached; the others are gone.
Feed(evs) == events' = IF session = "down" THEN events ELSE events \o evs

-----------------------------------------------------------------------------
(* Effects of the REST calls. *)

MarketFill(n) ==
  /\ xpos' = xpos + n
  /\ Feed(<<PosEvent(xpos + n)>>)
  /\ UNCHANGED <<xord, xalgo, exitDir>>

AcceptLimit(c) ==
  /\ xord' = [xord EXCEPT ![c] = "NEW"]
  /\ Feed(<<OrdEvent(c, "NEW")>>)
  /\ UNCHANGED <<xpos, xalgo, exitDir>>

AcceptExit(a, d) ==
  /\ xalgo' = [xalgo EXCEPT ![a] = "NEW"]
  /\ exitDir' = [exitDir EXCEPT ![a[1]] = d]
  /\ Feed(<<AlgoEvent(a, "NEW")>>)
  /\ UNCHANGED <<xpos, xord>>

CancelLimit(c) ==
  /\ xord' = [xord EXCEPT ![c] = "CANCELED"]
  /\ Feed(<<OrdEvent(c, "CANCELED")>>)
  /\ UNCHANGED <<xpos, xalgo, exitDir>>

CancelExit(a) ==
  /\ xalgo' = [xalgo EXCEPT ![a] = "CANCELED"]
  /\ Feed(<<AlgoEvent(a, "CANCELED")>>)
  /\ UNCHANGED <<xpos, xord, exitDir>>

\* A reduce-only order in direction d closes at most the position it finds.
Reducible(d) == Sign(xpos) = d
ReduceOnly(d, qty) ==
  MarketFill(IF qty < Abs(xpos) THEN -Towards(qty, d) ELSE -xpos)

\* What a placement may answer; a client id is accepted once.  A cancel answers
\* -2011 when the order is no longer open.
Answers == {"ok"} \cup (Adversary \cap {"rejected", "lost"})
ExitAnswers(a) == IF xalgo[a] = "NONE" THEN Answers ELSE {"rejected"}
CancelAnswers(open) ==
  IF open THEN Answers ELSE {"notfound"} \cup (Adversary \cap {"rejected"})
ReduceAnswers(d) == IF Reducible(d) THEN Answers ELSE {"rejected"}

Applied(out)  == out \in {"ok", "lost"}

-----------------------------------------------------------------------------
(* What the exchange does on its own. *)

\* A resting LIMIT entry is touched.
Fill(c) ==
  /\ xord[c] = "NEW"
  /\ xord' = [xord EXCEPT ![c] = "FILLED"]
  /\ xpos' = xpos + Side(c)
  /\ Feed(<<PosEvent(xpos + Side(c)), OrdEvent(c, "FILLED")>>)
  /\ UNCHANGED <<xalgo, exitDir>>

\* A protective exit triggers: closePosition closes all of a position on its
\* side; without one the triggered order expires.
Fire(a) ==
  /\ xalgo[a] = "NEW"
  /\ IF Sign(xpos) = exitDir[a[1]]
       THEN /\ xpos' = 0
            /\ xalgo' = [xalgo EXCEPT ![a] = "FINISHED"]
            /\ Feed(<<AlgoEvent(a, "FINISHED"), PosEvent(0)>>)
       ELSE /\ xalgo' = [xalgo EXCEPT ![a] = "EXPIRED"]
            /\ Feed(<<AlgoEvent(a, "EXPIRED")>>)
            /\ UNCHANGED xpos
  /\ UNCHANGED <<xord, exitDir>>

\* The exchange, or the account's owner, ends a resting exit.
Expire(a) ==
  /\ "expire" \in Adversary
  /\ xalgo[a] = "NEW"
  /\ xalgo' = [xalgo EXCEPT ![a] = "EXPIRED"]
  /\ Feed(<<AlgoEvent(a, "EXPIRED")>>)
  /\ UNCHANGED <<xpos, xord, exitDir>>

ExchangeInit ==
  /\ plan \in [Gens -> PlanModes]
  /\ xpos = 0
  /\ xord = [c \in Orders |-> "NONE"]
  /\ xalgo = [a \in Algos |-> "NONE"]
  /\ exitDir = [g \in Gens |-> 0]
  /\ events = <<>>

AccountTypeOK ==
  /\ xpos \in Int
  /\ xord \in [Orders -> OrderStatus]
  /\ xalgo \in [Algos -> AlgoStatus]
  /\ exitDir \in [Gens -> {0, 1, -1}]
  /\ events \in Seq(Event)
=============================================================================
