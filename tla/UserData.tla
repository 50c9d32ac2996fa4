------------------------------- MODULE UserData -------------------------------
(***************************************************************************)
(* The user-data processor (state/user_data.py) and the rows it keeps in   *)
(* the store (state/store.py), for one LIMIT order with partial fills, one *)
(* conditional exit and the symbol's position.  The exchange stamps every  *)
(* event with a time that several events may share; the stream may be in   *)
(* order, lose events, or deliver them shuffled and more than once.        *)
(*                                                                         *)
(* An event's place in sent stands for its content: event keys, made of    *)
(* times, ids, status, fill and profit, differ between any two events.     *)
(* The fields that never change between the events of one order, and the   *)
(* halts when they do, are left out.                                       *)
(***************************************************************************)
EXTENDS Integers, Sequences, FiniteSets

CONSTANTS
  Quantity,   \* of the LIMIT order, filled one by one
  Channels,   \* how streams of this instance deliver, see Deliver
  MaxTime,    \* bound: event times are 1 .. MaxTime
  MaxEvents,  \* bound: events the exchange sends
  MaxShuffled \* bound: the same for a shuffled stream

ASSUME UserDataAssumption ==
  /\ Quantity \in Nat \ {0}
  /\ Channels \subseteq {"ordered", "lossy", "shuffled"}
  /\ MaxTime \in Nat \ {0}
  /\ MaxEvents \in Nat /\ MaxShuffled \in Nat

VARIABLES
  order,      \* the exchange: status and filled quantity of the order
  algo,       \* the exchange: status of the conditional exit
  position,   \* the exchange: net position
  time,       \* the exchange's clock
  sent,       \* every event sent so far
  channel,    \* how this stream delivers
  delivered,  \* indices of events the processor has been given
  lost,       \* indices of events it will never be given
  orow,       \* the store's row of the order
  arow,       \* the store's row of the exit
  prow,       \* the store's row of the position
  processed,  \* processed_events
  halted      \* the persisted halt flag

exchangeVars == <<order, algo, position, time, sent>>
storeVars    == <<orow, arow, prow, processed, halted>>
streamVars   == <<delivered, lost>>
vars == <<exchangeVars, channel, streamVars, storeVars>>

TERMINAL_ORDER_STATUSES == {"FILLED", "CANCELED"}
FINAL_ALGO_STATUSES     == {"FINISHED", "CANCELED"}
ActiveOrder == {"NEW", "PARTIALLY_FILLED"}

Kinds    == {"order", "algo", "account", "alarm"}
Statuses == ActiveOrder \cup TERMINAL_ORDER_STATUSES \cup FINAL_ALGO_STATUSES
              \cup {"NONE", "TRIGGERED"}
Events   == [kind : Kinds, status : Statuses, qty : Nat, time : Nat]
NoRow    == [status |-> "NONE", qty |-> 0, time |-> 0]

-----------------------------------------------------------------------------
(* The exchange. *)

OrderEvent(o)   == [kind |-> "order", status |-> o.status, qty |-> o.filled]
AlgoEvent(s)    == [kind |-> "algo", status |-> s, qty |-> 0]
AccountEvent(p) == [kind |-> "account", status |-> "NONE", qty |-> p]
Alarm           == [kind |-> "alarm", status |-> "NONE", qty |-> 0]

\* Events es leave at once, all with the same stamp.
Emit(es) ==
  /\ Len(sent) + Len(es) <= (IF channel = "shuffled" THEN MaxShuffled ELSE MaxEvents)
  /\ time' \in {time, time + 1}
  /\ time' \in 1 .. MaxTime
  /\ sent' = sent \o [i \in DOMAIN es |->
                        [kind |-> es[i].kind, status |-> es[i].status,
                         qty |-> es[i].qty, time |-> time']]

PlaceOrder ==
  /\ order.status = "NONE"
  /\ order' = [status |-> "NEW", filled |-> 0]
  /\ Emit(<<OrderEvent(order')>>)
  /\ UNCHANGED <<algo, position>>

FillOrder ==
  /\ order.status \in ActiveOrder
  /\ order' = [status |-> IF order.filled + 1 = Quantity THEN "FILLED"
                                                         ELSE "PARTIALLY_FILLED",
               filled |-> order.filled + 1]
  /\ position' = position + 1
  /\ Emit(<<AccountEvent(position'), OrderEvent(order')>>)
  /\ UNCHANGED algo

CancelOrder ==
  /\ order.status \in ActiveOrder
  /\ order' = [order EXCEPT !.status = "CANCELED"]
  /\ Emit(<<OrderEvent(order')>>)
  /\ UNCHANGED <<algo, position>>

PlaceAlgo ==
  /\ algo = "NONE"
  /\ algo' = "NEW"
  /\ Emit(<<AlgoEvent(algo')>>)
  /\ UNCHANGED <<order, position>>

TriggerAlgo ==
  /\ algo = "NEW" /\ position > 0
  /\ algo' = "TRIGGERED"
  /\ Emit(<<AlgoEvent(algo')>>)
  /\ UNCHANGED <<order, position>>

FinishAlgo ==
  /\ algo = "TRIGGERED"
  /\ algo' = "FINISHED"
  /\ position' = 0
  /\ Emit(<<AccountEvent(0), AlgoEvent(algo')>>)
  /\ UNCHANGED order

CancelAlgo ==
  /\ algo = "NEW"
  /\ algo' = "CANCELED"
  /\ Emit(<<AlgoEvent(algo')>>)
  /\ UNCHANGED <<order, position>>

\* A margin call, a foreign order, hedge mode: what only a halt answers.
RaiseAlarm ==
  /\ \A i \in DOMAIN sent : sent[i].kind # "alarm"
  /\ Emit(<<Alarm>>)
  /\ UNCHANGED <<order, algo, position>>

Exchange ==
  /\ PlaceOrder \/ FillOrder \/ CancelOrder \/ PlaceAlgo \/ TriggerAlgo
       \/ FinishAlgo \/ CancelAlgo \/ RaiseAlarm
  /\ UNCHANGED <<channel, streamVars, storeVars>>

-----------------------------------------------------------------------------
(* The processor. *)

Row(e)    == [status |-> e.status, qty |-> e.qty, time |-> e.time]
Known(r)  == r.status # "NONE"

\* mark_event_once, then the row.
Write(i, row) ==
  IF i \in processed THEN UNCHANGED <<row, processed>>
  ELSE row' = Row(sent[i]) /\ processed' = processed \cup {i}

Halt(row) == halted' = TRUE /\ UNCHANGED <<row, processed>>

MutStale(e, row) == e.time <= row.time
Stale(e, row) == e.time < row.time

\* A fill that shrinks, or a status after the last one, at a time that is not
\* older than the row's.
MutOrderConflict(e) ==
  orow.status \in TERMINAL_ORDER_STATUSES /\ e.status # orow.status
OrderConflict(e) ==
  \/ e.qty < orow.qty
  \/ orow.status \in TERMINAL_ORDER_STATUSES /\ e.status # orow.status

OrderUpdate(i) ==
  LET e == sent[i] IN
  /\ e.kind = "order"
  /\ UNCHANGED <<arow, prow>>
  /\ CASE Known(orow) /\ Stale(e, orow) -> UNCHANGED <<orow, processed, halted>>
       [] Known(orow) /\ ~Stale(e, orow) /\ OrderConflict(e) -> Halt(orow)
       [] OTHER -> Write(i, orow) /\ UNCHANGED halted

\* TRIGGERED may only become FINISHED; what is final stays.
MutAlgoConflict(e) ==
  arow.status \in FINAL_ALGO_STATUSES \cup {"TRIGGERED"} /\ e.status # arow.status
AlgoConflict(e) ==
  \/ arow.status \in FINAL_ALGO_STATUSES /\ e.status # arow.status
  \/ arow.status = "TRIGGERED" /\ e.status \notin {"TRIGGERED", "FINISHED"}

AlgoUpdate(i) ==
  LET e == sent[i] IN
  /\ e.kind = "algo"
  /\ UNCHANGED <<orow, prow>>
  /\ CASE Known(arow) /\ Stale(e, arow) -> UNCHANGED <<arow, processed, halted>>
       [] Known(arow) /\ ~Stale(e, arow) /\ AlgoConflict(e) -> Halt(arow)
       [] OTHER -> Write(i, arow) /\ UNCHANGED halted

\* A flat position's row is deleted, and its time with it.
PositionRow(e) ==
  CASE prow.qty # 0 /\ Stale(e, prow) -> prow
    [] e.qty = 0 -> NoRow
    [] OTHER -> Row(e)

AccountUpdate(i) ==
  LET e == sent[i] IN
  /\ e.kind = "account"
  /\ UNCHANGED <<orow, arow, halted>>
  /\ IF i \in processed THEN UNCHANGED <<prow, processed>>
     ELSE prow' = PositionRow(e) /\ processed' = processed \cup {i}

AlarmUpdate(i) ==
  /\ sent[i].kind = "alarm"
  /\ halted' = TRUE
  /\ UNCHANGED <<orow, arow, prow, processed>>

\* on_message.
Receive(i) == OrderUpdate(i) \/ AlgoUpdate(i) \/ AccountUpdate(i) \/ AlarmUpdate(i)

Pending == DOMAIN sent \ (delivered \cup lost)

\* One event after the other.
DeliverOrdered ==
  /\ channel \in {"ordered", "lossy"}
  /\ \E i \in Pending :
       /\ \A j \in Pending : i <= j
       /\ Receive(i)
       /\ delivered' = delivered \cup {i}
  /\ UNCHANGED lost

\* Any event, also one delivered before.
DeliverShuffled ==
  /\ channel = "shuffled"
  /\ \E i \in DOMAIN sent : Receive(i) /\ delivered' = delivered \cup {i}
  /\ UNCHANGED lost

\* Events of a session that has ended are gone, and so is the effect of one
\* that a crash interrupts before its row is written.
Lose ==
  /\ channel = "lossy"
  /\ \E i \in Pending : lost' = lost \cup {i}
  /\ UNCHANGED <<delivered, storeVars>>

Stream ==
  /\ DeliverOrdered \/ DeliverShuffled \/ Lose
  /\ UNCHANGED <<channel, exchangeVars>>

Init ==
  /\ order = [status |-> "NONE", filled |-> 0]
  /\ algo = "NONE"
  /\ position = 0
  /\ time = 0
  /\ sent = <<>>
  /\ channel \in Channels
  /\ delivered = {}
  /\ lost = {}
  /\ orow = NoRow
  /\ arow = NoRow
  /\ prow = NoRow
  /\ processed = {}
  /\ halted = FALSE

Next == Exchange \/ Stream

Spec == Init /\ [][Next]_vars
-----------------------------------------------------------------------------
(* Properties. *)

Rows == [status : Statuses, qty : Nat, time : Nat]

\* Every variable has its type, and a flat position has no row.
UserDataTypeOK ==
  /\ order \in [status : Statuses, filled : 0 .. Quantity]
  /\ algo \in Statuses
  /\ position \in Nat
  /\ time \in 0 .. MaxTime
  /\ sent \in Seq(Events)
  /\ channel \in Channels
  /\ delivered \subseteq DOMAIN sent /\ lost \subseteq DOMAIN sent
  /\ orow \in Rows /\ arow \in Rows /\ prow \in Rows
  /\ prow.qty = 0 => prow = NoRow
  /\ processed \subseteq delivered
  /\ halted \in BOOLEAN

Got(kind) == {i \in delivered : sent[i].kind = kind}

\* The row says what the newest of the events in S says, a flat position having
\* no row.
SaysNewest(row, S) ==
  IF S = {} THEN row = NoRow
  ELSE \E i \in S :
         /\ \A j \in S : j <= i
         /\ row = IF sent[i].kind = "account" /\ sent[i].qty = 0 THEN NoRow
                                                              ELSE Row(sent[i])

\* In whatever order, and however often, events come, and although several may
\* share a time: unless the store has been halted, the rows of the order and of
\* the exit say what the exchange said last of all that was delivered.
RowsNewest ==
  ~halted => SaysNewest(orow, Got("order")) /\ SaysNewest(arow, Got("algo"))

\* The same of the position while the stream is in order, be it with gaps and
\* several updates in one millisecond.  A halt does not stop it.
PositionNewest == channel # "shuffled" => SaysNewest(prow, Got("account"))

\* The processor halts only on an alarm, or where a shuffled stream has given
\* it two events of one kind with the same time.
NoFalseHalt ==
  halted =>
    \/ Got("alarm") # {}
    \/ /\ channel = "shuffled"
       /\ \E i, j \in delivered :
            i # j /\ sent[i].kind = sent[j].kind /\ sent[i].time = sent[j].time
=============================================================================
