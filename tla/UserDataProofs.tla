----------------------------- MODULE UserDataProofs -----------------------------
(***************************************************************************)
(* Theorems about the user-data processor, for any quantity, clock, number *)
(* of events and kind of stream.                                           *)
(***************************************************************************)
EXTENDS UserData, TLAPS

Contents == [kind : Kinds, status : Statuses, qty : Nat]

\* Stamps never go back.
Times ==
  \A i \in DOMAIN sent :
    /\ sent[i].time <= time
    /\ \A j \in DOMAIN sent : i < j => sent[i].time <= sent[j].time

\* f may follow e in the life of the order, and of the exit.
OrderAfter(e, f) ==
  /\ e.status \in ActiveOrder
  /\ e.qty <= f.qty
  /\ e.qty = f.qty => f.status = "CANCELED"
AlgoAfter(e, f) ==
  \/ e.status = "NEW" /\ f.status \in {"TRIGGERED", "FINISHED", "CANCELED"}
  \/ e.status = "TRIGGERED" /\ f.status = "FINISHED"

\* e was sent on the way to where the order, and the exit, are now.
OrderPast(e) ==
  /\ e.status \in ActiveOrder \cup TERMINAL_ORDER_STATUSES
  /\ order.status # "NONE"
  /\ order.status \in ActiveOrder => e.status \in ActiveOrder /\ e.qty <= order.filled
AlgoPast(e) ==
  /\ e.status \in {"NEW", "TRIGGERED", "FINISHED", "CANCELED"}
  /\ algo # "NONE"
  /\ algo = "NEW" => e.status = "NEW"
  /\ algo = "TRIGGERED" => e.status \in {"NEW", "TRIGGERED"}

History ==
  /\ order.status \in ActiveOrder => order.filled < Quantity
  /\ \A i \in DOMAIN sent :
       /\ sent[i].kind = "order" => OrderPast(sent[i])
       /\ sent[i].kind = "algo" => AlgoPast(sent[i])
       /\ \A j \in DOMAIN sent :
            i < j /\ sent[i].kind = sent[j].kind =>
              /\ sent[i].kind = "order" => OrderAfter(sent[i], sent[j])
              /\ sent[i].kind = "algo" => AlgoAfter(sent[i], sent[j])

\* Without shuffling, what is pending was sent after what is delivered.
InOrder ==
  channel # "shuffled" => \A i \in delivered, j \in Pending : i < j

ExchangeInv == Times /\ History
Inv == UserDataTypeOK /\ ExchangeInv /\ InOrder /\ RowsNewest /\ PositionNewest /\ NoFalseHalt

-----------------------------------------------------------------------------
(* The exchange. *)

\* An emission appends: the old events stay, the new ones have the new time.
LEMMA EmitFacts ==
  ASSUME UserDataTypeOK, NEW es \in Seq(Contents), Emit(es)
  PROVE  /\ time' \in 0 .. MaxTime /\ time <= time'
         /\ sent' \in Seq(Events)
         /\ DOMAIN sent = 1 .. Len(sent) /\ Len(sent) \in Nat
         /\ DOMAIN sent' = 1 .. Len(sent) + Len(es)
         /\ \A i \in DOMAIN sent : i \in DOMAIN sent' /\ sent'[i] = sent[i]
         /\ \A i \in DOMAIN sent' \ DOMAIN sent :
              /\ i - Len(sent) \in 1 .. Len(es)
              /\ sent'[i] = [kind |-> es[i - Len(sent)].kind,
                             status |-> es[i - Len(sent)].status,
                             qty |-> es[i - Len(sent)].qty, time |-> time']
<1> DEFINE new == [i \in DOMAIN es |-> [kind |-> es[i].kind, status |-> es[i].status,
                                        qty |-> es[i].qty, time |-> time']]
<1>1. time \in Nat /\ time' \in 0 .. MaxTime /\ time <= time' /\ time' \in Nat
  BY UserDataAssumption DEF UserDataTypeOK, Emit
<1>2. sent \in Seq(Events) /\ sent' = sent \o new
  BY DEF UserDataTypeOK, Emit
<1>3. DOMAIN es = 1 .. Len(es) /\ Len(es) \in Nat
  OBVIOUS
<1>4. new \in Seq(Events)
  <2>1. ASSUME NEW i \in 1 .. Len(es) PROVE new[i] \in Events
    <3>1. es[i] \in Contents
      OBVIOUS
    <3>2. new[i] = [kind |-> es[i].kind, status |-> es[i].status, qty |-> es[i].qty,
                    time |-> time']
      BY <1>3
    <3>3. QED
      BY <1>1, <3>1, <3>2 DEF Contents, Events
  <2>2. new = [i \in 1 .. Len(es) |-> new[i]]
    BY <1>3
  <2>3. QED
    BY <1>3, <2>1, <2>2
<1>5. Len(new) = Len(es)
  BY <1>3
<1>6. \A i \in 1 .. Len(es) :
        new[i] = [kind |-> es[i].kind, status |-> es[i].status, qty |-> es[i].qty,
                  time |-> time']
  BY <1>3
<1> HIDE DEF new
<1>7. Len(sent) \in Nat /\ DOMAIN sent = 1 .. Len(sent)
  BY <1>2
<1>8. /\ sent' \in Seq(Events)
      /\ Len(sent') = Len(sent) + Len(es) /\ DOMAIN sent' = 1 .. Len(sent')
      /\ \A i \in 1 .. Len(sent') :
           sent'[i] = IF i <= Len(sent) THEN sent[i] ELSE new[i - Len(sent)]
  <2>1. ASSUME NEW s \in Seq(Events), NEW t \in Seq(Events)
        PROVE  /\ s \o t \in Seq(Events)
               /\ Len(s \o t) = Len(s) + Len(t) /\ DOMAIN (s \o t) = 1 .. Len(s \o t)
               /\ \A i \in 1 .. Len(s \o t) :
                    (s \o t)[i] = IF i <= Len(s) THEN s[i] ELSE t[i - Len(s)]
    OBVIOUS
  <2>2. QED
    BY <1>2, <1>4, <1>5, <2>1
<1>9. \A i \in DOMAIN sent : i \in DOMAIN sent' /\ sent'[i] = sent[i]
  BY <1>3, <1>7, <1>8
<1>10. ASSUME NEW i \in DOMAIN sent' \ DOMAIN sent
       PROVE  i - Len(sent) \in 1 .. Len(es) /\ sent'[i] = new[i - Len(sent)]
  BY <1>3, <1>7, <1>8
<1>11. QED
  BY <1>1, <1>6, <1>7, <1>8, <1>9, <1>10

\* One event.
LEMMA EmitOne ==
  ASSUME UserDataTypeOK, NEW a \in Contents, Emit(<<a>>)
  PROVE  \A i \in DOMAIN sent' \ DOMAIN sent :
           /\ i = Len(sent) + 1
           /\ sent'[i] = [kind |-> a.kind, status |-> a.status, qty |-> a.qty, time |-> time']
<1> SUFFICES ASSUME NEW i \in DOMAIN sent' \ DOMAIN sent
             PROVE  /\ i = Len(sent) + 1
                    /\ sent'[i] = [kind |-> a.kind, status |-> a.status, qty |-> a.qty,
                                   time |-> time']
  OBVIOUS
<1> DEFINE n == i - Len(sent)
           es == <<a>>
<1>1. es \in Seq(Contents) /\ Len(es) = 1 /\ es[1] = a
  OBVIOUS
<1> HIDE DEF es
<1>2. Emit(es)
  BY DEF es
<1>3. i \in Nat /\ Len(sent) \in Nat
  BY <1>1, <1>2, EmitFacts
<1>4. /\ n \in 1 .. 1
      /\ sent'[i] = [kind |-> es[n].kind, status |-> es[n].status, qty |-> es[n].qty,
                     time |-> time']
  BY <1>1, <1>2, EmitFacts
<1>5. n = 1
  BY <1>3, <1>4
<1>6. QED
  BY <1>1, <1>3, <1>4, <1>5

\* Two events, of which the second is the order's or the exit's.
LEMMA EmitTwo ==
  ASSUME UserDataTypeOK, NEW a \in Contents, NEW b \in Contents, Emit(<<a, b>>)
  PROVE  \A i \in DOMAIN sent' \ DOMAIN sent :
           \/ /\ i = Len(sent) + 1
              /\ sent'[i] = [kind |-> a.kind, status |-> a.status, qty |-> a.qty, time |-> time']
           \/ /\ i = Len(sent) + 2
              /\ sent'[i] = [kind |-> b.kind, status |-> b.status, qty |-> b.qty, time |-> time']
<1> SUFFICES ASSUME NEW i \in DOMAIN sent' \ DOMAIN sent
             PROVE  \/ /\ i = Len(sent) + 1
                       /\ sent'[i] = [kind |-> a.kind, status |-> a.status, qty |-> a.qty,
                                      time |-> time']
                    \/ /\ i = Len(sent) + 2
                       /\ sent'[i] = [kind |-> b.kind, status |-> b.status, qty |-> b.qty,
                                      time |-> time']
  OBVIOUS
<1> DEFINE n == i - Len(sent)
           es == <<a, b>>
<1>1. es \in Seq(Contents) /\ Len(es) = 2 /\ es[1] = a /\ es[2] = b
  OBVIOUS
<1> HIDE DEF es
<1>2. Emit(es)
  BY DEF es
<1>3. i \in Nat /\ Len(sent) \in Nat
  BY <1>1, <1>2, EmitFacts
<1>4. /\ n \in 1 .. 2
      /\ sent'[i] = [kind |-> es[n].kind, status |-> es[n].status, qty |-> es[n].qty,
                     time |-> time']
  BY <1>1, <1>2, EmitFacts
<1>5. CASE n = 1
  BY <1>1, <1>3, <1>4, <1>5
<1>6. CASE n = 2
  BY <1>1, <1>3, <1>4, <1>6
<1>7. QED
  BY <1>4, <1>5, <1>6

\* What an emission leaves true whatever it says.
LEMMA EmitKeeps ==
  ASSUME Inv, NEW es \in Seq(Contents), Emit(es), UNCHANGED <<channel, streamVars, storeVars>>
  PROVE  /\ Times' /\ InOrder' /\ RowsNewest' /\ PositionNewest' /\ NoFalseHalt'
         /\ time' \in 0 .. MaxTime /\ sent' \in Seq(Events)
         /\ delivered' \subseteq DOMAIN sent' /\ lost' \subseteq DOMAIN sent'
<1> USE DEF Inv, ExchangeInv, streamVars, storeVars
<1>1. delivered \subseteq DOMAIN sent /\ lost \subseteq DOMAIN sent /\ time \in Nat
      /\ sent \in Seq(Events)
  BY DEF UserDataTypeOK
<1>2. \A i \in DOMAIN sent : i \in DOMAIN sent' /\ sent'[i] = sent[i]
  BY EmitFacts
<1>3. \A i \in DOMAIN sent, j \in DOMAIN sent' \ DOMAIN sent : i \in Nat /\ j \in Nat /\ i < j
  BY EmitFacts
<1>4. Times'
  <2>1. time' \in Nat /\ time <= time'
    BY EmitFacts
  <2>2. \A i \in DOMAIN sent' \ DOMAIN sent : sent'[i].time = time'
    BY EmitFacts
  <2>3. \A i \in DOMAIN sent : sent[i].time \in Nat
    <3>1. \A i \in DOMAIN sent : sent[i] \in Events
      BY <1>1
    <3>2. QED
      BY <3>1 DEF Events
  <2>4. \A i, j \in DOMAIN sent' : i < j /\ j \in DOMAIN sent => i \in DOMAIN sent
    BY <1>3, EmitFacts
  <2>5. QED
    BY <1>1, <1>2, <2>1, <2>2, <2>3, <2>4 DEF Times
<1>5. InOrder'
  BY <1>1, <1>2, <1>3 DEF InOrder, Pending
<1>6. \A k \in Kinds : Got(k)' = Got(k)
  BY <1>1, <1>2 DEF Got
<1>7. \A k \in Kinds : \A r : SaysNewest(r, Got(k)) => SaysNewest(r, Got(k))'
  BY <1>1, <1>2, <1>6 DEF SaysNewest, Got, Row
<1>8. RowsNewest' /\ PositionNewest'
  <2>1. "order" \in Kinds /\ "algo" \in Kinds /\ "account" \in Kinds
    BY DEF Kinds
  <2>2. QED
    BY <1>7, <2>1 DEF RowsNewest, PositionNewest
<1>9. NoFalseHalt'
  BY <1>1, <1>2, <1>6 DEF NoFalseHalt, Kinds
<1>10. QED
  BY <1>1, <1>2, <1>4, <1>5, <1>8, <1>9, EmitFacts

\* The past stays past, and what is new follows all of it.
LEMMA HistoryStep ==
  ASSUME Inv, NEW es \in Seq(Contents), Emit(es),
         order'.status \in ActiveOrder => order'.filled < Quantity,
         \A e \in Events : OrderPast(e) => OrderPast(e)',
         \A e \in Events : AlgoPast(e) => AlgoPast(e)',
         \A i \in DOMAIN sent' \ DOMAIN sent : \A f \in Events : f = sent'[i] =>
           /\ f.kind = "order" => OrderPast(f)' /\ \A e \in Events : OrderPast(e) => OrderAfter(e, f)
           /\ f.kind = "algo" => AlgoPast(f)' /\ \A e \in Events : AlgoPast(e) => AlgoAfter(e, f),
         \A i, j \in DOMAIN sent' \ DOMAIN sent : i # j => sent'[i].kind # sent'[j].kind
  PROVE  History'
<1> USE DEF Inv, ExchangeInv
<1>1. sent \in Seq(Events) /\ sent' \in Seq(Events)
  BY EmitFacts DEF UserDataTypeOK
<1>2. /\ \A i \in DOMAIN sent : sent[i] \in Events
      /\ \A i \in DOMAIN sent' : sent'[i] \in Events
  BY <1>1
<1>3. \A i \in DOMAIN sent : i \in DOMAIN sent' /\ sent'[i] = sent[i]
  BY EmitFacts
<1>4. \A i, j \in DOMAIN sent' : i < j /\ j \in DOMAIN sent => i \in DOMAIN sent
  BY EmitFacts
<1>5. ASSUME NEW i \in DOMAIN sent'
      PROVE  /\ sent'[i].kind = "order" => OrderPast(sent[i])'
             /\ sent'[i].kind = "algo" => AlgoPast(sent[i])'
  <2>1. CASE i \in DOMAIN sent
    BY <1>2, <1>3, <2>1 DEF History, OrderPast, AlgoPast
  <2>2. CASE i \notin DOMAIN sent
    BY <1>2, <2>2 DEF OrderPast, AlgoPast
  <2>3. QED
    BY <2>1, <2>2
<1>6. ASSUME NEW i \in DOMAIN sent', NEW j \in DOMAIN sent', i < j, sent'[i].kind = sent'[j].kind
      PROVE  /\ sent'[i].kind = "order" => OrderAfter(sent'[i], sent'[j])
             /\ sent'[i].kind = "algo" => AlgoAfter(sent'[i], sent'[j])
  <2>1. CASE j \in DOMAIN sent
    BY <1>3, <1>4, <1>6, <2>1 DEF History
  <2>2. CASE i \in DOMAIN sent /\ j \notin DOMAIN sent
    <3>1. /\ sent[i].kind = "order" => OrderPast(sent[i])
          /\ sent[i].kind = "algo" => AlgoPast(sent[i])
      BY <2>2 DEF History
    <3>2. QED
      BY <1>2, <1>3, <1>6, <2>2, <3>1
  <2>3. CASE i \notin DOMAIN sent /\ j \notin DOMAIN sent
    <3>1. i # j
      BY <1>1, <1>6
    <3>2. QED
      BY <1>6, <2>3, <3>1
  <2>4. QED
    BY <2>1, <2>2, <2>3
<1>7. QED
  BY <1>5, <1>6 DEF History

\* f may be the next event of its kind.
LEMMA ExchangeOne ==
  ASSUME Inv, NEW a \in Contents, Emit(<<a>>),
         UNCHANGED <<channel, streamVars, storeVars>>,
         order' \in [status : Statuses, filled : 0 .. Quantity],
         algo' \in Statuses, position' \in Nat,
         order'.status \in ActiveOrder => order'.filled < Quantity,
         \A e \in Events : OrderPast(e) => OrderPast(e)',
         \A e \in Events : AlgoPast(e) => AlgoPast(e)',
         \A f \in Events : f.kind = a.kind /\ f.status = a.status /\ f.qty = a.qty =>
           /\ f.kind = "order" => OrderPast(f)' /\ \A e \in Events : OrderPast(e) => OrderAfter(e, f)
           /\ f.kind = "algo" => AlgoPast(f)' /\ \A e \in Events : AlgoPast(e) => AlgoAfter(e, f)
  PROVE  Inv'
<1> DEFINE es == <<a>>
<1>1. es \in Seq(Contents)
  OBVIOUS
<1>2. UserDataTypeOK
  BY DEF Inv
<1>3. /\ \A i \in DOMAIN sent' \ DOMAIN sent : \A f \in Events : f = sent'[i] =>
           f.kind = a.kind /\ f.status = a.status /\ f.qty = a.qty
      /\ \A i, j \in DOMAIN sent' \ DOMAIN sent : i = j
  BY <1>2, EmitOne
<1>4. Emit(es)
  OBVIOUS
<1> HIDE DEF es
<1>5. History'
  BY <1>1, <1>3, <1>4, HistoryStep
<1>6. /\ Times' /\ InOrder' /\ RowsNewest' /\ PositionNewest' /\ NoFalseHalt'
      /\ time' \in 0 .. MaxTime /\ sent' \in Seq(Events)
      /\ delivered' \subseteq DOMAIN sent' /\ lost' \subseteq DOMAIN sent'
  BY <1>1, <1>4, EmitKeeps
<1>7. QED
  BY <1>2, <1>5, <1>6 DEF Inv, ExchangeInv, UserDataTypeOK, streamVars, storeVars

\* The same with an account update before it.
LEMMA ExchangeTwo ==
  ASSUME Inv, NEW a \in Contents, NEW b \in Contents, Emit(<<a, b>>),
         a.kind = "account", b.kind # "account",
         UNCHANGED <<channel, streamVars, storeVars>>,
         order' \in [status : Statuses, filled : 0 .. Quantity],
         algo' \in Statuses, position' \in Nat,
         order'.status \in ActiveOrder => order'.filled < Quantity,
         \A e \in Events : OrderPast(e) => OrderPast(e)',
         \A e \in Events : AlgoPast(e) => AlgoPast(e)',
         \A f \in Events : f.kind = b.kind /\ f.status = b.status /\ f.qty = b.qty =>
           /\ f.kind = "order" => OrderPast(f)' /\ \A e \in Events : OrderPast(e) => OrderAfter(e, f)
           /\ f.kind = "algo" => AlgoPast(f)' /\ \A e \in Events : AlgoPast(e) => AlgoAfter(e, f)
  PROVE  Inv'
<1> DEFINE es == <<a, b>>
<1>1. es \in Seq(Contents)
  OBVIOUS
<1>2. UserDataTypeOK
  BY DEF Inv
<1>3. \A i \in DOMAIN sent' \ DOMAIN sent :
        \/ i = Len(sent) + 1 /\ sent'[i].kind = "account"
        \/ /\ i = Len(sent) + 2
           /\ sent'[i].kind = b.kind /\ sent'[i].status = b.status /\ sent'[i].qty = b.qty
  BY <1>2, EmitTwo
<1>4. Emit(es)
  OBVIOUS
<1> HIDE DEF es
<1>5. \A i, j \in DOMAIN sent' \ DOMAIN sent : i # j => sent'[i].kind # sent'[j].kind
  BY <1>3
<1>6. \A i \in DOMAIN sent' \ DOMAIN sent : \A f \in Events : f = sent'[i] =>
        /\ f.kind = "order" => OrderPast(f)' /\ \A e \in Events : OrderPast(e) => OrderAfter(e, f)
        /\ f.kind = "algo" => AlgoPast(f)' /\ \A e \in Events : AlgoPast(e) => AlgoAfter(e, f)
  BY <1>3
<1>7. History'
  BY <1>1, <1>4, <1>5, <1>6, HistoryStep
<1>8. /\ Times' /\ InOrder' /\ RowsNewest' /\ PositionNewest' /\ NoFalseHalt'
      /\ time' \in 0 .. MaxTime /\ sent' \in Seq(Events)
      /\ delivered' \subseteq DOMAIN sent' /\ lost' \subseteq DOMAIN sent'
  BY <1>1, <1>4, EmitKeeps
<1>9. QED
  BY <1>2, <1>7, <1>8 DEF Inv, ExchangeInv, UserDataTypeOK, streamVars, storeVars

\* Every step of the exchange keeps the invariant.
LEMMA ExchangeStep == ASSUME Inv, Exchange PROVE Inv'
<1>1. /\ order \in [status : Statuses, filled : 0 .. Quantity] /\ algo \in Statuses
      /\ position \in Nat
      /\ order.status \in ActiveOrder => order.filled < Quantity
  BY DEF Inv, ExchangeInv, History, UserDataTypeOK
<1>2. UNCHANGED <<channel, streamVars, storeVars>>
  BY DEF Exchange
<1>3. CASE PlaceOrder
  <2>1. OrderEvent(order') \in Contents
    BY <1>3, <1>1 DEF PlaceOrder, Contents, Kinds, Statuses, ActiveOrder, TERMINAL_ORDER_STATUSES,
       FINAL_ALGO_STATUSES, OrderEvent
  <2>2. /\ order' \in [status : Statuses, filled : 0 .. Quantity]
        /\ algo' \in Statuses /\ position' \in Nat
        /\ order'.status \in ActiveOrder => order'.filled < Quantity
        /\ \A e \in Events : OrderPast(e) => OrderPast(e)'
        /\ \A e \in Events : AlgoPast(e) => AlgoPast(e)'
    BY <1>3, <1>1, UserDataAssumption
       DEF PlaceOrder, Statuses, ActiveOrder, TERMINAL_ORDER_STATUSES, FINAL_ALGO_STATUSES,
           Events, OrderPast, AlgoPast
  <2>3. \A f \in Events :
          f.kind = OrderEvent(order').kind /\ f.status = OrderEvent(order').status /\ f.qty = OrderEvent(order').qty =>
          /\ f.kind = "order" => OrderPast(f)' /\ \A e \in Events : OrderPast(e) => OrderAfter(e, f)
          /\ f.kind = "algo" => AlgoPast(f)' /\ \A e \in Events : AlgoPast(e) => AlgoAfter(e, f)
    BY <1>3, <1>1, UserDataAssumption
       DEF PlaceOrder, Statuses, ActiveOrder, TERMINAL_ORDER_STATUSES, FINAL_ALGO_STATUSES,
           Events, OrderPast, AlgoPast, OrderAfter, AlgoAfter, OrderEvent
  <2>4. Emit(<<OrderEvent(order')>>)
    BY <1>3 DEF PlaceOrder
  <2>5. QED
    BY <1>2, <2>1, <2>2, <2>3, <2>4, ExchangeOne
<1>4. CASE FillOrder
  <2>1. OrderEvent(order') \in Contents
    BY <1>4, <1>1 DEF FillOrder, Contents, Kinds, Statuses, ActiveOrder, TERMINAL_ORDER_STATUSES,
       FINAL_ALGO_STATUSES, OrderEvent
  <2>2. /\ order' \in [status : Statuses, filled : 0 .. Quantity]
        /\ algo' \in Statuses /\ position' \in Nat
        /\ order'.status \in ActiveOrder => order'.filled < Quantity
        /\ \A e \in Events : OrderPast(e) => OrderPast(e)'
        /\ \A e \in Events : AlgoPast(e) => AlgoPast(e)'
    BY <1>4, <1>1, UserDataAssumption
       DEF FillOrder, Statuses, ActiveOrder, TERMINAL_ORDER_STATUSES, FINAL_ALGO_STATUSES,
           Events, OrderPast, AlgoPast
  <2>3. \A f \in Events :
          f.kind = OrderEvent(order').kind /\ f.status = OrderEvent(order').status /\ f.qty = OrderEvent(order').qty =>
          /\ f.kind = "order" => OrderPast(f)' /\ \A e \in Events : OrderPast(e) => OrderAfter(e, f)
          /\ f.kind = "algo" => AlgoPast(f)' /\ \A e \in Events : AlgoPast(e) => AlgoAfter(e, f)
    BY <1>4, <1>1, UserDataAssumption
       DEF FillOrder, Statuses, ActiveOrder, TERMINAL_ORDER_STATUSES, FINAL_ALGO_STATUSES,
           Events, OrderPast, AlgoPast, OrderAfter, AlgoAfter, OrderEvent
  <2>4. Emit(<<AccountEvent(position'), OrderEvent(order')>>)
    BY <1>4 DEF FillOrder
  <2>5. AccountEvent(position') \in Contents /\ AccountEvent(position').kind = "account"
    BY <1>4, <1>1 DEF FillOrder, AccountEvent, Contents, Kinds, Statuses
  <2>6. OrderEvent(order').kind # "account"
    BY DEF OrderEvent
  <2>7. QED
    BY <1>2, <2>1, <2>2, <2>3, <2>4, <2>5, <2>6, ExchangeTwo
<1>5. CASE CancelOrder
  <2>1. OrderEvent(order') \in Contents
    BY <1>5, <1>1 DEF CancelOrder, Contents, Kinds, Statuses, ActiveOrder, TERMINAL_ORDER_STATUSES,
       FINAL_ALGO_STATUSES, OrderEvent
  <2>2. /\ order' \in [status : Statuses, filled : 0 .. Quantity]
        /\ algo' \in Statuses /\ position' \in Nat
        /\ order'.status \in ActiveOrder => order'.filled < Quantity
        /\ \A e \in Events : OrderPast(e) => OrderPast(e)'
        /\ \A e \in Events : AlgoPast(e) => AlgoPast(e)'
    BY <1>5, <1>1, UserDataAssumption
       DEF CancelOrder, Statuses, ActiveOrder, TERMINAL_ORDER_STATUSES, FINAL_ALGO_STATUSES,
           Events, OrderPast, AlgoPast
  <2>3. \A f \in Events :
          f.kind = OrderEvent(order').kind /\ f.status = OrderEvent(order').status /\ f.qty = OrderEvent(order').qty =>
          /\ f.kind = "order" => OrderPast(f)' /\ \A e \in Events : OrderPast(e) => OrderAfter(e, f)
          /\ f.kind = "algo" => AlgoPast(f)' /\ \A e \in Events : AlgoPast(e) => AlgoAfter(e, f)
    BY <1>5, <1>1, UserDataAssumption
       DEF CancelOrder, Statuses, ActiveOrder, TERMINAL_ORDER_STATUSES, FINAL_ALGO_STATUSES,
           Events, OrderPast, AlgoPast, OrderAfter, AlgoAfter, OrderEvent
  <2>4. Emit(<<OrderEvent(order')>>)
    BY <1>5 DEF CancelOrder
  <2>5. QED
    BY <1>2, <2>1, <2>2, <2>3, <2>4, ExchangeOne
<1>6. CASE PlaceAlgo
  <2>1. AlgoEvent(algo') \in Contents
    BY <1>6, <1>1 DEF PlaceAlgo, Contents, Kinds, Statuses, ActiveOrder, TERMINAL_ORDER_STATUSES,
       FINAL_ALGO_STATUSES, AlgoEvent
  <2>2. /\ order' \in [status : Statuses, filled : 0 .. Quantity]
        /\ algo' \in Statuses /\ position' \in Nat
        /\ order'.status \in ActiveOrder => order'.filled < Quantity
        /\ \A e \in Events : OrderPast(e) => OrderPast(e)'
        /\ \A e \in Events : AlgoPast(e) => AlgoPast(e)'
    BY <1>6, <1>1, UserDataAssumption
       DEF PlaceAlgo, Statuses, ActiveOrder, TERMINAL_ORDER_STATUSES, FINAL_ALGO_STATUSES,
           Events, OrderPast, AlgoPast
  <2>3. \A f \in Events :
          f.kind = AlgoEvent(algo').kind /\ f.status = AlgoEvent(algo').status /\ f.qty = AlgoEvent(algo').qty =>
          /\ f.kind = "order" => OrderPast(f)' /\ \A e \in Events : OrderPast(e) => OrderAfter(e, f)
          /\ f.kind = "algo" => AlgoPast(f)' /\ \A e \in Events : AlgoPast(e) => AlgoAfter(e, f)
    BY <1>6, <1>1, UserDataAssumption
       DEF PlaceAlgo, Statuses, ActiveOrder, TERMINAL_ORDER_STATUSES, FINAL_ALGO_STATUSES,
           Events, OrderPast, AlgoPast, OrderAfter, AlgoAfter, AlgoEvent
  <2>4. Emit(<<AlgoEvent(algo')>>)
    BY <1>6 DEF PlaceAlgo
  <2>5. QED
    BY <1>2, <2>1, <2>2, <2>3, <2>4, ExchangeOne
<1>7. CASE TriggerAlgo
  <2>1. AlgoEvent(algo') \in Contents
    BY <1>7, <1>1 DEF TriggerAlgo, Contents, Kinds, Statuses, ActiveOrder, TERMINAL_ORDER_STATUSES,
       FINAL_ALGO_STATUSES, AlgoEvent
  <2>2. /\ order' \in [status : Statuses, filled : 0 .. Quantity]
        /\ algo' \in Statuses /\ position' \in Nat
        /\ order'.status \in ActiveOrder => order'.filled < Quantity
        /\ \A e \in Events : OrderPast(e) => OrderPast(e)'
        /\ \A e \in Events : AlgoPast(e) => AlgoPast(e)'
    BY <1>7, <1>1, UserDataAssumption
       DEF TriggerAlgo, Statuses, ActiveOrder, TERMINAL_ORDER_STATUSES, FINAL_ALGO_STATUSES,
           Events, OrderPast, AlgoPast
  <2>3. \A f \in Events :
          f.kind = AlgoEvent(algo').kind /\ f.status = AlgoEvent(algo').status /\ f.qty = AlgoEvent(algo').qty =>
          /\ f.kind = "order" => OrderPast(f)' /\ \A e \in Events : OrderPast(e) => OrderAfter(e, f)
          /\ f.kind = "algo" => AlgoPast(f)' /\ \A e \in Events : AlgoPast(e) => AlgoAfter(e, f)
    BY <1>7, <1>1, UserDataAssumption
       DEF TriggerAlgo, Statuses, ActiveOrder, TERMINAL_ORDER_STATUSES, FINAL_ALGO_STATUSES,
           Events, OrderPast, AlgoPast, OrderAfter, AlgoAfter, AlgoEvent
  <2>4. Emit(<<AlgoEvent(algo')>>)
    BY <1>7 DEF TriggerAlgo
  <2>5. QED
    BY <1>2, <2>1, <2>2, <2>3, <2>4, ExchangeOne
<1>8. CASE FinishAlgo
  <2>1. AlgoEvent(algo') \in Contents
    BY <1>8, <1>1 DEF FinishAlgo, Contents, Kinds, Statuses, ActiveOrder, TERMINAL_ORDER_STATUSES,
       FINAL_ALGO_STATUSES, AlgoEvent
  <2>2. /\ order' \in [status : Statuses, filled : 0 .. Quantity]
        /\ algo' \in Statuses /\ position' \in Nat
        /\ order'.status \in ActiveOrder => order'.filled < Quantity
        /\ \A e \in Events : OrderPast(e) => OrderPast(e)'
        /\ \A e \in Events : AlgoPast(e) => AlgoPast(e)'
    BY <1>8, <1>1, UserDataAssumption
       DEF FinishAlgo, Statuses, ActiveOrder, TERMINAL_ORDER_STATUSES, FINAL_ALGO_STATUSES,
           Events, OrderPast, AlgoPast
  <2>3. \A f \in Events :
          f.kind = AlgoEvent(algo').kind /\ f.status = AlgoEvent(algo').status /\ f.qty = AlgoEvent(algo').qty =>
          /\ f.kind = "order" => OrderPast(f)' /\ \A e \in Events : OrderPast(e) => OrderAfter(e, f)
          /\ f.kind = "algo" => AlgoPast(f)' /\ \A e \in Events : AlgoPast(e) => AlgoAfter(e, f)
    BY <1>8, <1>1, UserDataAssumption
       DEF FinishAlgo, Statuses, ActiveOrder, TERMINAL_ORDER_STATUSES, FINAL_ALGO_STATUSES,
           Events, OrderPast, AlgoPast, OrderAfter, AlgoAfter, AlgoEvent
  <2>4. Emit(<<AccountEvent(0), AlgoEvent(algo')>>)
    BY <1>8 DEF FinishAlgo
  <2>5. AccountEvent(0) \in Contents /\ AccountEvent(0).kind = "account"
    BY <1>8, <1>1 DEF FinishAlgo, AccountEvent, Contents, Kinds, Statuses
  <2>6. AlgoEvent(algo').kind # "account"
    BY DEF AlgoEvent
  <2>7. QED
    BY <1>2, <2>1, <2>2, <2>3, <2>4, <2>5, <2>6, ExchangeTwo
<1>9. CASE CancelAlgo
  <2>1. AlgoEvent(algo') \in Contents
    BY <1>9, <1>1 DEF CancelAlgo, Contents, Kinds, Statuses, ActiveOrder, TERMINAL_ORDER_STATUSES,
       FINAL_ALGO_STATUSES, AlgoEvent
  <2>2. /\ order' \in [status : Statuses, filled : 0 .. Quantity]
        /\ algo' \in Statuses /\ position' \in Nat
        /\ order'.status \in ActiveOrder => order'.filled < Quantity
        /\ \A e \in Events : OrderPast(e) => OrderPast(e)'
        /\ \A e \in Events : AlgoPast(e) => AlgoPast(e)'
    BY <1>9, <1>1, UserDataAssumption
       DEF CancelAlgo, Statuses, ActiveOrder, TERMINAL_ORDER_STATUSES, FINAL_ALGO_STATUSES,
           Events, OrderPast, AlgoPast
  <2>3. \A f \in Events :
          f.kind = AlgoEvent(algo').kind /\ f.status = AlgoEvent(algo').status /\ f.qty = AlgoEvent(algo').qty =>
          /\ f.kind = "order" => OrderPast(f)' /\ \A e \in Events : OrderPast(e) => OrderAfter(e, f)
          /\ f.kind = "algo" => AlgoPast(f)' /\ \A e \in Events : AlgoPast(e) => AlgoAfter(e, f)
    BY <1>9, <1>1, UserDataAssumption
       DEF CancelAlgo, Statuses, ActiveOrder, TERMINAL_ORDER_STATUSES, FINAL_ALGO_STATUSES,
           Events, OrderPast, AlgoPast, OrderAfter, AlgoAfter, AlgoEvent
  <2>4. Emit(<<AlgoEvent(algo')>>)
    BY <1>9 DEF CancelAlgo
  <2>5. QED
    BY <1>2, <2>1, <2>2, <2>3, <2>4, ExchangeOne
<1>10. CASE RaiseAlarm
  <2>1. Alarm \in Contents
    BY <1>10, <1>1 DEF RaiseAlarm, Contents, Kinds, Statuses, ActiveOrder, TERMINAL_ORDER_STATUSES,
       FINAL_ALGO_STATUSES, Alarm
  <2>2. /\ order' \in [status : Statuses, filled : 0 .. Quantity]
        /\ algo' \in Statuses /\ position' \in Nat
        /\ order'.status \in ActiveOrder => order'.filled < Quantity
        /\ \A e \in Events : OrderPast(e) => OrderPast(e)'
        /\ \A e \in Events : AlgoPast(e) => AlgoPast(e)'
    BY <1>10, <1>1, UserDataAssumption
       DEF RaiseAlarm, Statuses, ActiveOrder, TERMINAL_ORDER_STATUSES, FINAL_ALGO_STATUSES,
           Events, OrderPast, AlgoPast
  <2>3. \A f \in Events :
          f.kind = Alarm.kind /\ f.status = Alarm.status /\ f.qty = Alarm.qty =>
          /\ f.kind = "order" => OrderPast(f)' /\ \A e \in Events : OrderPast(e) => OrderAfter(e, f)
          /\ f.kind = "algo" => AlgoPast(f)' /\ \A e \in Events : AlgoPast(e) => AlgoAfter(e, f)
    BY <1>10, <1>1, UserDataAssumption
       DEF RaiseAlarm, Statuses, ActiveOrder, TERMINAL_ORDER_STATUSES, FINAL_ALGO_STATUSES,
           Events, OrderPast, AlgoPast, OrderAfter, AlgoAfter, Alarm
  <2>4. Emit(<<Alarm>>)
    BY <1>10 DEF RaiseAlarm
  <2>5. QED
    BY <1>2, <2>1, <2>2, <2>3, <2>4, ExchangeOne
<1>11. QED
  BY <1>3, <1>4, <1>5, <1>6, <1>7, <1>8, <1>9, <1>10 DEF Exchange

-----------------------------------------------------------------------------
(* The processor. *)

\* Event i is given to the processor: without shuffling, after all before it.
Delivers(i) ==
  /\ i \in DOMAIN sent
  /\ channel # "shuffled" => \A j \in delivered : j < i
  /\ delivered' = delivered \cup {i}
  /\ UNCHANGED <<channel, exchangeVars, lost>>

LEMMA DeliverFacts ==
  ASSUME Inv, NEW i, Delivers(i)
  PROVE  /\ sent' = sent /\ time' = time /\ sent[i] \in Events /\ DOMAIN sent = 1 .. Len(sent)
         /\ Len(sent) \in Nat /\ delivered \subseteq DOMAIN sent
         /\ \A j \in DOMAIN sent : j \in Nat /\ sent[j] \in Events
         /\ \A k : Got(k)' = IF sent[i].kind = k THEN Got(k) \cup {i} ELSE Got(k)
         /\ \A r, S : SaysNewest(r, S)' <=> SaysNewest(r, S)
         /\ \A r, S : (\A j \in S : j <= i) /\ i \in Nat
                  /\ r = (IF sent[i].kind = "account" /\ sent[i].qty = 0 THEN NoRow ELSE Row(sent[i]))
                  => SaysNewest(r, S \cup {i})
<1>1. /\ sent' = sent /\ time' = time /\ sent \in Seq(Events) /\ delivered \subseteq DOMAIN sent
      /\ i \in DOMAIN sent /\ delivered' = delivered \cup {i}
  BY DEF Delivers, exchangeVars, Inv, UserDataTypeOK
<1>2. DOMAIN sent = 1 .. Len(sent) /\ Len(sent) \in Nat
      /\ \A j \in DOMAIN sent : j \in Nat /\ sent[j] \in Events
  BY <1>1
<1>3. \A k : Got(k)' = IF sent[i].kind = k THEN Got(k) \cup {i} ELSE Got(k)
  BY <1>1 DEF Got
<1>4. \A r, S : SaysNewest(r, S)' <=> SaysNewest(r, S)
  BY <1>1 DEF SaysNewest, Row
<1>5. \A r, S : (\A j \in S : j <= i) /\ i \in Nat
                  /\ r = (IF sent[i].kind = "account" /\ sent[i].qty = 0 THEN NoRow ELSE Row(sent[i]))
                  => SaysNewest(r, S \cup {i})
  BY DEF SaysNewest
<1>6. QED
  BY <1>1, <1>2, <1>3, <1>4, <1>5

\* The order's row, and the halts it may cause.
LEMMA OrderRow ==
  ASSUME Inv, NEW i, Delivers(i), OrderUpdate(i)
  PROVE  /\ halted' /\ ~halted =>
              /\ channel = "shuffled"
              /\ \E m \in delivered :
                   m # i /\ sent[m].kind = "order" /\ sent[m].time = sent[i].time
         /\ ~halted' => ~halted /\ SaysNewest(orow', Got("order") \cup {i})
<1> DEFINE e == sent[i]
<1>1. /\ e \in Events /\ e.kind = "order" /\ i \in Nat /\ i \in DOMAIN sent
      /\ \A j \in DOMAIN sent : j \in Nat /\ sent[j] \in Events
      /\ delivered \subseteq DOMAIN sent
  BY DeliverFacts DEF OrderUpdate, Delivers
<1>2. /\ Known(orow) /\ Stale(e, orow) => UNCHANGED <<orow, processed, halted>>
      /\ Known(orow) /\ ~Stale(e, orow) /\ OrderConflict(e) => halted'
      /\ (Known(orow) => ~Stale(e, orow) /\ ~OrderConflict(e)) =>
           Write(i, orow) /\ halted' = halted
  BY DEF OrderUpdate, Halt
<1>3. halted => halted'
  BY <1>2 DEF OrderUpdate, Halt
<1>4. SUFFICES ASSUME ~halted
               PROVE  /\ halted' =>
                           /\ channel = "shuffled"
                           /\ \E m \in delivered :
                                m # i /\ sent[m].kind = "order" /\ sent[m].time = e.time
                      /\ ~halted' => SaysNewest(orow', Got("order") \cup {i})
  BY <1>3
<1>5. SaysNewest(orow, Got("order")) /\ processed \subseteq delivered
  BY <1>4 DEF Inv, RowsNewest, UserDataTypeOK
<1>6. CASE Got("order") = {}
  <2>1. orow = NoRow /\ ~Known(orow) /\ i \notin processed
    BY <1>1, <1>5, <1>6 DEF SaysNewest, NoRow, Known, Got
  <2>2. Write(i, orow) /\ halted' = halted
    BY <1>2, <2>1
  <2>3. orow' = Row(e)
    BY <2>1, <2>2 DEF Write
  <2>4. ~halted'
    BY <1>4, <2>2
  <2>5. QED
    BY <1>1, <1>6, <2>3, <2>4, DeliverFacts
<1>7. CASE Got("order") # {}
  <2>1. PICK m \in Got("order") : (\A j \in Got("order") : j <= m) /\ orow = Row(sent[m])
    BY <1>5, <1>7 DEF SaysNewest, Got
  <2>2. /\ m \in delivered /\ m \in DOMAIN sent /\ sent[m].kind = "order" /\ m \in Nat
        /\ sent[m] \in Events
    BY <1>1, <2>1 DEF Got
  <2>3. /\ orow.status = sent[m].status /\ orow.qty = sent[m].qty /\ orow.time = sent[m].time
        /\ e.qty \in Nat /\ e.time \in Nat /\ orow.qty \in Nat /\ orow.time \in Nat
    BY <1>1, <2>1, <2>2 DEF Row, Events
  <2>4. Known(orow)
    BY <2>2, <2>3 DEF Known, Inv, ExchangeInv, History, OrderPast, ActiveOrder, TERMINAL_ORDER_STATUSES
  <2>5. CASE i = m
    <3>1. ~Stale(e, orow) /\ ~OrderConflict(e)
      BY <2>3, <2>5 DEF Stale, OrderConflict
    <3>2. ~halted' /\ orow' = Row(e)
      BY <1>2, <1>4, <2>1, <2>5, <3>1 DEF Write
    <3>3. QED
      BY <1>1, <2>1, <2>5, <3>2, DeliverFacts
  <2>6. CASE m < i
    <3>1. ~Stale(e, orow)
      BY <1>1, <2>2, <2>3, <2>6 DEF Stale, Inv, ExchangeInv, Times
    <3>2. OrderAfter(sent[m], e)
      BY <1>1, <2>2, <2>6 DEF Inv, ExchangeInv, History
    <3>3. ~OrderConflict(e)
      BY <2>3, <3>2 DEF OrderConflict, OrderAfter, ActiveOrder, TERMINAL_ORDER_STATUSES
    <3>4. i \notin processed
      BY <1>1, <1>5, <2>1, <2>2, <2>6 DEF Got
    <3>5. ~halted' /\ orow' = Row(e)
      BY <1>2, <1>4, <3>1, <3>3, <3>4 DEF Write
    <3>6. \A j \in Got("order") : j <= i
      BY <1>1, <2>1, <2>2, <2>6 DEF Got
    <3>7. QED
      BY <1>1, <3>5, <3>6, DeliverFacts
  <2>7. CASE i < m
    <3>1. OrderAfter(e, sent[m])
      BY <1>1, <2>2, <2>7 DEF Inv, ExchangeInv, History
    <3>2. channel = "shuffled"
      BY <1>1, <2>2, <2>7 DEF Delivers
    <3>3. CASE e.time = orow.time
      <4>1. OrderConflict(e)
        BY <2>3, <3>1 DEF OrderConflict, OrderAfter, ActiveOrder, TERMINAL_ORDER_STATUSES
      <4>2. ~Stale(e, orow)
        BY <2>3, <3>3 DEF Stale
      <4>3. halted'
        BY <1>2, <2>4, <4>1, <4>2
      <4>4. QED
        BY <1>1, <2>2, <2>3, <2>7, <3>2, <3>3, <4>3
    <3>4. CASE e.time # orow.time
      <4>1. Stale(e, orow)
        BY <1>1, <2>2, <2>3, <2>7, <3>4 DEF Stale, Inv, ExchangeInv, Times
      <4>2. orow' = orow /\ ~halted'
        BY <1>2, <1>4, <2>4, <4>1
      <4>3. SaysNewest(orow, Got("order") \cup {i})
        BY <1>1, <2>1, <2>2, <2>7 DEF SaysNewest
      <4>4. QED
        BY <4>2, <4>3
    <3>5. QED
      BY <3>3, <3>4
  <2>8. QED
    BY <1>1, <2>2, <2>5, <2>6, <2>7
<1>8. QED
  BY <1>6, <1>7

\* The exit's row, and the halts it may cause.
LEMMA AlgoRow ==
  ASSUME Inv, NEW i, Delivers(i), AlgoUpdate(i)
  PROVE  /\ halted' /\ ~halted =>
              /\ channel = "shuffled"
              /\ \E m \in delivered :
                   m # i /\ sent[m].kind = "algo" /\ sent[m].time = sent[i].time
         /\ ~halted' => ~halted /\ SaysNewest(arow', Got("algo") \cup {i})
<1> DEFINE e == sent[i]
<1>1. /\ e \in Events /\ e.kind = "algo" /\ i \in Nat /\ i \in DOMAIN sent
      /\ \A j \in DOMAIN sent : j \in Nat /\ sent[j] \in Events
      /\ delivered \subseteq DOMAIN sent
  BY DeliverFacts DEF AlgoUpdate, Delivers
<1>2. /\ Known(arow) /\ Stale(e, arow) => UNCHANGED <<arow, processed, halted>>
      /\ Known(arow) /\ ~Stale(e, arow) /\ AlgoConflict(e) => halted'
      /\ (Known(arow) => ~Stale(e, arow) /\ ~AlgoConflict(e)) =>
           Write(i, arow) /\ halted' = halted
  BY DEF AlgoUpdate, Halt
<1>3. halted => halted'
  BY <1>2 DEF AlgoUpdate, Halt
<1>4. SUFFICES ASSUME ~halted
               PROVE  /\ halted' =>
                           /\ channel = "shuffled"
                           /\ \E m \in delivered :
                                m # i /\ sent[m].kind = "algo" /\ sent[m].time = e.time
                      /\ ~halted' => SaysNewest(arow', Got("algo") \cup {i})
  BY <1>3
<1>5. SaysNewest(arow, Got("algo")) /\ processed \subseteq delivered
  BY <1>4 DEF Inv, RowsNewest, UserDataTypeOK
<1>6. CASE Got("algo") = {}
  <2>1. arow = NoRow /\ ~Known(arow) /\ i \notin processed
    BY <1>1, <1>5, <1>6 DEF SaysNewest, NoRow, Known, Got
  <2>2. Write(i, arow) /\ halted' = halted
    BY <1>2, <2>1
  <2>3. arow' = Row(e)
    BY <2>1, <2>2 DEF Write
  <2>4. ~halted'
    BY <1>4, <2>2
  <2>5. QED
    BY <1>1, <1>6, <2>3, <2>4, DeliverFacts
<1>7. CASE Got("algo") # {}
  <2>1. PICK m \in Got("algo") : (\A j \in Got("algo") : j <= m) /\ arow = Row(sent[m])
    BY <1>5, <1>7 DEF SaysNewest, Got
  <2>2. /\ m \in delivered /\ m \in DOMAIN sent /\ sent[m].kind = "algo" /\ m \in Nat
        /\ sent[m] \in Events
    BY <1>1, <2>1 DEF Got
  <2>3. /\ arow.status = sent[m].status /\ arow.qty = sent[m].qty /\ arow.time = sent[m].time
        /\ e.qty \in Nat /\ e.time \in Nat /\ arow.qty \in Nat /\ arow.time \in Nat
    BY <1>1, <2>1, <2>2 DEF Row, Events
  <2>4. Known(arow)
    BY <2>2, <2>3 DEF Known, Inv, ExchangeInv, History, AlgoPast, FINAL_ALGO_STATUSES
  <2>5. CASE i = m
    <3>1. ~Stale(e, arow) /\ ~AlgoConflict(e)
      BY <2>3, <2>5 DEF Stale, AlgoConflict
    <3>2. ~halted' /\ arow' = Row(e)
      BY <1>2, <1>4, <2>1, <2>5, <3>1 DEF Write
    <3>3. QED
      BY <1>1, <2>1, <2>5, <3>2, DeliverFacts
  <2>6. CASE m < i
    <3>1. ~Stale(e, arow)
      BY <1>1, <2>2, <2>3, <2>6 DEF Stale, Inv, ExchangeInv, Times
    <3>2. AlgoAfter(sent[m], e)
      BY <1>1, <2>2, <2>6 DEF Inv, ExchangeInv, History
    <3>3. ~AlgoConflict(e)
      BY <2>3, <3>2 DEF AlgoConflict, AlgoAfter, FINAL_ALGO_STATUSES
    <3>4. i \notin processed
      BY <1>1, <1>5, <2>1, <2>2, <2>6 DEF Got
    <3>5. ~halted' /\ arow' = Row(e)
      BY <1>2, <1>4, <3>1, <3>3, <3>4 DEF Write
    <3>6. \A j \in Got("algo") : j <= i
      BY <1>1, <2>1, <2>2, <2>6 DEF Got
    <3>7. QED
      BY <1>1, <3>5, <3>6, DeliverFacts
  <2>7. CASE i < m
    <3>1. AlgoAfter(e, sent[m])
      BY <1>1, <2>2, <2>7 DEF Inv, ExchangeInv, History
    <3>2. channel = "shuffled"
      BY <1>1, <2>2, <2>7 DEF Delivers
    <3>3. CASE e.time = arow.time
      <4>1. AlgoConflict(e)
        BY <2>3, <3>1 DEF AlgoConflict, AlgoAfter, FINAL_ALGO_STATUSES
      <4>2. ~Stale(e, arow)
        BY <2>3, <3>3 DEF Stale
      <4>3. halted'
        BY <1>2, <2>4, <4>1, <4>2
      <4>4. QED
        BY <1>1, <2>2, <2>3, <2>7, <3>2, <3>3, <4>3
    <3>4. CASE e.time # arow.time
      <4>1. Stale(e, arow)
        BY <1>1, <2>2, <2>3, <2>7, <3>4 DEF Stale, Inv, ExchangeInv, Times
      <4>2. arow' = arow /\ ~halted'
        BY <1>2, <1>4, <2>4, <4>1
      <4>3. SaysNewest(arow, Got("algo") \cup {i})
        BY <1>1, <2>1, <2>2, <2>7 DEF SaysNewest
      <4>4. QED
        BY <4>2, <4>3
    <3>5. QED
      BY <3>3, <3>4
  <2>8. QED
    BY <1>1, <2>2, <2>5, <2>6, <2>7
<1>8. QED
  BY <1>6, <1>7

\* The position's row, while nothing comes late.
LEMMA PositionRowStep ==
  ASSUME Inv, NEW i, Delivers(i), AccountUpdate(i), channel # "shuffled"
  PROVE  SaysNewest(prow', Got("account") \cup {i})
<1> DEFINE e == sent[i]
<1>1. /\ e \in Events /\ e.kind = "account" /\ i \in Nat /\ i \in DOMAIN sent
      /\ \A j \in DOMAIN sent : j \in Nat /\ sent[j] \in Events
      /\ delivered \subseteq DOMAIN sent /\ processed \subseteq delivered
  BY DeliverFacts DEF AccountUpdate, Delivers, Inv, UserDataTypeOK
<1>2. \A j \in delivered : j < i
  BY DEF Delivers
<1>3. i \notin processed
  BY <1>1, <1>2
<1>4. prow' = PositionRow(e)
  BY <1>3 DEF AccountUpdate
<1>5. SaysNewest(prow, Got("account"))
  BY DEF Inv, PositionNewest
<1>6. ~(prow.qty # 0 /\ Stale(e, prow))
  <2>1. CASE Got("account") = {}
    BY <1>5, <2>1 DEF SaysNewest, NoRow
  <2>2. CASE Got("account") # {}
    <3>1. PICK m \in Got("account") : prow = NoRow \/ prow = Row(sent[m])
      BY <1>5, <2>2 DEF SaysNewest
    <3>2. m \in DOMAIN sent /\ m < i /\ sent[m] \in Events
      BY <1>1, <1>2 DEF Got
    <3>3. sent[m].time <= e.time /\ sent[m].time \in Nat /\ e.time \in Nat
      BY <1>1, <3>2 DEF Inv, ExchangeInv, Times, Events
    <3>4. QED
      BY <3>1, <3>3 DEF NoRow, Row, Stale
  <2>3. QED
    BY <2>1, <2>2
<1>7. prow' = IF e.kind = "account" /\ e.qty = 0 THEN NoRow ELSE Row(e)
  BY <1>1, <1>4, <1>6 DEF PositionRow
<1>8. \A j \in Got("account") : j <= i
  BY <1>1, <1>2 DEF Got
<1>9. QED
  BY <1>1, <1>7, <1>8, DeliverFacts

\* Types survive whatever is received.
LEMMA ReceiveTypes ==
  ASSUME Inv, NEW i, Delivers(i), Receive(i)
  PROVE  UserDataTypeOK'
<1>1. UserDataTypeOK /\ sent[i] \in Events /\ i \in DOMAIN sent
  BY DeliverFacts DEF Delivers, Inv
<1>2. Row(sent[i]) \in Rows /\ Row(sent[i]).qty = sent[i].qty
  BY <1>1 DEF Row, Rows, Events
<1>3. NoRow \in Rows /\ NoRow.qty = 0
  BY DEF NoRow, Rows, Statuses
<1>4. /\ order' \in [status : Statuses, filled : 0 .. Quantity]
      /\ algo' \in Statuses /\ position' \in Nat /\ time' \in 0 .. MaxTime
      /\ sent' \in Seq(Events) /\ channel' \in Channels
      /\ delivered' \subseteq DOMAIN sent' /\ lost' \subseteq DOMAIN sent'
      /\ delivered' = delivered \cup {i}
  BY <1>1 DEF Delivers, exchangeVars, UserDataTypeOK
<1>5. CASE OrderUpdate(i)
  <2>1. \/ UNCHANGED <<orow, processed>>
        \/ orow' = Row(sent[i]) /\ processed' = processed \cup {i}
    BY <1>5 DEF OrderUpdate, Write, Halt
  <2>2. UNCHANGED <<arow, prow>> /\ (halted' = halted \/ halted' = TRUE)
    BY <1>5 DEF OrderUpdate, Write, Halt
  <2>3. QED
    BY <1>1, <1>2, <1>4, <2>1, <2>2 DEF UserDataTypeOK
<1>6. CASE AlgoUpdate(i)
  <2>1. \/ UNCHANGED <<arow, processed>>
        \/ arow' = Row(sent[i]) /\ processed' = processed \cup {i}
    BY <1>6 DEF AlgoUpdate, Write, Halt
  <2>2. UNCHANGED <<orow, prow>> /\ (halted' = halted \/ halted' = TRUE)
    BY <1>6 DEF AlgoUpdate, Write, Halt
  <2>3. QED
    BY <1>1, <1>2, <1>4, <2>1, <2>2 DEF UserDataTypeOK
<1>7. CASE AccountUpdate(i)
  <2>1. /\ PositionRow(sent[i]) \in Rows
        /\ PositionRow(sent[i]).qty = 0 => PositionRow(sent[i]) = NoRow
    BY <1>1, <1>2, <1>3 DEF PositionRow, UserDataTypeOK
  <2>2. \/ UNCHANGED <<prow, processed>>
        \/ prow' = PositionRow(sent[i]) /\ processed' = processed \cup {i}
    BY <1>7 DEF AccountUpdate
  <2>3. UNCHANGED <<orow, arow, halted>>
    BY <1>7 DEF AccountUpdate
  <2>4. QED
    BY <1>1, <1>4, <2>1, <2>2, <2>3 DEF UserDataTypeOK
<1>8. CASE AlarmUpdate(i)
  BY <1>1, <1>4, <1>8 DEF AlarmUpdate, UserDataTypeOK
<1>9. QED
  BY <1>5, <1>6, <1>7, <1>8 DEF Receive

\* And so does the rest of the invariant.
LEMMA ReceiveStep ==
  ASSUME Inv, NEW i, Delivers(i), Receive(i)
  PROVE  ExchangeInv' /\ RowsNewest' /\ PositionNewest' /\ NoFalseHalt'
<1>1. /\ sent' = sent /\ delivered' = delivered \cup {i} /\ channel' = channel
      /\ i \in DOMAIN sent /\ UNCHANGED exchangeVars
  BY DEF Delivers, exchangeVars
<1>2. ExchangeInv'
  BY <1>1 DEF Inv, ExchangeInv, Times, History, OrderPast, AlgoPast, exchangeVars
<1>3. \A k : Got(k)' = IF sent[i].kind = k THEN Got(k) \cup {i} ELSE Got(k)
  BY DeliverFacts
<1>4. \A r, S : SaysNewest(r, S)' <=> SaysNewest(r, S)
  BY DeliverFacts
<1>5. /\ ~halted => SaysNewest(orow, Got("order")) /\ SaysNewest(arow, Got("algo"))
      /\ channel # "shuffled" => SaysNewest(prow, Got("account"))
  BY DEF Inv, RowsNewest, PositionNewest
<1>6. halted => NoFalseHalt'
  BY <1>1, <1>3 DEF Inv, NoFalseHalt, Got
<1>7. ASSUME channel = "shuffled",
             \E m \in delivered : m # i /\ sent[m].kind = sent[i].kind /\ sent[m].time = sent[i].time
      PROVE  NoFalseHalt'
  BY <1>1, <1>7 DEF NoFalseHalt
<1>8. CASE OrderUpdate(i)
  <2>1. sent[i].kind = "order" /\ UNCHANGED <<arow, prow>>
    BY <1>8 DEF OrderUpdate
  <2>2. /\ Got("order")' = Got("order") \cup {i} /\ Got("algo")' = Got("algo")
        /\ Got("account")' = Got("account")
    BY <1>3, <2>1
  <2>3. NoFalseHalt'
    <3>1. CASE ~halted'
      BY <3>1 DEF NoFalseHalt
    <3>2. CASE halted' /\ ~halted
      BY <1>7, <1>8, <2>1, <3>2, OrderRow
    <3>3. QED
      BY <1>6, <3>1, <3>2
  <2>4. ~halted' => ~halted /\ SaysNewest(orow', Got("order") \cup {i})
    BY <1>8, OrderRow
  <2>5. RowsNewest'
    BY <1>4, <1>5, <2>1, <2>2, <2>4 DEF RowsNewest
  <2>6. PositionNewest'
    BY <1>1, <1>4, <1>5, <2>1, <2>2 DEF PositionNewest
  <2>7. QED
    BY <1>2, <2>3, <2>5, <2>6
<1>9. CASE AlgoUpdate(i)
  <2>1. sent[i].kind = "algo" /\ UNCHANGED <<orow, prow>>
    BY <1>9 DEF AlgoUpdate
  <2>2. /\ Got("algo")' = Got("algo") \cup {i} /\ Got("order")' = Got("order")
        /\ Got("account")' = Got("account")
    BY <1>3, <2>1
  <2>3. NoFalseHalt'
    <3>1. CASE ~halted'
      BY <3>1 DEF NoFalseHalt
    <3>2. CASE halted' /\ ~halted
      BY <1>7, <1>9, <2>1, <3>2, AlgoRow
    <3>3. QED
      BY <1>6, <3>1, <3>2
  <2>4. ~halted' => ~halted /\ SaysNewest(arow', Got("algo") \cup {i})
    BY <1>9, AlgoRow
  <2>5. RowsNewest'
    BY <1>4, <1>5, <2>1, <2>2, <2>4 DEF RowsNewest
  <2>6. PositionNewest'
    BY <1>1, <1>4, <1>5, <2>1, <2>2 DEF PositionNewest
  <2>7. QED
    BY <1>2, <2>3, <2>5, <2>6
<1>10. CASE AccountUpdate(i)
  <2>1. sent[i].kind = "account" /\ UNCHANGED <<orow, arow, halted>>
    BY <1>10 DEF AccountUpdate
  <2>2. /\ Got("account")' = Got("account") \cup {i} /\ Got("order")' = Got("order")
        /\ Got("algo")' = Got("algo")
    BY <1>3, <2>1
  <2>3. NoFalseHalt'
    BY <1>6, <2>1 DEF NoFalseHalt
  <2>4. RowsNewest'
    BY <1>4, <1>5, <2>1, <2>2 DEF RowsNewest
  <2>5. PositionNewest'
    BY <1>1, <1>4, <1>10, <2>2, PositionRowStep DEF PositionNewest
  <2>6. QED
    BY <1>2, <2>3, <2>4, <2>5
<1>11. CASE AlarmUpdate(i)
  <2>1. sent[i].kind = "alarm" /\ halted' /\ UNCHANGED <<orow, arow, prow>>
    BY <1>11 DEF AlarmUpdate
  <2>2. i \in Got("alarm")' /\ Got("account")' = Got("account")
    BY <1>3, <2>1
  <2>3. RowsNewest' /\ NoFalseHalt'
    BY <2>1, <2>2 DEF RowsNewest, NoFalseHalt
  <2>4. PositionNewest'
    BY <1>1, <1>4, <1>5, <2>1, <2>2 DEF PositionNewest
  <2>5. QED
    BY <1>2, <2>3, <2>4
<1>12. QED
  BY <1>8, <1>9, <1>10, <1>11 DEF Receive

\* A delivery keeps the order of what is left, and a loss takes nothing back.
LEMMA StreamStep == ASSUME Inv, Stream PROVE Inv'
<1>1. UNCHANGED <<channel, exchangeVars>>
  BY DEF Stream
<1>2. delivered \subseteq DOMAIN sent /\ \A i \in DOMAIN sent : i \in Nat
  BY DEF Inv, UserDataTypeOK
<1>3. CASE DeliverOrdered
  <2>1. PICK i \in Pending : /\ \A j \in Pending : i <= j
                             /\ Receive(i) /\ delivered' = delivered \cup {i}
    BY <1>3 DEF DeliverOrdered
  <2>2. /\ channel # "shuffled" => \A j \in delivered : j < i
        /\ i \in DOMAIN sent /\ i \notin delivered
    BY <2>1 DEF Inv, InOrder, Pending
  <2>3. Delivers(i)
    BY <1>1, <1>3, <2>1, <2>2 DEF Delivers, DeliverOrdered
  <2>4. Pending' = Pending \ {i}
    BY <1>1, <1>3, <2>1 DEF Pending, DeliverOrdered, exchangeVars
  <2>5. \A j \in Pending : j # i => i < j
    BY <1>2, <2>1 DEF Pending
  <2>6. InOrder'
    BY <1>1, <2>1, <2>4, <2>5 DEF InOrder, Inv
  <2>7. QED
    BY <2>1, <2>3, <2>6, ReceiveTypes, ReceiveStep DEF Inv
<1>4. CASE DeliverShuffled
  <2>1. channel = "shuffled"
    BY <1>4 DEF DeliverShuffled
  <2>2. PICK i \in DOMAIN sent : Receive(i) /\ delivered' = delivered \cup {i}
    BY <1>4 DEF DeliverShuffled
  <2>3. Delivers(i)
    BY <1>1, <1>4, <2>1, <2>2 DEF Delivers, DeliverShuffled
  <2>4. InOrder'
    BY <1>1, <2>1 DEF InOrder
  <2>5. QED
    BY <2>2, <2>3, <2>4, ReceiveTypes, ReceiveStep DEF Inv
<1>5. CASE Lose
  <2>1. UNCHANGED <<order, algo, position, time, sent, channel, delivered>>
        /\ UNCHANGED <<orow, arow, prow, processed, halted>>
    BY <1>1, <1>5 DEF Lose, exchangeVars, storeVars
  <2>2. PICK i \in Pending : lost' = lost \cup {i}
    BY <1>5 DEF Lose
  <2>3. i \in DOMAIN sent /\ Pending' \subseteq Pending
    BY <2>1, <2>2 DEF Pending
  <2>4. InOrder'
    BY <2>1, <2>3 DEF Inv, InOrder
  <2>5. UserDataTypeOK'
    BY <2>1, <2>2, <2>3 DEF Inv, UserDataTypeOK
  <2>6. ExchangeInv'
    BY <2>1 DEF Inv, ExchangeInv, Times, History, OrderPast, AlgoPast
  <2>7. \A k : Got(k)' = Got(k)
    BY <2>1 DEF Got
  <2>8. \A r, S : SaysNewest(r, S)' <=> SaysNewest(r, S)
    BY <2>1 DEF SaysNewest, Row
  <2>9. RowsNewest' /\ PositionNewest' /\ NoFalseHalt'
    BY <2>1, <2>7, <2>8 DEF Inv, RowsNewest, PositionNewest, NoFalseHalt
  <2>10. QED
    BY <2>4, <2>5, <2>6, <2>9 DEF Inv
<1>6. QED
  BY <1>3, <1>4, <1>5 DEF Stream

-----------------------------------------------------------------------------
(* Theorems. *)

LEMMA InitInv == Init => Inv
<1> SUFFICES ASSUME Init PROVE Inv
  OBVIOUS
<1>1. sent = <<>> /\ DOMAIN sent = {} /\ delivered = {} /\ lost = {} /\ processed = {}
  BY DEF Init
<1>2. UserDataTypeOK
  <2>1. "NONE" \in Statuses
    BY DEF Statuses
  <2>2. NoRow \in Rows
    BY <2>1 DEF NoRow, Rows
  <2>3. sent \in Seq(Events)
    BY <1>1
  <2>4. order \in [status : Statuses, filled : 0 .. Quantity] /\ time \in 0 .. MaxTime
    BY <2>1, UserDataAssumption DEF Init
  <2>5. QED
    BY <1>1, <2>1, <2>2, <2>3, <2>4 DEF Init, UserDataTypeOK
<1>3. ExchangeInv /\ InOrder
  BY <1>1 DEF Init, ExchangeInv, Times, History, InOrder, ActiveOrder
<1>4. RowsNewest /\ PositionNewest /\ NoFalseHalt
  BY <1>1 DEF Init, RowsNewest, PositionNewest, NoFalseHalt, SaysNewest, Got
<1>5. QED
  BY <1>2, <1>3, <1>4 DEF Inv

LEMMA NextInv == Inv /\ [Next]_vars => Inv'
<1>1. ASSUME Inv, UNCHANGED vars PROVE Inv'
  <2>1. /\ UNCHANGED <<order, algo, position, time, sent, channel, delivered, lost>>
        /\ UNCHANGED <<orow, arow, prow, processed, halted>>
    BY <1>1 DEF vars, exchangeVars, streamVars, storeVars
  <2>2. UserDataTypeOK' /\ ExchangeInv' /\ InOrder'
    BY <1>1, <2>1 DEF Inv, UserDataTypeOK, ExchangeInv, Times, History, OrderPast, AlgoPast,
       InOrder, Pending
  <2>3. RowsNewest' /\ PositionNewest' /\ NoFalseHalt'
    BY <1>1, <2>1 DEF Inv, RowsNewest, PositionNewest, NoFalseHalt, Got, SaysNewest, Row
  <2>4. QED
    BY <2>2, <2>3 DEF Inv
<1>2. QED
  BY <1>1, ExchangeStep, StreamStep DEF Next

\* What the rows say follows from the life of the order and of the exit, the
\* stamps, and the order of the stream: the inductive invariant.
THEOREM UserDataInvariant == Spec => []Inv
<1>1. QED
  BY InitInv, NextInv, PTL DEF Spec

\* Types hold for any quantity, clock and stream.
THEOREM UserDataTypes == Spec => []UserDataTypeOK
<1>1. Inv => UserDataTypeOK
  BY DEF Inv
<1>2. QED
  BY <1>1, UserDataInvariant, PTL

\* However the stream mixes events, rows that are not halted say the newest.
THEOREM UserDataRowsNewest == Spec => []RowsNewest
<1>1. Inv => RowsNewest
  BY DEF Inv
<1>2. QED
  BY <1>1, UserDataInvariant, PTL

\* In a stream that keeps order, with or without gaps, so does the position.
THEOREM UserDataPositionNewest == Spec => []PositionNewest
<1>1. Inv => PositionNewest
  BY DEF Inv
<1>2. QED
  BY <1>1, UserDataInvariant, PTL

\* The processor never halts the store without an alarm or a tie it cannot order.
THEOREM UserDataNoFalseHalt == Spec => []NoFalseHalt
<1>1. Inv => NoFalseHalt
  BY DEF Inv
<1>2. QED
  BY <1>1, UserDataInvariant, PTL
=============================================================================
