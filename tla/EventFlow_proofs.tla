-------------------------- MODULE EventFlow_proofs --------------------------
(***************************************************************************)
(* What the partition keys of the generator do guarantee, for any employees,  *)
(* partitions, partitioner, plugins, numbers of items and transactions,       *)
(* whatever is delivered late or never, and however a consumer that keeps its *)
(* promise interleaves the partitions: the events that carry a transaction's  *)
(* id are settled in their order.  And that the generator leaves nothing      *)
(* behind when it exits.                                                      *)
(***************************************************************************)
EXTENDS Pipeline, SequenceTheorems, TLAPS

(* Only the transaction in hand is in the producer's queue.                   *)
InHand ==
    /\ \A i \in DOMAIN events : events[i].txn = txn /\ events[i].place = i
    /\ \A p \in Partition : \A a \in DOMAIN log[p] : log[p][a].txn <= txn

AtHome == \A p \in Partition : \A a \in DOMAIN log[p] : Home(log[p][a]) = p

(* A partition keeps the order, and goes on behind what is queued for it.     *)
LogInOrder ==
    /\ \A p \in Partition : \A a, b \in DOMAIN log[p] :
          a < b /\ log[p][a].txn = log[p][b].txn => log[p][a].place < log[p][b].place
    /\ \A p \in Partition : \A a \in DOMAIN log[p] : \A i \in queued :
          log[p][a].txn = txn /\ Home(events[i]) = p => log[p][a].place < i

(* The consumer's promise: it settles what is on the topic, in its order.     *)
ReadInOrder ==
    \A p \in Partition : \A o \in Nat \ {0}, q \in Plugin :
        <<p, o, q>> \in settled =>
            o \in DOMAIN log[p] /\ \A a \in 1..(o - 1) : Delivery!FullySettled(p, a)

(* Between transactions nothing is queued, and none is left out of a burst.   *)
FlushedBetween ==
    /\ pc = "waiting" => txn = 0
    /\ pc # "flushing" => queued = {}
    /\ FinishesUp

FlowInv == FlowTypeOK /\ InHand /\ AtHome /\ LogInOrder /\ FlushedBetween

IInv == FlowInv /\ TypeOK /\ ReadInOrder

-----------------------------------------------------------------------------
LEMMA InitOK == Init => IInv
<1> USE EventFlowAssumption
<1>1. Init => FlowTypeOK /\ TypeOK
  BY DEF Init, FlowInit, FlowTypeOK, TypeOK
<1>2. Init => InHand /\ AtHome /\ LogInOrder
  BY DEF Init, FlowInit, InHand, AtHome, LogInOrder
<1>3. Init => FlushedBetween /\ ReadInOrder
  BY DEF Init, FlowInit, FlushedBetween, FinishesUp, ReadInOrder
<1>4. QED BY <1>1, <1>2, <1>3 DEF IInv, FlowInv

(* A new transaction is a sequence of events of its own.                      *)
LEMMA NewEvents ==
    ASSUME NEW t \in TxnId, NEW e \in Employee, NEW k \in Items
    PROVE  LET new == GenerateTransactionEvents(t, e, k) IN
           /\ new \in Seq(Event)
           /\ DOMAIN new = 1..(k + 6)
           /\ \A i \in DOMAIN new : new[i].txn = t /\ new[i].place = i
<1> DEFINE new == GenerateTransactionEvents(t, e, k)
<1>1. k + 6 \in Nat
  BY EventFlowAssumption
<1>2. \A i \in 1..(k + 6) : TypeAt(i, k) \in Type
  BY <1>1 DEF TypeAt, Type
<1>3. new \in [1..(k + 6) -> Event]
  BY <1>1, <1>2 DEF GenerateTransactionEvents, Event
<1>4. new \in Seq(Event)
  BY <1>1, <1>3, SeqDef
<1>5. QED BY <1>4 DEF GenerateTransactionEvents

LEMMA NumberedTransactions == \A e \in Event : e.txn \in Nat
BY DEF Event, TxnId

LEMMA ElementsAreEvents ==
    ASSUME FlowInv
    PROVE  \A p \in Partition : \A a \in DOMAIN log[p] : log[p][a] \in Event
<1>1. \A p \in Partition : log[p] \in Seq(Event)
  BY DEF FlowInv, FlowTypeOK
<1>2. ASSUME NEW s \in Seq(Event), NEW a \in DOMAIN s PROVE s[a] \in Event
  BY <1>2
<1>3. QED BY <1>1, <1>2

LEMMA PublishOK ==
    ASSUME FlowInv, NEW e \in Employee, NEW k \in Items, PublishTransaction(e, k)
    PROVE  FlowInv'
<1>1. txn + 1 \in TxnId /\ txn \in Nat
  BY EventFlowAssumption DEF FlowInv, FlowTypeOK, PublishTransaction, TxnId
<1>2. /\ events' \in Seq(Event)
      /\ DOMAIN events' = 1..(k + 6)
      /\ \A i \in DOMAIN events' : events'[i].txn = txn + 1 /\ events'[i].place = i
  BY <1>1, NewEvents DEF PublishTransaction
<1>3. FlowTypeOK'
  <2>1. queued' \subseteq DOMAIN events'
    BY <1>2 DEF PublishTransaction
  <2>2. txn' \in Nat /\ pc' \in {"waiting", "publishing", "flushing", "exited"}
    BY DEF FlowInv, FlowTypeOK, PublishTransaction
  <2>3. QED BY <1>2, <2>1, <2>2 DEF FlowInv, FlowTypeOK, PublishTransaction
<1>4. InHand' /\ AtHome'
  <2>1. \A i \in DOMAIN events' : events'[i].txn = txn' /\ events'[i].place = i
    BY <1>2 DEF PublishTransaction
  <2>2. \A p \in Partition : \A a \in DOMAIN log[p] : log[p][a].txn \in Nat
    BY ElementsAreEvents, NumberedTransactions
  <2>3. \A p \in Partition : \A a \in DOMAIN log[p] : log[p][a].txn <= txn + 1
    BY <1>1, <2>2 DEF FlowInv, InHand
  <2>4. InHand'
    BY <2>1, <2>3 DEF InHand, PublishTransaction
  <2>5. QED BY <2>4 DEF FlowInv, AtHome, PublishTransaction, Home
<1>5. \A p \in Partition : \A a \in DOMAIN log[p] : log[p][a].txn # txn'
  BY <1>1, ElementsAreEvents, NumberedTransactions DEF FlowInv, InHand, PublishTransaction
<1>6. LogInOrder'
  BY <1>5 DEF FlowInv, LogInOrder, PublishTransaction
<1>7. FlushedBetween'
  BY DEF FlushedBetween, FinishesUp, PublishTransaction
<1>8. QED BY <1>3, <1>4, <1>6, <1>7 DEF FlowInv

LEMMA DeliveryFailsOK ==
    ASSUME FlowInv, NEW i \in queued, DeliveryFails(i)
    PROVE  FlowInv'
<1>1. FlowTypeOK'
  BY DEF FlowInv, FlowTypeOK, DeliveryFails
<1>2. InHand' /\ AtHome' /\ LogInOrder'
  BY DEF FlowInv, InHand, AtHome, LogInOrder, DeliveryFails, Home
<1>3. FlushedBetween'
  BY DEF FlowInv, FlushedBetween, FinishesUp, DeliveryFails
<1>4. QED BY <1>1, <1>2, <1>3 DEF FlowInv

(* A partition after a delivery: the old one, or one event longer.            *)
LEMMA TopicGrows ==
    ASSUME FlowInv, NEW i \in queued, Deliver(i)
    PROVE  /\ i \in DOMAIN events
           /\ events[i] \in Event
           /\ events[i].txn = txn
           /\ events[i].place = i
           /\ log' \in [Partition -> Seq(Event)]
           /\ \A p \in Partition :
                /\ Len(log[p]) \in Nat
                /\ Len(log'[p]) = IF p = Home(events[i]) THEN Len(log[p]) + 1 ELSE Len(log[p])
                /\ \A a \in DOMAIN log'[p] :
                      \/ a \in DOMAIN log[p] /\ log'[p][a] = log[p][a]
                      \/ a = Len(log[p]) + 1 /\ p = Home(events[i]) /\ log'[p][a] = events[i]
<1> DEFINE h == Home(events[i])
<1>1. /\ i \in DOMAIN events
      /\ events[i] \in Event
      /\ events[i].txn = txn
      /\ events[i].place = i
  BY DEF FlowInv, FlowTypeOK, InHand
<1>2. /\ log \in [Partition -> Seq(Event)]
      /\ log' = [log EXCEPT ![h] = Append(@, events[i])]
  BY DEF FlowInv, FlowTypeOK, Deliver
<1>3. ASSUME NEW s \in Seq(Event)
      PROVE  LET longer == Append(s, events[i]) IN
             /\ longer \in Seq(Event)
             /\ Len(s) \in Nat
             /\ Len(longer) = Len(s) + 1
             /\ \A a \in DOMAIN longer :
                   (a \in DOMAIN s /\ longer[a] = s[a]) \/ (a = Len(s) + 1 /\ longer[a] = events[i])
  BY <1>1, <1>3
<1> HIDE DEF h
<1>4. ASSUME NEW p \in Partition
      PROVE  log[p] \in Seq(Event) /\ log'[p] = IF p = h THEN Append(log[p], events[i]) ELSE log[p]
  BY <1>2, <1>4
<1>5. log' \in [Partition -> Seq(Event)]
  BY <1>2, <1>3
<1>6. ASSUME NEW p \in Partition
      PROVE  /\ Len(log[p]) \in Nat
             /\ Len(log'[p]) = IF p = h THEN Len(log[p]) + 1 ELSE Len(log[p])
             /\ \A a \in DOMAIN log'[p] :
                   \/ a \in DOMAIN log[p] /\ log'[p][a] = log[p][a]
                   \/ a = Len(log[p]) + 1 /\ p = h /\ log'[p][a] = events[i]
  <2>1. CASE p = h
    <3>1. log[p] \in Seq(Event) /\ log'[p] = Append(log[p], events[i])
      BY <1>4, <2>1
    <3>2. QED BY <1>3, <2>1, <3>1
  <2>2. CASE p # h
    BY <1>3, <1>4, <2>2
  <2>3. QED BY <2>1, <2>2
<1>7. QED BY <1>1, <1>5, <1>6 DEF h

LEMMA DeliverOK ==
    ASSUME FlowInv, NEW i \in queued, Deliver(i)
    PROVE  FlowInv'
<1> DEFINE h == Home(events[i])
<1>1. /\ events[i] \in Event
      /\ events[i].txn = txn
      /\ events[i].place = i
      /\ log' \in [Partition -> Seq(Event)]
  BY TopicGrows
<1>2. \A p \in Partition :
          /\ Len(log[p]) \in Nat
          /\ \A a \in DOMAIN log'[p] :
                \/ a \in DOMAIN log[p] /\ log'[p][a] = log[p][a]
                \/ a = Len(log[p]) + 1 /\ p = h /\ log'[p][a] = events[i]
  BY TopicGrows
<1>3. \A p \in Partition : log[p] \in Seq(Event) /\ DOMAIN log[p] = 1..Len(log[p])
  BY DEF FlowInv, FlowTypeOK
<1>4. /\ queued' = queued \ {i} /\ events' = events /\ txn' = txn
      /\ \A j \in queued : Home(events[j]) = h => i <= j
  BY DEF Deliver, Foremost
<1>5. FlowTypeOK'
  BY <1>1 DEF Deliver, FlowInv, FlowTypeOK
<1>6. InHand'
  <2>1. \A j \in DOMAIN events' : events'[j].txn = txn' /\ events'[j].place = j
    BY <1>4 DEF FlowInv, InHand
  <2>2. ASSUME NEW p \in Partition, NEW a \in DOMAIN log'[p] PROVE log'[p][a].txn <= txn'
    <3>1. CASE a \in DOMAIN log[p] /\ log'[p][a] = log[p][a]
      BY <1>4, <3>1 DEF FlowInv, InHand
    <3>2. CASE log'[p][a] = events[i]
      BY <1>1, <1>4, <3>2 DEF FlowInv, FlowTypeOK
    <3>3. QED BY <1>2, <2>2, <3>1, <3>2
  <2>3. QED BY <2>1, <2>2 DEF InHand
<1>7. AtHome'
  BY <1>2, <1>4 DEF FlowInv, AtHome
<1>8. LogInOrder'
  <2>1. ASSUME NEW p \in Partition, NEW a \in DOMAIN log'[p], NEW b \in DOMAIN log'[p],
               a < b, log'[p][a].txn = log'[p][b].txn
        PROVE  log'[p][a].place < log'[p][b].place
    <3>1. a \in DOMAIN log[p] /\ log'[p][a] = log[p][a]
      BY <1>2, <1>3, <2>1
    <3>2. CASE b \in DOMAIN log[p] /\ log'[p][b] = log[p][b]
      BY <2>1, <3>1, <3>2 DEF FlowInv, LogInOrder
    <3>3. CASE p = h /\ log'[p][b] = events[i]
      BY <1>1, <2>1, <3>1, <3>3 DEF FlowInv, LogInOrder
    <3>4. QED BY <1>2, <2>1, <3>2, <3>3
  <2>2. ASSUME NEW p \in Partition, NEW a \in DOMAIN log'[p], NEW j \in queued',
               log'[p][a].txn = txn', Home(events'[j]) = p
        PROVE  log'[p][a].place < j
    <3>1. j \in queued /\ j # i /\ j \in Nat /\ i \in Nat /\ (Home(events[j]) = h => i <= j)
      BY <1>4, <2>2 DEF FlowInv, FlowTypeOK
    <3>2. QED BY <1>1, <1>2, <1>4, <2>2, <3>1 DEF FlowInv, LogInOrder
  <2>3. QED BY <2>1, <2>2 DEF LogInOrder
<1>9. FlushedBetween'
  BY DEF FlowInv, FlushedBetween, FinishesUp, Deliver
<1>10. QED BY <1>5, <1>6, <1>7, <1>8, <1>9 DEF FlowInv

LEMMA FlowStepOK ==
    ASSUME FlowInv, Generate \/ Produce \/ UNCHANGED flowVars
    PROVE  FlowInv'
<1>1. ASSUME UNCHANGED <<txn, events, queued, log>>, pc' \in {"waiting", "publishing", "flushing", "exited"},
             running' \in BOOLEAN, FlushedBetween'
      PROVE  FlowInv'
  <2>1. FlowTypeOK'
    BY <1>1 DEF FlowInv, FlowTypeOK
  <2>2. InHand' /\ AtHome' /\ LogInOrder'
    BY <1>1 DEF FlowInv, InHand, AtHome, LogInOrder, Home
  <2>3. QED BY <1>1, <2>1, <2>2 DEF FlowInv
<1>2. running \in BOOLEAN /\ pc \in {"waiting", "publishing", "flushing", "exited"} /\ txn \in Nat
  BY DEF FlowInv, FlowTypeOK
<1>3. CASE KafkaIsReady
  BY <1>1, <1>2, <1>3 DEF KafkaIsReady, FlowInv, FlushedBetween, FinishesUp
<1>4. CASE KafkaNotAvailable
  BY <1>1, <1>2, <1>4 DEF KafkaNotAvailable, FlowInv, FlushedBetween, FinishesUp
<1>5. CASE Flushed
  BY <1>1, <1>2, <1>5 DEF Flushed, FlowInv, FlushedBetween, FinishesUp
<1>6. CASE Finish
  <2>1. txn >= TxnCount
    BY <1>2, <1>6, EventFlowAssumption DEF Finish, More
  <2>2. QED BY <1>1, <1>2, <1>6, <2>1 DEF Finish, FlowInv, FlushedBetween, FinishesUp
<1>7. CASE Shutdown
  BY <1>1, <1>2, <1>7 DEF Shutdown, FlowInv, FlushedBetween, FinishesUp
<1>8. CASE \E e \in Employee, k \in Items : PublishTransaction(e, k)
  BY <1>8, PublishOK
<1>9. CASE Produce
  BY <1>9, DeliverOK, DeliveryFailsOK DEF Produce
<1>10. CASE UNCHANGED flowVars
  BY <1>1, <1>2, <1>10 DEF flowVars, FlowInv, FlushedBetween, FinishesUp
<1>11. QED
  BY <1>3, <1>4, <1>5, <1>6, <1>7, <1>8, <1>9, <1>10 DEF Generate

-----------------------------------------------------------------------------
(* The topic only grows, one event of one partition at a time.                *)
LEMMA TopicStep ==
    ASSUME FlowInv, Generate \/ Produce
    PROVE  log' = log \/ \E i \in queued : Deliver(i)
BY DEF Generate, Produce, KafkaIsReady, KafkaNotAvailable, Flushed, Finish, Shutdown,
       PublishTransaction, DeliveryFails

LEMMA TopicLonger ==
    ASSUME FlowInv, Generate \/ Produce \/ UNCHANGED flowVars
    PROVE  \A p \in Partition : DOMAIN log[p] \subseteq DOMAIN log'[p]
<1>1. \A p \in Partition : log[p] \in Seq(Event)
  BY DEF FlowInv, FlowTypeOK
<1>2. CASE log' = log
  BY <1>2
<1>3. ASSUME NEW i \in queued, Deliver(i)
      PROVE  \A p \in Partition : DOMAIN log[p] \subseteq DOMAIN log'[p]
  <2>1. \A p \in Partition : log'[p] \in Seq(Event)
    BY <1>3, TopicGrows
  <2>2. \A p \in Partition : Len(log[p]) \in Nat /\ Len(log'[p]) \in Nat /\ Len(log[p]) <= Len(log'[p])
    BY <1>3, TopicGrows
  <2>3. QED BY <1>1, <2>1, <2>2
<1>4. QED BY <1>2, <1>3, TopicStep DEF flowVars

LEMMA ReadOK ==
    ASSUME IInv, UNCHANGED flowVars, Read
    PROVE  TypeOK' /\ ReadInOrder'
<1>1. log' = log /\ FlowTypeOK'
  BY DEF IInv, FlowInv, FlowTypeOK, flowVars
<1>2. ASSUME NEW p \in Partition, NEW o \in DOMAIN log[p], NEW S \in SUBSET Plugin,
             Delivery!Settle(p, o, S)
      PROVE  TypeOK' /\ ReadInOrder'
  <2>1. /\ \A e \in 1..(o - 1) : Delivery!FullySettled(p, e)
        /\ settled' = settled \cup {<<p, o, q>> : q \in S}
        /\ acked' = acked
    BY <1>2 DEF Delivery!Settle
  <2>2. o \in Nat \ {0}
    BY <1>2 DEF IInv, FlowInv, FlowTypeOK
  <2>3. TypeOK'
    BY <1>1, <2>1, <2>2 DEF IInv, TypeOK
  <2>4. ASSUME NEW r \in Partition, NEW a, Delivery!FullySettled(r, a)
        PROVE  Delivery!FullySettled(r, a)'
    BY <2>1, <2>4 DEF Delivery!FullySettled
  <2>5. ASSUME NEW r \in Partition, NEW b \in Nat \ {0}, NEW q \in Plugin, <<r, b, q>> \in settled'
        PROVE  b \in DOMAIN log'[r] /\ \A a \in 1..(b - 1) : Delivery!FullySettled(r, a)'
    <3>1. CASE <<r, b, q>> \in settled
      BY <1>1, <2>4, <2>5, <3>1 DEF IInv, ReadInOrder
    <3>2. CASE r = p /\ b = o
      BY <1>1, <2>1, <2>4, <3>2
    <3>3. QED BY <2>1, <2>5, <3>1, <3>2
  <2>6. QED BY <2>3, <2>5 DEF ReadInOrder
<1>3. CASE Delivery!Acknowledge
  <2>1. settled' = settled /\ acked' \in [Partition -> Nat]
    <3>1. settled' = settled
      BY <1>3 DEF Delivery!Acknowledge
    <3>2. \A p \in Partition : Len(log[p]) \in Nat
      BY DEF IInv, FlowInv, FlowTypeOK
    <3>3. UNION {0..[r \in Partition |-> Len(log[r])][p] : p \in Partition} \subseteq Nat
      BY <3>2
    <3>4. acked' \in [Partition -> UNION {0..[r \in Partition |-> Len(log[r])][p] : p \in Partition}]
      BY <1>3 DEF Delivery!Acknowledge
    <3>5. QED BY <3>1, <3>3, <3>4
  <2>2. TypeOK'
    BY <1>1, <2>1 DEF IInv, TypeOK
  <2>3. ReadInOrder'
    BY <1>1, <2>1 DEF IInv, ReadInOrder, Delivery!FullySettled
  <2>4. QED BY <2>2, <2>3
<1>4. QED BY <1>2, <1>3 DEF Read

LEMMA NextOK == ASSUME IInv, [Next]_vars PROVE IInv'
<1>1. Generate \/ Produce \/ UNCHANGED flowVars
  BY DEF Next, vars
<1>2. FlowInv'
  BY <1>1, FlowStepOK DEF IInv
<1>3. CASE UNCHANGED readVars
  <2>1. TypeOK'
    BY <1>2, <1>3 DEF IInv, FlowInv, TypeOK, readVars
  <2>2. \A p \in Partition : DOMAIN log[p] \subseteq DOMAIN log'[p]
    BY <1>1, TopicLonger DEF IInv
  <2>3. ReadInOrder'
    BY <1>3, <2>2 DEF IInv, ReadInOrder, Delivery!FullySettled, readVars
  <2>4. QED BY <1>2, <2>1, <2>3 DEF IInv
<1>4. CASE UNCHANGED flowVars /\ Read
  BY <1>2, <1>4, ReadOK DEF IInv
<1>5. QED BY <1>3, <1>4 DEF Next, vars

(* The inductive invariant of the pipeline: of each partition, what is settled,*)
(* what is left, and what is still queued for it are in the order of events.py.*)
THEOREM FlowInvariant == Spec => []IInv
<1>1. Init => IInv
  BY InitOK
<1>2. IInv /\ [Next]_vars => IInv'
  BY NextOK
<1>3. QED BY <1>1, <1>2, PTL DEF Spec

(* README.md:189, "Transaction ID as partition key": no plugin is done with an *)
(* event that carries a transaction's id before all plugins are done with the *)
(* earlier ones on the topic, whatever of the transaction is not delivered and *)
(* however the partitions are interleaved.                                   *)
THEOREM TransactionIdKeepsOrder == Spec => []KeyedEventsInOrder
<1>1. ASSUME IInv PROVE KeyedEventsInOrder
  <2> SUFFICES ASSUME NEW p \in Partition, NEW r \in Partition,
                      NEW a \in DOMAIN log[p], NEW b \in DOMAIN log[r],
                      Earlier(log[p][a], log[r][b]),
                      HasTransactionId(log[p][a]), HasTransactionId(log[r][b]),
                      NEW q \in Plugin, <<r, b, q>> \in settled
               PROVE  Delivery!FullySettled(p, a)
    BY DEF KeyedEventsInOrder, InTurn
  <2>1. p = r
    BY <1>1 DEF IInv, FlowInv, AtHome, Home, Key, Earlier
  <2>2. a \in Nat \ {0} /\ b \in Nat \ {0}
    BY <1>1 DEF IInv, FlowInv, FlowTypeOK
  <2>3. log[p][a].place \in Nat /\ log[r][b].place \in Nat
    BY <1>1, ElementsAreEvents DEF IInv, Event
  <2>4. a < b
    <3>1. b < a => log[r][b].place < log[p][a].place
      BY <1>1, <2>1 DEF IInv, FlowInv, LogInOrder, Earlier
    <3>2. QED BY <2>1, <2>2, <2>3, <3>1 DEF Earlier
  <2>5. QED BY <1>1, <2>1, <2>2, <2>4 DEF IInv, ReadInOrder
<1>2. QED BY <1>1, FlowInvariant, PTL

(* main.py:25, "finishing up": the generator exits with an empty queue and    *)
(* with no burst cut short, whenever SIGTERM or SIGINT comes.                 *)
THEOREM GeneratorFinishesUp == Spec => []FinishesUp
<1>1. IInv => FinishesUp
  BY DEF IInv, FlowInv, FlushedBetween
<1>2. QED BY <1>1, FlowInvariant, PTL
=============================================================================
