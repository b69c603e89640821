----------------------------- MODULE EventFlow -----------------------------
(***************************************************************************)
(* The event generator (generator/main.py, events.py) and the pos-events      *)
(* topic it fills.  The generator makes up a transaction, queues its events   *)
(* with the producer under their keys, and flushes before it goes on to the   *)
(* next.  The broker keeps the order of one partition.                        *)
(***************************************************************************)
EXTENDS Naturals, Sequences

CONSTANTS
    Employee,        \* EMPLOYEES
    Partition,       \* of pos-events
    PartitionOf,     \* the partitioner: from keys to partitions
    TxnCount,        \* GENERATOR_TRANSACTION_COUNT
    Continuous,      \* GENERATOR_MODE is "continuous"
    Items,           \* the numbers of items of a transaction, 2 to 5
    MaxTransactions  \* bound: transactions published before somebody signals

(* transaction_ids are numbers here, in the order they are made up.           *)
TxnId == 1..MaxTransactions

ASSUME EventFlowAssumption ==
    /\ TxnCount \in Nat /\ MaxTransactions \in Nat
    /\ Items \subseteq Nat
    /\ PartitionOf \in [TxnId \cup Employee -> Partition]

VARIABLES
    pc,       \* waiting: in wait_for_kafka; publishing; flushing; exited
    running,  \* cleared by SIGTERM and SIGINT
    txn,      \* the transaction in hand
    events,   \* its events, in the order they were made up
    queued,   \* the places of those still in the producer's queue
    log       \* the partitions

flowVars == <<pc, running, txn, events, queued, log>>

Type ==
    { "employee.login", "transaction.started", "customer.identified", "item.added",
      "transaction.subtotal", "payment.completed", "employee.logout" }

Event == [type : Type, txn : TxnId, employee : Employee, place : Nat]

FlowTypeOK ==
    /\ pc \in {"waiting", "publishing", "flushing", "exited"}
    /\ running \in BOOLEAN
    /\ txn \in Nat
    /\ events \in Seq(Event)
    /\ queued \subseteq DOMAIN events
    /\ log \in [Partition -> Seq(Event)]

FlowInit ==
    /\ pc = "waiting"
    /\ running = TRUE
    /\ txn = 0
    /\ events = <<>>
    /\ queued = {}
    /\ log = [p \in Partition |-> <<>>]

-----------------------------------------------------------------------------
(* generate_transaction_events(): k items between the fixed events.           *)
TypeAt(i, k) ==
    CASE i = 1     -> "employee.login"
      [] i = 2     -> "transaction.started"
      [] i = 3     -> "customer.identified"
      [] i = k + 4 -> "transaction.subtotal"
      [] i = k + 5 -> "payment.completed"
      [] i = k + 6 -> "employee.logout"
      [] OTHER     -> "item.added"

GenerateTransactionEvents(t, e, k) ==
    [i \in 1..(k + 6) |-> [type |-> TypeAt(i, k), txn |-> t, employee |-> e, place |-> i]]

HasTransactionId(event) == event.type \notin {"employee.login", "employee.logout"}

(* Variant: the employee_id first, which transaction.started has as well.     *)
KeyEmployeeFirst(event) ==
    IF event.type = "transaction.started" \/ ~HasTransactionId(event)
    THEN event.employee ELSE event.txn

(* event.get("transaction_id") or event.get("employee_id", txn_id)            *)
Key(event) == IF HasTransactionId(event) THEN event.txn ELSE event.employee

Home(event) == PartitionOf[Key(event)]

-----------------------------------------------------------------------------
(* wait_for_kafka(): 30 attempts, then the process exits.                    *)
KafkaIsReady ==
    /\ pc = "waiting"
    /\ pc' = "publishing"
    /\ UNCHANGED <<running, txn, events, queued, log>>

KafkaNotAvailable ==
    /\ pc = "waiting"
    /\ pc' = "exited"
    /\ UNCHANGED <<running, txn, events, queued, log>>

(* The burst runs to its end whatever was signalled; the loop of continuous   *)
(* mode looks at running each time.                                          *)
More == txn < TxnCount \/ (Continuous /\ running)

PublishTransaction(e, k) ==
    /\ pc = "publishing"
    /\ More
    /\ txn < MaxTransactions
    /\ txn' = txn + 1
    /\ events' = GenerateTransactionEvents(txn + 1, e, k)
    /\ queued' = 1..(k + 6)
    /\ pc' = "flushing"
    /\ UNCHANGED <<running, log>>

(* Variant: flush(timeout=...), as the API has it.                           *)
FlushedInTime ==
    /\ pc = "flushing"
    /\ pc' = "publishing"
    /\ UNCHANGED <<running, txn, events, queued, log>>

(* producer.flush() without a timeout.                                       *)
Flushed ==
    /\ pc = "flushing"
    /\ queued = {}
    /\ pc' = "publishing"
    /\ UNCHANGED <<running, txn, events, queued, log>>

Finish ==
    /\ pc = "publishing"
    /\ ~More
    /\ pc' = "exited"
    /\ UNCHANGED <<running, txn, events, queued, log>>

Shutdown ==
    /\ running
    /\ running' = FALSE
    /\ UNCHANGED <<pc, txn, events, queued, log>>

-----------------------------------------------------------------------------
(* The producer's queue of one partition goes out in order; an event that     *)
(* expires is reported to delivery_report, which only logs it.               *)
Foremost(i) == \A j \in queued : Home(events[j]) = Home(events[i]) => i <= j

Deliver(i) ==
    /\ Foremost(i)
    /\ queued' = queued \ {i}
    /\ log' = [log EXCEPT ![Home(events[i])] = Append(@, events[i])]
    /\ UNCHANGED <<pc, running, txn, events>>

DeliveryFails(i) ==
    /\ Foremost(i)
    /\ queued' = queued \ {i}
    /\ UNCHANGED <<pc, running, txn, events, log>>

-----------------------------------------------------------------------------
Generate ==
    \/ KafkaIsReady \/ KafkaNotAvailable \/ Flushed \/ Finish \/ Shutdown
    \/ \E e \in Employee, k \in Items : PublishTransaction(e, k)

Produce == \E i \in queued : Deliver(i) \/ DeliveryFails(i)
=============================================================================
