------------------------------ MODULE Pipeline ------------------------------
(***************************************************************************)
(* The way of an event from the generator to the plugins: the topic that       *)
(* EventFlow fills is read by a consumer of which only its promise is known,   *)
(* OrderedDelivery.  ConsumerNode implements that promise; so what holds here  *)
(* holds of the Node.js consumer behind the generator, whatever crashes,       *)
(* redeliveries, retries and dead letters the one, and failed deliveries the   *)
(* other has.                                                                *)
(***************************************************************************)
EXTENDS EventFlow

CONSTANT Plugin

VARIABLES
    settled,  \* <<partition, offset, plugin>>: the plugin is done with the event
    acked     \* per partition, the prefix that will not be delivered again

readVars == <<settled, acked>>
vars == <<flowVars, readVars>>

Delivery == INSTANCE OrderedDelivery WITH produced <- [p \in Partition |-> Len(log[p])]

TypeOK ==
    /\ FlowTypeOK
    /\ settled \subseteq Partition \X (Nat \ {0}) \X Plugin
    /\ acked \in [Partition -> Nat]

Init ==
    /\ FlowInit
    /\ settled = {}
    /\ acked = [p \in Partition |-> 0]

Read ==
    \/ \E p \in Partition : \E o \in DOMAIN log[p], S \in SUBSET Plugin : Delivery!Settle(p, o, S)
    \/ Delivery!Acknowledge

Next ==
    \/ UNCHANGED readVars /\ (Generate \/ Produce)
    \/ UNCHANGED flowVars /\ Read

Spec == Init /\ [][Next]_vars

-----------------------------------------------------------------------------
(* Properties                                                                *)

(* f comes later in the transaction of e.                                    *)
Earlier(e, f) == e.txn = f.txn /\ e.place < f.place

(* No plugin is done with b on r before all are done with a on p.             *)
InTurn(p, a, r, b) ==
    (\E q \in Plugin : <<r, b, q>> \in settled) => Delivery!FullySettled(p, a)

(* README.md:103: "All events within a transaction share the same              *)
(* `transaction_id` as the Kafka partition key, guaranteeing ordering per      *)
(* entity."  The plugins then handle the seven kinds of events of a           *)
(* transaction in the order of the table above that sentence.                 *)
TransactionsInOrder ==
    \A p, r \in Partition : \A a \in DOMAIN log[p], b \in DOMAIN log[r] :
        Earlier(log[p][a], log[r][b]) => InTurn(p, a, r, b)

(* What the keys do guarantee: so it is for the events that carry the          *)
(* transaction_id, between a transaction's start and its payment.            *)
KeyedEventsInOrder ==
    \A p, r \in Partition : \A a \in DOMAIN log[p], b \in DOMAIN log[r] :
        /\ Earlier(log[p][a], log[r][b])
        /\ HasTransactionId(log[p][a]) /\ HasTransactionId(log[r][b])
        => InTurn(p, a, r, b)

(* generator/main.py:26, "finishing up": whatever is signalled and whenever,   *)
(* the generator exits with every event it made up delivered or reported as   *)
(* failed, and with a burst it began at its end.                              *)
FinishesUp ==
    pc = "exited" => queued = {} /\ (txn = 0 \/ txn >= TxnCount)
=============================================================================
