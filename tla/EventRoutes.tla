---------------------------- MODULE EventRoutes ----------------------------
(***************************************************************************)
(* The /pos/transaction routes of the management API (event_routes.py) and  *)
(* the producer they share.  Every route builds one event, hands it to the   *)
(* producer, waits at most 5 seconds for the queue to empty and answers 200   *)
(* either way.  A browser awaits at most one request; one it has given up is *)
(* still worked on by the API, at any later time.                            *)
(***************************************************************************)
EXTENDS Naturals, Sequences, SequencesExt

CONSTANTS
    Item,       \* the catalog, by SKU
    NoItem,     \* stands for the SKU of an event about no item
    MaxEvents,  \* bound: requests that are or become events
    MaxLapses   \* bound: times the broker stops taking messages

ASSUME EventRoutesAssumption ==
    /\ NoItem \notin Item
    /\ MaxEvents \in Nat
    /\ MaxLapses \in Nat

VARIABLES
    call,       \* the request the terminal awaits, or NoCall; id is the place of its
                \* event among the published ones, 0 until there is one
    late,       \* requests it has given up and the API has not handled yet
    published,  \* the events handed to the producer, in that order
    queued,     \* those of them still in the producer's queue
    brokerUp,   \* the broker takes messages
    lapses      \* how often it stopped doing so

apiVars == <<call, late, published, queued, brokerUp, lapses>>

Route == {"start", "customer", "lookup", "item", "subtotal", "pay", "fraud"}

(* Nothing is awaited.                                                       *)
NoCall == [id |-> 0]

(* What a request carries of txnId, the SKU, and an amount or a count.       *)
Body == [route : Route, txn : Nat, item : Item \cup {NoItem}, n : Nat]

EventType ==
    [ start    |-> "transaction.started",
      customer |-> "customer.identified",
      lookup   |-> "customer.identified",
      item     |-> "item.added",
      subtotal |-> "transaction.subtotal",
      pay      |-> "payment.completed",
      fraud    |-> "fraud.alerted" ]

Event == [type : {EventType[r] : r \in Route}, txn : Nat, item : Item \cup {NoItem}, n : Nat]

ApiTypeOK ==
    /\ late \in Seq(Body)
    /\ published \in Seq(Event)
    /\ queued \subseteq DOMAIN published
    /\ brokerUp \in BOOLEAN
    /\ lapses \in Nat

ApiInit ==
    /\ call = NoCall
    /\ late = <<>>
    /\ published = <<>>
    /\ queued = {}
    /\ brokerUp = TRUE
    /\ lapses = 0

-----------------------------------------------------------------------------
(* The event of a request; POST /transaction/start makes up a new id, and     *)
(* the events of one transaction are keyed by it.                            *)
EventOf(b, id) ==
    [ type |-> EventType[b.route],
      txn  |-> IF b.route = "start" THEN id ELSE b.txn,
      item |-> b.item,
      n    |-> b.n ]

(* Variant: the place of the event is one off.                               *)
PublishOffByOne(b) ==
    LET id == Len(published) + 1 IN
    /\ published' = Append(published, EventOf(b, id))
    /\ queued' = queued \cup {id + 1}

(* producer.produce()                                                        *)
Publish(b) ==
    LET id == Len(published) + 1 IN
    /\ published' = Append(published, EventOf(b, id))
    /\ queued' = queued \cup {id}

Handle ==
    /\ call # NoCall
    /\ call.id = 0
    /\ Publish(call.body)
    /\ call' = [call EXCEPT !.id = Len(published) + 1]
    /\ UNCHANGED <<late, brokerUp, lapses>>

HandleLate(i) ==
    /\ Publish(late[i])
    /\ late' = RemoveAt(late, i)
    /\ UNCHANGED <<call, brokerUp, lapses>>

(* Variant: the route answers without a flush.                               *)
AnsweredAtOnce(r) ==
    /\ call # NoCall
    /\ call.body.route = r
    /\ call.id > 0

(* producer.flush(timeout=5) is over: the queue is empty, or the broker has   *)
(* not taken everything in 5 seconds and nobody looks at what is left.       *)
Answered(r) ==
    /\ call # NoCall
    /\ call.body.route = r
    /\ call.id > 0
    /\ queued = {} \/ ~brokerUp

(* The events of one key are on one partition and leave the queue in order;   *)
(* the oldest is also the first to expire.                                   *)
Oldest(id) == \A k \in queued : published[k].txn = published[id].txn => id <= k

Deliver(id) ==
    /\ brokerUp
    /\ Oldest(id)
    /\ queued' = queued \ {id}
    /\ UNCHANGED <<call, late, published, brokerUp, lapses>>

(* message.timeout.ms: nobody is told, and the event never gets to the topic. *)
Expire(id) ==
    /\ ~brokerUp
    /\ \A k \in queued : id <= k
    /\ queued' = queued \ {id}
    /\ UNCHANGED <<call, late, published, brokerUp, lapses>>

(* A lapse that no event meets makes no difference.                          *)
BrokerLapses ==
    /\ brokerUp
    /\ queued # {}
    /\ lapses < MaxLapses
    /\ brokerUp' = FALSE
    /\ lapses' = lapses + 1
    /\ UNCHANGED <<call, late, published, queued>>

BrokerReturns ==
    /\ ~brokerUp
    /\ brokerUp' = TRUE
    /\ UNCHANGED <<call, late, published, queued, lapses>>

ApiNext ==
    \/ Handle
    \/ \E i \in DOMAIN late : HandleLate(i)
    \/ \E id \in queued : Deliver(id) \/ Expire(id)
    \/ BrokerLapses \/ BrokerReturns
=============================================================================
