---------------------------- MODULE PosTerminal ----------------------------
(***************************************************************************)
(* The POS terminal of the dashboard (PosTerminal.jsx), the state it keeps in *)
(* PosTerminalContext and the rules the Rules tab changes under it, over the  *)
(* routes of the API.  A handler sets loading, which disables the terminal's *)
(* buttons, posts one request, and goes on when it is answered, refused or   *)
(* given up after 8 seconds: call # NoCall is the loading flag.  The Rules   *)
(* tab and Sign Out are there all the time.                                  *)
(***************************************************************************)
EXTENDS EventRoutes, FiniteSets

CONSTANTS
    Price,           \* CATALOG: the price of an item, in cents
    AgeRestricted,   \* CATALOG: the age-restricted items
    Recommends,      \* RECOMMENDATION_RULES
    Ages,            \* bound: the ages a clerk enters and a rule asks for
    Thresholds,      \* bound: the thresholds typed into the Rules tab
    Toggled,         \* bound: the rules that get switched on or off
    PayMethods,      \* the methods besides "card" that the clerk tries
    MaxCart,         \* bound: items in a cart
    MaxTrouble,      \* bound: requests refused or given up
    MaxRuleChanges   \* bound: changes in the Rules tab

ASSUME PosTerminalAssumption ==
    /\ Price \in [Item -> Nat]
    /\ AgeRestricted \subseteq Item
    /\ Recommends \in [Item -> SUBSET Item]
    /\ Ages \subseteq Nat
    /\ Toggled \subseteq {"age", "recommender", "lookup", "fraud"}
    /\ Thresholds \subseteq Nat
    /\ MaxTrouble \in Nat
    /\ MaxRuleChanges \in Nat

VARIABLES
    step,         \* 0 start, 1 customer, 2 items, 3 payment, 4 receipt
    txnId,        \* the transaction in hand, 0 for null
    cart,         \* the items answered so far
    totals,       \* the total shown with the Pay button, 0 for null
    receipt,      \* the receipt shown, 0 for null
    feed,         \* the Live Event Feed: ids of events, newest first
    payMethod,
    rules,        \* the rules as the Rules tab shows them
    recommended,  \* the add-ons suggested
    itemCounts,   \* items counted by the fraud rule
    trouble,      \* requests that were refused or given up
    ruleChanges,
    watched       \* history: the fraud rule is on, as it was at the start

saleVars == <<step, txnId, cart, totals, receipt, feed, payMethod>>
localVars == <<recommended, itemCounts>>
ruleVars == <<rules, ruleChanges>>
vars == <<apiVars, saleVars, localVars, ruleVars, trouble, watched>>

Rules ==
    [ age : BOOLEAN, minAge : Nat, recommender : BOOLEAN, lookup : BOOLEAN,
      fraud : BOOLEAN, threshold : Nat ]

DefaultRules ==
    [ age |-> FALSE, minAge |-> 21, recommender |-> FALSE, lookup |-> TRUE,
      fraud |-> FALSE, threshold |-> 15 ]

(* A handler goes on with the rules it was rendered with.                     *)
Call == [body : Body, id : Nat, seen : Rules]

NoCounts == [i \in Item |-> 0]

TypeOK ==
    /\ ApiTypeOK
    /\ call \in Call \cup {NoCall}
    /\ step \in 0..4
    /\ txnId \in Nat
    /\ cart \in Seq(Item)
    /\ totals \in Nat
    /\ receipt \in Nat
    /\ feed \in Seq(Nat)
    /\ payMethod \in PayMethods \cup {"card"}
    /\ rules \in Rules
    /\ recommended \subseteq Item
    /\ itemCounts \in [Item -> Nat]
    /\ trouble \in Nat
    /\ ruleChanges \in Nat
    /\ watched \in BOOLEAN

(* Variant: a reset keeps the feed.                                          *)
FreshSaleOldFeed ==
    /\ step' = 0
    /\ txnId' = 0
    /\ cart' = <<>>
    /\ totals' = 0
    /\ receipt' = 0
    /\ payMethod' = "card"
    /\ UNCHANGED feed

(* Variant: a reset keeps the cart.                                          *)
FreshSaleOldCart ==
    /\ step' = 0
    /\ txnId' = 0
    /\ totals' = 0
    /\ receipt' = 0
    /\ feed' = <<>>
    /\ payMethod' = "card"
    /\ UNCHANGED cart

(* resetTransaction of the provider, and its state when it mounts.            *)
FreshSale ==
    /\ step' = 0
    /\ txnId' = 0
    /\ cart' = <<>>
    /\ totals' = 0
    /\ receipt' = 0
    /\ feed' = <<>>
    /\ payMethod' = "card"

Init ==
    /\ ApiInit
    /\ step = 0
    /\ txnId = 0
    /\ cart = <<>>
    /\ totals = 0
    /\ receipt = 0
    /\ feed = <<>>
    /\ payMethod = "card"
    /\ rules = DefaultRules
    /\ recommended = {}
    /\ itemCounts = NoCounts
    /\ trouble = 0
    /\ ruleChanges = 0
    /\ watched = FALSE

-----------------------------------------------------------------------------
(* Prices: what the API makes of the sum of the lines.                       *)

Subtotal(c) == FoldLeft(LAMBDA sum, i : sum + Price[i], 0, c)

(* tax_rate 0.08, rounded to cents.                                          *)
Total(subtotal) == subtotal + (8 * subtotal + 50) \div 100

CartCount(i) == Cardinality({k \in DOMAIN cart : cart[k] = i})

-----------------------------------------------------------------------------
(* The handlers up to their await.                                           *)

Post(route, item, n) ==
    /\ call = NoCall
    /\ Len(published) + Len(late) < MaxEvents
    /\ call' = [ body |-> [route |-> route, txn |-> txnId, item |-> item, n |-> n],
                 id   |-> 0,
                 seen |-> rules ]
    /\ UNCHANGED <<late, published, queued, brokerUp, lapses,
                   saleVars, localVars, ruleVars, trouble, watched>>

HandleStart == step = 0 /\ Post("start", NoItem, 0)

HandleCustomer == step = 1 /\ Post("customer", NoItem, 0)

HandleCustomerLookup == step = 1 /\ rules.lookup /\ Post("lookup", NoItem, 0)

(* The clerk enters the customer's age when the rule asks for it; an empty    *)
(* minimum compares as 0.                                                    *)
HandleAddItem(i) ==
    /\ step = 2
    /\ Len(cart) < MaxCart
    /\ rules.age /\ i \in AgeRestricted => \E age \in Ages : age >= rules.minAge
    /\ Post("item", i, 0)

(* Variant: the button is there with an empty cart.                          *)
HandleSubtotalAnyCart == step = 2 /\ Post("subtotal", NoItem, Subtotal(cart))

HandleSubtotal ==
    /\ step = 2
    /\ cart # <<>>
    /\ Post("subtotal", NoItem, Subtotal(cart))

HandlePay == step = 3 /\ Post("pay", NoItem, totals)

SetPayMethod(m) ==
    /\ step = 3
    /\ payMethod' = m
    /\ UNCHANGED <<apiVars, step, txnId, cart, totals, receipt, feed,
                   localVars, ruleVars, trouble, watched>>

-----------------------------------------------------------------------------
(* The handlers after their await, when the request was answered.            *)

AddEvent == feed' = <<call.id>> \o feed

Done == call' = NoCall /\ UNCHANGED <<late, published, queued, brokerUp, lapses>>

StartAnswered ==
    /\ Answered("start")
    /\ AddEvent
    /\ txnId' = published[call.id].txn
    /\ step' = 1
    /\ watched' = rules.fraud
    /\ Done
    /\ UNCHANGED <<cart, totals, receipt, payMethod, localVars, ruleVars, trouble>>

CustomerAnswered ==
    /\ Answered("customer") \/ Answered("lookup")
    /\ AddEvent
    /\ step' = 2
    /\ Done
    /\ UNCHANGED <<txnId, cart, totals, receipt, payMethod, localVars, ruleVars,
                   trouble, watched>>

(* The last statements of handleAddItem's try block.                         *)
Recommend(i) ==
    recommended' = IF call.seen.recommender THEN Recommends[i] ELSE {}

Suspicious(i) == call.seen.fraud /\ itemCounts[i] + 1 > call.seen.threshold

(* A count above the threshold asks the clerk and posts the alert before the *)
(* handler goes on.                                                          *)
ItemAnswered ==
    /\ Answered("item")
    /\ AddEvent
    /\ LET i == call.body.item IN
       /\ cart' = Append(cart, i)
       /\ itemCounts' = IF call.seen.fraud THEN [itemCounts EXCEPT ![i] = @ + 1] ELSE itemCounts
       /\ IF Suspicious(i)
          THEN /\ call' = [call EXCEPT !.body.route = "fraud", !.body.n = itemCounts[i] + 1, !.id = 0]
               /\ UNCHANGED <<late, published, queued, brokerUp, lapses, recommended>>
          ELSE Recommend(i) /\ Done
    /\ UNCHANGED <<step, txnId, totals, receipt, payMethod, ruleVars, trouble, watched>>

FraudAnswered ==
    /\ Answered("fraud")
    /\ AddEvent
    /\ Recommend(call.body.item)
    /\ Done
    /\ UNCHANGED <<step, txnId, cart, totals, receipt, payMethod, itemCounts, ruleVars,
                   trouble, watched>>

SubtotalAnswered ==
    /\ Answered("subtotal")
    /\ AddEvent
    /\ totals' = Total(call.body.n)
    /\ step' = 3
    /\ Done
    /\ UNCHANGED <<txnId, cart, receipt, payMethod, localVars, ruleVars, trouble, watched>>

PayAnswered ==
    /\ Answered("pay")
    /\ AddEvent
    /\ receipt' = call.id
    /\ step' = 4
    /\ Done
    /\ UNCHANGED <<txnId, cart, totals, payMethod, localVars, ruleVars, trouble, watched>>

-----------------------------------------------------------------------------
(* Variant: an item is counted before its request is answered.               *)
CatchCounted ==
    /\ call # NoCall
    /\ trouble < MaxTrouble
    /\ trouble' = trouble + 1
    /\ call' = NoCall
    /\ IF call.body.route = "fraud"
       THEN Recommend(call.body.item)
       ELSE UNCHANGED recommended
    /\ itemCounts' = IF call.body.route = "item" /\ call.seen.fraud
                     THEN [itemCounts EXCEPT ![call.body.item] = @ + 1] ELSE itemCounts
    /\ UNCHANGED <<published, queued, brokerUp, lapses, saleVars, ruleVars, watched>>

(* Variant: a failed fraud alert ends the handler.                           *)
CatchEndsHandler ==
    /\ call # NoCall
    /\ trouble < MaxTrouble
    /\ trouble' = trouble + 1
    /\ call' = NoCall
    /\ UNCHANGED <<published, queued, brokerUp, lapses, saleVars,
                   localVars, ruleVars, watched>>

(* The catch blocks: an alert, and the step stays; the item of a failed fraud *)
(* alert is in the cart all the same.                                        *)

Catch ==
    /\ call # NoCall
    /\ trouble < MaxTrouble
    /\ trouble' = trouble + 1
    /\ call' = NoCall
    /\ IF call.body.route = "fraud"
       THEN Recommend(call.body.item)
       ELSE UNCHANGED recommended
    /\ UNCHANGED <<published, queued, brokerUp, lapses, saleVars,
                   itemCounts, ruleVars, watched>>

(* The request does not reach the API, or the API refuses it.                *)
CallFails == call # NoCall /\ call.id = 0 /\ Catch /\ UNCHANGED late

Abandoned == IF call # NoCall /\ call.id = 0 THEN Append(late, call.body) ELSE late

(* 8 seconds are over; the API knows nothing of that.                        *)
GiveUp == Catch /\ late' = Abandoned

-----------------------------------------------------------------------------
(* Variant: the component's own state is not reset.                          *)
HandleResetContextOnly ==
    /\ step = 4
    /\ FreshSale
    /\ watched' = FALSE
    /\ UNCHANGED <<apiVars, localVars, ruleVars, trouble>>

HandleReset ==
    /\ step = 4
    /\ FreshSale
    /\ recommended' = {}
    /\ itemCounts' = NoCounts
    /\ watched' = FALSE
    /\ UNCHANGED <<apiVars, ruleVars, trouble>>

(* The user is signed out: the dashboard and the provider unmount, and the    *)
(* next sign-in finds everything at its default; a request on its way counts  *)
(* as given up.                                                              *)
SignOut ==
    /\ call # NoCall => trouble < MaxTrouble
    /\ trouble' = IF call = NoCall THEN trouble ELSE trouble + 1
    /\ FreshSale
    /\ recommended' = {}
    /\ itemCounts' = NoCounts
    /\ rules' = DefaultRules
    /\ watched' = FALSE
    /\ call' = NoCall
    /\ late' = Abandoned
    /\ UNCHANGED <<published, queued, brokerUp, lapses, ruleChanges>>

(* The handlers of the Rules tab.                                            *)
ChangeRules(new) ==
    /\ ruleChanges < MaxRuleChanges
    /\ ruleChanges' = ruleChanges + 1
    /\ rules' = new
    /\ watched' = (watched /\ new.fraud /\ new.threshold = rules.threshold)
    /\ UNCHANGED <<apiVars, saleVars, localVars, trouble>>

HandleToggle(rule) == ChangeRules([rules EXCEPT ![rule] = ~@])

HandleMinAgeChange(age) == ChangeRules([rules EXCEPT !.minAge = age])

HandleThresholdChange(t) == ChangeRules([rules EXCEPT !.threshold = t])

-----------------------------------------------------------------------------
Clerk ==
    \/ HandleStart \/ HandleCustomer \/ HandleCustomerLookup
    \/ \E i \in Item : HandleAddItem(i)
    \/ HandleSubtotal \/ HandlePay \/ HandleReset \/ SignOut
    \/ \E m \in PayMethods \cup {"card"} : SetPayMethod(m)
    \/ \E rule \in Toggled : HandleToggle(rule)
    \/ \E age \in Ages : HandleMinAgeChange(age)
    \/ \E t \in Thresholds : HandleThresholdChange(t)

Browser ==
    \/ StartAnswered \/ CustomerAnswered \/ ItemAnswered \/ FraudAnswered
    \/ SubtotalAnswered \/ PayAnswered
    \/ CallFails \/ GiveUp

Api == ApiNext /\ UNCHANGED <<saleVars, localVars, ruleVars, trouble, watched>>

Next == Clerk \/ Browser \/ Api

Spec == Init /\ [][Next]_vars

-----------------------------------------------------------------------------
(* Properties                                                                *)

OwnEvents == {k \in DOMAIN published : published[k].txn = txnId}

(* The event each kind of event takes for granted.                           *)
Before ==
    [ k \in {"customer.identified", "item.added", "fraud.alerted",
             "transaction.subtotal", "payment.completed"} |->
        CASE k = "customer.identified"  -> "transaction.started"
          [] k = "item.added"           -> "customer.identified"
          [] k = "fraud.alerted"        -> "item.added"
          [] k = "transaction.subtotal" -> "item.added"
          [] k = "payment.completed"    -> "transaction.subtotal" ]

Preceded(type, txn, k) ==
    type \in DOMAIN Before =>
        \E j \in 1..(k - 1) : published[j].txn = txn /\ published[j].type = Before[type]

(* No event of a transaction goes out unless one of the kind it builds on has   *)
(* gone out for that transaction, although requests the terminal has given up  *)
(* are handled late and repeated ones twice (event_routes.py never looks at    *)
(* the transaction).  That is less than the order Start -> Customer -> Items -> *)
(* Subtotal -> Pay of docs/architecture.md: a late item.added may come after   *)
(* the payment, and a late payment after another one.                          *)
StepsArePrepared ==
    \A k \in DOMAIN published : Preceded(published[k].type, published[k].txn, k)

(* As long as no request is refused or given up, the feed shows exactly the    *)
(* events that were published for the transaction in hand, newest first: none *)
(* twice, none missing, none of another transaction.                          *)
FeedIsFaithful ==
    trouble = 0 /\ call = NoCall =>
        /\ ToSet(feed) = OwnEvents
        /\ \A j, k \in DOMAIN feed : j < k => feed[j] > feed[k]

(* Whatever is charged is the total of the cart on the screen, and every line  *)
(* of that cart has an item.added event of its own, even if requests were      *)
(* repeated and rules changed in between.                                    *)
ChargedForTheCart ==
    /\ step >= 3 => totals = Total(Subtotal(cart))
    /\ \A k \in OwnEvents :
         published[k].type = "payment.completed" => published[k].n = Total(Subtotal(cart))
    /\ \A i \in Item :
         CartCount(i) <= Cardinality({k \in OwnEvents :
                            published[k].type = "item.added" /\ published[k].item = i})

(* The receipt page says that all 5 events were published to Kafka.  That is   *)
(* so as long as the broker never keeps the producer waiting: the five kinds   *)
(* are on the topic when the page is shown.                                   *)
ReceiptIsBacked ==
    step = 4 /\ lapses = 0 =>
        \A r \in {"start", "customer", "item", "subtotal", "pay"} :
            \E k \in OwnEvents \ queued : published[k].type = EventType[r]

(* "The POS tracks how many times a single item is added in a transaction. If  *)
(* the count exceeds the configured threshold" an alert is published           *)
(* (RulesPanel.jsx): with the rule left alone since the start of the           *)
(* transaction and no request lost, there is an alert for each item above the  *)
(* threshold and for no other; counts of one transaction do not reach into     *)
(* the next.                                                                 *)
SpikesAreAlerted ==
    /\ \A i \in Item : itemCounts[i] <= CartCount(i)
    /\ watched /\ trouble = 0 /\ call = NoCall =>
         \A i \in Item, n \in 1..Len(cart) :
            (n \in (rules.threshold + 1)..CartCount(i))
              <=> \E k \in OwnEvents : /\ published[k].type = "fraud.alerted"
                                      /\ published[k].item = i
                                      /\ published[k].n = n

ItemEvents(txn, i) ==
    {j \in DOMAIN published : /\ published[j].type = "item.added"
                             /\ published[j].txn = txn /\ published[j].item = i}

(* An alert never counts an item more often than its transaction has events    *)
(* of it, although the rules change while the handler waits, which goes on     *)
(* with the counts of the render it was made in, requests fail and are        *)
(* repeated, and the alert itself may go out in a later sale (RulesPanel.jsx,  *)
(* "how many times a single item is added in a transaction").                 *)
AlertsAreJustified ==
    \A k \in DOMAIN published :
        published[k].type = "fraud.alerted" =>
            published[k].n <= Cardinality(ItemEvents(published[k].txn, published[k].item))

(* The cart up to the last item whose handler has come to its suggestions: a   *)
(* new line is on the screen before its fraud alert is posted and answered.    *)
SuggestedFor == IF call # NoCall /\ call.body.route = "fraud" THEN Front(cart) ELSE cart

(* "Based on the last item added" (PosTerminal.jsx:295): the add-ons are those *)
(* of the last item in the cart, or, while the alert about that item is        *)
(* awaited, still those of the line before it; never of any other line or of  *)
(* the customer before, even if the item's alert fails.                       *)
SuggestionsFollowTheCart ==
    recommended # {} => SuggestedFor # <<>> /\ recommended = Recommends[Last(SuggestedFor)]
=============================================================================
