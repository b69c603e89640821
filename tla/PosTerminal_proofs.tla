------------------------- MODULE PosTerminal_proofs -------------------------
(***************************************************************************)
(* Why the terminal's sales hold together, for any catalog, rules and ages,   *)
(* and however requests are given up and handled late, the broker lapses and  *)
(* the clerk signs out in the middle.                                        *)
(***************************************************************************)
EXTENDS PosTerminal, SequenceTheorems, FiniteSetTheorems, WellFoundedInduction, TLAPS

(* Induction over the natural numbers, for a set instead of a predicate.      *)
LEMMA Induction ==
    ASSUME NEW T \in SUBSET Nat, 0 \in T, \A n \in T : n + 1 \in T
    PROVE  T = Nat
<1> SUFFICES ASSUME Nat \ T # {} PROVE FALSE
  OBVIOUS
<1> DEFINE R == OpToRel(<, Nat)
<1>1. IsWellFoundedOn(R, Nat)
  BY NatLessThanWellFounded
<1>2. PICK n \in Nat \ T : \A m \in Nat \ T : <<m, n>> \notin R
  <2> HIDE DEF R
  <2>1. Nat \ T \subseteq Nat
    OBVIOUS
  <2>2. QED BY <1>1, <2>1, WFMin
<1>3. n # 0 /\ n - 1 \in Nat /\ (n - 1) + 1 = n
  OBVIOUS
<1>4. <<n - 1, n>> \in R
  BY <1>3 DEF OpToRel
<1>5. n - 1 \in T
  BY <1>2, <1>3, <1>4
<1>6. QED BY <1>3, <1>5

(* The equations of the fold over the first m places of c.                    *)
Sums(c, m, g) ==
    g = [s \in SUBSET (1..m) |-> IF s = {} THEN 0 ELSE g[s \ {Max(s)}] + Price[c[Max(s)]]]

LEMMA LargestPlace ==
    ASSUME NEW m \in Nat, NEW s \in SUBSET (1..m), m \in s
    PROVE  Max(s) = m
<1>1. \A x \in s : m >= x
  OBVIOUS
<1>2. \A y \in s : (\A x \in s : y >= x) => y = m
  <2>1. \A y \in s : y \in Nat /\ m >= y
    OBVIOUS
  <2>2. QED BY <2>1
<1>3. QED BY <1>1, <1>2 DEF Max

LEMMA SumsExist ==
    ASSUME NEW c, NEW m \in Nat
    PROVE  \E g : Sums(c, m, g)
<1> DEFINE T == {k \in Nat : \E g : Sums(c, k, g)}
<1>1. 0 \in T
  <2> DEFINE g == [s \in SUBSET (1..0) |-> 0]
  <2>1. Sums(c, 0, g)
    BY DEF Sums
  <2>2. QED BY <2>1
<1>2. ASSUME NEW k \in T PROVE k + 1 \in T
  <2>1. k \in Nat
    OBVIOUS
  <2>2. PICK g : Sums(c, k, g)
    OBVIOUS
  <2> DEFINE h == [s \in SUBSET (1..(k + 1)) |->
                     IF s \subseteq 1..k THEN g[s] ELSE g[s \ {k + 1}] + Price[c[k + 1]]]
  <2>3. ASSUME NEW s \in SUBSET (1..(k + 1))
        PROVE  h[s] = IF s = {} THEN 0 ELSE h[s \ {Max(s)}] + Price[c[Max(s)]]
    <3>1. CASE s \subseteq 1..k
      <4>1. g[s] = IF s = {} THEN 0 ELSE g[s \ {Max(s)}] + Price[c[Max(s)]]
        BY <2>2, <3>1 DEF Sums
      <4>2. s \ {Max(s)} \subseteq 1..k /\ s \ {Max(s)} \in SUBSET (1..(k + 1))
        BY <3>1
      <4>3. h[s] = g[s] /\ h[s \ {Max(s)}] = g[s \ {Max(s)}]
        BY <3>1, <4>2
      <4>4. QED BY <4>1, <4>3
    <3>2. CASE ~(s \subseteq 1..k)
      <4>1. k + 1 \in s /\ s # {}
        BY <2>1, <3>2
      <4>2. Max(s) = k + 1
        BY <2>1, <4>1, LargestPlace
      <4>3. s \ {k + 1} \subseteq 1..k /\ s \ {k + 1} \in SUBSET (1..(k + 1))
        BY <2>1
      <4>4. h[s \ {k + 1}] = g[s \ {k + 1}] /\ h[s] = g[s \ {k + 1}] + Price[c[k + 1]]
        BY <3>2, <4>3
      <4> HIDE DEF h
      <4>5. QED BY <4>1, <4>2, <4>4
    <3>3. QED BY <3>1, <3>2
  <2>4. Sums(c, k + 1, h)
    <3>1. h = [s \in SUBSET (1..(k + 1)) |-> h[s]]
      OBVIOUS
    <3> HIDE DEF h
    <3>2. QED BY <2>3, <3>1 DEF Sums
  <2> HIDE DEF h
  <2>5. QED BY <2>1, <2>4
<1>3. T = Nat
  <2> HIDE DEF T
  <2>1. T \in SUBSET Nat
    BY DEF T
  <2>2. QED BY <1>1, <1>2, <2>1, Induction
<1>4. QED BY <1>3

(* The subtotal of c is the last of its sums.                                *)
LEMMA SubtotalSums ==
    ASSUME NEW c \in Seq(Item)
    PROVE  \E g : Sums(c, Len(c), g) /\ Subtotal(c) = g[1..Len(c)]
<1> DEFINE g == CHOOSE f : Sums(c, Len(c), f)
<1>1. DOMAIN c = 1..Len(c) /\ Len(c) \in Nat
  OBVIOUS
<1>2. Sums(c, Len(c), g)
  BY <1>1, SumsExist
<1>3. Subtotal(c) = (CHOOSE f : f = [s \in SUBSET DOMAIN c |->
                        IF s = {} THEN 0 ELSE f[s \ {Max(s)}] + Price[c[Max(s)]]])[DOMAIN c]
  BY DEF Subtotal, FoldLeft, MapThenFoldSet
<1>4. Subtotal(c) = g[1..Len(c)]
  BY <1>1, <1>3 DEF Sums
<1>5. QED BY <1>2, <1>4

LEMMA SumsStep ==
    ASSUME NEW c, NEW m \in Nat, NEW g, Sums(c, m, g)
    PROVE  /\ g[1..0] = 0
           /\ \A k \in 1..m : g[1..k] = g[1..(k - 1)] + Price[c[k]]
<1>1. ASSUME NEW k \in 1..m PROVE g[1..k] = g[1..(k - 1)] + Price[c[k]]
  <2>1. k \in Nat /\ k \in 1..k /\ 1..k \in SUBSET (1..m) /\ 1..k # {} /\ (1..k) \ {k} = 1..(k - 1)
    OBVIOUS
  <2>2. Max(1..k) = k
    BY <2>1, LargestPlace
  <2>3. QED BY <2>1, <2>2 DEF Sums
<1>2. 1..0 = {} /\ {} \in SUBSET (1..m)
  OBVIOUS
<1>3. QED BY <1>1, <1>2 DEF Sums

(* PosTerminal.jsx:189, cart.reduce: a subtotal is a sum of cents, starts at   *)
(* nothing and grows with the cart by the price of the item added.            *)
LEMMA Subtotals ==
    /\ Subtotal(<<>>) = 0
    /\ \A c \in Seq(Item) : Subtotal(c) \in Nat
    /\ \A c \in Seq(Item), i \in Item : Subtotal(Append(c, i)) = Subtotal(c) + Price[i]
<1>1. ASSUME NEW c \in Seq(Item), NEW g, Sums(c, Len(c), g), NEW m \in 0..Len(c)
      PROVE  g[1..m] \in Nat
  <2> DEFINE T == {k \in Nat : k <= Len(c) => g[1..k] \in Nat}
  <2>1. 0 \in T
    BY <1>1, SumsStep
  <2>2. ASSUME NEW k \in T PROVE k + 1 \in T
    <3>1. CASE k + 1 <= Len(c)
      <4>1. k \in Nat /\ k + 1 \in 1..Len(c) /\ (k + 1) - 1 = k /\ g[1..k] \in Nat
        BY <3>1
      <4>2. c[k + 1] \in Item
        BY <4>1
      <4>3. g[1..(k + 1)] = g[1..k] + Price[c[k + 1]]
        BY <1>1, <4>1, SumsStep
      <4>4. QED BY <4>1, <4>2, <4>3, PosTerminalAssumption
    <3>2. QED BY <3>1
  <2>3. T = Nat
    <3> HIDE DEF T
    <3>1. T \in SUBSET Nat
      BY DEF T
    <3>2. QED BY <2>1, <2>2, <3>1, Induction
  <2>4. QED BY <2>3
<1>2. ASSUME NEW c \in Seq(Item) PROVE Subtotal(c) \in Nat
  <2>1. PICK g : Sums(c, Len(c), g) /\ Subtotal(c) = g[1..Len(c)]
    BY SubtotalSums
  <2>2. QED BY <1>1, <2>1
<1>3. ASSUME NEW c \in Seq(Item), NEW i \in Item PROVE Subtotal(Append(c, i)) = Subtotal(c) + Price[i]
  <2> DEFINE d == Append(c, i)
  <2>1. /\ d \in Seq(Item) /\ Len(d) = Len(c) + 1 /\ Len(c) \in Nat /\ Len(d) \in Nat
        /\ d[Len(c) + 1] = i /\ \A k \in 1..Len(c) : d[k] = c[k]
    OBVIOUS
  <2> HIDE DEF d
  <2>2. PICK g : Sums(c, Len(c), g) /\ Subtotal(c) = g[1..Len(c)]
    BY SubtotalSums
  <2>3. PICK h : Sums(d, Len(d), h) /\ Subtotal(d) = h[1..Len(d)]
    BY <2>1, SubtotalSums
  <2> DEFINE T == {k \in Nat : k <= Len(c) => h[1..k] = g[1..k]}
  <2>4. 0 \in T
    <3>1. g[1..0] = 0
      BY <2>1, <2>2, SumsStep
    <3>2. h[1..0] = 0
      BY <2>1, <2>3, SumsStep
    <3>3. QED BY <3>1, <3>2
  <2>5. ASSUME NEW k \in T PROVE k + 1 \in T
    <3>1. CASE k + 1 <= Len(c)
      <4>1. k + 1 \in 1..Len(c) /\ k + 1 \in 1..Len(d) /\ (k + 1) - 1 = k /\ h[1..k] = g[1..k]
        BY <2>1, <3>1
      <4>2. g[1..(k + 1)] = g[1..k] + Price[c[k + 1]]
        BY <2>1, <2>2, <4>1, SumsStep
      <4>3. h[1..(k + 1)] = h[1..k] + Price[d[k + 1]]
        <5>1. \A j \in 1..Len(d) : h[1..j] = h[1..(j - 1)] + Price[d[j]]
          BY <2>1, <2>3, SumsStep
        <5>2. h[1..(k + 1)] = h[1..((k + 1) - 1)] + Price[d[k + 1]]
          BY <4>1, <5>1
        <5>3. QED BY <4>1, <5>2
      <4>4. QED BY <2>1, <4>1, <4>2, <4>3
    <3>2. QED BY <3>1
  <2>6. h[1..Len(c)] = g[1..Len(c)]
    <3>1. T = Nat
      <4> HIDE DEF T
      <4>1. T \in SUBSET Nat
        BY DEF T
      <4>2. QED BY <2>4, <2>5, <4>1, Induction
    <3>2. QED BY <2>1, <3>1
  <2>7. h[1..Len(d)] = h[1..Len(c)] + Price[i]
    <3>1. Len(d) \in 1..Len(d) /\ Len(d) - 1 = Len(c)
      BY <2>1
    <3>2. QED BY <2>1, <2>3, <3>1, SumsStep
  <2>8. QED BY <2>2, <2>3, <2>6, <2>7 DEF d
<1>4. Subtotal(<<>>) = 0
  <2>1. <<>> \in Seq(Item) /\ Len(<<>>) = 0
    OBVIOUS
  <2>2. PICK g : Sums(<<>>, Len(<<>>), g) /\ Subtotal(<<>>) = g[1..0]
    BY <2>1, SubtotalSums
  <2>3. QED BY <2>1, <2>2, SumsStep
<1>5. QED BY <1>2, <1>3, <1>4

-----------------------------------------------------------------------------
LEMMA TotalType == ASSUME NEW n \in Nat PROVE Total(n) \in Nat
BY DEF Total

-----------------------------------------------------------------------------
(* The variables' types, as far as the steps depend on them.                  *)
ApiShape ==
    /\ call \in Call \cup {NoCall}
    /\ late \in Seq(Body)
    /\ published \in Seq(Event)
    /\ queued \subseteq DOMAIN published
    /\ lapses \in Nat
    /\ lapses = 0 => brokerUp

SaleShape ==
    /\ step \in 0..4
    /\ txnId \in Nat
    /\ cart \in Seq(Item)
    /\ totals \in Nat
    /\ feed \in Seq(Nat)
    /\ rules \in Rules
    /\ itemCounts \in [Item -> Nat]
    /\ trouble \in Nat

Awaiting == call # NoCall

(* The request the page awaits was made at the step it still shows.           *)
CallFits ==
    Awaiting =>
        /\ call.body.txn = txnId
        /\ call.body.route = "start" => step = 0
        /\ call.body.route \in {"customer", "lookup"} => step = 1
        /\ call.body.route \in {"item", "fraud", "subtotal"} => step = 2
        /\ call.body.route = "pay" => step = 3 /\ call.body.n = totals
        /\ call.body.route \in {"item", "fraud"} => call.body.item \in Item
        /\ call.body.route = "fraud" => cart # <<>> /\ call.body.item = Last(cart)
        /\ call.body.route = "subtotal" => cart # <<>> /\ call.body.n = Subtotal(cart)

(* Its event, once there is one, is the only one of a transaction it starts.   *)
CallPublished ==
    Awaiting /\ call.id > 0 =>
        /\ call.id \in DOMAIN published
        /\ published[call.id] = EventOf(call.body, call.id)
        /\ call.body.route = "start" =>
             /\ \A k \in DOMAIN published : published[k].txn = call.id => k = call.id
             /\ \A i \in DOMAIN late : late[i].route # "start" => late[i].txn # call.id

(* Transactions are numbered by the places of their first events.             *)
Numbered ==
    /\ txnId <= Len(published)
    /\ step = 0 <=> txnId = 0
    /\ \A k \in DOMAIN published : published[k].txn \in 1..Len(published)
    /\ \A i \in DOMAIN late : late[i].route # "start" => late[i].txn \in 1..Len(published)

Known(type, txn) == \E k \in DOMAIN published : published[k].type = type /\ published[k].txn = txn

(* Without a lapse of the broker the event is on the topic, too.              *)
Shown(type) ==
    \E k \in DOMAIN published :
        /\ published[k].type = type
        /\ published[k].txn = txnId
        /\ lapses = 0 => k \notin queued

Progress ==
    /\ step >= 1 => Shown("transaction.started")
    /\ step >= 2 => Shown("customer.identified")
    /\ cart # <<>> => Shown("item.added") /\ step >= 2
    /\ step >= 3 => Shown("transaction.subtotal") /\ cart # <<>>
    /\ step = 4 => Shown("payment.completed")

Prepared(b) == b.route # "start" => Known(Before[EventType[b.route]], b.txn)

LatePrepared == \A i \in DOMAIN late : Prepared(late[i])

Paid ==
    /\ step >= 3 => totals = Total(Subtotal(cart))
    /\ \A k \in DOMAIN published :
          published[k].type = "payment.completed" /\ published[k].txn = txnId
              => step >= 3 /\ published[k].n = totals
    /\ \A i \in DOMAIN late :
          late[i].route = "pay" /\ late[i].txn = txnId => step >= 3 /\ late[i].n = totals

IInv == ApiShape /\ SaleShape /\ CallFits /\ CallPublished /\ Numbered
          /\ Progress /\ LatePrepared /\ Paid /\ StepsArePrepared /\ SuggestionsFollowTheCart

-----------------------------------------------------------------------------
LEMMA NoCallIsNone == NoCall \notin Call
BY DEF NoCall, Call

LEMMA EventOfType == ASSUME NEW b \in Body, NEW id \in Nat PROVE EventOf(b, id) \in Event
BY DEF EventOf, Body, Event

LEMMA Types ==
    /\ EventType["start"] = "transaction.started"
    /\ EventType["customer"] = "customer.identified"
    /\ EventType["lookup"] = "customer.identified"
    /\ EventType["item"] = "item.added"
    /\ EventType["fraud"] = "fraud.alerted"
    /\ EventType["subtotal"] = "transaction.subtotal"
    /\ EventType["pay"] = "payment.completed"
BY DEF EventType

LEMMA Befores ==
    /\ "transaction.started" \notin DOMAIN Before
    /\ Before["customer.identified"] = "transaction.started"
    /\ Before["item.added"] = "customer.identified"
    /\ Before["fraud.alerted"] = "item.added"
    /\ Before["transaction.subtotal"] = "item.added"
    /\ Before["payment.completed"] = "transaction.subtotal"
BY DEF Before

LEMMA Longer ==
    ASSUME NEW S, NEW s \in Seq(S), NEW x \in S
    PROVE  /\ Append(s, x) \in Seq(S)
           /\ DOMAIN Append(s, x) = 1..(Len(s) + 1)
           /\ DOMAIN s = 1..Len(s)
           /\ Len(Append(s, x)) = Len(s) + 1
           /\ Len(s) \in Nat
           /\ Append(s, x)[Len(s) + 1] = x
           /\ \A k \in DOMAIN s : Append(s, x)[k] = s[k]
           /\ Append(s, x) # <<>>
OBVIOUS

LEMMA WithoutLast == ASSUME NEW S, NEW s \in Seq(S), NEW e \in S PROVE Front(Append(s, e)) = s
<1>1. /\ Append(s, e) \in Seq(S) /\ Len(Append(s, e)) = Len(s) + 1 /\ Len(s) \in Nat
      /\ \A k \in 1..Len(s) : Append(s, e)[k] = s[k]
  OBVIOUS
<1>2. Front(Append(s, e)) = [k \in 1..Len(s) |-> Append(s, e)[k]]
  BY <1>1 DEF Front
<1>3. s = [k \in 1..Len(s) |-> s[k]]
  OBVIOUS
<1>4. QED BY <1>1, <1>2, <1>3

LEMMA Remaining ==
    ASSUME NEW S, NEW s \in Seq(S), NEW i \in DOMAIN s
    PROVE  /\ RemoveAt(s, i) \in Seq(S)
           /\ \A j \in DOMAIN RemoveAt(s, i) : \E k \in DOMAIN s : RemoveAt(s, i)[j] = s[k]
<1> DEFINE before == SubSeq(s, 1, i - 1)
           after == SubSeq(s, i + 1, Len(s))
<1>1. i \in 1..Len(s) /\ Len(s) \in Nat
  OBVIOUS
<1>2. /\ before \in Seq(S) /\ Len(before) = i - 1
      /\ \A j \in 1..(i - 1) : before[j] = s[j]
  BY <1>1
<1>3. /\ after \in Seq(S) /\ Len(after) = Len(s) - i
      /\ \A j \in 1..(Len(s) - i) : after[j] = s[j + i]
  BY <1>1
<1> HIDE DEF before, after
<1>4. /\ before \o after \in Seq(S) /\ Len(before \o after) = (i - 1) + (Len(s) - i)
      /\ \A j \in 1..((i - 1) + (Len(s) - i)) :
           (before \o after)[j] = IF j <= i - 1 THEN before[j] ELSE after[j - (i - 1)]
  <2>1. before \in Seq(S) /\ after \in Seq(S) /\ Len(before) = i - 1 /\ Len(after) = Len(s) - i
    BY <1>2, <1>3
  <2>2. /\ before \o after \in Seq(S)
        /\ Len(before \o after) = Len(before) + Len(after)
        /\ \A j \in 1..(Len(before) + Len(after)) :
             (before \o after)[j] = IF j <= Len(before) THEN before[j] ELSE after[j - Len(before)]
    BY <2>1, ConcatProperties
  <2>3. QED BY <2>1, <2>2
<1>5. ASSUME NEW j \in 1..((i - 1) + (Len(s) - i))
      PROVE  \E k \in DOMAIN s : (before \o after)[j] = s[k]
  <2>1. CASE j <= i - 1
    <3>1. j \in 1..(i - 1) /\ j \in DOMAIN s
      BY <1>1, <2>1
    <3>2. QED BY <1>2, <1>4, <2>1, <3>1
  <2>2. CASE ~(j <= i - 1)
    <3>1. j - (i - 1) \in 1..(Len(s) - i) /\ (j - (i - 1)) + i = j + 1 /\ j + 1 \in DOMAIN s
      BY <1>1, <2>2
    <3>2. (before \o after)[j] = s[j + 1]
      BY <1>3, <1>4, <2>2, <3>1
    <3>3. QED BY <3>1, <3>2
  <2>3. QED BY <2>1, <2>2
<1>6. RemoveAt(s, i) = before \o after
  BY DEF RemoveAt, before, after
<1>7. DOMAIN (before \o after) = 1..((i - 1) + (Len(s) - i))
  BY <1>4
<1>8. QED BY <1>4, <1>5, <1>6, <1>7

LEMMA FreshSaleShape == FreshSale => step' = 0 /\ txnId' = 0 /\ cart' = <<>> /\ totals' = 0 /\ feed' = <<>>
BY DEF FreshSale

LEMMA InitOK == Init => IInv
<1> SUFFICES ASSUME Init PROVE IInv
  OBVIOUS
<1>1. ApiShape
  BY DEF Init, ApiInit, ApiShape
<1>2. SaleShape
  BY DEF Init, SaleShape, DefaultRules, Rules, NoCounts
<1>3. CallFits /\ CallPublished /\ Numbered /\ Progress /\ LatePrepared /\ Paid
  BY DEF Init, ApiInit, Awaiting, CallFits, CallPublished, Numbered, Progress, LatePrepared, Paid
<1>4. StepsArePrepared /\ SuggestionsFollowTheCart
  BY DEF Init, ApiInit, StepsArePrepared, SuggestionsFollowTheCart, SuggestedFor
<1>5. QED BY <1>1, <1>2, <1>3, <1>4 DEF IInv

-----------------------------------------------------------------------------
(* What is known about the request the API is about to handle.                *)
LEMMA CallPrepared ==
    ASSUME IInv, Awaiting
    PROVE  /\ call.body \in Body
           /\ Prepared(call.body)
           /\ call.body.route # "start" => call.body.txn \in 1..Len(published)
           /\ call.body.route = "pay" => step >= 3 /\ call.body.n = totals
<1>1. call \in Call /\ call.body \in Body /\ call.body.route \in Route
  BY DEF IInv, ApiShape, Awaiting, Call, Body
<1>2. call.body.txn = txnId /\ step \in 0..4 /\ txnId \in Nat /\ txnId <= Len(published)
  BY DEF IInv, CallFits, SaleShape, Numbered
<1>3. \A type : Shown(type) => Known(type, call.body.txn)
  BY <1>2 DEF Shown, Known
<1>4. Prepared(call.body)
  BY <1>1, <1>3, Types, Befores DEF IInv, CallFits, Progress, Prepared, Route
<1>5. call.body.route # "start" => step # 0
  BY <1>1 DEF IInv, CallFits, Route
<1>6. call.body.route # "start" => call.body.txn \in 1..Len(published)
  BY <1>2, <1>5, published \in Seq(Event) DEF IInv, Numbered, ApiShape
<1>7. call.body.route = "pay" => step >= 3 /\ call.body.n = totals
  BY DEF IInv, CallFits
<1>8. QED BY <1>1, <1>4, <1>6, <1>7

(* An event that is published, whoever still waits for it.                    *)
LEMMA PublishStep ==
    ASSUME IInv, NEW b \in Body, Publish(b), Prepared(b),
           b.route # "start" => b.txn \in 1..Len(published),
           b.route = "pay" /\ b.txn = txnId => step >= 3 /\ b.n = totals,
           UNCHANGED <<step, txnId, cart, totals, lapses>>
    PROVE  /\ published' \in Seq(Event) /\ queued' \subseteq DOMAIN published'
           /\ Len(published') = Len(published) + 1
           /\ \A k \in DOMAIN published : published'[k] = published[k]
           /\ published'[Len(published) + 1] = EventOf(b, Len(published) + 1)
           /\ \A k \in DOMAIN published' : published'[k].txn \in 1..Len(published')
           /\ \A type, txn : Known(type, txn) => Known(type, txn)'
           /\ Progress'
           /\ \A k \in DOMAIN published' :
                 published'[k].type = "payment.completed" /\ published'[k].txn = txnId
                     => step >= 3 /\ published'[k].n = totals
           /\ StepsArePrepared'
<1> DEFINE id == Len(published) + 1
           e == EventOf(b, id)
<1>1. published \in Seq(Event) /\ Len(published) \in Nat /\ id \in Nat /\ e \in Event
  BY EventOfType DEF IInv, ApiShape
<1>2. /\ published' = Append(published, e)
      /\ queued' = queued \cup {id}
  BY DEF Publish
<1>3. /\ published' \in Seq(Event)
      /\ DOMAIN published' = 1..id
      /\ DOMAIN published = 1..Len(published)
      /\ Len(published') = id
      /\ published'[id] = e
      /\ \A k \in DOMAIN published : published'[k] = published[k]
  BY <1>1, <1>2, Longer
<1> HIDE DEF id, e
<1>4. /\ id = Len(published) + 1
      /\ id \notin DOMAIN published
      /\ \A k \in DOMAIN published' : k = id \/ k \in DOMAIN published
      /\ DOMAIN published \subseteq DOMAIN published'
      /\ id \in DOMAIN published'
      /\ queued \subseteq DOMAIN published
  BY <1>1, <1>3 DEF id, IInv, ApiShape
<1>5. queued' \subseteq DOMAIN published'
  BY <1>2, <1>4
<1>6. /\ e.type = EventType[b.route] /\ b.route \in Route
      /\ e.txn = IF b.route = "start" THEN id ELSE b.txn
      /\ e.n = b.n
  BY DEF e, EventOf, Body
<1>7. \A k \in DOMAIN published' : published'[k].txn \in 1..Len(published')
  BY <1>1, <1>3, <1>4, <1>6 DEF IInv, Numbered
<1>8. \A type, txn : Known(type, txn) => Known(type, txn)'
  BY <1>3, <1>4 DEF Known
<1>9. Progress'
  <2>1. ASSUME NEW type, Shown(type) PROVE Shown(type)'
    BY <1>2, <1>3, <1>4, <2>1 DEF Shown
  <2>2. QED BY <2>1 DEF IInv, Progress
<1>10. \A k \in DOMAIN published' :
          published'[k].type = "payment.completed" /\ published'[k].txn = txnId
              => step >= 3 /\ published'[k].n = totals
  <2>1. e.type = "payment.completed" => b.route = "pay"
    BY <1>6, Types DEF Route
  <2>2. e.type = "payment.completed" /\ e.txn = txnId => step >= 3 /\ e.n = totals
    BY <1>6, <2>1
  <2>3. QED BY <1>3, <1>4, <2>2 DEF IInv, Paid
<1>11. StepsArePrepared'
  <2> DEFINE OK(k) == published'[k].type \in DOMAIN Before =>
                        \E j \in 1..(k - 1) : /\ published'[j].txn = published'[k].txn
                                             /\ published'[j].type = Before[published'[k].type]
  <2>1. ASSUME NEW k \in DOMAIN published PROVE OK(k)
    <3>1. k \in 1..Len(published) /\ 1..(k - 1) \subseteq DOMAIN published
      BY <1>1, <1>3
    <3>2. \A j \in 1..(k - 1) : published'[j] = published[j]
      BY <1>3, <3>1
    <3>3. QED BY <1>3, <3>2 DEF IInv, StepsArePrepared, Preceded
  <2>2. OK(id)
    <3>1. CASE b.route = "start"
      BY <1>3, <1>6, <3>1, Types, Befores
    <3>2. CASE b.route # "start"
      <4>1. PICK j \in DOMAIN published :
                    published[j].type = Before[e.type] /\ published[j].txn = e.txn
        BY <1>6, <3>2 DEF Prepared, Known
      <4>2. j \in 1..(id - 1) /\ published'[j] = published[j]
        BY <1>1, <1>3, <1>4
      <4>3. QED BY <1>3, <4>1, <4>2
    <3>3. QED BY <3>1, <3>2
  <2>3. QED BY <1>4, <2>1, <2>2 DEF StepsArePrepared, Preceded
<1>12. QED BY <1>3, <1>4, <1>5, <1>7, <1>8, <1>9, <1>10, <1>11 DEF e, id

LEMMA HandleOK ==
    ASSUME IInv, Handle, UNCHANGED <<saleVars, localVars, ruleVars, trouble, watched>>
    PROVE  IInv'
<1> DEFINE id == Len(published) + 1
           b == call.body
<1>1. /\ Awaiting
      /\ call \in Call
      /\ Publish(b)
      /\ call' = [call EXCEPT !.id = id]
      /\ UNCHANGED <<step, txnId, cart, totals, receipt, feed, payMethod, recommended, itemCounts,
                     rules, ruleChanges, trouble, watched, late, brokerUp, lapses>>
  BY DEF Handle, Awaiting, IInv, ApiShape, saleVars, localVars, ruleVars
<1>2. /\ b \in Body /\ Prepared(b)
      /\ b.route # "start" => b.txn \in 1..Len(published)
      /\ b.route = "pay" => step >= 3 /\ b.n = totals
  BY <1>1, CallPrepared
<1>3. /\ published' \in Seq(Event) /\ queued' \subseteq DOMAIN published'
      /\ Len(published') = Len(published) + 1
      /\ \A k \in DOMAIN published : published'[k] = published[k]
      /\ published'[id] = EventOf(b, id)
      /\ \A k \in DOMAIN published' : published'[k].txn \in 1..Len(published')
      /\ \A type, txn : Known(type, txn) => Known(type, txn)'
      /\ Progress'
      /\ \A k \in DOMAIN published' :
            published'[k].type = "payment.completed" /\ published'[k].txn = txnId
                => step >= 3 /\ published'[k].n = totals
      /\ StepsArePrepared'
  BY <1>1, <1>2, PublishStep
<1>4. /\ Len(published) \in Nat /\ id \in Nat
      /\ DOMAIN published' = 1..id
      /\ DOMAIN published = 1..Len(published)
  BY <1>3 DEF IInv, ApiShape
<1>5. call' \in Call /\ call'.body = b /\ call'.id = id /\ Awaiting'
  BY <1>1, <1>4, NoCallIsNone DEF Call, Awaiting
<1>6. ApiShape'
  BY <1>1, <1>3, <1>5 DEF IInv, ApiShape
<1>7. SaleShape'
  BY <1>1 DEF IInv, SaleShape
<1>8. CallFits'
  BY <1>1, <1>5 DEF IInv, CallFits
<1>9. CallPublished'
  <2>1. id \in DOMAIN published' /\ published'[id] = EventOf(b, id)
    BY <1>3, <1>4
  <2>2. ASSUME NEW k \in DOMAIN published', published'[k].txn = id PROVE k = id
    <3>1. ASSUME k # id PROVE FALSE
      <4>1. k \in DOMAIN published /\ published[k].txn = id
        BY <1>3, <1>4, <2>2, <3>1
      <4>2. published[k].txn \in 1..Len(published)
        BY <4>1 DEF IInv, Numbered
      <4>3. QED BY <1>4, <4>1, <4>2
    <3>2. QED BY <3>1
  <2>3. ASSUME NEW i \in DOMAIN late, late[i].route # "start" PROVE late[i].txn # id
    BY <1>4, <2>3 DEF IInv, Numbered
  <2>4. QED BY <1>1, <1>5, <2>1, <2>2, <2>3 DEF CallPublished
<1>10. Numbered'
  BY <1>1, <1>3, <1>4 DEF IInv, Numbered, SaleShape
<1>11. LatePrepared'
  BY <1>1, <1>3 DEF IInv, LatePrepared, Prepared
<1>12. Paid'
  BY <1>1, <1>3 DEF IInv, Paid
<1>13. SuggestionsFollowTheCart'
  BY <1>1, <1>5 DEF IInv, SuggestionsFollowTheCart, SuggestedFor, Awaiting
<1>14. QED BY <1>3, <1>6, <1>7, <1>8, <1>9, <1>10, <1>11, <1>12, <1>13 DEF IInv

LEMMA HandleLateOK ==
    ASSUME IInv, NEW i \in DOMAIN late, HandleLate(i),
           UNCHANGED <<saleVars, localVars, ruleVars, trouble, watched>>
    PROVE  IInv'
<1> DEFINE id == Len(published) + 1
           b == late[i]
<1>1. /\ Publish(b)
      /\ late' = RemoveAt(late, i)
      /\ UNCHANGED <<step, txnId, cart, totals, receipt, feed, payMethod, recommended, itemCounts,
                     rules, ruleChanges, trouble, watched, call, brokerUp, lapses>>
  BY DEF HandleLate, saleVars, localVars, ruleVars
<1>2. /\ late \in Seq(Body) /\ b \in Body /\ Prepared(b)
      /\ b.route # "start" => b.txn \in 1..Len(published)
      /\ b.route = "pay" /\ b.txn = txnId => step >= 3 /\ b.n = totals
  BY DEF IInv, ApiShape, LatePrepared, Numbered, Paid
<1>3. /\ published' \in Seq(Event) /\ queued' \subseteq DOMAIN published'
      /\ Len(published') = Len(published) + 1
      /\ \A k \in DOMAIN published : published'[k] = published[k]
      /\ published'[id] = EventOf(b, id)
      /\ \A k \in DOMAIN published' : published'[k].txn \in 1..Len(published')
      /\ \A type, txn : Known(type, txn) => Known(type, txn)'
      /\ Progress'
      /\ \A k \in DOMAIN published' :
            published'[k].type = "payment.completed" /\ published'[k].txn = txnId
                => step >= 3 /\ published'[k].n = totals
      /\ StepsArePrepared'
  BY <1>1, <1>2, PublishStep
<1>4. /\ Len(published) \in Nat /\ id \in Nat
      /\ DOMAIN published' = 1..id
      /\ DOMAIN published = 1..Len(published)
  BY <1>3 DEF IInv, ApiShape
<1>5. /\ late' \in Seq(Body)
      /\ \A j \in DOMAIN late' : \E k \in DOMAIN late : late'[j] = late[k]
  BY <1>1, <1>2, Remaining
<1>6. ApiShape' /\ SaleShape'
  BY <1>1, <1>3, <1>5 DEF IInv, ApiShape, SaleShape
<1>7. CallFits'
  BY <1>1 DEF IInv, CallFits, Awaiting
<1>8. CallPublished'
  <2> SUFFICES ASSUME Awaiting, call.id > 0 PROVE CallPublished'
    BY <1>1 DEF CallPublished, Awaiting
  <2>1. /\ call.id \in DOMAIN published /\ call.id # id /\ call.id \in DOMAIN published'
        /\ published'[call.id] = EventOf(call.body, call.id)
    BY <1>3, <1>4 DEF IInv, CallPublished
  <2>2. CASE call.body.route # "start"
    BY <1>1, <2>1, <2>2 DEF CallPublished
  <2>3. CASE call.body.route = "start"
    <3>1. EventOf(b, id).txn # call.id
      <4>1. CASE b.route = "start"
        BY <2>1, <4>1 DEF EventOf
      <4>2. CASE b.route # "start"
        BY <2>3, <4>2 DEF EventOf, IInv, CallPublished
      <4>3. QED BY <4>1, <4>2
    <3>2. \A k \in DOMAIN published' : published'[k].txn = call.id => k = call.id
      BY <1>3, <1>4, <2>3, <3>1 DEF IInv, CallPublished
    <3>3. \A j \in DOMAIN late' : late'[j].route # "start" => late'[j].txn # call.id
      BY <1>5, <2>3 DEF IInv, CallPublished
    <3>4. QED BY <1>1, <2>1, <3>2, <3>3 DEF CallPublished
  <2>4. QED BY <2>2, <2>3
<1>9. Numbered'
  <2>1. \A j \in DOMAIN late' : late'[j].route # "start" => late'[j].txn \in 1..Len(published')
    BY <1>3, <1>4, <1>5 DEF IInv, Numbered
  <2>2. txnId <= Len(published')
    BY <1>3, <1>4 DEF IInv, Numbered, SaleShape
  <2>3. QED BY <1>1, <1>3, <2>1, <2>2 DEF IInv, Numbered
<1>10. LatePrepared'
  <2>1. ASSUME NEW j \in DOMAIN late', late'[j].route # "start"
        PROVE  \E k \in DOMAIN published' :
                  /\ published'[k].type = Before[EventType[late'[j].route]]
                  /\ published'[k].txn = late'[j].txn
    <3>1. PICK m \in DOMAIN late : late'[j] = late[m]
      BY <1>5
    <3>2. PICK k \in DOMAIN published :
              published[k].type = Before[EventType[late[m].route]] /\ published[k].txn = late[m].txn
      BY <2>1, <3>1 DEF IInv, LatePrepared, Prepared, Known
    <3>3. k \in DOMAIN published' /\ published'[k] = published[k]
      BY <1>3, <1>4
    <3>4. QED BY <3>1, <3>2, <3>3
  <2>2. QED BY <2>1 DEF LatePrepared, Prepared, Known
<1>11. Paid'
  BY <1>1, <1>3, <1>5 DEF IInv, Paid
<1>12. SuggestionsFollowTheCart'
  BY <1>1 DEF IInv, SuggestionsFollowTheCart, SuggestedFor
<1>13. QED BY <1>3, <1>6, <1>7, <1>8, <1>9, <1>10, <1>11, <1>12 DEF IInv

(* The broker takes events or does not; those published stay published.       *)
LEMMA BrokerOK ==
    ASSUME IInv, UNCHANGED <<saleVars, localVars, ruleVars, trouble, watched>>,
           BrokerLapses \/ BrokerReturns \/ \E id \in queued : Deliver(id) \/ Expire(id)
    PROVE  IInv'
<1>1. /\ queued' \subseteq queued
      /\ lapses' \in Nat
      /\ lapses' = 0 => lapses = 0 /\ brokerUp'
      /\ UNCHANGED <<step, txnId, cart, totals, receipt, feed, payMethod, recommended, itemCounts,
                     rules, ruleChanges, trouble, watched, call, late, published>>
  BY DEF IInv, ApiShape, BrokerLapses, BrokerReturns, Deliver, Expire, saleVars, localVars, ruleVars
<1>2. ApiShape' /\ SaleShape'
  BY <1>1 DEF IInv, ApiShape, SaleShape
<1>3. CallFits' /\ CallPublished' /\ Numbered' /\ LatePrepared' /\ Paid'
  BY <1>1 DEF IInv, CallFits, CallPublished, Awaiting, Numbered, LatePrepared, Prepared, Known, Paid
<1>4. ASSUME NEW type, Shown(type) PROVE Shown(type)'
  BY <1>1, <1>4 DEF Shown
<1>5. Progress'
  BY <1>1, <1>4 DEF IInv, Progress
<1>6. StepsArePrepared' /\ SuggestionsFollowTheCart'
  BY <1>1 DEF IInv, StepsArePrepared, Preceded, SuggestionsFollowTheCart, SuggestedFor
<1>7. QED BY <1>2, <1>3, <1>5, <1>6 DEF IInv

LEMMA ApiOK == ASSUME IInv, Api PROVE IInv'
BY HandleOK, HandleLateOK, BrokerOK DEF Api, ApiNext

-----------------------------------------------------------------------------
(* The handlers up to their await; n is what the step has to offer.           *)
LEMMA PostOK ==
    ASSUME IInv, NEW route \in Route, NEW item \in Item \cup {NoItem}, NEW n \in Nat,
           Post(route, item, n),
           \/ route = "start" /\ step = 0
           \/ route \in {"customer", "lookup"} /\ step = 1
           \/ route = "item" /\ step = 2 /\ item \in Item
           \/ route = "subtotal" /\ step = 2 /\ cart # <<>> /\ n = Subtotal(cart)
           \/ route = "pay" /\ step = 3 /\ n = totals
    PROVE  IInv'
<1> DEFINE b == [route |-> route, txn |-> txnId, item |-> item, n |-> n]
<1>1. /\ call = NoCall
      /\ call' = [body |-> b, id |-> 0, seen |-> rules]
      /\ UNCHANGED <<late, published, queued, brokerUp, lapses, step, txnId, cart, totals, receipt,
                     feed, payMethod, recommended, itemCounts, rules, ruleChanges, trouble, watched>>
  BY DEF Post, saleVars, localVars, ruleVars
<1>2. b \in Body /\ call' \in Call
  BY <1>1 DEF Body, Call, IInv, SaleShape
<1>3. call'.body = b /\ call'.id = 0
  BY <1>1
<1>4. ApiShape' /\ SaleShape'
  BY <1>1, <1>2 DEF IInv, ApiShape, SaleShape
<1>5. CallFits' /\ CallPublished'
  BY <1>1, <1>3 DEF CallFits, CallPublished
<1>6. Numbered' /\ LatePrepared' /\ Paid' /\ Progress' /\ StepsArePrepared'
  BY <1>1 DEF IInv, Numbered, LatePrepared, Prepared, Known, Paid, Progress, Shown, StepsArePrepared,
              Preceded
<1>7. SuggestionsFollowTheCart'
  BY <1>1 DEF IInv, SuggestionsFollowTheCart, SuggestedFor
<1>8. QED BY <1>4, <1>5, <1>6, <1>7 DEF IInv

LEMMA HandlersOK ==
    ASSUME IInv,
           \/ HandleStart \/ HandleCustomer \/ HandleCustomerLookup
           \/ \E i \in Item : HandleAddItem(i)
           \/ HandleSubtotal \/ HandlePay
    PROVE  IInv'
<1>1. /\ {"start", "customer", "lookup", "item", "subtotal", "pay"} \subseteq Route
      /\ totals \in Nat /\ Subtotal(cart) \in Nat
  BY Subtotals DEF Route, IInv, SaleShape
<1>2. CASE HandleStart
  BY <1>1, <1>2, PostOK DEF HandleStart
<1>3. CASE HandleCustomer \/ HandleCustomerLookup
  BY <1>1, <1>3, PostOK DEF HandleCustomer, HandleCustomerLookup
<1>4. ASSUME NEW i \in Item, HandleAddItem(i) PROVE IInv'
  BY <1>1, <1>4, PostOK DEF HandleAddItem
<1>5. CASE HandleSubtotal
  BY <1>1, <1>5, PostOK DEF HandleSubtotal
<1>6. CASE HandlePay
  BY <1>1, <1>6, PostOK DEF HandlePay
<1>7. QED BY <1>2, <1>3, <1>4, <1>5, <1>6

(* Methods of payment and rules change nothing of the sale.                   *)
LEMMA SettingsOK ==
    ASSUME IInv,
           \/ \E m \in PayMethods \cup {"card"} : SetPayMethod(m)
           \/ \E rule \in Toggled : HandleToggle(rule)
           \/ \E age \in Ages : HandleMinAgeChange(age)
           \/ \E t \in Thresholds : HandleThresholdChange(t)
    PROVE  IInv'
<1>1. UNCHANGED <<call, late, published, queued, brokerUp, lapses, step, txnId, cart, totals, receipt,
                  feed, recommended, itemCounts, trouble>>
  BY DEF SetPayMethod, HandleToggle, HandleMinAgeChange, HandleThresholdChange, ChangeRules,
         apiVars, saleVars, localVars
<1>2. rules' \in Rules
  <2>1. rules \in Rules
    BY DEF IInv, SaleShape
  <2>2. ASSUME NEW m \in PayMethods \cup {"card"}, SetPayMethod(m) PROVE rules' = rules
    BY <2>2 DEF SetPayMethod, ruleVars
  <2>3. ASSUME NEW rule \in Toggled, HandleToggle(rule) PROVE rules' \in Rules
    <3>1. rule \in {"age", "recommender", "lookup", "fraud"}
      BY PosTerminalAssumption
    <3>2. rules' = [rules EXCEPT ![rule] = ~rules[rule]]
      BY <2>3 DEF HandleToggle, ChangeRules
    <3>3. QED BY <2>1, <3>1, <3>2 DEF Rules
  <2>4. ASSUME NEW age \in Ages, HandleMinAgeChange(age) PROVE rules' \in Rules
    BY <2>1, <2>4, PosTerminalAssumption DEF HandleMinAgeChange, ChangeRules, Rules
  <2>5. ASSUME NEW t \in Thresholds, HandleThresholdChange(t) PROVE rules' \in Rules
    BY <2>1, <2>5, PosTerminalAssumption DEF HandleThresholdChange, ChangeRules, Rules
  <2>6. QED BY <2>1, <2>2, <2>3, <2>4, <2>5
<1>3. ApiShape' /\ SaleShape'
  BY <1>1, <1>2 DEF IInv, ApiShape, SaleShape
<1>4. CallFits' /\ CallPublished' /\ SuggestionsFollowTheCart'
  BY <1>1 DEF IInv, CallFits, CallPublished, Awaiting, SuggestionsFollowTheCart, SuggestedFor
<1>5. Numbered' /\ LatePrepared' /\ Paid' /\ Progress' /\ StepsArePrepared'
  BY <1>1 DEF IInv, Numbered, LatePrepared, Prepared, Known, Paid, Progress, Shown, StepsArePrepared,
              Preceded
<1>6. QED BY <1>3, <1>4, <1>5 DEF IInv

(* A request that is refused or given up leaves the sale where it was.         *)
LEMMA LateAfterwards ==
    ASSUME IInv, late' \in {late, Abandoned}
    PROVE  /\ late' \in Seq(Body)
           /\ \A i \in DOMAIN late' :
                 \/ i \in DOMAIN late /\ late'[i] = late[i]
                 \/ Awaiting /\ late'[i] = call.body
<1>1. CASE late' = late
  BY <1>1 DEF IInv, ApiShape
<1>2. CASE late' = Append(late, call.body) /\ Awaiting
  <2>1. late \in Seq(Body) /\ call.body \in Body
    BY <1>2, CallPrepared DEF IInv, ApiShape
  <2>2. DOMAIN late' = 1..(Len(late) + 1) /\ DOMAIN late = 1..Len(late) /\ late' \in Seq(Body)
    BY <1>2, <2>1, Longer
  <2>3. late'[Len(late) + 1] = call.body /\ \A i \in DOMAIN late : late'[i] = late[i]
    BY <1>2, <2>1, Longer
  <2>4. Len(late) \in Nat
    BY <2>1
  <2>5. \A i \in DOMAIN late' : i \in DOMAIN late \/ i = Len(late) + 1
    BY <2>2, <2>4
  <2>6. QED BY <1>2, <2>2, <2>3, <2>5
<1>3. QED BY <1>1, <1>2 DEF Abandoned, Awaiting

LEMMA CatchOK ==
    ASSUME IInv, CallFails \/ GiveUp
    PROVE  IInv'
<1>1. /\ Awaiting /\ call' = NoCall
      /\ trouble' = trouble + 1
      /\ late' \in {late, Abandoned}
      /\ UNCHANGED <<published, queued, brokerUp, lapses, step, txnId, cart, totals, receipt, feed,
                     payMethod, itemCounts, rules, ruleChanges, watched>>
      /\ IF call.body.route = "fraud" THEN Recommend(call.body.item) ELSE UNCHANGED recommended
  BY DEF CallFails, GiveUp, Catch, Awaiting, saleVars, ruleVars
<1>2. /\ late' \in Seq(Body)
      /\ \A i \in DOMAIN late' :
            \/ i \in DOMAIN late /\ late'[i] = late[i]
            \/ late'[i] = call.body
  BY <1>1, LateAfterwards
<1>3. /\ Prepared(call.body)
      /\ call.body.route # "start" => call.body.txn \in 1..Len(published)
      /\ call.body.route = "pay" => step >= 3 /\ call.body.n = totals
  BY <1>1, CallPrepared
<1>4. ApiShape' /\ SaleShape'
  BY <1>1, <1>2 DEF IInv, ApiShape, SaleShape
<1>5. CallFits' /\ CallPublished'
  BY <1>1 DEF CallFits, CallPublished, Awaiting
<1>6. Numbered' /\ Paid' /\ Progress' /\ StepsArePrepared'
  <2>1. Numbered'
    BY <1>1, <1>2, <1>3 DEF IInv, Numbered
  <2>2. Paid'
    BY <1>1, <1>2, <1>3 DEF IInv, Paid
  <2>3. Progress' /\ StepsArePrepared'
    BY <1>1 DEF IInv, Progress, Shown, StepsArePrepared, Preceded
  <2>4. QED BY <2>1, <2>2, <2>3
<1>7. LatePrepared'
  BY <1>1, <1>2, <1>3 DEF IInv, LatePrepared, Prepared, Known
<1>8. SuggestionsFollowTheCart'
  <2>1. CASE call.body.route = "fraud"
    BY <1>1, <2>1 DEF IInv, CallFits, Recommend, SuggestionsFollowTheCart, SuggestedFor
  <2>2. CASE call.body.route # "fraud"
    BY <1>1, <2>2 DEF IInv, SuggestionsFollowTheCart, SuggestedFor
  <2>3. QED BY <2>1, <2>2
<1>9. QED BY <1>4, <1>5, <1>6, <1>7, <1>8 DEF IInv

(* A fresh sale has nothing to do with any event, or late request.            *)
LEMMA ResetOK ==
    ASSUME IInv, HandleReset \/ SignOut
    PROVE  IInv'
<1>1. /\ step' = 0 /\ txnId' = 0 /\ cart' = <<>> /\ totals' = 0 /\ feed' = <<>>
      /\ recommended' = {}
      /\ itemCounts' = NoCounts
      /\ UNCHANGED <<published, queued, brokerUp, lapses>>
  BY FreshSaleShape DEF HandleReset, SignOut, apiVars
<1>2. rules' \in Rules /\ trouble' \in Nat
  <2>1. rules' = rules \/ rules' = DefaultRules
    BY DEF HandleReset, SignOut, ruleVars
  <2>2. DefaultRules \in Rules
    BY DEF DefaultRules, Rules
  <2>3. trouble' = trouble \/ trouble' = trouble + 1
    BY DEF HandleReset, SignOut
  <2>4. QED BY <2>1, <2>2, <2>3 DEF IInv, SaleShape
<1>3. /\ late' \in {late, Abandoned}
      /\ call' = NoCall
  <2>1. CASE HandleReset
    <3>1. step = 4 /\ call' = call /\ late' = late
      BY <2>1 DEF HandleReset, apiVars
    <3>2. ~Awaiting
      <4>1. Awaiting => call.body.route \in Route
        BY CallPrepared DEF Body
      <4>2. QED BY <3>1, <4>1 DEF IInv, CallFits, Route
    <3>3. QED BY <3>1, <3>2 DEF Awaiting
  <2>2. CASE SignOut
    BY <2>2 DEF SignOut
  <2>3. QED BY <2>1, <2>2
<1>4. /\ late' \in Seq(Body)
      /\ \A i \in DOMAIN late' :
            \/ i \in DOMAIN late /\ late'[i] = late[i]
            \/ Awaiting /\ late'[i] = call.body
  BY <1>3, LateAfterwards
<1>5. ApiShape' /\ SaleShape'
  <2>1. SaleShape'
    BY <1>1, <1>2 DEF SaleShape, NoCounts
  <2>2. QED BY <1>1, <1>3, <1>4, <2>1 DEF IInv, ApiShape
<1>6. CallFits' /\ CallPublished'
  BY <1>3 DEF CallFits, CallPublished, Awaiting
<1>7. /\ Len(published) \in Nat
      /\ \A k \in DOMAIN published : published[k].txn # 0
      /\ \A i \in DOMAIN late' : late'[i].route # "start" => late'[i].txn \in 1..Len(published)
  <2>1. Len(published) \in Nat
    BY DEF IInv, ApiShape
  <2>2. Awaiting /\ call.body.route # "start" => call.body.txn \in 1..Len(published)
    BY CallPrepared
  <2>3. QED BY <1>4, <2>1, <2>2 DEF IInv, Numbered
<1>8. Numbered'
  BY <1>1, <1>7 DEF IInv, Numbered
<1>9. Paid'
  <2>1. \A i \in DOMAIN late' : late'[i].route = "pay" => late'[i].txn # 0
    BY <1>7
  <2>2. ~(step' >= 3)
    BY <1>1
  <2>3. QED BY <1>1, <1>7, <2>1, <2>2 DEF Paid
<1>10. Progress' /\ StepsArePrepared'
  BY <1>1 DEF IInv, Progress, StepsArePrepared, Preceded
<1>11. LatePrepared'
  <2>1. Awaiting => Prepared(call.body)
    BY CallPrepared
  <2>2. QED BY <1>1, <1>4, <2>1 DEF IInv, LatePrepared, Prepared, Known
<1>12. SuggestionsFollowTheCart'
  BY <1>1 DEF SuggestionsFollowTheCart, SuggestedFor
<1>13. QED BY <1>5, <1>6, <1>8, <1>9, <1>10, <1>11, <1>12 DEF IInv

-----------------------------------------------------------------------------
(* The handlers after their await.  An answer means that the event is          *)
(* published, and on its topic if the broker never lapsed.                    *)
LEMMA AnswerFacts ==
    ASSUME IInv, NEW r \in Route, Answered(r)
    PROVE  /\ Awaiting
           /\ call \in Call
           /\ call.body.route = r
           /\ call.id \in DOMAIN published /\ call.id \in Nat /\ call.id > 0
           /\ published[call.id].type = EventType[r]
           /\ published[call.id].txn = IF r = "start" THEN call.id ELSE txnId
           /\ r # "start" => Shown(EventType[r])
<1>1. Awaiting /\ call \in Call /\ call.body.route = r /\ call.id > 0
  BY DEF Answered, Awaiting, IInv, ApiShape
<1>2. call.id \in DOMAIN published /\ published[call.id] = EventOf(call.body, call.id)
  BY <1>1 DEF IInv, CallPublished
<1>3. published[call.id].type = EventType[r]
  BY <1>1, <1>2 DEF EventOf
<1>4. published[call.id].txn = IF r = "start" THEN call.id ELSE txnId
  BY <1>1, <1>2 DEF EventOf, IInv, CallFits
<1>5. lapses = 0 => queued = {}
  BY DEF Answered, IInv, ApiShape
<1>6. call.id \in Nat
  BY <1>1 DEF Call
<1>7. QED BY <1>1, <1>2, <1>3, <1>4, <1>5, <1>6 DEF Shown

LEMMA NewestFirst == ASSUME IInv, NEW id \in Nat PROVE <<id>> \o feed \in Seq(Nat)
BY DEF IInv, SaleShape

LEMMA StartAnsweredOK ==
    ASSUME IInv, StartAnswered
    PROVE  IInv'
<1>1. "start" \in Route
  BY DEF Route
<1>2. /\ Awaiting /\ call.body.route = "start"
      /\ call.id \in DOMAIN published /\ call.id \in Nat /\ call.id > 0
      /\ published[call.id].type = "transaction.started"
      /\ published[call.id].txn = call.id
  BY <1>1, AnswerFacts, Types DEF StartAnswered
<1>3. /\ step' = 1 /\ txnId' = call.id /\ call' = NoCall
      /\ feed' = <<call.id>> \o feed
      /\ UNCHANGED <<late, published, queued, brokerUp, lapses, cart, totals, receipt, payMethod,
                     recommended, itemCounts, rules, ruleChanges, trouble>>
  BY <1>2 DEF StartAnswered, Done, AddEvent, localVars, ruleVars
<1>4. step = 0
  BY <1>2 DEF IInv, CallFits
<1>5. ApiShape' /\ SaleShape'
  BY <1>2, <1>3, NewestFirst DEF IInv, ApiShape, SaleShape
<1>6. CallFits' /\ CallPublished'
  BY <1>3 DEF CallFits, CallPublished, Awaiting
<1>7. published \in Seq(Event) /\ Len(published) \in Nat /\ call.id <= Len(published)
  BY <1>2 DEF IInv, ApiShape
<1>8. Numbered'
  BY <1>2, <1>3, <1>7 DEF IInv, Numbered
<1>9. Progress'
  <2>1. cart = <<>>
    BY <1>4 DEF IInv, Progress
  <2>2. lapses = 0 => queued = {}
    BY DEF StartAnswered, Answered, IInv, ApiShape
  <2>3. Shown("transaction.started")'
    BY <1>2, <1>3, <2>2 DEF Shown
  <2>4. QED BY <1>3, <2>1, <2>3 DEF Progress
<1>10. LatePrepared' /\ StepsArePrepared'
  BY <1>3 DEF IInv, LatePrepared, Prepared, Known, StepsArePrepared, Preceded
<1>11. Paid'
  <2>1. ASSUME NEW k \in DOMAIN published, published[k].txn = call.id
        PROVE  published[k].type = "transaction.started"
    BY <1>2, <2>1 DEF IInv, CallPublished
  <2>2. ASSUME NEW i \in DOMAIN late, late[i].route = "pay" PROVE late[i].txn # call.id
    BY <1>2, <2>2 DEF IInv, CallPublished
  <2>3. QED BY <1>3, <2>1, <2>2 DEF Paid
<1>12. SuggestionsFollowTheCart'
  BY <1>2, <1>3 DEF IInv, SuggestionsFollowTheCart, SuggestedFor
<1>13. QED BY <1>5, <1>6, <1>8, <1>9, <1>10, <1>11, <1>12 DEF IInv

LEMMA CustomerAnsweredOK ==
    ASSUME IInv, CustomerAnswered
    PROVE  IInv'
<1>1. "customer" \in Route /\ "lookup" \in Route
  BY DEF Route
<1>2. /\ Awaiting /\ call.body.route \in {"customer", "lookup"}
      /\ call.id \in Nat
      /\ Shown("customer.identified")
  BY <1>1, AnswerFacts, Types DEF CustomerAnswered
<1>3. /\ step' = 2 /\ call' = NoCall
      /\ feed' = <<call.id>> \o feed
      /\ UNCHANGED <<late, published, queued, brokerUp, lapses, txnId, cart, totals, receipt,
                     payMethod, recommended, itemCounts, rules, ruleChanges, trouble>>
  BY <1>2 DEF CustomerAnswered, Done, AddEvent, localVars, ruleVars
<1>4. step = 1
  BY <1>2 DEF IInv, CallFits
<1>5. ApiShape' /\ SaleShape'
  BY <1>2, <1>3, NewestFirst DEF IInv, ApiShape, SaleShape
<1>6. CallFits' /\ CallPublished' /\ Numbered' /\ Paid'
  BY <1>3, <1>4 DEF IInv, CallFits, CallPublished, Awaiting, Numbered, Paid
<1>7. Progress'
  BY <1>2, <1>3, <1>4 DEF IInv, Progress, Shown
<1>8. LatePrepared' /\ StepsArePrepared' /\ SuggestionsFollowTheCart'
  BY <1>2, <1>3 DEF IInv, LatePrepared, Prepared, Known, StepsArePrepared, Preceded,
                    SuggestionsFollowTheCart, SuggestedFor
<1>9. QED BY <1>5, <1>6, <1>7, <1>8 DEF IInv

LEMMA ItemAnsweredOK ==
    ASSUME IInv, ItemAnswered
    PROVE  IInv'
<1> DEFINE item == call.body.item
<1>1. "item" \in Route /\ "fraud" \in Route
  BY DEF Route
<1>2. /\ Awaiting /\ call \in Call /\ call.body.route = "item"
      /\ call.id \in Nat
      /\ Shown("item.added")
      /\ item \in Item /\ call.body.txn = txnId /\ step = 2
  BY <1>1, AnswerFacts, Types DEF ItemAnswered, IInv, CallFits
<1>3. /\ feed' = <<call.id>> \o feed
      /\ cart' = Append(cart, item)
      /\ itemCounts' = IF call.seen.fraud THEN [itemCounts EXCEPT ![item] = @ + 1] ELSE itemCounts
      /\ UNCHANGED <<step, txnId, totals, receipt, payMethod, rules, ruleChanges, trouble, watched,
                     late, published, queued, brokerUp, lapses>>
  BY DEF ItemAnswered, AddEvent, ruleVars, Done
<1>4. \/ /\ call' = [call EXCEPT !.body.route = "fraud", !.body.n = itemCounts[item] + 1, !.id = 0]
         /\ UNCHANGED recommended
      \/ call' = NoCall /\ Recommend(item)
  BY DEF ItemAnswered, Done
<1> HIDE DEF item
<1>5. /\ cart \in Seq(Item) /\ cart' \in Seq(Item) /\ cart' # <<>> /\ Last(cart') = item
  <2>1. cart \in Seq(Item)
    BY DEF IInv, SaleShape
  <2>2. cart' = Append(cart, item) /\ item \in Item
    BY <1>2, <1>3
  <2>3. QED BY <2>1, <2>2, Longer DEF Last
<1> USE DEF item
<1>6. itemCounts[item] + 1 \in Nat /\ itemCounts' \in [Item -> Nat]
  BY <1>2, <1>3 DEF IInv, SaleShape
<1> DEFINE alert == [call EXCEPT !.body.route = "fraud", !.body.n = itemCounts[item] + 1, !.id = 0]
<1>7. /\ alert \in Call /\ alert.body.route = "fraud" /\ alert.id = 0
      /\ alert.body.txn = txnId /\ alert.body.item = item
  BY <1>1, <1>2, <1>6 DEF Call, Body
<1> HIDE DEF alert
<1>8. call' = alert \/ call' = NoCall
  BY <1>4 DEF alert
<1>9. ApiShape' /\ SaleShape'
  BY <1>2, <1>3, <1>5, <1>6, <1>7, <1>8, NewestFirst DEF IInv, ApiShape, SaleShape
<1>10. CallFits' /\ CallPublished'
  BY <1>2, <1>3, <1>5, <1>7, <1>8 DEF CallFits, CallPublished, Awaiting
<1>11. Numbered' /\ LatePrepared' /\ StepsArePrepared'
  BY <1>3 DEF IInv, Numbered, LatePrepared, Prepared, Known, StepsArePrepared, Preceded
<1>12. Paid'
  BY <1>2, <1>3 DEF IInv, Paid
<1>13. Progress'
  BY <1>2, <1>3, <1>5 DEF IInv, Progress, Shown
<1>14. SuggestionsFollowTheCart'
  <2>1. CASE call' = alert
    <3>1. Awaiting' /\ call'.body.route = "fraud"
      BY <1>7, <2>1, NoCallIsNone DEF Awaiting
    <3>2. SuggestedFor' = Front(cart')
      BY <3>1 DEF SuggestedFor, Awaiting
    <3>3. Front(cart') = cart
      BY <1>2, <1>3, <1>5, WithoutLast
    <3>4. SuggestedFor = cart
      BY <1>2 DEF SuggestedFor
    <3>5. UNCHANGED recommended
      BY <1>4, <1>7, <2>1, NoCallIsNone DEF alert
    <3>6. QED BY <3>2, <3>3, <3>4, <3>5 DEF IInv, SuggestionsFollowTheCart
  <2>2. CASE call' = NoCall /\ Recommend(item)
    BY <1>5, <2>2 DEF SuggestionsFollowTheCart, SuggestedFor, Recommend
  <2>3. QED BY <1>4, <2>1, <2>2 DEF alert
<1>15. QED BY <1>9, <1>10, <1>11, <1>12, <1>13, <1>14 DEF IInv

LEMMA FraudAnsweredOK ==
    ASSUME IInv, FraudAnswered
    PROVE  IInv'
<1>1. "fraud" \in Route
  BY DEF Route
<1>2. /\ Awaiting /\ call.body.route = "fraud" /\ call.id \in Nat
      /\ cart # <<>> /\ call.body.item = Last(cart)
  BY <1>1, AnswerFacts DEF FraudAnswered, IInv, CallFits
<1>3. /\ call' = NoCall
      /\ feed' = <<call.id>> \o feed
      /\ Recommend(call.body.item)
      /\ UNCHANGED <<late, published, queued, brokerUp, lapses, step, txnId, cart, totals, receipt,
                     payMethod, itemCounts, rules, ruleChanges, trouble>>
  BY DEF FraudAnswered, Done, AddEvent, ruleVars
<1>4. ApiShape' /\ SaleShape'
  BY <1>2, <1>3, NewestFirst DEF IInv, ApiShape, SaleShape
<1>5. CallFits' /\ CallPublished' /\ Numbered' /\ Paid'
  BY <1>3 DEF IInv, CallFits, CallPublished, Awaiting, Numbered, Paid
<1>6. Progress' /\ LatePrepared' /\ StepsArePrepared'
  BY <1>3 DEF IInv, Progress, Shown, LatePrepared, Prepared, Known, StepsArePrepared, Preceded
<1>7. SuggestionsFollowTheCart'
  BY <1>2, <1>3 DEF Recommend, SuggestionsFollowTheCart, SuggestedFor
<1>8. QED BY <1>4, <1>5, <1>6, <1>7 DEF IInv

LEMMA SubtotalAnsweredOK ==
    ASSUME IInv, SubtotalAnswered
    PROVE  IInv'
<1>1. "subtotal" \in Route
  BY DEF Route
<1>2. /\ Awaiting /\ call.body.route = "subtotal" /\ call.id \in Nat
      /\ Shown("transaction.subtotal")
      /\ step = 2 /\ cart # <<>> /\ call.body.n = Subtotal(cart)
  BY <1>1, AnswerFacts, Types DEF SubtotalAnswered, IInv, CallFits
<1>3. /\ step' = 3 /\ call' = NoCall
      /\ totals' = Total(Subtotal(cart))
      /\ feed' = <<call.id>> \o feed
      /\ UNCHANGED <<late, published, queued, brokerUp, lapses, txnId, cart, receipt,
                     payMethod, recommended, itemCounts, rules, ruleChanges, trouble>>
  BY <1>2 DEF SubtotalAnswered, Done, AddEvent, localVars, ruleVars
<1>4. totals' \in Nat
  BY <1>3, TotalType, Subtotals DEF IInv, SaleShape
<1>5. ApiShape' /\ SaleShape'
  BY <1>2, <1>3, <1>4, NewestFirst DEF IInv, ApiShape, SaleShape
<1>6. CallFits' /\ CallPublished' /\ Numbered'
  BY <1>2, <1>3 DEF IInv, CallFits, CallPublished, Awaiting, Numbered
<1>7. Paid'
  BY <1>2, <1>3 DEF IInv, Paid
<1>8. Progress'
  BY <1>2, <1>3 DEF IInv, Progress, Shown
<1>9. LatePrepared' /\ StepsArePrepared' /\ SuggestionsFollowTheCart'
  BY <1>2, <1>3 DEF IInv, LatePrepared, Prepared, Known, StepsArePrepared, Preceded,
                    SuggestionsFollowTheCart, SuggestedFor
<1>10. QED BY <1>5, <1>6, <1>7, <1>8, <1>9 DEF IInv

LEMMA PayAnsweredOK ==
    ASSUME IInv, PayAnswered
    PROVE  IInv'
<1>1. "pay" \in Route
  BY DEF Route
<1>2. /\ Awaiting /\ call.body.route = "pay" /\ call.id \in Nat
      /\ Shown("payment.completed")
      /\ step = 3
  BY <1>1, AnswerFacts, Types DEF PayAnswered, IInv, CallFits
<1>3. /\ step' = 4 /\ call' = NoCall
      /\ feed' = <<call.id>> \o feed
      /\ UNCHANGED <<late, published, queued, brokerUp, lapses, txnId, cart, totals,
                     payMethod, recommended, itemCounts, rules, ruleChanges, trouble>>
  BY <1>2 DEF PayAnswered, Done, AddEvent, localVars, ruleVars
<1>4. ApiShape' /\ SaleShape'
  BY <1>2, <1>3, NewestFirst DEF IInv, ApiShape, SaleShape
<1>5. CallFits' /\ CallPublished' /\ Numbered' /\ Paid'
  BY <1>2, <1>3 DEF IInv, CallFits, CallPublished, Awaiting, Numbered, Paid
<1>6. Progress'
  BY <1>2, <1>3 DEF IInv, Progress, Shown
<1>7. LatePrepared' /\ StepsArePrepared' /\ SuggestionsFollowTheCart'
  BY <1>2, <1>3 DEF IInv, LatePrepared, Prepared, Known, StepsArePrepared, Preceded,
                    SuggestionsFollowTheCart, SuggestedFor
<1>8. QED BY <1>4, <1>5, <1>6, <1>7 DEF IInv

-----------------------------------------------------------------------------
LEMMA NextOK == IInv /\ [Next]_vars => IInv'
<1> SUFFICES ASSUME IInv, [Next]_vars PROVE IInv'
  OBVIOUS
<1>1. CASE Clerk
  BY <1>1, HandlersOK, SettingsOK, ResetOK DEF Clerk
<1>2. CASE Browser
  BY <1>2, StartAnsweredOK, CustomerAnsweredOK, ItemAnsweredOK, FraudAnsweredOK,
     SubtotalAnsweredOK, PayAnsweredOK, CatchOK DEF Browser
<1>3. CASE Api
  BY <1>3, ApiOK
<1>4. CASE UNCHANGED vars
  <2> USE <1>4 DEF vars, apiVars, saleVars, localVars, ruleVars
  <2>1. ApiShape' /\ SaleShape'
    BY DEF IInv, ApiShape, SaleShape
  <2>2. CallFits' /\ CallPublished' /\ Numbered' /\ Paid'
    BY DEF IInv, CallFits, CallPublished, Awaiting, Numbered, Paid
  <2>3. Progress' /\ LatePrepared'
    BY DEF IInv, Progress, Shown, LatePrepared, Prepared, Known
  <2>4. StepsArePrepared' /\ SuggestionsFollowTheCart'
    BY DEF IInv, StepsArePrepared, Preceded, SuggestionsFollowTheCart, SuggestedFor
  <2>5. QED BY <2>1, <2>2, <2>3, <2>4 DEF IInv
<1>5. QED BY <1>1, <1>2, <1>3, <1>4 DEF Next

(* The inductive invariant of the terminal and the routes it uses.            *)
THEOREM TerminalInvariant == Spec => []IInv
BY InitOK, NextOK, PTL DEF Spec

(* What nothing depends on.                                                  *)
RestShape ==
    /\ brokerUp \in BOOLEAN
    /\ receipt \in Nat
    /\ payMethod \in PayMethods \cup {"card"}
    /\ recommended \subseteq Item
    /\ ruleChanges \in Nat
    /\ watched \in BOOLEAN

LEMMA RecommendedType ==
    ASSUME NEW i \in Item, Recommend(i)
    PROVE  recommended' \subseteq Item
BY PosTerminalAssumption DEF Recommend

LEMMA RestOfBrowser ==
    ASSUME IInv, RestShape, Browser
    PROVE  RestShape'
<1>1. {"start", "item", "fraud", "pay"} \subseteq Route
  BY DEF Route
<1>2. rules.fraud \in BOOLEAN
  BY DEF IInv, SaleShape, Rules
<1>3. CASE StartAnswered \/ CustomerAnswered \/ SubtotalAnswered
  BY <1>2, <1>3 DEF StartAnswered, CustomerAnswered, SubtotalAnswered, Done, localVars, ruleVars, RestShape
<1>4. CASE ItemAnswered
  <2>1. call.body.item \in Item
    BY <1>1, <1>4, AnswerFacts DEF ItemAnswered, IInv, CallFits
  <2>2. recommended' = recommended \/ Recommend(call.body.item)
    BY <1>4 DEF ItemAnswered
  <2>3. UNCHANGED <<brokerUp, receipt, payMethod, ruleChanges, watched>>
    BY <1>4 DEF ItemAnswered, Done, ruleVars
  <2>4. QED BY <2>1, <2>2, <2>3, RecommendedType DEF RestShape
<1>5. CASE FraudAnswered
  <2>1. call.body.item \in Item
    BY <1>1, <1>5, AnswerFacts DEF FraudAnswered, IInv, CallFits
  <2>2. QED BY <1>5, <2>1, RecommendedType DEF FraudAnswered, Done, ruleVars, RestShape
<1>6. CASE PayAnswered
  <2>1. call.id \in Nat
    BY <1>1, <1>6, AnswerFacts DEF PayAnswered
  <2>2. QED BY <1>6, <2>1 DEF PayAnswered, Done, localVars, ruleVars, RestShape
<1>7. CASE CallFails \/ GiveUp
  <2>1. /\ Awaiting
        /\ IF call.body.route = "fraud" THEN Recommend(call.body.item) ELSE UNCHANGED recommended
        /\ UNCHANGED <<brokerUp, receipt, payMethod, ruleChanges, watched>>
    BY <1>7 DEF CallFails, GiveUp, Catch, Awaiting, saleVars, ruleVars
  <2>2. call.body.route = "fraud" => call.body.item \in Item
    BY <2>1 DEF IInv, CallFits
  <2>3. QED BY <2>1, <2>2, RecommendedType DEF RestShape
<1>8. QED BY <1>3, <1>4, <1>5, <1>6, <1>7 DEF Browser

LEMMA RestOfClerk ==
    ASSUME IInv, RestShape, Clerk
    PROVE  RestShape'
<1>1. ASSUME NEW route, NEW item, NEW n, Post(route, item, n) PROVE RestShape'
  BY <1>1 DEF Post, saleVars, localVars, ruleVars, RestShape
<1>2. CASE \/ HandleStart \/ HandleCustomer \/ HandleCustomerLookup
           \/ \E i \in Item : HandleAddItem(i)
           \/ HandleSubtotal \/ HandlePay
  BY <1>1, <1>2 DEF HandleStart, HandleCustomer, HandleCustomerLookup, HandleAddItem,
                    HandleSubtotal, HandlePay
<1>3. ASSUME NEW m \in PayMethods \cup {"card"}, SetPayMethod(m) PROVE RestShape'
  BY <1>3 DEF SetPayMethod, apiVars, localVars, ruleVars, RestShape
<1>4. ASSUME NEW new, ChangeRules(new) PROVE RestShape'
  <2>1. (watched /\ new.fraud /\ new.threshold = rules.threshold) \in BOOLEAN
    OBVIOUS
  <2>2. QED BY <1>4, <2>1 DEF ChangeRules, apiVars, saleVars, localVars, RestShape
<1>5. CASE \/ \E rule \in Toggled : HandleToggle(rule)
           \/ \E age \in Ages : HandleMinAgeChange(age)
           \/ \E t \in Thresholds : HandleThresholdChange(t)
  BY <1>4, <1>5 DEF HandleToggle, HandleMinAgeChange, HandleThresholdChange
<1>6. CASE HandleReset \/ SignOut
  <2>1. /\ receipt' = 0 /\ payMethod' = "card" /\ recommended' = {}
        /\ UNCHANGED <<brokerUp, ruleChanges>>
    BY <1>6 DEF HandleReset, SignOut, FreshSale, apiVars, ruleVars
  <2>2. watched' \in BOOLEAN
    BY <1>6 DEF HandleReset, SignOut
  <2>3. QED BY <2>1, <2>2 DEF RestShape
<1>7. QED BY <1>2, <1>3, <1>5, <1>6 DEF Clerk

LEMMA RestOfApi ==
    ASSUME IInv, RestShape, Api
    PROVE  RestShape'
<1>1. UNCHANGED <<receipt, payMethod, recommended, ruleChanges, watched>>
  BY DEF Api, saleVars, localVars, ruleVars
<1>2. brokerUp' \in BOOLEAN
  BY DEF Api, ApiNext, Handle, HandleLate, Deliver, Expire, BrokerLapses, BrokerReturns, RestShape
<1>3. QED BY <1>1, <1>2 DEF RestShape

LEMMA RestNext == IInv /\ RestShape /\ [Next]_vars => RestShape'
<1>1. ASSUME RestShape, UNCHANGED vars PROVE RestShape'
  BY <1>1 DEF vars, apiVars, saleVars, localVars, ruleVars, RestShape
<1>2. QED BY <1>1, RestOfClerk, RestOfBrowser, RestOfApi DEF Next

(* Every variable of the terminal (PosTerminal.jsx, PosTerminalContext.jsx)   *)
(* and of its routes keeps its type, for any catalog; that the totals are     *)
(* numbers rests on Subtotals.                                               *)
THEOREM TypeCorrect == Spec => []TypeOK
<1>1. Init => RestShape
  <2>1. Init => brokerUp \in BOOLEAN /\ watched \in BOOLEAN
    BY DEF Init, ApiInit
  <2>2. Init => receipt = 0 /\ payMethod = "card" /\ recommended = {} /\ ruleChanges = 0
    BY DEF Init
  <2>3. QED BY <2>1, <2>2 DEF RestShape
<1>2. IInv /\ RestShape => TypeOK
  BY DEF IInv, ApiShape, SaleShape, RestShape, TypeOK, ApiTypeOK
<1>3. QED BY <1>1, <1>2, RestNext, TerminalInvariant, PTL DEF Spec

(* PosTerminal.jsx:61-221, event_routes.py: no event of a sale goes out before one of  *)
(* the kind it builds on, whichever requests are given up, repeated or handled *)
(* late; not that the events go out in the order of the steps.               *)
THEOREM EventsArePrepared == Spec => []StepsArePrepared
<1>1. IInv => StepsArePrepared
  BY DEF IInv
<1>2. QED BY <1>1, TerminalInvariant, PTL

(* PosTerminal.jsx:354: the receipt's five events are on the topic, unless the *)
(* broker kept the producer waiting.                                         *)
THEOREM ReceiptsAreBacked == Spec => []ReceiptIsBacked
<1>1. IInv => ReceiptIsBacked
  <2> SUFFICES ASSUME IInv, step = 4, lapses = 0,
                      NEW r \in {"start", "customer", "item", "subtotal", "pay"}
               PROVE  \E k \in OwnEvents \ queued : published[k].type = EventType[r]
    BY DEF ReceiptIsBacked
  <2>1. Shown(EventType[r])
    BY Types DEF IInv, Progress
  <2>2. QED BY <2>1 DEF Shown, OwnEvents
<1>2. QED BY <1>1, TerminalInvariant, PTL

(* PosTerminal.jsx:174-180: the add-ons on the screen are those of the last item *)
(* in the cart, or of the line before it while that item's alert is awaited.  *)
THEOREM SuggestionsFollow == Spec => []SuggestionsFollowTheCart
<1>1. IInv => SuggestionsFollowTheCart
  BY DEF IInv
<1>2. QED BY <1>1, TerminalInvariant, PTL

-----------------------------------------------------------------------------
(* The feed and the lines of the cart: the event of a request the page still   *)
(* awaits counts for neither.                                                *)
Pending == IF Awaiting /\ call.id > 0 THEN {call.id} ELSE {}

Lines(i) == {k \in OwnEvents : published[k].type = "item.added" /\ published[k].item = i}

FeedOK ==
    trouble = 0 =>
        /\ late = <<>>
        /\ ToSet(feed) = OwnEvents \ Pending
        /\ \A j, k \in DOMAIN feed : j < k => feed[j] > feed[k]
        /\ Awaiting /\ call.id > 0 => call.id = Len(published)

LinesOK == \A i \in Item : CartCount(i) <= Cardinality(Lines(i) \ Pending)

LEMMA PushedFirst ==
    ASSUME NEW s \in Seq(Nat), NEW x \in Nat
    PROVE  /\ ToSet(<<x>> \o s) = {x} \cup ToSet(s)
           /\ (/\ \A y \in ToSet(s) : x > y
               /\ \A j, k \in DOMAIN s : j < k => s[j] > s[k])
              => \A j, k \in DOMAIN (<<x>> \o s) : j < k => (<<x>> \o s)[j] > (<<x>> \o s)[k]
<1> DEFINE t == <<x>> \o s
<1>1. /\ DOMAIN t = 1..(Len(s) + 1) /\ Len(s) \in Nat /\ DOMAIN s = 1..Len(s)
      /\ t[1] = x
      /\ \A k \in 2..(Len(s) + 1) : t[k] = s[k - 1]
  OBVIOUS
<1> HIDE DEF t
<1>2. ASSUME NEW k \in DOMAIN t
      PROVE  (k = 1 /\ t[k] = x) \/ (k - 1 \in DOMAIN s /\ t[k] = s[k - 1])
  <2>1. CASE k = 1
    BY <1>1, <2>1
  <2>2. CASE k # 1
    <3>1. k \in 2..(Len(s) + 1) /\ k - 1 \in 1..Len(s)
      BY <1>1, <1>2, <2>2
    <3>2. QED BY <1>1, <3>1
  <2>3. QED BY <2>1, <2>2
<1>3. \A k \in DOMAIN s : k + 1 \in DOMAIN t /\ t[k + 1] = s[k]
  BY <1>1
<1>4. ToSet(t) = {x} \cup ToSet(s)
  <2>1. 1 \in DOMAIN t
    BY <1>1
  <2>2. QED BY <1>1, <1>2, <1>3, <2>1 DEF ToSet
<1>5. ASSUME \A y \in ToSet(s) : x > y,
             \A j, k \in DOMAIN s : j < k => s[j] > s[k],
             NEW j \in DOMAIN t, NEW k \in DOMAIN t, j < k
      PROVE  t[j] > t[k]
  <2>1. j \in Nat /\ k \in Nat /\ k > 1
    BY <1>1, <1>5
  <2>2. k - 1 \in DOMAIN s /\ t[k] = s[k - 1] /\ s[k - 1] \in ToSet(s)
    BY <1>2, <2>1 DEF ToSet
  <2>3. CASE j = 1
    BY <1>1, <1>5, <2>2, <2>3
  <2>4. CASE j # 1
    BY <1>2, <1>5, <2>1, <2>2, <2>4
  <2>5. QED BY <2>3, <2>4
<1>6. QED BY <1>4, <1>5 DEF t

LEMMA FiniteLines ==
    ASSUME IInv, NEW i
    PROVE  IsFiniteSet(Lines(i)) /\ IsFiniteSet(Lines(i) \ Pending)
<1>1. Lines(i) \subseteq 1..Len(published) /\ Len(published) \in Nat
  BY DEF IInv, ApiShape, Lines, OwnEvents
<1>2. IsFiniteSet(1..Len(published))
  BY <1>1, FS_Interval
<1>3. QED BY <1>1, <1>2, FS_Subset

LEMMA MoreLines ==
    ASSUME NEW S, NEW T, S \subseteq T, IsFiniteSet(T), NEW n \in Nat, n <= Cardinality(S)
    PROVE  n <= Cardinality(T)
<1>1. Cardinality(S) <= Cardinality(T) /\ Cardinality(S) \in Nat /\ Cardinality(T) \in Nat
  BY FS_Subset, FS_CardinalityType
<1>2. QED BY <1>1

LEMMA CountIsNat == ASSUME IInv, NEW i PROVE CartCount(i) \in Nat
<1>1. DOMAIN cart = 1..Len(cart) /\ Len(cart) \in Nat
  BY DEF IInv, SaleShape
<1>2. IsFiniteSet(DOMAIN cart)
  BY <1>1, FS_Interval
<1>3. QED BY <1>2, FS_Subset, FS_CardinalityType DEF CartCount

(* Steps that leave the sale and the published events alone.                  *)
LEMMA NothingNew ==
    ASSUME IInv, LinesOK, UNCHANGED <<txnId, published, cart>>,
           Pending' \subseteq Pending
    PROVE  LinesOK'
<1> SUFFICES ASSUME NEW i \in Item PROVE CartCount(i)' <= Cardinality((Lines(i) \ Pending)')
  BY DEF LinesOK
<1>1. Lines(i)' = Lines(i) /\ CartCount(i)' = CartCount(i)
  BY DEF Lines, OwnEvents, CartCount
<1>2. IsFiniteSet(Lines(i))
  BY FiniteLines
<1> DEFINE S == Lines(i) \ Pending
           T == Lines(i) \ Pending'
<1>3. S \subseteq T /\ T \subseteq Lines(i)
  OBVIOUS
<1>4. IsFiniteSet(T)
  BY <1>2, <1>3, FS_Subset
<1>5. CartCount(i) \in Nat /\ CartCount(i) <= Cardinality(S)
  BY CountIsNat DEF LinesOK
<1>6. CartCount(i) <= Cardinality(T)
  BY <1>3, <1>4, <1>5, MoreLines
<1>7. QED BY <1>1, <1>6

(* Steps that concern neither the sale nor the API.                           *)
LEMMA QuietStep ==
    ASSUME IInv, FeedOK, LinesOK, UNCHANGED <<txnId, published, cart, feed, late>>,
           trouble' \in {trouble, trouble + 1},
           \/ call' = call
           \/ ~Awaiting /\ (call' = NoCall \/ call'.id = 0)
    PROVE  FeedOK' /\ LinesOK'
<1>1. Pending' = Pending
  BY DEF Pending, Awaiting
<1>2. trouble' = 0 => trouble = 0
  BY DEF IInv, SaleShape
<1>3. OwnEvents' = OwnEvents
  BY DEF OwnEvents
<1>4. Awaiting' /\ call'.id > 0 => Awaiting /\ call' = call
  BY DEF Awaiting
<1>5. QED BY <1>1, <1>2, <1>3, <1>4, NothingNew DEF FeedOK

LEMMA HandleKeeps ==
    ASSUME IInv, IInv', FeedOK, LinesOK, Handle,
           UNCHANGED <<saleVars, localVars, ruleVars, trouble, watched>>
    PROVE  FeedOK' /\ LinesOK'
<1> DEFINE id == Len(published) + 1
           e == EventOf(call.body, id)
<1>1. /\ Awaiting /\ call.id = 0
      /\ call \in Call
      /\ call' = [call EXCEPT !.id = id]
      /\ published' = Append(published, e)
      /\ UNCHANGED <<txnId, cart, feed, trouble, late>>
  BY DEF Handle, Publish, Awaiting, IInv, ApiShape, saleVars
<1>2. published \in Seq(Event) /\ e \in Event /\ id \in Nat /\ Len(published) \in Nat
  BY <1>1, EventOfType DEF IInv, ApiShape, Call
<1>3. /\ DOMAIN published' = 1..id /\ DOMAIN published = 1..Len(published)
      /\ Len(published') = id
      /\ \A k \in DOMAIN published : published'[k] = published[k]
  BY <1>1, <1>2, Longer
<1> HIDE DEF id, e
<1>4. call'.id = id /\ id > 0 /\ Awaiting'
  BY <1>1, <1>2, NoCallIsNone DEF id, Call, Awaiting
<1>5. Pending = {} /\ Pending' = {id}
  BY <1>1, <1>4 DEF Pending
<1>6. id \notin DOMAIN published /\ \A k \in DOMAIN published' : k = id \/ k \in DOMAIN published
  BY <1>2, <1>3 DEF id
<1>7. DOMAIN published \subseteq DOMAIN published'
  BY <1>2, <1>3 DEF id
<1>8. OwnEvents' \ Pending' = OwnEvents \ Pending
  BY <1>1, <1>3, <1>5, <1>6, <1>7 DEF OwnEvents
<1>9. ASSUME NEW i PROVE (Lines(i) \ Pending)' = Lines(i) \ Pending /\ CartCount(i)' = CartCount(i)
  BY <1>1, <1>3, <1>5, <1>6, <1>7 DEF OwnEvents, Lines, CartCount
<1>10. FeedOK'
  BY <1>1, <1>3, <1>4, <1>8 DEF FeedOK
<1>11. QED BY <1>9, <1>10 DEF LinesOK

LEMMA HandleLateKeeps ==
    ASSUME IInv, IInv', FeedOK, LinesOK, NEW i \in DOMAIN late, HandleLate(i),
           UNCHANGED <<saleVars, localVars, ruleVars, trouble, watched>>
    PROVE  FeedOK' /\ LinesOK'
<1>1. late # <<>> /\ trouble' = trouble
  OBVIOUS
<1>2. FeedOK'
  BY <1>1 DEF FeedOK
<1> DEFINE id == Len(published) + 1
           e == EventOf(late[i], id)
<1>3. /\ published' = Append(published, e)
      /\ UNCHANGED <<txnId, cart, call>>
  BY DEF HandleLate, Publish, saleVars
<1>4. published \in Seq(Event) /\ e \in Event
  BY EventOfType DEF IInv, ApiShape
<1>5. /\ DOMAIN published \subseteq DOMAIN published'
      /\ \A k \in DOMAIN published : published'[k] = published[k]
  BY <1>3, <1>4, Longer
<1>6. Pending' = Pending
  BY <1>3 DEF Pending, Awaiting
<1>7. ASSUME NEW x \in Item PROVE CartCount(x)' <= Cardinality((Lines(x) \ Pending)')
  <2> DEFINE S == Lines(x) \ Pending
             T == Lines(x)' \ Pending'
  <2>1. S \subseteq T
    BY <1>3, <1>5, <1>6 DEF Lines, OwnEvents
  <2>2. T \subseteq 1..Len(published') /\ Len(published') \in Nat
    BY DEF IInv, ApiShape, Lines, OwnEvents
  <2>3. IsFiniteSet(T)
    <3>1. IsFiniteSet(1..Len(published'))
      BY <2>2, FS_Interval
    <3>2. QED BY <2>2, <3>1, FS_Subset
  <2>4. CartCount(x) \in Nat /\ CartCount(x) <= Cardinality(S) /\ CartCount(x)' = CartCount(x)
    BY <1>3, <1>7, CountIsNat DEF LinesOK, CartCount
  <2>5. CartCount(x) <= Cardinality(T)
    BY <2>1, <2>3, <2>4, MoreLines
  <2>6. QED BY <2>4, <2>5
<1>8. QED BY <1>2, <1>7 DEF LinesOK

LEMMA CatchKeeps ==
    ASSUME IInv, FeedOK, LinesOK, CallFails \/ GiveUp
    PROVE  FeedOK' /\ LinesOK'
<1>1. /\ trouble' = trouble + 1 /\ trouble \in Nat
      /\ call' = NoCall
      /\ UNCHANGED <<txnId, published, cart>>
  BY DEF CallFails, GiveUp, Catch, saleVars, IInv, SaleShape
<1>2. Pending' = {}
  BY <1>1 DEF Pending, Awaiting
<1>3. QED BY <1>1, <1>2, NothingNew DEF FeedOK

LEMMA ResetKeeps ==
    ASSUME IInv, IInv', FeedOK, LinesOK, HandleReset \/ SignOut
    PROVE  FeedOK' /\ LinesOK'
<1>1. /\ txnId' = 0 /\ cart' = <<>> /\ feed' = <<>>
      /\ published' = published
  BY FreshSaleShape DEF HandleReset, SignOut, apiVars
<1>2. \A k \in DOMAIN published' : published'[k].txn # 0
  BY DEF IInv, Numbered
<1>3. OwnEvents' = {}
  BY <1>1, <1>2 DEF OwnEvents
<1>4. trouble' = 0 => trouble = 0 /\ late' = late
  BY DEF HandleReset, SignOut, apiVars, IInv, SaleShape, Abandoned
<1>5. /\ \A i : Lines(i)' = {}
      /\ \A i : CartCount(i)' = Cardinality({})
  BY <1>1, <1>3 DEF Lines, CartCount
<1>6. LinesOK'
  BY <1>5, FS_EmptySet DEF LinesOK
<1>7. trouble' = 0 => ~Awaiting'
  <2>1. CASE HandleReset
    <3>1. ~Awaiting
      <4>1. Awaiting => call.body.route \in Route
        BY CallPrepared DEF Body
      <4>2. step = 4
        BY <2>1 DEF HandleReset
      <4>3. QED BY <4>1, <4>2 DEF IInv, CallFits, Route
    <3>2. QED BY <2>1, <3>1 DEF HandleReset, apiVars, Awaiting
  <2>2. CASE SignOut
    BY <2>2 DEF SignOut, Awaiting
  <2>3. QED BY <2>1, <2>2
<1>8. ToSet(feed') = {}
  BY <1>1 DEF ToSet
<1>9. FeedOK'
  BY <1>1, <1>3, <1>4, <1>7, <1>8 DEF FeedOK
<1>10. QED BY <1>6, <1>9

(* An answered request puts its event, the newest of all, in front.           *)
LEMMA FeedAnswered ==
    ASSUME IInv, FeedOK, NEW r \in Route, Answered(r), AddEvent,
           UNCHANGED <<published, trouble, late>>,
           \/ txnId' = txnId /\ r # "start"
           \/ txnId' = call.id /\ r = "start",
           call' = NoCall \/ call'.id = 0
    PROVE  FeedOK'
<1>1. /\ Awaiting /\ call.body.route = r
      /\ call.id \in DOMAIN published /\ call.id \in Nat /\ call.id > 0
      /\ published[call.id].txn = IF r = "start" THEN call.id ELSE txnId
  BY AnswerFacts
<1> SUFFICES ASSUME trouble = 0 PROVE FeedOK'
  BY DEF FeedOK
<1>2. /\ late = <<>>
      /\ ToSet(feed) = OwnEvents \ {call.id}
      /\ \A j, k \in DOMAIN feed : j < k => feed[j] > feed[k]
      /\ call.id = Len(published)
  BY <1>1 DEF FeedOK, Pending
<1>3. Pending' = {}
  BY DEF Pending, Awaiting
<1>4. feed \in Seq(Nat) /\ feed' = <<call.id>> \o feed
  BY DEF IInv, SaleShape, AddEvent
<1>5. OwnEvents' = {call.id} \cup (OwnEvents \ {call.id})
  <2>1. CASE r # "start"
    BY <1>1, <2>1 DEF OwnEvents
  <2>2. CASE r = "start"
    <3>1. txnId = 0 /\ OwnEvents = {}
      BY <1>1, <2>2 DEF IInv, CallFits, Numbered, OwnEvents
    <3>2. \A k \in DOMAIN published : published[k].txn = call.id <=> k = call.id
      BY <1>1, <2>2 DEF IInv, CallPublished
    <3>3. OwnEvents' = {call.id}
      BY <1>1, <2>2, <3>2 DEF OwnEvents
    <3>4. QED BY <3>1, <3>3
  <2>3. QED BY <2>1, <2>2
<1>6. \A y \in ToSet(feed) : call.id > y
  <2>1. DOMAIN published = 1..Len(published) /\ Len(published) \in Nat
    BY DEF IInv, ApiShape
  <2>2. QED BY <1>2, <2>1 DEF OwnEvents
<1>7. /\ ToSet(feed') = {call.id} \cup ToSet(feed)
      /\ \A j, k \in DOMAIN feed' : j < k => feed'[j] > feed'[k]
  BY <1>1, <1>2, <1>4, <1>6, PushedFirst
<1>8. Awaiting' => ~(call'.id > 0)
  BY DEF Awaiting
<1>9. QED BY <1>2, <1>3, <1>5, <1>7, <1>8 DEF FeedOK

LEMMA LinesAnswered ==
    ASSUME IInv, LinesOK, NEW r \in Route, Answered(r),
           UNCHANGED <<published, cart>>,
           \/ txnId' = txnId /\ r # "start"
           \/ txnId' = call.id /\ r = "start",
           call' = NoCall
    PROVE  LinesOK'
<1>1. Pending' = {}
  BY DEF Pending, Awaiting
<1>2. CASE r # "start"
  BY <1>1, <1>2, NothingNew
<1>3. CASE r = "start"
  <2>1. step = 0
    BY <1>3, AnswerFacts DEF IInv, CallFits
  <2>2. cart = <<>>
    BY <2>1 DEF IInv, Progress
  <2>3. ASSUME NEW i \in Item PROVE CartCount(i)' <= Cardinality((Lines(i) \ Pending)')
    <3>1. CartCount(i)' = 0
      BY <2>2, FS_EmptySet DEF CartCount
    <3>2. (Lines(i) \ Pending)' \subseteq 1..Len(published) /\ Len(published) \in Nat
      BY DEF IInv, ApiShape, Lines, OwnEvents
    <3>3. IsFiniteSet(1..Len(published))
      BY <3>2, FS_Interval
    <3>4. Cardinality((Lines(i) \ Pending)') \in Nat
      BY <3>2, <3>3, FS_Subset, FS_CardinalityType
    <3>5. QED BY <3>1, <3>4
  <2>4. QED BY <2>3 DEF LinesOK
<1>4. QED BY <1>2, <1>3

(* The new line of the cart is backed by the event that was pending.          *)
LEMMA LinesOfItem ==
    ASSUME IInv, LinesOK, ItemAnswered
    PROVE  LinesOK'
<1>1. "item" \in Route
  BY DEF Route
<1> PICK item \in Item : call.body.item = item
  BY <1>1, AnswerFacts DEF ItemAnswered, IInv, CallFits
<1>2. /\ Awaiting /\ call.body.route = "item" /\ call \in Call
      /\ call.id \in DOMAIN published /\ call.id > 0
      /\ published[call.id].type = "item.added"
      /\ published[call.id].txn = txnId
      /\ published[call.id].item = item
  <2>1. published[call.id] = EventOf(call.body, call.id)
    BY <1>1, AnswerFacts DEF ItemAnswered, IInv, CallPublished
  <2>2. QED BY <1>1, <2>1, AnswerFacts, Types DEF ItemAnswered, IInv, CallFits, EventOf
<1>3. /\ cart' = Append(cart, item)
      /\ UNCHANGED <<txnId, published>>
      /\ call' = NoCall \/ call'.id = 0
  <2>1. cart' = Append(cart, item) /\ UNCHANGED <<txnId, published>>
    BY DEF ItemAnswered, Done
  <2>2. call' = NoCall \/ call' = [call EXCEPT !.body.route = "fraud",
                                               !.body.n = itemCounts[item] + 1, !.id = 0]
    BY DEF ItemAnswered, Done
  <2>3. QED BY <1>2, <2>1, <2>2 DEF Call
<1>4. Pending = {call.id} /\ Pending' = {}
  BY <1>2, <1>3 DEF Pending, Awaiting
<1>5. /\ DOMAIN cart' = DOMAIN cart \cup {Len(cart) + 1} /\ Len(cart) + 1 \notin DOMAIN cart
      /\ cart'[Len(cart) + 1] = item
      /\ \A k \in DOMAIN cart : cart'[k] = cart[k]
      /\ DOMAIN cart = 1..Len(cart) /\ Len(cart) \in Nat
  BY <1>2, <1>3, Longer DEF IInv, SaleShape
<1>6. ASSUME NEW i \in Item, i # item PROVE CartCount(i)' <= Cardinality((Lines(i) \ Pending)')
  <2>1. CartCount(i)' = CartCount(i)
    <3>1. {k \in DOMAIN cart' : cart'[k] = i} = {k \in DOMAIN cart : cart[k] = i}
      BY <1>5, <1>6
    <3>2. QED BY <3>1 DEF CartCount
  <2>2. (Lines(i) \ Pending)' = Lines(i) \ Pending
    BY <1>2, <1>3, <1>4, <1>6 DEF Lines, OwnEvents
  <2>3. QED BY <2>1, <2>2 DEF LinesOK
<1>7. CartCount(item)' <= Cardinality((Lines(item) \ Pending)')
  <2> DEFINE C == {k \in DOMAIN cart : cart[k] = item}
             S == Lines(item) \ Pending
  <2>1. IsFiniteSet(C)
    <3>1. IsFiniteSet(DOMAIN cart)
      BY <1>5, FS_Interval
    <3>2. QED BY <3>1, FS_Subset
  <2>2. {k \in DOMAIN cart' : cart'[k] = item} = C \cup {Len(cart) + 1}
    BY <1>5
  <2>3. CartCount(item)' = Cardinality(C) + 1 /\ Cardinality(C) \in Nat
    <3>1. Len(cart) + 1 \notin C
      BY <1>5
    <3>2. Cardinality(C \cup {Len(cart) + 1}) = Cardinality(C) + 1
      BY <2>1, <3>1, FS_AddElement
    <3>3. Cardinality(C) \in Nat
      BY <2>1, FS_CardinalityType
    <3>4. QED BY <2>2, <3>2, <3>3, <1>3 DEF CartCount
  <2>4. IsFiniteSet(S) /\ call.id \notin S
    BY <1>4, FiniteLines
  <2>5. Lines(item)' \ Pending' = S \cup {call.id}
    BY <1>2, <1>3, <1>4 DEF Lines, OwnEvents
  <2>6. Cardinality(S \cup {call.id}) = Cardinality(S) + 1 /\ Cardinality(S) \in Nat
    BY <2>4, FS_AddElement, FS_CardinalityType
  <2>7. Cardinality(C) <= Cardinality(S)
    BY DEF LinesOK, CartCount
  <2>8. QED BY <2>3, <2>5, <2>6, <2>7
<1>8. ASSUME NEW i \in Item PROVE CartCount(i)' <= Cardinality((Lines(i) \ Pending)')
  <2>1. CASE i = item
    BY <1>7, <2>1
  <2>2. CASE i # item
    BY <1>6, <2>2
  <2>3. QED BY <2>1, <2>2
<1>9. QED BY <1>8 DEF LinesOK

-----------------------------------------------------------------------------
LEMMA BrowserKeeps ==
    ASSUME IInv, IInv', FeedOK, LinesOK, Browser
    PROVE  FeedOK' /\ LinesOK'
<1>1. {"start", "customer", "lookup", "item", "fraud", "subtotal", "pay"} \subseteq Route
  BY DEF Route
<1>2. CASE StartAnswered
  <2>1. txnId' = call.id
    BY <1>1, <1>2, AnswerFacts DEF StartAnswered
  <2>2. /\ Answered("start") /\ AddEvent /\ call' = NoCall
        /\ UNCHANGED <<published, trouble, late, cart>>
    BY <1>2 DEF StartAnswered, Done
  <2>3. QED BY <1>1, <2>1, <2>2, FeedAnswered, LinesAnswered
<1>3. ASSUME NEW r \in Route \ {"start", "item"}, Answered(r), AddEvent, call' = NoCall,
             UNCHANGED <<txnId, published, trouble, late, cart>>
      PROVE  FeedOK' /\ LinesOK'
  BY <1>3, FeedAnswered, LinesAnswered
<1>4. CASE CustomerAnswered
  BY <1>1, <1>3, <1>4 DEF CustomerAnswered, Done
<1>5. CASE FraudAnswered \/ SubtotalAnswered \/ PayAnswered
  BY <1>1, <1>3, <1>5 DEF FraudAnswered, SubtotalAnswered, PayAnswered, Done
<1>6. CASE ItemAnswered
  <2>1. /\ Answered("item") /\ AddEvent
        /\ UNCHANGED <<txnId, published, trouble, late>>
    BY <1>6 DEF ItemAnswered, Done
  <2>2. call' = NoCall \/ call'.id = 0
    <3>1. call \in Call
      BY <1>1, <2>1, AnswerFacts
    <3>2. call' = NoCall \/ call' = [call EXCEPT !.body.route = "fraud",
                                                 !.body.n = itemCounts[call.body.item] + 1, !.id = 0]
      BY <1>6 DEF ItemAnswered, Done
    <3>3. QED BY <3>1, <3>2 DEF Call
  <2>3. FeedOK'
    BY <1>1, <2>1, <2>2, FeedAnswered
  <2>4. QED BY <1>6, <2>3, LinesOfItem
<1>7. CASE CallFails \/ GiveUp
  BY <1>7, CatchKeeps
<1>8. QED BY <1>2, <1>4, <1>5, <1>6, <1>7 DEF Browser

LEMMA ClerkKeeps ==
    ASSUME IInv, IInv', FeedOK, LinesOK, Clerk
    PROVE  FeedOK' /\ LinesOK'
<1>1. ASSUME NEW route, NEW item, NEW n, Post(route, item, n) PROVE FeedOK' /\ LinesOK'
  <2>1. /\ ~Awaiting /\ call'.id = 0
        /\ UNCHANGED <<txnId, published, cart, feed, late, trouble>>
    BY <1>1 DEF Post, Awaiting, saleVars
  <2>2. QED BY <2>1, QuietStep
<1>2. CASE \/ HandleStart \/ HandleCustomer \/ HandleCustomerLookup
           \/ \E i \in Item : HandleAddItem(i)
           \/ HandleSubtotal \/ HandlePay
  BY <1>1, <1>2 DEF HandleStart, HandleCustomer, HandleCustomerLookup, HandleAddItem,
                    HandleSubtotal, HandlePay
<1>3. CASE \/ \E m \in PayMethods \cup {"card"} : SetPayMethod(m)
           \/ \E rule \in Toggled : HandleToggle(rule)
           \/ \E age \in Ages : HandleMinAgeChange(age)
           \/ \E t \in Thresholds : HandleThresholdChange(t)
  <2>1. UNCHANGED <<call, txnId, published, cart, feed, late, trouble>>
    BY <1>3 DEF SetPayMethod, HandleToggle, HandleMinAgeChange, HandleThresholdChange, ChangeRules,
                apiVars, saleVars
  <2>2. QED BY <2>1, QuietStep
<1>4. CASE HandleReset \/ SignOut
  BY <1>4, ResetKeeps
<1>5. QED BY <1>2, <1>3, <1>4 DEF Clerk

LEMMA ApiKeeps ==
    ASSUME IInv, IInv', FeedOK, LinesOK, Api
    PROVE  FeedOK' /\ LinesOK'
<1>1. CASE BrokerLapses \/ BrokerReturns \/ \E id \in queued : Deliver(id) \/ Expire(id)
  <2>1. UNCHANGED <<call, txnId, published, cart, feed, late, trouble>>
    BY <1>1 DEF Api, BrokerLapses, BrokerReturns, Deliver, Expire, saleVars
  <2>2. QED BY <2>1, QuietStep
<1>2. QED BY <1>1, HandleKeeps, HandleLateKeeps DEF Api, ApiNext

LEMMA KeepsNext == IInv /\ IInv' /\ FeedOK /\ LinesOK /\ [Next]_vars => FeedOK' /\ LinesOK'
<1>1. ASSUME IInv, FeedOK, LinesOK, UNCHANGED vars PROVE FeedOK' /\ LinesOK'
  <2>1. UNCHANGED <<call, txnId, published, cart, feed, late, trouble>>
    BY <1>1 DEF vars, apiVars, saleVars
  <2>2. QED BY <1>1, <2>1, QuietStep
<1>2. QED BY <1>1, ClerkKeeps, BrowserKeeps, ApiKeeps DEF Next

LEMMA KeepsInit == Init => FeedOK /\ LinesOK
<1> SUFFICES ASSUME Init PROVE FeedOK /\ LinesOK
  OBVIOUS
<1>1. published = <<>> /\ feed = <<>> /\ cart = <<>> /\ late = <<>> /\ ~Awaiting
  BY DEF Init, ApiInit, Awaiting
<1>2. OwnEvents = {} /\ ToSet(feed) = {}
  BY <1>1 DEF OwnEvents, ToSet
<1>3. FeedOK
  BY <1>1, <1>2 DEF FeedOK
<1>4. ASSUME NEW i \in Item PROVE CartCount(i) <= Cardinality(Lines(i) \ Pending)
  <2>1. Lines(i) \ Pending = {} /\ CartCount(i) = Cardinality({})
    BY <1>1, <1>2 DEF Lines, CartCount
  <2>2. QED BY <2>1, FS_EmptySet
<1>5. QED BY <1>3, <1>4 DEF LinesOK

LEMMA FeedAndLines == Spec => [](IInv /\ FeedOK /\ LinesOK)
BY InitOK, NextOK, KeepsInit, KeepsNext, PTL DEF Spec

(* PosTerminalContext.jsx:31, addEvent: the feed shows the events of the            *)
(* transaction in hand, newest first, as long as no request fails.            *)
THEOREM FeedsAreFaithful == Spec => []FeedIsFaithful
<1>1. IInv /\ FeedOK => FeedIsFaithful
  BY DEF FeedOK, FeedIsFaithful, Pending, Awaiting
<1>2. QED BY <1>1, FeedAndLines, PTL

(* PosTerminal.jsx:188-219, handleSubtotal and handlePay: the customer pays for  *)
(* the cart on the screen, and every line of it has an event.                 *)
THEOREM CartsAreCharged == Spec => []ChargedForTheCart
<1>1. IInv /\ LinesOK => ChargedForTheCart
  <2> SUFFICES ASSUME IInv, LinesOK PROVE ChargedForTheCart
    OBVIOUS
  <2>1. step >= 3 => totals = Total(Subtotal(cart))
    BY DEF IInv, Paid
  <2>2. \A k \in OwnEvents :
          published[k].type = "payment.completed" => published[k].n = Total(Subtotal(cart))
    BY <2>1 DEF IInv, Paid, OwnEvents
  <2>3. ASSUME NEW i \in Item
        PROVE  CartCount(i) <= Cardinality({k \in OwnEvents :
                          published[k].type = "item.added" /\ published[k].item = i})
    <3>1. CartCount(i) \in Nat /\ CartCount(i) <= Cardinality(Lines(i) \ Pending)
      BY CountIsNat DEF LinesOK
    <3>2. CartCount(i) <= Cardinality(Lines(i))
      BY <3>1, FiniteLines, MoreLines
    <3>3. QED BY <3>2 DEF Lines
  <2>4. QED BY <2>1, <2>2, <2>3 DEF ChargedForTheCart
<1>2. QED BY <1>1, FeedAndLines, PTL

-----------------------------------------------------------------------------
(* The counts of the fraud rule and the alerts: while the rule is watched and  *)
(* nothing fails, the counts are those of the cart, and each item above the    *)
(* threshold has its alert or the page is about to post it.                   *)
Alerted(i, n) ==
    \E k \in OwnEvents : /\ published[k].type = "fraud.alerted"
                         /\ published[k].item = i
                         /\ published[k].n = n

AlertDue(i, n) ==
    Awaiting /\ call.body.route = "fraud" /\ call.id = 0 /\ call.body.item = i /\ call.body.n = n

Watching ==
    watched /\ trouble = 0 =>
        /\ rules.fraud
        /\ \A i \in Item : itemCounts[i] = CartCount(i)
        /\ Awaiting => call.seen.fraud /\ call.seen.threshold = rules.threshold
        /\ \A i \in Item, n \in Nat :
              Alerted(i, n) \/ AlertDue(i, n) <=> n \in (rules.threshold + 1)..CartCount(i)

CountsOK == \A i \in Item : itemCounts[i] <= CartCount(i)

LEMMA OneMore ==
    ASSUME IInv, NEW item \in Item, cart' = Append(cart, item)
    PROVE  /\ CartCount(item)' = CartCount(item) + 1
           /\ \A i \in Item : i # item => CartCount(i)' = CartCount(i)
<1> DEFINE C == {k \in DOMAIN cart : cart[k] = item}
<1>1. /\ DOMAIN cart' = DOMAIN cart \cup {Len(cart) + 1} /\ Len(cart) + 1 \notin DOMAIN cart
      /\ cart'[Len(cart) + 1] = item
      /\ \A k \in DOMAIN cart : cart'[k] = cart[k]
      /\ DOMAIN cart = 1..Len(cart) /\ Len(cart) \in Nat
  BY Longer DEF IInv, SaleShape
<1>2. ASSUME NEW i \in Item, i # item PROVE CartCount(i)' = CartCount(i)
  <2>1. {k \in DOMAIN cart' : cart'[k] = i} = {k \in DOMAIN cart : cart[k] = i}
    BY <1>1, <1>2
  <2>2. QED BY <2>1 DEF CartCount
<1>3. IsFiniteSet(C) /\ Len(cart) + 1 \notin C
  <2>1. IsFiniteSet(DOMAIN cart)
    BY <1>1, FS_Interval
  <2>2. QED BY <1>1, <2>1, FS_Subset
<1>4. {k \in DOMAIN cart' : cart'[k] = item} = C \cup {Len(cart) + 1}
  BY <1>1
<1>5. Cardinality(C \cup {Len(cart) + 1}) = Cardinality(C) + 1
  BY <1>3, FS_AddElement
<1>6. QED BY <1>2, <1>4, <1>5 DEF CartCount

(* A step that publishes nothing and leaves the cart and its counts alone; it  *)
(* may end a wait, but not the one for an alert that is not published yet.     *)
LEMMA NothingCounted ==
    ASSUME IInv, Watching, UNCHANGED <<txnId, published, cart, itemCounts>>,
           watched' /\ trouble' = 0 =>
               watched /\ trouble = 0 /\ rules'.fraud /\ rules'.threshold = rules.threshold,
           \/ call' = call
           \/ call' = NoCall /\ \A i, n : ~AlertDue(i, n)
           \/ /\ ~Awaiting
              /\ call'.body.route # "fraud" /\ call'.seen = rules' /\ rules' = rules
    PROVE  Watching'
<1> SUFFICES ASSUME watched', trouble' = 0 PROVE Watching'
  BY DEF Watching
<1>1. watched /\ trouble = 0 /\ rules'.fraud /\ rules'.threshold = rules.threshold
  OBVIOUS
<1>2. ASSUME NEW i, NEW n PROVE AlertDue(i, n)' <=> AlertDue(i, n)
  BY DEF AlertDue, Awaiting
<1>3. ASSUME NEW i, NEW n PROVE (Alerted(i, n)' <=> Alerted(i, n)) /\ CartCount(i)' = CartCount(i)
  BY DEF Alerted, OwnEvents, CartCount
<1>4. Awaiting' => call'.seen.fraud /\ call'.seen.threshold = rules'.threshold
  BY <1>1 DEF Watching, Awaiting
<1>5. QED BY <1>1, <1>2, <1>3, <1>4 DEF Watching

LEMMA CountsStay ==
    ASSUME CountsOK, UNCHANGED <<cart, itemCounts>>
    PROVE  CountsOK'
BY DEF CountsOK, CartCount

LEMMA HandleWatched ==
    ASSUME IInv, Watching, Handle, UNCHANGED <<saleVars, localVars, ruleVars, trouble, watched>>
    PROVE  Watching'
<1> DEFINE id == Len(published) + 1
           e == EventOf(call.body, id)
<1>1. /\ Awaiting /\ call.id = 0
      /\ call \in Call
      /\ call' = [call EXCEPT !.id = id]
      /\ published' = Append(published, e)
      /\ UNCHANGED <<txnId, cart, itemCounts, rules, trouble, watched>>
  BY DEF Handle, Publish, Awaiting, IInv, ApiShape, saleVars, localVars, ruleVars
<1>2. published \in Seq(Event) /\ e \in Event /\ id \in Nat /\ Len(published) \in Nat
  BY <1>1, EventOfType DEF IInv, ApiShape, Call
<1>3. /\ DOMAIN published' = 1..id /\ DOMAIN published = 1..Len(published)
      /\ \A k \in DOMAIN published : published'[k] = published[k]
      /\ published'[id] = e
  BY <1>1, <1>2, Longer
<1>4. /\ e.type = EventType[call.body.route] /\ e.item = call.body.item /\ e.n = call.body.n
      /\ call.body.route # "start" => e.txn = txnId
      /\ call.body.route \in Route
  BY <1>1 DEF EventOf, IInv, CallFits, Call, Body
<1> HIDE DEF e, id
<1>5. id \in DOMAIN published' /\ \A k \in DOMAIN published' : k = id \/ k \in DOMAIN published
  BY <1>2, <1>3 DEF id
<1>6. DOMAIN published \subseteq DOMAIN published'
  BY <1>2, <1>3 DEF id
<1>7. call'.body = call.body /\ call'.seen = call.seen /\ call'.id # 0 /\ Awaiting'
  <2>1. call' \in Call /\ call'.body = call.body /\ call'.seen = call.seen /\ call'.id = id
    BY <1>1, <1>2 DEF Call
  <2>2. id # 0
    BY <1>2 DEF id
  <2>3. QED BY <2>1, <2>2, NoCallIsNone DEF Awaiting
<1>8. e.type = "fraud.alerted" <=> call.body.route = "fraud"
  BY <1>4, Types DEF Route
<1>9. ASSUME NEW i, NEW n PROVE Alerted(i, n)' <=> Alerted(i, n) \/ AlertDue(i, n)
  <2>1. ASSUME Alerted(i, n) PROVE Alerted(i, n)'
    BY <1>1, <1>3, <1>6, <2>1 DEF Alerted, OwnEvents
  <2>2. ASSUME AlertDue(i, n) PROVE Alerted(i, n)'
    <3>1. e.type = "fraud.alerted" /\ e.txn = txnId /\ e.item = i /\ e.n = n
      BY <1>4, <1>8, <2>2 DEF AlertDue
    <3>2. QED BY <1>1, <1>3, <1>5, <3>1 DEF Alerted, OwnEvents
  <2>3. ASSUME Alerted(i, n)', ~Alerted(i, n) PROVE AlertDue(i, n)
    <3>1. PICK k \in DOMAIN published' : /\ published'[k].txn = txnId
                                        /\ published'[k].type = "fraud.alerted"
                                        /\ published'[k].item = i
                                        /\ published'[k].n = n
      BY <1>1, <2>3 DEF Alerted, OwnEvents
    <3>2. k \notin DOMAIN published
      BY <1>3, <2>3, <3>1 DEF Alerted, OwnEvents
    <3>3. published'[k] = e
      BY <1>3, <1>5, <3>2
    <3>4. QED BY <1>1, <1>4, <1>8, <3>1, <3>3 DEF AlertDue
  <2>4. QED BY <2>1, <2>2, <2>3
<1>10. ASSUME NEW i, NEW n PROVE ~AlertDue(i, n)'
  BY <1>7 DEF AlertDue
<1> SUFFICES ASSUME watched, trouble = 0 PROVE Watching'
  BY <1>1 DEF Watching
<1>11. \A i : CartCount(i)' = CartCount(i)
  BY <1>1 DEF CartCount
<1>12. QED BY <1>1, <1>7, <1>9, <1>10, <1>11 DEF Watching

LEMMA StartWatched ==
    ASSUME IInv, Watching, CountsOK, StartAnswered
    PROVE  Watching'
<1>1. "start" \in Route
  BY DEF Route
<1>2. /\ Awaiting /\ call.body.route = "start"
      /\ call.id \in DOMAIN published
      /\ published[call.id].type = "transaction.started"
  BY <1>1, AnswerFacts, Types DEF StartAnswered
<1>3. /\ txnId' = call.id /\ call' = NoCall /\ watched' = rules.fraud
      /\ UNCHANGED <<published, cart, itemCounts, rules>>
  <2>1. Answered("start") /\ txnId' = published[call.id].txn
    BY DEF StartAnswered
  <2>2. published[call.id].txn = call.id
    BY <1>1, <2>1, AnswerFacts
  <2>3. QED BY <2>1, <2>2 DEF StartAnswered, Done, localVars, ruleVars
<1>4. cart = <<>> /\ \A i : CartCount(i) = 0
  <2>1. cart = <<>>
    BY <1>2 DEF IInv, CallFits, Progress
  <2>2. QED BY <2>1, FS_EmptySet DEF CartCount
<1>5. \A i \in Item : itemCounts[i] = 0
  BY <1>4 DEF CountsOK, IInv, SaleShape
<1>6. ASSUME NEW i, NEW n PROVE ~AlertDue(i, n)' /\ ~Alerted(i, n)'
  <2>1. \A k \in DOMAIN published : published[k].txn = call.id => k = call.id
    BY <1>2, <1>3 DEF IInv, CallPublished, StartAnswered, Answered
  <2>2. ~Alerted(i, n)'
    BY <1>2, <1>3, <2>1 DEF Alerted, OwnEvents
  <2>3. QED BY <1>3, <2>2 DEF AlertDue, Awaiting
<1>7. \A i : CartCount(i)' = 0
  BY <1>3, <1>4 DEF CartCount
<1>8. \A n \in Nat : n \notin (rules.threshold + 1)..0
  BY DEF IInv, SaleShape, Rules
<1>9. QED BY <1>3, <1>5, <1>6, <1>7, <1>8 DEF Watching, Awaiting

(* The count of the item goes up with the cart, and decides about the alert.   *)
LEMMA ItemWatched ==
    ASSUME IInv, Watching, CountsOK, ItemAnswered
    PROVE  Watching' /\ CountsOK'
<1>1. "item" \in Route
  BY DEF Route
<1> PICK item \in Item : call.body.item = item
  BY <1>1, AnswerFacts DEF ItemAnswered, IInv, CallFits
<1> DEFINE alert == [call EXCEPT !.body.route = "fraud", !.body.n = itemCounts[item] + 1, !.id = 0]
<1>2. /\ Awaiting /\ call \in Call /\ call.body.route = "item"
      /\ itemCounts[item] \in Nat /\ itemCounts \in [Item -> Nat]
      /\ rules.threshold \in Nat
  BY <1>1, AnswerFacts DEF ItemAnswered, IInv, CallFits, SaleShape, Rules
<1>3. /\ cart' = Append(cart, item)
      /\ itemCounts' = IF call.seen.fraud THEN [itemCounts EXCEPT ![item] = @ + 1] ELSE itemCounts
      /\ IF Suspicious(item) THEN call' = alert ELSE call' = NoCall
      /\ UNCHANGED <<txnId, published, rules, trouble, watched>>
  BY DEF ItemAnswered, Done, ruleVars
<1>4. /\ alert.body.route = "fraud" /\ alert.body.item = item /\ alert.body.n = itemCounts[item] + 1
      /\ alert.id = 0 /\ alert.seen = call.seen
      /\ alert # NoCall
  <2>1. itemCounts[item] + 1 \in Nat /\ "fraud" \in Route
    BY <1>2 DEF Route
  <2>2. alert \in Call /\ alert.body.route = "fraud" /\ alert.id = 0
    BY <1>2, <2>1 DEF Call, Body
  <2>3. alert.body.item = item /\ alert.body.n = itemCounts[item] + 1 /\ alert.seen = call.seen
    BY <1>2, <2>1 DEF Call, Body
  <2>4. QED BY <2>2, <2>3, NoCallIsNone
<1> HIDE DEF alert
<1>5. /\ CartCount(item)' = CartCount(item) + 1
      /\ \A i \in Item : i # item => CartCount(i)' = CartCount(i)
      /\ \A i : CartCount(i) \in Nat
  BY <1>2, <1>3, OneMore, CountIsNat
<1>6. /\ call.seen.fraud => itemCounts'[item] = itemCounts[item] + 1
      /\ ~call.seen.fraud => itemCounts'[item] = itemCounts[item]
      /\ \A i \in Item : i # item => itemCounts'[i] = itemCounts[i]
  BY <1>2, <1>3
<1>7. CountsOK'
  <2>1. ASSUME NEW i \in Item PROVE itemCounts'[i] <= CartCount(i)'
    <3>1. itemCounts[i] \in Nat /\ itemCounts[i] <= CartCount(i) /\ CartCount(i) \in Nat
      BY <1>2, <1>5 DEF CountsOK
    <3>2. CASE i = item
      BY <1>5, <1>6, <3>1, <3>2
    <3>3. CASE i # item
      BY <1>5, <1>6, <3>1, <3>3
    <3>4. QED BY <3>2, <3>3
  <2>2. QED BY <2>1 DEF CountsOK
<1>8. ASSUME watched, trouble = 0
      PROVE  Watching'
  <2>1. /\ rules.fraud /\ call.seen.fraud /\ call.seen.threshold = rules.threshold
        /\ \A i \in Item : itemCounts[i] = CartCount(i)
    BY <1>2, <1>8 DEF Watching
  <2>2. \A i \in Item : itemCounts'[i] = CartCount(i)'
    BY <1>5, <1>6, <2>1
  <2>3. Suspicious(item) <=> CartCount(item) + 1 > rules.threshold
    BY <1>2, <2>1 DEF Suspicious
  <2>4. Awaiting' => call'.seen.fraud /\ call'.seen.threshold = rules'.threshold
    BY <1>3, <1>4, <2>1 DEF Awaiting
  <2>5. ASSUME NEW i, NEW n PROVE (Alerted(i, n)' <=> Alerted(i, n)) /\ ~AlertDue(i, n)
    BY <1>2, <1>3 DEF Alerted, OwnEvents, AlertDue
  <2>6. ASSUME NEW i, NEW n
        PROVE  AlertDue(i, n)' <=> Suspicious(item) /\ i = item /\ n = CartCount(item) + 1
    <3>1. CASE Suspicious(item)
      BY <1>2, <1>3, <1>4, <2>1, <3>1 DEF AlertDue, Awaiting
    <3>2. CASE ~Suspicious(item)
      BY <1>3, <3>2 DEF AlertDue, Awaiting
    <3>3. QED BY <3>1, <3>2
  <2>7. ASSUME NEW i \in Item, NEW n \in Nat
        PROVE  (Alerted(i, n) \/ AlertDue(i, n))' <=> n \in (rules.threshold + 1)..CartCount(i)'
    <3>1. Alerted(i, n) <=> n \in (rules.threshold + 1)..CartCount(i)
      BY <1>8, <2>5 DEF Watching
    <3>2. CASE i = item
      <4>1. AlertDue(i, n)' <=> CartCount(i) + 1 > rules.threshold /\ n = CartCount(i) + 1
        BY <2>3, <2>6, <3>2
      <4>2. CartCount(i)' = CartCount(i) + 1 /\ CartCount(i) \in Nat /\ rules.threshold \in Nat
        BY <1>2, <1>5, <3>2
      <4>3. n \in (rules.threshold + 1)..(CartCount(i) + 1)
              <=> \/ n \in (rules.threshold + 1)..CartCount(i)
                  \/ CartCount(i) + 1 > rules.threshold /\ n = CartCount(i) + 1
        BY <4>2
      <4>4. QED BY <2>5, <3>1, <4>1, <4>2, <4>3
    <3>3. CASE i # item
      BY <1>5, <2>5, <2>6, <3>1, <3>3
    <3>4. QED BY <3>2, <3>3
  <2>8. QED BY <1>3, <2>1, <2>2, <2>4, <2>7 DEF Watching
<1>9. QED BY <1>3, <1>7, <1>8 DEF Watching

LEMMA BrowserWatched ==
    ASSUME IInv, Watching, CountsOK, Browser
    PROVE  Watching' /\ CountsOK'
<1>1. {"customer", "lookup", "fraud", "subtotal", "pay"} \subseteq Route
  BY DEF Route
<1>2. CASE StartAnswered
  <2>1. UNCHANGED <<cart, itemCounts>>
    BY <1>2 DEF StartAnswered, localVars
  <2>2. QED BY <1>2, <2>1, StartWatched, CountsStay
<1>3. ASSUME NEW r \in Route, Answered(r), call' = NoCall,
             UNCHANGED <<txnId, published, cart, itemCounts, rules, trouble, watched>>
      PROVE  Watching' /\ CountsOK'
  <2>1. \A i, n : ~AlertDue(i, n)
    BY <1>3 DEF Answered, AlertDue
  <2>2. watched /\ trouble = 0 => rules.fraud
    BY DEF Watching
  <2>3. QED BY <1>3, <2>1, <2>2, NothingCounted, CountsStay
<1>4. CASE CustomerAnswered
  BY <1>1, <1>3, <1>4 DEF CustomerAnswered, Done, localVars, ruleVars
<1>5. CASE FraudAnswered \/ SubtotalAnswered \/ PayAnswered
  BY <1>1, <1>3, <1>5 DEF FraudAnswered, SubtotalAnswered, PayAnswered, Done, localVars, ruleVars
<1>6. CASE ItemAnswered
  BY <1>6, ItemWatched
<1>7. CASE CallFails \/ GiveUp
  <2>1. trouble' = trouble + 1 /\ trouble \in Nat /\ UNCHANGED <<cart, itemCounts>>
    BY <1>7 DEF CallFails, GiveUp, Catch, saleVars, IInv, SaleShape
  <2>2. QED BY <2>1, CountsStay DEF Watching
<1>8. QED BY <1>2, <1>4, <1>5, <1>6, <1>7 DEF Browser

LEMMA ClerkWatched ==
    ASSUME IInv, Watching, CountsOK, Clerk
    PROVE  Watching' /\ CountsOK'
<1>1. watched /\ trouble = 0 => rules.fraud
  BY DEF Watching
<1>2. ASSUME NEW route \in Route \ {"fraud"}, NEW item, NEW n, Post(route, item, n)
      PROVE  Watching' /\ CountsOK'
  <2>1. /\ ~Awaiting /\ call'.body.route # "fraud" /\ call'.seen = rules'
        /\ UNCHANGED <<txnId, published, cart, itemCounts, rules, trouble, watched>>
    BY <1>2 DEF Post, Awaiting, saleVars, localVars, ruleVars
  <2>2. QED BY <1>1, <2>1, NothingCounted, CountsStay
<1>3. CASE \/ HandleStart \/ HandleCustomer \/ HandleCustomerLookup
           \/ \E i \in Item : HandleAddItem(i)
           \/ HandleSubtotal \/ HandlePay
  <2>1. {"start", "customer", "lookup", "item", "subtotal", "pay"} \subseteq Route \ {"fraud"}
    BY DEF Route
  <2>2. QED BY <1>2, <1>3, <2>1 DEF HandleStart, HandleCustomer, HandleCustomerLookup, HandleAddItem,
                                   HandleSubtotal, HandlePay
<1>4. CASE \E m \in PayMethods \cup {"card"} : SetPayMethod(m)
  <2>1. UNCHANGED <<call, txnId, published, cart, itemCounts, rules, trouble, watched>>
    BY <1>4 DEF SetPayMethod, apiVars, localVars, ruleVars
  <2>2. QED BY <1>1, <2>1, NothingCounted, CountsStay
<1>5. ASSUME NEW new, ChangeRules(new) PROVE Watching' /\ CountsOK'
  <2>1. /\ UNCHANGED <<call, txnId, published, cart, itemCounts, trouble>>
        /\ watched' => watched /\ rules'.fraud /\ rules'.threshold = rules.threshold
    BY <1>5 DEF ChangeRules, apiVars, saleVars, localVars
  <2>2. QED BY <2>1, NothingCounted, CountsStay
<1>6. CASE \/ \E rule \in Toggled : HandleToggle(rule)
           \/ \E age \in Ages : HandleMinAgeChange(age)
           \/ \E t \in Thresholds : HandleThresholdChange(t)
  BY <1>5, <1>6 DEF HandleToggle, HandleMinAgeChange, HandleThresholdChange
<1>7. CASE HandleReset \/ SignOut
  <2>1. cart' = <<>> /\ itemCounts' = NoCounts /\ watched' = FALSE
    BY <1>7, FreshSaleShape DEF HandleReset, SignOut
  <2>2. ASSUME NEW i \in Item PROVE itemCounts'[i] <= CartCount(i)'
    BY <2>1, FS_EmptySet DEF NoCounts, CartCount
  <2>3. QED BY <2>1, <2>2 DEF Watching, CountsOK
<1>8. QED BY <1>3, <1>4, <1>6, <1>7 DEF Clerk

LEMMA ApiWatched ==
    ASSUME IInv, FeedOK, Watching, CountsOK, Api
    PROVE  Watching' /\ CountsOK'
<1>1. CountsOK'
  BY CountsStay DEF Api, saleVars, localVars
<1>2. CASE BrokerLapses \/ BrokerReturns \/ \E id \in queued : Deliver(id) \/ Expire(id)
  <2>1. UNCHANGED <<call, txnId, published, cart, itemCounts, rules, trouble, watched>>
    BY <1>2 DEF Api, BrokerLapses, BrokerReturns, Deliver, Expire, saleVars, localVars, ruleVars
  <2>2. watched /\ trouble = 0 => rules.fraud
    BY DEF Watching
  <2>3. QED BY <1>1, <2>1, <2>2, NothingCounted
<1>3. CASE Handle
  BY <1>1, <1>3, HandleWatched DEF Api
(* What is handled late was given up.                                        *)
<1>4. ASSUME NEW i \in DOMAIN late PROVE trouble' # 0
  <2>1. late # <<>> /\ trouble' = trouble
    BY <1>4 DEF Api
  <2>2. QED BY <2>1 DEF FeedOK
<1>5. CASE \E i \in DOMAIN late : HandleLate(i)
  BY <1>1, <1>4, <1>5 DEF Watching
<1>6. QED BY <1>2, <1>3, <1>5 DEF Api, ApiNext

LEMMA SpikesNext == IInv /\ FeedOK /\ Watching /\ CountsOK /\ [Next]_vars => Watching' /\ CountsOK'
<1>1. ASSUME IInv, Watching, CountsOK, UNCHANGED vars PROVE Watching' /\ CountsOK'
  <2>1. UNCHANGED <<call, txnId, published, cart, itemCounts, rules, trouble, watched>>
    BY <1>1 DEF vars, apiVars, saleVars, localVars, ruleVars
  <2>2. watched /\ trouble = 0 => rules.fraud
    BY <1>1 DEF Watching
  <2>3. QED BY <1>1, <2>1, <2>2, NothingCounted, CountsStay
<1>2. QED BY <1>1, ClerkWatched, BrowserWatched, ApiWatched DEF Next

LEMMA SpikesInit == Init => Watching /\ CountsOK
<1> SUFFICES ASSUME Init PROVE Watching /\ CountsOK
  OBVIOUS
<1>1. ~watched /\ cart = <<>> /\ itemCounts = NoCounts
  BY DEF Init
<1>2. ASSUME NEW i \in Item PROVE itemCounts[i] <= CartCount(i)
  BY <1>1, FS_EmptySet DEF NoCounts, CartCount
<1>3. QED BY <1>1, <1>2 DEF Watching, CountsOK

(* PosTerminal.jsx:141-172, the fraud rule: with the rule left alone and no       *)
(* request lost, exactly the items above the threshold are alerted, and       *)
(* counts do not reach into the next transaction.                            *)
THEOREM SpikesAlerted == Spec => []SpikesAreAlerted
<1>1. IInv /\ Watching /\ CountsOK => SpikesAreAlerted
  <2> SUFFICES ASSUME IInv, Watching, CountsOK, watched, trouble = 0, call = NoCall,
                      NEW i \in Item, NEW n \in 1..Len(cart)
               PROVE  n \in (rules.threshold + 1)..CartCount(i) <=> Alerted(i, n)
    BY DEF SpikesAreAlerted, CountsOK, Alerted
  <2>1. n \in Nat /\ ~AlertDue(i, n)
    BY DEF AlertDue, Awaiting
  <2>2. QED BY <2>1 DEF Watching
<1>2. QED BY <1>1, SpikesInit, SpikesNext, FeedAndLines, PTL DEF Spec

-----------------------------------------------------------------------------
(* An alert that is on its way, or will be handled late, counts an item no     *)
(* more often than its transaction has events of it; those only get more.     *)
Justified(b) == b.route = "fraud" => b.n <= Cardinality(ItemEvents(b.txn, b.item))

Requests == {late[i] : i \in DOMAIN late} \cup (IF Awaiting THEN {call.body} ELSE {})

AlertsOK == AlertsAreJustified /\ \A b \in Requests : Justified(b)

LEMMA RequestType == IInv => Requests \subseteq Body
<1> SUFFICES ASSUME IInv PROVE Requests \subseteq Body
  OBVIOUS
<1>1. \A i \in DOMAIN late : late[i] \in Body
  BY DEF IInv, ApiShape
<1>2. Awaiting => call.body \in Body
  BY DEF IInv, ApiShape, Awaiting, Call
<1>3. QED BY <1>1, <1>2 DEF Requests

EventsAfter(txn, i) ==
    {j \in DOMAIN published' : /\ published'[j].type = "item.added"
                              /\ published'[j].txn = txn /\ published'[j].item = i}

LEMMA MoreEvents ==
    ASSUME IInv, NEW txn, NEW i,
           \/ UNCHANGED published
           \/ \E e \in Event : published' = Append(published, e)
    PROVE  \A n \in Nat : n <= Cardinality(ItemEvents(txn, i))
                             => n <= Cardinality(EventsAfter(txn, i))
<1> DEFINE Grown == /\ DOMAIN published \subseteq DOMAIN published'
                    /\ \A k \in DOMAIN published : published'[k] = published[k]
                    /\ DOMAIN published' = 1..Len(published') /\ Len(published') \in Nat
<1>1. Grown
  <2>1. published \in Seq(Event)
    BY DEF IInv, ApiShape
  <2>2. CASE UNCHANGED published
    BY <2>1, <2>2
  <2>3. ASSUME NEW e \in Event, published' = Append(published, e)
        PROVE  Grown
    <3>1. DOMAIN published = 1..Len(published) /\ Len(published) \in Nat
      BY <2>1, Longer
    <3>2. DOMAIN published' = 1..(Len(published) + 1) /\ Len(published') = Len(published) + 1
      BY <2>1, <2>3, Longer
    <3>3. \A k \in DOMAIN published : published'[k] = published[k]
      BY <2>1, <2>3, Longer
    <3>4. QED BY <3>1, <3>2, <3>3
  <2>4. QED BY <2>2, <2>3
<1>2. ItemEvents(txn, i) \subseteq EventsAfter(txn, i)
  BY <1>1 DEF ItemEvents, EventsAfter
<1>3. IsFiniteSet(EventsAfter(txn, i))
  <2>1. EventsAfter(txn, i) \subseteq 1..Len(published')
    BY <1>1 DEF EventsAfter
  <2>2. IsFiniteSet(1..Len(published'))
    <3>1. PICK m \in Nat : m = Len(published')
      BY <1>1
    <3>2. IsFiniteSet(1..m)
      BY FS_Interval
    <3>3. QED BY <3>1, <3>2
  <2>3. QED BY <2>1, <2>2, FS_Subset
<1>4. QED BY <1>2, <1>3, MoreLines

(* A step that publishes nothing but a request it knows, and makes none but    *)
(* justified ones.                                                           *)
LEMMA AlertsStep ==
    ASSUME IInv, AlertsOK,
           \/ UNCHANGED published
           \/ \E b \in Requests : published' = Append(published, EventOf(b, Len(published) + 1)),
           \A b \in Requests' : b \in Requests \/ Justified(b)'
    PROVE  AlertsOK'
<1>1. published \in Seq(Event) /\ Len(published) \in Nat /\ Requests \subseteq Body
  BY RequestType DEF IInv, ApiShape
<1>2. UNCHANGED published \/ \E e \in Event : published' = Append(published, e)
  <2>1. ASSUME NEW b \in Requests PROVE EventOf(b, Len(published) + 1) \in Event
    BY <1>1, EventOfType
  <2>2. QED BY <2>1
<1>3. ASSUME NEW b \in Requests PROVE Justified(b)'
  <2>1. b.n \in Nat
    BY <1>1 DEF Body
  <2>2. b.route = "fraud" => b.n <= Cardinality(ItemEvents(b.txn, b.item))
    BY DEF AlertsOK, Justified
  <2>3. b.route = "fraud" => b.n <= Cardinality(EventsAfter(b.txn, b.item))
    BY <1>2, <2>1, <2>2, MoreEvents
  <2>4. QED BY <2>3 DEF Justified, ItemEvents, EventsAfter
<1>4. ASSUME NEW k \in DOMAIN published, published[k].type = "fraud.alerted"
      PROVE  published[k].n <= Cardinality(EventsAfter(published[k].txn, published[k].item))
  <2>1. published[k] \in Event
    BY <1>1
  <2> published[k].n \in Nat
    BY <2>1 DEF Event
  <2>2. published[k].n <= Cardinality(ItemEvents(published[k].txn, published[k].item))
    BY <1>4 DEF AlertsOK, AlertsAreJustified
  <2>3. QED BY <1>2, <2>1, <2>2, MoreEvents
<1>5. AlertsAreJustified'
  <2>1. CASE UNCHANGED published
    BY <1>4, <2>1 DEF AlertsAreJustified, ItemEvents, EventsAfter
  <2>2. ASSUME NEW b \in Requests, published' = Append(published, EventOf(b, Len(published) + 1))
        PROVE  AlertsAreJustified'
    <3> DEFINE e == EventOf(b, Len(published) + 1)
    <3>1. e \in Event /\ b.route \in Route
      BY <1>1, EventOfType DEF Body
    <3>2. e.type = "fraud.alerted" => b.route = "fraud" /\ e.txn = b.txn /\ e.item = b.item /\ e.n = b.n
      BY <3>1, Types DEF EventOf, Route
    <3> HIDE DEF e
    <3>3. published' = Append(published, e)
      BY <2>2 DEF e
    <3>4. ASSUME NEW k \in DOMAIN published'
          PROVE  (k \in DOMAIN published /\ published'[k] = published[k]) \/ published'[k] = e
      <4>1. /\ DOMAIN published' = 1..(Len(published) + 1) /\ DOMAIN published = 1..Len(published)
            /\ published'[Len(published) + 1] = e
            /\ \A j \in DOMAIN published : published'[j] = published[j]
        BY <1>1, <3>1, <3>3, Longer
      <4>2. k \in DOMAIN published \/ k = Len(published) + 1
        BY <1>1, <4>1
      <4>3. QED BY <4>1, <4>2
    <3>5. ASSUME NEW k \in DOMAIN published', published'[k].type = "fraud.alerted"
          PROVE  published'[k].n <= Cardinality(EventsAfter(published'[k].txn, published'[k].item))
      <4>1. CASE k \in DOMAIN published /\ published'[k] = published[k]
        <5>1. published[k].type = "fraud.alerted"
          BY <3>5, <4>1
        <5>2. published[k].n <= Cardinality(EventsAfter(published[k].txn, published[k].item))
          BY <1>4, <4>1, <5>1
        <5>3. QED BY <4>1, <5>2
      <4>2. CASE published'[k] = e
        <5>1. b.route = "fraud" /\ e.txn = b.txn /\ e.item = b.item /\ e.n = b.n
          BY <3>2, <3>5, <4>2
        <5>2. b.n <= Cardinality(EventsAfter(b.txn, b.item))
          BY <1>3, <5>1 DEF Justified, ItemEvents, EventsAfter
        <5>3. QED BY <4>2, <5>1, <5>2
      <4>3. QED BY <3>4, <4>1, <4>2
    <3>6. QED BY <3>5 DEF AlertsAreJustified, ItemEvents, EventsAfter
  <2>3. QED BY <2>1, <2>2
<1>6. QED BY <1>3, <1>5 DEF AlertsOK

(* The alert that an answered item makes counts the lines of the cart.         *)
LEMMA AlertOfItem ==
    ASSUME IInv, CountsOK, LinesOK', AlertsOK, ItemAnswered
    PROVE  AlertsOK'
<1>1. "item" \in Route /\ "fraud" \in Route
  BY DEF Route
<1> PICK item \in Item : call.body.item = item
  BY <1>1, AnswerFacts DEF ItemAnswered, IInv, CallFits
<1>2. /\ Awaiting /\ call \in Call /\ call.body.route = "item" /\ call.body.txn = txnId
      /\ itemCounts[item] \in Nat
  BY <1>1, AnswerFacts DEF ItemAnswered, IInv, CallFits, SaleShape
<1> PICK alert : alert = [call EXCEPT !.body.route = "fraud", !.body.n = itemCounts[item] + 1, !.id = 0]
  OBVIOUS
<1>3. /\ UNCHANGED <<late, published, txnId>>
      /\ cart' = Append(cart, item)
      /\ call' = NoCall \/ call' = alert
  BY DEF ItemAnswered, Done
<1>4. itemCounts[item] + 1 \in Nat
  BY <1>2
<1>5. /\ alert \in Call /\ alert.id = 0
      /\ alert.body.item = item /\ alert.body.txn = txnId /\ alert.body.n = itemCounts[item] + 1
  BY <1>1, <1>2, <1>4 DEF Call, Body
<1>6. Justified(alert.body)'
  <2>1. itemCounts[item] + 1 <= CartCount(item)'
    <3>1. CartCount(item)' = CartCount(item) + 1 /\ CartCount(item) \in Nat
      BY <1>3, OneMore, CountIsNat
    <3>2. itemCounts[item] <= CartCount(item)
      BY DEF CountsOK
    <3>3. QED BY <1>2, <3>1, <3>2
  <2>2. CartCount(item)' <= Cardinality(Lines(item))
    <3>1. Lines(item)' = Lines(item)
      BY <1>3 DEF Lines, OwnEvents
    <3>2. Pending' = {}
      <4>1. ~Awaiting' \/ call'.id = 0
        BY <1>3, <1>5 DEF Awaiting
      <4>2. QED BY <4>1 DEF Pending
    <3>3. CartCount(item)' <= Cardinality(Lines(item)' \ Pending')
      BY DEF LinesOK
    <3>4. QED BY <3>1, <3>2, <3>3
  <2>3. Lines(item) = ItemEvents(txnId, item)
    BY DEF Lines, OwnEvents, ItemEvents
  <2>4. ItemEvents(txnId, item)' = ItemEvents(txnId, item)
    BY <1>3 DEF ItemEvents
  <2>5. Cardinality(Lines(item)) \in Nat /\ CartCount(item)' \in Nat
    <3>1. CartCount(item)' = CartCount(item) + 1 /\ CartCount(item) \in Nat
      BY <1>3, OneMore, CountIsNat
    <3>2. IsFiniteSet(Lines(item))
      BY FiniteLines
    <3>3. Cardinality(Lines(item)) \in Nat
      BY <3>2, FS_CardinalityType
    <3>4. QED BY <3>1, <3>3
  <2>6. itemCounts[item] + 1 <= Cardinality(ItemEvents(txnId, item))
    BY <1>4, <2>1, <2>2, <2>3, <2>5
  <2>7. QED BY <1>3, <1>5, <2>6 DEF Justified, ItemEvents
<1>7. ASSUME NEW b \in Requests' PROVE b \in Requests \/ Justified(b)'
  <2>1. CASE call' = NoCall
    BY <1>3, <2>1 DEF Requests, Awaiting
  <2>2. CASE call' = alert
    BY <1>3, <1>6, <2>2 DEF Requests
  <2>3. QED BY <1>3, <2>1, <2>2
<1>8. QED BY <1>3, <1>7, AlertsStep

LEMMA AlertsNext ==
    IInv /\ CountsOK /\ LinesOK' /\ AlertsOK /\ [Next]_vars => AlertsOK'
<1> SUFFICES ASSUME IInv, CountsOK, LinesOK', AlertsOK, [Next]_vars PROVE AlertsOK'
  OBVIOUS
<1>1. ASSUME UNCHANGED published, UNCHANGED late, call' = call \/ call' = NoCall
      PROVE  AlertsOK'
  <2>1. Requests' \subseteq Requests
    BY <1>1 DEF Requests, Awaiting
  <2>2. QED BY <1>1, <2>1, AlertsStep
<1>2. ASSUME UNCHANGED published, call' = NoCall, late' \in {late, Abandoned}
      PROVE  AlertsOK'
  <2>1. ASSUME NEW i \in DOMAIN late' PROVE late'[i] \in Requests
    BY <1>2, LateAfterwards DEF Requests
  <2>2. Requests' \subseteq Requests
    BY <1>2, <2>1 DEF Requests, Awaiting
  <2>3. QED BY <1>2, <2>2, AlertsStep
<1>3. ASSUME NEW route \in Route \ {"fraud"}, NEW item, NEW n, Post(route, item, n)
      PROVE  AlertsOK'
  <2>1. UNCHANGED <<late, published>> /\ call'.body.route # "fraud"
    BY <1>3 DEF Post
  <2>2. ASSUME NEW b \in Requests' PROVE b \in Requests \/ Justified(b)'
    BY <2>1 DEF Requests, Justified
  <2>3. QED BY <2>1, <2>2, AlertsStep
<1>4. CASE \/ HandleStart \/ HandleCustomer \/ HandleCustomerLookup
           \/ \E i \in Item : HandleAddItem(i)
           \/ HandleSubtotal \/ HandlePay
  <2>1. {"start", "customer", "lookup", "item", "subtotal", "pay"} \subseteq Route \ {"fraud"}
    BY DEF Route
  <2>2. QED BY <1>3, <1>4, <2>1 DEF HandleStart, HandleCustomer, HandleCustomerLookup, HandleAddItem,
                                   HandleSubtotal, HandlePay
<1>5. CASE HandleReset \/ \E m \in PayMethods \cup {"card"} : SetPayMethod(m)
  BY <1>1, <1>5 DEF HandleReset, SetPayMethod, apiVars
<1>6. ASSUME NEW new, ChangeRules(new) PROVE AlertsOK'
  BY <1>1, <1>6 DEF ChangeRules, apiVars
<1>7. CASE \/ \E rule \in Toggled : HandleToggle(rule)
           \/ \E age \in Ages : HandleMinAgeChange(age)
           \/ \E t \in Thresholds : HandleThresholdChange(t)
  BY <1>6, <1>7 DEF HandleToggle, HandleMinAgeChange, HandleThresholdChange
<1>8. CASE SignOut \/ CallFails \/ GiveUp
  BY <1>2, <1>8 DEF SignOut, CallFails, GiveUp, Catch
<1>9. CASE StartAnswered \/ CustomerAnswered \/ FraudAnswered \/ SubtotalAnswered \/ PayAnswered
  BY <1>1, <1>9 DEF StartAnswered, CustomerAnswered, FraudAnswered, SubtotalAnswered, PayAnswered, Done
<1>10. CASE ItemAnswered
  BY <1>10, AlertOfItem
<1>11. CASE Handle
  <2>1. /\ Awaiting /\ call \in Call
        /\ published' = Append(published, EventOf(call.body, Len(published) + 1))
        /\ UNCHANGED late
        /\ call' = [call EXCEPT !.id = Len(published) + 1]
    BY <1>11 DEF Handle, Publish, Awaiting, IInv, ApiShape
  <2>2. call'.body = call.body
    BY <2>1 DEF Call
  <2>3. call.body \in Requests /\ Requests' \subseteq Requests
    BY <2>1, <2>2 DEF Requests
  <2>4. QED BY <2>1, <2>3, AlertsStep
<1>12. ASSUME NEW i \in DOMAIN late, HandleLate(i) PROVE AlertsOK'
  <2>1. /\ published' = Append(published, EventOf(late[i], Len(published) + 1))
        /\ late' = RemoveAt(late, i) /\ UNCHANGED call
    BY <1>12 DEF HandleLate, Publish
  <2>2. \A j \in DOMAIN late' : \E k \in DOMAIN late : late'[j] = late[k]
    BY <2>1, Remaining DEF IInv, ApiShape
  <2>3. late[i] \in Requests /\ Requests' \subseteq Requests
    BY <2>1, <2>2 DEF Requests, Awaiting
  <2>4. QED BY <2>1, <2>3, AlertsStep
<1>13. CASE BrokerLapses \/ BrokerReturns \/ \E id \in queued : Deliver(id) \/ Expire(id)
  BY <1>1, <1>13 DEF BrokerLapses, BrokerReturns, Deliver, Expire
<1>14. CASE UNCHANGED vars
  BY <1>1, <1>14 DEF vars, apiVars
<1>15. CASE Clerk
  BY <1>4, <1>5, <1>7, <1>8, <1>15 DEF Clerk
<1>16. CASE Browser
  BY <1>8, <1>9, <1>10, <1>16 DEF Browser
<1>17. CASE Api
  BY <1>11, <1>12, <1>13, <1>17 DEF Api, ApiNext
<1>18. QED BY <1>14, <1>15, <1>16, <1>17 DEF Next

LEMMA AlertsInit == Init => AlertsOK
BY DEF Init, ApiInit, AlertsOK, AlertsAreJustified, Requests, Awaiting

(* PosTerminal.jsx:141-172: an alert, whenever it gets to the API, counts an item  *)
(* no more often than item.added events of its transaction bear out.          *)
THEOREM AlertsJustified == Spec => []AlertsAreJustified
<1>1. AlertsOK => AlertsAreJustified
  BY DEF AlertsOK
<1>2. QED BY <1>1, AlertsInit, AlertsNext, SpikesInit, SpikesNext, FeedAndLines, PTL DEF Spec
=============================================================================
