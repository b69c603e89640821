--------------------------- MODULE EagerDelivery ---------------------------
(***************************************************************************)
(* What a consumer of pos-events promises that acknowledges what it has       *)
(* taken, not what it has done: the events of a partition are taken one after *)
(* the other, one at a time; a plugin's work on the event in hand is settled  *)
(* or passed to a sender; and nothing is left undone but what the sender      *)
(* gives up and what is in hand or with the sender when the consumer ends.    *)
(***************************************************************************)
EXTENDS Naturals

CONSTANTS Partition, Plugin

VARIABLES
    produced,  \* per partition, the number of events on it
    taken,     \* per partition, the prefix that will not be taken again
    acked,     \* per partition, the prefix the broker knows to be taken
    inHand,    \* <<partition, offset, plugin>>: work on the event in hand
    sending,   \* work whose outcome is with the sender
    settled    \* work that is done

vars == <<produced, taken, acked, inHand, sending, settled>>

WorkOn(p, o) == {<<p, o, q>> : q \in Plugin}

Init ==
    /\ produced = [p \in Partition |-> 0]
    /\ taken = [p \in Partition |-> 0]
    /\ acked = [p \in Partition |-> 0]
    /\ inHand = {} /\ sending = {} /\ settled = {}

Produce(p) ==
    /\ produced' = [produced EXCEPT ![p] = @ + 1]
    /\ UNCHANGED <<taken, acked, inHand, sending, settled>>

(* The next event is taken in hand, or passed over as a whole.                *)
Take(p) ==
    /\ inHand = {}
    /\ taken[p] < produced[p]
    /\ taken' = [taken EXCEPT ![p] = @ + 1]
    /\ \/ inHand' = WorkOn(p, taken[p] + 1) /\ UNCHANGED settled
       \/ settled' = settled \cup WorkOn(p, taken[p] + 1) /\ UNCHANGED inHand
    /\ UNCHANGED <<produced, acked, sending>>

(* Work on the event in hand is done or passed on; it stays in hand only if   *)
(* it has to be done a second time.                                           *)
Work(w) ==
    /\ inHand' \in {inHand, inHand \ {w}}
    /\ \/ settled' = settled \cup {w} /\ UNCHANGED sending
       \/ sending' = sending \cup {w} /\ UNCHANGED settled
    /\ UNCHANGED <<produced, taken, acked>>

Sent(w) ==
    /\ sending' \in {sending, sending \ {w}}
    /\ settled' = settled \cup {w}
    /\ UNCHANGED <<produced, taken, acked, inHand>>

GiveUp(w) ==
    /\ sending' = sending \ {w}
    /\ UNCHANGED <<produced, taken, acked, inHand, settled>>

Acknowledge ==
    /\ acked' = taken
    /\ UNCHANGED <<produced, taken, inHand, sending, settled>>

(* The group goes back to what is acknowledged.                               *)
Rejoin ==
    /\ inHand = {}
    /\ taken' = acked
    /\ UNCHANGED <<produced, acked, inHand, sending, settled>>

(* The consumer ends, acknowledging once more or not.                         *)
End ==
    /\ acked' \in {acked, taken}
    /\ taken' = acked'
    /\ inHand' = {} /\ sending' = {}
    /\ UNCHANGED <<produced, settled>>

Next ==
    \/ \E p \in Partition : Produce(p) \/ Take(p)
    \/ \E w \in inHand : Work(w)
    \/ \E w \in sending : Sent(w) \/ GiveUp(w)
    \/ Acknowledge \/ Rejoin \/ End

Spec == Init /\ [][Next]_vars
=============================================================================
