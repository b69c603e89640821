-------------------------- MODULE OrderedDelivery --------------------------
(***************************************************************************)
(* What a consumer of pos-events promises, whatever crashes, retries and     *)
(* configuration changes happen underneath: on every partition the plugins   *)
(* settle the events in the order they were produced, and an event is        *)
(* acknowledged to the broker only when every plugin has settled it.         *)
(***************************************************************************)
EXTENDS Naturals

CONSTANTS Partition, Plugin

VARIABLES
    produced,  \* per partition, the number of events on it
    settled,   \* <<partition, offset, plugin>>: the plugin is done with the event
    acked      \* per partition, the prefix that will not be delivered again

vars == <<produced, settled, acked>>

FullySettled(p, o) == \A q \in Plugin : <<p, o, q>> \in settled

Init ==
    /\ produced = [p \in Partition |-> 0]
    /\ settled = {}
    /\ acked = [p \in Partition |-> 0]

Produce(p) ==
    /\ produced' = [produced EXCEPT ![p] = @ + 1]
    /\ UNCHANGED <<settled, acked>>

Settle(p, o, S) ==
    /\ \A e \in 1..(o - 1) : FullySettled(p, e)
    /\ settled' = settled \cup {<<p, o, q>> : q \in S}
    /\ UNCHANGED <<produced, acked>>

Acknowledge ==
    /\ acked' \in [Partition -> UNION {0..produced[p] : p \in Partition}]
    /\ \A p \in Partition :
          /\ acked'[p] \in acked[p]..produced[p]
          /\ \A o \in 1..acked'[p] : FullySettled(p, o)
    /\ UNCHANGED <<produced, settled>>

Next ==
    \/ \E p \in Partition : Produce(p)
    \/ \E p \in Partition : \E o \in 1..produced[p], S \in SUBSET Plugin : Settle(p, o, S)
    \/ Acknowledge

Spec == Init /\ [][Next]_vars
=============================================================================
