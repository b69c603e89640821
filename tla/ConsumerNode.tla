---------------------------- MODULE ConsumerNode ----------------------------
(***************************************************************************)
(* The Node.js consumer (src/index.js).  kafkajs takes a message as consumed *)
(* when eachMessage returns and commits between messages, so position[p] is  *)
(* the number of messages of p that are finished.  A dead letter is waited   *)
(* for, and a refused one leaves eachMessage as an error.                    *)
(***************************************************************************)
EXTENDS Consumer

VARIABLE dlq  \* work with a record on pos-events-dlq

vars == <<consumerVars, dlq>>

TypeOK == ConsumerTypeOK /\ dlq \subseteq Work

Init == ConsumerInit /\ dlq = {}

-----------------------------------------------------------------------------
Deliver(p) ==
    /\ Fetchable(p)
    /\ Enter(p, position[p] + 1)
    /\ UNCHANGED <<position, dlq>>

SendToDlq ==
    /\ AfterDeadLetter
    /\ dlq' = dlq \cup {Duty}

(* Variant: the error is caught around the plugin loop and the message is    *)
(* taken as consumed.                                                        *)
SendToDlqRejectsQuietly ==
    /\ pc = "dlq"
    /\ faults < MaxFaults
    /\ faults' = faults + 1
    /\ position' = [position EXCEPT ![part] = @ + 1]
    /\ Leave("idle")
    /\ UNCHANGED <<tableVars, storeVars, log, committed, stopping, boots, workVars, dlq>>

(* producer.send rejects, with the record on the topic or not; the error     *)
(* leaves eachMessage, so the offset is not resolved and kafkajs fetches the *)
(* message again.                                                            *)
SendToDlqRejects ==
    /\ pc = "dlq"
    /\ faults < MaxFaults
    /\ faults' = faults + 1
    /\ dlq' \in {dlq, dlq \cup {Duty}}
    /\ Leave("idle")
    /\ UNCHANGED <<tableVars, storeVars, brokerVars, stopping, boots, workVars>>

(* Variant: the offset is not resolved.                                      *)
ResolveNothing == EndOfLoop /\ UNCHANGED <<position, dlq>>

(* eachMessage returns and kafkajs resolves the offset.                      *)
ResolveMessage ==
    /\ EndOfLoop
    /\ position' = [position EXCEPT ![part] = @ + 1]
    /\ UNCHANGED dlq

Commit == pc = "idle" /\ CommitOffsets /\ UNCHANGED dlq

-----------------------------------------------------------------------------
(* One step of the process's own work.                                       *)
Consume ==
    \/ \E p \in Partition : Deliver(p) \/ (PassUndecodable(p) /\ UNCHANGED dlq)
    \/ (Skip \/ Dispatch \/ HandleOk \/ HandleFail \/ LogPluginExecution) /\ UNCHANGED dlq
    \/ SendToDlq \/ ResolveMessage \/ Commit

Trouble ==
    \/ SendToDlqRejects
    \/ (Rejoin \/ Crash) /\ UNCHANGED dlq

Next ==
    \/ Environment /\ UNCHANGED dlq
    \/ \E c \in Fetcher : Store(c) /\ UNCHANGED dlq
    \/ Consume
    \/ Trouble
    \/ (Boot \/ Shutdown \/ Exit) /\ UNCHANGED dlq

(* The process keeps running and polling; nothing makes it start, crash or   *)
(* stop, and nothing makes the database or the API do anything.              *)
Fairness ==
    /\ WF_vars(Consume)
    /\ \A c \in Fetcher : WF_vars(Store(c) /\ UNCHANGED dlq)

Spec == Init /\ [][Next]_vars /\ Fairness

-----------------------------------------------------------------------------
(* Properties                                                                *)

Settled == skipped \cup handled \cup dlq

(* No event is acknowledged to the broker before every plugin has handled    *)
(* it, dead-lettered it or passed over it: a crash at any step, a refused    *)
(* dead letter or a lost membership never makes the group forget work.       *)
NoLostWork ==
    \A p \in Partition : \A o \in 1..committed[p], q \in Plugin :
        <<p, o, q>> \in Settled

Touched == Settled \cup {f[1] : f \in failed}

(* A plugin is never started on an event of a partition while an earlier     *)
(* event of that partition is unfinished, across redeliveries and restarts   *)
(* (the order README promises for the events of one transaction).            *)
InOrder ==
    \A w \in Touched : \A o \in 1..(w[2] - 1), q \in Plugin :
        <<w[1], o, q>> \in Settled

(* Each dead letter follows a full round of failed attempts of its own       *)
(* plugin on its own event, never of another plugin or another event.        *)
DeadLetterJustified ==
    \A w \in dlq, a \in 1..MAX_RETRIES : <<w, a>> \in failed

(* At-least-once delivery is exactly-once as long as nothing goes wrong: a   *)
(* plugin completes the same event a second time only after a restart, a     *)
(* refused dead letter or a lost membership.                                 *)
OnceWithoutTrouble ==
    [][ HandleOk /\ Duty \in handled => boots > 1 \/ faults > 0 ]_vars

(* The inductive invariant behind NoLostWork, InOrder and the refinement:    *)
(* everything before the positions is settled, and so is what the plugin     *)
(* loop has left behind; the rest of the topic nobody has touched or only    *)
(* in order.                                                                 *)
OffsetsInv ==
    /\ \A p \in Partition : committed[p] <= position[p] /\ position[p] <= Len(log[p])
    /\ Busy => offset = position[part] + 1 /\ offset <= Len(log[part])

ConsumedInv ==
    \A p \in Partition : \A o \in 1..position[p], q \in Plugin :
        <<p, o, q>> \in Settled

LoopInv ==
    /\ Busy => \A i \in 1..(idx - 1) : <<part, offset, Plugins[i]>> \in Settled
    /\ pc = "record" => Duty \in handled

DeliveryInv == OffsetsInv /\ ConsumedInv /\ LoopInv /\ InOrder

(* README, Bundled Plugins: the DB Writer "Inserts event into event_log";    *)
(* db/init.sql: "Persists ALL events into the event_log table".  Read for a  *)
(* writer that is active for all events from the start and whose rules       *)
(* nobody changed: every event the group is done with has its row.           *)
WriterPersistsAll ==
    \A p \in Partition : \A o \in 1..committed[p], q \in NeverFails :
        ( /\ table.ver = 1
          /\ q \in DOMAIN InitRows
          /\ InitRows[q].active
          /\ InitRows[q].types = {}
          /\ log[p][o] # Undecodable )
        => <<p, o, q>> \in eventLog

Delivery == INSTANCE OrderedDelivery WITH
    produced <- [p \in Partition |-> Len(log[p])],
    settled  <- Settled,
    acked    <- committed

(* The consumer implements in-order, at-least-once delivery.                 *)
ImplementsDelivery == Delivery!Spec

(* README.md, Error Handling, "max 3 attempts": whatever fails and however    *)
(* the rules change meanwhile, each step at the message in hand leads on, so  *)
(* that no message takes more than its plugins' attempts, dead letters and     *)
(* records.                                                                   *)
MessageEnds == [][Advances]_vars

(* A consumer that is left running finishes and commits everything that is   *)
(* on the topic, however its plugins fail: retries end, dead letters let the *)
(* partition go on.                                                          *)
CatchesUp ==
    <>[]Up => []<>(\A p \in Partition : committed[p] = Len(log[p]))
=============================================================================
