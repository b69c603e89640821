--------------------------- MODULE ConsumerPython ---------------------------
(***************************************************************************)
(* The Python consumer (main.py).  enable.auto.commit stores an offset the   *)
(* moment poll() returns the message and a background thread commits the     *)
(* stored offsets, so position[p] counts the messages handed out and an      *)
(* event can be acknowledged before its plugins ran; and produce() only      *)
(* appends to an in-memory queue, which flush(timeout=5) drains if the       *)
(* broker answers in time and leaves alone otherwise.                        *)
(***************************************************************************)
EXTENDS Consumer

CONSTANT Publisher  \* the plugins whose handle() produces a derived event

ASSUME PublisherAssumption == Publisher \subseteq Plugin

VARIABLES
    outbox,    \* <<topic, work>>: messages in the two producers' queues
    delivered  \* <<topic, work>>: messages the broker has

sendVars == <<outbox, delivered>>
vars == <<consumerVars, sendVars>>

Outgoing == {"dlq", "derived"} \X Work

TypeOK == ConsumerTypeOK /\ outbox \subseteq Outgoing /\ delivered \subseteq Outgoing

Init == ConsumerInit /\ outbox = {} /\ delivered = {}

-----------------------------------------------------------------------------
(* Variant: any message of the fetched batch may come first.                 *)
PollAnyOf(p) ==
    /\ Fetchable(p)
    /\ \E n \in (position[p] + 1)..Len(log[p]) :
          position' = [position EXCEPT ![p] = n]

(* poll() returns the next message of a partition and stores its offset.     *)
Poll(p) ==
    /\ Fetchable(p)
    /\ position' = [position EXCEPT ![p] = @ + 1]

Deliver(p) ==
    /\ Poll(p)
    /\ Enter(p, position'[p])
    /\ UNCHANGED sendVars

DeliverUndecodable(p) == PassUndecodable(p) /\ UNCHANGED sendVars

(* The turns of the plugin loop that send nothing, and its end.              *)
PluginLoop ==
    /\ \/ Skip \/ Dispatch
       \/ EndOfLoop /\ UNCHANGED position
    /\ UNCHANGED sendVars

(* What handle() leaves in the producers' queues: the publisher produces its *)
(* derived event and returns whether or not flush(timeout=5) drained it.     *)
OutboxAfterHandle ==
    IF Plugins[idx] \in Publisher THEN outbox \cup {<<"derived", Duty>>} ELSE outbox

ExecuteWithRetry ==
    /\ \/ HandleOk /\ outbox' = OutboxAfterHandle
       \/ HandleFail /\ UNCHANGED outbox
    /\ UNCHANGED delivered

(* Variant: the dead letter is built and never produced.                     *)
SendToDlqNothing == AfterDeadLetter /\ UNCHANGED sendVars

(* produce(), then flush(timeout=5), whose result nobody looks at: the loop  *)
(* goes on with the dead letter delivered or still in the queue.             *)
SendToDlq ==
    /\ AfterDeadLetter
    /\ outbox' = outbox \cup {<<"dlq", Duty>>}
    /\ UNCHANGED delivered

LogExecution == LogPluginExecution /\ UNCHANGED sendVars

(* One step of the main thread's own work.                                   *)
Consume ==
    \/ \E p \in Partition : Deliver(p) \/ DeliverUndecodable(p)
    \/ PluginLoop \/ ExecuteWithRetry \/ SendToDlq \/ LogExecution

-----------------------------------------------------------------------------
(* librdkafka's threads, which run beside the main thread all the time.      *)

AutoCommit == pc # "down" /\ CommitOffsets /\ UNCHANGED sendVars

OutboxDelivers(m) ==
    /\ outbox' = outbox \ {m}
    /\ delivered' = delivered \cup {m}

(* message.timeout.ms passes with the broker unreachable; no delivery        *)
(* callback is registered, so nobody hears of it.                            *)
OutboxExpires(m) ==
    /\ outbox' = outbox \ {m}
    /\ UNCHANGED delivered

Send ==
    /\ pc # "down"
    /\ \E m \in outbox : OutboxDelivers(m) \/ OutboxExpires(m)
    /\ UNCHANGED consumerVars

-----------------------------------------------------------------------------
(* The process ends, and nobody flushes what its producers had not sent.     *)
DropOutbox == outbox' = {} /\ UNCHANGED delivered

(* produce() raises (full queue, oversized envelope): send_to_dlq has no     *)
(* handler, so the loop is left through its except clause, and closing the   *)
(* consumer commits the offset of the very event that was in hand.           *)
SendToDlqRaises ==
    /\ pc = "dlq"
    /\ faults < MaxFaults
    /\ faults' = faults + 1
    /\ committed' \in {committed, position}
    /\ StoreHalt
    /\ Leave("down")
    /\ DropOutbox
    /\ UNCHANGED <<tableVars, log, position, stopping, boots, workVars>>

(* main() up to the loop, its signal handler, and its finally clause.        *)
Main == Boot /\ UNCHANGED sendVars
OnSignal == Shutdown /\ UNCHANGED sendVars
Close == Exit /\ DropOutbox

Trouble ==
    \/ Rejoin /\ UNCHANGED sendVars
    \/ SendToDlqRaises
    \/ Crash /\ DropOutbox

Poller == \E c \in Fetcher : Store(c) /\ UNCHANGED sendVars

Next ==
    \/ Environment /\ UNCHANGED sendVars
    \/ Poller
    \/ Consume
    \/ AutoCommit
    \/ Send
    \/ Trouble
    \/ Main \/ OnSignal \/ Close

(* The threads of a running process keep running; nothing makes it start,    *)
(* crash or stop, and nothing makes the database or the API do anything.     *)
Fairness == WF_vars(Consume) /\ WF_vars(AutoCommit) /\ WF_vars(Send) /\ WF_vars(Poller)

Spec == Init /\ [][Next]_vars /\ Fairness

-----------------------------------------------------------------------------
(* Properties                                                                *)

(* Work with a visible outcome: passed over, handled, or on a topic.         *)
Done ==
    skipped \cup {w \in handled : w[3] \notin Publisher} \cup {m[2] : m \in delivered}

Queued == {m[2] : m \in outbox}

(* The duties of the event in hand that the loop has still to settle.        *)
Ahead ==
    IF Busy
    THEN {<<part, offset, Plugins[i]>> :
            i \in (IF pc = "record" THEN idx + 1 ELSE idx)..Len(Plugins)}
    ELSE {}

(* What this process, or after it the group, will not see again.             *)
Horizon == IF pc = "down" THEN committed ELSE position

Behind ==
    UNION {{<<p, o, q>> : o \in 1..Horizon[p], q \in Plugin} : p \in Partition}

Lost == Behind \ (Done \cup Queued \cup Ahead)

(* Acknowledging before processing loses work only within this window: while *)
(* the process runs, a message its producer gave up on; when it ends, by     *)
(* whatever way, that and the rest of the one event in hand.                 *)
LossIsConfined ==
    [][ Lost' \subseteq Lost \cup Queued \cup (IF pc' = "down" THEN Ahead ELSE {}) ]_vars

(* The consumer implements the abstract delivery on receipt.                  *)
Eager == INSTANCE EagerDelivery WITH
    produced <- [p \in Partition |-> Len(log[p])],
    taken    <- Horizon,
    acked    <- committed,
    inHand   <- Ahead,
    sending  <- Queued,
    settled  <- Done

(* README.md, Error Handling, as auto-commit leaves it: every plugin deals    *)
(* with the events of a partition one after the other, and what it does not   *)
(* settle was with a producer that gave it up, or in hand or with a producer   *)
(* when the process ended.                                                    *)
ImplementsEagerDelivery == Eager!Spec

Touched == skipped \cup handled \cup {f[1] : f \in failed}

(* A plugin meets the events of a partition for the first time in the order  *)
(* they were produced, restarts, lost members and lost work included: no     *)
(* event turns up after a later one has been worked on.                      *)
FirstMetInOrder ==
    [][ \A w \in Touched' \ Touched, v \in Touched :
            v[1] = w[1] => v[2] <= w[2] ]_vars

(* Each dead letter, sent or queued, follows a full round of failed attempts *)
(* of its own plugin on its own event.                                       *)
DeadLetterJustified ==
    \A m \in outbox \cup delivered, a \in 1..MAX_RETRIES :
        m[1] = "dlq" => <<m[2], a>> \in failed

(* README.md, Error Handling, "max 3 attempts": whatever fails and however    *)
(* the rules change meanwhile, each step at the message in hand leads on, so  *)
(* that no message takes more than its plugins' attempts, dead letters and     *)
(* records.                                                                   *)
MessageEnds == [][Advances]_vars

(* A consumer that is left running works its way through everything that is  *)
(* on the topic and commits it, and its producers' queues drain.             *)
CatchesUp ==
    <>[]Up => []<>( /\ pc = "idle"
                    /\ outbox = {}
                    /\ \A p \in Partition : committed[p] = Len(log[p]) )

(* README, Error Handling: "After retry exhaustion, the event + error        *)
(* metadata is published to pos-events-dlq".  Read for the first run of a    *)
(* process that is still up: work whose attempts are exhausted is on the     *)
(* topic, or still on its way there, or a redelivery handled it after all.   *)
ExhaustedReachesDlq ==
    boots = 1 /\ pc # "down" =>
        \A w \in {f[1] : f \in failed} :
            (\A a \in 1..MAX_RETRIES : <<w, a>> \in failed) =>
                \/ <<"dlq", w>> \in delivered \cup outbox
                \/ w \in handled \cup Ahead
=============================================================================
