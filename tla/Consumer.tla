------------------------------ MODULE Consumer ------------------------------
(***************************************************************************)
(* What the two consumers (consumer-node/src/index.js and                    *)
(* consumer-python/main.py) have in common: for one message of pos-events    *)
(* after the other, every active and matching plugin runs on it with         *)
(* retries.  When an offset is taken as consumed and where a dead letter     *)
(* goes differ, and are left to ConsumerNode and ConsumerPython.             *)
(*                                                                           *)
(* Kafka is external: a partition is a sequence, position[p] is the client's *)
(* offset (how much of it is taken as consumed), committed[p] the one the    *)
(* broker remembers for the group.                                           *)
(***************************************************************************)
EXTENDS ConfigStore, Sequences, Functions

CONSTANTS
    Partition,    \* the partitions of pos-events
    Plugins,      \* what the plugin loader returns: the plugins in file order
    NeverFails,   \* the plugins whose handle() cannot fail (db_writer)
    Undecodable,  \* a message whose value does not parse
    MAX_RETRIES,
    MaxEvents,    \* bound: events produced, over all partitions
    MaxBoots,     \* bound: starts of the process
    MaxFaults     \* bound: refused dead letters and lost group memberships

ASSUME ConsumerAssumption ==
    /\ Plugins \in Seq(Plugin)
    /\ \A q \in Plugin : \E i \in 1..Len(Plugins) : Plugins[i] = q
    /\ NeverFails \subseteq Plugin
    /\ Undecodable \notin EventType
    /\ MAX_RETRIES \in Nat \ {0}
    /\ MaxEvents \in Nat /\ MaxBoots \in Nat /\ MaxFaults \in Nat

VARIABLES
    log,        \* the messages of each partition
    committed,  \* the group's committed offsets, kept by the broker
    position,   \* the client's offsets, kept in memory
    pc,         \* where the process is
    part,       \* the partition of the message in hand
    offset,     \* its offset, from 1; 0 between messages
    idx,        \* the index of the plugin in the for loop
    attempt,    \* the attempt of executeWithRetry
    stopping,   \* a signal has come (Python: running is False)
    boots,      \* starts so far
    faults,     \* faults so far
    skipped,    \* work passed over: no row, inactive, no match, undecodable
    failed,     \* attempts that failed, as <<work, attempt>>
    handled,    \* work whose handle() returned
    eventLog    \* work with a row in event_log

brokerVars == <<log, committed, position>>
loopVars   == <<pc, part, offset, idx, attempt>>
runVars    == <<stopping, boots, faults>>
workVars   == <<skipped, failed, handled, eventLog>>
consumerVars == <<tableVars, storeVars, brokerVars, loopVars, runVars, workVars>>

(* A plugin's duty towards one message, and the one in hand.                 *)
Work == Partition \X (Nat \ {0}) \X Plugin
Duty == <<part, offset, Plugins[idx]>>

ConsumerTypeOK ==
    /\ TableTypeOK
    /\ StoreTypeOK
    /\ log \in [Partition -> Seq(EventType \cup {Undecodable})]
    /\ committed \in [Partition -> Nat]
    /\ position \in [Partition -> Nat]
    /\ pc \in {"down", "idle", "plugins", "attempt", "dlq", "record"}
    /\ part \in Partition
    /\ offset \in Nat
    /\ idx \in 1..(Len(Plugins) + 1)
    /\ attempt \in 1..MAX_RETRIES
    /\ stopping \in BOOLEAN
    /\ boots \in Nat /\ faults \in Nat
    /\ skipped \subseteq Work /\ handled \subseteq Work /\ eventLog \subseteq Work
    /\ failed \subseteq Work \X (1..MAX_RETRIES)

ConsumerInit ==
    /\ TableInit
    /\ StoreInit
    /\ log = [p \in Partition |-> <<>>]
    /\ committed = [p \in Partition |-> 0]
    /\ position = [p \in Partition |-> 0]
    /\ pc = "down"
    /\ part \in Partition
    /\ offset = 0 /\ idx = 1 /\ attempt = 1
    /\ stopping = FALSE
    /\ boots = 0 /\ faults = 0
    /\ skipped = {} /\ failed = {} /\ handled = {} /\ eventLog = {}

-----------------------------------------------------------------------------
(* Messages                                                                  *)

(* A message arrives on the topic.                                           *)
Produce(p, m) ==
    /\ SumFunction([q \in Partition |-> Len(log[q])]) < MaxEvents
    /\ log' = [log EXCEPT ![p] = Append(@, m)]
    /\ UNCHANGED <<tableVars, storeVars, committed, position, loopVars, runVars, workVars>>

Fetchable(p) == pc = "idle" /\ ~stopping /\ position[p] < Len(log[p])

(* Message o of partition p is taken in hand, and it parses.                 *)
Enter(p, o) ==
    /\ log[p][o] # Undecodable
    /\ part' = p /\ offset' = o
    /\ pc' = "plugins"
    /\ UNCHANGED <<tableVars, storeVars, log, committed, idx, attempt, runVars, workVars>>

(* A message that does not parse is logged and counts as consumed.           *)
PassUndecodable(p) ==
    /\ Fetchable(p)
    /\ log[p][position[p] + 1] = Undecodable
    /\ skipped' = skipped \cup {<<p, position[p] + 1, q>> : q \in Plugin}
    /\ position' = [position EXCEPT ![p] = @ + 1]
    /\ UNCHANGED <<tableVars, storeVars, log, committed, loopVars, runVars,
                   failed, handled, eventLog>>

(* The message is left, and the loop's locals with it.                       *)
Leave(where) ==
    /\ pc' = where
    /\ offset' = 0 /\ idx' = 1 /\ attempt' = 1
    /\ UNCHANGED part

EndOfLoop ==
    /\ pc = "plugins"
    /\ idx > Len(Plugins)
    /\ Leave("idle")
    /\ UNCHANGED <<tableVars, storeVars, log, committed, runVars, workVars>>

(* The client's offsets become the group's.                                  *)
CommitOffsets ==
    /\ committed # position
    /\ committed' = position
    /\ UNCHANGED <<tableVars, storeVars, log, position, loopVars, runVars, workVars>>

-----------------------------------------------------------------------------
(* Plugins                                                                   *)

(* BasePlugin.matches: an empty or missing event_types list matches all.  It   *)
(* does not throw: event_types is taken to be a list.                        *)
Matches(types, event) == types = {} \/ event \in types

(* The three continue statements of the plugin loop, read from the cache at  *)
(* the time the loop reaches the plugin.                                     *)
Eligible ==
    /\ Plugins[idx] \in DOMAIN cache.rows
    /\ cache.rows[Plugins[idx]].active
    /\ Matches(cache.rows[Plugins[idx]].types, log[part][offset])

AtPlugin == pc = "plugins" /\ idx <= Len(Plugins)

NextPlugin ==
    /\ pc' = "plugins"
    /\ idx' = idx + 1
    /\ attempt' = 1
    /\ UNCHANGED <<part, offset>>

(* Variant: break where the code says continue.                              *)
SkipAll ==
    /\ AtPlugin
    /\ ~Eligible
    /\ skipped' = skipped \cup {Duty}
    /\ idx' = Len(Plugins) + 1
    /\ UNCHANGED <<tableVars, storeVars, brokerVars, pc, part, offset, attempt, runVars,
                   failed, handled, eventLog>>

Skip ==
    /\ AtPlugin
    /\ ~Eligible
    /\ skipped' = skipped \cup {Duty}
    /\ NextPlugin
    /\ UNCHANGED <<tableVars, storeVars, brokerVars, runVars, failed, handled, eventLog>>

(* Variant: executeWithRetry is not awaited and its promise is dropped.      *)
DispatchUnawaited ==
    /\ AtPlugin
    /\ Eligible
    /\ NextPlugin
    /\ UNCHANGED <<tableVars, storeVars, brokerVars, runVars, workVars>>

Dispatch ==
    /\ AtPlugin
    /\ Eligible
    /\ pc' = "attempt"
    /\ UNCHANGED <<tableVars, storeVars, brokerVars, part, offset, idx, attempt, runVars,
                   workVars>>

HandleOk ==
    /\ pc = "attempt"
    /\ handled' = handled \cup {Duty}
    /\ pc' = "record"
    /\ UNCHANGED <<tableVars, storeVars, brokerVars, part, offset, idx, attempt, runVars,
                   skipped, failed, eventLog>>

(* handle() fails; what it did before (the POST that timed out after the     *)
(* server had acted on it) stays done.                                       *)
AttemptFails ==
    /\ pc = "attempt"
    /\ Plugins[idx] \notin NeverFails
    /\ failed' = failed \cup {<<Duty, attempt>>}
    /\ UNCHANGED <<tableVars, storeVars, brokerVars, part, offset, idx, runVars,
                   skipped, handled, eventLog>>

RetryWhile(condition) ==
    IF condition THEN attempt' = attempt + 1 /\ pc' = pc
                 ELSE attempt' = attempt /\ pc' = "dlq"

(* Variants: one attempt too many, one too few, and no end.                  *)
HandleFailOneTooMany == AttemptFails /\ RetryWhile(attempt <= MAX_RETRIES)
HandleFailOneTooFew == AttemptFails /\ RetryWhile(attempt < MAX_RETRIES - 1)
HandleFailForever ==
    /\ AttemptFails
    /\ attempt' = (attempt % MAX_RETRIES) + 1
    /\ pc' = pc

HandleFail == AttemptFails /\ RetryWhile(attempt < MAX_RETRIES)

(* executeWithRetry returns false once the dead letter is on its way.        *)
AfterDeadLetter ==
    /\ pc = "dlq"
    /\ NextPlugin
    /\ UNCHANGED <<tableVars, storeVars, brokerVars, runVars, workVars>>

(* The INSERT into event_log; its failure is caught and logged.              *)
LogPluginExecution ==
    /\ pc = "record"
    /\ eventLog' = IF dbUp THEN eventLog \cup {Duty} ELSE eventLog
    /\ NextPlugin
    /\ UNCHANGED <<tableVars, storeVars, brokerVars, runVars, skipped, failed, handled>>

-----------------------------------------------------------------------------
(* The process                                                               *)

(* Variant: the subscription starts at the end of the topic.                 *)
BootAtEnd ==
    /\ pc = "down"
    /\ boots < MaxBoots
    /\ StoreStart
    /\ position' = [p \in Partition |-> Len(log[p])]
    /\ pc' = "idle"
    /\ stopping' = FALSE
    /\ boots' = boots + 1
    /\ UNCHANGED <<tableVars, log, committed, part, offset, idx, attempt, faults, workVars>>

(* main(): load the configuration, join the group, run.  The client starts   *)
(* from the committed offsets.                                               *)
Boot ==
    /\ pc = "down"
    /\ boots < MaxBoots
    /\ StoreStart
    /\ position' = committed
    /\ pc' = "idle"
    /\ stopping' = FALSE
    /\ boots' = boots + 1
    /\ UNCHANGED <<tableVars, log, committed, part, offset, idx, attempt, faults, workVars>>

(* The session was lost while the message in hand took its time, or the      *)
(* broker moved: the member joins again and starts from the committed        *)
(* offsets.                                                                  *)
Rejoin ==
    /\ pc = "idle"
    /\ faults < MaxFaults
    /\ position # committed
    /\ position' = committed
    /\ faults' = faults + 1
    /\ UNCHANGED <<tableVars, storeVars, log, committed, loopVars, stopping, boots, workVars>>

(* SIGTERM or SIGINT.                                                        *)
Shutdown ==
    /\ pc # "down"
    /\ ~stopping
    /\ stopping' = TRUE
    /\ UNCHANGED <<tableVars, storeVars, brokerVars, loopVars, boots, faults, workVars>>

(* The message in hand is finished first; closing the client commits its     *)
(* offsets if it can.                                                        *)
Exit ==
    /\ pc = "idle"
    /\ stopping
    /\ StoreHalt
    /\ Leave("down")
    /\ committed' \in {committed, position}
    /\ UNCHANGED <<tableVars, log, position, runVars, workVars>>

(* The process dies where it stands; the broker keeps its commits.           *)
Crash ==
    /\ pc # "down"
    /\ StoreHalt
    /\ Leave("down")
    /\ UNCHANGED <<tableVars, brokerVars, runVars, workVars>>

-----------------------------------------------------------------------------
Store(c) ==
    /\ StoreStep(c)
    /\ UNCHANGED <<tableVars, brokerVars, loopVars, runVars, workVars>>

Environment ==
    \/ TableNext /\ UNCHANGED <<storeVars, brokerVars, loopVars, runVars, workVars>>
    \/ \E p \in Partition, m \in EventType \cup {Undecodable} : Produce(p, m)

Up == pc # "down" /\ ~stopping

Busy == pc \in {"plugins", "attempt", "dlq", "record"}

(* The loop's locals have their first values outside the loop, and inside it *)
(* a message in hand and a plugin to run.                                    *)
LoopLocalsInv ==
    /\ pc \in {"attempt", "dlq", "record"} => idx <= Len(Plugins)
    /\ pc \in {"down", "idle", "plugins"} => attempt = 1
    /\ IF Busy THEN offset > 0 ELSE offset = 0 /\ idx = 1

(* The attempts before the one under way have failed, and before a dead      *)
(* letter all of them: the inductive part of DeadLetterJustified.            *)
AttemptsInv ==
    /\ pc = "attempt" => \A a \in 1..(attempt - 1) : <<Duty, a>> \in failed
    /\ pc = "dlq" => \A a \in 1..MAX_RETRIES : <<Duty, a>> \in failed

(* How far executeWithRetry has got with the plugin, and what that leaves at  *)
(* most to do on the message in hand, in steps of the loop.                   *)
Stage ==
    CASE pc = "plugins" -> 0
      [] pc = "attempt" -> attempt
      [] OTHER          -> MAX_RETRIES + 1

StepsLeft ==
    IF Busy THEN 1 + (Len(Plugins) + 1 - idx) * (MAX_RETRIES + 2) - Stage ELSE 0

Advances == Busy => loopVars' = loopVars \/ StepsLeft' < StepsLeft
=============================================================================
