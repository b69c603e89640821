----------------------- MODULE ConsumerPython_proofs -----------------------
(***************************************************************************)
(* Type correctness, dead letters, the order of first meetings and the age   *)
(* of the configuration in the Python consumer, for any instance and         *)
(* without the bounds of the model-checking runs.                            *)
(***************************************************************************)
EXTENDS ConsumerPython, Consumer_proofs

(* The poller thread runs exactly as long as the process.                    *)
PollingInv == polling = (pc # "down")

SendTypeOK == outbox \subseteq Outgoing /\ delivered \subseteq Outgoing

TypeInv == ConsumerInv /\ SendTypeOK /\ PollingInv

(* The initial state is well typed.                                          *)
LEMMA TypeInit == Init => TypeInv
BY ConsumerInitType DEF Init, ConsumerInit, StoreInit, TypeInv, SendTypeOK, PollingInv

-----------------------------------------------------------------------------
(* Every step keeps the types.                                               *)

(* The steps of the main thread.                                             *)
LEMMA ConsumeType ==
    ASSUME TypeInv, Consume
    PROVE  ConsumerInv' /\ SendTypeOK'
<1> USE DEF TypeInv, SendTypeOK, sendVars
<1>1. ASSUME NEW p \in Partition, Deliver(p) PROVE ConsumerInv' /\ SendTypeOK'
  <2>1. position[p] + 1 \in Nat \ {0} /\ position' \in [Partition -> Nat]
    BY <1>1 DEF Deliver, Poll, ConsumerInv, ConsumerTypeOK
  <2>2. position'[p] = position[p] + 1
    BY <1>1 DEF Deliver, Poll, ConsumerInv, ConsumerTypeOK
  <2>3. Enter(p, position[p] + 1) /\ pc = "idle"
    BY <1>1, <2>2 DEF Deliver, Poll, Fetchable
  <2>4. ConsumerInv'
    BY <2>1, <2>3, EnterType
  <2>5. QED
    BY <1>1, <2>4 DEF Deliver
<1>2. ASSUME NEW p \in Partition, DeliverUndecodable(p) PROVE ConsumerInv' /\ SendTypeOK'
  BY <1>2, OffsetStepType DEF DeliverUndecodable
<1>3. CASE PluginLoop
  <2>1. CASE EndOfLoop /\ UNCHANGED position
    <3>1. position' \in [Partition -> Nat]
      BY <2>1 DEF ConsumerInv, ConsumerTypeOK
    <3>2. QED
      BY <1>3, <2>1, <3>1, EndOfLoopType DEF PluginLoop
  <2>2. QED
    BY <1>3, <2>1, PluginStepType DEF PluginLoop
<1>4. CASE ExecuteWithRetry
  <2>1. Duty \in Work
    BY <1>4, DutyInWork DEF ExecuteWithRetry, HandleOk, HandleFail, AttemptFails,
                            ConsumerInv, LoopLocalsInv, Busy
  <2>2. SendTypeOK'
    BY <1>4, <2>1 DEF ExecuteWithRetry, OutboxAfterHandle, Outgoing
  <2>3. QED
    BY <1>4, <2>2, PluginStepType DEF ExecuteWithRetry
<1>5. CASE SendToDlq
  <2>1. Duty \in Work
    BY <1>5, DutyInWork DEF SendToDlq, AfterDeadLetter, ConsumerInv, LoopLocalsInv, Busy
  <2>2. SendTypeOK'
    BY <1>5, <2>1 DEF SendToDlq, Outgoing
  <2>3. QED
    BY <1>5, <2>2, PluginStepType DEF SendToDlq
<1>6. CASE LogExecution
  BY <1>6, PluginStepType DEF LogExecution
<1>7. QED
  BY <1>1, <1>2, <1>3, <1>4, <1>5, <1>6 DEF Consume

(* A dead letter that cannot be produced ends the process, and what it       *)
(* leaves is well typed.                                                     *)
LEMMA RaiseType ==
    ASSUME TypeInv, SendToDlqRaises
    PROVE  ConsumerInv'
<1>1. TableTypeOK' /\ StoreTypeOK'
  BY StoreHaltType DEF SendToDlqRaises, TypeInv, ConsumerInv, ConsumerTypeOK,
                       TableTypeOK, tableVars
<1>2. /\ committed' \in [Partition -> Nat] /\ position' \in [Partition -> Nat]
      /\ log' \in [Partition -> Seq(EventType \cup {Undecodable})]
      /\ faults' \in Nat
  BY DEF SendToDlqRaises, TypeInv, ConsumerInv, ConsumerTypeOK
<1>3. pc' = "down" /\ offset' = 0 /\ idx' = 1 /\ attempt' = 1 /\ part' = part
  BY DEF SendToDlqRaises, Leave
<1>4. UNCHANGED <<stopping, boots, workVars>>
  BY DEF SendToDlqRaises
<1>5. ConsumerTypeOK'
  BY <1>1, <1>2, <1>3, <1>4, IndexFacts DEF TypeInv, ConsumerInv, ConsumerTypeOK, workVars
<1>6. LoopLocalsInv'
  BY <1>3 DEF LoopLocalsInv, Busy
<1>7. QED
  BY <1>5, <1>6 DEF ConsumerInv

(* The thread is started and stopped with the process and by nothing else.   *)
LEMMA PollingStep ==
    ASSUME TypeInv, [Next]_vars
    PROVE  PollingInv'
<1> USE DEF TypeInv, PollingInv
<1>1. CASE UNCHANGED <<storeVars, pc>>
  BY <1>1 DEF storeVars
<1>2. CASE \/ Environment \/ AutoCommit \/ Send \/ Rejoin \/ Shutdown \/ UNCHANGED vars
           \/ \E p \in Partition : DeliverUndecodable(p)
  BY <1>1, <1>2 DEF Environment, Produce, AutoCommit, CommitOffsets, Send, Rejoin, Shutdown,
                    vars, consumerVars, loopVars, DeliverUndecodable, PassUndecodable
<1>3. CASE Poller
  BY <1>3 DEF Poller, Store, StoreStep, Select, Install, FetchFails, Release, loopVars
<1>4. CASE PluginLoop \/ ExecuteWithRetry \/ SendToDlq \/ LogExecution
  <2>1. polling' = polling
    BY <1>4 DEF PluginLoop, Skip, Dispatch, EndOfLoop, ExecuteWithRetry, HandleOk, HandleFail,
                AttemptFails, SendToDlq, AfterDeadLetter, LogExecution, LogPluginExecution,
                storeVars
  <2>2. pc # "down" /\ pc' # "down"
    BY <1>4 DEF PluginLoop, Skip, AtPlugin, Dispatch, EndOfLoop, Leave, ExecuteWithRetry,
                HandleOk, HandleFail, AttemptFails, RetryWhile, SendToDlq, AfterDeadLetter,
                LogExecution, LogPluginExecution, NextPlugin
  <2>3. QED
    BY <2>1, <2>2
<1>5. ASSUME NEW p \in Partition, Deliver(p) PROVE PollingInv'
  BY <1>5 DEF Deliver, Poll, Fetchable, Enter, storeVars
<1>6. CASE Boot \/ Exit \/ Crash \/ SendToDlqRaises
  BY <1>6 DEF Boot, StoreStart, Exit, Crash, SendToDlqRaises, StoreHalt, Leave
<1>7. QED
  BY <1>2, <1>3, <1>4, <1>5, <1>6 DEF Next, Main, OnSignal, Close, Consume, Trouble

(* The type invariant is inductive.                                          *)
LEMMA TypeStep == TypeInv /\ [Next]_vars => TypeInv'
<1> SUFFICES ASSUME TypeInv, [Next]_vars PROVE TypeInv'
  OBVIOUS
<1> USE DEF SendTypeOK, sendVars, DropOutbox
<1>1. CASE Consume
  BY <1>1, ConsumeType, PollingStep DEF TypeInv
<1>2. ASSUME UNCHANGED consumerVars PROVE ConsumerInv'
  BY <1>2, ConsumerStutter DEF TypeInv
<1>3. ConsumerInv'
  BY <1>1, <1>2, RaiseType, SurroundingsType, OffsetStepType, ProcessStepType
     DEF TypeInv, Next, Main, OnSignal, Close, Poller, AutoCommit, Send, Trouble, vars
<1>4. SendTypeOK'
  <2>1. CASE Send
    BY <2>1 DEF Send, OutboxDelivers, OutboxExpires, TypeInv
  <2>2. CASE UNCHANGED sendVars \/ DropOutbox
    BY <2>2 DEF TypeInv
  <2>3. QED
    BY <1>1, <2>1, <2>2 DEF TypeInv, Next, Main, OnSignal, Close, Poller, AutoCommit,
                                 Trouble, SendToDlqRaises, vars
<1>5. QED
  BY <1>3, <1>4, PollingStep DEF TypeInv

(* Every variable keeps its type, the loop's locals fit the place the main   *)
(* thread is at, and the poller runs while the process does.                 *)
THEOREM TypeCorrect == Spec => []TypeInv
BY TypeInit, TypeStep, PTL DEF Spec

(* The type invariant of the runs.                                           *)
THEOREM TypesHold == Spec => []TypeOK
<1>1. TypeInv => TypeOK
  BY DEF TypeInv, SendTypeOK, TypeOK, ConsumerInv
<1>2. QED
  BY <1>1, TypeCorrect, PTL

(* main.py:120-143, 178-188: a message in hand takes at most the attempts of   *)
(* its plugins, one after the other, and never starts over, whatever fails.   *)
THEOREM MessagesEnd == Spec => MessageEnds
<1>1. TypeInv /\ [Next]_vars => [Advances]_vars
  <2> SUFFICES ASSUME TypeInv, [Next]_vars, loopVars' # loopVars, Busy PROVE Advances
    BY DEF Advances
  <2>1. ConsumerInv
    BY DEF TypeInv
  <2>2. CASE Skip \/ Dispatch \/ ExecuteWithRetry \/ SendToDlq \/ LogExecution
    BY <2>1, <2>2, LoopAdvances DEF ExecuteWithRetry, SendToDlq, LogExecution
  <2>3. CASE EndOfLoop \/ SendToDlqRaises \/ Crash
    BY <2>1, <2>3, LeavingAdvances DEF EndOfLoop, SendToDlqRaises, Crash, Leave, Busy
  <2>4. QED
    BY <2>2, <2>3
       DEF Next, Environment, Produce, Poller, Store, Consume, Deliver, Poll, Fetchable,
           DeliverUndecodable, PassUndecodable, PluginLoop, AutoCommit, CommitOffsets, Send,
           Trouble, Rejoin, Main, Boot, OnSignal, Shutdown, Close, Exit, Busy, vars, consumerVars
<1>2. QED
  BY <1>1, TypeCorrect, PTL DEF Spec, MessageEnds

-----------------------------------------------------------------------------
(* Dead letters.                                                             *)

DeadLetterInv == AttemptsInv /\ DeadLetterJustified

(* A dead letter enters the outbox only from a place where all attempts have *)
(* failed, and the outbox is where a delivered one comes from.               *)
LEMMA DeadLetterStep == TypeInv /\ DeadLetterInv /\ [Next]_vars => DeadLetterInv'
<1> SUFFICES ASSUME TypeInv, DeadLetterInv, [Next]_vars PROVE DeadLetterInv'
  OBVIOUS
<1> USE DEF sendVars, DropOutbox
<1>1. DeadLetterJustified'
  <2>1. failed \subseteq failed'
    BY DEF Next, Main, OnSignal, Close, Environment, Produce, Poller, Store, Consume,
           Deliver, Enter,
           DeliverUndecodable, PassUndecodable, PluginLoop, Skip, Dispatch, EndOfLoop,
           ExecuteWithRetry, HandleOk, HandleFail, AttemptFails, LogExecution,
           LogPluginExecution, SendToDlq, AfterDeadLetter, AutoCommit, CommitOffsets, Send,
           Trouble, SendToDlqRaises, Rejoin, Crash, Boot, Shutdown, Exit, vars,
           consumerVars, workVars
  <2>2. CASE SendToDlq
    BY <2>1, <2>2 DEF SendToDlq, AfterDeadLetter, DeadLetterInv, AttemptsInv,
                      DeadLetterJustified
  <2>3. CASE ExecuteWithRetry
    BY <2>1, <2>3 DEF ExecuteWithRetry, OutboxAfterHandle, DeadLetterInv, DeadLetterJustified
  <2>4. CASE outbox' \cup delivered' \subseteq outbox \cup delivered
    BY <2>1, <2>4 DEF DeadLetterInv, DeadLetterJustified
  <2>5. SendToDlq \/ ExecuteWithRetry \/ outbox' \cup delivered' \subseteq outbox \cup delivered
    BY DEF Next, Main, OnSignal, Close, Poller, Consume, Deliver, DeliverUndecodable,
           PluginLoop, LogExecution,
           AutoCommit, Send, OutboxDelivers, OutboxExpires, Trouble, SendToDlqRaises, vars
  <2>6. QED
    BY <2>2, <2>3, <2>4, <2>5
<1>2. AttemptsInv'
  <2>1. CASE HandleFail \/ Dispatch
    BY <2>1, FailureCounted, DispatchCounted DEF TypeInv, DeadLetterInv
  <2>2. CASE pc' \notin {"attempt", "dlq"} \/ UNCHANGED <<loopVars, failed>>
    BY <2>2, AttemptsKept DEF DeadLetterInv
  <2>3. HandleFail \/ Dispatch \/ pc' \notin {"attempt", "dlq"} \/ UNCHANGED <<loopVars, failed>>
    BY DEF Next, Main, OnSignal, Close, Environment, Produce, Poller, Store, Consume,
           Deliver, Enter,
           DeliverUndecodable, PassUndecodable, PluginLoop, Skip, EndOfLoop, Leave,
           ExecuteWithRetry, HandleOk, LogExecution, LogPluginExecution, NextPlugin,
           SendToDlq, AfterDeadLetter, AutoCommit, CommitOffsets, Send, Trouble,
           SendToDlqRaises, Rejoin, Crash, Boot, Shutdown, Exit, vars, consumerVars, workVars
  <2>4. QED
    BY <2>1, <2>2, <2>3
<1>3. QED
  BY <1>1, <1>2 DEF DeadLetterInv

(* A dead letter, sent or queued, stands for MAX_RETRIES failed attempts of  *)
(* its own plugin on its own event.                                          *)
THEOREM DeadLettersAreJustified == Spec => []DeadLetterJustified
<1>1. Init => DeadLetterInv
  BY DEF Init, ConsumerInit, DeadLetterInv, AttemptsInv, DeadLetterJustified
<1>2. DeadLetterInv => DeadLetterJustified
  BY DEF DeadLetterInv
<1>3. QED
  BY <1>1, <1>2, TypeCorrect, DeadLetterStep, PTL DEF Spec

-----------------------------------------------------------------------------
(* The configuration.                                                        *)

(* What the consumer does to its store is what a store does on its own.      *)
LEMMA StoreIsAStore ==
    ASSUME TypeInv, [Next]_vars
    PROVE  [StoreSpecNext]_storeSpecVars
<1> USE DEF storeSpecVars
<1>1. CASE UNCHANGED <<tableVars, storeVars>>
  BY <1>1
<1>2. CASE TableNext /\ UNCHANGED storeVars
  BY <1>2 DEF StoreSpecNext
<1>3. CASE Boot
  BY <1>3 DEF Boot, StoreSpecNext, TypeInv, PollingInv
<1>4. CASE Exit \/ Crash \/ SendToDlqRaises
  BY <1>4 DEF Exit, Crash, SendToDlqRaises, StoreSpecNext, TypeInv, PollingInv
<1>5. CASE Poller
  BY <1>5 DEF Poller, Store, StoreSpecNext
<1>6. \/ UNCHANGED <<tableVars, storeVars>>
      \/ TableNext /\ UNCHANGED storeVars
      \/ Boot \/ Exit \/ Crash \/ SendToDlqRaises \/ Poller
  BY DEF Next, Main, OnSignal, Close, Environment, Produce, Consume, Deliver, Enter,
         DeliverUndecodable,
         PassUndecodable, PluginLoop, Skip, Dispatch, EndOfLoop, ExecuteWithRetry, HandleOk,
         HandleFail, AttemptFails, LogExecution, LogPluginExecution, SendToDlq,
         AfterDeadLetter, AutoCommit, CommitOffsets, Send, Trouble, Rejoin, Shutdown,
         vars, consumerVars
<1>7. QED
  BY <1>1, <1>2, <1>3, <1>4, <1>5, <1>6

(* An event never sees older settings than the event before it, within one   *)
(* life of the process.                                                      *)
THEOREM ConfigNeverRegresses ==
    ASSUME NEW poller, Fetcher = {poller}
    PROVE  Spec => CacheNeverRegresses
<1>1. Init => StoreInv
  BY AgesInit DEF Init, ConsumerInit
<1>2. TypeInv /\ StoreInv /\ [Next]_vars => StoreInv' /\ [Forward]_storeSpecVars
  BY StoreIsAStore, OneFetcherStep
<1>3. QED
  BY <1>1, <1>2, TypeCorrect, PTL DEF Spec, CacheNeverRegresses, Forward

-----------------------------------------------------------------------------
(* First meetings.  FirstMetInOrder speaks of two states; the invariant      *)
(* behind it says which messages have been met.                              *)

(* The message in hand is the last one taken as consumed.                    *)
InHandInv ==
    /\ \A p \in Partition : committed[p] <= position[p]
    /\ Busy => offset = position[part]

(* What was taken since the last commit has been met by every plugin, except *)
(* for the one in hand.                                                      *)
TakenMet ==
    pc # "down" =>
        \A p \in Partition : \A o \in (committed[p] + 1)..position[p], q \in Plugin :
            (Busy /\ p = part /\ o = offset) \/ <<p, o, q>> \in Touched

(* So has the one in hand by the plugins the loop has left behind.           *)
LoopMet ==
    /\ Busy => \A i \in 1..(idx - 1) : <<part, offset, Plugins[i]>> \in Touched
    /\ pc \in {"dlq", "record"} => Duty \in Touched

(* There is no gap between the commits and a message that was met.           *)
NoGap ==
    \A w \in Touched : \A o \in (committed[w[1]] + 1)..(w[2] - 1), q \in Plugin :
        <<w[1], o, q>> \in Touched

(* A message in hand again, with later ones met before, was met by all.      *)
AgainMet ==
    Busy => \A w \in Touched, q \in Plugin :
        w[1] = part /\ w[2] > offset => <<part, offset, q>> \in Touched

MetInv == InHandInv /\ TakenMet /\ LoopMet /\ NoGap /\ AgainMet

FirstInOrder ==
    \A w \in Touched' \ Touched, v \in Touched : v[1] = w[1] => v[2] <= w[2]

(* What is met is work.                                                      *)
LEMMA TouchedType ==
    ASSUME TypeInv, NEW w \in Touched
    PROVE  w[1] \in Partition /\ w[2] \in Nat \ {0}
<1>1. w \in Work
  BY DEF Touched, TypeInv, ConsumerInv, ConsumerTypeOK
<1>2. QED
  BY <1>1 DEF Work

(* The offsets are numbers.                                                  *)
LEMMA OffsetTypes ==
    ASSUME TypeInv
    PROVE  /\ committed \in [Partition -> Nat] /\ position \in [Partition -> Nat]
           /\ part \in Partition /\ offset \in Nat /\ idx \in Nat
BY DEF TypeInv, ConsumerInv, ConsumerTypeOK

(* Nothing is met at first.                                                  *)
LEMMA MetInit == Init => MetInv
BY DEF Init, ConsumerInit, MetInv, InHandInv, TakenMet, LoopMet, NoGap, AgainMet, Busy, Touched

(* A step that leaves offsets, loop and work alone.                          *)
LEMMA MetFrame ==
    ASSUME MetInv,
           UNCHANGED <<committed, position, loopVars, skipped, handled, failed>>
    PROVE  MetInv' /\ FirstInOrder
BY DEF MetInv, InHandInv, TakenMet, LoopMet, NoGap, AgainMet, Busy, Touched, Duty,
       FirstInOrder, loopVars

(* In the plugin loop only the duty in hand is met.                          *)
LEMMA PluginMet ==
    ASSUME TypeInv, MetInv,
           \/ Skip \/ Dispatch \/ HandleOk \/ HandleFail
           \/ AfterDeadLetter \/ LogPluginExecution
    PROVE  MetInv' /\ FirstInOrder
<1> USE DEF AtPlugin, NextPlugin, AttemptFails, RetryWhile, Busy, brokerVars, workVars
<1>1. UNCHANGED <<committed, position, part, offset>> /\ Busy /\ Busy'
  BY DEF Skip, Dispatch, HandleOk, HandleFail, AfterDeadLetter, LogPluginExecution
<1>2. Touched \subseteq Touched' /\ Touched' \subseteq Touched \cup {Duty}
  BY DEF Skip, Dispatch, HandleOk, HandleFail, AfterDeadLetter, LogPluginExecution, Touched
<1>3. offset = position[part]
  BY <1>1 DEF MetInv, InHandInv
<1>4. Duty[1] = part /\ Duty[2] = offset
  BY DEF Duty
<1>5. Plugins[idx] \in Plugin
  <2>1. idx <= Len(Plugins)
    BY DEF Skip, Dispatch, HandleOk, HandleFail, AfterDeadLetter, LogPluginExecution,
           TypeInv, ConsumerInv, LoopLocalsInv
  <2>2. QED
    BY <2>1, ConsumerAssumption DEF TypeInv, ConsumerInv, ConsumerTypeOK
<1>6. FirstInOrder
  <2> SUFFICES ASSUME NEW w \in Touched' \ Touched, NEW v \in Touched, v[1] = w[1]
               PROVE  v[2] <= w[2]
    BY DEF FirstInOrder
  <2>1. w = Duty
    BY <1>2
  <2>2. ~(v[2] > offset)
    BY <1>1, <1>4, <1>5, <2>1 DEF MetInv, AgainMet, Duty
  <2>3. QED
    BY <1>4, <2>1, <2>2, TouchedType, OffsetTypes
<1>7. InHandInv' /\ TakenMet'
  BY <1>1, <1>2 DEF MetInv, InHandInv, TakenMet
<1>8. LoopMet'
  <2>1. CASE Dispatch \/ HandleOk \/ HandleFail
    <3>1. idx' = idx /\ Duty' = Duty
      BY <1>1, <2>1 DEF Dispatch, HandleOk, HandleFail, Duty
    <3>2. pc' \in {"dlq", "record"} => Duty \in Touched'
      BY <2>1 DEF Dispatch, HandleOk, HandleFail, Touched
    <3>3. QED
      BY <1>1, <1>2, <3>1, <3>2 DEF MetInv, LoopMet
  <2>2. CASE Skip \/ AfterDeadLetter \/ LogPluginExecution
    <3>1. idx' = idx + 1 /\ pc' = "plugins"
      BY <2>2 DEF Skip, AfterDeadLetter, LogPluginExecution
    <3>2. Duty \in Touched'
      BY <1>2, <2>2 DEF Skip, AfterDeadLetter, LogPluginExecution, Touched, MetInv, LoopMet
    <3>3. ASSUME NEW i \in 1..(idx' - 1)
          PROVE  <<part', offset', Plugins[i]>> \in Touched'
      <4>1. CASE i = idx
        BY <1>1, <3>2, <4>1 DEF Duty
      <4>2. CASE i \in 1..(idx - 1)
        BY <1>1, <1>2, <4>2 DEF MetInv, LoopMet
      <4>3. QED
        BY <3>1, <3>3, <4>1, <4>2, OffsetTypes
    <3>4. QED
      BY <3>1, <3>3 DEF LoopMet
  <2>3. QED
    BY <2>1, <2>2
<1>9. NoGap'
  <2> SUFFICES ASSUME NEW w \in Touched', NEW o \in (committed[w[1]] + 1)..(w[2] - 1),
                      NEW q \in Plugin
               PROVE  <<w[1], o, q>> \in Touched'
    BY <1>1 DEF NoGap
  <2>1. CASE w \in Touched
    BY <1>2, <2>1 DEF MetInv, NoGap
  <2>2. CASE w = Duty
    <3>1. o \in (committed[part] + 1)..position[part] /\ o # offset
      BY <1>3, <1>4, <2>2, OffsetTypes
    <3>2. QED
      BY <1>1, <1>2, <1>4, <2>2, <3>1, OffsetTypes DEF MetInv, TakenMet
  <2>3. QED
    BY <1>2, <2>1, <2>2
<1>10. AgainMet'
  BY <1>1, <1>2, <1>4, OffsetTypes DEF MetInv, AgainMet
<1>11. QED
  BY <1>6, <1>7, <1>8, <1>9, <1>10 DEF MetInv

(* A message is taken in hand after everything that was taken before it.     *)
LEMMA DeliverMet ==
    ASSUME TypeInv, MetInv, NEW p \in Partition, Deliver(p)
    PROVE  MetInv' /\ FirstInOrder
<1> USE DEF Busy, workVars
<1>1. /\ Touched' = Touched /\ committed' = committed /\ idx' = idx
      /\ position' = [position EXCEPT ![p] = @ + 1]
      /\ pc = "idle" /\ pc' = "plugins" /\ part' = p
  BY DEF Deliver, Poll, Fetchable, Enter, Touched
<1>2. position'[p] = position[p] + 1 /\ offset' = position[p] + 1
  BY <1>1, OffsetTypes DEF Deliver, Enter
<1>3. idx = 1
  BY <1>1 DEF TypeInv, ConsumerInv, LoopLocalsInv
<1>4. \A r \in Partition : committed[r] <= position[r]
  BY DEF MetInv, InHandInv
<1>5. InHandInv'
  BY <1>1, <1>2, <1>4, OffsetTypes DEF InHandInv
<1>6. TakenMet'
  <2> SUFFICES ASSUME NEW r \in Partition, NEW o \in (committed[r] + 1)..position'[r],
                      NEW q \in Plugin, ~(r = p /\ o = offset')
               PROVE  <<r, o, q>> \in Touched
    BY <1>1 DEF TakenMet
  <2>1. o \in (committed[r] + 1)..position[r]
    BY <1>1, <1>2, OffsetTypes
  <2>2. QED
    BY <1>1, <2>1 DEF MetInv, TakenMet
<1>7. LoopMet'
  BY <1>1, <1>3 DEF LoopMet
<1>8. NoGap'
  BY <1>1 DEF MetInv, NoGap
<1>9. AgainMet'
  <2> SUFFICES ASSUME NEW w \in Touched, NEW q \in Plugin, w[1] = p, w[2] > position[p] + 1
               PROVE  <<p, position[p] + 1, q>> \in Touched
    BY <1>1, <1>2 DEF AgainMet
  <2>1. position[p] + 1 \in (committed[p] + 1)..(w[2] - 1)
    BY <1>4, OffsetTypes, TouchedType
  <2>2. QED
    BY <2>1 DEF MetInv, NoGap
<1>10. QED
  BY <1>1, <1>5, <1>6, <1>7, <1>8, <1>9 DEF MetInv, FirstInOrder

(* So is one that does not parse, and it is met by all plugins at once.      *)
LEMMA UndecodableMet ==
    ASSUME TypeInv, MetInv, NEW p \in Partition, PassUndecodable(p)
    PROVE  MetInv' /\ FirstInOrder
<1> USE DEF Busy
<1> DEFINE new == {<<p, position[p] + 1, q>> : q \in Plugin}
<1>1. /\ Touched' = Touched \cup new
      /\ committed' = committed
      /\ position' = [position EXCEPT ![p] = @ + 1]
      /\ pc = "idle" /\ pc' = "idle"
  BY DEF PassUndecodable, Fetchable, loopVars, Touched
<1>2. \A r \in Partition : committed[r] <= position[r]
  BY DEF MetInv, InHandInv
<1>3. FirstInOrder
  <2> SUFFICES ASSUME NEW w \in new, w \notin Touched, NEW v \in Touched, v[1] = w[1],
                      v[2] > w[2]
               PROVE  FALSE
    BY <1>1, TouchedType, OffsetTypes DEF FirstInOrder
  <2>1. PICK q \in Plugin : w = <<p, position[p] + 1, q>>
    OBVIOUS
  <2>2. position[p] + 1 \in (committed[p] + 1)..(v[2] - 1)
    BY <1>2, <2>1, TouchedType, OffsetTypes
  <2>3. QED
    BY <2>1, <2>2 DEF MetInv, NoGap
<1>4. InHandInv'
  BY <1>1, <1>2, OffsetTypes DEF InHandInv
<1>5. TakenMet'
  <2> SUFFICES ASSUME NEW r \in Partition, NEW o \in (committed[r] + 1)..position'[r],
                      NEW q \in Plugin
               PROVE  <<r, o, q>> \in Touched'
    BY <1>1 DEF TakenMet
  <2>1. CASE o \in (committed[r] + 1)..position[r]
    BY <1>1, <2>1 DEF MetInv, TakenMet
  <2>2. CASE r = p /\ o = position[p] + 1
    BY <1>1, <2>2
  <2>3. QED
    BY <1>1, <2>1, <2>2, OffsetTypes
<1>6. NoGap'
  <2> SUFFICES ASSUME NEW w \in Touched', NEW o \in (committed[w[1]] + 1)..(w[2] - 1),
                      NEW q \in Plugin
               PROVE  <<w[1], o, q>> \in Touched'
    BY <1>1 DEF NoGap
  <2>1. CASE w \in Touched
    BY <1>1, <2>1 DEF MetInv, NoGap
  <2>2. CASE w \in new
    <3>1. w[1] = p /\ w[2] = position[p] + 1
      BY <2>2
    <3>2. o \in (committed[p] + 1)..position[p]
      BY <3>1, OffsetTypes
    <3>3. QED
      BY <1>1, <3>1, <3>2 DEF MetInv, TakenMet
  <2>3. QED
    BY <1>1, <2>1, <2>2
<1>7. QED
  BY <1>1, <1>3, <1>4, <1>5, <1>6 DEF MetInv, LoopMet, AgainMet

(* At the end of the loop every plugin has met the message in hand.          *)
LEMMA EndOfLoopMet ==
    ASSUME TypeInv, MetInv, EndOfLoop, UNCHANGED position
    PROVE  MetInv' /\ FirstInOrder
<1> USE DEF Busy, workVars
<1>1. /\ Touched' = Touched /\ UNCHANGED <<committed, position>>
      /\ pc = "plugins" /\ pc' = "idle" /\ idx > Len(Plugins)
  BY DEF EndOfLoop, Leave, Touched
<1>2. ASSUME NEW q \in Plugin PROVE <<part, offset, q>> \in Touched
  <2>1. PICK i \in 1..Len(Plugins) : Plugins[i] = q
    BY ConsumerAssumption
  <2>2. i \in 1..(idx - 1)
    BY <1>1, <2>1, OffsetTypes, ConsumerAssumption
  <2>3. QED
    BY <1>1, <2>1, <2>2 DEF MetInv, LoopMet
<1>3. TakenMet'
  BY <1>1, <1>2 DEF MetInv, TakenMet
<1>4. QED
  BY <1>1, <1>3 DEF MetInv, InHandInv, LoopMet, NoGap, AgainMet, FirstInOrder

(* A commit leaves nothing between it and the position.                      *)
LEMMA CommitMet ==
    ASSUME TypeInv, MetInv, CommitOffsets
    PROVE  MetInv' /\ FirstInOrder
<1>1. /\ Touched' = Touched /\ Duty' = Duty /\ Busy' = Busy
      /\ committed' = position /\ UNCHANGED <<position, loopVars>>
  BY DEF CommitOffsets, Touched, Duty, Busy, loopVars, workVars
<1>2. \A p \in Partition : position[p] \in Nat /\ committed[p] \in Nat /\ committed[p] <= position[p]
  BY OffsetTypes DEF MetInv, InHandInv
<1>3. NoGap'
  <2> SUFFICES ASSUME NEW w \in Touched, NEW o \in (position[w[1]] + 1)..(w[2] - 1),
                      NEW q \in Plugin
               PROVE  <<w[1], o, q>> \in Touched
    BY <1>1 DEF NoGap
  <2>1. o \in (committed[w[1]] + 1)..(w[2] - 1)
    BY <1>2, TouchedType
  <2>2. QED
    BY <2>1 DEF MetInv, NoGap
<1>4. InHandInv' /\ TakenMet'
  BY <1>1, <1>2 DEF MetInv, InHandInv, TakenMet, loopVars
<1>5. QED
  BY <1>1, <1>3, <1>4 DEF MetInv, LoopMet, AgainMet, FirstInOrder, loopVars

(* A start or a rejoin goes back to the commits; an end, clean or not, may   *)
(* commit once more and drops the message in hand.                           *)
LEMMA ProcessMet ==
    ASSUME TypeInv, MetInv,
           Boot \/ Rejoin \/ Exit \/ Crash \/ SendToDlqRaises
    PROVE  MetInv' /\ FirstInOrder
<1> USE DEF Busy, Leave, brokerVars, loopVars, workVars
<1>1. Touched' = Touched /\ ~Busy'
  BY DEF Boot, Rejoin, Exit, Crash, SendToDlqRaises, Touched
<1>2. \/ position' = committed /\ committed' = committed
      \/ position' = position /\ committed' \in {committed, position} /\ pc' = "down"
  BY DEF Boot, Rejoin, Exit, Crash, SendToDlqRaises
<1>3. \A p \in Partition : position[p] \in Nat /\ committed[p] \in Nat /\ committed[p] <= position[p]
  BY OffsetTypes DEF MetInv, InHandInv
<1>4. InHandInv' /\ TakenMet'
  BY <1>1, <1>2, <1>3 DEF InHandInv, TakenMet
<1>5. NoGap'
  <2> SUFFICES ASSUME NEW w \in Touched, NEW o \in (committed'[w[1]] + 1)..(w[2] - 1),
                      NEW q \in Plugin
               PROVE  <<w[1], o, q>> \in Touched
    BY <1>1 DEF NoGap
  <2>1. o \in (committed[w[1]] + 1)..(w[2] - 1)
    BY <1>2, <1>3, TouchedType
  <2>2. QED
    BY <2>1 DEF MetInv, NoGap
<1>6. LoopMet' /\ AgainMet'
  BY <1>1 DEF LoopMet, AgainMet
<1>7. QED
  BY <1>1, <1>4, <1>5, <1>6 DEF MetInv, FirstInOrder

(* The invariant is inductive, and every first meeting is in order.          *)
LEMMA MetStep == TypeInv /\ MetInv /\ [Next]_vars => MetInv' /\ [FirstInOrder]_vars
<1> SUFFICES ASSUME TypeInv, MetInv, [Next]_vars PROVE MetInv' /\ FirstInOrder
  OBVIOUS
<1>1. CASE UNCHANGED <<committed, position, loopVars, skipped, handled, failed>>
  BY <1>1, MetFrame
<1>2. CASE Environment \/ Poller \/ Send \/ Shutdown \/ UNCHANGED vars
  BY <1>1, <1>2 DEF Environment, Produce, Poller, Store, Send, Shutdown, vars, consumerVars,
                    brokerVars, workVars
<1>3. CASE PluginLoop \/ ExecuteWithRetry \/ SendToDlq \/ LogExecution
  BY <1>3, PluginMet, EndOfLoopMet DEF PluginLoop, ExecuteWithRetry, SendToDlq, LogExecution
<1>4. QED
  BY <1>2, <1>3, DeliverMet, UndecodableMet, CommitMet, ProcessMet
     DEF Next, Main, OnSignal, Close, Consume, DeliverUndecodable, AutoCommit, Trouble

(* Although it acknowledges before it works, the consumer meets the events   *)
(* of a partition for the first time in their order, across restarts, lost   *)
(* memberships and whatever is lost.                                         *)
THEOREM FirstMeetingsInOrder == Spec => FirstMetInOrder
<1>1. Init => MetInv
  BY MetInit
<1>2. TypeInv /\ MetInv /\ [Next]_vars => MetInv' /\ [FirstInOrder]_vars
  BY MetStep
<1>3. QED
  BY <1>1, <1>2, TypeCorrect, PTL DEF Spec, FirstMetInOrder, FirstInOrder

-----------------------------------------------------------------------------
(* Losses.                                                                   *)

Kept == Done \cup Queued \cup Ahead

Confined == Lost' \subseteq Lost \cup Queued \cup (IF pc' = "down" THEN Ahead ELSE {})

(* What lies within a horizon, spelled out.                                  *)
LEMMA WithinHorizon ==
    ASSUME NEW h, NEW w
    PROVE  w \in UNION {{<<p, o, q>> : o \in 1..h[p], q \in Plugin} : p \in Partition}
             <=> \E p \in Partition : \E o \in 1..h[p], q \in Plugin : w = <<p, o, q>>
<1> DEFINE within(p) == {<<p, o, q>> : o \in 1..h[p], q \in Plugin}
<1>1. w \in UNION {within(p) : p \in Partition} <=> \E p \in Partition : w \in within(p)
  <2> HIDE DEF within
  <2> QED
    OBVIOUS
<1>2. QED
  BY <1>1

(* Work is lost only where it was kept before or the horizon moves.          *)
LEMMA LostWithin ==
    ASSUME NEW X,
           \A p \in Partition :
              Horizon[p] \in Nat /\ Horizon'[p] \in Nat /\ Horizon'[p] <= Horizon[p],
           Kept \subseteq Kept' \cup X
    PROVE  Lost' \subseteq Lost \cup X
<1>1. Behind' \subseteq Behind
  <2> SUFFICES ASSUME NEW w \in Behind' PROVE w \in Behind
    OBVIOUS
  <2>1. PICK p \in Partition :
           \E o \in 1..Horizon'[p], q \in Plugin : w = <<p, o, q>>
    BY WithinHorizon DEF Behind
  <2>2. PICK o \in 1..Horizon'[p], q \in Plugin : w = <<p, o, q>>
    BY <2>1
  <2>3. o \in 1..Horizon[p]
    BY <2>2
  <2>4. QED
    BY <2>2, <2>3, WithinHorizon DEF Behind
<1>2. QED
  BY <1>1 DEF Lost, Kept

(* The plugin loop passes a duty from the part ahead to the part done or     *)
(* queued.                                                                   *)
LEMMA LoopConfined ==
    ASSUME TypeInv,
           \/ PluginLoop \/ ExecuteWithRetry \/ SendToDlq \/ LogExecution
    PROVE  Lost' \subseteq Lost
<1> USE DEF Busy, AtPlugin, NextPlugin, AttemptFails, RetryWhile, AfterDeadLetter, EndOfLoop,
            Leave, brokerVars, workVars, sendVars
<1>1. UNCHANGED <<committed, position>> /\ Busy /\ pc' # "down"
  BY DEF PluginLoop, Skip, Dispatch, ExecuteWithRetry, HandleOk, HandleFail, SendToDlq,
         LogExecution, LogPluginExecution
<1>2. \A p \in Partition : Horizon[p] \in Nat /\ Horizon'[p] = Horizon[p]
  BY <1>1, OffsetTypes DEF Horizon
<1>3. Done \subseteq Done' /\ Queued \subseteq Queued'
  BY DEF PluginLoop, Skip, Dispatch, ExecuteWithRetry, HandleOk, HandleFail, SendToDlq,
         LogExecution, LogPluginExecution, OutboxAfterHandle, Done, Queued
<1>4. idx \in Nat /\ Len(Plugins) \in Nat
  BY OffsetTypes, ConsumerAssumption
<1>5. Ahead \subseteq Ahead' \cup Done' \cup Queued'
  <2>1. CASE Dispatch \/ HandleFail
    BY <1>1, <2>1 DEF Dispatch, HandleFail, Ahead
  <2>2. CASE LogPluginExecution
    BY <1>4, <2>2 DEF LogPluginExecution, Ahead
  <2>3. CASE EndOfLoop
    BY <1>4, <2>3 DEF Ahead
  <2>4. CASE Skip \/ SendToDlq \/ (ExecuteWithRetry /\ HandleOk)
    <3>1. Duty \in Done' \cup Queued'
      <4>1. CASE Skip
        BY <4>1 DEF Skip, Done
      <4>2. CASE SendToDlq
        <5>1. <<"dlq", Duty>> \in outbox'
          BY <4>2 DEF SendToDlq
        <5>2. QED
          BY <5>1 DEF Queued
      <4>3. CASE ExecuteWithRetry /\ HandleOk
        <5>1. Duty \in handled' /\ Duty[3] = Plugins[idx]
          BY <4>3 DEF HandleOk, Duty
        <5>2. CASE Plugins[idx] \notin Publisher
          BY <5>1, <5>2 DEF Done
        <5>3. CASE Plugins[idx] \in Publisher
          <6>1. <<"derived", Duty>> \in outbox'
            BY <4>3, <5>3 DEF ExecuteWithRetry, HandleOk, HandleFail, OutboxAfterHandle
          <6>2. QED
            BY <6>1 DEF Queued
        <5>4. QED
          BY <5>2, <5>3
      <4>4. QED
        BY <2>4, <4>1, <4>2, <4>3
    <3>2. pc # "record" /\ part' = part /\ offset' = offset
      BY <2>4 DEF Skip, SendToDlq, HandleOk
    <3>3. \/ idx' = idx + 1 /\ pc' = "plugins"
          \/ idx' = idx /\ pc' = "record"
      BY <2>4 DEF Skip, SendToDlq, HandleOk
    <3>4. ASSUME NEW w \in Ahead PROVE w = Duty \/ w \in Ahead'
      <4>1. PICK i \in idx..Len(Plugins) : w = <<part, offset, Plugins[i]>>
        BY <1>1, <3>2 DEF Ahead
      <4>2. CASE i = idx
        BY <4>1, <4>2 DEF Duty
      <4>3. CASE i \in (idx + 1)..Len(Plugins)
        BY <3>2, <3>3, <4>1, <4>3 DEF Ahead
      <4>4. QED
        BY <1>4, <4>1, <4>2, <4>3
    <3>5. QED
      BY <3>1, <3>4
  <2>5. QED
    BY <2>1, <2>2, <2>3, <2>4 DEF PluginLoop, ExecuteWithRetry, LogExecution
<1>6. Kept \subseteq Kept' \cup {}
  BY <1>3, <1>5 DEF Kept
<1>7. Lost' \subseteq Lost \cup {}
  BY <1>2, <1>6, LostWithin
<1>8. QED
  BY <1>7

(* A message taken as consumed is ahead as a whole, or passed over.          *)
LEMMA MessageConfined ==
    ASSUME TypeInv, NEW p \in Partition, Deliver(p) \/ DeliverUndecodable(p)
    PROVE  Lost' \subseteq Lost
<1> DEFINE new == {<<p, position[p] + 1, q>> : q \in Plugin}
<1>1. /\ pc = "idle" /\ pc' # "down" /\ position' = [position EXCEPT ![p] = @ + 1]
      /\ UNCHANGED sendVars
  BY DEF Deliver, Poll, Fetchable, Enter, DeliverUndecodable, PassUndecodable, loopVars
<1>2. Done \subseteq Done' /\ Queued = Queued' /\ Ahead = {}
  BY <1>1 DEF Deliver, Enter, DeliverUndecodable, PassUndecodable, workVars, sendVars, Done,
              Queued, Ahead, Busy
<1>3. new \subseteq Done' \cup Ahead'
  <2>1. CASE Deliver(p)
    <3>1. idx' = 1 /\ pc' = "plugins" /\ part' = p /\ offset' = position[p] + 1
      BY <1>1, <2>1, OffsetTypes DEF Deliver, Enter, TypeInv, ConsumerInv, LoopLocalsInv,
                                       Busy
    <3>2. ASSUME NEW q \in Plugin PROVE <<p, position[p] + 1, q>> \in Ahead'
      <4>1. PICK i \in 1..Len(Plugins) : Plugins[i] = q
        BY ConsumerAssumption
      <4>2. QED
        BY <3>1, <4>1 DEF Ahead, Busy
    <3>3. QED
      BY <3>2
  <2>2. CASE DeliverUndecodable(p)
    BY <2>2 DEF DeliverUndecodable, PassUndecodable, Done
  <2>3. QED
    BY <2>1, <2>2
<1>4. ASSUME NEW w \in Lost' PROVE w \in Lost
  <2>1. w \in Behind' /\ w \notin Done' \cup Queued' \cup Ahead'
    BY <1>4 DEF Lost
  <2>2. PICK r \in Partition :
           \E o \in 1..position'[r], q \in Plugin : w = <<r, o, q>>
    BY <1>1, <2>1, WithinHorizon DEF Behind, Horizon
  <2>3. PICK o \in 1..position'[r], q \in Plugin : w = <<r, o, q>>
    BY <2>2
  <2>4. ~(r = p /\ o = position[p] + 1)
    BY <1>3, <2>1, <2>3
  <2>5. o \in 1..position[r]
    BY <1>1, <2>3, <2>4, OffsetTypes
  <2>6. w \in Behind
    BY <1>1, <2>3, <2>5, WithinHorizon DEF Behind, Horizon
  <2>7. QED
    BY <1>2, <2>1, <2>6 DEF Lost
<1>5. QED
  BY <1>4

(* What runs beside the main thread loses at most what is queued.            *)
LEMMA BesideConfined ==
    ASSUME TypeInv, MetInv,
           \/ Environment /\ UNCHANGED sendVars
           \/ Poller \/ AutoCommit \/ Send
           \/ (Rejoin \/ Boot \/ Shutdown) /\ UNCHANGED sendVars
           \/ UNCHANGED vars
    PROVE  Lost' \subseteq Lost \cup Queued
<1> USE DEF Environment, Produce, Poller, Store, AutoCommit, CommitOffsets, Send, Rejoin, Boot,
            Shutdown, vars, consumerVars, sendVars, loopVars, brokerVars, workVars
<1>1. \A p \in Partition :
         Horizon[p] \in Nat /\ Horizon'[p] \in Nat /\ Horizon'[p] <= Horizon[p]
  <2>1. \A p \in Partition :
          position[p] \in Nat /\ committed[p] \in Nat /\ committed[p] <= position[p]
    BY OffsetTypes DEF MetInv, InHandInv
  <2>2. CASE UNCHANGED <<pc, committed, position>>
    BY <2>1, <2>2 DEF Horizon
  <2>3. CASE AutoCommit \/ Rejoin \/ Boot
    BY <2>1, <2>3 DEF Horizon
  <2>4. QED
    BY <2>2, <2>3
<1>2. Done \subseteq Done' /\ Ahead' = Ahead
  <2>1. skipped' = skipped /\ handled' = handled /\ delivered \subseteq delivered'
    BY DEF OutboxDelivers, OutboxExpires
  <2>2. Ahead' = Ahead
    BY DEF Ahead, Busy
  <2>3. QED
    BY <2>1, <2>2 DEF Done
<1>3. Kept \subseteq Kept' \cup Queued
  BY <1>2 DEF Kept
<1>4. QED
  BY <1>1, <1>3, LostWithin

(* The end of the process loses at most what is queued and what is ahead.    *)
LEMMA EndConfined ==
    ASSUME TypeInv, MetInv,
           SendToDlqRaises \/ ((Exit \/ Crash) /\ DropOutbox)
    PROVE  pc' = "down" /\ Lost' \subseteq Lost \cup Queued \cup Ahead
<1> USE DEF SendToDlqRaises, Exit, Crash, DropOutbox, Leave, brokerVars, workVars
<1>1. /\ pc # "down" /\ pc' = "down"
      /\ position' = position /\ committed' \in {committed, position}
  OBVIOUS
<1>2. \A p \in Partition :
         Horizon[p] \in Nat /\ Horizon'[p] \in Nat /\ Horizon'[p] <= Horizon[p]
  BY <1>1, OffsetTypes DEF Horizon, MetInv, InHandInv
<1>3. Done \subseteq Done'
  BY DEF Done
<1>4. Kept \subseteq Kept' \cup (Queued \cup Ahead)
  BY <1>3 DEF Kept
<1>5. Lost' \subseteq Lost \cup (Queued \cup Ahead)
  BY <1>2, <1>4, LostWithin
<1>6. QED
  BY <1>1, <1>5

(* Acknowledging before processing loses nothing beyond the rest of the      *)
(* event in hand and the messages in the producers' queues.                  *)
THEOREM LossesAreConfined == Spec => LossIsConfined
<1>1. Init => MetInv
  BY MetInit
<1>2. TypeInv /\ MetInv /\ [Next]_vars => MetInv' /\ [Confined]_vars
  <2> SUFFICES ASSUME TypeInv, MetInv, [Next]_vars PROVE Confined
    BY MetStep
  <2>1. CASE Consume
    BY <2>1, LoopConfined, MessageConfined DEF Consume, Confined
  <2>2. CASE SendToDlqRaises \/ ((Exit \/ Crash) /\ DropOutbox)
    BY <2>2, EndConfined DEF Confined
  <2>3. QED
    BY <2>1, <2>2, BesideConfined DEF Next, Main, OnSignal, Close, Trouble, Confined
<1>3. QED
  BY <1>1, <1>2, TypeCorrect, PTL DEF Spec, LossIsConfined, Confined

-----------------------------------------------------------------------------
(* Delivery on receipt: every step of the consumer is a step of EagerDelivery *)
(* or a stutter.                                                              *)

Produced == [p \in Partition |-> Len(log[p])]

EagerStutter == UNCHANGED <<Produced, Horizon, committed, Ahead, Queued, Done>>

LEMMA EagerInit == Init => Eager!Init
BY DEF Init, ConsumerInit, Eager!Init, Horizon, Ahead, Busy, Queued, Done

(* What is ahead at a plugin that has not run is its duty and the rest.       *)
LEMMA DutyAhead ==
    ASSUME TypeInv, pc \in {"plugins", "attempt", "dlq"}, idx <= Len(Plugins),
           part' = part, offset' = offset,
           \/ pc' = "plugins" /\ idx' = idx + 1
           \/ pc' = "record" /\ idx' = idx
    PROVE  Duty \in Ahead /\ Ahead' \in {Ahead, Ahead \ {Duty}}
<1>1. idx \in Nat \ {0} /\ Len(Plugins) \in Nat
  BY ConsumerAssumption DEF TypeInv, ConsumerInv, ConsumerTypeOK
<1>2. Ahead = {<<part, offset, Plugins[i]>> : i \in idx..Len(Plugins)}
  BY DEF Ahead, Busy
<1>3. Ahead' = {<<part, offset, Plugins[i]>> : i \in (idx + 1)..Len(Plugins)}
  BY DEF Ahead, Busy
<1>4. idx..Len(Plugins) = {idx} \cup (idx + 1)..Len(Plugins)
  BY <1>1
<1>5. Ahead = {Duty} \cup Ahead'
  BY <1>2, <1>3, <1>4 DEF Duty
<1>6. QED
  BY <1>5

(* A message more in a producer's queue is its work more with the sender.     *)
LEMMA MoreQueued ==
    ASSUME NEW topic, NEW w, outbox' = outbox \cup {<<topic, w>>}
    PROVE  Queued' = Queued \cup {w}
<1> DEFINE m == <<topic, w>>
<1>1. m[2] = w /\ outbox' = outbox \cup {m}
  OBVIOUS
<1> HIDE DEF m
<1>2. QED
  BY <1>1 DEF Queued

LEMMA LoopEager ==
    ASSUME TypeInv, PluginLoop \/ ExecuteWithRetry \/ SendToDlq \/ LogExecution
    PROVE  (\E w \in Ahead : Eager!Work(w)) \/ EagerStutter
<1> USE DEF Busy, AtPlugin, NextPlugin, AttemptFails, RetryWhile, AfterDeadLetter, EndOfLoop,
            Leave, brokerVars, workVars, sendVars
<1>1. UNCHANGED <<log, committed, position>> /\ Busy /\ pc # "down" /\ pc' # "down"
  BY DEF PluginLoop, Skip, Dispatch, ExecuteWithRetry, HandleOk, HandleFail, SendToDlq,
         LogExecution, LogPluginExecution
<1>2. UNCHANGED <<Produced, Horizon, committed>>
  BY <1>1 DEF Produced, Horizon
<1>3. idx \in Nat /\ Len(Plugins) \in Nat
  BY OffsetTypes, ConsumerAssumption
<1>4. CASE Dispatch \/ HandleFail \/ LogPluginExecution \/ EndOfLoop
  <2>1. UNCHANGED <<outbox, delivered>>
    BY <1>4 DEF PluginLoop, Skip, Dispatch, ExecuteWithRetry, HandleOk, HandleFail, SendToDlq,
                LogExecution, LogPluginExecution
  <2>2. UNCHANGED <<skipped, handled>>
    BY <1>4 DEF Dispatch, HandleFail, LogPluginExecution
  <2>3. Queued' = Queued /\ Done' = Done
    BY <2>1, <2>2 DEF Queued, Done
  <2>4. Ahead' = Ahead
    <3>1. CASE Dispatch \/ HandleFail
      BY <3>1 DEF Dispatch, HandleFail, Ahead
    <3>2. CASE LogPluginExecution
      BY <1>3, <3>2 DEF LogPluginExecution, Ahead
    <3>3. CASE EndOfLoop
      BY <1>3, <3>3 DEF Ahead
    <3>4. QED
      BY <1>4, <3>1, <3>2, <3>3
  <2>5. QED
    BY <1>2, <2>3, <2>4 DEF EagerStutter
<1>5. ASSUME Duty \in Ahead, Ahead' \in {Ahead, Ahead \ {Duty}},
             \/ Done' = Done \cup {Duty} /\ Queued' = Queued
             \/ Queued' = Queued \cup {Duty} /\ Done' = Done
      PROVE  \E w \in Ahead : Eager!Work(w)
  <2>1. Eager!Work(Duty)
    BY <1>2, <1>5 DEF Eager!Work, Produced
  <2>2. QED
    BY <1>5, <2>1
<1>6. CASE Skip /\ UNCHANGED sendVars
  <2>1. Duty \in Ahead /\ Ahead' \in {Ahead, Ahead \ {Duty}}
    BY <1>6, DutyAhead DEF Skip
  <2>2. Done' = Done \cup {Duty} /\ Queued' = Queued
    BY <1>6 DEF Skip, Done, Queued
  <2>3. QED
    BY <1>5, <2>1, <2>2
<1>7. CASE SendToDlq
  <2>1. Duty \in Ahead /\ Ahead' \in {Ahead, Ahead \ {Duty}}
    BY <1>7, DutyAhead DEF SendToDlq, TypeInv, ConsumerInv, LoopLocalsInv
  <2>2. outbox' = outbox \cup {<<"dlq", Duty>>} /\ UNCHANGED <<delivered, skipped, handled>>
    BY <1>7 DEF SendToDlq
  <2>3. Queued' = Queued \cup {Duty} /\ Done' = Done
    BY <2>2, MoreQueued DEF Done
  <2>4. QED
    BY <1>5, <2>1, <2>3
<1>8. CASE HandleOk /\ outbox' = OutboxAfterHandle /\ UNCHANGED delivered
  <2>1. Duty \in Ahead /\ Ahead' \in {Ahead, Ahead \ {Duty}}
    BY <1>8, DutyAhead DEF HandleOk, TypeInv, ConsumerInv, LoopLocalsInv
  <2>2. handled' = handled \cup {Duty} /\ UNCHANGED <<delivered, skipped>> /\ Duty[3] = Plugins[idx]
    BY <1>8 DEF HandleOk, Duty
  <2>3. CASE Plugins[idx] \in Publisher
    <3>1. outbox' = outbox \cup {<<"derived", Duty>>}
      BY <1>8, <2>3 DEF OutboxAfterHandle
    <3>2. Queued' = Queued \cup {Duty}
      BY <3>1, MoreQueued
    <3>3. Done' = Done
      BY <2>2, <2>3 DEF Done
    <3>4. QED
      BY <1>5, <2>1, <3>2, <3>3
  <2>4. CASE Plugins[idx] \notin Publisher
    <3>1. outbox' = outbox
      BY <1>8, <2>4 DEF OutboxAfterHandle
    <3>2. Queued' = Queued
      BY <3>1 DEF Queued
    <3>3. Done' = Done \cup {Duty}
      BY <2>2, <2>4 DEF Done
    <3>4. QED
      BY <1>5, <2>1, <3>2, <3>3
  <2>5. QED
    BY <2>3, <2>4
<1>9. QED
  BY <1>4, <1>6, <1>7, <1>8 DEF PluginLoop, ExecuteWithRetry, LogExecution

LEMMA MessageEager ==
    ASSUME TypeInv, NEW p \in Partition, Deliver(p) \/ DeliverUndecodable(p)
    PROVE  Eager!Take(p)
<1>1. /\ pc = "idle" /\ pc' # "down" /\ position' = [position EXCEPT ![p] = @ + 1]
      /\ position[p] < Len(log[p])
      /\ UNCHANGED <<log, committed, sendVars>>
  BY DEF Deliver, Poll, Fetchable, Enter, DeliverUndecodable, PassUndecodable, loopVars
<1>2. /\ Horizon = position /\ Horizon' = [position EXCEPT ![p] = @ + 1]
      /\ Ahead = {} /\ Queued' = Queued
  BY <1>1 DEF Horizon, Ahead, Busy, Queued, sendVars
<1>3. [q \in Partition |-> Len(log[q])][p] = Len(log[p])
  OBVIOUS
<1>4. CASE Deliver(p)
  <2>1. idx' = 1 /\ pc' = "plugins" /\ part' = p /\ offset' = position[p] + 1
    BY <1>1, <1>4, OffsetTypes DEF Deliver, Enter, TypeInv, ConsumerInv, LoopLocalsInv, Busy
  <2>2. Ahead' = {<<p, position[p] + 1, Plugins[i]>> : i \in 1..Len(Plugins)}
    BY <2>1 DEF Ahead, Busy
  <2>3. {Plugins[i] : i \in 1..Len(Plugins)} = Plugin
    BY ConsumerAssumption
  <2>4. Ahead' = {<<p, position[p] + 1, q>> : q \in Plugin}
    BY <2>2, <2>3
  <2>5. Done' = Done
    BY <1>1, <1>4 DEF Deliver, Enter, workVars, sendVars, Done
  <2>6. QED
    BY <1>1, <1>2, <1>3, <2>4, <2>5 DEF Eager!Take, Eager!WorkOn
<1>5. CASE DeliverUndecodable(p)
  <2>1. Done' = Done \cup {<<p, position[p] + 1, q>> : q \in Plugin}
    BY <1>5 DEF DeliverUndecodable, PassUndecodable, sendVars, Done
  <2>2. Ahead' = {}
    BY <1>1, <1>5 DEF DeliverUndecodable, PassUndecodable, loopVars, Ahead, Busy
  <2>3. QED
    BY <1>1, <1>2, <1>3, <2>1, <2>2 DEF Eager!Take, Eager!WorkOn
<1>6. QED
  BY <1>4, <1>5

LEMMA SendEager ==
    ASSUME TypeInv, Send
    PROVE  (\E w \in Queued : Eager!Sent(w) \/ Eager!GiveUp(w)) \/ EagerStutter
<1>1. PICK m \in outbox : OutboxDelivers(m) \/ OutboxExpires(m)
  BY DEF Send
<1>2. /\ UNCHANGED <<Produced, Horizon, committed, Ahead, skipped, handled>>
  BY DEF Send, consumerVars, brokerVars, loopVars, workVars, Produced, Horizon, Ahead, Busy
<1>3. m[2] \in Queued
  BY DEF Queued
<1>4. outbox' = outbox \ {m}
  BY <1>1 DEF OutboxDelivers, OutboxExpires
<1>5. Queued' \in {Queued, Queued \ {m[2]}}
  <2>1. CASE \E n \in outbox \ {m} : n[2] = m[2]
    BY <1>4, <2>1 DEF Queued
  <2>2. CASE \A n \in outbox \ {m} : n[2] # m[2]
    BY <1>4, <2>2 DEF Queued
  <2>3. QED
    BY <2>1, <2>2
<1>6. CASE OutboxDelivers(m)
  <2>1. Done' = Done \cup {m[2]}
    BY <1>2, <1>6 DEF OutboxDelivers, Done
  <2>2. Eager!Sent(m[2])
    BY <1>2, <1>5, <2>1 DEF Eager!Sent, Produced
  <2>3. QED
    BY <1>3, <2>2
<1>7. CASE OutboxExpires(m)
  <2>1. Done' = Done
    BY <1>2, <1>7 DEF OutboxExpires, Done
  <2>2. CASE Queued' = Queued
    BY <1>2, <2>1, <2>2 DEF EagerStutter
  <2>3. CASE Queued' = Queued \ {m[2]}
    BY <1>2, <1>3, <2>1, <2>3 DEF Eager!GiveUp, Produced
  <2>4. QED
    BY <1>5, <2>2, <2>3
<1>8. QED
  BY <1>1, <1>6, <1>7

(* Commits, a lost membership, and the end of the process.                    *)
LEMMA OffsetsEager ==
    ASSUME TypeInv
    PROVE  /\ AutoCommit => Eager!Acknowledge
           /\ Rejoin /\ UNCHANGED sendVars => Eager!Rejoin
           /\ SendToDlqRaises \/ ((Exit \/ Crash) /\ DropOutbox) => Eager!End
<1> USE DEF brokerVars, loopVars, workVars, sendVars, Horizon, Ahead, Busy, Queued, Done
<1>1. AutoCommit => Eager!Acknowledge
  BY DEF AutoCommit, CommitOffsets, Eager!Acknowledge
<1>2. Rejoin /\ UNCHANGED sendVars => Eager!Rejoin
  BY DEF Rejoin, Eager!Rejoin
<1>3. SendToDlqRaises \/ ((Exit \/ Crash) /\ DropOutbox) => Eager!End
  BY DEF SendToDlqRaises, Exit, Crash, DropOutbox, Leave, Eager!End
<1>4. QED
  BY <1>1, <1>2, <1>3

LEMMA ProduceEager ==
    ASSUME TypeInv, NEW p \in Partition, NEW m \in EventType \cup {Undecodable}, Produce(p, m),
           UNCHANGED sendVars
    PROVE  Eager!Produce(p)
<1>1. /\ log \in [Partition -> Seq(EventType \cup {Undecodable})]
      /\ log' = [log EXCEPT ![p] = Append(@, m)]
  BY DEF TypeInv, ConsumerInv, ConsumerTypeOK, Produce
<1>2. ASSUME NEW s \in Seq(EventType \cup {Undecodable}) PROVE Len(Append(s, m)) = Len(s) + 1
  BY <1>2
<1>3. Produced' = [Produced EXCEPT ![p] = @ + 1]
  BY <1>1, <1>2 DEF Produced
<1>4. UNCHANGED <<Horizon, committed, Ahead, Queued, Done>>
  BY DEF Produce, sendVars, loopVars, workVars, Horizon, Ahead, Busy, Queued, Done
<1>5. QED
  BY <1>3, <1>4 DEF Eager!Produce, Produced

(* The rest leaves everything the abstract consumer speaks of alone.          *)
LEMMA BesideEager ==
    ASSUME TypeInv,
           \/ TableNext /\ UNCHANGED <<storeVars, brokerVars, loopVars, runVars, workVars, sendVars>>
           \/ Poller \/ Main \/ OnSignal \/ UNCHANGED vars
    PROVE  EagerStutter
<1> USE DEF Poller, Store, Main, Boot, OnSignal, Shutdown, vars, consumerVars, sendVars, loopVars,
            brokerVars, workVars
<1>1. UNCHANGED <<log, committed, skipped, handled, outbox, delivered>> /\ Horizon' = Horizon
  BY DEF Horizon
<1>2. Ahead' = Ahead
  BY DEF Ahead, Busy
<1>3. QED
  BY <1>1, <1>2 DEF EagerStutter, Produced, Queued, Done

(* The Python consumer implements the abstract delivery on receipt: one event *)
(* after the other, and no work undone but what a producer gave up and what    *)
(* the end of the process caught in hand or in a producer's queue.            *)
THEOREM EagerDeliveryIsImplemented == Spec => ImplementsEagerDelivery
<1>1. TypeInv /\ [Next]_vars => [Eager!Next]_(Eager!vars)
  <2> SUFFICES ASSUME TypeInv, [Next]_vars PROVE Eager!Next \/ UNCHANGED Eager!vars
    OBVIOUS
  <2>1. EagerStutter => UNCHANGED Eager!vars
    BY DEF EagerStutter, Eager!vars, Produced
  <2>2. CASE Consume
    BY <2>1, <2>2, LoopEager, MessageEager DEF Consume, Eager!Next
  <2>3. CASE Send
    BY <2>1, <2>3, SendEager DEF Eager!Next
  <2>4. CASE AutoCommit \/ Trouble \/ Close
    BY <2>4, OffsetsEager DEF Trouble, Close, Eager!Next
  <2>5. CASE Environment /\ UNCHANGED sendVars
    BY <2>1, <2>5, ProduceEager, BesideEager DEF Environment, Eager!Next
  <2>6. CASE Poller \/ Main \/ OnSignal \/ UNCHANGED vars
    BY <2>1, <2>6, BesideEager
  <2>7. QED
    BY <2>2, <2>3, <2>4, <2>5, <2>6 DEF Next
<1>2. QED
  BY <1>1, EagerInit, TypeCorrect, PTL DEF Spec, ImplementsEagerDelivery, Eager!Spec
=============================================================================
