------------------------ MODULE ConsumerNode_proofs ------------------------
(***************************************************************************)
(* Type correctness and the delivery guarantees of the Node.js consumer, for *)
(* any number of partitions, plugins, connections, retries and events, and   *)
(* without the bounds of the model-checking runs.                            *)
(***************************************************************************)
EXTENDS ConsumerNode, Consumer_proofs

TypeInv == TypeOK /\ LoopLocalsInv

(* The initial state is well typed.                                          *)
LEMMA TypeInit == Init => TypeInv
BY ConsumerInitType DEF Init, TypeInv, TypeOK, ConsumerInv

(* The steps of the process's own work keep the types.                       *)
LEMMA ConsumeType ==
    ASSUME TypeInv, Consume
    PROVE  TypeInv'
<1>1. ConsumerInv /\ dlq \subseteq Work
  BY DEF TypeInv, TypeOK, ConsumerInv
<1>2. ASSUME NEW p \in Partition, Deliver(p) PROVE TypeInv'
  <2>1. position[p] + 1 \in Nat \ {0} /\ position' \in [Partition -> Nat]
    BY <1>1, <1>2 DEF Deliver, ConsumerInv, ConsumerTypeOK
  <2>2. ConsumerInv'
    BY <1>1, <1>2, <2>1, EnterType DEF Deliver, Fetchable
  <2>3. QED
    BY <1>1, <1>2, <2>2 DEF Deliver, TypeInv, TypeOK, ConsumerInv
<1>3. CASE (\E p \in Partition : PassUndecodable(p) /\ UNCHANGED dlq) \/ Commit
  <2>1. ConsumerInv' /\ dlq' = dlq
    BY <1>1, <1>3, OffsetStepType DEF Commit
  <2>2. QED
    BY <1>1, <2>1 DEF TypeInv, TypeOK, ConsumerInv
<1>4. CASE (Skip \/ Dispatch \/ HandleOk \/ HandleFail \/ LogPluginExecution)
           /\ UNCHANGED dlq
  <2>1. ConsumerInv'
    BY <1>1, <1>4, PluginStepType
  <2>2. QED
    BY <1>1, <1>4, <2>1 DEF TypeInv, TypeOK, ConsumerInv
<1>5. CASE SendToDlq
  <2>1. ConsumerInv'
    BY <1>1, <1>5, PluginStepType DEF SendToDlq
  <2>2. Duty \in Work
    BY <1>1, <1>5, DutyInWork DEF SendToDlq, AfterDeadLetter, ConsumerInv, LoopLocalsInv, Busy
  <2>3. QED
    BY <1>1, <1>5, <2>1, <2>2 DEF SendToDlq, TypeInv, TypeOK, ConsumerInv
<1>6. CASE ResolveMessage
  <2>1. position' \in [Partition -> Nat]
    BY <1>1, <1>6 DEF ResolveMessage, ConsumerInv, ConsumerTypeOK
  <2>2. ConsumerInv'
    BY <1>1, <1>6, <2>1, EndOfLoopType DEF ResolveMessage
  <2>3. QED
    BY <1>1, <1>6, <2>2 DEF ResolveMessage, TypeInv, TypeOK, ConsumerInv
<1>7. QED
  BY <1>2, <1>3, <1>4, <1>5, <1>6 DEF Consume

(* A refused dead letter keeps the types.                                    *)
LEMMA RejectType ==
    ASSUME TypeInv, SendToDlqRejects
    PROVE  TypeInv'
<1>1. ConsumerInv /\ dlq \subseteq Work
  BY DEF TypeInv, TypeOK, ConsumerInv
<1>2. TableTypeOK' /\ StoreTypeOK'
  BY <1>1, SameTables DEF SendToDlqRejects, ConsumerInv, ConsumerTypeOK
<1>3. dlq' \subseteq Work
  BY <1>1, DutyInWork DEF SendToDlqRejects, ConsumerInv, LoopLocalsInv, Busy
<1>4. faults' \in Nat
  BY <1>1 DEF SendToDlqRejects, ConsumerInv, ConsumerTypeOK
<1>5. UNCHANGED <<brokerVars, stopping, boots, workVars, part>>
      /\ pc' = "idle" /\ offset' = 0 /\ idx' = 1 /\ attempt' = 1
  BY DEF SendToDlqRejects, Leave
<1>6. ConsumerTypeOK'
  BY <1>1, <1>2, <1>4, <1>5, IndexFacts
     DEF ConsumerInv, ConsumerTypeOK, brokerVars, workVars
<1>7. LoopLocalsInv'
  BY <1>5 DEF LoopLocalsInv, Busy
<1>8. QED
  BY <1>3, <1>6, <1>7 DEF TypeInv, TypeOK

(* The type invariant is inductive.                                          *)
LEMMA TypeStep == TypeInv /\ [Next]_vars => TypeInv'
<1> SUFFICES ASSUME TypeInv, [Next]_vars PROVE TypeInv'
  OBVIOUS
<1>1. ConsumerInv /\ dlq \subseteq Work
  BY DEF TypeInv, TypeOK, ConsumerInv
<1>2. CASE Consume \/ SendToDlqRejects
  BY <1>2, ConsumeType, RejectType
<1>3. CASE /\ UNCHANGED dlq
           /\ \/ Environment \/ (\E c \in Fetcher : Store(c))
              \/ Rejoin \/ Crash \/ Boot \/ Shutdown \/ Exit
              \/ UNCHANGED consumerVars
  <2>1. ConsumerInv'
    BY <1>1, <1>3, SurroundingsType, OffsetStepType, ProcessStepType, ConsumerStutter
  <2>2. QED
    BY <1>1, <1>3, <2>1 DEF TypeInv, TypeOK, ConsumerInv
<1>4. QED
  BY <1>2, <1>3 DEF Next, Trouble, vars

(* Every variable keeps its type, and the loop's locals fit the place the    *)
(* process is at.                                                            *)
THEOREM TypeCorrect == Spec => []TypeInv
BY TypeInit, TypeStep, PTL DEF Spec

(* The type invariant of the runs.                                           *)
THEOREM TypesHold == Spec => []TypeOK
<1>1. TypeInv => TypeOK
  BY DEF TypeInv
<1>2. QED
  BY <1>1, TypeCorrect, PTL

(* index.js:95-111, 148-156: a message in hand takes at most the attempts of   *)
(* its plugins, one after the other, and never starts over, whatever fails.   *)
THEOREM MessagesEnd == Spec => MessageEnds
<1>1. TypeInv /\ [Next]_vars => [Advances]_vars
  <2> SUFFICES ASSUME TypeInv, [Next]_vars, loopVars' # loopVars, Busy PROVE Advances
    BY DEF Advances
  <2>1. ConsumerInv
    BY DEF TypeInv, TypeOK, ConsumerInv
  <2>2. CASE Skip \/ Dispatch \/ HandleOk \/ HandleFail \/ SendToDlq \/ LogPluginExecution
    BY <2>1, <2>2, LoopAdvances DEF SendToDlq
  <2>3. CASE ResolveMessage \/ SendToDlqRejects \/ Crash
    BY <2>1, <2>3, LeavingAdvances
       DEF ResolveMessage, EndOfLoop, SendToDlqRejects, Crash, Leave, Busy
  <2>4. QED
    BY <2>2, <2>3
       DEF Next, Environment, Produce, Store, Consume, Deliver, Fetchable, PassUndecodable,
           Commit, CommitOffsets, Trouble, Rejoin, Boot, Shutdown, Exit, Busy, vars, consumerVars
<1>2. QED
  BY <1>1, TypeCorrect, PTL DEF Spec, MessageEnds

-----------------------------------------------------------------------------
(* Delivery: nothing acknowledged is lost, and order is kept.                *)

(* A step that leaves the positions alone and touches at most the duty in    *)
(* hand keeps what lies before the positions settled, and the order: the     *)
(* offsets before the duty's are exactly the consumed ones.                  *)
LEMMA TouchingTheDuty ==
    ASSUME TypeInv, OffsetsInv, ConsumedInv, InOrder, Busy,
           Settled \subseteq Settled', position' = position,
           Touched' \subseteq Touched \cup {Duty}
    PROVE  ConsumedInv' /\ InOrder'
<1>1. ConsumedInv'
  BY DEF ConsumedInv
<1>2. ASSUME NEW w \in Touched', NEW o \in 1..(w[2] - 1), NEW q \in Plugin
      PROVE  <<w[1], o, q>> \in Settled'
  <2>1. CASE w \in Touched
    BY <1>2, <2>1 DEF InOrder
  <2>2. CASE w = Duty
    <3>1. w[1] = part /\ w[2] = position[part] + 1
      BY <2>2 DEF Duty, OffsetsInv
    <3>2. part \in Partition /\ position[part] \in Nat
      BY DEF TypeInv, TypeOK, ConsumerTypeOK
    <3>3. o \in 1..position[part]
      BY <1>2, <3>1, <3>2
    <3>4. QED
      BY <3>1, <3>2, <3>3 DEF ConsumedInv
  <2>3. QED
    BY <1>2, <2>1, <2>2
<1>3. QED
  BY <1>1, <1>2 DEF InOrder

(* A step that touches nothing and does not move a position forward keeps    *)
(* both as well.                                                             *)
LEMMA TouchingNothing ==
    ASSUME TypeInv, ConsumedInv, InOrder,
           Settled' = Settled, Touched' = Touched,
           position' \in [Partition -> Nat],
           \A p \in Partition : position'[p] <= position[p]
    PROVE  ConsumedInv' /\ InOrder'
<1>1. ASSUME NEW p \in Partition, NEW o \in 1..position'[p], NEW q \in Plugin
      PROVE  <<p, o, q>> \in Settled'
  <2>1. position[p] \in Nat /\ position'[p] \in Nat /\ position'[p] <= position[p]
    BY DEF TypeInv, TypeOK, ConsumerTypeOK
  <2>2. o \in 1..position[p]
    BY <2>1
  <2>3. QED
    BY <2>2 DEF ConsumedInv
<1>2. QED
  BY <1>1 DEF ConsumedInv, InOrder

(* Work is settled for good: no part of the sets it lies in is taken back.  *)
LEMMA SettledGrows ==
    ASSUME skipped \subseteq skipped', handled \subseteq handled', dlq \subseteq dlq'
    PROVE  Settled \subseteq Settled'
BY DEF Settled

(* Nothing is consumed and nothing touched at first.                        *)
LEMMA DeliveryInit == Init => DeliveryInv
BY DEF Init, ConsumerInit, DeliveryInv, OffsetsInv, Busy, ConsumedInv, LoopInv, InOrder,
       Settled, Touched

(* Frames: what a step that leaves the process and its work alone keeps.     *)
LEMMA DeliveryFrame ==
    ASSUME TypeInv, DeliveryInv, UNCHANGED <<brokerVars, loopVars, workVars, dlq>>
    PROVE  DeliveryInv'
BY DEF DeliveryInv, OffsetsInv, Busy, ConsumedInv, LoopInv, InOrder, Settled, Touched,
       Duty, brokerVars, loopVars, workVars

(* The steps of the plugin loop settle duties in order.                      *)
LEMMA PluginSteps ==
    ASSUME TypeInv, DeliveryInv,
           \/ SendToDlq
           \/ /\ Skip \/ Dispatch \/ HandleOk \/ HandleFail \/ LogPluginExecution
              /\ UNCHANGED dlq
    PROVE  DeliveryInv'
<1> USE DEF brokerVars, loopVars, runVars, workVars, Busy, AtPlugin, NextPlugin,
            AttemptFails, RetryWhile, AfterDeadLetter
<1>1. UNCHANGED <<log, committed, position, part, offset>> /\ Busy /\ Busy'
  BY DEF Skip, Dispatch, HandleOk, HandleFail, SendToDlq, LogPluginExecution
<1>2. OffsetsInv'
  BY <1>1 DEF DeliveryInv, OffsetsInv
<1>3. skipped \subseteq skipped' /\ handled \subseteq handled' /\ dlq \subseteq dlq'
  BY DEF Skip, Dispatch, HandleOk, HandleFail, SendToDlq, LogPluginExecution
<1>4. Settled \subseteq Settled'
  BY <1>3, SettledGrows
<1>5. Touched' \subseteq Touched \cup {Duty}
  BY DEF Skip, Dispatch, HandleOk, HandleFail, SendToDlq, LogPluginExecution,
         Touched, Settled
<1>6. ConsumedInv' /\ InOrder'
  BY <1>1, <1>4, <1>5, TouchingTheDuty DEF DeliveryInv
<1>7. idx \in Nat
  BY DEF TypeInv, TypeOK, ConsumerTypeOK
<1>8. LoopInv'
  <2>1. CASE Dispatch \/ HandleOk \/ HandleFail
    <3>1. idx' = idx /\ Duty' = Duty
      BY <1>1, <2>1 DEF Dispatch, HandleOk, HandleFail, Duty
    <3>2. pc' = "record" => Duty' \in handled'
      BY <2>1, <3>1 DEF Dispatch, HandleOk, HandleFail
    <3>3. \A i \in 1..(idx' - 1) : <<part', offset', Plugins[i]>> \in Settled'
      BY <1>1, <1>4, <3>1 DEF DeliveryInv, LoopInv
    <3>4. QED
      BY <3>2, <3>3 DEF LoopInv
  <2>2. CASE Skip \/ SendToDlq \/ LogPluginExecution
    <3>1. idx' = idx + 1 /\ pc' = "plugins"
      BY <2>2 DEF Skip, SendToDlq, LogPluginExecution
    <3>2. Duty \in Settled'
      BY <2>2 DEF Skip, SendToDlq, LogPluginExecution, Settled, DeliveryInv, LoopInv
    <3>3. ASSUME NEW i \in 1..(idx' - 1)
          PROVE  <<part', offset', Plugins[i]>> \in Settled'
      <4>1. CASE i = idx
        BY <1>1, <3>2, <4>1 DEF Duty
      <4>2. CASE i \in 1..(idx - 1)
        BY <1>1, <1>4, <4>2 DEF DeliveryInv, LoopInv
      <4>3. QED
        BY <1>7, <3>1, <3>3, <4>1, <4>2
    <3>4. QED
      BY <3>1, <3>3 DEF LoopInv
  <2>3. QED
    BY <2>1, <2>2
<1>9. QED
  BY <1>2, <1>6, <1>8 DEF DeliveryInv

(* Entering and leaving eachMessage, and committing, follow the settled     *)
(* work.                                                                    *)
LEMMA MessageSteps ==
    ASSUME TypeInv, DeliveryInv,
           \/ \E p \in Partition : Deliver(p) \/ (PassUndecodable(p) /\ UNCHANGED dlq)
           \/ ResolveMessage
    PROVE  DeliveryInv'
<1> USE DEF brokerVars, loopVars, runVars, workVars, Busy
<1>1. ASSUME NEW p \in Partition, Deliver(p) PROVE DeliveryInv'
  <2>1. /\ Settled' = Settled /\ Touched' = Touched
        /\ UNCHANGED <<log, committed, position, idx>>
        /\ pc = "idle" /\ pc' = "plugins"
        /\ part' = p /\ offset' = position[p] + 1 /\ position[p] < Len(log[p])
    BY <1>1 DEF Deliver, Fetchable, Enter, Settled, Touched
  <2>2. /\ position \in [Partition -> Nat]
        /\ Len(log[p]) \in Nat
        /\ idx = 1
    BY <2>1 DEF TypeInv, TypeOK, ConsumerTypeOK, LoopLocalsInv
  <2>3. ConsumedInv' /\ InOrder'
    BY <2>1, <2>2, TouchingNothing DEF DeliveryInv
  <2>4. OffsetsInv'
    BY <2>1, <2>2 DEF DeliveryInv, OffsetsInv
  <2>5. LoopInv'
    BY <2>1, <2>2 DEF LoopInv
  <2>6. QED
    BY <2>3, <2>4, <2>5 DEF DeliveryInv
<1>2. ASSUME NEW p \in Partition, PassUndecodable(p), UNCHANGED dlq PROVE DeliveryInv'
  <2> DEFINE new == {<<p, position[p] + 1, q>> : q \in Plugin}
  <2>1. Settled' = Settled \cup new /\ Touched' = Touched \cup new
    BY <1>2 DEF PassUndecodable, Settled, Touched
  <2>2. position \in [Partition -> Nat] /\ committed \in [Partition -> Nat]
    BY DEF TypeInv, TypeOK, ConsumerTypeOK
  <2>3. position' = [position EXCEPT ![p] = @ + 1]
    BY <1>2 DEF PassUndecodable
  <2>4. ASSUME NEW r \in Partition, NEW o \in 1..position'[r], NEW q \in Plugin
        PROVE  <<r, o, q>> \in Settled'
    <3>1. CASE r = p /\ o = position[p] + 1
      BY <2>1, <3>1
    <3>2. CASE o \in 1..position[r]
      BY <2>1, <3>2 DEF DeliveryInv, ConsumedInv
    <3>3. QED
      BY <2>2, <2>3, <2>4, <3>1, <3>2
  <2>5. ASSUME NEW w \in Touched', NEW o \in 1..(w[2] - 1), NEW q \in Plugin
        PROVE  <<w[1], o, q>> \in Settled'
    <3>1. CASE w \in Touched
      BY <2>1, <2>5, <3>1 DEF DeliveryInv, InOrder
    <3>2. CASE w \in new
      <4>1. w[1] = p /\ w[2] = position[p] + 1
        BY <3>2
      <4>2. o \in 1..position[p]
        BY <2>2, <2>5, <4>1
      <4>3. QED
        BY <2>1, <4>1, <4>2 DEF DeliveryInv, ConsumedInv
    <3>3. QED
      BY <2>1, <2>5, <3>1, <3>2
  <2>6. OffsetsInv'
    <3>1. UNCHANGED <<log, committed>> /\ ~Busy'
      BY <1>2 DEF PassUndecodable, Fetchable
    <3>2. position[p] < Len(log[p]) /\ Len(log[p]) \in Nat
      BY <1>2 DEF PassUndecodable, Fetchable, TypeInv, TypeOK, ConsumerTypeOK
    <3>3. QED
      BY <2>2, <2>3, <3>1, <3>2 DEF DeliveryInv, OffsetsInv
  <2>7. LoopInv'
    BY <1>2 DEF PassUndecodable, Fetchable, LoopInv
  <2>8. QED
    BY <2>4, <2>5, <2>6, <2>7 DEF DeliveryInv, ConsumedInv, InOrder
<1>3. CASE ResolveMessage
  <2>1. Settled' = Settled /\ Touched' = Touched
    BY <1>3 DEF ResolveMessage, EndOfLoop, Settled, Touched
  <2>2. position \in [Partition -> Nat] /\ committed \in [Partition -> Nat] /\ part \in Partition
    BY DEF TypeInv, TypeOK, ConsumerTypeOK
  <2>3. position' = [position EXCEPT ![part] = @ + 1]
    BY <1>3 DEF ResolveMessage, EndOfLoop
  <2>4. ASSUME NEW q \in Plugin PROVE <<part, position[part] + 1, q>> \in Settled
    <3>1. PICK i \in 1..Len(Plugins) : Plugins[i] = q
      BY ConsumerAssumption
    <3>2. Len(Plugins) \in Nat /\ idx \in Nat
      BY ConsumerAssumption DEF TypeInv, TypeOK, ConsumerTypeOK
    <3>3. i \in 1..(idx - 1)
      BY <1>3, <3>1, <3>2 DEF ResolveMessage, EndOfLoop
    <3>4. QED
      BY <1>3, <3>1, <3>3 DEF ResolveMessage, EndOfLoop, DeliveryInv, LoopInv, OffsetsInv
  <2>5. ASSUME NEW r \in Partition, NEW o \in 1..position'[r], NEW q \in Plugin
        PROVE  <<r, o, q>> \in Settled'
    <3>1. CASE r = part /\ o = position[part] + 1
      BY <2>1, <2>4, <3>1
    <3>2. CASE o \in 1..position[r]
      BY <2>1, <3>2 DEF DeliveryInv, ConsumedInv
    <3>3. QED
      BY <2>2, <2>3, <2>5, <3>1, <3>2
  <2>6. InOrder'
    BY <2>1 DEF DeliveryInv, InOrder
  <2>7. OffsetsInv'
    <3>1. UNCHANGED <<log, committed>> /\ ~Busy'
      BY <1>3 DEF ResolveMessage, EndOfLoop, Leave
    <3>2. position[part] < Len(log[part]) /\ Len(log[part]) \in Nat
      BY <1>3, <2>2 DEF ResolveMessage, EndOfLoop, DeliveryInv, OffsetsInv, TypeInv, TypeOK, ConsumerTypeOK
    <3>3. QED
      BY <2>2, <2>3, <3>1, <3>2 DEF DeliveryInv, OffsetsInv
  <2>8. LoopInv'
    BY <1>3 DEF ResolveMessage, EndOfLoop, Leave, LoopInv
  <2>9. QED
    BY <2>5, <2>6, <2>7, <2>8 DEF DeliveryInv, ConsumedInv
<1>4. QED
  BY <1>1, <1>2, <1>3

(* Starting, stopping, failing and committing: the process is not in a       *)
(* message afterwards, and the positions fall back to the committed offsets  *)
(* or stay.                                                                  *)
LEMMA ProcessSteps ==
    ASSUME TypeInv, TypeInv', DeliveryInv,
           Commit \/ ((Boot \/ Rejoin \/ Exit \/ Crash) /\ UNCHANGED dlq)
    PROVE  DeliveryInv'
<1> USE DEF brokerVars, loopVars, runVars, workVars, Busy, CommitOffsets, Leave
<1>1. Settled' = Settled /\ Touched' = Touched /\ ~Busy' /\ log' = log
  BY DEF Boot, Commit, Rejoin, Exit, Crash, Settled, Touched
<1>2. \A p \in Partition :
         /\ committed[p] <= position[p] /\ position[p] <= Len(log[p])
         /\ committed[p] \in Nat /\ position[p] \in Nat /\ Len(log[p]) \in Nat
  BY DEF DeliveryInv, OffsetsInv, TypeInv, TypeOK, ConsumerTypeOK
<1>3. \/ position' = committed /\ committed' = committed
      \/ position' = position /\ committed' \in {committed, position}
  BY DEF Boot, Commit, Rejoin, Exit, Crash
<1>4. \A p \in Partition : position'[p] <= position[p] /\ committed'[p] <= position'[p]
  BY <1>2, <1>3
<1>5. position' \in [Partition -> Nat]
  BY DEF TypeInv, TypeOK, ConsumerTypeOK
<1>6. ConsumedInv' /\ InOrder'
  BY <1>1, <1>4, <1>5, TouchingNothing DEF DeliveryInv
<1>7. OffsetsInv'
  BY <1>1, <1>2, <1>4, <1>5 DEF OffsetsInv
<1>8. QED
  BY <1>1, <1>6, <1>7 DEF DeliveryInv, LoopInv

(* A refused dead letter leaves the message unconsumed and its order intact. *)
LEMMA RejectedDeadLetter ==
    ASSUME TypeInv, DeliveryInv, SendToDlqRejects
    PROVE  DeliveryInv'
<1> USE DEF brokerVars, loopVars, runVars, workVars, Busy
<1>1. Settled \subseteq Settled' /\ Touched' \subseteq Touched \cup {Duty}
  BY DEF SendToDlqRejects, Settled, Touched
<1>2. UNCHANGED <<log, committed, position>> /\ Busy /\ ~Busy'
  BY DEF SendToDlqRejects, Leave
<1>3. ConsumedInv' /\ InOrder'
  BY <1>1, <1>2, TouchingTheDuty DEF DeliveryInv
<1>4. QED
  BY <1>2, <1>3 DEF DeliveryInv, OffsetsInv, LoopInv

(* A message that arrives lies after everything consumed or touched.        *)
LEMMA ProducedMessage ==
    ASSUME TypeInv, DeliveryInv, NEW p \in Partition, NEW m \in EventType \cup {Undecodable},
           Produce(p, m), UNCHANGED dlq
    PROVE  DeliveryInv'
<1>1. UNCHANGED <<committed, position, loopVars, workVars>>
  BY DEF Produce
<1>2. \A r \in Partition : Len(log'[r]) >= Len(log[r]) /\ Len(log'[r]) \in Nat /\ Len(log[r]) \in Nat
  BY DEF Produce, TypeInv, TypeOK, ConsumerTypeOK
<1>3. OffsetsInv'
  BY <1>1, <1>2 DEF DeliveryInv, OffsetsInv, Busy, loopVars, TypeInv, TypeOK, ConsumerTypeOK
<1>4. QED
  BY <1>1, <1>3 DEF DeliveryInv, ConsumedInv, LoopInv, Busy, InOrder, Settled, Touched,
                    Duty, loopVars, workVars

(* The delivery invariant is inductive.                                     *)
LEMMA DeliveryStep == TypeInv /\ TypeInv' /\ DeliveryInv /\ [Next]_vars => DeliveryInv'
<1> SUFFICES ASSUME TypeInv, TypeInv', DeliveryInv, [Next]_vars PROVE DeliveryInv'
  OBVIOUS
<1>1. CASE UNCHANGED vars
  BY <1>1, DeliveryFrame DEF vars, consumerVars
<1>2. CASE Environment /\ UNCHANGED dlq
  BY <1>2, DeliveryFrame, ProducedMessage DEF Environment
<1>3. ASSUME NEW c \in Fetcher, Store(c), UNCHANGED dlq PROVE DeliveryInv'
  BY <1>3, DeliveryFrame DEF Store
<1>4. CASE Shutdown /\ UNCHANGED dlq
  BY <1>4, DeliveryFrame DEF Shutdown
<1>5. QED
  BY <1>1, <1>2, <1>3, <1>4, PluginSteps, MessageSteps, ProcessSteps, RejectedDeadLetter
     DEF Next, Consume, Trouble

(* The inductive invariant holds in every reachable state.                   *)
THEOREM DeliveryHolds == Spec => []DeliveryInv
<1>1. Init => TypeInv /\ DeliveryInv
  BY TypeInit, DeliveryInit
<1>2. TypeInv /\ DeliveryInv /\ [Next]_vars => (TypeInv /\ DeliveryInv)'
  BY TypeStep, DeliveryStep
<1>3. QED
  BY <1>1, <1>2, PTL DEF Spec

(* No crash, restart, refused dead letter or lost membership makes the group *)
(* acknowledge an event some plugin has not settled.                         *)
THEOREM NothingIsLost == Spec => []NoLostWork
<1>1. TypeInv /\ DeliveryInv => NoLostWork
  <2> SUFFICES ASSUME TypeInv, DeliveryInv,
                      NEW p \in Partition, NEW o \in 1..committed[p], NEW q \in Plugin
               PROVE  <<p, o, q>> \in Settled
    BY DEF NoLostWork
  <2>1. committed[p] \in Nat /\ position[p] \in Nat /\ committed[p] <= position[p]
    BY DEF TypeInv, TypeOK, ConsumerTypeOK, DeliveryInv, OffsetsInv
  <2>2. QED
    BY <2>1 DEF DeliveryInv, ConsumedInv
<1>2. QED
  BY <1>1, TypeCorrect, DeliveryHolds, PTL

(* A plugin starts on an event only after all earlier ones are settled.      *)
THEOREM OrderIsKept == Spec => []InOrder
<1>1. DeliveryInv => InOrder
  BY DEF DeliveryInv
<1>2. QED
  BY <1>1, DeliveryHolds, PTL

-----------------------------------------------------------------------------
(* Dead letters.                                                             *)

DeadLetterInv == AttemptsInv /\ DeadLetterJustified

(* The attempts counted on the way to a dead letter have all failed.        *)
LEMMA DeadLetterStep == TypeInv /\ DeadLetterInv /\ [Next]_vars => DeadLetterInv'
<1> SUFFICES ASSUME TypeInv, DeadLetterInv, [Next]_vars PROVE DeadLetterInv'
  OBVIOUS
<1>1. ConsumerInv
  BY DEF TypeInv, TypeOK, ConsumerInv
<1>2. DeadLetterJustified'
  <2>1. failed \subseteq failed'
    BY DEF Next, Environment, Produce, Store, Consume, Deliver, Enter, PassUndecodable, Skip,
           Dispatch, HandleOk, HandleFail, AttemptFails, LogPluginExecution, SendToDlq,
           AfterDeadLetter, ResolveMessage, EndOfLoop, Commit, CommitOffsets, Trouble,
           SendToDlqRejects, Rejoin, Crash, Boot, Shutdown, Exit, vars, consumerVars, workVars
  <2>2. CASE SendToDlq \/ SendToDlqRejects
    BY <2>1, <2>2 DEF SendToDlq, SendToDlqRejects, AfterDeadLetter, DeadLetterInv,
                      AttemptsInv, DeadLetterJustified
  <2>3. CASE UNCHANGED dlq
    BY <2>1, <2>3 DEF DeadLetterInv, DeadLetterJustified
  <2>4. QED
    BY <2>2, <2>3 DEF Next, Consume, Deliver, ResolveMessage, Commit, Trouble, vars
<1>3. AttemptsInv'
  <2>1. CASE HandleFail \/ Dispatch
    BY <1>1, <2>1, FailureCounted, DispatchCounted DEF DeadLetterInv
  <2>2. CASE pc' \notin {"attempt", "dlq"} \/ UNCHANGED <<loopVars, failed>>
    BY <2>2, AttemptsKept DEF DeadLetterInv
  <2>3. HandleFail \/ Dispatch \/ pc' \notin {"attempt", "dlq"} \/ UNCHANGED <<loopVars, failed>>
    BY DEF Next, Environment, Produce, Store, Consume, Deliver, Enter, PassUndecodable, Skip,
           HandleOk, LogPluginExecution, SendToDlq, AfterDeadLetter, NextPlugin,
           ResolveMessage, EndOfLoop, Leave, Commit, CommitOffsets, Trouble,
           SendToDlqRejects, Rejoin, Crash, Boot, Shutdown, Exit, vars, consumerVars,
           workVars
  <2>4. QED
    BY <2>1, <2>2, <2>3
<1>4. QED
  BY <1>2, <1>3 DEF DeadLetterInv

(* A dead letter stands for MAX_RETRIES failed attempts of its own plugin.   *)
THEOREM DeadLettersAreJustified == Spec => []DeadLetterJustified
<1>1. Init => DeadLetterInv
  BY DEF Init, ConsumerInit, DeadLetterInv, AttemptsInv, DeadLetterJustified
<1>2. DeadLetterInv => DeadLetterJustified
  BY DEF DeadLetterInv
<1>3. QED
  BY <1>1, <1>2, TypeCorrect, DeadLetterStep, PTL DEF Spec

-----------------------------------------------------------------------------
(* Refinement.                                                               *)

(* The initial states are initial states of in-order delivery.              *)
LEMMA AbstractInit == Init => Delivery!Init
BY DEF Init, ConsumerInit, Delivery!Init, Settled

(* Settling the duty in hand, or nothing.                                    *)
LEMMA SettleTheDuty ==
    ASSUME TypeInv, DeliveryInv, Busy, idx <= Len(Plugins),
           UNCHANGED <<log, committed>>,
           Settled' \in {Settled, Settled \cup {Duty}}
    PROVE  [Delivery!Next]_Delivery!vars
<1> DEFINE p == part
           o == offset
           q == Plugins[idx]
           produced == [r \in Partition |-> Len(log[r])]
<1>1. /\ p \in Partition /\ position[p] \in Nat /\ Len(log[p]) \in Nat
      /\ o = position[p] + 1 /\ o <= Len(log[p])
  BY DEF TypeInv, TypeOK, ConsumerTypeOK, DeliveryInv, OffsetsInv
<1>2. q \in Plugin
  BY ConsumerAssumption DEF TypeInv, TypeOK, ConsumerTypeOK
<1>3. o \in 1..produced[p] /\ {q} \in SUBSET Plugin
  BY <1>1, <1>2
<1>4. produced' = produced
  OBVIOUS
<1>5. \A e \in 1..(o - 1) : Delivery!FullySettled(p, e)
  BY <1>1 DEF DeliveryInv, ConsumedInv, Delivery!FullySettled
<1>6. CASE Settled' = Settled
  BY <1>4, <1>6 DEF Delivery!vars
<1>7. CASE Settled' = Settled \cup {Duty}
  <2>1. Settled' = Settled \cup {<<p, o, r>> : r \in {q}}
    BY <1>7 DEF Duty
  <2>2. Delivery!Settle(p, o, {q})
    BY <1>4, <1>5, <2>1 DEF Delivery!Settle
  <2>3. QED
    BY <1>1, <1>3, <2>2 DEF Delivery!Next
<1>8. QED
  BY <1>6, <1>7

(* Every step is a step of in-order delivery, or stutters there.            *)
LEMMA AbstractStep ==
    TypeInv /\ DeliveryInv /\ TypeInv' /\ [Next]_vars => [Delivery!Next]_Delivery!vars
<1> SUFFICES ASSUME TypeInv, DeliveryInv, TypeInv', [Next]_vars
             PROVE  [Delivery!Next]_Delivery!vars
  OBVIOUS
<1> USE DEF brokerVars, loopVars, runVars, workVars
<1>1. CASE UNCHANGED <<log, committed, skipped, handled, dlq>>
  BY <1>1 DEF Delivery!vars, Settled
<1>2. CASE SendToDlq \/ SendToDlqRejects \/ ((Skip \/ HandleOk) /\ UNCHANGED dlq)
  <2>1. Busy /\ idx <= Len(Plugins)
    BY <1>2 DEF Skip, AtPlugin, HandleOk, SendToDlq, AfterDeadLetter, SendToDlqRejects,
                Busy, TypeInv, LoopLocalsInv
  <2>2. UNCHANGED <<log, committed>> /\ Settled' \in {Settled, Settled \cup {Duty}}
    BY <1>2 DEF Skip, HandleOk, SendToDlq, AfterDeadLetter, SendToDlqRejects, Settled
  <2>3. QED
    BY <2>1, <2>2, SettleTheDuty
<1>3. ASSUME NEW p \in Partition, PassUndecodable(p), UNCHANGED dlq
      PROVE  [Delivery!Next]_Delivery!vars
  <2> DEFINE o == position[p] + 1
             produced == [r \in Partition |-> Len(log[r])]
  <2>1. position[p] \in Nat /\ Len(log[p]) \in Nat /\ produced' = produced
    BY <1>3 DEF PassUndecodable, TypeInv, TypeOK, ConsumerTypeOK
  <2>2. o \in 1..produced[p] /\ Plugin \in SUBSET Plugin
    BY <1>3, <2>1 DEF PassUndecodable, Fetchable
  <2>3. \A e \in 1..(o - 1) : Delivery!FullySettled(p, e)
    BY <2>1 DEF DeliveryInv, ConsumedInv, Delivery!FullySettled
  <2>4. Settled' = Settled \cup {<<p, o, q>> : q \in Plugin}
    BY <1>3 DEF PassUndecodable, Settled
  <2>5. Delivery!Settle(p, o, Plugin)
    BY <1>3, <2>1, <2>3, <2>4 DEF PassUndecodable, Delivery!Settle
  <2>6. QED
    BY <2>2, <2>5 DEF Delivery!Next
<1>4. CASE Commit \/ (Exit /\ UNCHANGED dlq)
  <2>1. UNCHANGED <<log, position>> /\ Settled' = Settled /\ committed' \in {committed, position}
    BY <1>4 DEF Commit, CommitOffsets, Exit, Settled
  <2>2. committed' \in [Partition -> Nat]
    BY DEF TypeInv, TypeOK, ConsumerTypeOK
  <2>3. ASSUME NEW p \in Partition
        PROVE  /\ committed'[p] \in committed[p]..Len(log[p])
               /\ \A o \in 1..committed'[p] : Delivery!FullySettled(p, o)
    <3>1. /\ committed[p] \in Nat /\ position[p] \in Nat /\ Len(log[p]) \in Nat
          /\ committed[p] <= position[p] /\ position[p] <= Len(log[p])
      BY DEF TypeInv, TypeOK, ConsumerTypeOK, DeliveryInv, OffsetsInv
    <3>2. committed'[p] \in committed[p]..position[p]
      BY <2>1, <3>1
    <3>3. QED
      BY <3>1, <3>2 DEF DeliveryInv, ConsumedInv, Delivery!FullySettled
  <2>4. Delivery!Acknowledge
    BY <2>1, <2>2, <2>3 DEF Delivery!Acknowledge
  <2>5. QED
    BY <2>4 DEF Delivery!Next
<1>5. ASSUME NEW p \in Partition, NEW m \in EventType \cup {Undecodable}, Produce(p, m),
             UNCHANGED dlq
      PROVE  [Delivery!Next]_Delivery!vars
  <2>1. log' = [log EXCEPT ![p] = Append(@, m)]
    BY <1>5 DEF Produce
  <2>2. \A r \in Partition : Len(log'[r]) = IF r = p THEN Len(log[r]) + 1 ELSE Len(log[r])
    BY <2>1 DEF TypeInv, TypeOK, ConsumerTypeOK
  <2>3. [r \in Partition |-> Len(log[r])]'
           = [[r \in Partition |-> Len(log[r])] EXCEPT ![p] = @ + 1]
    BY <2>2
  <2>4. Settled' = Settled /\ committed' = committed
    BY <1>5 DEF Produce, Settled
  <2>5. QED
    BY <2>3, <2>4 DEF Delivery!Next, Delivery!Produce
<1>6. ASSUME NEW c \in Fetcher, Store(c), UNCHANGED dlq PROVE [Delivery!Next]_Delivery!vars
  BY <1>1, <1>6 DEF Store
<1>7. ASSUME NEW p \in Partition, Deliver(p) PROVE [Delivery!Next]_Delivery!vars
  BY <1>1, <1>7 DEF Deliver, Enter
<1>8. CASE ResolveMessage \/ ((Dispatch \/ HandleFail \/ LogPluginExecution) /\ UNCHANGED dlq)
  BY <1>1, <1>8 DEF Dispatch, HandleFail, AttemptFails, LogPluginExecution,
                    ResolveMessage, EndOfLoop
<1>9. CASE ((Rejoin \/ Crash \/ Boot \/ Shutdown) /\ UNCHANGED dlq) \/ UNCHANGED vars
  BY <1>1, <1>9 DEF Rejoin, Crash, Boot, Shutdown, vars, consumerVars
<1>10. CASE Environment /\ UNCHANGED dlq
  BY <1>1, <1>5, <1>10 DEF Environment
<1>11. QED
  BY <1>2, <1>3, <1>4, <1>6, <1>7, <1>8, <1>9, <1>10 DEF Next, Consume, Trouble

(* The Node.js consumer implements in-order, at-least-once delivery.         *)
THEOREM DeliveryIsImplemented == Spec => ImplementsDelivery
<1>1. Spec => Delivery!Spec
  BY AbstractInit, AbstractStep, TypeCorrect, DeliveryHolds, PTL DEF Spec, Delivery!Spec
<1>2. QED
  BY <1>1 DEF ImplementsDelivery

-----------------------------------------------------------------------------
(* Exactly once.                                                             *)

(* No slug is loaded from two files (pluginLoader.js does not look).          *)
DistinctPlugins == \A i, j \in 1..Len(Plugins) : Plugins[i] = Plugins[j] => i = j

(* Until something goes wrong, work is handled only before the positions and, *)
(* of the message in hand, before the loop's index.                          *)
HandledBefore(w) ==
    \/ w[2] <= position[w[1]]
    \/ Busy /\ \E i \in 1..(idx - 1) : w = <<part, offset, Plugins[i]>>
    \/ pc = "record" /\ w = Duty

Untroubled == boots <= 1 /\ faults = 0

OnceInv ==
    /\ boots = 0 => pc = "down" /\ handled = {}
    /\ Untroubled /\ pc # "down" => \A w \in handled : HandledBefore(w)

(* The plugin loop handles a duty and passes it.                             *)
LEMMA OncePluginSteps ==
    ASSUME TypeInv, OnceInv,
           \/ SendToDlq
           \/ Skip \/ Dispatch \/ HandleOk \/ HandleFail \/ LogPluginExecution
    PROVE  OnceInv'
<1>1. /\ UNCHANGED <<position, part, offset, boots, faults>> /\ Busy /\ Busy' /\ pc # "down"
      /\ handled' = handled \/ (HandleOk /\ handled' = handled \cup {Duty})
  BY DEF SendToDlq, AfterDeadLetter, Skip, AtPlugin, Dispatch, HandleOk, HandleFail, AttemptFails,
         RetryWhile, LogPluginExecution, NextPlugin, Busy, brokerVars, runVars, workVars
<1>2. idx \in Nat
  BY DEF TypeInv, TypeOK, ConsumerTypeOK
<1>3. \/ /\ idx' = idx
         /\ pc # "record"
         /\ HandleOk => pc' = "record"
      \/ /\ idx' = idx + 1
         /\ ~HandleOk
  BY DEF SendToDlq, AfterDeadLetter, Skip, AtPlugin, Dispatch, HandleOk, HandleFail, AttemptFails,
         LogPluginExecution, NextPlugin
<1>4. ASSUME NEW w \in handled', Untroubled
      PROVE  HandledBefore(w)'
  <2>1. CASE w \in handled
    <3>1. HandledBefore(w)
      BY <1>1, <1>4, <2>1 DEF OnceInv
    <3>2. CASE w[2] <= position[w[1]]
      BY <1>1, <3>2 DEF HandledBefore
    <3>3. ASSUME NEW i \in 1..(idx - 1), w = <<part, offset, Plugins[i]>>
          PROVE  HandledBefore(w)'
      <4>1. i \in 1..(idx' - 1)
        BY <1>2, <1>3
      <4>2. QED BY <1>1, <3>3, <4>1 DEF HandledBefore
    <3>4. CASE pc = "record" /\ w = Duty
      <4>1. idx \in 1..(idx' - 1)
        <5>1. Len(Plugins) \in Nat /\ idx \in 1..(Len(Plugins) + 1)
          BY ConsumerAssumption DEF TypeInv, TypeOK, ConsumerTypeOK
        <5>2. idx' = idx + 1
          BY <1>3, <3>4
        <5>3. QED BY <5>1, <5>2
      <4>2. QED BY <1>1, <3>4, <4>1 DEF HandledBefore, Duty
    <3>5. QED BY <3>1, <3>2, <3>3, <3>4 DEF HandledBefore
  <2>2. CASE w = Duty /\ HandleOk
    <3>1. pc' = "record" /\ Duty' = Duty
      BY <1>1, <1>3, <2>2 DEF Duty
    <3>2. QED BY <2>2, <3>1 DEF HandledBefore
  <2>3. QED BY <1>1, <1>4, <2>1, <2>2
<1>5. boots # 0
  BY <1>1 DEF OnceInv
<1>6. QED BY <1>1, <1>4, <1>5 DEF OnceInv, Untroubled

(* Entering a message and leaving it.                                        *)
LEMMA OnceMessageSteps ==
    ASSUME TypeInv, DeliveryInv, OnceInv,
           \/ \E p \in Partition : Deliver(p) \/ PassUndecodable(p)
           \/ ResolveMessage
    PROVE  OnceInv'
<1>1. /\ UNCHANGED <<handled, boots, faults>> /\ pc # "down"
  BY DEF Deliver, Enter, PassUndecodable, Fetchable, ResolveMessage, EndOfLoop, runVars, workVars
<1>2. position \in [Partition -> Nat] /\ part \in Partition
      /\ \A w \in handled : w[1] \in Partition /\ w[2] \in Nat
  BY DEF TypeInv, TypeOK, ConsumerTypeOK, Work
<1>3. \A p \in Partition : position'[p] \in Nat /\ position[p] <= position'[p]
  BY <1>2 DEF Deliver, Enter, PassUndecodable, ResolveMessage
<1>4. ASSUME NEW w \in handled, HandledBefore(w)
      PROVE  HandledBefore(w)'
  <2>1. CASE w[2] <= position[w[1]]
    BY <1>2, <1>3, <2>1 DEF HandledBefore
  <2>2. CASE ~(w[2] <= position[w[1]])
    <3>1. pc # "idle" /\ pc # "record"
      BY <1>4, <2>2 DEF Deliver, PassUndecodable, Fetchable, ResolveMessage, EndOfLoop, HandledBefore, Busy
    <3>2. ResolveMessage
      BY <3>1 DEF Deliver, PassUndecodable, Fetchable
    <3>3. w[1] = part /\ w[2] = offset /\ Busy
      BY <1>4, <2>2, <3>1 DEF HandledBefore
    <3>4. w[2] = position[part] + 1
      BY <3>3 DEF DeliveryInv, OffsetsInv
    <3>5. position'[part] = position[part] + 1
      BY <1>2, <3>2 DEF ResolveMessage
    <3>6. QED BY <1>2, <3>3, <3>4, <3>5 DEF HandledBefore
  <2>3. QED BY <2>1, <2>2
<1>5. QED BY <1>1, <1>4 DEF OnceInv, Untroubled

(* All other steps touch neither the work nor the loop, or are the trouble.   *)
LEMMA OnceOtherSteps ==
    ASSUME TypeInv, OnceInv,
           \/ UNCHANGED vars
           \/ Environment \/ \E c \in Fetcher : Store(c)
           \/ Commit \/ Shutdown \/ Rejoin \/ SendToDlqRejects \/ Boot \/ Exit \/ Crash
    PROVE  OnceInv'
<1>1. handled' = handled /\ boots \in Nat /\ faults \in Nat
  BY DEF vars, consumerVars, Environment, Produce, Store, Commit, CommitOffsets, Shutdown, Rejoin,
         SendToDlqRejects, Boot, Exit, Crash, workVars, TypeInv, TypeOK, ConsumerTypeOK
<1>2. CASE UNCHANGED <<position, pc, part, offset, idx, boots, faults>>
  BY <1>1, <1>2 DEF OnceInv, HandledBefore, Untroubled, Busy, Duty
<1>3. CASE Rejoin \/ SendToDlqRejects
  <2>1. faults' = faults + 1 /\ boots' = boots /\ pc # "down"
    BY <1>3 DEF Rejoin, SendToDlqRejects
  <2>2. QED BY <1>1, <2>1 DEF OnceInv, Untroubled
<1>4. CASE Boot
  <2>1. boots' = boots + 1
    BY <1>4 DEF Boot
  <2>2. QED BY <1>1, <2>1 DEF OnceInv, Untroubled
<1>5. CASE Exit \/ Crash
  BY <1>1, <1>5 DEF Exit, Crash, Leave, runVars, OnceInv
<1>6. UNCHANGED <<position, pc, part, offset, idx, boots, faults>>
      \/ Rejoin \/ SendToDlqRejects \/ Boot \/ Exit \/ Crash
  BY DEF vars, consumerVars, Environment, Produce, Store, Commit, CommitOffsets, Shutdown,
         brokerVars, loopVars, runVars
<1>7. QED BY <1>2, <1>3, <1>4, <1>5, <1>6

LEMMA OnceStep == TypeInv /\ DeliveryInv /\ OnceInv /\ [Next]_vars => OnceInv'
BY OncePluginSteps, OnceMessageSteps, OnceOtherSteps DEF Next, Consume, Trouble

(* Without a second start of the process, a refused dead letter or a lost      *)
(* membership no plugin completes an event twice: eachMessage (index.js) runs  *)
(* each plugin once, and kafkajs resolves the offset when it returns.         *)
THEOREM ExactlyOnceWithoutTrouble == ASSUME DistinctPlugins PROVE Spec => OnceWithoutTrouble
<1>1. Init => OnceInv
  BY DEF Init, ConsumerInit, OnceInv
<1>2. ASSUME TypeInv, DeliveryInv, OnceInv, HandleOk, Duty \in handled
      PROVE  boots > 1 \/ faults > 0
  <2>1. SUFFICES ASSUME Untroubled PROVE FALSE
    BY <1>2 DEF Untroubled, TypeInv, TypeOK, ConsumerTypeOK
  <2>2. pc = "attempt" /\ Busy
    BY <1>2 DEF HandleOk, Busy
  <2>3. HandledBefore(Duty)
    BY <1>2, <2>1, <2>2 DEF OnceInv
  <2>4. /\ idx \in 1..Len(Plugins) /\ Len(Plugins) \in Nat
        /\ offset = position[part] + 1 /\ position[part] \in Nat
    BY <1>2, <2>2, ConsumerAssumption DEF TypeInv, TypeOK, ConsumerTypeOK, LoopLocalsInv, DeliveryInv,
       OffsetsInv
  <2>5. PICK i \in 1..(idx - 1) : Duty = <<part, offset, Plugins[i]>>
    BY <2>2, <2>3, <2>4 DEF HandledBefore, Duty
  <2>6. i \in 1..Len(Plugins) /\ Plugins[i] = Plugins[idx] /\ i # idx
    BY <2>4, <2>5 DEF Duty
  <2>7. QED BY <2>4, <2>6 DEF DistinctPlugins
<1>3. TypeInv /\ DeliveryInv /\ OnceInv /\ [Next]_vars =>
         [HandleOk /\ Duty \in handled => boots > 1 \/ faults > 0]_vars
  BY <1>2
<1>4. QED
  BY <1>1, <1>3, OnceStep, TypeCorrect, DeliveryHolds, PTL DEF Spec, OnceWithoutTrouble
=============================================================================
