--------------------------- MODULE Consumer_proofs ---------------------------
(***************************************************************************)
(* What holds of both consumers: type correctness of their common part, step *)
(* by step, and that a dead letter is preceded by a full round of failures.  *)
(***************************************************************************)
EXTENDS Consumer, ConfigStore_proofs

ConsumerInv == ConsumerTypeOK /\ LoopLocalsInv

(* The duty in hand is work of a known partition and plugin.                 *)
LEMMA DutyInWork ==
    ASSUME ConsumerInv, Busy, idx <= Len(Plugins)
    PROVE  Duty \in Work
<1>1. idx \in 1..Len(Plugins)
  BY ConsumerAssumption DEF ConsumerInv, ConsumerTypeOK
<1>2. Plugins[idx] \in Plugin
  BY <1>1, ConsumerAssumption
<1>3. part \in Partition /\ offset \in Nat \ {0}
  BY DEF ConsumerInv, ConsumerTypeOK, LoopLocalsInv
<1>4. QED
  BY <1>2, <1>3 DEF Duty, Work

(* Inside the plugin loop the index is that of a plugin.                     *)
LEMMA IndexFacts ==
    ASSUME ConsumerInv
    PROVE  /\ Len(Plugins) \in Nat
           /\ idx \in Nat \ {0}
           /\ idx <= Len(Plugins) => idx + 1 \in 1..(Len(Plugins) + 1)
           /\ 1 \in 1..(Len(Plugins) + 1)
           /\ 1 \in 1..MAX_RETRIES
BY ConsumerAssumption DEF ConsumerInv, ConsumerTypeOK

(* The initial state is well typed.                                          *)
LEMMA ConsumerInitType == ConsumerInit => ConsumerInv
<1> SUFFICES ASSUME ConsumerInit PROVE ConsumerInv
  OBVIOUS
<1>1. TableTypeOK /\ StoreTypeOK
  BY StoreInitType DEF ConsumerInit
<1>2. Len(Plugins) \in Nat /\ MAX_RETRIES \in Nat \ {0}
  BY ConsumerAssumption
<1>3. idx \in 1..(Len(Plugins) + 1) /\ attempt \in 1..MAX_RETRIES
  BY <1>2 DEF ConsumerInit
<1>4. /\ log \in [Partition -> Seq(EventType \cup {Undecodable})]
      /\ committed \in [Partition -> Nat]
      /\ position \in [Partition -> Nat]
  BY DEF ConsumerInit
<1>5. LoopLocalsInv
  BY <1>2 DEF ConsumerInit, LoopLocalsInv, Busy
<1>6. QED
  BY <1>1, <1>3, <1>4, <1>5 DEF ConsumerInit, ConsumerInv, ConsumerTypeOK

(* A step that changes nothing of the common part.                           *)
LEMMA ConsumerStutter ==
    ASSUME ConsumerInv, UNCHANGED consumerVars
    PROVE  ConsumerInv'
BY SameTables DEF ConsumerInv, ConsumerTypeOK, LoopLocalsInv, Busy, consumerVars,
                  brokerVars, loopVars, runVars, workVars

-----------------------------------------------------------------------------
(* The steps of the plugin loop keep the types.                              *)
LEMMA PluginStepType ==
    ASSUME ConsumerInv,
           \/ Skip \/ Dispatch \/ HandleOk \/ HandleFail
           \/ AfterDeadLetter \/ LogPluginExecution
    PROVE  ConsumerInv'
<1> USE DEF ConsumerInv, ConsumerTypeOK, LoopLocalsInv, Busy, NextPlugin,
            brokerVars, loopVars, runVars, workVars
<1>1. CASE Skip
  <2>1. Duty \in Work
    BY <1>1, DutyInWork DEF Skip, AtPlugin
  <2>2. QED
    BY <1>1, <2>1, SameTables, IndexFacts DEF Skip, AtPlugin
<1>2. CASE Dispatch
  BY <1>2, SameTables, IndexFacts DEF Dispatch, AtPlugin
<1>3. CASE HandleOk
  <2>1. Duty \in Work
    BY <1>3, DutyInWork DEF HandleOk
  <2>2. QED
    BY <1>3, <2>1, SameTables DEF HandleOk
<1>4. CASE HandleFail
  <2>1. Duty \in Work
    BY <1>4, DutyInWork DEF HandleFail, AttemptFails
  <2>2. failed' \subseteq Work \X (1..MAX_RETRIES)
    BY <1>4, <2>1 DEF HandleFail, AttemptFails
  <2>3. attempt' \in 1..MAX_RETRIES /\ pc' \in {"attempt", "dlq"}
    BY <1>4, ConsumerAssumption DEF HandleFail, AttemptFails, RetryWhile
  <2>4. QED
    BY <1>4, <2>2, <2>3, SameTables DEF HandleFail, AttemptFails
<1>5. CASE AfterDeadLetter
  BY <1>5, SameTables, IndexFacts DEF AfterDeadLetter
<1>6. CASE LogPluginExecution
  <2>1. Duty \in Work
    BY <1>6, DutyInWork DEF LogPluginExecution
  <2>2. QED
    BY <1>6, <2>1, SameTables, IndexFacts DEF LogPluginExecution
<1>7. QED
  BY <1>1, <1>2, <1>3, <1>4, <1>5, <1>6

(* Taking a message in hand keeps the types, wherever the client leaves its  *)
(* offset.                                                                   *)
LEMMA EnterType ==
    ASSUME ConsumerInv, NEW p \in Partition, NEW o \in Nat \ {0}, pc = "idle", Enter(p, o),
           position' \in [Partition -> Nat]
    PROVE  ConsumerInv'
BY SameTables DEF Enter, ConsumerInv, ConsumerTypeOK, LoopLocalsInv, Busy,
                  brokerVars, loopVars, runVars, workVars

(* So does leaving it.                                                       *)
LEMMA EndOfLoopType ==
    ASSUME ConsumerInv, EndOfLoop, position' \in [Partition -> Nat]
    PROVE  ConsumerInv'
BY SameTables, IndexFacts DEF EndOfLoop, Leave, ConsumerInv, ConsumerTypeOK, LoopLocalsInv,
                  Busy, brokerVars, loopVars, runVars, workVars

(* An undecodable message, a commit and a rejoin keep the types.             *)
LEMMA OffsetStepType ==
    ASSUME ConsumerInv,
           (\E p \in Partition : PassUndecodable(p)) \/ CommitOffsets \/ Rejoin
    PROVE  ConsumerInv'
<1> USE DEF ConsumerInv, ConsumerTypeOK, LoopLocalsInv, Busy,
            brokerVars, loopVars, runVars, workVars
<1>1. ASSUME NEW p \in Partition, PassUndecodable(p) PROVE ConsumerInv'
  <2>1. {<<p, position[p] + 1, q>> : q \in Plugin} \subseteq Work
    BY DEF Work
  <2>2. position' \in [Partition -> Nat] /\ skipped' \subseteq Work
    BY <1>1, <2>1 DEF PassUndecodable
  <2>3. QED
    BY <1>1, <2>2, SameTables DEF PassUndecodable
<1>2. CASE CommitOffsets
  BY <1>2, SameTables DEF CommitOffsets
<1>3. CASE Rejoin
  <2>1. faults' \in Nat
    BY <1>3 DEF Rejoin
  <2>2. QED
    BY <1>3, <2>1, SameTables DEF Rejoin
<1>4. QED
  BY <1>1, <1>2, <1>3

(* Starting, stopping and dying keep the types.                              *)
LEMMA ProcessStepType ==
    ASSUME ConsumerInv, Boot \/ Shutdown \/ Exit \/ Crash
    PROVE  ConsumerInv'
<1> USE DEF ConsumerInv, ConsumerTypeOK, LoopLocalsInv, Busy,
            brokerVars, loopVars, runVars, workVars
<1>1. CASE Boot
  <2>1. TableTypeOK' /\ StoreTypeOK'
    BY <1>1, StoreStartType DEF Boot, TableTypeOK, tableVars
  <2>2. boots' \in Nat
    BY <1>1 DEF Boot
  <2>3. QED
    BY <1>1, <2>1, <2>2 DEF Boot
<1>2. CASE Shutdown
  BY <1>2, SameTables DEF Shutdown
<1>3. CASE Exit
  <2>1. TableTypeOK' /\ StoreTypeOK'
    BY <1>3, StoreHaltType DEF Exit, TableTypeOK, tableVars
  <2>2. committed' \in [Partition -> Nat]
    BY <1>3 DEF Exit
  <2>3. QED
    BY <1>3, <2>1, <2>2, IndexFacts DEF Exit, Leave
<1>4. CASE Crash
  <2>1. TableTypeOK' /\ StoreTypeOK'
    BY <1>4, StoreHaltType DEF Crash, TableTypeOK, tableVars
  <2>2. QED
    BY <1>4, <2>1, IndexFacts DEF Crash, Leave
<1>5. QED
  BY <1>1, <1>2, <1>3, <1>4

(* Producers, the API, the database and the store keep the types.            *)
LEMMA SurroundingsType ==
    ASSUME ConsumerInv, Environment \/ \E c \in Fetcher : Store(c)
    PROVE  ConsumerInv'
<1> USE DEF ConsumerInv, ConsumerTypeOK, LoopLocalsInv, Busy,
            brokerVars, loopVars, runVars, workVars
<1>1. CASE TableNext /\ UNCHANGED <<storeVars, brokerVars, loopVars, runVars, workVars>>
  BY <1>1, TableStep DEF StoreTypeOK, storeVars
<1>2. ASSUME NEW p \in Partition, NEW m \in EventType \cup {Undecodable}, Produce(p, m)
      PROVE  ConsumerInv'
  <2>1. Append(log[p], m) \in Seq(EventType \cup {Undecodable})
    OBVIOUS
  <2>2. log' \in [Partition -> Seq(EventType \cup {Undecodable})]
    BY <1>2, <2>1 DEF Produce
  <2>3. QED
    BY <1>2, <2>2, SameTables DEF Produce
<1>3. ASSUME NEW c \in Fetcher, Store(c) PROVE ConsumerInv'
  <2>1. TableTypeOK' /\ StoreTypeOK'
    BY <1>3, StoreStepType DEF Store, TableTypeOK, tableVars
  <2>2. QED
    BY <1>3, <2>1 DEF Store
<1>4. QED
  BY <1>1, <1>2, <1>3 DEF Environment

-----------------------------------------------------------------------------
(* Attempts.                                                                 *)

(* A failed attempt is remembered before the next one starts, and the last   *)
(* one before the dead letter.                                               *)
LEMMA FailureCounted ==
    ASSUME ConsumerInv, AttemptsInv, HandleFail
    PROVE  AttemptsInv'
<1>1. /\ Duty' = Duty
      /\ failed' = failed \cup {<<Duty, attempt>>}
      /\ pc = "attempt"
  BY DEF HandleFail, AttemptFails, Duty
<1>2. attempt \in 1..MAX_RETRIES /\ MAX_RETRIES \in Nat
  BY ConsumerAssumption DEF ConsumerInv, ConsumerTypeOK
<1>3. \A a \in 1..attempt : <<Duty, a>> \in failed'
  BY <1>1, <1>2 DEF AttemptsInv
<1>4. CASE attempt < MAX_RETRIES
  <2>1. pc' = "attempt" /\ attempt' - 1 = attempt
    BY <1>1, <1>2, <1>4 DEF HandleFail, RetryWhile
  <2>2. QED
    BY <1>1, <1>3, <2>1 DEF AttemptsInv
<1>5. CASE attempt = MAX_RETRIES
  <2>1. pc' = "dlq"
    BY <1>2, <1>5 DEF HandleFail, RetryWhile
  <2>2. QED
    BY <1>1, <1>3, <1>5, <2>1 DEF AttemptsInv
<1>6. QED
  BY <1>2, <1>4, <1>5

(* A dispatched plugin starts with its first attempt.                        *)
LEMMA DispatchCounted ==
    ASSUME ConsumerInv, Dispatch
    PROVE  AttemptsInv'
BY DEF Dispatch, AtPlugin, AttemptsInv, ConsumerInv, LoopLocalsInv

(* A step that runs no attempt, or leaves loop and failures alone.           *)
LEMMA AttemptsKept ==
    ASSUME AttemptsInv,
           \/ pc' \notin {"attempt", "dlq"}
           \/ UNCHANGED <<loopVars, failed>>
    PROVE  AttemptsInv'
BY DEF AttemptsInv, Duty, loopVars

-----------------------------------------------------------------------------
(* A message in hand comes to its end.                                        *)

LEMMA OneTimesLess ==
    ASSUME NEW a \in Nat, NEW k \in Nat
    PROVE  (a + 1) * k = a * k + k /\ a * k \in Nat
OBVIOUS

(* The stage is short of the step to the next plugin.                         *)
LEMMA StageType ==
    ASSUME ConsumerInv, Busy
    PROVE  /\ MAX_RETRIES \in Nat /\ Len(Plugins) \in Nat
           /\ Stage \in 0..(MAX_RETRIES + 1)
           /\ idx \in 1..(Len(Plugins) + 1)
           /\ pc # "plugins" => idx <= Len(Plugins)
<1>1. MAX_RETRIES \in Nat /\ Len(Plugins) \in Nat
  BY ConsumerAssumption
<1>2. attempt \in 1..MAX_RETRIES /\ idx \in 1..(Len(Plugins) + 1)
  BY DEF ConsumerInv, ConsumerTypeOK
<1>3. Stage \in {0, attempt, MAX_RETRIES + 1}
  BY DEF Stage
<1>4. pc # "plugins" => idx <= Len(Plugins)
  BY DEF Busy, ConsumerInv, LoopLocalsInv
<1>5. QED
  BY <1>1, <1>2, <1>3, <1>4

(* What is left is left: the loop has not come to its end.                    *)
LEMMA SomethingLeft ==
    ASSUME ConsumerInv, Busy
    PROVE  StepsLeft \in Nat \ {0}
<1>1. CASE idx = Len(Plugins) + 1
  <2>1. Stage = 0 /\ Len(Plugins) + 1 - idx = 0
    BY <1>1, StageType DEF Stage
  <2>2. (Len(Plugins) + 1 - idx) * (MAX_RETRIES + 2) = 0
    BY <2>1, StageType
  <2>3. QED
    BY <2>1, <2>2 DEF StepsLeft
<1>2. CASE idx <= Len(Plugins)
  <2>1. PICK a \in Nat : Len(Plugins) + 1 - idx = a + 1
    BY <1>2, StageType
  <2>2. (a + 1) * (MAX_RETRIES + 2) = a * (MAX_RETRIES + 2) + (MAX_RETRIES + 2)
        /\ a * (MAX_RETRIES + 2) \in Nat
    BY OneTimesLess, StageType
  <2>3. StepsLeft = 1 + (a + 1) * (MAX_RETRIES + 2) - Stage
    BY <2>1 DEF StepsLeft
  <2>4. QED
    BY <2>2, <2>3, StageType
<1>3. QED
  BY <1>1, <1>2, StageType

(* Going on to the next plugin passes all stages of this one.                 *)
LEMMA NextPluginAdvances ==
    ASSUME ConsumerInv, Busy, idx <= Len(Plugins), NextPlugin
    PROVE  StepsLeft' < StepsLeft
<1>1. PICK a \in Nat : Len(Plugins) + 1 - idx = a + 1
  BY StageType
<1>2. Len(Plugins) + 1 - idx' = a
  BY <1>1, StageType DEF NextPlugin
<1>3. StepsLeft = 1 + (a + 1) * (MAX_RETRIES + 2) - Stage
  BY <1>1 DEF StepsLeft
<1>4. StepsLeft' = 1 + a * (MAX_RETRIES + 2) - 0
  BY <1>2 DEF StepsLeft, Stage, Busy, NextPlugin
<1>5. (a + 1) * (MAX_RETRIES + 2) = a * (MAX_RETRIES + 2) + (MAX_RETRIES + 2)
      /\ a * (MAX_RETRIES + 2) \in Nat
  BY OneTimesLess, StageType
<1>6. QED
  BY <1>3, <1>4, <1>5, StageType

(* Within one plugin the stage grows.                                         *)
LEMMA StageAdvances ==
    ASSUME ConsumerInv, Dispatch \/ HandleOk \/ HandleFail
    PROVE  StepsLeft' < StepsLeft
<1>1. Busy /\ Busy' /\ idx' = idx
  BY DEF Dispatch, AtPlugin, HandleOk, HandleFail, AttemptFails, RetryWhile, Busy
<1>2. Stage \in Nat /\ Stage' \in Nat /\ Stage < Stage'
  <2>1. MAX_RETRIES \in Nat /\ attempt \in 1..MAX_RETRIES
    BY ConsumerAssumption DEF ConsumerInv, ConsumerTypeOK
  <2>2. CASE Dispatch
    <3>1. Stage = 0 /\ Stage' = attempt
      BY <2>2 DEF Dispatch, AtPlugin, Stage
    <3>2. QED
      BY <2>1, <3>1
  <2>3. CASE HandleOk
    <3>1. Stage = attempt /\ Stage' = MAX_RETRIES + 1
      BY <2>3 DEF HandleOk, Stage
    <3>2. QED
      BY <2>1, <3>1
  <2>4. CASE HandleFail
    <3>1. Stage = attempt /\ Stage' \in {attempt + 1, MAX_RETRIES + 1}
      BY <2>4 DEF HandleFail, AttemptFails, RetryWhile, Stage
    <3>2. QED
      BY <2>1, <3>1
  <2>5. QED
    BY <2>2, <2>3, <2>4
<1>3. PICK a \in Nat : Len(Plugins) + 1 - idx = a
  BY <1>1, StageType
<1>4. a * (MAX_RETRIES + 2) \in Nat
  BY <1>1, OneTimesLess, StageType
<1>5. /\ StepsLeft = 1 + a * (MAX_RETRIES + 2) - Stage
      /\ StepsLeft' = 1 + a * (MAX_RETRIES + 2) - Stage'
  BY <1>1, <1>3 DEF StepsLeft
<1>6. QED
  BY <1>2, <1>4, <1>5

LEMMA LoopAdvances ==
    ASSUME ConsumerInv,
           \/ Skip \/ Dispatch \/ HandleOk \/ HandleFail
           \/ AfterDeadLetter \/ LogPluginExecution
    PROVE  Advances
<1>1. CASE Dispatch \/ HandleOk \/ HandleFail
  BY <1>1, StageAdvances DEF Advances
<1>2. CASE Skip \/ AfterDeadLetter \/ LogPluginExecution
  <2>1. Busy /\ idx <= Len(Plugins) /\ NextPlugin
    BY <1>2 DEF Skip, AtPlugin, AfterDeadLetter, LogPluginExecution, Busy, ConsumerInv,
                LoopLocalsInv
  <2>2. QED
    BY <2>1, NextPluginAdvances DEF Advances
<1>3. QED
  BY <1>1, <1>2

(* Leaving the message, at its end or before, leaves nothing to do.           *)
LEMMA LeavingAdvances ==
    ASSUME ConsumerInv, ~Busy'
    PROVE  Advances
<1>1. StepsLeft' = 0
  BY DEF StepsLeft
<1>2. QED
  BY <1>1, SomethingLeft DEF Advances
=============================================================================
