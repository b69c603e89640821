------------------------- MODULE ConfigStore_proofs -------------------------
(***************************************************************************)
(* Type correctness of the plugin table and of a consumer's copy of it, and  *)
(* why a store that makes one fetch after the other never goes back.         *)
(***************************************************************************)
EXTENDS ConfigStore, TLAPS

(* The rows a request may write are rows, and every seed is a table.         *)
LEMMA PatchedType ==
    ASSUME NEW old \in Config, NEW new \in Config, NEW parts
    PROVE  Patched(old, parts, new) \in Config
BY DEF Patched, Config

(* Requests, and the database going and coming, keep the table well formed. *)
LEMMA TableStep ==
    ASSUME TableTypeOK, TableNext
    PROVE  TableTypeOK'
<1>1. CASE DbStops \/ DbReturns
  BY <1>1 DEF DbStops, DbReturns, TableTypeOK
<1>2. ASSUME NEW p \in Plugin, NEW field \in {"is_active", "settings"},
             NEW new \in Config, UpdatePlugin(p, {field}, new)
      PROVE  TableTypeOK'
  <2>1. PICK S \in SUBSET Plugin : table.rows \in [S -> Config]
    BY DEF TableTypeOK, Table, Rows
  <2>2. p \in S
    BY <1>2, <2>1 DEF UpdatePlugin
  <2> DEFINE row == Patched(table.rows[p], {field}, new)
  <2>3. row \in Config
    BY <2>1, <2>2, PatchedType
  <2>4. [table.rows EXCEPT ![p] = row] \in [S -> Config]
    BY <2>1, <2>3
  <2>5. [table.rows EXCEPT ![p] = row] \in Rows
    BY <2>4 DEF Rows
  <2>6. table.ver + 1 \in Nat /\ table.ver + 1 > 0
    BY DEF TableTypeOK, Table
  <2>7. table' = [ver |-> table.ver + 1, rows |-> [table.rows EXCEPT ![p] = row]]
    BY <1>2 DEF UpdatePlugin
  <2>8. dbUp' = dbUp
    BY <1>2 DEF UpdatePlugin
  <2>9. QED
    BY <2>5, <2>6, <2>7, <2>8 DEF TableTypeOK, Table
<1>3. QED
  BY <1>1, <1>2 DEF TableNext

(* The empty map a store starts from is a table.                            *)
LEMMA NoTableType == NoTable \in Table
<1>1. [p \in {} |-> {}] \in [{} -> Config]
  OBVIOUS
<1>2. [p \in {} |-> {}] \in Rows
  BY <1>1 DEF Rows
<1>3. QED
  BY <1>2 DEF NoTable, Table

(* Whatever a store fetches and installs is a table.                         *)
LEMMA StoreStepType ==
    ASSUME TableTypeOK, StoreTypeOK, NEW c \in Fetcher, StoreStep(c)
    PROVE  StoreTypeOK'
<1> USE DEF Answered, Release
<1>1. CASE Select(c)
  BY <1>1 DEF Select, StoreTypeOK, TableTypeOK
<1>2. CASE Install(c)
  BY <1>2 DEF Install, StoreTypeOK
<1>3. CASE FetchFails(c)
  BY <1>3 DEF FetchFails, StoreTypeOK
<1>4. QED
  BY <1>1, <1>2, <1>3 DEF StoreStep

(* start() leaves a well formed store, with the database up or down.         *)
LEMMA StoreStartType ==
    ASSUME TableTypeOK, StoreStart
    PROVE  StoreTypeOK'
BY NoTableType DEF StoreStart, StoreTypeOK, TableTypeOK

(* stop(), or the end of the process, leaves a well formed store.            *)
LEMMA StoreHaltType ==
    ASSUME StoreHalt
    PROVE  StoreTypeOK'
BY NoTableType DEF StoreHalt, StoreTypeOK

(* The table and the store start well formed.                                *)
LEMMA StoreInitType ==
    ASSUME TableInit, StoreInit
    PROVE  TableTypeOK /\ StoreTypeOK
<1>1. TableTypeOK
  BY PluginTableAssumption DEF TableInit, TableTypeOK, Table
<1>2. QED
  BY <1>1, NoTableType DEF StoreInit, StoreTypeOK

(* A step that leaves the table and the store alone keeps their types.       *)
LEMMA SameTables ==
    ASSUME TableTypeOK, StoreTypeOK, UNCHANGED <<tableVars, storeVars>>
    PROVE  TableTypeOK' /\ StoreTypeOK'
BY DEF TableTypeOK, StoreTypeOK, tableVars, storeVars

-----------------------------------------------------------------------------
(* The age of what a store holds.                                            *)

StoreInv == TableTypeOK /\ StoreTypeOK /\ AgesInOrder

(* Updates and outages leave the copies no younger than the table.           *)
LEMMA AgesTableStep ==
    ASSUME StoreInv, TableNext, UNCHANGED storeVars
    PROVE  StoreInv'
<1>1. TableTypeOK' /\ StoreTypeOK'
  BY TableStep DEF StoreInv, StoreTypeOK, storeVars
<1>2. table'.ver >= table.ver
  BY DEF TableNext, UpdatePlugin, DbStops, DbReturns, StoreInv, TableTypeOK, Table
<1>3. /\ table.ver \in Nat /\ table'.ver \in Nat /\ cache.ver \in Nat
      /\ \A c \in Fetcher : reply[c] # Idle => reply[c].ver \in Nat
  BY <1>1 DEF StoreInv, TableTypeOK, StoreTypeOK, Table
<1>4. AgesInOrder'
  BY <1>2, <1>3 DEF StoreInv, AgesInOrder, storeVars
<1>5. QED
  BY <1>1, <1>4 DEF StoreInv

(* Starting and stopping empties the reply and loads the table or nothing.   *)
LEMMA AgesRestart ==
    ASSUME StoreInv, UNCHANGED tableVars, StoreStart \/ StoreHalt
    PROVE  StoreInv'
<1>1. TableTypeOK' /\ StoreTypeOK'
  BY StoreStartType, StoreHaltType DEF StoreInv, TableTypeOK, tableVars
<1>2. NoTable.ver = 0 /\ table.ver \in Nat
  BY DEF NoTable, StoreInv, TableTypeOK, Table
<1>3. AgesInOrder'
  BY <1>2 DEF StoreStart, StoreHalt, AgesInOrder, tableVars
<1>4. QED
  BY <1>1, <1>3 DEF StoreInv

(* With one fetcher there is one reply, and it is no older than the cache it *)
(* will replace.                                                             *)
LEMMA AgesFetchStep ==
    ASSUME StoreInv, UNCHANGED tableVars, NEW c \in Fetcher, Fetcher = {c}, StoreStep(c)
    PROVE  StoreInv' /\ cache'.ver >= cache.ver
<1> USE DEF Answered, Release
<1>1. TableTypeOK' /\ StoreTypeOK'
  BY StoreStepType DEF StoreInv, TableTypeOK, tableVars
<1>2. /\ table.ver \in Nat /\ cache.ver \in Nat /\ table' = table
      /\ reply[c] # Idle => reply[c].ver \in Nat
  BY DEF StoreInv, TableTypeOK, StoreTypeOK, Table, tableVars
<1>3. DOMAIN reply = Fetcher
  BY DEF StoreInv, StoreTypeOK
<1>4. CASE Select(c)
  BY <1>1, <1>2, <1>3, <1>4 DEF Select, StoreInv, AgesInOrder
<1>5. CASE Install(c)
  <2>1. cache' = reply[c] /\ reply'[c] = Idle
    BY <1>3, <1>5 DEF Install
  <2>2. cache.ver <= reply[c].ver /\ reply[c].ver <= table.ver
    BY <1>5 DEF Install, StoreInv, AgesInOrder
  <2>3. QED
    BY <1>1, <1>2, <2>1, <2>2 DEF StoreInv, AgesInOrder
<1>6. CASE FetchFails(c)
  BY <1>1, <1>2, <1>3, <1>6 DEF FetchFails, StoreInv, AgesInOrder
<1>7. QED
  BY <1>4, <1>5, <1>6 DEF StoreStep

(* Nothing is older or younger than anything else at first.                  *)
LEMMA AgesInit == TableInit /\ StoreInit => StoreInv
<1> SUFFICES ASSUME TableInit, StoreInit PROVE StoreInv
  OBVIOUS
<1>1. NoTable.ver = 0
  BY DEF NoTable
<1>2. TableTypeOK /\ StoreTypeOK
  BY StoreInitType
<1>3. AgesInOrder
  BY <1>1 DEF AgesInOrder, StoreInit, TableInit
<1>4. QED
  BY <1>2, <1>3 DEF StoreInv

Forward == polling /\ polling' => cache'.ver >= cache.ver

(* A step of a store with a single fetcher keeps the ages in order and does  *)
(* not take the cache back while it polls.                                   *)
LEMMA OneFetcherStep ==
    ASSUME NEW poller, Fetcher = {poller}, StoreInv, [StoreSpecNext]_storeSpecVars
    PROVE  StoreInv' /\ [Forward]_storeSpecVars
<1>1. CASE TableNext /\ UNCHANGED storeVars
  <2>1. cache' = cache /\ cache.ver \in Nat
    BY <1>1 DEF storeVars, StoreInv, StoreTypeOK, Table
  <2>2. QED
    BY <1>1, <2>1, AgesTableStep DEF Forward
<1>2. CASE UNCHANGED tableVars /\ ((~polling /\ StoreStart) \/ (polling /\ StoreHalt))
  BY <1>2, AgesRestart DEF StoreStart, StoreHalt, Forward
<1>3. ASSUME UNCHANGED tableVars, NEW c \in Fetcher, StoreStep(c)
      PROVE  StoreInv' /\ [Forward]_storeSpecVars
  <2>1. Fetcher = {c}
    OBVIOUS
  <2>2. QED
    BY <1>3, <2>1, AgesFetchStep DEF Forward
<1>4. CASE UNCHANGED storeSpecVars
  BY <1>4, SameTables DEF storeSpecVars, tableVars, storeVars, StoreInv, AgesInOrder
<1>5. QED
  BY <1>1, <1>2, <1>3, <1>4 DEF StoreSpecNext

(* A store with a single fetcher, as the Python consumer's, never puts back  *)
(* settings it had replaced, whatever the database does.                     *)
THEOREM OneFetcherNeverRegresses ==
    ASSUME NEW poller, Fetcher = {poller}
    PROVE  StoreSpec => CacheNeverRegresses
<1>1. StoreSpecInit => StoreInv
  BY AgesInit DEF StoreSpecInit
<1>2. StoreInv /\ [StoreSpecNext]_storeSpecVars => StoreInv' /\ [Forward]_storeSpecVars
  BY OneFetcherStep
<1>3. QED
  BY <1>1, <1>2, PTL DEF StoreSpec, CacheNeverRegresses, Forward
=============================================================================
