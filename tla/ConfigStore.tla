---------------------------- MODULE ConfigStore ----------------------------
(***************************************************************************)
(* The copy of its rows a consumer keeps (configStore.js, config_store.py).  *)
(* A fetch is a SELECT and, later, the installation of what it read.  In     *)
(* Node.js setInterval does not wait for the fetch before, so there may be   *)
(* one in flight per pool connection; in Python one daemon thread makes one  *)
(* after the other.  Fetcher is the difference between the two.              *)
(***************************************************************************)
EXTENDS PluginTable

CONSTANTS
    Fetcher,  \* the pool's connections (Node.js), the poller thread (Python)
    Idle      \* a fetcher with no reply in hand

ASSUME ConfigStoreAssumption == Idle \notin Table

VARIABLES
    cache,    \* the installed rows
    polling,  \* the timer is armed, the thread is running
    reply     \* per fetcher, the rows a SELECT read and nobody installed yet

storeVars == <<cache, polling, reply>>

StoreTypeOK ==
    /\ cache \in Table
    /\ polling \in BOOLEAN
    /\ reply \in [Fetcher -> Table \cup {Idle}]

(* Before start(), and after stop() or the end of the process.               *)
StoreInit ==
    /\ cache = NoTable
    /\ polling = FALSE
    /\ reply = [c \in Fetcher |-> Idle]

StoreHalt ==
    /\ cache' = NoTable
    /\ polling' = FALSE
    /\ reply' = [c \in Fetcher |-> Idle]

-----------------------------------------------------------------------------
(* start(): the first fetch is waited for, and a failed one leaves the map   *)
(* empty; then the polling starts.                                           *)
StoreStart ==
    /\ cache' = IF dbUp THEN table ELSE NoTable
    /\ polling' = TRUE
    /\ reply' = [c \in Fetcher |-> Idle]

(* PostgreSQL evaluates the SELECT.  With the database down the connection   *)
(* fails, the error is logged, and nothing changes: no step.                 *)
Select(c) ==
    /\ polling
    /\ dbUp
    /\ reply[c] = Idle
    /\ reply' = [reply EXCEPT ![c] = table]
    /\ UNCHANGED <<cache, polling>>

Answered(c) == polling /\ reply[c] # Idle

Release(c) == reply' = [reply EXCEPT ![c] = Idle] /\ UNCHANGED polling

(* Variant: only an empty map is ever filled.                                *)
InstallOnce(c) ==
    /\ Answered(c)
    /\ cache' = IF cache = NoTable THEN reply[c] ELSE cache
    /\ Release(c)

(* The new map replaces the old one.                                         *)
Install(c) ==
    /\ Answered(c)
    /\ cache' = reply[c]
    /\ Release(c)

(* Variant: a failed fetch empties the map.                                  *)
FetchFailsEmpty(c) ==
    /\ Answered(c)
    /\ ~dbUp
    /\ cache' = NoTable
    /\ Release(c)

(* The connection breaks before the rows are in: the error is logged, the    *)
(* old map stays.                                                            *)
FetchFails(c) ==
    /\ Answered(c)
    /\ ~dbUp
    /\ UNCHANGED cache
    /\ Release(c)

StoreStep(c) == Select(c) \/ Install(c) \/ FetchFails(c)

-----------------------------------------------------------------------------
(* The store on its own, started and stopped by a process that does nothing  *)
(* else.  The timer or thread keeps running, and an answered query is        *)
(* installed or fails: that much the runtimes guarantee, and no more.        *)
storeSpecVars == <<tableVars, storeVars>>

StoreSpecInit == TableInit /\ StoreInit

StoreSpecNext ==
    \/ TableNext /\ UNCHANGED storeVars
    \/ /\ UNCHANGED tableVars
       /\ \/ ~polling /\ StoreStart
          \/ polling /\ StoreHalt
          \/ \E c \in Fetcher : StoreStep(c)

StoreFairness ==
    \A c \in Fetcher : WF_storeSpecVars(StoreStep(c) /\ UNCHANGED tableVars)

StoreSpec == StoreSpecInit /\ [][StoreSpecNext]_storeSpecVars /\ StoreFairness

-----------------------------------------------------------------------------
(* Once updates stop, the database stays reachable and the process keeps     *)
(* running, the cache ends up equal to the table for good, whatever fetches  *)
(* overlapped or failed before.                                              *)
CacheConverges == <>[](polling /\ dbUp) => <>[](cache = table)

(* While the process runs, an event never sees older settings than the       *)
(* event before it, failed fetches and database outages included:            *)
(* docs/architecture.md says the store refreshes within about five seconds   *)
(* and "next events use new config".                                         *)
CacheNeverRegresses ==
    [][ polling /\ polling' => cache'.ver >= cache.ver ]_storeSpecVars

(* The invariant behind it, for one fetcher: versions only grow on their     *)
(* way from the table through the reply into the cache.                      *)
AgesInOrder ==
    /\ cache.ver <= table.ver
    /\ \A c \in Fetcher : reply[c] # Idle =>
          cache.ver <= reply[c].ver /\ reply[c].ver <= table.ver
=============================================================================
