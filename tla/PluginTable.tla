---------------------------- MODULE PluginTable ----------------------------
(***************************************************************************)
(* The rows of the plugins table in PostgreSQL that belong to one consumer, *)
(* and PUT /plugins/{id} of the management API, the only statement of the   *)
(* system that writes them.  Each commit gets a version, so that the copies *)
(* the consumers keep can be compared by age.  The database container may   *)
(* go away and come back: every reader and writer goes through it.          *)
(***************************************************************************)
EXTENDS Naturals

CONSTANTS
    Plugin,      \* the plugins the consumer discovered, by name
    EventType,   \* the values of event_type that the rules tell apart
    InitRows,    \* the rows db/init.sql seeds
    MaxVersion   \* bound: MaxVersion - 1 updates are committed at most

Config == [active : BOOLEAN, types : SUBSET EventType]

(* A plugin without a row is a file dropped into plugins/ and never seeded. *)
Rows == UNION {[S -> Config] : S \in SUBSET Plugin}

Table == [ver : Nat, rows : Rows]

(* A cache that was never filled: both consumers start from an empty map.   *)
NoTable == [ver |-> 0, rows |-> [p \in {} |-> {}]]

ASSUME PluginTableAssumption ==
    /\ InitRows \in Rows
    /\ MaxVersion \in Nat \ {0}

VARIABLES
    table,  \* the committed contents of the plugins table
    dbUp    \* PostgreSQL accepts connections

tableVars == <<table, dbUp>>

TableTypeOK ==
    /\ table \in Table
    /\ table.ver > 0
    /\ dbUp \in BOOLEAN

TableInit ==
    /\ table = [ver |-> 1, rows |-> InitRows]
    /\ dbUp = TRUE

-----------------------------------------------------------------------------
(* UPDATE plugins SET <parts> WHERE id = p: a part missing from the request  *)
(* body keeps its column, an unknown id is answered 404, and a body without  *)
(* parts writes nothing.                                                     *)
Patched(old, parts, new) ==
    [ active |-> IF "is_active" \in parts THEN new.active ELSE old.active,
      types  |-> IF "settings" \in parts THEN new.types ELSE old.types ]

UpdatePlugin(p, parts, new) ==
    /\ dbUp
    /\ p \in DOMAIN table.rows
    /\ table.ver < MaxVersion
    /\ table' = [ ver  |-> table.ver + 1,
                  rows |-> [table.rows EXCEPT ![p] = Patched(@, parts, new)] ]
    /\ UNCHANGED dbUp

DbStops ==
    /\ dbUp
    /\ dbUp' = FALSE
    /\ UNCHANGED table

DbReturns ==
    /\ ~dbUp
    /\ dbUp' = TRUE
    /\ UNCHANGED table

(* The toggle of a plugin card and the save button of its settings editor    *)
(* send one part each.                                                       *)
TableNext ==
    \/ \E p \in Plugin, part \in {"is_active", "settings"}, new \in Config :
          UpdatePlugin(p, {part}, new)
    \/ DbStops
    \/ DbReturns
=============================================================================
