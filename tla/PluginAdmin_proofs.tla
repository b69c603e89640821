------------------------- MODULE PluginAdmin_proofs -------------------------
(***************************************************************************)
(* Why an editor never brings back a text from before the last list, and why  *)
(* two columns of one row never disturb each other, for any plugins, event    *)
(* types, requests in flight and admins, the database coming and going.       *)
(***************************************************************************)
EXTENDS PluginAdmin, TLAPS

(* No route adds or removes a row, so every list there ever is has the rows    *)
(* of db/init.sql.                                                           *)
Seeded == [DOMAIN InitRows -> Config]

SameRows ==
    /\ table.rows \in Seeded
    /\ wanted \in Seeded
    /\ shown = NoTable \/ shown.rows \in Seeded
    /\ \A i \in Slot : polls[i] \in Table => polls[i].rows \in Seeded
    /\ expanded \subseteq DOMAIN shown.rows

(* A save that is not handled yet is all that a row lacks.                    *)
SavesAreKept ==
    ~contested =>
        /\ late = {}
        /\ \A p \in DOMAIN wanted :
              wanted[p] = IF p \in Unhandled
                          THEN Patched(table.rows[p], saving[p].request.parts, saving[p].request.new)
                          ELSE table.rows[p]

IInv == TypeOK /\ SameRows /\ EditorFollowsTheList /\ SavesAreKept

-----------------------------------------------------------------------------
LEMMA InitRowsSeeded == InitRows \in Seeded /\ Seeded \subseteq Rows
<1>1. PICK S \in SUBSET Plugin : InitRows \in [S -> Config]
  BY PluginTableAssumption DEF Rows
<1>2. DOMAIN InitRows = S
  BY <1>1
<1>3. QED BY <1>1, <1>2 DEF Seeded, Rows

LEMMA EmptyList == NoTable \in Table /\ DOMAIN NoTable.rows = {}
<1>1. [p \in {} |-> {}] \in [{} -> Config]
  OBVIOUS
<1>2. [p \in {} |-> {}] \in Rows
  BY <1>1 DEF Rows
<1>3. QED BY <1>2 DEF NoTable, Table

(* The columns that a request may write.                                     *)
LEMMA PatchedType ==
    ASSUME NEW old \in Config, NEW new \in Config, NEW parts
    PROVE  Patched(old, parts, new) \in Config
BY DEF Patched, Config

LEMMA PatchedColumn ==
    ASSUME NEW rows \in Seeded, NEW p \in DOMAIN InitRows, NEW new \in Config, NEW parts
    PROVE  [rows EXCEPT ![p] = Patched(@, parts, new)] \in Seeded
<1>1. rows[p] \in Config
  BY DEF Seeded
<1>2. Patched(rows[p], parts, new) \in Config
  BY <1>1, PatchedType
<1>3. QED BY <1>2 DEF Seeded

LEMMA UpdateSeeded ==
    ASSUME TableTypeOK, table.rows \in Seeded,
           NEW p, NEW parts, NEW new \in Config, UpdatePlugin(p, parts, new)
    PROVE  /\ p \in DOMAIN InitRows
           /\ TableTypeOK'
           /\ table'.rows = [table.rows EXCEPT ![p] = Patched(@, parts, new)]
           /\ table'.rows \in Seeded
<1>1. p \in DOMAIN InitRows
  BY DEF UpdatePlugin, Seeded
<1>2. table' = [ver |-> table.ver + 1, rows |-> [table.rows EXCEPT ![p] = Patched(@, parts, new)]]
  BY DEF UpdatePlugin
<1>3. table'.rows \in Seeded
  BY <1>1, <1>2, PatchedColumn
<1>4. table'.rows \in Rows
  BY <1>3, InitRowsSeeded
<1>5. table.ver + 1 \in Nat /\ table.ver + 1 > 0
  BY DEF TableTypeOK, Table
<1>6. dbUp' \in BOOLEAN
  BY DEF UpdatePlugin, TableTypeOK
<1>7. TableTypeOK'
  BY <1>2, <1>4, <1>5, <1>6 DEF TableTypeOK, Table
<1>8. QED BY <1>1, <1>2, <1>3, <1>7

LEMMA EditorTextType ==
    ASSUME NEW rows \in Seeded, NEW p \in DOMAIN InitRows
    PROVE  EditorText(rows, p) \in Text
<1>1. rows[p].types \in SUBSET EventType
  BY DEF Seeded, Config
<1>2. QED BY <1>1 DEF EditorText, Text

LEMMA ParsedType ==
    ASSUME NEW text \in Text, text # Invalid
    PROVE  text[1] \in SUBSET EventType
BY DEF Text, Invalid, Json

LEMMA InitOK == Init => IInv
<1> SUFFICES ASSUME Init PROVE IInv
  OBVIOUS
<1>1. TableTypeOK
  BY PluginTableAssumption DEF Init, TableInit, TableTypeOK, Table
<1>2. TypeOK
  <2>1. polls \in [Slot -> Table \cup {Idle, Asked}]
    BY DEF Init
  <2>2. saving \in [Plugin -> {NoSave} \cup SaveInFlight]
    BY DEF Init
  <2>3. draft \in [Plugin -> Text]
    BY DEF Init, Text
  <2>4. onPlugins \in BOOLEAN /\ contested \in BOOLEAN
    BY DEF Init
  <2>5. shown \in Table /\ wanted \in Rows
    BY EmptyList, PluginTableAssumption DEF Init
  <2>6. QED BY <1>1, <2>1, <2>2, <2>3, <2>4, <2>5 DEF TypeOK, Init
<1>3. SameRows
  BY InitRowsSeeded, PluginAdminAssumption DEF Init, TableInit, SameRows
<1>4. EditorFollowsTheList
  BY DEF Init, EditorFollowsTheList
<1>5. SavesAreKept
  BY DEF Init, TableInit, SavesAreKept, Unhandled
<1>6. QED BY <1>2, <1>3, <1>4, <1>5 DEF IInv

-----------------------------------------------------------------------------
(* The list: asked for, answered, shown or given up.                         *)
LEMMA ListStep ==
    ASSUME IInv, NEW i \in Slot,
           OpenTab(i) \/ Poll(i) \/ ListPlugins(i) \/ LoadFails(i)
    PROVE  IInv'
<1>1. /\ UNCHANGED <<shown, cardVars, late, edited, wantVars, tableVars>>
      /\ onPlugins' \in BOOLEAN
      /\ trouble' \in Nat
      /\ \E x \in {Asked, table, Idle} : polls' = [polls EXCEPT ![i] = x] \/ polls' = polls
  <2>1. UNCHANGED <<shown, cardVars, late, edited, wantVars, tableVars>>
    BY DEF OpenTab, Poll, ListPlugins, LoadFails
  <2>2. onPlugins' = TRUE \/ onPlugins' = FALSE \/ onPlugins' = onPlugins
    BY DEF OpenTab, Poll, ListPlugins, LoadFails
  <2>3. trouble' = trouble \/ trouble' = trouble + 1
    BY DEF OpenTab, Poll, ListPlugins, LoadFails, Trouble
  <2>4. \E x \in {Asked, table, Idle} : polls' = [polls EXCEPT ![i] = x] \/ polls' = polls
    BY DEF OpenTab, Poll, ListPlugins, LoadFails, Ask
  <2>5. onPlugins' \in BOOLEAN
    BY <2>2, Zenon DEF IInv, TypeOK
  <2>6. trouble' \in Nat
    BY <2>3 DEF IInv, TypeOK
  <2>7. QED BY <2>1, <2>4, <2>5, <2>6
<1>2. /\ polls' \in [Slot -> Table \cup {Idle, Asked}]
      /\ \A j \in Slot : polls'[j] \in Table => polls'[j].rows \in Seeded
  BY <1>1, PluginAdminAssumption DEF IInv, TypeOK, TableTypeOK, SameRows
<1>3. TypeOK'
  BY <1>1, <1>2 DEF IInv, TypeOK, TableTypeOK, cardVars, wantVars, tableVars
<1>4. SameRows'
  BY <1>1, <1>2 DEF IInv, SameRows, cardVars, wantVars, tableVars
<1>5. EditorFollowsTheList'
  BY <1>1 DEF IInv, EditorFollowsTheList, cardVars
<1>6. SavesAreKept'
  BY <1>1 DEF IInv, SavesAreKept, Unhandled, cardVars, wantVars, tableVars
<1>7. QED BY <1>3, <1>4, <1>5, <1>6 DEF IInv

LEMMA LoadedOK ==
    ASSUME IInv, NEW i \in Slot, Loaded(i)
    PROVE  IInv'
<1> DEFINE rows == polls[i].rows
<1>1. /\ polls[i] \in Table
      /\ rows \in Seeded
      /\ shown' = polls[i]
      /\ expanded \subseteq DOMAIN InitRows
  BY EmptyList DEF IInv, SameRows, Loaded, Seeded
<1>2. /\ draft \in [Plugin -> Text]
      /\ expanded \subseteq Plugin
      /\ draft' = [p \in Plugin |-> IF p \in expanded THEN EditorText(rows, p) ELSE draft[p]]
  BY DEF IInv, TypeOK, Loaded
<1>3. \A p \in expanded : EditorText(rows, p) \in Text
  BY <1>1, EditorTextType
<1>4. draft' \in [Plugin -> Text]
  BY <1>2, <1>3
<1>5. /\ polls' = [polls EXCEPT ![i] = Idle]
      /\ UNCHANGED <<onPlugins, saving, expanded, late, trouble, wanted, contested, table, dbUp>>
      /\ edited' = {}
  BY DEF Loaded, wantVars, tableVars
<1>6. TypeOK'
  BY <1>1, <1>4, <1>5 DEF IInv, TypeOK, TableTypeOK
<1>7. SameRows'
  BY <1>1, <1>5, PluginAdminAssumption DEF IInv, SameRows, TypeOK, Seeded
<1>8. EditorFollowsTheList'
  BY <1>1, <1>2, <1>5 DEF EditorFollowsTheList
<1>9. SavesAreKept'
  BY <1>5 DEF IInv, SavesAreKept, Unhandled
<1>10. QED BY <1>6, <1>7, <1>8, <1>9 DEF IInv

-----------------------------------------------------------------------------
(* The cards.                                                                *)
LEMMA EditorStep ==
    ASSUME IInv, NEW p \in Plugin, NEW text \in Text, Expand(p) \/ HandleChange(p, text)
    PROVE  IInv'
<1>1. UNCHANGED <<onPlugins, shown, polls, saving, late, trouble, wanted, contested, table, dbUp>>
  BY DEF Expand, HandleChange, listVars, wantVars, tableVars
<1>2. draft \in [Plugin -> Text] /\ expanded \subseteq Plugin /\ edited \subseteq Plugin
  BY DEF IInv, TypeOK
<1>3. CASE Expand(p)
  <2>1. p \in DOMAIN shown.rows
    BY <1>3 DEF Expand, HasCard
  <2>2. shown.rows \in Seeded /\ p \in DOMAIN InitRows
    BY <2>1, EmptyList DEF IInv, SameRows, Seeded
  <2>3. EditorText(shown.rows, p) \in Text /\ Invalid \in Text
    BY <2>2, EditorTextType DEF Text
  <2>4. /\ expanded' \subseteq Plugin
        /\ edited' \subseteq Plugin
        /\ draft' \in [Plugin -> Text]
        /\ expanded' \subseteq DOMAIN shown.rows
    BY <1>2, <1>3, <2>1, <2>3 DEF Expand, IInv, SameRows
  <2>5. EditorFollowsTheList'
    BY <1>1, <1>2, <1>3 DEF Expand, IInv, EditorFollowsTheList
  <2>6. QED BY <1>1, <2>4, <2>5 DEF IInv, TypeOK, TableTypeOK, SameRows, SavesAreKept, Unhandled
<1>4. CASE HandleChange(p, text)
  <2>1. expanded' = expanded /\ draft' \in [Plugin -> Text] /\ edited' \subseteq Plugin
    BY <1>2, <1>4 DEF HandleChange
  <2>2. EditorFollowsTheList'
    BY <1>1, <1>2, <1>4 DEF HandleChange, IInv, EditorFollowsTheList
  <2>3. QED BY <1>1, <2>1, <2>2 DEF IInv, TypeOK, TableTypeOK, SameRows, SavesAreKept, Unhandled
<1>5. QED BY <1>3, <1>4

LEMMA SaveOK ==
    ASSUME IInv, NEW p \in Plugin, NEW part \in {"is_active", "settings"},
           NEW new \in Config, Save(p, part, new)
    PROVE  IInv'
<1> DEFINE save == [request |-> Body(p, part, new), handled |-> FALSE]
<1>1. save \in SaveInFlight
  BY DEF Body, Request, SaveInFlight
<1>2. /\ saving[p] = NoSave
      /\ saving' = [saving EXCEPT ![p] = save]
      /\ wanted' = [wanted EXCEPT ![p] = Patched(@, {part}, new)]
      /\ UNCHANGED <<onPlugins, shown, polls, draft, expanded, late, trouble, edited, contested,
                     table, dbUp>>
  BY DEF Save, listVars, tableVars
<1>3. p \in DOMAIN InitRows
  BY EmptyList DEF IInv, SameRows, Save, HasCard, Seeded
<1>4. wanted' \in Seeded
  BY <1>2, <1>3, PatchedColumn DEF IInv, SameRows
<1>5. TypeOK'
  BY <1>1, <1>2, <1>4, InitRowsSeeded DEF IInv, TypeOK, TableTypeOK
<1>6. SameRows' /\ EditorFollowsTheList'
  BY <1>2, <1>4 DEF IInv, SameRows, EditorFollowsTheList
<1>7. SavesAreKept'
  <2>1. saving \in [Plugin -> {NoSave} \cup SaveInFlight] /\ wanted \in Seeded
    BY DEF IInv, TypeOK, SameRows
  <2>2. \A q \in Plugin : q \in Unhandled' <=> q = p \/ q \in Unhandled
    BY <1>1, <1>2, <2>1, PluginAdminAssumption DEF Unhandled
  <2>3. p \notin Unhandled
    BY <1>2 DEF Unhandled
  <2>4. DOMAIN wanted' = DOMAIN wanted /\ DOMAIN wanted = DOMAIN InitRows
    BY <1>2, <2>1 DEF Seeded
  <2>5. DOMAIN InitRows \subseteq Plugin
    BY PluginTableAssumption DEF Rows
  <2>6. ASSUME ~contested, NEW q \in DOMAIN wanted, q # p
        PROVE  wanted'[q] = IF q \in Unhandled'
                            THEN Patched(table.rows[q], saving'[q].request.parts, saving'[q].request.new)
                            ELSE table.rows[q]
    BY <1>2, <2>1, <2>2, <2>4, <2>5, <2>6 DEF IInv, SavesAreKept
  <2>7. ASSUME ~contested
        PROVE  wanted'[p] = Patched(table.rows[p], saving'[p].request.parts, saving'[p].request.new)
    <3>1. wanted[p] = table.rows[p]
      BY <1>3, <2>3, <2>4, <2>7 DEF IInv, SavesAreKept
    <3>2. wanted'[p] = Patched(wanted[p], {part}, new)
      BY <1>2, <1>3, <2>4
    <3>3. saving'[p].request.parts = {part} /\ saving'[p].request.new = new
      BY <1>2, <2>1 DEF Body
    <3>4. QED BY <3>1, <3>2, <3>3
  <2>8. QED BY <1>2, <2>2, <2>4, <2>6, <2>7 DEF IInv, SavesAreKept
<1>8. QED BY <1>5, <1>6, <1>7 DEF IInv

LEMMA HandlerStep ==
    ASSUME IInv, NEW p \in Plugin, HandleToggle(p) \/ HandleSettingsSave(p)
    PROVE  IInv'
<1>1. shown.rows[p] \in Config
  <2>1. p \in DOMAIN shown.rows
    BY DEF HandleToggle, HandleSettingsSave, Save, HasCard
  <2>2. QED BY <2>1, EmptyList DEF IInv, SameRows, Seeded
<1>2. CASE HandleToggle(p)
  <2>1. [shown.rows[p] EXCEPT !.active = ~@] \in Config
    BY <1>1 DEF Config
  <2>2. QED BY <1>2, <2>1, SaveOK DEF HandleToggle
<1>3. CASE HandleSettingsSave(p)
  <2>1. draft[p][1] \in SUBSET EventType
    BY <1>3, ParsedType DEF HandleSettingsSave, IInv, TypeOK
  <2>2. [shown.rows[p] EXCEPT !.types = draft[p][1]] \in Config
    BY <1>1, <2>1 DEF Config
  <2>3. QED BY <1>3, <2>2, SaveOK DEF HandleSettingsSave
<1>4. QED BY <1>2, <1>3

-----------------------------------------------------------------------------
(* Writes: the dashboard's own, those of it that were given up, other admins'. *)
LEMMA UpdateOK ==
    ASSUME IInv, NEW p \in Plugin, UpdateEndpoint(p)
    PROVE  IInv'
<1> DEFINE parts == saving[p].request.parts
           new == saving[p].request.new
<1>1. /\ saving \in [Plugin -> {NoSave} \cup SaveInFlight]
      /\ p \in Unhandled
      /\ saving[p] \in SaveInFlight
      /\ UpdatePlugin(p, parts, new)
      /\ saving' = [saving EXCEPT ![p].handled = TRUE]
      /\ UNCHANGED <<onPlugins, shown, polls, draft, expanded, late, trouble, edited,
                     wanted, contested>>
  BY DEF IInv, TypeOK, UpdateEndpoint, Unhandled, listVars, wantVars
<1>2. new \in Config
  BY <1>1 DEF SaveInFlight, Request
<1>3. /\ p \in DOMAIN InitRows
      /\ TableTypeOK'
      /\ table'.rows = [table.rows EXCEPT ![p] = Patched(@, parts, new)]
      /\ table'.rows \in Seeded
  BY <1>1, <1>2, UpdateSeeded DEF IInv, TypeOK, SameRows
<1>4. [saving[p] EXCEPT !.handled = TRUE] \in SaveInFlight
  BY <1>1 DEF SaveInFlight
<1>5. saving' = [saving EXCEPT ![p] = [saving[p] EXCEPT !.handled = TRUE]]
  BY <1>1
<1>6. saving' \in [Plugin -> {NoSave} \cup SaveInFlight]
  BY <1>1, <1>4, <1>5
<1>7. TypeOK'
  BY <1>1, <1>3, <1>6 DEF IInv, TypeOK
<1>8. SameRows' /\ EditorFollowsTheList'
  BY <1>1, <1>3 DEF IInv, SameRows, EditorFollowsTheList
<1>9. SavesAreKept'
  <2>1. saving'[p].handled /\ p \notin Unhandled'
    BY <1>1, <1>5 DEF Unhandled, SaveInFlight
  <2>2. \A q \in Plugin : q # p => saving'[q] = saving[q] /\ (q \in Unhandled' <=> q \in Unhandled)
    BY <1>1, <1>5 DEF Unhandled
  <2>3. DOMAIN wanted = DOMAIN InitRows /\ DOMAIN InitRows \subseteq Plugin
    BY PluginTableAssumption DEF IInv, SameRows, Seeded, Rows
  <2>4. table.rows \in Seeded
    BY DEF IInv, SameRows
  <2>5. table'.rows[p] = Patched(table.rows[p], parts, new)
    BY <1>3, <2>4 DEF Seeded
  <2>6. \A q \in DOMAIN InitRows : q # p => table'.rows[q] = table.rows[q]
    BY <1>3, <2>4 DEF Seeded
  <2>7. QED BY <1>1, <2>1, <2>2, <2>3, <2>5, <2>6 DEF IInv, SavesAreKept
<1>10. QED BY <1>7, <1>8, <1>9 DEF IInv

LEMMA SaveEndsOK ==
    ASSUME IInv, NEW p \in Plugin, Saved(p) \/ SaveFails(p)
    PROVE  IInv'
<1>1. /\ saving \in [Plugin -> {NoSave} \cup SaveInFlight]
      /\ saving[p] \in SaveInFlight
      /\ saving' = [saving EXCEPT ![p] = NoSave]
  BY DEF IInv, TypeOK, Saved, SaveFails
<1>2. UNCHANGED <<onPlugins, shown, draft, expanded, edited, wanted, table, dbUp>>
  BY DEF Saved, SaveFails, tableVars, listVars, wantVars
<1>3. \/ p \notin Unhandled /\ late' = late /\ contested' = contested
      \/ contested' = TRUE
  <2>1. CASE Saved(p)
    BY <2>1 DEF Saved, Unhandled, wantVars
  <2>2. CASE SaveFails(p) /\ saving[p].handled
    <3>1. contested \in BOOLEAN
      BY DEF IInv, TypeOK
    <3>2. contested' = contested
      BY <2>2, <3>1, Zenon DEF SaveFails
    <3>3. p \notin Unhandled /\ late' = late
      BY <2>2 DEF SaveFails, Unhandled
    <3>4. QED BY <3>2, <3>3
  <2>3. CASE SaveFails(p) /\ ~saving[p].handled
    BY <2>3, Zenon DEF SaveFails
  <2>4. QED BY <2>1, <2>2, <2>3
<1>4. late' \subseteq Plugin \X Request /\ trouble' \in Nat /\ contested' \in BOOLEAN
  <2>1. saving[p].request \in Request
    BY <1>1 DEF SaveInFlight
  <2>2. late' \in {late, late \cup {<<p, saving[p].request>>}}
    BY DEF Saved, SaveFails
  <2>3. trouble' = trouble \/ trouble' = trouble + 1
    BY DEF Saved, SaveFails, Trouble
  <2>4. contested' \in BOOLEAN
    BY <1>3, Zenon DEF IInv, TypeOK
  <2>5. QED BY <2>1, <2>2, <2>3, <2>4 DEF IInv, TypeOK
<1>5. /\ polls' \in [Slot -> Table \cup {Idle, Asked}]
      /\ \A i \in Slot : polls'[i] \in Table => polls'[i].rows \in Seeded
  <2>1. polls' = polls \/ \E i \in Slot : polls' = [polls EXCEPT ![i] = Asked]
    BY DEF Saved, SaveFails, Ask, listVars
  <2>2. QED BY <2>1, PluginAdminAssumption DEF IInv, TypeOK, SameRows
<1>6. TypeOK'
  BY <1>1, <1>2, <1>4, <1>5 DEF IInv, TypeOK, TableTypeOK
<1>7. SameRows' /\ EditorFollowsTheList'
  BY <1>2, <1>5 DEF IInv, SameRows, EditorFollowsTheList
<1>8. SavesAreKept'
  <2>1. p \notin Unhandled'
    BY <1>1 DEF Unhandled
  <2>2. \A q \in Plugin : q # p => saving'[q] = saving[q] /\ (q \in Unhandled' <=> q \in Unhandled)
    BY <1>1 DEF Unhandled
  <2>3. DOMAIN wanted \subseteq Plugin
    BY PluginTableAssumption DEF IInv, SameRows, Seeded, Rows
  <2>4. QED BY <1>2, <1>3, <2>1, <2>2, <2>3 DEF IInv, SavesAreKept
<1>9. QED BY <1>6, <1>7, <1>8 DEF IInv

LEMMA HandledLateOK ==
    ASSUME IInv, NEW save \in late, HandledLate(save[1], save[2])
    PROVE  IInv'
<1>1. save[2] \in Request /\ save[2].new \in Config
  BY DEF IInv, TypeOK, Request
<1>2. TableTypeOK' /\ table'.rows \in Seeded
  BY <1>1, UpdateSeeded DEF HandledLate, IInv, TypeOK, SameRows
<1>3. /\ late' \subseteq late
      /\ contested
      /\ UNCHANGED <<onPlugins, shown, polls, saving, draft, expanded, trouble, edited,
                     wanted, contested>>
  BY DEF HandledLate, IInv, SavesAreKept, listVars, cardVars, wantVars
<1>4. TypeOK'
  BY <1>2, <1>3 DEF IInv, TypeOK
<1>5. SameRows' /\ EditorFollowsTheList' /\ SavesAreKept'
  BY <1>2, <1>3 DEF IInv, SameRows, EditorFollowsTheList, SavesAreKept
<1>6. QED BY <1>4, <1>5 DEF IInv

(* Requests about different columns of one row commute.                      *)
LEMMA ColumnsCommute ==
    ASSUME NEW old, NEW parts, NEW other, NEW new, NEW new2, parts \cap other = {},
           parts \cup other \subseteq {"is_active", "settings"}
    PROVE  Patched(Patched(old, parts, new), other, new2)
             = Patched(Patched(old, other, new2), parts, new)
BY DEF Patched

LEMMA OtherAdminOK ==
    ASSUME IInv, NEW p \in Plugin, NEW part \in {"is_active", "settings"},
           NEW new \in Config, OtherAdmin(p, part, new)
    PROVE  IInv'
<1>1. /\ p \in DOMAIN InitRows
      /\ TableTypeOK'
      /\ table'.rows = [table.rows EXCEPT ![p] = Patched(@, {part}, new)]
      /\ table'.rows \in Seeded
  BY UpdateSeeded DEF OtherAdmin, IInv, TypeOK, SameRows
<1>2. /\ wanted' = [wanted EXCEPT ![p] = Patched(@, {part}, new)]
      /\ contested' = (contested \/ (p \in Unhandled /\ part \in saving[p].request.parts))
      /\ UNCHANGED <<onPlugins, shown, polls, saving, draft, expanded, late, trouble, edited>>
  BY DEF OtherAdmin, listVars, cardVars
<1>3. wanted' \in Seeded /\ wanted' \in Rows
  BY <1>1, <1>2, PatchedColumn, InitRowsSeeded DEF IInv, SameRows
<1>4. contested' \in BOOLEAN
  BY <1>2, Zenon
<1>5. TypeOK'
  BY <1>1, <1>2, <1>3, <1>4 DEF IInv, TypeOK
<1>6. SameRows' /\ EditorFollowsTheList'
  BY <1>1, <1>2, <1>3 DEF IInv, SameRows, EditorFollowsTheList
<1>7. SavesAreKept'
  <2>1. /\ DOMAIN wanted' = DOMAIN InitRows /\ DOMAIN wanted = DOMAIN InitRows
        /\ DOMAIN InitRows \subseteq Plugin
        /\ Unhandled' = Unhandled
    BY <1>2, <1>3, PluginTableAssumption DEF IInv, SameRows, Seeded, Rows, Unhandled
  <2>2. table.rows \in Seeded /\ wanted \in Seeded
    BY DEF IInv, SameRows
  <2>3. /\ table'.rows[p] = Patched(table.rows[p], {part}, new)
        /\ wanted'[p] = Patched(wanted[p], {part}, new)
        /\ \A q \in DOMAIN InitRows : q # p => table'.rows[q] = table.rows[q] /\ wanted'[q] = wanted[q]
    BY <1>1, <1>2, <2>2 DEF Seeded
  <2>4. ASSUME ~contested' PROVE ~contested /\ late = {}
    BY <1>2, <2>4, Zenon DEF IInv, SavesAreKept
  <2>5. ASSUME ~contested', p \in Unhandled
        PROVE  wanted'[p] = Patched(table'.rows[p], saving[p].request.parts, saving[p].request.new)
    <3>1. wanted[p] = Patched(table.rows[p], saving[p].request.parts, saving[p].request.new)
      BY <1>1, <2>1, <2>4, <2>5 DEF IInv, SavesAreKept
    <3>2. part \notin saving[p].request.parts
      BY <1>2, <2>5
    <3>3. saving[p].request.parts \subseteq {"is_active", "settings"}
      BY <2>5 DEF Unhandled, IInv, TypeOK, SaveInFlight, Request
    <3>4. QED BY <2>3, <3>1, <3>2, <3>3, ColumnsCommute
  <2>6. ASSUME ~contested', p \notin Unhandled PROVE wanted'[p] = table'.rows[p]
    BY <1>1, <2>1, <2>3, <2>4, <2>6 DEF IInv, SavesAreKept
  <2>7. ASSUME ~contested', NEW q \in DOMAIN InitRows, q # p
        PROVE  wanted'[q] = IF q \in Unhandled
                            THEN Patched(table'.rows[q], saving[q].request.parts, saving[q].request.new)
                            ELSE table'.rows[q]
    BY <2>1, <2>3, <2>4, <2>7 DEF IInv, SavesAreKept
  <2>8. QED BY <1>2, <2>1, <2>4, <2>5, <2>6, <2>7 DEF SavesAreKept
<1>8. QED BY <1>5, <1>6, <1>7 DEF IInv

LEMMA DatabaseOK == ASSUME IInv, DbStops \/ DbReturns, UNCHANGED adminVars PROVE IInv'
<1>1. UNCHANGED <<onPlugins, shown, polls, saving, draft, expanded, late, trouble, edited,
                  wanted, contested, table>>
  BY DEF DbStops, DbReturns, adminVars, listVars, cardVars, wantVars
<1>2. dbUp' \in BOOLEAN
  BY DEF DbStops, DbReturns
<1>3. QED BY <1>1, <1>2 DEF IInv, TypeOK, TableTypeOK, SameRows, EditorFollowsTheList,
                            SavesAreKept, Unhandled

-----------------------------------------------------------------------------
LEMMA NextOK == IInv /\ [Next]_vars => IInv'
<1> SUFFICES ASSUME IInv, [Next]_vars PROVE IInv'
  OBVIOUS
<1>1. ASSUME NEW i \in Slot, OpenTab(i) \/ Poll(i) \/ PollStep(i) PROVE IInv'
  BY <1>1, ListStep, LoadedOK DEF PollStep
<1>2. CASE LeaveTab
  <2>1. UNCHANGED <<shown, polls, cardVars, late, trouble, edited, wantVars, tableVars>> /\ onPlugins' \in BOOLEAN
    BY <1>2 DEF LeaveTab
  <2>2. QED BY <2>1 DEF cardVars, wantVars, tableVars, IInv, TypeOK, TableTypeOK, SameRows,
                        EditorFollowsTheList, SavesAreKept, Unhandled
<1>3. ASSUME NEW p \in Plugin,
             \/ Expand(p) \/ HandleToggle(p) \/ HandleSettingsSave(p) \/ SaveStep(p)
             \/ \E text \in Text : HandleChange(p, text)
      PROVE  IInv'
  <2>1. Invalid \in Text
    BY DEF Text
  <2>2. QED BY <1>3, <2>1, EditorStep, HandlerStep, UpdateOK, SaveEndsOK DEF SaveStep
<1>4. CASE Elsewhere
  BY <1>4, HandledLateOK, OtherAdminOK, DatabaseOK DEF Elsewhere
<1>5. CASE UNCHANGED vars
  BY <1>5 DEF vars, adminVars, listVars, cardVars, wantVars, tableVars, IInv, TypeOK, TableTypeOK,
              SameRows, EditorFollowsTheList, SavesAreKept, Unhandled
<1>6. QED BY <1>1, <1>2, <1>3, <1>4, <1>5 DEF Next, Dashboard

(* The inductive invariant of the Plugins tab.                                *)
THEOREM DashboardInvariant == Spec => []IInv
BY InitOK, NextOK, PTL DEF Spec

(* The variables of the tab, its cards and the table stay well formed.         *)
THEOREM DashboardTypes == Spec => []TypeOK
<1>1. IInv => TypeOK
  BY DEF IInv
<1>2. QED BY <1>1, DashboardInvariant, PTL

(* SettingsEditor.jsx:11-15: an admin who has not typed since the last list     *)
(* sees, and saves, the settings of that list.                               *)
THEOREM EditorsFollow == Spec => []EditorFollowsTheList
<1>1. IInv => EditorFollowsTheList
  BY DEF IInv
<1>2. QED BY <1>1, DashboardInvariant, PTL

(* routes.py:29-41: a save writes its own column only, so that none    *)
(* undoes what somebody else did to the other one.                           *)
THEOREM ColumnsAreKept == Spec => []OtherColumnIsKept
<1>1. IInv => OtherColumnIsKept
  BY DEF IInv, SavesAreKept, OtherColumnIsKept
<1>2. QED BY <1>1, DashboardInvariant, PTL
=============================================================================
