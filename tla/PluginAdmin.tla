---------------------------- MODULE PluginAdmin ----------------------------
(***************************************************************************)
(* The Plugins tab of one admin's dashboard (App.jsx, PluginCard.jsx,         *)
(* SettingsEditor.jsx) over the plugins table.  The list is asked for every 5 *)
(* seconds and after each save without waiting for the answer before; a card  *)
(* waits for its own save only.  Other admins write through the API at any    *)
(* time.                                                                     *)
(***************************************************************************)
EXTENDS PluginTable, FiniteSets

CONSTANTS
    Slot,       \* bound: requests for the list in flight
    Idle,       \* no such request
    NoSave,     \* a card whose saving flag is off
    Asked,      \* a request for the list the API has not handled
    MaxTrouble  \* bound: requests given up after 8 seconds

Request == [parts : SUBSET {"is_active", "settings"}, new : Config]

SaveInFlight == [request : Request, handled : BOOLEAN]

ASSUME PluginAdminAssumption ==
    /\ NoSave \notin SaveInFlight
    /\ {Idle, Asked} \cap Table = {}
    /\ MaxTrouble \in Nat

VARIABLES
    onPlugins,  \* tab === "plugins"
    shown,      \* the rows on the screen
    polls,      \* the requests for the list, with the rows they were answered with
    saving,     \* the save each card waits for
    draft,      \* the text of the settings editor of each card
    expanded,   \* the cards whose editor is there
    late,       \* saves given up that the API has not handled
    trouble,
    edited,     \* history: cards whose editor was typed into since the last list
    wanted,     \* history: the rows as the saves and the other admins left them
    contested   \* history: a save was given up, or its column changed meanwhile

listVars == <<onPlugins, shown, polls>>
cardVars == <<saving, draft, expanded>>
wantVars == <<wanted, contested>>
adminVars == <<listVars, cardVars, late, trouble, edited, wantVars>>
vars == <<tableVars, adminVars>>

(* The text of a settings editor: JSON, or something that does not parse.     *)
Json(types) == <<types>>
Invalid == <<>>
EditorText(rows, p) == Json(rows[p].types)
Text == {Json(types) : types \in SUBSET EventType} \cup {Invalid}

TypeOK ==
    /\ TableTypeOK
    /\ onPlugins \in BOOLEAN
    /\ shown \in Table   \* NoTable until the first answer
    /\ polls \in [Slot -> Table \cup {Idle, Asked}]
    /\ saving \in [Plugin -> {NoSave} \cup SaveInFlight]
    /\ draft \in [Plugin -> Text]
    /\ expanded \subseteq Plugin
    /\ late \subseteq (Plugin \X Request)
    /\ trouble \in Nat
    /\ edited \subseteq Plugin
    /\ wanted \in Rows
    /\ contested \in BOOLEAN

Init ==
    /\ TableInit
    /\ onPlugins = FALSE
    /\ shown = NoTable
    /\ polls = [i \in Slot |-> Idle]
    /\ saving = [p \in Plugin |-> NoSave]
    /\ draft = [p \in Plugin |-> Invalid]
    /\ expanded = {}
    /\ late = {}
    /\ trouble = 0
    /\ edited = {}
    /\ wanted = InitRows
    /\ contested = FALSE

Unhandled == {p \in Plugin : saving[p] # NoSave /\ ~saving[p].handled}

(* MaxVersion bounds the updates made and still to be made.                   *)
Budget == table.ver + Cardinality(Unhandled) + Cardinality(late) < MaxVersion

-----------------------------------------------------------------------------
(* loadPlugins: on the tab's opening, by its interval, and after a save.      *)

Ask(i) == polls[i] = Idle /\ polls' = [polls EXCEPT ![i] = Asked]

OpenTab(i) ==
    /\ ~onPlugins
    /\ onPlugins' = TRUE
    /\ Ask(i)
    /\ UNCHANGED <<shown, cardVars, late, trouble, edited, wantVars, tableVars>>

LeaveTab ==
    /\ onPlugins
    /\ onPlugins' = FALSE
    /\ UNCHANGED <<shown, polls, cardVars, late, trouble, edited, wantVars, tableVars>>

(* Variant: the list is asked for until there is one.                        *)
PollOnce(i) ==
    /\ onPlugins
    /\ shown = NoTable
    /\ Ask(i)
    /\ UNCHANGED <<onPlugins, shown, cardVars, late, trouble, edited, wantVars, tableVars>>

Poll(i) ==
    /\ onPlugins
    /\ Ask(i)
    /\ UNCHANGED <<onPlugins, shown, cardVars, late, trouble, edited, wantVars, tableVars>>

ListPlugins(i) ==
    /\ polls[i] = Asked
    /\ dbUp
    /\ polls' = [polls EXCEPT ![i] = table]
    /\ UNCHANGED <<onPlugins, shown, cardVars, late, trouble, edited, wantVars, tableVars>>

(* Variant: an editor that is there keeps its text.                          *)
LoadedKeepsDrafts(i) ==
    /\ polls[i] \in Table
    /\ shown' = polls[i]
    /\ polls' = [polls EXCEPT ![i] = Idle]
    /\ edited' = {}
    /\ UNCHANGED <<onPlugins, cardVars, late, trouble, wantVars, tableVars>>

(* setPlugins, in the order of the answers; the settings of every row are a   *)
(* new object, so the effect of each editor overwrites its text.             *)
Loaded(i) ==
    /\ polls[i] \in Table
    /\ shown' = polls[i]
    /\ polls' = [polls EXCEPT ![i] = Idle]
    /\ draft' = [p \in Plugin |-> IF p \in expanded THEN EditorText(polls[i].rows, p) ELSE draft[p]]
    /\ edited' = {}
    /\ UNCHANGED <<onPlugins, saving, expanded, late, trouble, wantVars, tableVars>>

(* The database is down, or the request is given up.                          *)
Trouble ==
    \/ ~dbUp /\ UNCHANGED trouble
    \/ trouble < MaxTrouble /\ trouble' = trouble + 1

(* Variant: whatever came back is shown.                                     *)
LoadFailsShown(i) ==
    /\ polls[i] # Idle
    /\ Trouble
    /\ shown' = polls[i]
    /\ polls' = [polls EXCEPT ![i] = Idle]
    /\ UNCHANGED <<onPlugins, cardVars, late, edited, wantVars, tableVars>>

(* The list stays as it was.                                                 *)
LoadFails(i) ==
    /\ polls[i] # Idle
    /\ Trouble
    /\ polls' = [polls EXCEPT ![i] = Idle]
    /\ UNCHANGED <<onPlugins, shown, cardVars, late, edited, wantVars, tableVars>>

-----------------------------------------------------------------------------
(* The cards.                                                                *)

HasCard(p) == p \in DOMAIN shown.rows

(* The editor is mounted with the settings of the list, and unmounted.        *)
Expand(p) ==
    /\ HasCard(p)
    /\ expanded' = IF p \in expanded THEN expanded \ {p} ELSE expanded \cup {p}
    /\ draft' = [draft EXCEPT ![p] = IF p \in expanded THEN Invalid ELSE EditorText(shown.rows, p)]
    /\ edited' = edited \ {p}
    /\ UNCHANGED <<listVars, saving, late, trouble, wantVars, tableVars>>

HandleChange(p, text) ==
    /\ p \in expanded
    /\ text # draft[p]
    /\ draft' = [draft EXCEPT ![p] = text]
    /\ edited' = edited \cup {p}
    /\ UNCHANGED <<listVars, saving, expanded, late, trouble, wantVars, tableVars>>

(* Variant: the body of PUT is the whole row of the list.                    *)
BodyWholeRow(p, part, new) == [parts |-> {"is_active", "settings"}, new |-> new]

Body(p, part, new) == [parts |-> {part}, new |-> new]

Save(p, part, new) ==
    /\ HasCard(p)
    /\ saving[p] = NoSave
    /\ Budget
    /\ saving' = [saving EXCEPT ![p] = [request |-> Body(p, part, new), handled |-> FALSE]]
    /\ wanted' = [wanted EXCEPT ![p] = Patched(@, {part}, new)]
    /\ UNCHANGED <<listVars, draft, expanded, late, trouble, edited, contested, tableVars>>

HandleToggle(p) == Save(p, "is_active", [shown.rows[p] EXCEPT !.active = ~@])

HandleSettingsSave(p) ==
    /\ p \in expanded
    /\ draft[p] # Invalid
    /\ Save(p, "settings", [shown.rows[p] EXCEPT !.types = draft[p][1]])

UpdateEndpoint(p) ==
    /\ p \in Unhandled
    /\ UpdatePlugin(p, saving[p].request.parts, saving[p].request.new)
    /\ saving' = [saving EXCEPT ![p].handled = TRUE]
    /\ UNCHANGED <<listVars, draft, expanded, late, trouble, edited, wantVars>>

(* The answer: onUpdate() asks for the list, the card is usable again at once. *)
Saved(p) ==
    /\ saving[p] # NoSave
    /\ saving[p].handled
    /\ saving' = [saving EXCEPT ![p] = NoSave]
    /\ \/ \E i \in Slot : Ask(i)
       \/ Idle \notin {polls[i] : i \in Slot} /\ UNCHANGED polls
    /\ UNCHANGED <<onPlugins, shown, draft, expanded, late, trouble, edited, wantVars, tableVars>>

(* Variant: the saving flag is only taken back when the save was answered.    *)
SaveFailsKeepsFlag(p) ==
    /\ saving[p] # NoSave
    /\ Trouble
    /\ late' = IF dbUp /\ ~saving[p].handled THEN late \cup {<<p, saving[p].request>>} ELSE late
    /\ saving' = [saving EXCEPT ![p].handled = FALSE]
    /\ contested' = (contested \/ ~saving[p].handled)
    /\ UNCHANGED <<listVars, draft, expanded, edited, wanted, tableVars>>

(* An alert; one that was given up may still be handled.                     *)
SaveFails(p) ==
    /\ saving[p] # NoSave
    /\ Trouble
    /\ late' = IF dbUp /\ ~saving[p].handled THEN late \cup {<<p, saving[p].request>>} ELSE late
    /\ saving' = [saving EXCEPT ![p] = NoSave]
    /\ contested' = (contested \/ ~saving[p].handled)
    /\ UNCHANGED <<listVars, draft, expanded, edited, wanted, tableVars>>

HandledLate(p, request) ==
    /\ UpdatePlugin(p, request.parts, request.new)
    /\ late' = late \ {<<p, request>>}
    /\ UNCHANGED <<listVars, cardVars, trouble, edited, wantVars>>

(* Another admin's dashboard.                                                *)
OtherAdmin(p, part, new) ==
    /\ Budget
    /\ UpdatePlugin(p, {part}, new)
    /\ wanted' = [wanted EXCEPT ![p] = Patched(@, {part}, new)]
    /\ contested' = (contested \/ (p \in Unhandled /\ part \in saving[p].request.parts))
    /\ UNCHANGED <<listVars, cardVars, late, trouble, edited>>

-----------------------------------------------------------------------------
PollStep(i) == ListPlugins(i) \/ Loaded(i) \/ LoadFails(i)

SaveStep(p) == UpdateEndpoint(p) \/ Saved(p) \/ SaveFails(p)

Dashboard ==
    \/ \E i \in Slot : OpenTab(i) \/ Poll(i) \/ PollStep(i)
    \/ LeaveTab
    \/ \E p \in Plugin : \/ Expand(p) \/ HandleToggle(p) \/ HandleSettingsSave(p)
                         \/ SaveStep(p)
                         \/ \E text \in Text : HandleChange(p, text)

Elsewhere ==
    \/ \E save \in late : HandledLate(save[1], save[2])
    \/ \E p \in Plugin, part \in {"is_active", "settings"}, new \in Config :
          OtherAdmin(p, part, new)
    \/ (DbStops \/ DbReturns) /\ UNCHANGED adminVars

Next == Dashboard \/ Elsewhere

(* The interval goes on, and requests are answered or given up.               *)
Fairness ==
    /\ \A i \in Slot : WF_vars(Poll(i)) /\ WF_vars(PollStep(i))
    /\ \A p \in Plugin : WF_vars(SaveStep(p))

Spec == Init /\ [][Next]_vars /\ Fairness

-----------------------------------------------------------------------------
(* Properties                                                                *)

(* An admin who has not typed since the last list sees the settings of that    *)
(* list in the editor, and saves nothing else: a text typed before a poll was  *)
(* answered never comes back.                                                *)
EditorFollowsTheList ==
    \A p \in expanded \ edited : draft[p] = EditorText(shown.rows, p)

(* A save changes the one column it is about: although toggles and settings    *)
(* are sent from a list that may be stale, no save undoes a change that        *)
(* somebody made to the other column, and the last one about a column stays.   *)
(* Left out are writes that cross each other on one column, and saves the      *)
(* dashboard gave up.                                                        *)
OtherColumnIsKept ==
    ~contested => \A p \in DOMAIN wanted : p \notin Unhandled => table.rows[p] = wanted[p]

(* Once nobody saves any more, the screen ends up with the rows of the table   *)
(* for good, although answers overtake each other and requests fail.          *)
ListConverges == <>[](onPlugins /\ dbUp) => <>[](shown = table)

(* No card stays disabled: every save ends, also with the database away.      *)
SavingEnds == \A p \in Plugin : saving[p] # NoSave ~> saving[p] = NoSave
=============================================================================
