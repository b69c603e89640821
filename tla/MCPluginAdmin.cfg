SPECIFICATION Spec
CONSTANTS
    http_call = http_call
    pay = pay
    s1 = s1
    s2 = s2
    Plugin = {http_call}
    InitRows <- MCInitRows
    EventType = {pay}
    Idle = Idle
    Slot = {s1, s2}
    NoSave = NoSave
    Asked = Asked
    MaxVersion = 3
    MaxTrouble = 1
INVARIANTS
    TypeOK
    EditorFollowsTheList
    OtherColumnIsKept
PROPERTIES
    ListConverges
    SavingEnds
