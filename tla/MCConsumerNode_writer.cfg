SPECIFICATION Spec
CONSTANTS
    db_writer = db_writer
    http_call = http_call
    pay = pay
    item = item
    Plugin = {db_writer}
    Plugins <- MCPlugins
    InitRows <- MCInitRows
    NeverFails = {db_writer}
    Undecodable = Undecodable
    Idle = Idle
    EventType = {pay}
    Partition = {p1}
    Fetcher = {c1}
    MAX_RETRIES = 2
    MaxVersion = 1
    MaxEvents = 2
    MaxBoots = 2
    MaxFaults = 1
INVARIANT WriterPersistsAll
CHECK_DEADLOCK FALSE
