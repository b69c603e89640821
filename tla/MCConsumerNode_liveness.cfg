SPECIFICATION Spec
CONSTANTS
    db_writer = db_writer
    http_call = http_call
    pay = pay
    item = item
    Plugin = {http_call}
    Plugins <- MCPlugins
    InitRows <- MCInitRows
    NeverFails = {}
    Undecodable = Undecodable
    Idle = Idle
    EventType = {pay}
    Partition = {p1}
    Fetcher = {c1, c2}
    MAX_RETRIES = 2
    MaxVersion = 2
    MaxEvents = 2
    MaxBoots = 1
    MaxFaults = 1
PROPERTIES CatchesUp CacheConverges
CHECK_DEADLOCK FALSE
