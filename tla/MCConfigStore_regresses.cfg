SPECIFICATION StoreSpec
CONSTANTS
    db_writer = db_writer
    http_call = http_call
    pay = pay
    Plugin = {db_writer, http_call}
    InitRows <- MCInitRows
    EventType = {pay}
    Fetcher = {c1, c2}
    Idle = Idle
    MaxVersion = 3
PROPERTY CacheNeverRegresses
