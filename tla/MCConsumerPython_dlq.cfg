SPECIFICATION Spec
CONSTANTS
    db_writer = db_writer
    event_publisher = event_publisher
    http_call = http_call
    pay = pay
    Plugin = {http_call}
    Plugins <- MCPlugins
    InitRows <- MCInitRows
    NeverFails = {}
    Publisher = {}
    Undecodable = Undecodable
    EventType = {pay}
    Partition = {p1}
    Fetcher = {poller}
    Idle = Idle
    MAX_RETRIES = 2
    MaxVersion = 1
    MaxEvents = 2
    MaxBoots = 2
    MaxFaults = 1
INVARIANT ExhaustedReachesDlq
CHECK_DEADLOCK FALSE
