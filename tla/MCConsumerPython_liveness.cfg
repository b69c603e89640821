SPECIFICATION Spec
CONSTANTS
    db_writer = db_writer
    event_publisher = event_publisher
    http_call = http_call
    pay = pay
    Plugin = {http_call}
    Plugins <- MCPlugins
    InitRows <- MCInitRows
    NeverFails = {}
    Publisher = {}
    Undecodable = Undecodable
    EventType = {pay}
    Partition = {p1}
    Fetcher = {poller}
    Idle = Idle
    MAX_RETRIES = 2
    MaxVersion = 2
    MaxEvents = 2
    MaxBoots = 1
    MaxFaults = 1
PROPERTIES ImplementsEagerDelivery CatchesUp CacheConverges CacheNeverRegresses
CHECK_DEADLOCK FALSE
