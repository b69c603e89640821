SPECIFICATION Spec
CONSTANTS
    db_writer = db_writer
    event_publisher = event_publisher
    http_call = http_call
    pay = pay
    Plugin = {db_writer, event_publisher}
    Plugins <- MCPlugins
    InitRows <- MCInitRows
    NeverFails = {db_writer}
    Publisher = {event_publisher}
    Undecodable = Undecodable
    EventType = {pay}
    Partition = {p1}
    Fetcher = {poller}
    Idle = Idle
    MAX_RETRIES = 2
    MaxVersion = 1
    MaxEvents = 2
    MaxBoots = 2
    MaxFaults = 0
INVARIANTS TypeOK DeadLetterJustified
PROPERTIES LossIsConfined FirstMetInOrder ImplementsEagerDelivery MessageEnds
CHECK_DEADLOCK FALSE
