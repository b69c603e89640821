SPECIFICATION Spec
CONSTANTS
    emp = emp
    p1 = p1
    p2 = p2
    writer = writer
    Employee = {emp}
    Partition = {p1, p2}
    PartitionOf <- MCPartitionOf
    Plugin = {writer}
    TxnCount = 2
    Continuous = TRUE
    Items = {2}
    MaxTransactions = 2
CONSTRAINT AtMostOneLost
INVARIANTS KeyedEventsInOrder FinishesUp
CHECK_DEADLOCK FALSE
