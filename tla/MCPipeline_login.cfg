SPECIFICATION Spec
CONSTANTS
    emp = emp
    p1 = p1
    p2 = p2
    writer = writer
    Employee = {emp}
    Partition = {p1, p2}
    PartitionOf <- MCPartitionOf
    Plugin = {writer}
    TxnCount = 1
    Continuous = FALSE
    Items = {2}
    MaxTransactions = 1
INVARIANT TransactionsInOrder
CHECK_DEADLOCK FALSE
