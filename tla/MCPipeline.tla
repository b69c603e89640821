----------------------------- MODULE MCPipeline -----------------------------
(* Pipeline with one employee, whose key hashes to another partition than the *)
(* first transaction's, and to that of the second.                            *)
EXTENDS Pipeline, FiniteSets

CONSTANTS emp, p1, p2, writer

MCPartitionOf == [key \in {emp} \cup TxnId |-> IF key = 1 THEN p2 ELSE p1]

(* Bound: of two transactions at most one event is not delivered.            *)
AtMostOneLost ==
    txn * 8 <= Len(log[p1]) + Len(log[p2]) + Cardinality(queued) + 1
=============================================================================
