--------------------------- MODULE MCConsumerNode ---------------------------
(* ConsumerNode with the seeds of db/init.sql cut down to two plugins of the *)
(* Node consumer: http_call acts on payments only, db_writer on everything   *)
(* and never fails.  discoverPlugins() sorts by file name, db_writer first.  *)
EXTENDS ConsumerNode, TLC

CONSTANTS db_writer, http_call, pay, item

MCPlugins == SelectSeq(<<db_writer, http_call>>, LAMBDA q : q \in Plugin)

MCInitRows ==
    [ q \in Plugin |->
        [active |-> TRUE, types |-> IF q = http_call THEN {pay} ELSE {}] ]

PartitionSymmetry == Permutations(Partition)
=============================================================================
