-------------------------- MODULE MCConsumerPython --------------------------
(* ConsumerPython with the seeds of db/init.sql cut down to the plugins a    *)
(* configuration names: http_call and event_publisher act on payments only,  *)
(* db_writer on everything.  discover_plugins() sorts by file name.          *)
EXTENDS ConsumerPython

CONSTANTS db_writer, event_publisher, http_call, pay

MCPlugins ==
    SelectSeq(<<db_writer, event_publisher, http_call>>, LAMBDA q : q \in Plugin)

MCInitRows ==
    [ q \in Plugin |->
        [active |-> TRUE, types |-> IF q = db_writer THEN {} ELSE {pay}] ]

=============================================================================
