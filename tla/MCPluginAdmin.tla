--------------------------- MODULE MCPluginAdmin ---------------------------
(* PluginAdmin with the card of one plugin, seeded as in db/init.sql.         *)
EXTENDS PluginAdmin

CONSTANTS http_call, pay, s1, s2

MCInitRows == [q \in Plugin |-> [active |-> TRUE, types |-> EventType]]
=============================================================================
