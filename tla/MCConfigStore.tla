--------------------------- MODULE MCConfigStore ---------------------------
(* Two plugins, one of them restricted to payments as in db/init.sql.        *)
EXTENDS ConfigStore

CONSTANTS db_writer, http_call, pay

MCInitRows ==
    [ q \in Plugin |->
        [active |-> TRUE, types |-> IF q = http_call THEN {pay} ELSE {}] ]
=============================================================================
