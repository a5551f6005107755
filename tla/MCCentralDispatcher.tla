------------------------- MODULE MCCentralDispatcher -------------------------
(* Instances of CentralDispatcher: three dispatch rows, the first and the  *)
(* last of which carry the same task, none of which selects an exec-server.*)
EXTENDS CentralDispatcher

CONSTANTS t1, t2

MCTasks     == {t1, t2}
MCRows      == 1..3
MCRowTask   == <<t1, t2, t1>>
MCRowServer == [r \in MCRows |-> None]
=============================================================================
