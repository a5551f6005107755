--------------------------- MODULE MCWSDispatcher ----------------------------
(* Instances of WSDispatcher: one exec-server s1 and the connections it    *)
(* makes, with one row bound to s1 (1), two rows of one task, both bound   *)
(* to s1 (D), or these and a local one that they can hide from the polls   *)
(* (3).                                                                    *)
EXTENDS WSDispatcher

CONSTANTS t1, t2, s1

MCRowTask1   == <<t1>>
MCRowTask3   == <<t1, t1, t2>>
MCRowTaskD   == <<t1, t1>>
MCRowServer1 == <<s1>>
MCRowServer3 == <<s1, s1, None>>
MCRowServerD == <<s1, s1>>
MCSocketServer == [k \in Sockets |-> s1]
=============================================================================
