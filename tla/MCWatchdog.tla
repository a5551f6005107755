----------------------------- MODULE MCWatchdog -----------------------------
(* An instance of Watchdog: one task that is dispatched twice, executed    *)
(* in-process.                                                             *)
EXTENDS Watchdog

CONSTANTS t1, t2

MCOneTask   == {t1}
MCRows      == 1..2
MCRowTask1  == <<t1, t1>>
MCRowServer == [r \in MCRows |-> None]
=============================================================================
