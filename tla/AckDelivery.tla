----------------------------- MODULE AckDelivery -----------------------------
(***************************************************************************)
(* What ack-after-execute delivery promises, without threads, sockets or   *)
(* crashes: a task is finished, then answered at most once, and only a     *)
(* finished task has its dispatch rows acked.  Finished, answered and      *)
(* acked are never taken back.                                             *)
(***************************************************************************)
EXTENDS Naturals

CONSTANTS Tasks, Rows, RowTask

VARIABLES
  finished,      \* tasks with a recorded outcome
  answered,      \* replies given, by task
  acknowledged   \* dispatch rows never to be delivered again

adVars == <<finished, answered, acknowledged>>

ADInit ==
  /\ finished = {} /\ acknowledged = {}
  /\ answered = [t \in Tasks |-> 0]

Finish(S) ==
  /\ finished' = finished \cup S
  /\ UNCHANGED <<answered, acknowledged>>

Answer(t) ==
  /\ t \in finished /\ answered[t] = 0
  /\ answered' = [answered EXCEPT ![t] = 1]
  /\ UNCHANGED <<finished, acknowledged>>

Acknowledge(r) ==
  /\ RowTask[r] \in finished
  /\ acknowledged' = acknowledged \cup {r}
  /\ UNCHANGED <<finished, answered>>

ADNext ==
  \/ \E S \in SUBSET Tasks : Finish(S)
  \/ \E t \in Tasks : Answer(t)
  \/ \E r \in Rows : Acknowledge(r)

ADSpec == ADInit /\ [][ADNext]_adVars
=============================================================================
