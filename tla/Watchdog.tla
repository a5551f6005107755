------------------------------- MODULE Watchdog -------------------------------
(***************************************************************************)
(* The watchdog (core/watchdog.py), a thread of the main process, composed *)
(* with the CentralDispatcher.  It lists the running tasks that have       *)
(* exceeded their timeout and then recovers them one by one, from that     *)
(* list: by the time a task's turn comes its job may have finished it.     *)
(*                                                                         *)
(* Elapsed time is abstracted: any running task may be overdue.  So is the *)
(* comparison of retry_count and max_retries: a task may be retried or     *)
(* given up.  CentralDispatcher alone is the system in which no task       *)
(* exceeds its timeout.                                                    *)
(***************************************************************************)
EXTENDS CentralDispatcher

CONSTANT MaxScans  \* bound: scans that find an overdue task

ASSUME WatchdogAssumption == MaxScans \in Nat /\ None \notin Tasks

VARIABLES
  overdue,   \* tasks of the last scan that are not recovered yet
  counting,  \* the task whose retry_count is being incremented, or None
  seen,      \* its state in the row that increment_retry_count has read, or None
  scans      \* scans so far

wdVars == <<overdue, counting, seen, scans>>
vars   == <<cdVars, wdVars>>

SetState(t, s) == taskState' = [taskState EXCEPT ![t] = s]

\* What a step of the watchdog leaves alone.
OnlyState == UNCHANGED <<written, acked, replies, procVars>>

\* A repository call that raises ends the recovery and drops the rest of the
\* list: the error is logged by _monitor_loop.
GivesUpScan ==
  /\ DbRaise
  /\ overdue' = {} /\ counting' = None /\ seen' = None
  /\ UNCHANGED <<taskState, scans>>

Scan ==
  /\ overdue = {} /\ counting = None
  /\ scans < MaxScans /\ scans' = scans + 1
  /\ overdue' \in SUBSET {t \in Tasks : taskState[t] = "running"} \ {{}}
  /\ UNCHANGED <<taskState, counting, seen, faults>> /\ OnlyState

\* Retry: update_task_state(pending), whatever the state is by now.
Retry(t) ==
  /\ t \in overdue /\ counting = None
  /\ \/ /\ SetState(t, "pending") /\ DbOk
        /\ overdue' = overdue \ {t} /\ counting' = t
        /\ UNCHANGED <<seen, scans>>
     \/ GivesUpScan
  /\ OnlyState

\* increment_retry_count: read the row, and write all of it back.
ReadRetryCount ==
  /\ counting # None /\ seen = None
  /\ \/ /\ seen' = taskState[counting] /\ DbOk
        /\ UNCHANGED <<taskState, overdue, counting, scans>>
     \/ GivesUpScan
  /\ OnlyState

WriteRetryCount ==
  /\ seen # None
  /\ \/ /\ SetState(counting, seen) /\ DbOk
        /\ counting' = None /\ seen' = None
        /\ UNCHANGED <<overdue, scans>>
     \/ GivesUpScan
  /\ OnlyState

\* Out of retries: update_task_state(timeout).
GiveUp(t) ==
  /\ t \in overdue /\ counting = None
  /\ \/ /\ SetState(t, "timeout") /\ DbOk
        /\ overdue' = overdue \ {t}
        /\ UNCHANGED <<counting, seen, scans>>
     \/ GivesUpScan
  /\ OnlyState

WatchdogStep ==
  \/ Scan \/ ReadRetryCount \/ WriteRetryCount
  \/ \E t \in Tasks : Retry(t) \/ GiveUp(t)

WDInit == CDInit /\ overdue = {} /\ counting = None /\ seen = None /\ scans = 0

\* What a step of the dispatcher does to the watchdog: a restart of the program
\* restarts it.
Alongside ==
  IF ~up /\ up'
  THEN overdue' = {} /\ counting' = None /\ seen' = None /\ scans' = scans
  ELSE UNCHANGED wdVars

WDNext == (LocalNext /\ Alongside) \/ WatchdogStep

WDSpec == WDInit /\ [][WDNext]_vars

\* The recovery of a listed task goes on; nothing makes a task overdue.
WDFairness ==
  /\ WF_vars(Consumer /\ Alongside) /\ WF_vars(Restart /\ Alongside)
  /\ \A r \in Rows :
       /\ SF_vars(BeginLocal(r) /\ Alongside)
       /\ WF_vars((StartLocal(r) \/ FinishLocal(r)) /\ Alongside)
       /\ WF_vars(ReportJob(r) /\ Alongside)
  /\ WF_vars(ReadRetryCount \/ WriteRetryCount \/ \E t \in Tasks : Retry(t) \/ GiveUp(t))

FairWDSpec == WDSpec /\ WDFairness

-----------------------------------------------------------------------------
WDTypeOK ==
  /\ CDTypeOK
  /\ overdue \subseteq Tasks
  /\ counting \in Tasks \cup {None}
  /\ seen \in TaskStates \cup {None}
  /\ scans \in 0..MaxScans

\* Whatever the watchdog does to a task that is executing, its job ends and
\* its dispatch row is acked.
RowsAckedAnyway == \A r \in Rows : (r \in written) ~> (r \in acked)
=============================================================================
