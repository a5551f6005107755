-------------------------- MODULE CentralDispatcher --------------------------
(***************************************************************************)
(* The CentralDispatcher (core/central_dispatcher.py): one consumer thread *)
(* polls the unacked dispatch rows of the messages table and hands each to *)
(* a bounded pool of workers, which route it to a connected exec-server or *)
(* run it in-process.  This module has the database rows, the consumer and *)
(* the in-process path, which is the whole system when no task selects an  *)
(* exec-server; WSDispatcher extends it with the WebSocket path.           *)
(*                                                                         *)
(* Every step between two database accesses or two lock acquisitions is an *)
(* action of its own, so the consumer, the workers, the task API and a     *)
(* crash of the process interleave wherever they can in the code.          *)
(*                                                                         *)
(* Some operators are preceded by a wrong variant of themselves (NoGuard,  *)
(* KeepInFlight, ...) that no action uses: a mistake that could be made    *)
(* there, kept to see that a property notices it.                          *)
(***************************************************************************)
EXTENDS Naturals, FiniteSets

CONSTANTS
  Tasks,        \* task ids
  Servers,      \* exec-server ids
  None,         \* "no server_id in the context" / "no entry"
  Rows,         \* ids of the dispatch rows, in the order SQLite assigns them
  RowTask,      \* the task a dispatch row carries
  RowServer,    \* the server_id of its context, or None
  PollLimit,    \* find_unacked_dispatch(limit=10)
  MaxWorkers,   \* LOCAL_EXEC_MAX_WORKERS
  MaxCrashes,   \* bound: crashes of the backend process
  MaxCancels,   \* bound: DELETE /api/task/<id> calls
  MaxDbErrors   \* bound: repository calls that raise

ASSUME RowsAssumption ==
  /\ Rows \subseteq Nat \ {0}
  /\ RowTask \in [Rows -> Tasks]
  /\ RowServer \in [Rows -> Servers \cup {None}]
  /\ None \notin Servers

ASSUME BoundsAssumption ==
  /\ PollLimit \in Nat \ {0} /\ MaxWorkers \in Nat \ {0}
  /\ MaxCrashes \in Nat /\ MaxCancels \in Nat /\ MaxDbErrors \in Nat

VARIABLES
  taskState,  \* tasks.state, by task
  written,    \* dispatch rows inserted so far
  acked,      \* dispatch rows with acked=1
  replies,    \* number of reply rows, by task
  up,         \* is the WS-server process running?
  batch,      \* rows of the consumer's last poll it has not looked at yet
  inFlight,   \* CentralDispatcher._in_flight
  stage,      \* where the job of each dispatch row is (see Stages)
  faults      \* crashes, cancels and database errors so far

dbVars   == <<taskState, written, acked, replies>>
procVars == <<up, batch, inFlight, stage>>
cdVars   == <<dbVars, procVars, faults>>

TaskStates == {"pending", "running", "success", "failed", "timeout", "cancelled"}
Terminal   == {"success", "failed", "timeout", "cancelled"}

\* The stages in which the code has decided to execute the task and has not
\* yet recorded the outcome, and those in which it has only to report it.
Executing == {"starting", "running", "succeeded", "errored",
              "sending", "awaiting", "resolved", "lost"}
Reporting == {"replying", "acking", "releasing"}
\* Every stage.  A row is idle when no thread or coroutine of this process
\* holds it, and dead when the coroutine that held it has raised.
Stages == {"idle", "queued", "routing", "scheduled", "parked", "dead"}
            \cup Executing \cup Reporting

Done(t)    == taskState[t] \in Terminal
\* The task of a row that is not idle is in _in_flight; a thread, a coroutine
\* or the parking lot has it, unless the coroutine is dead.
Claims(r)  == stage[r] # "idle"
Held(r)    == stage[r] \notin {"idle", "dead"}
IsLocal(r) == RowServer[r] = None

SetStage(r, s) == stage' = [stage EXCEPT ![r] = s]

\* A repository call that succeeds, and one that raises.
DbOk    == UNCHANGED faults
DbRaise == /\ faults.dbErrors < MaxDbErrors
           /\ faults' = [faults EXCEPT !.dbErrors = @ + 1]

-----------------------------------------------------------------------------
(* MessageQueueService.dispatch_subtasks, in the process that runs the     *)
(* scheduling agent: insert the next dispatch row.                         *)
WriteRow(r) ==
  /\ r \notin written
  /\ \A q \in Rows : q < r => q \in written
  /\ written' = written \cup {r}
  /\ UNCHANGED <<taskState, acked, replies, procVars, faults>>

(* The consumer thread (_run): one poll, then the rows of the batch in id  *)
(* order.  The batch is a snapshot: by the time a row is looked at, it may *)
(* have been acked and its task released.                                  *)
Unacked == written \ acked
FirstUnacked ==
  {r \in Unacked : Cardinality({q \in Unacked : q < r}) < PollLimit}

Poll ==
  /\ up /\ batch = {}
  /\ FirstUnacked # {}
  /\ batch' = FirstUnacked
  /\ UNCHANGED <<dbVars, up, inFlight, stage, faults>>

NextOfBatch(r) == r \in batch /\ \A q \in batch : r <= q

\* In-flight guard: the same task is executing in this process already.
NoGuard(r)  == FALSE
InFlight(r) == RowTask[r] \in inFlight

Skip(r) ==
  /\ up /\ NextOfBatch(r) /\ InFlight(r)
  /\ batch' = batch \ {r}
  /\ UNCHANGED <<dbVars, up, inFlight, stage, faults>>

Submit(r) ==
  /\ up /\ NextOfBatch(r) /\ ~InFlight(r)
  /\ batch' = batch \ {r}
  /\ inFlight' = inFlight \cup {RowTask[r]}
  /\ SetStage(r, "queued")
  /\ UNCHANGED <<dbVars, up, faults>>

-----------------------------------------------------------------------------
(* The worker pool and run_task_locally.                                   *)
WaitingWorker(r) == \/ stage[r] \in {"routing", "parked"}
                    \/ IsLocal(r) /\ stage[r] \in Executing \cup Reporting
OnWorker(r) == \/ stage[r] = "routing"
               \/ IsLocal(r) /\ stage[r] \in Executing \cup Reporting
FreeWorker  == Cardinality({r \in Rows : OnWorker(r)}) < MaxWorkers

\* Idempotency check: redelivery of an already terminal task.
NeverDone(r)   == FALSE
AlreadyDone(r) == Done(RowTask[r])

\* A worker takes the job and reads the task row: a terminal task is acked
\* without a reply; an error of the read leaves through `finally: _ack`.
BeginLocal(r) ==
  /\ stage[r] = "queued" /\ IsLocal(r) /\ FreeWorker
  /\ \/ ~AlreadyDone(r) /\ SetStage(r, "starting") /\ DbOk
     \/ AlreadyDone(r)  /\ SetStage(r, "acking")   /\ DbOk
     \/ SetStage(r, "acking") /\ DbRaise
  /\ UNCHANGED <<dbVars, up, batch, inFlight>>

\* mark_as_started writes unconditionally.  If it raises, the task is
\* finalized as failed by the except clause.
StartLocal(r) ==
  /\ stage[r] = "starting"
  /\ \/ /\ taskState' = [taskState EXCEPT ![RowTask[r]] = "running"]
        /\ SetStage(r, "running") /\ DbOk
     \/ UNCHANGED taskState /\ SetStage(r, "errored") /\ DbRaise
  /\ UNCHANGED <<written, acked, replies, up, batch, inFlight>>

\* agent.run returns a result, or raises.
FinishLocal(r) ==
  /\ stage[r] = "running"
  /\ \E outcome \in {"succeeded", "errored"} : SetStage(r, outcome)
  /\ UNCHANGED <<dbVars, up, batch, inFlight, faults>>

-----------------------------------------------------------------------------
(* finalize_task and _ack, shared by both paths.  Errors are logged and    *)
(* swallowed: the job goes on to the next step whatever happened.          *)
Unfinished(r) == IF stage[r] = "succeeded" THEN "success" ELSE "running"
Misnamed(r)   == IF stage[r] = "succeeded" THEN "completed" ELSE "failed"
Outcome(r)    == IF stage[r] = "succeeded" THEN "success" ELSE "failed"

MarkTask(r) ==
  /\ stage[r] \in {"succeeded", "errored"}
  /\ SetStage(r, "replying")
  /\ \/ /\ taskState' = [taskState EXCEPT ![RowTask[r]] = Outcome(r)]
        /\ DbOk
     \/ UNCHANGED taskState /\ DbRaise
  /\ UNCHANGED <<written, acked, replies, up, batch, inFlight>>

Reply(r) ==
  /\ stage[r] = "replying"
  /\ SetStage(r, "acking")
  /\ \/ replies' = [replies EXCEPT ![RowTask[r]] = @ + 1] /\ DbOk
     \/ UNCHANGED replies /\ DbRaise
  /\ UNCHANGED <<taskState, written, acked, up, batch, inFlight>>

Ack(r) ==
  /\ stage[r] = "acking"
  /\ SetStage(r, "releasing")
  /\ \/ acked' = acked \cup {r} /\ DbOk
     \/ UNCHANGED acked /\ DbRaise
  /\ UNCHANGED <<taskState, written, replies, up, batch, inFlight>>

KeepInFlight(r) ==
  /\ stage[r] = "releasing"
  /\ SetStage(r, "idle")
  /\ UNCHANGED <<dbVars, up, batch, inFlight, faults>>

Release(r) ==
  /\ stage[r] = "releasing"
  /\ SetStage(r, "idle")
  /\ inFlight' = inFlight \ {RowTask[r]}
  /\ UNCHANGED <<dbVars, up, batch, faults>>

-----------------------------------------------------------------------------
(* The task API cancels a task without looking at its state.               *)
Cancel(t) ==
  /\ faults.cancels < MaxCancels
  /\ faults' = [faults EXCEPT !.cancels = @ + 1]
  /\ taskState' = [taskState EXCEPT ![t] = "cancelled"]
  /\ UNCHANGED <<written, acked, replies, procVars>>

(* The process dies: only the database survives.  Every start of the       *)
(* program first marks all unfinished tasks failed (app.main calls         *)
(* recover_orphans_on_startup), and then polls again.                      *)
Crash ==
  /\ up /\ faults.crashes < MaxCrashes
  /\ faults' = [faults EXCEPT !.crashes = @ + 1]
  /\ up' = FALSE /\ batch' = {} /\ inFlight' = {}
  /\ stage' = [r \in Rows |-> "idle"]
  /\ UNCHANGED dbVars

Restart ==
  /\ ~up /\ up' = TRUE
  /\ taskState' = [t \in Tasks |-> IF Done(t) THEN taskState[t] ELSE "failed"]
  /\ UNCHANGED <<written, acked, replies, batch, inFlight, stage, faults>>

-----------------------------------------------------------------------------
CDInit ==
  /\ taskState = [t \in Tasks |-> "pending"]
  /\ written = {} /\ acked = {}
  /\ replies = [t \in Tasks |-> 0]
  /\ up = TRUE /\ batch = {} /\ inFlight = {}
  /\ stage = [r \in Rows |-> "idle"]
  /\ faults = [crashes |-> 0, cancels |-> 0, dbErrors |-> 0]

Consumer == Poll \/ \E r \in Rows : Skip(r) \/ Submit(r)

LocalJob(r) == BeginLocal(r) \/ StartLocal(r) \/ FinishLocal(r)
ReportJob(r) == MarkTask(r) \/ Reply(r) \/ Ack(r) \/ Release(r)

LocalNext ==
  \/ \E r \in Rows : WriteRow(r) \/ LocalJob(r) \/ ReportJob(r)
  \/ Consumer
  \/ \E t \in Tasks : Cancel(t)
  \/ Crash
  \/ Restart

LocalSpec == CDInit /\ [][LocalNext]_cdVars

\* The consumer thread and the workers keep running, every agent run ends,
\* and the pool's FIFO queue gives each job a worker sooner or later although
\* others may take the free ones first.  Nothing forces a write, a cancel, a
\* crash or a database error; a crashed process is started again.
LocalFairness ==
  /\ WF_cdVars(Consumer) /\ WF_cdVars(Restart)
  /\ \A r \in Rows :
       /\ SF_cdVars(BeginLocal(r))
       /\ WF_cdVars(StartLocal(r) \/ FinishLocal(r))
       /\ WF_cdVars(ReportJob(r))

FairLocalSpec == LocalSpec /\ LocalFairness

-----------------------------------------------------------------------------
CDTypeOK ==
  /\ taskState \in [Tasks -> TaskStates]
  /\ written \subseteq Rows /\ acked \subseteq Rows
  /\ replies \in [Tasks -> Nat]
  /\ up \in BOOLEAN
  /\ batch \subseteq Rows /\ inFlight \subseteq Tasks
  /\ stage \in [Rows -> Stages]
  /\ faults \in [crashes : Nat, cancels : Nat, dbErrors : Nat]

\* A task is executed by at most one job of the process at a time: the
\* in-flight guard "prevents the same task_id from being dispatched twice",
\* even for two dispatch rows of one task and for a stale poll snapshot.
InFlightExclusive ==
  /\ \A r \in Rows : Claims(r) => RowTask[r] \in inFlight
  /\ \A r, q \in Rows : Claims(r) /\ Claims(q) /\ RowTask[r] = RowTask[q] => r = q

\* A task in the in-flight set, which is not dispatched, has a job, with one
\* exception: the coroutine of its row died because the repository raised at
\* its very first step, outside the try of forward_task, and the task stays in
\* the set until a restart.  No other error, cancel, lost connection or crash
\* leaves one there.
NoInFlightLeak ==
  \A t \in inFlight : \E r \in Rows :
    /\ RowTask[r] = t
    /\ Held(r) \/ (stage[r] = "dead" /\ faults.dbErrors > 0)

\* Ack-after-execute: a dispatch row is acked only when its task is terminal.
\* Holds as long as no database access raises.
AckedIsTerminal == \A r \in acked : Done(RowTask[r])

\* A task is answered at most once, whatever is redelivered, and only when
\* its row already records an outcome.
AnsweredOnce ==
  \A t \in Tasks : replies[t] <= 1 /\ (replies[t] = 1 => Done(t))

\* What makes AckedIsTerminal and AnsweredOnce inductive: a job that reports
\* has a finished task, a job that executes has neither acked rows nor a reply
\* to its task.
DeliveryInv ==
  /\ InFlightExclusive
  /\ AckedIsTerminal
  /\ AnsweredOnce
  /\ \A r \in Rows : stage[r] \in Reporting => Done(RowTask[r])
  /\ \A r \in acked, q \in Rows :
       RowTask[r] = RowTask[q] => stage[q] \notin Executing
  /\ \A r \in Rows :
       stage[r] \in Executing \cup {"replying"} => replies[RowTask[r]] = 0

\* The dispatcher never takes a task whose dispatch row is acked back to
\* running: acked work is finished work.
AckedStaysDone ==
  [][\A r \in acked : Done(RowTask[r]) => Done(RowTask[r])']_cdVars

\* Every dispatch row is acked in the end: nothing is stranded when all tasks
\* run in-process.
EveryRowAcked == \A r \in Rows : (r \in written) ~> (r \in acked)

\* A job ends with a reply unless its task was finished beforehand: as long as
\* nothing has been cancelled and nothing has crashed, the task of an acked row
\* has been answered, although a second row of it is acked without an answer.
AckedIsAnswered ==
  faults.crashes = 0 /\ faults.cancels = 0 => \A r \in acked : replies[RowTask[r]] = 1

\* The dispatcher implements ack-after-execute delivery.  A task counts as
\* finished when its row is terminal and no job is executing it: a task
\* cancelled during its execution is not finished before the job is.
FinishedTasks ==
  {t \in Tasks : /\ Done(t)
                 /\ \A r \in Rows : RowTask[r] = t => stage[r] \notin Executing}

Delivery == INSTANCE AckDelivery
              WITH finished <- FinishedTasks, answered <- replies,
                   acknowledged <- acked

ImplementsDelivery == Delivery!ADSpec

\* The same with repository calls that raise: until the first of them, acked
\* rows have finished tasks and a task is answered once ...
SafeUntilError ==
  faults.dbErrors = 0 => AckedIsTerminal /\ AnsweredOnce

\* ... and every step is one of AckDelivery.  The call that raises is the
\* first one that need not be.
DeliveryUntilError ==
  /\ Delivery!ADInit
  /\ [][faults'.dbErrors = 0 => Delivery!ADNext \/ UNCHANGED Delivery!adVars]_cdVars
=============================================================================
