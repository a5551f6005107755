----------------------- MODULE CentralDispatcherProofs -----------------------
(***************************************************************************)
(* Proofs about CentralDispatcher for any number of tasks, rows, workers,  *)
(* crashes and cancels: its types, the in-flight guard, and (until the     *)
(* first repository call raises) ack-after-execute.  The step lemmas are   *)
(* about single actions, so that WSDispatcherProofs can cite them too.     *)
(***************************************************************************)
EXTENDS CentralDispatcher, TLAPS

LEMMA CDInitTypeOK == CDInit => CDTypeOK
  BY DEF CDInit, CDTypeOK, TaskStates, Stages

LEMMA CDStepTypeOK ==
  ASSUME CDTypeOK, LocalNext
  PROVE  CDTypeOK'
<1> USE RowsAssumption DEF CDTypeOK, TaskStates, Stages, Executing, Reporting,
        SetStage, DbOk, DbRaise, dbVars, procVars
<1>1. ASSUME NEW r \in Rows, WriteRow(r) PROVE CDTypeOK'
  BY <1>1 DEF WriteRow
<1>2. ASSUME NEW r \in Rows, LocalJob(r) PROVE CDTypeOK'
  <2>1. CASE BeginLocal(r)
    BY <2>1 DEF BeginLocal
  <2>2. CASE StartLocal(r)
    BY <2>2 DEF StartLocal
  <2>3. CASE FinishLocal(r)
    BY <2>3 DEF FinishLocal
  <2>4. QED BY <1>2, <2>1, <2>2, <2>3 DEF LocalJob
<1>3. ASSUME NEW r \in Rows, ReportJob(r) PROVE CDTypeOK'
  <2>1. CASE MarkTask(r)
    BY <2>1 DEF MarkTask, Outcome
  <2>2. CASE Reply(r)
    BY <2>2 DEF Reply
  <2>3. CASE Ack(r)
    BY <2>3 DEF Ack
  <2>4. CASE Release(r)
    BY <2>4 DEF Release
  <2>5. QED BY <1>3, <2>1, <2>2, <2>3, <2>4 DEF ReportJob
<1>4. ASSUME Consumer PROVE CDTypeOK'
  <2>1. CASE Poll
    BY <2>1 DEF Poll, FirstUnacked, Unacked
  <2>2. ASSUME NEW r \in Rows, Skip(r) PROVE CDTypeOK'
    BY <2>2 DEF Skip
  <2>3. ASSUME NEW r \in Rows, Submit(r) PROVE CDTypeOK'
    BY <2>3 DEF Submit
  <2>4. QED BY <1>4, <2>1, <2>2, <2>3 DEF Consumer
<1>5. ASSUME NEW t \in Tasks, Cancel(t) PROVE CDTypeOK'
  BY <1>5 DEF Cancel
<1>6. CASE Crash
  <2>1. up' \in BOOLEAN
    BY <1>6, Zenon DEF Crash
  <2>2. /\ stage' \in [Rows -> Stages] /\ batch' \subseteq Rows
        /\ inFlight' \subseteq Tasks /\ UNCHANGED dbVars
    BY <1>6 DEF Crash
  <2>3. faults' \in [crashes : Nat, cancels : Nat, dbErrors : Nat]
    BY <1>6 DEF Crash
  <2>4. QED BY <2>1, <2>2, <2>3
<1>7. CASE Restart
  BY <1>7 DEF Restart
<1>8. QED BY <1>1, <1>2, <1>3, <1>4, <1>5, <1>6, <1>7 DEF LocalNext

\* Every reachable state of the in-process dispatcher is well typed.
THEOREM LocalTyping == LocalSpec => []CDTypeOK
<1>1. CDTypeOK /\ UNCHANGED cdVars => CDTypeOK'
  BY DEF CDTypeOK, cdVars, dbVars, procVars
<1>2. QED BY <1>1, CDInitTypeOK, CDStepTypeOK, PTL DEF LocalSpec

-----------------------------------------------------------------------------
(* The in-flight guard.                                                    *)

\* Inductive, with InFlightExclusive: a task in the set has a row that is not
\* idle, and only an error makes one dead.
Claimed     == \A t \in inFlight : \E r \in Rows : RowTask[r] = t /\ Claims(r)
DeadByError == \A r \in Rows : stage[r] = "dead" => faults.dbErrors > 0

LEMMA LeaksByError == Claimed /\ DeadByError => NoInFlightLeak
<1>1. ASSUME Claimed, DeadByError, NEW t \in inFlight
      PROVE  \E r \in Rows : /\ RowTask[r] = t
                             /\ Held(r) \/ (stage[r] = "dead" /\ faults.dbErrors > 0)
  BY <1>1 DEF Claimed, DeadByError, Claims, Held
<1>2. QED BY <1>1 DEF NoInFlightLeak

LEMMA CDInitGuard == CDInit => InFlightExclusive /\ Claimed /\ DeadByError
  BY DEF CDInit, InFlightExclusive, Claimed, DeadByError, Claims

LEMMA CDStepGuard ==
  ASSUME CDTypeOK, InFlightExclusive, Claimed, LocalNext
  PROVE  (InFlightExclusive /\ Claimed)'
<1> DEFINE Guard == InFlightExclusive /\ Claimed
<1> USE RowsAssumption DEF CDTypeOK, InFlightExclusive, Claimed, Claims,
        SetStage, dbVars, procVars
<1>1. ASSUME NEW r \in Rows, WriteRow(r) PROVE Guard'
  BY <1>1 DEF WriteRow
<1>2. ASSUME NEW r \in Rows, LocalJob(r) PROVE Guard'
  <2>1. CASE BeginLocal(r)
    BY <2>1 DEF BeginLocal
  <2>2. CASE StartLocal(r)
    BY <2>2 DEF StartLocal
  <2>3. CASE FinishLocal(r)
    BY <2>3 DEF FinishLocal
  <2>4. QED BY <1>2, <2>1, <2>2, <2>3 DEF LocalJob
<1>3. ASSUME NEW r \in Rows, ReportJob(r) PROVE Guard'
  <2>1. CASE MarkTask(r)
    BY <2>1 DEF MarkTask
  <2>2. CASE Reply(r)
    BY <2>2 DEF Reply
  <2>3. CASE Ack(r)
    BY <2>3 DEF Ack
  <2>4. CASE Release(r)
    BY <2>4 DEF Release
  <2>5. QED BY <1>3, <2>1, <2>2, <2>3, <2>4 DEF ReportJob
<1>4. ASSUME Consumer PROVE Guard'
  <2>1. CASE Poll
    BY <2>1 DEF Poll
  <2>2. ASSUME NEW r \in Rows, Skip(r) PROVE Guard'
    BY <2>2 DEF Skip
  <2>3. ASSUME NEW r \in Rows, Submit(r) PROVE Guard'
    BY <2>3 DEF Submit, InFlight
  <2>4. QED BY <1>4, <2>1, <2>2, <2>3 DEF Consumer
<1>5. ASSUME NEW t \in Tasks, Cancel(t) PROVE Guard'
  BY <1>5 DEF Cancel
<1>6. CASE Crash
  BY <1>6 DEF Crash
<1>7. CASE Restart
  BY <1>7 DEF Restart
<1>8. QED BY <1>1, <1>2, <1>3, <1>4, <1>5, <1>6, <1>7 DEF LocalNext

LEMMA ErrorsCount ==
  ASSUME CDTypeOK, DbOk \/ DbRaise
  PROVE  faults'.dbErrors >= faults.dbErrors /\ (DbRaise => faults'.dbErrors > 0)
BY DEF CDTypeOK, DbOk, DbRaise

\* The in-process path ends no job in the middle.
LEMMA CDStepDead ==
  ASSUME CDTypeOK, DeadByError, LocalNext
  PROVE  DeadByError'
<1>1. \A r \in Rows : stage'[r] = "dead" => stage[r] = "dead"
  <2> USE DEF CDTypeOK, SetStage, procVars
  <2>1. ASSUME NEW r \in Rows, WriteRow(r) \/ LocalJob(r)
        PROVE  \A q \in Rows : stage'[q] = "dead" => stage[q] = "dead"
    BY <2>1 DEF WriteRow, LocalJob, BeginLocal, StartLocal, FinishLocal
  <2>2. ASSUME NEW r \in Rows, ReportJob(r)
        PROVE  \A q \in Rows : stage'[q] = "dead" => stage[q] = "dead"
    BY <2>2 DEF ReportJob, MarkTask, Reply, Ack, Release
  <2>3. ASSUME Consumer \/ Crash \/ Restart
        PROVE  \A q \in Rows : stage'[q] = "dead" => stage[q] = "dead"
    BY <2>3 DEF Consumer, Poll, Skip, Submit, Crash, Restart
  <2>4. ASSUME NEW t \in Tasks, Cancel(t)
        PROVE  \A q \in Rows : stage'[q] = "dead" => stage[q] = "dead"
    BY <2>4 DEF Cancel
  <2>5. QED BY <2>1, <2>2, <2>3, <2>4 DEF LocalNext
<1>2. faults'.dbErrors >= faults.dbErrors
  <2>1. ASSUME NEW r \in Rows, LocalJob(r) \/ ReportJob(r)
        PROVE  DbOk \/ DbRaise
    BY <2>1 DEF LocalJob, BeginLocal, StartLocal, FinishLocal, ReportJob, MarkTask, Reply,
                Ack, Release, DbOk
  <2>2. ASSUME Consumer \/ Restart \/ \E r \in Rows : WriteRow(r)
        PROVE  DbOk
    BY <2>2 DEF Consumer, Poll, Skip, Submit, Restart, WriteRow, DbOk
  <2>3. ASSUME Crash \/ \E t \in Tasks : Cancel(t)
        PROVE  faults'.dbErrors = faults.dbErrors
    BY <2>3 DEF Crash, Cancel, CDTypeOK
  <2>4. faults.dbErrors \in Nat
    BY DEF CDTypeOK
  <2>5. QED BY <2>1, <2>2, <2>3, <2>4, ErrorsCount DEF LocalNext
<1>3. \A r \in Rows : stage'[r] = "dead" => faults.dbErrors > 0
  BY <1>1 DEF DeadByError
<1>4. faults.dbErrors \in Nat /\ faults'.dbErrors \in Nat
  BY CDStepTypeOK DEF CDTypeOK
<1>5. QED BY <1>2, <1>3, <1>4 DEF DeadByError

\* The in-flight guard: two jobs never hold rows of one task, whatever is
\* cancelled, crashes or raises, and a task in the set has a job.
THEOREM LocalGuard == LocalSpec => [](InFlightExclusive /\ NoInFlightLeak)
<1> DEFINE Inv == InFlightExclusive /\ Claimed /\ DeadByError
<1>1. Inv /\ UNCHANGED cdVars => Inv'
  BY DEF InFlightExclusive, Claimed, DeadByError, Claims, cdVars, procVars
<1>2. CDTypeOK /\ Inv /\ LocalNext => Inv'
  BY CDStepGuard, CDStepDead
<1>3. CDInit => Inv
  BY CDInitGuard
<1>4. Inv => InFlightExclusive /\ NoInFlightLeak
  BY LeaksByError
<1> HIDE DEF Inv
<1>5. QED BY <1>1, <1>2, <1>3, <1>4, LocalTyping, PTL DEF LocalSpec

-----------------------------------------------------------------------------
(* No repository call has raised yet.                                      *)
NoDbError == faults.dbErrors = 0

LEMMA NoRaise ==
  ASSUME CDTypeOK, NoDbError'
  PROVE  ~DbRaise /\ (UNCHANGED faults => NoDbError)
<1>1. faults.dbErrors + 1 # 0 /\ DOMAIN faults = {"crashes", "cancels", "dbErrors"}
  BY DEF CDTypeOK
<1>2. QED BY <1>1 DEF DbRaise, NoDbError

LEMMA CDNoRaise ==
  ASSUME CDTypeOK, LocalNext, NoDbError'
  PROVE  NoDbError
<1>1. UNCHANGED faults \/ DbRaise \/ Crash \/ \E t \in Tasks : Cancel(t)
  <2> USE DEF DbOk
  <2>1. ASSUME NEW r \in Rows, WriteRow(r) \/ LocalJob(r) \/ ReportJob(r)
        PROVE  UNCHANGED faults \/ DbRaise
    BY <2>1 DEF WriteRow, LocalJob, BeginLocal, StartLocal, FinishLocal, ReportJob, MarkTask,
       Reply, Ack, Release
  <2>2. Consumer \/ Restart => UNCHANGED faults
    BY DEF Consumer, Poll, Skip, Submit, Restart
  <2>3. QED BY <2>1, <2>2 DEF LocalNext
<1>2. ASSUME Crash \/ \E t \in Tasks : Cancel(t)
      PROVE  faults'.dbErrors = faults.dbErrors
  <2>1. Crash => faults'.dbErrors = faults.dbErrors
    BY DEF Crash, CDTypeOK
  <2>2. ASSUME NEW t \in Tasks, Cancel(t) PROVE faults'.dbErrors = faults.dbErrors
    BY <2>2 DEF Cancel, CDTypeOK
  <2>3. QED BY <1>2, <2>1, <2>2
<1>3. QED BY <1>1, <1>2, NoRaise DEF NoDbError

LEMMA CDInitDelivery == CDInit => DeliveryInv
  BY RowsAssumption DEF CDInit, DeliveryInv, InFlightExclusive, AckedIsTerminal,
     AnsweredOnce, Claims, Executing, Reporting

LEMMA CDStepDelivery ==
  ASSUME NoDbError', CDTypeOK, DeliveryInv, LocalNext
  PROVE  DeliveryInv'
<1> DEFINE Rest == /\ AckedIsTerminal
                   /\ AnsweredOnce
                   /\ \A r \in Rows : stage[r] \in Reporting => Done(RowTask[r])
                   /\ \A r \in acked, q \in Rows :
                        RowTask[r] = RowTask[q] => stage[q] \notin Executing
                   /\ \A r \in Rows : stage[r] \in Executing \cup {"replying"}
                                        => replies[RowTask[r]] = 0
<1>1. InFlightExclusive'
  \* The guard needs no more than itself: see CDStepGuard.
  <2> USE RowsAssumption DEF CDTypeOK, InFlightExclusive, Claims, SetStage, dbVars, procVars
  <2>1. ASSUME NEW r \in Rows, LocalJob(r) PROVE InFlightExclusive'
    BY <2>1 DEF LocalJob, BeginLocal, StartLocal, FinishLocal, DeliveryInv
  <2>2. ASSUME NEW r \in Rows, ReportJob(r) PROVE InFlightExclusive'
    BY <2>2 DEF ReportJob, MarkTask, Reply, Ack, Release, DeliveryInv
  <2>3. ASSUME NEW r \in Rows, Submit(r) PROVE InFlightExclusive'
    BY <2>3 DEF Submit, InFlight, DeliveryInv
  <2>4. ASSUME NEW r \in Rows, WriteRow(r) \/ Skip(r) PROVE InFlightExclusive'
    BY <2>4 DEF WriteRow, Skip, DeliveryInv
  <2>5. ASSUME NEW t \in Tasks, Cancel(t) PROVE InFlightExclusive'
    BY <2>5 DEF Cancel, DeliveryInv
  <2>6. CASE Poll \/ Crash \/ Restart
    BY <2>6 DEF Poll, Crash, Restart, DeliveryInv
  <2>7. QED BY <2>1, <2>2, <2>3, <2>4, <2>5, <2>6 DEF LocalNext, Consumer
<1>2. ~DbRaise
  BY NoRaise
<1>3. Rest'
  <2> USE RowsAssumption, <1>2
      DEF CDTypeOK, DeliveryInv, InFlightExclusive, AckedIsTerminal, AnsweredOnce,
          Claims, Done, TaskStates, Terminal, Stages, Executing, Reporting, SetStage,
          dbVars, procVars
  <2>1. ASSUME NEW r \in Rows, WriteRow(r) PROVE Rest'
    BY <2>1 DEF WriteRow
  <2>2. ASSUME NEW r \in Rows, BeginLocal(r) PROVE Rest'
    BY <2>2 DEF BeginLocal, AlreadyDone
  <2>3. ASSUME NEW r \in Rows, StartLocal(r) PROVE Rest'
    BY <2>3 DEF StartLocal
  <2>4. ASSUME NEW r \in Rows, FinishLocal(r) PROVE Rest'
    BY <2>4 DEF FinishLocal
  <2>5. ASSUME NEW r \in Rows, MarkTask(r) PROVE Rest'
    BY <2>5 DEF MarkTask, Outcome
  <2>6. ASSUME NEW r \in Rows, Reply(r) PROVE Rest'
    BY <2>6 DEF Reply
  <2>7. ASSUME NEW r \in Rows, Ack(r) PROVE Rest'
    <3>1. /\ stage[r] = "acking" /\ acked' = acked \cup {r}
          /\ stage' = [stage EXCEPT ![r] = "releasing"]
          /\ UNCHANGED <<taskState, replies>>
      BY <2>7 DEF Ack
    <3>2. Done(RowTask[r])
      BY <3>1
    <3>3. \A q \in Rows : RowTask[q] = RowTask[r] => stage[q] \notin Executing
      BY <3>1
    <3>4. QED BY <3>1, <3>2, <3>3
  <2>8. ASSUME NEW r \in Rows, Release(r) PROVE Rest'
    BY <2>8 DEF Release
  <2>9. ASSUME NEW r \in Rows, Skip(r) \/ Submit(r) PROVE Rest'
    <3>1. CASE Skip(r)
      BY <3>1 DEF Skip
    <3>2. CASE Submit(r)
      BY <3>2 DEF Submit
    <3>3. QED BY <2>9, <3>1, <3>2
  <2>10. ASSUME NEW t \in Tasks, Cancel(t) PROVE Rest'
    BY <2>10 DEF Cancel
  <2>11. CASE Poll
    BY <2>11 DEF Poll
  <2>12. CASE Crash
    BY <2>12 DEF Crash
  <2>13. CASE Restart
    BY <2>13 DEF Restart
  <2>14. QED
    BY <2>1, <2>2, <2>3, <2>4, <2>5, <2>6, <2>7, <2>8, <2>9, <2>10, <2>11, <2>12, <2>13
       DEF LocalNext, LocalJob, ReportJob, Consumer
<1>4. QED BY <1>1, <1>3 DEF DeliveryInv

LEMMA DeliveryStutters == DeliveryInv /\ UNCHANGED cdVars => DeliveryInv'
  BY DEF DeliveryInv, InFlightExclusive, AckedIsTerminal, AnsweredOnce, Claims, Done,
         cdVars, dbVars, procVars

LEMMA LocalDelivery == LocalSpec => [](NoDbError => DeliveryInv)
<1>1. CDTypeOK /\ (NoDbError => DeliveryInv) /\ [LocalNext]_cdVars
        => (NoDbError => DeliveryInv)'
  <2>1. NoDbError' /\ UNCHANGED cdVars => NoDbError
    BY DEF NoDbError, cdVars
  <2>2. QED BY <2>1, DeliveryStutters, CDNoRaise, CDStepDelivery
<1>2. QED BY <1>1, CDInitDelivery, LocalTyping, PTL DEF LocalSpec

\* Ack-after-execute for the in-process dispatcher, until the first repository
\* call raises: acked rows have finished tasks, tasks are answered once.
THEOREM LocalAckAfterExecute ==
  LocalSpec => [](faults.dbErrors = 0 => AckedIsTerminal /\ AnsweredOnce)
<1>1. (NoDbError => DeliveryInv) => (faults.dbErrors = 0 => AckedIsTerminal /\ AnsweredOnce)
  BY DEF DeliveryInv, NoDbError
<1>2. QED BY <1>1, LocalDelivery, PTL

LEMMA CDAckedGrows ==
  ASSUME [LocalNext]_cdVars PROVE acked \subseteq acked'
BY DEF LocalNext, LocalJob, ReportJob, Consumer, WriteRow, BeginLocal, StartLocal,
   FinishLocal, MarkTask, Reply, Ack, Release, Poll, Skip, Submit, Cancel,
   Crash, Restart, dbVars, cdVars

\* Acked work is finished work: as long as no repository call raises, no step of
\* the in-process dispatcher takes the task of an acked row back to running.
THEOREM LocalAckedStays == LocalSpec /\ [](faults.dbErrors = 0) => AckedStaysDone
<1>1. DeliveryInv /\ DeliveryInv' /\ [LocalNext]_cdVars
        => [\A r \in acked : Done(RowTask[r]) => Done(RowTask[r])']_cdVars
  BY CDAckedGrows DEF DeliveryInv, AckedIsTerminal, Done
<1>2. faults.dbErrors = 0 => NoDbError
  BY DEF NoDbError
<1>3. QED BY <1>1, <1>2, LocalDelivery, PTL DEF LocalSpec, AckedStaysDone

-----------------------------------------------------------------------------
(* Who is acked was answered.                                               *)

Undisturbed == faults.crashes = 0 /\ faults.cancels = 0

\* Inductive with DeliveryInv, as long as nothing crashes and nothing is
\* cancelled: a finished task has been answered or is about to be, and a job
\* that acks has either answered or found the task finished, alone with it.
AnswerInv ==
  Undisturbed =>
    /\ up
    /\ \A t \in Tasks : Done(t) =>
         replies[t] = 1 \/ \E r \in Rows : RowTask[r] = t /\ stage[r] = "replying"
    /\ \A r \in Rows : stage[r] = "acking" => replies[RowTask[r]] = 1
    /\ \A r \in acked : replies[RowTask[r]] = 1

LEMMA CDStepAnswer ==
  ASSUME NoDbError', CDTypeOK, DeliveryInv, AnswerInv, LocalNext
  PROVE  AnswerInv'
<1>1. ~DbRaise
  BY NoRaise
<1>2. CASE Undisturbed /\ Undisturbed'
  <2> USE RowsAssumption, <1>1, <1>2
      DEF CDTypeOK, AnswerInv, Done, SetStage, dbVars, procVars
  <2>1. ASSUME NEW r \in Rows, WriteRow(r) PROVE AnswerInv'
    BY <2>1 DEF WriteRow
  <2>2. ASSUME NEW r \in Rows, BeginLocal(r) PROVE AnswerInv'
    <3>1. /\ stage[r] = "queued" /\ UNCHANGED <<taskState, acked, replies, up>>
          /\ \/ stage' = [stage EXCEPT ![r] = "starting"]
             \/ Done(RowTask[r]) /\ stage' = [stage EXCEPT ![r] = "acking"]
      BY <2>2 DEF BeginLocal, AlreadyDone
    <3>2. Done(RowTask[r]) => replies[RowTask[r]] = 1
      <4>1. \A q \in Rows : stage[q] = "replying" => RowTask[q] # RowTask[r]
        BY <3>1 DEF DeliveryInv, InFlightExclusive, Claims
      <4>2. QED BY <4>1
    <3>3. QED BY <3>1, <3>2
  <2>3. ASSUME NEW r \in Rows, StartLocal(r) PROVE AnswerInv'
    BY <2>3 DEF StartLocal, Terminal
  <2>4. ASSUME NEW r \in Rows, FinishLocal(r) PROVE AnswerInv'
    BY <2>4 DEF FinishLocal
  <2>5. ASSUME NEW r \in Rows, MarkTask(r) PROVE AnswerInv'
    BY <2>5 DEF MarkTask
  <2>6. ASSUME NEW r \in Rows, Reply(r) PROVE AnswerInv'
    <3>1. /\ stage[r] = "replying" /\ UNCHANGED <<taskState, acked, up>>
          /\ stage' = [stage EXCEPT ![r] = "acking"]
          /\ replies' = [replies EXCEPT ![RowTask[r]] = @ + 1]
      BY <2>6 DEF Reply
    <3>2. replies'[RowTask[r]] = 1
      BY <3>1 DEF DeliveryInv
    <3>3. \A t \in Tasks : t # RowTask[r] => replies'[t] = replies[t]
      BY <3>1
    <3>4. QED BY <3>1, <3>2, <3>3
  <2>7. ASSUME NEW r \in Rows, Ack(r) PROVE AnswerInv'
    <3>1. /\ stage[r] = "acking" /\ acked' = acked \cup {r}
          /\ stage' = [stage EXCEPT ![r] = "releasing"]
          /\ UNCHANGED <<taskState, replies, up>>
      BY <2>7 DEF Ack
    <3>2. QED BY <3>1
  <2>8. ASSUME NEW r \in Rows, Release(r) PROVE AnswerInv'
    BY <2>8 DEF Release
  <2>9. ASSUME NEW r \in Rows, Skip(r) PROVE AnswerInv'
    BY <2>9 DEF Skip
  <2>10. ASSUME NEW r \in Rows, Submit(r) PROVE AnswerInv'
    <3>1. ~Claims(r)
      BY <2>10 DEF Submit, InFlight, DeliveryInv, InFlightExclusive
    <3>2. QED BY <2>10, <3>1 DEF Submit, Claims
  <2>11. CASE Poll
    BY <2>11 DEF Poll
  <2>12. ~Restart /\ ~Crash /\ \A t \in Tasks : ~Cancel(t)
    <3>1. faults \in [crashes : Nat, cancels : Nat, dbErrors : Nat] /\ up
      OBVIOUS
    <3>2. faults.crashes + 1 # 0 /\ faults.cancels + 1 # 0
      BY <3>1
    <3>3. CASE Crash
      <4>1. faults'.crashes = faults.crashes + 1
        BY <3>1, <3>3 DEF Crash
      <4>2. QED BY <3>2, <4>1 DEF Undisturbed
    <3>4. ASSUME NEW t \in Tasks, Cancel(t) PROVE FALSE
      <4>1. faults'.cancels = faults.cancels + 1
        BY <3>1, <3>4 DEF Cancel
      <4>2. QED BY <3>2, <4>1 DEF Undisturbed
    <3>5. QED BY <3>1, <3>3, <3>4 DEF Restart
  <2>13. QED
    BY <2>1, <2>2, <2>3, <2>4, <2>5, <2>6, <2>7, <2>8, <2>9, <2>10, <2>11, <2>12
       DEF LocalNext, LocalJob, ReportJob, Consumer
<1>3. CASE ~Undisturbed
  <2>1. ~Undisturbed'
    <3> USE RowsAssumption, <1>1 DEF CDTypeOK, Undisturbed, DbOk
    <3>1. ASSUME NEW r \in Rows, LocalJob(r) \/ ReportJob(r) PROVE UNCHANGED faults
      BY <3>1 DEF LocalJob, BeginLocal, StartLocal, FinishLocal, ReportJob, MarkTask, Reply,
         Ack, Release
    <3>2. ASSUME NEW r \in Rows, WriteRow(r) \/ Skip(r) \/ Submit(r) PROVE UNCHANGED faults
      BY <3>2 DEF WriteRow, Skip, Submit
    <3>3. CASE Poll \/ Restart
      BY <1>3, <3>3 DEF Poll, Restart
    <3>4. CASE Crash
      BY <1>3, <3>4 DEF Crash
    <3>5. ASSUME NEW t \in Tasks, Cancel(t) PROVE ~Undisturbed'
      BY <1>3, <3>5 DEF Cancel
    <3>6. QED BY <1>3, <3>1, <3>2, <3>3, <3>4, <3>5 DEF LocalNext, Consumer
  <2>2. QED BY <2>1 DEF AnswerInv
<1>4. CASE ~Undisturbed'
  BY <1>4 DEF AnswerInv
<1>5. QED BY <1>2, <1>3, <1>4

\* Every acked row's task was answered, for any number of rows of a task, until
\* the first crash, cancel or repository call that raises.
THEOREM LocalAnswered == LocalSpec => [](faults.dbErrors = 0 => AckedIsAnswered)
<1>1. AnswerInv /\ UNCHANGED cdVars => AnswerInv'
  BY DEF AnswerInv, Undisturbed, Done, cdVars, dbVars, procVars
<1>2. CDTypeOK /\ (NoDbError => DeliveryInv) /\ (NoDbError => AnswerInv) /\ [LocalNext]_cdVars
        => (NoDbError => AnswerInv)'
  <2>1. NoDbError' /\ UNCHANGED cdVars => NoDbError
    BY DEF NoDbError, cdVars
  <2>2. QED BY <1>1, <2>1, CDNoRaise, CDStepAnswer
<1>3. CDInit => AnswerInv
  BY RowsAssumption DEF CDInit, AnswerInv, Done, Terminal
<1>4. (NoDbError => AnswerInv) => (faults.dbErrors = 0 => AckedIsAnswered)
  BY DEF AnswerInv, AckedIsAnswered, Undisturbed, NoDbError
<1>5. QED
  BY <1>2, <1>3, <1>4, LocalDelivery, LocalTyping, PTL DEF LocalSpec

-----------------------------------------------------------------------------
(* Refinement.  Each step adds to the finished tasks, answers a finished   *)
(* task for the first time, acks a row of a finished task, or stutters.    *)

LEMMA CDInitRefines == CDInit => Delivery!ADInit
  BY DEF CDInit, Delivery!ADInit, FinishedTasks, Done, Terminal

LEMMA CDStepRefines ==
  ASSUME NoDbError', CDTypeOK, DeliveryInv, LocalNext
  PROVE  [Delivery!ADNext]_(Delivery!adVars)
<1>1. ~DbRaise
  BY NoRaise
<1> USE RowsAssumption DEF CDTypeOK, SetStage, dbVars, procVars
<1>2. ASSUME FinishedTasks \subseteq FinishedTasks', UNCHANGED <<replies, acked>>
      PROVE  Delivery!ADNext
  <2>1. FinishedTasks' \in SUBSET Tasks
    BY DEF FinishedTasks
  <2>2. Delivery!Finish(FinishedTasks')
    BY <1>2 DEF Delivery!Finish
  <2>3. QED BY <2>1, <2>2 DEF Delivery!ADNext
<1>3. ASSUME NEW r \in Rows, Reply(r) PROVE Delivery!Answer(RowTask[r])
  <2> DEFINE t == RowTask[r]
  <2>1. /\ stage[r] = "replying" /\ stage' = [stage EXCEPT ![r] = "acking"]
        /\ replies' = [replies EXCEPT ![t] = @ + 1]
        /\ UNCHANGED <<taskState, acked>>
    BY <1>1, <1>3 DEF Reply
  <2>2. Done(t) /\ replies[t] = 0
    BY <2>1 DEF DeliveryInv, Reporting
  <2>3. \A q \in Rows : RowTask[q] = t => stage[q] \notin Executing
    BY <2>1 DEF DeliveryInv, InFlightExclusive, Claims, Executing
  <2>4. UNCHANGED FinishedTasks
    BY <2>1 DEF FinishedTasks, Done, Executing
  <2>5. QED
    BY <2>1, <2>2, <2>3, <2>4 DEF Delivery!Answer, FinishedTasks
<1>4. ASSUME NEW r \in Rows, Ack(r) PROVE Delivery!Acknowledge(r)
  <2>1. /\ stage[r] = "acking" /\ stage' = [stage EXCEPT ![r] = "releasing"]
        /\ acked' = acked \cup {r}
        /\ UNCHANGED <<taskState, replies>>
    BY <1>1, <1>4 DEF Ack
  <2>2. Done(RowTask[r])
    BY <2>1 DEF DeliveryInv, Reporting
  <2>3. \A q \in Rows : RowTask[q] = RowTask[r] => stage[q] \notin Executing
    BY <2>1 DEF DeliveryInv, InFlightExclusive, Claims, Executing
  <2>4. UNCHANGED FinishedTasks
    BY <2>1 DEF FinishedTasks, Done, Executing
  <2>5. QED BY <2>1, <2>2, <2>3, <2>4 DEF Delivery!Acknowledge, FinishedTasks
\* A task is not finished when a job starts to execute it, and the others
\* that share the task are idle.
<1>5. ASSUME NEW r \in Rows, LocalJob(r) \/ MarkTask(r) \/ Release(r)
      PROVE  FinishedTasks \subseteq FinishedTasks' /\ UNCHANGED <<replies, acked>>
  <2> USE <1>1 DEF FinishedTasks, Done, Terminal, Executing, Reporting
  <2>1. CASE BeginLocal(r)
    BY <2>1 DEF BeginLocal, AlreadyDone
  <2>2. CASE StartLocal(r)
    BY <2>2 DEF StartLocal
  <2>3. CASE FinishLocal(r)
    BY <2>3 DEF FinishLocal
  <2>4. CASE MarkTask(r)
    BY <2>4 DEF MarkTask, Outcome
  <2>5. CASE Release(r)
    BY <2>5 DEF Release
  <2>6. QED BY <1>5, <2>1, <2>2, <2>3, <2>4, <2>5 DEF LocalJob
<1>6. ASSUME NEW r \in Rows, WriteRow(r) \/ Skip(r) \/ Submit(r)
      PROVE  FinishedTasks \subseteq FinishedTasks' /\ UNCHANGED <<replies, acked>>
  BY <1>6 DEF WriteRow, Skip, Submit, FinishedTasks, Done, Executing
<1>7. ASSUME NEW t \in Tasks, Cancel(t)
      PROVE  FinishedTasks \subseteq FinishedTasks' /\ UNCHANGED <<replies, acked>>
  BY <1>7 DEF Cancel, FinishedTasks, Done, Terminal
<1>8. ASSUME Poll \/ Crash \/ Restart
      PROVE  FinishedTasks \subseteq FinishedTasks' /\ UNCHANGED <<replies, acked>>
  BY <1>8 DEF Poll, Crash, Restart, FinishedTasks, Done, Terminal, Executing
<1>9. QED
  BY <1>2, <1>3, <1>4, <1>5, <1>6, <1>7, <1>8
     DEF LocalNext, ReportJob, Consumer, Delivery!ADNext

\* Until the first repository call raises, every step of the in-process dispatcher
\* is one of ack-after-execute delivery.
THEOREM LocalDeliversUntilError == LocalSpec => DeliveryUntilError
<1>1. ASSUME CDTypeOK, NoDbError => DeliveryInv, [LocalNext]_cdVars
      PROVE  [faults'.dbErrors = 0 => Delivery!ADNext \/ UNCHANGED Delivery!adVars]_cdVars
  <2> SUFFICES ASSUME LocalNext, NoDbError'
               PROVE  Delivery!ADNext \/ UNCHANGED Delivery!adVars
    BY <1>1 DEF NoDbError
  <2>1. NoDbError
    BY <1>1, CDNoRaise
  <2>2. QED BY <1>1, <2>1, CDStepRefines
<1>2. QED
  BY <1>1, LocalDelivery, LocalTyping, CDInitRefines, PTL DEF LocalSpec, DeliveryUntilError

\* The in-process dispatcher implements ack-after-execute delivery, as long as
\* no repository call raises.
THEOREM LocalImplementsDelivery ==
  LocalSpec /\ [](faults.dbErrors = 0) => ImplementsDelivery
<1>1. UNCHANGED cdVars => UNCHANGED Delivery!adVars
  BY DEF cdVars, dbVars, procVars, Delivery!adVars, FinishedTasks, Done
<1>2. faults.dbErrors = 0 => NoDbError
  BY DEF NoDbError
<1>3. QED
  BY <1>1, <1>2, LocalDelivery, LocalTyping, CDInitRefines, CDStepRefines, PTL
     DEF LocalSpec, ImplementsDelivery, Delivery!ADSpec
=============================================================================
