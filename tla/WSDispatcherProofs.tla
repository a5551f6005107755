------------------------- MODULE WSDispatcherProofs --------------------------
(***************************************************************************)
(* Proofs about WSDispatcher: what CentralDispatcherProofs proves of the   *)
(* in-process dispatcher holds with the WebSocket path too, and the maps   *)
(* that correlate replies with forwards are consistent.                    *)
(***************************************************************************)
EXTENDS WSDispatcher, CentralDispatcherProofs

LEMMA DispatcherStepIsLocal == DispatcherStep \/ BackendCrash => LocalNext
  BY DEF DispatcherStep, BackendCrash, LocalNext

LEMMA InitTypeOK == Init => TypeOK
  BY CDInitTypeOK DEF Init, TypeOK, Phases

\* Only a row that selects an exec-server is ever forwarded or parked, and
\* only one that selects none is executed by a worker.
RemoteStages == {"routing", "scheduled", "parked", "sending", "awaiting",
                 "resolved", "lost", "dead"}
LocalStages  == {"starting", "running"}
RemoteIsRemote ==
  \A r \in Rows : /\ stage[r] \in RemoteStages => ~IsLocal(r)
                  /\ stage[r] \in LocalStages => IsLocal(r)

LEMMA RaiseTyped ==
  ASSUME CDTypeOK, DbOk \/ DbRaise
  PROVE  faults' \in [crashes : Nat, cancels : Nat, dbErrors : Nat]
BY DEF CDTypeOK, DbOk, DbRaise

LEMMA StepTypeOK ==
  ASSUME TypeOK, RemoteIsRemote, Next
  PROVE  TypeOK'
<1> DEFINE CDTypes == CDTypeOK'
           WsTypes == /\ connections' \in [Servers -> Sockets \cup {0}]
                      /\ pending' \in [Tasks -> Rows \cup {0}]
                      /\ taskServer' \in [Tasks -> Servers \cup {None}]
                      /\ via' \in [Rows -> Sockets \cup {0}]
                      /\ phase' \in [Sockets -> Phases]
                      /\ open' \subseteq Sockets
                      /\ downlink' \in [Sockets -> SUBSET Tasks]
                      /\ uplink' \in [Sockets -> SUBSET Tasks]
                      /\ client' \in [Servers -> Sockets \cup {0}]
                      /\ work' \in [Servers -> [Tasks -> Nat]]
<1>1. CASE DispatcherStep /\ UNCHANGED wsVars
  <2>1. CDTypes
    BY <1>1, DispatcherStepIsLocal, CDStepTypeOK DEF TypeOK
  <2>2. WsTypes
    BY <1>1 DEF TypeOK, wsVars, backVars, netVars, exVars
  <2>3. QED BY <2>1, <2>2 DEF TypeOK
<1>2. CASE BackendCrash
  <2>1. CDTypes
    BY <1>2, DispatcherStepIsLocal, CDStepTypeOK DEF TypeOK
  <2>2. WsTypes
    BY <1>2 DEF BackendCrash, TypeOK, Phases, exVars
  <2>3. QED BY <2>1, <2>2 DEF TypeOK
<1>9. DbOk \/ DbRaise => faults' \in [crashes : Nat, cancels : Nat, dbErrors : Nat]
  <2>1. CDTypeOK
    BY DEF TypeOK
  <2> QED BY <2>1, RaiseTyped
<1> USE RowsAssumption, SocketsAssumption
        DEF TypeOK, CDTypeOK, TaskStates, Stages, Executing, Reporting, Phases,
            SetStage, DbOk, DbRaise, dbVars, procVars, cdVars, backVars, netVars,
            exVars, wsVars, Forget
<1>3. ASSUME NEW r \in Rows, Route(r) \/ Defer(r) PROVE TypeOK'
  <2>1. \E s \in Stages : stage' = [stage EXCEPT ![r] = s]
    BY <1>3 DEF Route, Defer
  <2>2. stage' \in [Rows -> Stages]
    BY <2>1
  <2>3. UNCHANGED <<dbVars, up, batch, inFlight, faults, wsVars>>
    BY <1>3 DEF Route, Defer
  <2> QED BY <2>2, <2>3
<1>4. ASSUME NEW r \in Rows, ForwardJob(r) PROVE TypeOK'
  <2>1. CASE ForwardBegin(r)
    <3> DEFINE k == connections[RowServer[r]]
    <3>1. UNCHANGED <<dbVars, up, batch, inFlight, connections, phase, netVars, exVars>>
      BY <2>1 DEF ForwardBegin
    <3>2. stage[r] = "scheduled"
      BY <2>1 DEF ForwardBegin
    <3>3. RowServer[r] \in Servers /\ k \in Sockets \cup {0}
      BY <3>2 DEF RemoteIsRemote, RemoteStages, IsLocal
    <3>4. faults' \in [crashes : Nat, cancels : Nat, dbErrors : Nat]
      <4>1. UNCHANGED faults \/ faults' = [faults EXCEPT !.dbErrors = @ + 1]
        BY <2>1 DEF ForwardBegin
      <4>2. QED BY <4>1
    <3>5. stage' \in [Rows -> Stages]
      <4>1. \E s \in {"acking", "sending", "parked", "dead"} : stage' = [stage EXCEPT ![r] = s]
        BY <2>1 DEF ForwardBegin
      <4>2. QED BY <4>1
    <3>6. /\ pending' \in [Tasks -> Rows \cup {0}]
          /\ taskServer' \in [Tasks -> Servers \cup {None}]
          /\ via' \in [Rows -> Sockets \cup {0}]
      <4>1. \/ UNCHANGED <<pending, taskServer, via>>
            \/ /\ pending' = [pending EXCEPT ![RowTask[r]] = r]
               /\ taskServer' = [taskServer EXCEPT ![RowTask[r]] = RowServer[r]]
               /\ via' = [via EXCEPT ![r] = k]
            \/ Forget(r)
        BY <2>1 DEF ForwardBegin
      <4>2. CASE UNCHANGED <<pending, taskServer, via>>
        BY <4>2
      <4>3. CASE /\ pending' = [pending EXCEPT ![RowTask[r]] = r]
                 /\ taskServer' = [taskServer EXCEPT ![RowTask[r]] = RowServer[r]]
                 /\ via' = [via EXCEPT ![r] = k]
        <5> HIDE DEF k
        <5>1. QED BY <4>3, <3>3
      <4>4. CASE Forget(r)
        BY <4>4
      <4>5. QED BY <4>1, <4>2, <4>3, <4>4
    <3>7. QED BY <3>1, <3>4, <3>5, <3>6
  <2>2. CASE ForwardSend(r)
    <3>1. UNCHANGED <<written, acked, replies, up, batch, inFlight, connections,
                      phase, open, uplink, exVars>>
      BY <2>2 DEF ForwardSend
    <3>2. taskState' \in [Tasks -> TaskStates]
      <4>1. UNCHANGED taskState \/ taskState' = [taskState EXCEPT ![RowTask[r]] = "running"]
        BY <2>2 DEF ForwardSend
      <4>2. QED BY <4>1
    <3>3. faults' \in [crashes : Nat, cancels : Nat, dbErrors : Nat]
      <4>1. UNCHANGED faults \/ faults' = [faults EXCEPT !.dbErrors = @ + 1]
        BY <2>2 DEF ForwardSend
      <4>2. QED BY <4>1
    <3>4. stage' \in [Rows -> Stages]
      <4>1. \E s \in {"awaiting", "parked"} : stage' = [stage EXCEPT ![r] = s]
        BY <2>2 DEF ForwardSend
      <4>2. QED BY <4>1
    <3>5. /\ pending' \in [Tasks -> Rows \cup {0}]
          /\ taskServer' \in [Tasks -> Servers \cup {None}]
          /\ via' \in [Rows -> Sockets \cup {0}]
      <4>1. UNCHANGED <<pending, taskServer, via>> \/ Forget(r)
        BY <2>2 DEF ForwardSend
      <4>2. QED BY <4>1
    <3>6. downlink' \in [Sockets -> SUBSET Tasks]
      <4>1. \/ UNCHANGED downlink
            \/ downlink' = [downlink EXCEPT ![via[r]] = IF via[r] \in open
                                                       THEN @ \cup {RowTask[r]} ELSE @]
        BY <2>2 DEF ForwardSend
      <4>2. RowTask[r] \in Tasks
        OBVIOUS
      <4>3. CASE UNCHANGED downlink
        BY <4>3
      <4>4. CASE downlink' = [downlink EXCEPT ![via[r]] = IF via[r] \in open
                                                       THEN @ \cup {RowTask[r]} ELSE @]
        <5>1. \A k \in Sockets : downlink'[k] \in SUBSET Tasks
          BY <4>2, <4>4
        <5> QED BY <4>4, <5>1
      <4>5. QED BY <4>1, <4>3, <4>4
    <3>7. QED BY <3>1, <3>2, <3>3, <3>4, <3>5, <3>6
  <2>3. CASE ForwardLost(r)
    BY <2>3 DEF ForwardLost
  <2>4. CASE ForwardResume(r)
    BY <2>4 DEF ForwardResume
  <2>5. QED BY <1>4, <2>1, <2>2, <2>3, <2>4 DEF ForwardJob
<1>5. ASSUME NEW k \in Sockets, Handler(k) PROVE TypeOK'
  <2>1. CASE Register(k)
    BY <2>1 DEF Register
  <2>2. CASE RegisterAck(k)
    BY <2>2 DEF RegisterAck
  <2>3. CASE RegisterFails(k)
    <3>1. /\ phase' \in [Sockets -> Phases] /\ open' \subseteq Sockets
      BY <2>3 DEF RegisterFails
    <3>4. /\ uplink' \in [Sockets -> SUBSET Tasks]
          /\ downlink' \in [Sockets -> SUBSET Tasks]
      BY <2>3 DEF RegisterFails
    <3>2. UNCHANGED <<dbVars, procVars, connections, pending, taskServer, via, exVars>>
      BY <2>3 DEF RegisterFails
    <3>5. faults' \in [crashes : Nat, cancels : Nat, dbErrors : Nat]
      BY <1>9, <2>3 DEF RegisterFails
    <3>3. QED BY <3>1, <3>2, <3>4, <3>5
  <2>4. CASE HandlerEnds(k)
    BY <2>4 DEF HandlerEnds
  <2>5. ASSUME NEW t \in Tasks, TaskResult(k, t) PROVE TypeOK'
    <3>1. /\ uplink' = [uplink EXCEPT ![k] = @ \ {t}]
          /\ taskServer' = [taskServer EXCEPT ![t] = None]
          /\ UNCHANGED <<dbVars, up, batch, inFlight, faults, connections, via, phase,
                         open, downlink, exVars>>
      BY <2>5 DEF TaskResult
    <3>2. /\ stage' \in [Rows -> Stages]
          /\ pending' \in [Tasks -> Rows \cup {0}]
      <4>1. \/ UNCHANGED <<stage, pending>>
            \/ /\ stage' = [stage EXCEPT ![pending[t]] = "resolved"]
               /\ pending' = [pending EXCEPT ![t] = 0]
        BY <2>5 DEF TaskResult
      <4>2. QED BY <4>1
    <3>3. /\ uplink' \in [Sockets -> SUBSET Tasks]
          /\ taskServer' \in [Tasks -> Servers \cup {None}]
      BY <3>1
    <3>4. QED BY <3>1, <3>2, <3>3
  <2>6. QED BY <1>5, <2>1, <2>2, <2>3, <2>4, <2>5 DEF Handler
<1>6. ASSUME NEW k \in Sockets, LinkDown(k) \/ Connect(k) PROVE TypeOK'
  <2>1. CASE Connect(k)
    BY <2>1 DEF Connect
  <2>2. CASE LinkDown(k)
    <3>1. /\ open' \subseteq Sockets /\ downlink' \in [Sockets -> SUBSET Tasks]
          /\ UNCHANGED <<cdVars, backVars, exVars>>
      BY <2>2 DEF LinkDown
    <3>2. PICK kept \in SUBSET uplink[k] : uplink' = [uplink EXCEPT ![k] = kept]
      BY <2>2 DEF LinkDown
    <3>3. kept \in SUBSET Tasks
      BY <3>2
    <3>4. uplink' \in [Sockets -> SUBSET Tasks]
      BY <3>2, <3>3
    <3>5. QED BY <3>1, <3>4
  <2>3. QED BY <1>6, <2>1, <2>2
<1>7. ASSUME NEW s \in Servers, ExecServer(s) PROVE TypeOK'
  <2>1. CASE ClientNotices(s)
    BY <2>1 DEF ClientNotices
  <2>2. CASE ServerRestart(s)
    BY <2>2 DEF ServerRestart
  <2>3. ASSUME NEW t \in Tasks, Receive(s, t) PROVE TypeOK'
    <3>1. work[s] \in [Tasks -> Nat] /\ client[s] \in Sockets
      BY <2>3 DEF Receive
    <3>2. /\ work' = [work EXCEPT ![s] = [work[s] EXCEPT ![t] = work[s][t] + 1]]
          /\ downlink' = [downlink EXCEPT ![client[s]] = @ \ {t}]
          /\ UNCHANGED <<cdVars, backVars, open, uplink, client>>
      BY <2>3 DEF Receive
    <3>3. [work[s] EXCEPT ![t] = work[s][t] + 1] \in [Tasks -> Nat]
      BY <3>1
    <3>4. work' \in [Servers -> [Tasks -> Nat]]
      BY <3>2, <3>3
    <3>5. downlink' \in [Sockets -> SUBSET Tasks]
      BY <3>1, <3>2
    <3>6. QED BY <3>2, <3>4, <3>5
  <2>4. ASSUME NEW t \in Tasks, FinishWork(s, t) PROVE TypeOK'
    <3>1. work[s] \in [Tasks -> Nat] /\ work[s][t] - 1 \in Nat
      BY <2>4 DEF FinishWork
    <3>2. /\ work' = [work EXCEPT ![s] = [work[s] EXCEPT ![t] = work[s][t] - 1]]
          /\ UNCHANGED <<cdVars, backVars, open, downlink, client>>
      BY <2>4 DEF FinishWork
    <3>3. [work[s] EXCEPT ![t] = work[s][t] - 1] \in [Tasks -> Nat]
      BY <3>1
    <3>4. work' \in [Servers -> [Tasks -> Nat]]
      BY <3>2, <3>3
    <3>5. uplink' \in [Sockets -> SUBSET Tasks]
      BY <2>4 DEF FinishWork
    <3>6. QED BY <3>2, <3>4, <3>5
  <2>5. QED BY <1>7, <2>1, <2>2, <2>3, <2>4 DEF ExecServer
<1>8. QED BY <1>1, <1>2, <1>3, <1>4, <1>5, <1>6, <1>7 DEF Next

LEMMA InitRemote == Init => RemoteIsRemote
  BY DEF Init, CDInit, RemoteIsRemote, RemoteStages, LocalStages

LEMMA StepRemote ==
  ASSUME TypeOK, RemoteIsRemote, Next
  PROVE  RemoteIsRemote'
<1> USE DEF TypeOK, CDTypeOK, RemoteIsRemote, RemoteStages, LocalStages, IsLocal,
            SetStage, dbVars, procVars, cdVars, backVars
<1>1. ASSUME NEW r \in Rows, LocalJob(r) PROVE RemoteIsRemote'
  BY <1>1 DEF LocalJob, BeginLocal, StartLocal, FinishLocal
<1>2. ASSUME NEW r \in Rows, ReportJob(r) PROVE RemoteIsRemote'
  BY <1>2 DEF ReportJob, MarkTask, Reply, Ack, Release
<1>3. CASE Consumer
  BY <1>3 DEF Consumer, Poll, Skip, Submit
<1>4. CASE \/ \E r \in Rows : WriteRow(r)
           \/ \E t \in Tasks : Cancel(t)
           \/ Restart
  BY <1>4 DEF WriteRow, Cancel, Restart
<1>5. CASE BackendCrash
  BY <1>5 DEF BackendCrash, Crash
<1>6. ASSUME NEW r \in Rows, Route(r) \/ Defer(r) \/ ForwardJob(r)
      PROVE  RemoteIsRemote'
  <2>1. CASE Route(r) \/ Defer(r)
    BY <2>1 DEF Route, Defer
  <2>2. CASE ForwardBegin(r)
    <3>1. /\ stage[r] = "scheduled"
          /\ \E s \in Stages \ LocalStages : stage' = [stage EXCEPT ![r] = s]
      BY <2>2 DEF ForwardBegin, Stages, Executing, Reporting
    <3>2. QED BY <3>1
  <2>3. CASE ForwardSend(r)
    <3>1. /\ stage[r] = "sending"
          /\ \E s \in Stages \ LocalStages : stage' = [stage EXCEPT ![r] = s]
      BY <2>3 DEF ForwardSend, Stages, Executing, Reporting
    <3>2. QED BY <3>1
  <2>4. CASE ForwardLost(r) \/ ForwardResume(r)
    BY <2>4 DEF ForwardLost, ForwardResume
  <2>5. QED BY <1>6, <2>1, <2>2, <2>3, <2>4 DEF ForwardJob
<1>7. ASSUME NEW k \in Sockets, Handler(k) PROVE RemoteIsRemote'
  <2>1. CASE Register(k) \/ RegisterFails(k)
    BY <2>1 DEF Register, RegisterFails
  <2>2. CASE RegisterAck(k)
    BY <2>2 DEF RegisterAck, Parked
  <2>3. CASE HandlerEnds(k)
    BY <2>3 DEF HandlerEnds
  <2>4. ASSUME NEW t \in Tasks, TaskResult(k, t) PROVE RemoteIsRemote'
    BY <2>4 DEF TaskResult, Awaits
  <2>5. QED BY <1>7, <2>1, <2>2, <2>3, <2>4 DEF Handler
<1>8. CASE \/ \E k \in Sockets : LinkDown(k) \/ Connect(k)
           \/ \E s \in Servers : ExecServer(s)
  BY <1>8 DEF LinkDown, Connect, ExecServer, ClientNotices, ServerRestart, Receive,
              FinishWork
<1>9. QED BY <1>1, <1>2, <1>3, <1>4, <1>5, <1>6, <1>7, <1>8
          DEF Next, DispatcherStep

\* Every reachable state is well typed, and only rows that select an exec-server
\* are in its stages, for any tasks, rows, exec-servers and connections.
THEOREM Typing == Spec => [](TypeOK /\ RemoteIsRemote)
<1>1. TypeOK /\ RemoteIsRemote /\ UNCHANGED vars => (TypeOK /\ RemoteIsRemote)'
  BY DEF TypeOK, CDTypeOK, RemoteIsRemote, vars, cdVars, dbVars, procVars, wsVars,
         backVars, netVars, exVars
<1>2. QED BY <1>1, InitTypeOK, StepTypeOK, InitRemote, StepRemote, PTL DEF Spec

-----------------------------------------------------------------------------
(* What the WebSocket path does to the state of the dispatcher.  It writes *)
(* no row but tasks.state, which mark_as_started sets, and moves jobs only *)
(* along the lines of Moves; Guard, DeliveryInv and the refinement follow  *)
(* from this alone.                                                        *)

WsStep ==
  \/ \E r \in Rows : Route(r) \/ Defer(r) \/ ForwardJob(r)
  \/ \E k \in Sockets : Handler(k) \/ LinkDown(k) \/ Connect(k)
  \/ \E s \in Servers : ExecServer(s)

Waiting == {"queued", "routing", "scheduled", "parked"}

Moves(r) ==
  \/ stage'[r] = stage[r]
  \/ stage[r] \in Waiting /\ stage'[r] \in Waiting \cup {"dead"}
  \/ stage[r] \in Waiting /\ stage'[r] = "acking" /\ Done(RowTask[r])
  \/ stage[r] \in Waiting /\ stage'[r] = "sending" /\ ~Done(RowTask[r])
  \/ stage[r] \in Executing /\ stage'[r] \in Executing \cup {"parked"}

Starts(t) ==
  /\ taskState'[t] = "running"
  /\ \E r \in Rows : RowTask[r] = t /\ stage[r] = "sending"

Effect ==
  /\ UNCHANGED <<written, acked, replies, inFlight>>
  /\ \A r \in Rows : Moves(r)
  /\ \A t \in Tasks : taskState'[t] = taskState[t] \/ Starts(t)

LEMMA WsStepEffect ==
  ASSUME TypeOK, WsStep
  PROVE  Effect
<1> USE RowsAssumption
        DEF TypeOK, CDTypeOK, Moves, Waiting, Executing, SetStage,
            dbVars, procVars, cdVars, backVars
<1>1. ASSUME NEW r \in Rows, Route(r) \/ Defer(r) \/ ForwardJob(r)
      PROVE  Effect
  <2>1. CASE Route(r) \/ Defer(r)
    BY <2>1 DEF Route, Defer, Effect
  <2>2. CASE ForwardBegin(r)
    <3>1. UNCHANGED <<dbVars, inFlight>>
      BY <2>2 DEF ForwardBegin
    <3>2. /\ stage[r] = "scheduled"
          /\ \/ AlreadyDone(r) /\ SetStage(r, "acking")
             \/ ~AlreadyDone(r) /\ SetStage(r, "sending")
             \/ SetStage(r, "parked")
             \/ SetStage(r, "dead")
      BY <2>2 DEF ForwardBegin
    <3>3. \A q \in Rows : Moves(q)
      BY <3>2 DEF AlreadyDone
    <3>4. QED BY <3>1, <3>3 DEF Effect
  <2>3. CASE ForwardSend(r)
    <3>1. UNCHANGED <<written, acked, replies, inFlight>>
      BY <2>3 DEF ForwardSend
    <3>2. /\ stage[r] = "sending"
          /\ \E s \in {"awaiting", "parked"} : stage' = [stage EXCEPT ![r] = s]
          /\ \/ UNCHANGED taskState
             \/ taskState' = [taskState EXCEPT ![RowTask[r]] = "running"]
      BY <2>3 DEF ForwardSend
    <3>3. \A q \in Rows : Moves(q)
      BY <3>2
    <3>4. \A t \in Tasks : taskState'[t] = taskState[t] \/ Starts(t)
      BY <3>2 DEF Starts
    <3>5. QED BY <3>1, <3>3, <3>4 DEF Effect
  <2>4. CASE ForwardLost(r) \/ ForwardResume(r)
    BY <2>4 DEF ForwardLost, ForwardResume, Effect
  <2>5. QED BY <1>1, <2>1, <2>2, <2>3, <2>4 DEF ForwardJob
<1>2. ASSUME NEW k \in Sockets, Handler(k) PROVE Effect
  <2>1. CASE Register(k) \/ RegisterFails(k)
    BY <2>1 DEF Register, RegisterFails, Effect
  <2>2. CASE RegisterAck(k)
    BY <2>2 DEF RegisterAck, Parked, Effect
  <2>3. CASE HandlerEnds(k)
    BY <2>3 DEF HandlerEnds, Effect
  <2>4. ASSUME NEW t \in Tasks, TaskResult(k, t) PROVE Effect
    BY <2>4 DEF TaskResult, Awaits, Effect
  <2>5. QED BY <1>2, <2>1, <2>2, <2>3, <2>4 DEF Handler
<1>3. ASSUME NEW k \in Sockets, LinkDown(k) \/ Connect(k) PROVE Effect
  BY <1>3 DEF LinkDown, Connect, Effect
<1>4. ASSUME NEW s \in Servers, ExecServer(s) PROVE Effect
  BY <1>4 DEF ExecServer, ClientNotices, ServerRestart, Receive, FinishWork, Effect
<1>5. QED BY <1>1, <1>2, <1>3, <1>4 DEF WsStep

LEMMA NextSplits == Next => LocalNext \/ WsStep
  BY DispatcherStepIsLocal DEF Next, WsStep

LEMMA EffectKeepsGuard ==
  ASSUME TypeOK, InFlightExclusive, Claimed, Effect
  PROVE  (InFlightExclusive /\ Claimed)'
<1>1. \A r \in Rows : Claims(r)' <=> Claims(r)
  BY DEF Effect, Moves, Waiting, Executing, Claims
<1>2. QED BY <1>1 DEF Effect, InFlightExclusive, Claimed

\* A coroutine dies of a repository call that raises, and of nothing else.
LEMMA WsStepDead ==
  ASSUME TypeOK, DeadByError, WsStep
  PROVE  DeadByError'
<1> USE DEF TypeOK, CDTypeOK, SetStage, backVars, cdVars, procVars
<1>1. /\ DbOk \/ DbRaise
      /\ \A r \in Rows : stage'[r] = "dead" => stage[r] = "dead" \/ DbRaise
  <2>1. ASSUME NEW r \in Rows, Route(r) \/ Defer(r)
        PROVE  UNCHANGED faults /\ \E s : s # "dead" /\ SetStage(r, s)
    BY <2>1 DEF Route, Defer
  <2>2. ASSUME NEW r \in Rows, ForwardBegin(r)
        PROVE  \/ DbOk /\ \E s : s # "dead" /\ SetStage(r, s)
               \/ DbRaise /\ SetStage(r, "dead")
    BY <2>2 DEF ForwardBegin
  <2>3. ASSUME NEW r \in Rows, ForwardSend(r)
        PROVE  (DbOk \/ DbRaise) /\ \E s : s # "dead" /\ SetStage(r, s)
    BY <2>3 DEF ForwardSend
  <2>4. ASSUME NEW r \in Rows, ForwardLost(r) \/ ForwardResume(r)
        PROVE  UNCHANGED faults /\ \E s : s # "dead" /\ SetStage(r, s)
    BY <2>4 DEF ForwardLost, ForwardResume
  <2>5. ASSUME NEW k \in Sockets, Handler(k)
        PROVE  /\ DbOk \/ DbRaise
               /\ \A r \in Rows : stage'[r] = "dead" => stage[r] = "dead"
    <3>1. CASE Register(k) \/ RegisterFails(k)
      BY <3>1 DEF Register, RegisterFails, DbOk
    <3>2. CASE RegisterAck(k) \/ HandlerEnds(k)
      BY <3>2 DEF RegisterAck, HandlerEnds, DbOk
    <3>3. ASSUME NEW t \in Tasks, TaskResult(k, t)
          PROVE  DbOk /\ \A r \in Rows : stage'[r] = "dead" => stage[r] = "dead"
      BY <3>3 DEF TaskResult, Awaits, DbOk
    <3>4. QED BY <2>5, <3>1, <3>2, <3>3 DEF Handler
  <2>6. ASSUME NEW k \in Sockets, LinkDown(k) \/ Connect(k)
        PROVE  UNCHANGED <<faults, stage>>
    BY <2>6 DEF LinkDown, Connect
  <2>7. ASSUME NEW s \in Servers, ExecServer(s)
        PROVE  UNCHANGED <<faults, stage>>
    BY <2>7 DEF ExecServer, ClientNotices, ServerRestart, Receive, FinishWork
  <2>8. ASSUME NEW r \in Rows, NEW s, s # "dead", SetStage(r, s)
        PROVE  \A q \in Rows : stage'[q] = "dead" => stage[q] = "dead"
    BY <2>8
  <2>9. QED BY <2>1, <2>2, <2>3, <2>4, <2>5, <2>6, <2>7, <2>8 DEF WsStep, ForwardJob, DbOk
<1>2. faults'.dbErrors >= faults.dbErrors /\ (DbRaise => faults'.dbErrors > 0)
  BY <1>1, ErrorsCount
<1>3. faults.dbErrors \in Nat /\ faults'.dbErrors \in Nat
  BY <1>1 DEF DbOk, DbRaise
<1>4. QED BY <1>1, <1>2, <1>3 DEF DeadByError

\* The in-flight guard with the WebSocket path: one job per task, and a task
\* in the set has a job unless its coroutine died of an error, whatever breaks,
\* restarts, crashes or raises.
THEOREM Guard == Spec => [](InFlightExclusive /\ NoInFlightLeak)
<1> DEFINE Inv == InFlightExclusive /\ Claimed /\ DeadByError
<1>1. Init => Inv
  BY CDInitGuard DEF Init
<1>2. TypeOK /\ Inv /\ Next => Inv'
  BY NextSplits, CDStepGuard, CDStepDead, WsStepEffect, EffectKeepsGuard, WsStepDead DEF TypeOK
<1>3. Inv /\ UNCHANGED vars => Inv'
  BY DEF InFlightExclusive, Claimed, DeadByError, Claims, vars, cdVars, procVars
<1>4. Inv => InFlightExclusive /\ NoInFlightLeak
  BY LeaksByError
<1> HIDE DEF Inv
<1>5. QED BY <1>1, <1>2, <1>3, <1>4, Typing, PTL DEF Spec

-----------------------------------------------------------------------------
(* Ack-after-execute with the WebSocket path.                              *)

LEMMA EffectKeepsDelivery ==
  ASSUME TypeOK, DeliveryInv, Effect
  PROVE  DeliveryInv'
<1> USE RowsAssumption
<1>1. InFlightExclusive'
  <2>1. \A r \in Rows : Claims(r)' <=> Claims(r)
    BY DEF Effect, Moves, Waiting, Executing, Claims
  <2>2. QED BY <2>1 DEF DeliveryInv, Effect, InFlightExclusive
\* A task that is started has no acked row, no reply, and no other job.
<1>2. \A t \in Tasks : Starts(t) =>
        /\ \A r \in acked : RowTask[r] # t
        /\ replies[t] = 0
        /\ \A r \in Rows : RowTask[r] = t => stage[r] \in {"idle", "sending"}
  <2> SUFFICES ASSUME NEW t \in Tasks, Starts(t)
               PROVE  /\ \A r \in acked : RowTask[r] # t
                      /\ replies[t] = 0
                      /\ \A r \in Rows : RowTask[r] = t => stage[r] \in {"idle", "sending"}
    OBVIOUS
  <2>1. PICK q \in Rows : RowTask[q] = t /\ stage[q] = "sending"
    BY DEF Starts
  <2>2. stage[q] \in Executing
    BY <2>1 DEF Executing
  <2>3. \A r \in acked : RowTask[r] # t
    BY <2>1, <2>2 DEF DeliveryInv
  <2>4. replies[t] = 0
    BY <2>1, <2>2 DEF DeliveryInv
  <2>5. \A r \in Rows : RowTask[r] = t => stage[r] \in {"idle", "sending"}
    BY <2>1 DEF DeliveryInv, InFlightExclusive, Claims
  <2>6. QED BY <2>3, <2>4, <2>5
<1>3. AckedIsTerminal'
  BY <1>2 DEF DeliveryInv, AckedIsTerminal, Effect, Done, TypeOK, CDTypeOK
<1>4. AnsweredOnce'
  BY <1>2 DEF DeliveryInv, AnsweredOnce, Effect, Done, TypeOK, CDTypeOK
\* Where a job that reports or executes comes from.
<1>5. ASSUME NEW r \in Rows
      PROVE  /\ stage'[r] \in Reporting =>
                  stage[r] \in Reporting \/ (stage[r] \in Waiting /\ Done(RowTask[r]))
             /\ stage'[r] \in Executing => stage[r] \in Executing \/ ~Done(RowTask[r])
             /\ stage'[r] = "replying" => stage[r] = "replying"
  BY DEF Effect, Moves, Waiting, Executing, Reporting
<1>6. \A t \in Tasks : Done(t) /\ ~Starts(t) => Done(t)'
  BY DEF Effect, Done
<1>7. (\A r \in Rows : stage[r] \in Reporting => Done(RowTask[r]))'
  <2> SUFFICES ASSUME NEW r \in Rows, stage'[r] \in Reporting PROVE Done(RowTask[r])'
    OBVIOUS
  <2>1. Done(RowTask[r]) /\ stage[r] \notin {"idle", "sending"}
    BY <1>5 DEF DeliveryInv, Reporting, Waiting
  <2>2. ~Starts(RowTask[r])
    BY <1>2, <2>1
  <2>3. QED BY <1>6, <2>1, <2>2
<1>8. (\A r \in acked, q \in Rows :
         RowTask[r] = RowTask[q] => stage[q] \notin Executing)'
  <2> SUFFICES ASSUME NEW r \in acked, NEW q \in Rows, RowTask[r] = RowTask[q],
                      stage'[q] \in Executing
               PROVE  FALSE
    BY DEF Effect
  <2>1. Done(RowTask[q])
    BY DEF DeliveryInv, AckedIsTerminal, Done
  <2>2. stage[q] \in Executing
    BY <1>5, <2>1
  <2>3. QED BY <2>2 DEF DeliveryInv
<1>9. (\A r \in Rows : stage[r] \in Executing \cup {"replying"}
                          => replies[RowTask[r]] = 0)'
  <2> SUFFICES ASSUME NEW r \in Rows, stage'[r] \in Executing \cup {"replying"}
               PROVE  replies[RowTask[r]] = 0
    BY DEF Effect
  <2>1. CASE stage[r] \in Executing \cup {"replying"}
    BY <2>1 DEF DeliveryInv
  <2>2. CASE stage[r] \notin Executing \cup {"replying"}
    <3>1. ~Done(RowTask[r])
      BY <1>5, <2>2
    <3>2. QED BY <3>1 DEF DeliveryInv, AnsweredOnce, Done, TypeOK, CDTypeOK
  <2>3. QED BY <2>1, <2>2
<1>10. QED BY <1>1, <1>3, <1>4, <1>7, <1>8, <1>9 DEF DeliveryInv

\* The WebSocket path neither crashes the backend nor cancels a task.
LEMMA WsFaults ==
  ASSUME WsStep
  PROVE  UNCHANGED up /\ (UNCHANGED faults \/ DbRaise)
<1> USE DEF DbOk, procVars
<1>1. ASSUME NEW r \in Rows, Route(r) \/ Defer(r) \/ ForwardJob(r)
      PROVE  UNCHANGED up /\ (UNCHANGED faults \/ DbRaise)
  BY <1>1 DEF Route, Defer, ForwardJob, ForwardBegin, ForwardSend, ForwardLost, ForwardResume
<1>2. ASSUME NEW k \in Sockets, Handler(k) \/ LinkDown(k) \/ Connect(k)
      PROVE  UNCHANGED up /\ (UNCHANGED faults \/ DbRaise)
  BY <1>2 DEF Handler, Register, RegisterAck, RegisterFails, HandlerEnds, TaskResult,
     LinkDown, Connect, backVars, cdVars
<1>3. ASSUME NEW s \in Servers, ExecServer(s)
      PROVE  UNCHANGED up /\ (UNCHANGED faults \/ DbRaise)
  BY <1>3 DEF ExecServer, ClientNotices, ServerRestart, Receive, FinishWork, backVars, cdVars
<1>4. QED BY <1>1, <1>2, <1>3 DEF WsStep

LEMMA WsNoRaise ==
  ASSUME TypeOK, WsStep, NoDbError'
  PROVE  NoDbError
BY WsFaults, NoRaise DEF TypeOK

LEMMA StepNoRaise ==
  ASSUME TypeOK, [Next]_vars, NoDbError' PROVE NoDbError
<1>1. UNCHANGED vars => NoDbError
  BY DEF NoDbError, vars, cdVars
<1>2. QED BY <1>1, CDNoRaise, WsNoRaise, NextSplits DEF TypeOK

LEMMA StepDelivery ==
  ASSUME NoDbError', TypeOK, DeliveryInv, [Next]_vars
  PROVE  DeliveryInv'
<1>1. CASE LocalNext
  BY <1>1, CDStepDelivery DEF TypeOK
<1>2. CASE WsStep
  BY <1>2, WsStepEffect, EffectKeepsDelivery
<1>3. CASE UNCHANGED vars
  BY <1>3, DeliveryStutters DEF vars
<1>4. QED BY <1>1, <1>2, <1>3, NextSplits

LEMMA DeliveryInvariant == Spec => [](NoDbError => DeliveryInv)
<1>1. Init => DeliveryInv
  BY CDInitDelivery DEF Init
<1>2. TypeOK /\ (NoDbError => DeliveryInv) /\ [Next]_vars => (NoDbError => DeliveryInv)'
  BY StepNoRaise, StepDelivery
<1>3. QED BY <1>1, <1>2, Typing, PTL DEF Spec

\* Ack-after-execute, whatever becomes of connections, exec-servers and the
\* backend, until the first repository call raises: acked rows have finished
\* tasks, and no task is answered twice.
THEOREM AckAfterExecute == Spec => []SafeUntilError
<1>1. (NoDbError => DeliveryInv) => SafeUntilError
  BY DEF DeliveryInv, NoDbError, SafeUntilError
<1>2. QED BY <1>1, DeliveryInvariant, PTL

\* Acked work is finished work: as long as no repository call raises, no step,
\* not the start of a forward that was parked before, takes the task of an acked
\* row back to running.
THEOREM AckedStays == Spec /\ [](faults.dbErrors = 0) => AckedStaysDone
<1>1. ASSUME TypeOK, DeliveryInv, DeliveryInv', [Next]_vars
      PROVE  [\A r \in acked : Done(RowTask[r]) => Done(RowTask[r])']_cdVars
  <2>1. acked \subseteq acked'
    <3>1. CASE LocalNext
      BY <3>1, CDAckedGrows
    <3>2. CASE WsStep
      BY <1>1, <3>2, WsStepEffect DEF Effect
    <3>3. CASE UNCHANGED vars
      BY <3>3 DEF vars, cdVars, dbVars
    <3>4. QED BY <1>1, <3>1, <3>2, <3>3, NextSplits
  <2>2. QED BY <1>1, <2>1 DEF DeliveryInv, AckedIsTerminal, Done
<1>2. faults.dbErrors = 0 => NoDbError
  BY DEF NoDbError
<1>3. QED BY <1>1, <1>2, DeliveryInvariant, Typing, PTL DEF Spec, AckedStaysDone

LEMMA EffectKeepsAnswers ==
  ASSUME TypeOK, DeliveryInv, AnswerInv, WsStep, NoDbError'
  PROVE  AnswerInv'
<1>1. Effect /\ UNCHANGED <<up, faults>>
  BY WsStepEffect, WsFaults, NoRaise DEF TypeOK
<1>2. SUFFICES ASSUME Undisturbed PROVE AnswerInv'
  BY <1>1 DEF AnswerInv, Undisturbed
<1>3. ASSUME NEW t \in Tasks, Done(t)'
      PROVE  replies'[t] = 1 \/ \E r \in Rows : RowTask[r] = t /\ stage'[r] = "replying"
  <2>1. Done(t)
    BY <1>1, <1>3 DEF Effect, Starts, Done, Terminal
  <2>2. replies[t] = 1 \/ \E r \in Rows : RowTask[r] = t /\ stage[r] = "replying"
    BY <1>2, <2>1 DEF AnswerInv
  <2>3. QED BY <1>1, <2>2 DEF Effect, Moves, Waiting, Executing
<1>4. ASSUME NEW r \in Rows, stage'[r] = "acking"
      PROVE  replies'[RowTask[r]] = 1
  <2>1. CASE stage[r] = "acking"
    BY <1>1, <1>2, <2>1 DEF Effect, AnswerInv
  \* It found the task finished, and no other job is there to answer it.
  <2>2. CASE stage[r] \in Waiting /\ Done(RowTask[r])
    <3>1. \A q \in Rows : RowTask[q] = RowTask[r] => stage[q] # "replying"
      BY <2>2 DEF DeliveryInv, InFlightExclusive, Claims, Waiting
    <3>2. RowTask[r] \in Tasks
      BY RowsAssumption
    <3>3. QED BY <1>1, <1>2, <2>2, <3>1, <3>2 DEF AnswerInv, Effect
  <2>3. stage[r] = "acking" \/ (stage[r] \in Waiting /\ Done(RowTask[r]))
    BY <1>1, <1>4 DEF Effect, Moves, Waiting, Executing
  <2>4. QED BY <2>1, <2>2, <2>3
<1>5. QED
  BY <1>1, <1>2, <1>3, <1>4 DEF AnswerInv, Effect

\* With exec-servers too, whatever becomes of the connections: every acked row's
\* task was answered, until the first crash, cancel or repository call that raises.
THEOREM Answered == Spec => [](faults.dbErrors = 0 => AckedIsAnswered)
<1>1. Init => AnswerInv
  BY RowsAssumption DEF Init, CDInit, AnswerInv, Done, Terminal
<1>2. TypeOK /\ (NoDbError => DeliveryInv) /\ (NoDbError => AnswerInv) /\ [Next]_vars
        => (NoDbError => AnswerInv)'
  <2>1. UNCHANGED vars /\ AnswerInv => AnswerInv'
    BY DEF AnswerInv, Undisturbed, Done, vars, cdVars, dbVars, procVars
  <2>2. QED
    BY <2>1, StepNoRaise, NextSplits, CDStepAnswer, EffectKeepsAnswers DEF TypeOK
<1>3. (NoDbError => AnswerInv) => (faults.dbErrors = 0 => AckedIsAnswered)
  BY DEF AnswerInv, AckedIsAnswered, Undisturbed, NoDbError
<1>4. QED BY <1>1, <1>2, <1>3, DeliveryInvariant, Typing, PTL DEF Spec

LEMMA StepRefines ==
  ASSUME NoDbError', TypeOK, DeliveryInv, [Next]_vars
  PROVE  [Delivery!ADNext]_(Delivery!adVars)
<1>1. CASE LocalNext
  BY <1>1, CDStepRefines DEF TypeOK
<1>2. CASE WsStep
  <2>1. Effect
    BY <1>2, WsStepEffect
  <2>2. FinishedTasks \subseteq FinishedTasks'
    <3> SUFFICES ASSUME NEW t \in Tasks, Done(t),
                        \A r \in Rows : RowTask[r] = t => stage[r] \notin Executing
                 PROVE  /\ Done(t)'
                        /\ \A r \in Rows : RowTask[r] = t => stage'[r] \notin Executing
      BY DEF FinishedTasks, Done
    <3>1. taskState'[t] = taskState[t]
      BY <2>1 DEF Effect, Starts, Executing
    <3>2. \A r \in Rows : RowTask[r] = t => stage'[r] \notin Executing
      BY <2>1 DEF Effect, Moves, Waiting, Executing
    <3>3. QED BY <3>1, <3>2 DEF Done
  <2>3. FinishedTasks' \in SUBSET Tasks
    BY DEF FinishedTasks
  <2>4. Delivery!Finish(FinishedTasks')
    BY <2>1, <2>2 DEF Effect, Delivery!Finish
  <2>5. QED BY <2>3, <2>4 DEF Delivery!ADNext
<1>3. CASE UNCHANGED vars
  BY <1>3 DEF vars, cdVars, dbVars, procVars, Delivery!adVars, FinishedTasks, Done
<1>4. QED BY <1>1, <1>2, <1>3, NextSplits

\* Whatever becomes of connections, exec-servers and the backend, every step until
\* the first repository call raises is one of ack-after-execute delivery.
THEOREM DeliversUntilError == Spec => DeliveryUntilError
<1>1. Init => Delivery!ADInit
  BY CDInitRefines DEF Init
<1>2. ASSUME TypeOK, NoDbError => DeliveryInv, [Next]_vars
      PROVE  [faults'.dbErrors = 0 => Delivery!ADNext \/ UNCHANGED Delivery!adVars]_cdVars
  <2> SUFFICES ASSUME NoDbError'
               PROVE  Delivery!ADNext \/ UNCHANGED Delivery!adVars
    BY DEF NoDbError
  <2>1. NoDbError
    BY <1>2, StepNoRaise
  <2>2. QED BY <1>2, <2>1, StepRefines
<1>3. QED BY <1>1, <1>2, DeliveryInvariant, Typing, PTL DEF Spec, DeliveryUntilError

\* The dispatcher with its exec-servers implements ack-after-execute delivery,
\* as long as no repository call raises.
THEOREM Implements == Spec /\ [](faults.dbErrors = 0) => ImplementsDelivery
<1>1. Init => Delivery!ADInit
  BY CDInitRefines DEF Init
<1>2. faults.dbErrors = 0 => NoDbError
  BY DEF NoDbError
<1>3. QED
  BY <1>1, <1>2, DeliveryInvariant, StepRefines, Typing, PTL
     DEF Spec, ImplementsDelivery, Delivery!ADSpec

-----------------------------------------------------------------------------
(* Reply correlation.  The maps change hands only through the coroutine of *)
(* the task's one job, or while no coroutine has control of the loop.      *)

Futures == {"sending", "awaiting", "lost"}
Watched == {"sending", "awaiting"}

LEMMA DispatcherMoves ==
  ASSUME TypeOK, InFlightExclusive, DispatcherStep
  PROVE  \A r \in Rows : \/ stage'[r] = stage[r]
                         \/ stage[r] \notin Futures /\ stage'[r] \notin Futures
<1> USE DEF SetStage, Futures
<1>1. stage \in [Rows -> Stages]
  BY DEF TypeOK, CDTypeOK
<1>2. ASSUME NEW r \in Rows, WriteRow(r) \/ LocalJob(r) \/ ReportJob(r)
      PROVE  \/ UNCHANGED stage
             \/ stage[r] \notin Futures
                  /\ \E s \in Stages \ Futures : stage' = [stage EXCEPT ![r] = s]
  <2>1. CASE WriteRow(r)
    BY <2>1 DEF WriteRow, procVars
  <2>2. CASE LocalJob(r)
    BY <2>2 DEF LocalJob, BeginLocal, StartLocal, FinishLocal, Stages, Executing, Reporting
  <2>3. CASE ReportJob(r)
    BY <2>3 DEF ReportJob, MarkTask, Reply, Ack, Release, Stages, Executing, Reporting
  <2>4. QED BY <1>2, <2>1, <2>2, <2>3
<1>3. ASSUME Poll \/ (\E r \in Rows : Skip(r)) \/ (\E t \in Tasks : Cancel(t)) \/ Restart
      PROVE  UNCHANGED stage
  BY <1>3 DEF Poll, Skip, Cancel, Restart, dbVars, procVars
<1>4. ASSUME NEW r \in Rows, Submit(r)
      PROVE  /\ stage[r] \notin Futures
             /\ \E s \in Stages \ Futures : stage' = [stage EXCEPT ![r] = s]
  <2>1. stage[r] = "idle"
    BY <1>4 DEF Submit, InFlight, InFlightExclusive, Claims
  <2>2. stage' = [stage EXCEPT ![r] = "queued"]
    BY <1>4 DEF Submit
  <2>3. QED BY <2>1, <2>2 DEF Stages
<1>5. \/ UNCHANGED stage
      \/ \E r \in Rows : /\ stage[r] \notin Futures
                         /\ \E s \in Stages \ Futures : stage' = [stage EXCEPT ![r] = s]
  BY <1>2, <1>3, <1>4 DEF DispatcherStep, Consumer
<1>6. CASE UNCHANGED stage
  BY <1>6
<1>7. ASSUME NEW r \in Rows, stage[r] \notin Futures,
             NEW s \in Stages \ Futures, stage' = [stage EXCEPT ![r] = s]
      PROVE  \A q \in Rows : \/ stage'[q] = stage[q]
                             \/ stage[q] \notin Futures /\ stage'[q] \notin Futures
  <2> HIDE DEF Futures
  <2>1. QED BY <1>1, <1>7
<1>8. QED BY <1>5, <1>6, <1>7

LEMMA StepFutureOwned ==
  ASSUME TypeOK, RemoteIsRemote, InFlightExclusive, FutureOwned, Next
  PROVE  FutureOwned'
<1> USE RowsAssumption
        DEF TypeOK, CDTypeOK, FutureOwned, SetStage, dbVars, procVars, cdVars, backVars,
            exVars, netVars
\* Two jobs in these stages have two tasks.
<1>0. \A r, q \in Rows :
        stage[r] # "idle" /\ stage[q] # "idle" /\ RowTask[r] = RowTask[q] => r = q
  BY DEF InFlightExclusive, Claims
\* A step that leaves the maps alone and neither enters nor leaves the stages.
<1>a. ASSUME UNCHANGED <<pending, taskServer>>,
             \A r \in Rows : \/ stage'[r] = stage[r]
                             \/ stage[r] \notin Futures /\ stage'[r] \notin Futures
      PROVE  FutureOwned'
  <2>1. ASSUME NEW t \in Tasks, pending'[t] # 0
        PROVE  RowTask[pending'[t]] = t /\ stage'[pending'[t]] \in Futures
    <3>1. /\ pending'[t] = pending[t] /\ pending[t] \in Rows
          /\ RowTask[pending[t]] = t /\ stage[pending[t]] \in Futures
      BY <1>a, <2>1 DEF Futures
    <3>2. QED BY <1>a, <3>1
  <2>2. ASSUME NEW r \in Rows, stage'[r] \in Watched
        PROVE  pending'[RowTask[r]] = r /\ taskServer'[RowTask[r]] = RowServer[r]
    <3>1. stage[r] \in Watched
      BY <1>a, <2>2 DEF Futures, Watched
    <3>2. QED BY <1>a, <3>1 DEF Watched
  <2>3. QED BY <2>1, <2>2 DEF Futures, Watched
<1>1. CASE DispatcherStep /\ UNCHANGED wsVars
  <2>1. UNCHANGED <<pending, taskServer>>
    BY <1>1 DEF wsVars
  <2>2. \A r \in Rows : \/ stage'[r] = stage[r]
                        \/ stage[r] \notin Futures /\ stage'[r] \notin Futures
    BY <1>1, DispatcherMoves
  <2>3. QED BY <1>a, <2>1, <2>2
<1>2. CASE BackendCrash
  BY <1>2 DEF BackendCrash, Crash
<1>3. ASSUME NEW r \in Rows, Route(r) \/ Defer(r) PROVE FutureOwned'
  <2>1. /\ UNCHANGED <<pending, taskServer>>
        /\ \E s \in {"scheduled", "routing", "parked"} : stage' = [stage EXCEPT ![r] = s]
        /\ stage[r] \in {"queued", "routing"}
    BY <1>3 DEF Route, Defer, wsVars
  <2>2. QED BY <1>a, <2>1 DEF Futures
\* The coroutine of r gives up its entries: no other job has the task.
<1>b. ASSUME NEW r \in Rows, stage[r] # "idle", Forget(r),
             NEW s \in {"parked", "succeeded", "errored"},
             stage' = [stage EXCEPT ![r] = s]
      PROVE  FutureOwned'
  <2> DEFINE t == RowTask[r]
  <2>1. /\ pending' = [pending EXCEPT ![t] = 0]
        /\ taskServer' = [taskServer EXCEPT ![t] = None]
    BY <1>b DEF Forget
  <2>2. \A q \in Rows : stage[q] \in Watched /\ RowTask[q] = t => q = r
    BY <1>0, <1>b DEF Watched
  <2>3. ASSUME NEW u \in Tasks, pending'[u] # 0
        PROVE  RowTask[pending'[u]] = u /\ stage'[pending'[u]] \in Futures
    <3>1. u # t /\ pending'[u] = pending[u]
      BY <2>1, <2>3
    <3>2. pending[u] \in Rows /\ pending[u] # r
      BY <2>3, <3>1
    <3>3. QED BY <1>b, <3>1, <3>2, <2>3 DEF Futures
  <2>4. ASSUME NEW q \in Rows, stage'[q] \in Watched
        PROVE  pending'[RowTask[q]] = q /\ taskServer'[RowTask[q]] = RowServer[q]
    <3>1. q # r /\ stage[q] \in Watched
      BY <1>b, <2>4 DEF Watched
    <3>2. RowTask[q] # t /\ RowTask[q] \in Tasks
      BY <2>2, <3>1
    <3>3. QED BY <2>1, <3>1, <3>2 DEF Watched
  <2>5. QED BY <2>3, <2>4 DEF Futures, Watched
<1>4. ASSUME NEW r \in Rows, ForwardBegin(r) PROVE FutureOwned'
  <2> DEFINE t == RowTask[r]
  <2>1. /\ stage[r] = "scheduled"
        /\ \/ /\ UNCHANGED <<pending, taskServer>>
              /\ \E s \in {"acking", "dead"} : stage' = [stage EXCEPT ![r] = s]
           \/ /\ stage' = [stage EXCEPT ![r] = "sending"]
              /\ pending' = [pending EXCEPT ![t] = r]
              /\ taskServer' = [taskServer EXCEPT ![t] = RowServer[r]]
           \/ stage' = [stage EXCEPT ![r] = "parked"] /\ Forget(r)
    BY <1>4 DEF ForwardBegin
  <2>2. CASE /\ UNCHANGED <<pending, taskServer>>
             /\ \E s \in {"acking", "dead"} : stage' = [stage EXCEPT ![r] = s]
    BY <1>a, <2>1, <2>2 DEF Futures
  <2>3. CASE /\ stage' = [stage EXCEPT ![r] = "sending"]
             /\ pending' = [pending EXCEPT ![t] = r]
             /\ taskServer' = [taskServer EXCEPT ![t] = RowServer[r]]
    <3>1. \A q \in Rows : stage[q] # "idle" /\ RowTask[q] = t => q = r
      BY <1>0, <2>1
    <3>2. ASSUME NEW u \in Tasks, pending'[u] # 0
          PROVE  RowTask[pending'[u]] = u /\ stage'[pending'[u]] \in Futures
      <4>1. CASE u = t
        BY <2>3, <4>1 DEF Futures
      <4>2. CASE u # t
        BY <2>1, <2>3, <3>2, <4>2 DEF Futures
      <4>3. QED BY <4>1, <4>2
    <3>3. ASSUME NEW q \in Rows, stage'[q] \in Watched
          PROVE  pending'[RowTask[q]] = q /\ taskServer'[RowTask[q]] = RowServer[q]
      <4>1. CASE q = r
        BY <2>3, <4>1
      <4>2. CASE q # r
        <5>1. stage[q] \in Watched /\ RowTask[q] # t /\ RowTask[q] \in Tasks
          BY <2>3, <3>1, <3>3, <4>2 DEF Watched
        <5>2. QED BY <2>3, <5>1 DEF Watched
      <4>3. QED BY <4>1, <4>2
    <3>4. QED BY <3>2, <3>3 DEF Futures, Watched
  <2>4. CASE stage' = [stage EXCEPT ![r] = "parked"] /\ Forget(r)
    BY <1>b, <2>1, <2>4
  <2>5. QED BY <2>1, <2>2, <2>3, <2>4
<1>5. ASSUME NEW r \in Rows, ForwardSend(r) PROVE FutureOwned'
  <2>1. /\ stage[r] = "sending"
        /\ \/ /\ UNCHANGED <<pending, taskServer>>
              /\ stage' = [stage EXCEPT ![r] = "awaiting"]
           \/ stage' = [stage EXCEPT ![r] = "parked"] /\ Forget(r)
    BY <1>5 DEF ForwardSend
  <2>2. CASE /\ UNCHANGED <<pending, taskServer>>
             /\ stage' = [stage EXCEPT ![r] = "awaiting"]
    BY <2>1, <2>2
  <2>3. CASE stage' = [stage EXCEPT ![r] = "parked"] /\ Forget(r)
    BY <1>b, <2>1, <2>3
  <2>4. QED BY <2>1, <2>2, <2>3
<1>6. ASSUME NEW r \in Rows, ForwardLost(r) \/ ForwardResume(r) PROVE FutureOwned'
  <2>1. /\ stage[r] \in {"lost", "resolved"} /\ Forget(r)
        /\ \E s \in {"parked", "succeeded", "errored"} : stage' = [stage EXCEPT ![r] = s]
    BY <1>6 DEF ForwardLost, ForwardResume
  <2>2. PICK s \in {"parked", "succeeded", "errored"} : stage' = [stage EXCEPT ![r] = s]
    BY <2>1
  <2>3. QED BY <1>b, <2>1, <2>2
<1>7. ASSUME NEW k \in Sockets, Handler(k) PROVE FutureOwned'
  <2>1. CASE Register(k) \/ RegisterFails(k)
    BY <1>a, <2>1 DEF Register, RegisterFails
  <2>2. CASE RegisterAck(k)
    BY <1>a, <2>2 DEF RegisterAck, Parked, Futures
  <2>3. CASE HandlerEnds(k)
    BY <2>3 DEF HandlerEnds
  <2>4. ASSUME NEW t \in Tasks, TaskResult(k, t) PROVE FutureOwned'
    <3> DEFINE r == pending[t]
    <3>1. /\ LoopFree
          /\ taskServer' = [taskServer EXCEPT ![t] = None]
      BY <2>4 DEF TaskResult
    \* Nobody waits for t any more: its forward is resolved or lost already.
    <3>2. \A q \in Rows : stage[q] \in Watched => stage[q] = "awaiting"
      BY <3>1 DEF LoopFree, LoopStages, RemoteIsRemote, RemoteStages, Watched
    <3>3. \A q \in Rows : stage[q] \in Watched /\ RowTask[q] = t => q = r
      BY DEF Watched
    <3>4. CASE Awaits(r)
      <4>1. /\ r \in Rows /\ stage[r] = "awaiting"
            /\ stage' = [stage EXCEPT ![r] = "resolved"]
            /\ pending' = [pending EXCEPT ![t] = 0]
        BY <2>4, <3>4 DEF TaskResult, Awaits
      <4>2. ASSUME NEW u \in Tasks, pending'[u] # 0
            PROVE  RowTask[pending'[u]] = u /\ stage'[pending'[u]] \in Futures
        BY <4>1, <4>2 DEF Futures
      <4>3. ASSUME NEW q \in Rows, stage'[q] \in Watched
            PROVE  pending'[RowTask[q]] = q /\ taskServer'[RowTask[q]] = RowServer[q]
        <5>1. stage[q] \in Watched /\ q # r
          BY <4>1, <4>3 DEF Watched
        <5>2. RowTask[q] # t /\ RowTask[q] \in Tasks
          BY <3>3, <5>1
        <5>3. QED BY <3>1, <4>1, <5>1, <5>2 DEF Watched
      <4>4. QED BY <4>2, <4>3 DEF Futures, Watched
    <3>5. CASE ~Awaits(r)
      <4>1. UNCHANGED <<stage, pending>>
        BY <2>4, <3>5 DEF TaskResult
      <4>2. \A q \in Rows : stage[q] \in Watched => RowTask[q] # t
        BY <3>2, <3>3, <3>5, RowsAssumption DEF Awaits, SocketsAssumption
      <4>3. QED BY <3>1, <4>1, <4>2 DEF Watched
    <3>6. QED BY <3>4, <3>5
  <2>5. QED BY <1>7, <2>1, <2>2, <2>3, <2>4 DEF Handler
<1>8. ASSUME NEW k \in Sockets, LinkDown(k) \/ Connect(k) PROVE FutureOwned'
  BY <1>a, <1>8 DEF LinkDown, Connect
<1>9. ASSUME NEW s \in Servers, ExecServer(s) PROVE FutureOwned'
  BY <1>a, <1>9 DEF ExecServer, ClientNotices, ServerRestart, Receive, FinishWork
<1>10. QED
  BY <1>1, <1>2, <1>3, <1>4, <1>5, <1>6, <1>7, <1>8, <1>9 DEF Next, ForwardJob

\* The future of a task belongs to the one coroutine that awaits it, for any
\* number of forwards, takeovers, late and duplicate results.
THEOREM Correlation == Spec => []FutureOwned
<1>1. Init => FutureOwned
  BY DEF Init, CDInit, FutureOwned
<1>2. FutureOwned /\ UNCHANGED vars => FutureOwned'
  BY DEF FutureOwned, vars, cdVars, procVars, wsVars, backVars
<1>3. QED BY <1>1, <1>2, StepFutureOwned, Typing, Guard, PTL DEF Spec

-----------------------------------------------------------------------------
(* The registry.  From the moment it takes the slot, a connection that is  *)
(* open has it: who takes it over closes the one that had it.              *)

OpenOwnsSlot ==
  \A k \in Sockets :
    phase[k] \in {"acking", "serving"} /\ k \in open => connections[SocketServer[k]] = k

LEMMA StepOwnsSlot ==
  ASSUME TypeOK, OpenOwnsSlot, [Next]_vars
  PROVE  OpenOwnsSlot'
<1> USE SocketsAssumption
        DEF TypeOK, OpenOwnsSlot, cdVars, backVars, netVars, exVars, wsVars
<1>1. ASSUME NEW r \in Rows, Route(r) \/ Defer(r) \/ ForwardJob(r)
      PROVE  UNCHANGED <<phase, open, connections>>
  BY <1>1 DEF Route, Defer, ForwardJob, ForwardBegin, ForwardSend, ForwardLost,
              ForwardResume
<1>2. ASSUME NEW k \in Sockets, Handler(k) PROVE OpenOwnsSlot'
  <2>1. CASE Register(k)
    <3> DEFINE s == SocketServer[k]
    <3>1. /\ phase' = [phase EXCEPT ![k] = "acking"]
          /\ connections' = [connections EXCEPT ![s] = k]
          /\ open' = open \ {connections[s]}
      BY <2>1 DEF Register
    <3>2. QED BY <3>1
  <2>2. CASE RegisterAck(k)
    BY <2>2 DEF RegisterAck
  <2>3. CASE RegisterFails(k)
    BY <2>3 DEF RegisterFails
  <2>4. CASE HandlerEnds(k)
    <3>1. /\ phase' = [phase EXCEPT ![k] = "ended"]
          /\ k \notin open /\ UNCHANGED open
          /\ connections' = [connections EXCEPT ![SocketServer[k]] =
                               IF OwnsSlot(k) THEN 0 ELSE @]
          /\ OwnsSlot(k) => connections[SocketServer[k]] = k
      BY <2>4 DEF HandlerEnds, OwnsSlot
    <3>2. QED BY <3>1
  <2>5. ASSUME NEW t \in Tasks, TaskResult(k, t) PROVE OpenOwnsSlot'
    BY <2>5 DEF TaskResult
  <2>6. QED BY <1>2, <2>1, <2>2, <2>3, <2>4, <2>5 DEF Handler
<1>3. ASSUME NEW k \in Sockets, LinkDown(k) \/ Connect(k) PROVE OpenOwnsSlot'
  BY <1>3 DEF LinkDown, Connect
<1>4. ASSUME NEW s \in Servers, ExecServer(s) PROVE OpenOwnsSlot'
  BY <1>4 DEF ExecServer, ClientNotices, ServerRestart, Receive, FinishWork
<1>5. CASE BackendCrash
  BY <1>5 DEF BackendCrash
<1>6. QED BY <1>1, <1>2, <1>3, <1>4, <1>5 DEF Next, vars

\* Whatever takes over or breaks, an exec-server whose connection lives and is
\* being served is the one the registry leads to.
THEOREM Reachable == Spec => []ServedIsReachable
<1>1. Init => OpenOwnsSlot
  BY DEF Init, OpenOwnsSlot
<1>2. OpenOwnsSlot => ServedIsReachable
  BY DEF OpenOwnsSlot, ServedIsReachable
<1>3. QED BY <1>1, <1>2, StepOwnsSlot, Typing, PTL DEF Spec
=============================================================================
