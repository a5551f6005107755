--------------------------- MODULE ServerRegistry ---------------------------
(***************************************************************************)
(* The registry of exec-servers: what the execution_servers table says, the *)
(* page and the API show it, of who is connected.  It is written by the     *)
(* connection handlers and the sweeper of core/ws_server.py through         *)
(* ExecutionServerRepository, from the heartbeats of WSClient.  What the    *)
(* connections are used for is in WSDispatcher.                             *)
(*                                                                          *)
(* All writers run on one asyncio loop and a repository call blocks it, so  *)
(* that a handler is one step from one await to the next.                   *)
(***************************************************************************)
EXTENDS Naturals, FiniteSets

CONSTANTS
  Servers,
  Sockets,       \* bound: the connections ever made, numbered in that order
  SocketServer,  \* the exec-server that makes each of them
  Threshold,     \* intervals after which a heartbeat is stale
  MaxFaults      \* bound: failing writes and crashes of the ws process

ASSUME RegistryAssumption ==
  /\ Sockets \subseteq Nat \ {0}
  /\ SocketServer \in [Sockets -> Servers]
  /\ Threshold \in Nat \ {0} /\ MaxFaults \in Nat

VARIABLES
  row,          \* the table: connected, status, age of last_heartbeat
  connections,  \* WSDispatcher.connections: socket by server, 0 for none
  phase,        \* of the handler of each socket
  kicked,       \* sockets that another one replaced: their close is scheduled
  alive,        \* sockets whose exec-server is at the other end
  beats,        \* sockets with a status frame on the way
  idle,         \* intervals since a frame of the socket was handled
  up,           \* the ws process runs
  faults

vars == <<row, connections, phase, kicked, alive, beats, idle, up, faults>>

Taken(k) == phase[k] \in {"acking", "serving"}

Offline(s) == [row EXCEPT ![s].connected = FALSE, ![s].status = "offline"]
Online(s)  == [row EXCEPT ![s] = [connected |-> TRUE, status |-> "idle", age |-> 0]]
Heard(k)   == idle' = [idle EXCEPT ![k] = 0]

DbOk    == UNCHANGED faults
DbRaise == faults < MaxFaults /\ faults' = faults + 1

Init ==
  /\ row = [s \in Servers |-> [connected |-> FALSE, status |-> "offline", age |-> Threshold + 1]]
  /\ connections = [s \in Servers |-> 0]
  /\ phase = [k \in Sockets |-> "unused"]
  /\ kicked = {} /\ alive = {} /\ beats = {}
  /\ idle = [k \in Sockets |-> 0]
  /\ up = TRUE
  /\ faults = 0

-----------------------------------------------------------------------------
(* The exec-server: WSClient.                                               *)

\* A connection is only made after the one before it was lost, as far as the
\* client knows; the register frame is the first on it.
Connect(k) ==
  /\ up /\ phase[k] = "unused"
  /\ \A j \in Sockets : SocketServer[j] = SocketServer[k] =>
       j \notin alive /\ (j < k => phase[j] # "unused")
  /\ phase' = [phase EXCEPT ![k] = "connecting"]
  /\ alive' = alive \cup {k}
  /\ UNCHANGED <<row, connections, kicked, beats, idle, up, faults>>

\* _heartbeat: a status frame every interval.
Beat(k) ==
  /\ k \in alive \ beats
  /\ beats' = beats \cup {k}
  /\ UNCHANGED <<row, connections, phase, kicked, alive, idle, up, faults>>

\* The exec-server dies or its end of the connection breaks; what it sent
\* may still arrive.
Lose(k) ==
  /\ k \in alive
  /\ alive' = alive \ {k}
  /\ UNCHANGED <<row, connections, phase, kicked, beats, idle, up, faults>>

-----------------------------------------------------------------------------
(* The connection handler.                                                  *)

\* _on_register up to the ack.  If upsert raises the handler ends without a
\* server_id, so that nothing gives the slot back.
Register(k) ==
  LET s == SocketServer[k] IN
  /\ up /\ phase[k] = "connecting"
  /\ kicked' = kicked \cup ({connections[s]} \ {0, k})
  /\ connections' = [connections EXCEPT ![s] = k]
  /\ \/ DbOk /\ row' = Online(s) /\ phase' = [phase EXCEPT ![k] = "acking"]
     \/ DbRaise /\ phase' = [phase EXCEPT ![k] = "ended"] /\ UNCHANGED row
  /\ Heard(k)
  /\ UNCHANGED <<alive, beats, up>>

\* The ack is sent, or the connection is closed: then, too, the handler ends
\* without a server_id.
Ack(k) ==
  /\ up /\ phase[k] = "acking"
  /\ \/ phase' = [phase EXCEPT ![k] = "serving"]
     \/ k \notin alive \ kicked /\ phase' = [phase EXCEPT ![k] = "ended"]
  /\ UNCHANGED <<row, connections, kicked, alive, beats, idle, up, faults>>

\* Mutant: whoever disconnects clears the slot.
Anyone(k) == k \in Sockets
\* self.connections.get(server_id) is websocket
OwnsSlot(k) == connections[SocketServer[k]] = k

\* _on_disconnect.  mark_offline comes last, and
\* the slot stays free if it raises.
Disconnect(k) ==
  LET s == SocketServer[k] IN
  /\ phase' = [phase EXCEPT ![k] = "ended"]
  /\ alive' = alive \ {k}
  /\ beats' = beats \ {k}
  /\ connections' = IF OwnsSlot(k) THEN [connections EXCEPT ![s] = 0] ELSE connections
  /\ row' \in IF OwnsSlot(k) THEN {Offline(s), row} ELSE {row}
  /\ UNCHANGED <<kicked, idle, up>>

\* A status frame; if update_status raises the handler ends.
Status(k) ==
  /\ up /\ phase[k] = "serving" /\ k \in beats
  /\ \/ /\ DbOk
        /\ row' = Online(SocketServer[k])
        /\ beats' = beats \ {k}
        /\ Heard(k)
        /\ UNCHANGED <<connections, phase, kicked, alive, up>>
     \/ DbRaise /\ Disconnect(k)

\* The handler notices that the connection is closed.
Close(k) ==
  /\ up /\ phase[k] = "serving" /\ k \notin alive \ kicked
  /\ Disconnect(k)
  /\ IF OwnsSlot(k) /\ row' = row THEN DbRaise ELSE DbOk

\* A connection that breaks before the register frame is read, or whose
\* handler ended: the library closes it.
Drop(k) ==
  /\ \/ up /\ phase[k] = "connecting" /\ k \notin alive
     \/ phase[k] = "ended" /\ k \in alive
  /\ phase' = [phase EXCEPT ![k] = "ended"]
  /\ alive' = alive \ {k}
  /\ beats' = beats \ {k}
  /\ UNCHANGED <<row, connections, kicked, idle, up, faults>>

-----------------------------------------------------------------------------
(* Time, the sweeper, crash and boot of the ws process.                     *)

Older(n) == IF n > Threshold THEN n ELSE n + 1

Tick ==
  /\ row' = [s \in Servers |-> [row[s] EXCEPT !.age = Older(@)]]
  /\ idle' = [k \in Sockets |-> IF Taken(k) THEN Older(idle[k]) ELSE 0]
  /\ <<row, idle>>' # <<row, idle>>
  /\ UNCHANGED <<connections, phase, kicked, alive, beats, up, faults>>

\* Mutant: only servers that have a connection are looked at.
StaleSlot(s) == row[s].connected /\ row[s].age > Threshold /\ connections[s] # 0
\* connected and last_heartbeat < stale_before
Stale(s) == row[s].connected /\ row[s].age > Threshold

\* Mutant: the status column is left as it is.
OnlyFlag(s) == [row[s] EXCEPT !.connected = FALSE]
Swept(s) == [row[s] EXCEPT !.connected = FALSE, !.status = "offline"]

\* mark_stale_offline; an exception is logged and the next interval tries again.
Sweep ==
  /\ up
  /\ \E s \in Servers : Stale(s)
  /\ row' = [s \in Servers |-> IF Stale(s) THEN Swept(s) ELSE row[s]]
  /\ UNCHANGED <<connections, phase, kicked, alive, beats, idle, up, faults>>

Crash ==
  /\ up /\ DbRaise
  /\ up' = FALSE
  /\ connections' = [s \in Servers |-> 0]
  /\ phase' = [k \in Sockets |-> IF phase[k] = "unused" THEN "unused" ELSE "ended"]
  /\ alive' = {} /\ beats' = {} /\ kicked' = {}
  /\ UNCHANGED <<row, idle>>

\* start_ws_server: mark_all_offline.
Boot ==
  /\ ~up
  /\ up' = TRUE
  /\ row' = [s \in Servers |-> Swept(s)]
  /\ UNCHANGED <<connections, phase, kicked, alive, beats, idle, faults>>

-----------------------------------------------------------------------------
Handle(k) == Register(k) \/ Ack(k) \/ Status(k) \/ Close(k) \/ Drop(k)

Next ==
  \/ \E k \in Sockets : Connect(k) \/ Beat(k) \/ Lose(k) \/ Handle(k)
  \/ Tick \/ Sweep \/ Crash \/ Boot

Spec == Init /\ [][Next]_vars

\* Time passes, the sweeper runs every interval, the loop gets to every
\* handler, and the ws process is started again.
FairSpec ==
  /\ Spec
  /\ WF_vars(Tick) /\ WF_vars(Sweep) /\ WF_vars(Boot)
  /\ \A k \in Sockets : WF_vars(Handle(k))

-----------------------------------------------------------------------------
(* Properties.                                                              *)

\* Every variable stays in its range, and the two columns that say whether a
\* server is there agree.
TypeOK ==
  /\ row \in [Servers -> [connected : BOOLEAN, status : {"offline", "idle"},
                         age : 0..(Threshold + 1)]]
  /\ \A s \in Servers : row[s].connected <=> row[s].status # "offline"
  /\ connections \in [Servers -> Sockets \cup {0}]
  /\ \A s \in Servers : connections[s] # 0 => SocketServer[connections[s]] = s
  /\ phase \in [Sockets -> {"unused", "connecting", "acking", "serving", "ended"}]
  /\ kicked \subseteq Sockets /\ alive \subseteq Sockets /\ beats \subseteq Sockets
  /\ idle \in [Sockets -> 0..(Threshold + 1)]
  /\ up \in BOOLEAN /\ faults \in 0..MaxFaults

\* A server whose connection is served and was heard of in time is shown as
\* connected and has the slot, whatever its earlier connections, the sweeper
\* and failing writes still do.
HeardIsOnline ==
  \A k \in Sockets : phase[k] = "serving" /\ k \notin kicked /\ idle[k] <= Threshold =>
    row[SocketServer[k]].connected /\ connections[SocketServer[k]] = k

\* A server that is gone for good is shown as offline in the end, though its
\* end was not noticed, the write that would say so failed, or the frames of
\* an older connection were handled after it.
GoneIsShownOffline ==
  <>[](\A s \in Servers : row[s].connected => \E k \in alive : SocketServer[k] = s)
=============================================================================
