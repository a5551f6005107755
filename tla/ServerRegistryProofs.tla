------------------------ MODULE ServerRegistryProofs ------------------------
(***************************************************************************)
(* Theorems about ServerRegistry, for any servers, connections, threshold   *)
(* and number of faults.                                                    *)
(***************************************************************************)
EXTENDS ServerRegistry, TLAPS

Rows   == [connected : BOOLEAN, status : {"offline", "idle"}, age : 0..(Threshold + 1)]
Ages   == 0..(Threshold + 1)
Phases == {"unused", "connecting", "acking", "serving", "ended"}

\* The two columns of a row agree.
Agrees(r) == r.connected <=> r.status # "offline"

LEMMA OlderType ==
  ASSUME NEW n \in Ages
  PROVE  Older(n) \in Ages /\ (n > Threshold => Older(n) > Threshold)
BY RegistryAssumption DEF Older, Ages

LEMMA OlderMonotone ==
  ASSUME NEW m \in Ages, NEW n \in Ages, m <= n
  PROVE  Older(m) <= Older(n)
BY RegistryAssumption DEF Older, Ages

\* The writes that take a server offline change its columns and keep its age.
LEMMA OfflineWrites ==
  ASSUME row \in [Servers -> Rows], NEW s \in Servers
  PROVE  /\ Offline(s) \in [Servers -> Rows]
         /\ Agrees(Offline(s)[s])
         /\ \A r \in Servers \ {s} : Offline(s)[r] = row[r]
         /\ Swept(s) \in Rows /\ Agrees(Swept(s)) /\ Swept(s).age = row[s].age
<1>1. row[s] \in Rows
  OBVIOUS
<1>2. Swept(s) \in Rows /\ Swept(s).connected = FALSE /\ Swept(s).status = "offline"
        /\ Swept(s).age = row[s].age
  BY <1>1 DEF Swept, Rows
<1>3. Offline(s) \in [Servers -> Rows]
  BY DEF Offline, Rows
<1>4. Offline(s)[s].connected = FALSE /\ Offline(s)[s].status = "offline"
  BY <1>1 DEF Offline, Rows
<1>5. \A r \in Servers \ {s} : Offline(s)[r] = row[r]
  BY DEF Offline, Rows
<1>6. QED BY <1>2, <1>3, <1>4, <1>5 DEF Agrees

LEMMA OnlineWrites ==
  ASSUME row \in [Servers -> Rows], NEW s \in Servers
  PROVE  /\ Online(s) \in [Servers -> Rows]
         /\ Online(s)[s].connected /\ Online(s)[s].age = 0 /\ Agrees(Online(s)[s])
         /\ \A r \in Servers \ {s} : Online(s)[r] = row[r]
BY RegistryAssumption DEF Online, Rows, Agrees

\* A clock tick changes the ages only.
LEMMA TickWrites ==
  ASSUME row \in [Servers -> Rows], Tick
  PROVE  /\ row' \in [Servers -> Rows]
         /\ \A s \in Servers : /\ row'[s].connected = row[s].connected
                               /\ row'[s].status = row[s].status
                               /\ row'[s].age = Older(row[s].age)
<1>1. row' = [s \in Servers |-> [row[s] EXCEPT !.age = Older(@)]]
  BY DEF Tick
<1>2. ASSUME NEW s \in Servers
      PROVE  /\ row'[s] \in Rows /\ row'[s].connected = row[s].connected
             /\ row'[s].status = row[s].status
             /\ row'[s].age = Older(row[s].age)
  <2>1. row[s] \in Rows /\ row[s].age \in Ages
    BY DEF Rows, Ages
  <2>2. Older(row[s].age) \in Ages
    BY <2>1, OlderType
  <2>3. row'[s] = [row[s] EXCEPT !.age = Older(row[s].age)]
    BY <1>1
  <2>4. QED BY <2>1, <2>2, <2>3 DEF Rows, Ages
<1>3. QED BY <1>1, <1>2
-----------------------------------------------------------------------------
(* Typing.                                                                  *)

RowOK ==
  /\ row \in [Servers -> Rows]
  /\ \A s \in Servers : Agrees(row[s])

SlotsOK ==
  /\ connections \in [Servers -> Sockets \cup {0}]
  /\ \A s \in Servers : connections[s] # 0 => SocketServer[connections[s]] = s

RestOK ==
  /\ phase \in [Sockets -> Phases]
  /\ kicked \subseteq Sockets /\ alive \subseteq Sockets /\ beats \subseteq Sockets
  /\ idle \in [Sockets -> Ages]
  /\ up \in BOOLEAN /\ faults \in 0..MaxFaults

LEMMA TypeParts == TypeOK <=> RowOK /\ SlotsOK /\ RestOK
BY DEF TypeOK, RowOK, SlotsOK, RestOK, Rows, Ages, Phases, Agrees

LEMMA StepRow ==
  ASSUME TypeOK, Next
  PROVE  RowOK'
<1> USE TypeParts DEF RowOK
<1>1. ASSUME NEW s \in Servers, row' \in {Online(s), Offline(s)}
      PROVE  RowOK'
  BY <1>1, OnlineWrites, OfflineWrites
<1>2. ASSUME UNCHANGED row  PROVE RowOK'
  BY <1>2
<1>3. ASSUME NEW k \in Sockets, Connect(k) \/ Beat(k) \/ Lose(k) \/ Ack(k) \/ Drop(k)
      PROVE  RowOK'
  BY <1>2, <1>3 DEF Connect, Beat, Lose, Ack, Drop
<1>4. ASSUME NEW k \in Sockets, Register(k) \/ Status(k) \/ Close(k)
      PROVE  RowOK'
  <2>1. SocketServer[k] \in Servers
    BY RegistryAssumption
  <2>2. row' = row \/ row' \in {Online(SocketServer[k]), Offline(SocketServer[k])}
    BY <1>4 DEF Register, Status, Close, Disconnect
  <2>3. QED BY <1>1, <1>2, <2>1, <2>2
<1>5. CASE Tick
  BY <1>5, TickWrites DEF Agrees
<1>6. CASE Sweep
  <2>1. row' = [s \in Servers |-> IF Stale(s) THEN Swept(s) ELSE row[s]]
    BY <1>6 DEF Sweep
  <2>2. QED BY <2>1, OfflineWrites
<1>7. CASE Boot
  <2>1. row' = [s \in Servers |-> Swept(s)]
    BY <1>7 DEF Boot
  <2>2. QED BY <2>1, OfflineWrites
<1>8. CASE Crash
  BY <1>2, <1>8 DEF Crash
<1>9. QED BY <1>3, <1>4, <1>5, <1>6, <1>7, <1>8 DEF Next, Handle

LEMMA StepSlots ==
  ASSUME TypeOK, Next
  PROVE  SlotsOK'
<1> USE TypeParts, RegistryAssumption DEF SlotsOK
<1>1. CASE Tick \/ Sweep \/ Boot \/ Crash
  BY <1>1 DEF Tick, Sweep, Boot, Crash
<1>2. ASSUME NEW k \in Sockets, Connect(k) \/ Beat(k) \/ Lose(k) \/ Ack(k) \/ Drop(k)
      PROVE  SlotsOK'
  BY <1>2 DEF Connect, Beat, Lose, Ack, Drop
<1>3. ASSUME NEW k \in Sockets, Register(k) \/ Status(k) \/ Close(k)
      PROVE  SlotsOK'
  <2>1. \/ connections' = connections
        \/ connections' = [connections EXCEPT ![SocketServer[k]] = k]
        \/ connections' = [connections EXCEPT ![SocketServer[k]] = 0]
    BY <1>3 DEF Register, Status, Close, Disconnect
  <2>2. QED BY <2>1
<1>4. QED BY <1>1, <1>2, <1>3 DEF Next, Handle

LEMMA StepRest ==
  ASSUME TypeOK, Next
  PROVE  RestOK'
<1> USE TypeParts, RegistryAssumption DEF RestOK
<1>0. faults' = faults \/ (faults < MaxFaults /\ faults' = faults + 1)
  <2>1. CASE Tick \/ Sweep \/ Boot \/ Crash
    BY <2>1 DEF Tick, Sweep, Boot, Crash, DbRaise
  <2>2. ASSUME NEW k \in Sockets, Connect(k) \/ Beat(k) \/ Lose(k) \/ Handle(k)
        PROVE  faults' = faults \/ (faults < MaxFaults /\ faults' = faults + 1)
    BY <2>2 DEF Connect, Beat, Lose, Handle, Register, Ack, Status, Close, Drop, DbOk, DbRaise
  <2>3. QED BY <2>1, <2>2 DEF Next
<1>1. faults' \in 0..MaxFaults
  BY <1>0
<1>2. ASSUME NEW k \in Sockets, Connect(k) \/ Beat(k) \/ Lose(k) \/ Handle(k)
      PROVE  RestOK'
  <2>1. \/ idle' = idle \/ idle' = [idle EXCEPT ![k] = 0]
    BY <1>2 DEF Connect, Beat, Lose, Handle, Register, Ack, Status, Close, Drop, Disconnect, Heard
  <2>2. idle' \in [Sockets -> Ages]
    BY <2>1 DEF Ages
  <2>3. \/ phase' = phase
        \/ \E h \in Phases : phase' = [phase EXCEPT ![k] = h]
    BY <1>2 DEF Connect, Beat, Lose, Handle, Register, Ack, Status, Close, Drop, Disconnect, Phases
  <2>4. phase' \in [Sockets -> Phases]
    BY <2>3
  <2>5. /\ alive' \subseteq alive \cup {k} /\ beats' \subseteq beats \cup {k}
        /\ UNCHANGED up
    BY <1>2 DEF Connect, Beat, Lose, Handle, Register, Ack, Status, Close, Drop, Disconnect
  <2>6. kicked' = kicked \/ kicked' = kicked \cup ({connections[SocketServer[k]]} \ {0, k})
    BY <1>2 DEF Connect, Beat, Lose, Handle, Register, Ack, Status, Close, Drop, Disconnect
  <2>7. connections[SocketServer[k]] \in Sockets \cup {0}
    BY DEF SlotsOK
  <2>8. QED BY <1>1, <2>2, <2>4, <2>5, <2>6, <2>7
<1>3. CASE Tick
  <2>1. \A k \in Sockets : Older(idle[k]) \in Ages
    BY OlderType
  <2>2. idle' \in [Sockets -> Ages]
    BY <1>3, <2>1 DEF Tick, Ages
  <2>3. QED BY <1>1, <1>3, <2>2 DEF Tick
<1>4. CASE Sweep \/ Boot
  BY <1>1, <1>4 DEF Sweep, Boot
<1>5. CASE Crash
  BY <1>1, <1>5 DEF Crash, Phases
<1>6. QED BY <1>2, <1>3, <1>4, <1>5 DEF Next

LEMMA InitTyping == Init => TypeOK
BY RegistryAssumption DEF Init, TypeOK

\* Every reachable state of the registry is well typed, and the two columns
\* that say whether a server is there agree.
THEOREM Typing == Spec => []TypeOK
<1>1. TypeOK /\ [Next]_vars => TypeOK'
  <2>1. TypeOK /\ Next => TypeOK'
    BY StepRow, StepSlots, StepRest, TypeParts
       DEF TypeOK, RowOK, SlotsOK, RestOK, Rows, Ages, Phases, Agrees
  <2>2. TypeOK /\ UNCHANGED vars => TypeOK'
    BY DEF TypeOK, vars
  <2>3. QED BY <2>1, <2>2
<1>2. QED BY <1>1, InitTyping, PTL DEF Spec
-----------------------------------------------------------------------------
(* HeardIsOnline.                                                           *)

\* A socket that has taken its slot and was not replaced.
Owner(k) == Taken(k) /\ k \notin kicked

\* Inductive: an owner has the slot, its row is no older than what was heard
\* from it, and so the sweeper does not find it stale before its time; and
\* nobody owns anything while the process is down.
OwnerOK(k) ==
  Owner(k) =>
    /\ connections[SocketServer[k]] = k
    /\ row[SocketServer[k]].age <= idle[k]
    /\ idle[k] <= Threshold => row[SocketServer[k]].connected

OwnerInv ==
  /\ \A k \in Sockets : OwnerOK(k)
  /\ ~up => \A k \in Sockets : ~Taken(k)

\* The step leaves all that the invariant says of socket k alone.
Untouched(k) ==
  /\ Owner(k)' => Owner(k)
  /\ connections'[SocketServer[k]] = connections[SocketServer[k]]
  /\ row'[SocketServer[k]] = row[SocketServer[k]]
  /\ idle'[k] = idle[k]

LEMMA UntouchedOK ==
  ASSUME NEW k \in Sockets, OwnerOK(k), Untouched(k)
  PROVE  OwnerOK(k)'
BY DEF OwnerOK, Untouched

LEMMA StepDown ==
  ASSUME TypeOK, OwnerInv, Next
  PROVE  ~up' => \A k \in Sockets : ~Taken(k)'
<1> USE TypeParts DEF RestOK, OwnerInv, Taken
<1>1. CASE Crash
  BY <1>1 DEF Crash
<1>2. CASE Tick \/ Sweep \/ Boot
  BY <1>2 DEF Tick, Sweep, Boot
<1>3. ASSUME NEW k \in Sockets, Connect(k) \/ Beat(k) \/ Lose(k) \/ Handle(k)
      PROVE  up' = up /\ \A j \in Sockets : Taken(j)' => Taken(j) \/ up
  BY <1>3 DEF Connect, Beat, Lose, Handle, Register, Ack, Status, Close, Drop, Disconnect
<1>4. QED BY <1>1, <1>2, <1>3 DEF Next

\* A registration gets the slot; whoever had it is kicked.
LEMMA RegisterKeeps ==
  ASSUME TypeOK, OwnerInv, NEW k \in Sockets, Register(k), NEW j \in Sockets
  PROVE  OwnerOK(j)'
<1> USE TypeParts, RegistryAssumption
<1> DEFINE s == SocketServer[k]
<1>1. s \in Servers /\ SocketServer[j] \in Servers
  OBVIOUS
<1>2. connections' = [connections EXCEPT ![s] = k] /\ idle' = [idle EXCEPT ![k] = 0]
        /\ kicked' = kicked \cup ({connections[s]} \ {0, k})
  BY DEF Register, Heard
<1>3. CASE j = k
  <2>1. CASE row' = Online(s)
    <3>1. row'[s].connected /\ row'[s].age = 0
      BY <1>1, <2>1, OnlineWrites DEF RowOK
    <3>2. connections'[s] = k /\ idle'[k] = 0
      BY <1>1, <1>2 DEF SlotsOK, RestOK
    <3>3. QED BY <1>3, <3>1, <3>2 DEF OwnerOK
  <2>2. CASE row' # Online(s)
    <3>1. phase'[k] = "ended"
      BY <2>2 DEF Register, RestOK
    <3>2. QED BY <1>3, <3>1 DEF OwnerOK, Owner, Taken
  <2>3. QED BY <2>1, <2>2
<1>4. CASE j # k /\ SocketServer[j] = s
  <2>1. Owner(j)' => Owner(j) /\ j # connections[s]
    BY <1>2, <1>4 DEF Register, Owner, Taken, RestOK
  <2>2. QED BY <1>4, <2>1 DEF OwnerInv, OwnerOK
<1>5. CASE j # k /\ SocketServer[j] # s
  <2>1. Owner(j)' => Owner(j)
    BY <1>2, <1>5 DEF Register, Owner, Taken, RestOK
  <2>2. row'[SocketServer[j]] = row[SocketServer[j]]
    BY <1>1, <1>5, OnlineWrites DEF Register, RowOK
  <2>3. Untouched(j)
    BY <1>1, <1>2, <1>5, <2>1, <2>2 DEF Untouched, SlotsOK, RestOK
  <2>4. QED BY <2>3, UntouchedOK DEF OwnerInv
<1>6. QED BY <1>3, <1>4, <1>5

\* A handler that ends clears the slot and the row only if they are its own.
LEMMA DisconnectKeeps ==
  ASSUME TypeOK, OwnerInv, NEW k \in Sockets, Disconnect(k), NEW j \in Sockets
  PROVE  OwnerOK(j)'
<1> USE TypeParts, RegistryAssumption
<1> DEFINE s == SocketServer[k]
<1>1. s \in Servers /\ SocketServer[j] \in Servers
  OBVIOUS
<1>2. Owner(j)' => Owner(j) /\ j # k
  BY DEF Disconnect, Owner, Taken, RestOK
<1>3. CASE Owner(j) /\ j # k
  <2>1. OwnsSlot(k) => SocketServer[j] # s
    BY <1>3 DEF OwnsSlot, OwnerInv, OwnerOK
  <2>2. row'[SocketServer[j]] = row[SocketServer[j]]
    BY <1>1, <2>1, OfflineWrites DEF Disconnect, RowOK
  <2>3. Untouched(j)
    BY <1>1, <1>2, <2>1, <2>2 DEF Disconnect, Untouched, SlotsOK
  <2>4. QED BY <2>3, UntouchedOK DEF OwnerInv
<1>4. QED BY <1>2, <1>3 DEF OwnerOK

LEMMA StatusKeeps ==
  ASSUME TypeOK, OwnerInv, NEW k \in Sockets, Status(k), NEW j \in Sockets
  PROVE  OwnerOK(j)'
<1> USE TypeParts, RegistryAssumption
<1>1. CASE Disconnect(k)
  BY <1>1, DisconnectKeeps
<1>2. CASE row' = Online(SocketServer[k]) /\ Heard(k)
             /\ UNCHANGED <<connections, phase, kicked>>
  <2>1. SocketServer[k] \in Servers /\ SocketServer[j] \in Servers
    OBVIOUS
  <2>2. idle' = [idle EXCEPT ![k] = 0]
    BY <1>2 DEF Heard
  <2>3. CASE SocketServer[j] = SocketServer[k]
    <3>1. row'[SocketServer[j]].connected /\ row'[SocketServer[j]].age = 0
      BY <1>2, <2>1, <2>3, OnlineWrites DEF RowOK
    <3>2. idle'[j] \in Ages
      BY <2>2 DEF RestOK, Ages
    <3>3. Owner(j)' => connections'[SocketServer[j]] = j
      BY <1>2 DEF OwnerInv, OwnerOK, Owner, Taken
    <3>4. QED BY <3>1, <3>2, <3>3 DEF OwnerOK, Ages
  <2>4. CASE SocketServer[j] # SocketServer[k]
    <3>1. row'[SocketServer[j]] = row[SocketServer[j]]
      BY <1>2, <2>1, <2>4, OnlineWrites DEF RowOK
    <3>2. Untouched(j)
      BY <1>2, <2>2, <2>4, <3>1 DEF Untouched, Owner, Taken, RestOK
    <3>3. QED BY <3>2, UntouchedOK DEF OwnerInv
  <2>5. QED BY <2>3, <2>4
<1>3. QED BY <1>1, <1>2 DEF Status

\* A row grows as old as the socket, never older; the sweeper finds it when
\* the socket, too, was not heard of for too long.
LEMMA TimeKeeps ==
  ASSUME TypeOK, OwnerInv, Tick \/ Sweep, NEW j \in Sockets
  PROVE  OwnerOK(j)'
<1> USE TypeParts, RegistryAssumption
<1> DEFINE s == SocketServer[j]
<1>1. s \in Servers /\ row[s].age \in Ages /\ idle[j] \in Ages
  BY DEF RowOK, RestOK, Rows, Ages
<1>2. CASE Tick
  <2>1. Owner(j)' => Owner(j) /\ idle'[j] = Older(idle[j])
    BY <1>2 DEF Tick, Owner, Taken
  <2>2. row'[s].connected = row[s].connected /\ row'[s].age = Older(row[s].age)
    BY <1>1, <1>2, TickWrites DEF RowOK
  <2>3. connections' = connections
    BY <1>2 DEF Tick
  <2>4. row[s].age <= idle[j] => Older(row[s].age) <= Older(idle[j])
    BY <1>1, OlderMonotone
  <2>5. Older(idle[j]) <= Threshold => idle[j] <= Threshold
    BY <1>1 DEF Older, Ages
  <2>6. QED BY <2>1, <2>2, <2>3, <2>4, <2>5 DEF OwnerInv, OwnerOK
<1>3. CASE Sweep
  <2>1. row'[s] = IF Stale(s) THEN Swept(s) ELSE row[s]
    BY <1>1, <1>3 DEF Sweep
  <2>2. row'[s].age = row[s].age
    BY <1>1, <2>1, OfflineWrites DEF RowOK
  <2>3. UNCHANGED <<connections, phase, kicked, idle>>
    BY <1>3 DEF Sweep
  <2>4. Owner(j) /\ idle[j] <= Threshold => ~Stale(s)
    BY <1>1 DEF OwnerInv, OwnerOK, Stale, Ages
  <2>5. QED BY <2>1, <2>2, <2>3, <2>4 DEF OwnerInv, OwnerOK, Owner, Taken
<1>4. QED BY <1>2, <1>3

LEMMA StepOwner ==
  ASSUME TypeOK, OwnerInv, Next, NEW j \in Sockets
  PROVE  OwnerOK(j)'
<1> USE TypeParts
<1>1. ASSUME NEW k \in Sockets, Connect(k) \/ Beat(k) \/ Lose(k) \/ Ack(k) \/ Drop(k)
      PROVE  OwnerOK(j)'
  <2>1. Owner(j)' => Owner(j)
    BY <1>1 DEF Connect, Beat, Lose, Ack, Drop, Owner, Taken, RestOK
  <2>2. Untouched(j)
    BY <1>1, <2>1 DEF Connect, Beat, Lose, Ack, Drop, Untouched
  <2>3. QED BY <2>2, UntouchedOK DEF OwnerInv
<1>2. ASSUME NEW k \in Sockets, Close(k)  PROVE OwnerOK(j)'
  BY <1>2, DisconnectKeeps DEF Close
<1>3. CASE Crash \/ Boot
  <2>1. ~Taken(j)'
    BY <1>3 DEF Crash, Boot, Taken, OwnerInv
  <2>2. QED BY <2>1 DEF OwnerOK, Owner
<1>4. QED BY <1>1, <1>2, <1>3, RegisterKeeps, StatusKeeps, TimeKeeps DEF Next, Handle

\* A server whose connection is served and was heard of in time is shown as
\* connected and has the slot, for any number of reconnects and faults.
THEOREM OnlineWhileHeard == Spec => []HeardIsOnline
<1>1. Init => OwnerInv
  BY DEF Init, OwnerInv, OwnerOK, Owner, Taken
<1>2. TypeOK /\ OwnerInv /\ [Next]_vars => OwnerInv'
  <2>1. TypeOK /\ OwnerInv /\ Next => OwnerInv'
    BY StepOwner, StepDown DEF OwnerInv
  <2>2. OwnerInv /\ UNCHANGED vars => OwnerInv'
    BY DEF OwnerInv, OwnerOK, Owner, Taken, vars
  <2>3. QED BY <2>1, <2>2
<1>3. OwnerInv => HeardIsOnline
  BY DEF OwnerInv, OwnerOK, Owner, Taken, HeardIsOnline
<1>4. QED BY <1>1, <1>2, <1>3, Typing, PTL DEF Spec
=============================================================================
