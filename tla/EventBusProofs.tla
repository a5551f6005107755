--------------------------- MODULE EventBusProofs ---------------------------
(* What EventBus promises, for any number of threads, events, types and       *)
(* subscriptions, and any size of the queue: the order of the events, that    *)
(* who has subscribed is listed, and that a delivery calls every handler as   *)
(* often as it is subscribed, while the lists change under the worker.        *)
EXTENDS EventBus, TLAPS, FiniteSetTheorems, SequenceTheorems, WellFoundedInduction

\* One thread emits e before f.
Earlier(e, f) ==
  \E m \in Emitters : \E i, j \in DOMAIN Emits[m] : i < j /\ Emits[m][i] = e /\ Emits[m][j] = f

LEMMA EarlierIsOneWay ==
  ASSUME NEW e
  PROVE  ~Earlier(e, e)
<1>1. \A m \in Emitters : DOMAIN Emits[m] \subseteq Nat
  BY EventBusAssumption
<1>2. QED BY <1>1, EventBusAssumption DEF Earlier

\* No event stands behind one that its thread emitted later.
Sorted(s)       == \A a, b \in DOMAIN s : a < b => ~Earlier(s[b], s[a])
MayFollow(e, s) == \A a \in DOMAIN s : ~Earlier(e, s[a])

LEMMA SortedAppend ==
  ASSUME NEW s \in Seq(Events), NEW e \in Events, Sorted(s), MayFollow(e, s)
  PROVE  Sorted(Append(s, e))
BY DEF Sorted, MayFollow

\* Events that were put, or dropped, and those that were inserted.
Past(e)   == \E m \in Emitters : \E i \in 1..emitted[m] : Emits[m][i] = e
Stored(e) == Past(e) \/ \E m \in persisted : Current(m) = e

EmittersOK ==
  /\ emitted \in [Emitters -> Nat] /\ persisted \subseteq Emitters
  /\ \A m \in Emitters : emitted[m] <= Len(Emits[m])
  /\ \A m \in persisted : HasNext(m)

Delivering == worker.at \in {"calling", "keys"}

\* Inductive: what the handlers were called with, what the worker has taken and
\* the queue are in order, one after the other, and all of it is past.
TableInv == table \in Seq(Events) /\ Sorted(table) /\ \A a \in DOMAIN table : Stored(table[a])

QueueInv == queue \in Seq(Events) /\ Sorted(queue) /\ \A a \in DOMAIN queue : Past(queue[a])

WorkerInv ==
  /\ DOMAIN worker = {"at", "event", "list", "i", "k", "n"}
  /\ Delivering => /\ worker.event \in Events /\ Past(worker.event)
                   /\ \A b \in DOMAIN queue : ~Earlier(queue[b], worker.event)

LogInv ==
  /\ log \in [Handlers -> Seq(Events)]
  /\ \A h \in Handlers :
       /\ Sorted(log[h]) /\ \A a \in DOMAIN log[h] : Past(log[h][a])
       /\ \A b \in DOMAIN queue : MayFollow(queue[b], log[h])
       /\ Delivering => MayFollow(worker.event, log[h])

OrderInv == EmittersOK /\ TableInv /\ QueueInv /\ WorkerInv /\ LogInv

LEMMA EmitsTyped ==
  ASSUME NEW m \in Emitters
  PROVE  /\ Emits[m] \in Seq(Events) /\ Len(Emits[m]) \in Nat
         /\ DOMAIN Emits[m] = 1..Len(Emits[m])
BY EventBusAssumption

\* The event a thread is about to emit is emitted after all that is past.
LEMMA CurrentIsLast ==
  ASSUME EmittersOK, NEW m \in Emitters, HasNext(m)
  PROVE  /\ Current(m) \in Events
         /\ \A e : Past(e) => ~Earlier(Current(m), e)
<1> USE EmitsTyped DEF EmittersOK
<1>1. emitted[m] \in Nat /\ emitted[m] + 1 \in DOMAIN Emits[m]
  BY DEF HasNext
<1>2. Current(m) = Emits[m][emitted[m] + 1] /\ Current(m) \in Events
  BY <1>1 DEF Current
<1>3. ASSUME NEW e, Past(e), Earlier(Current(m), e)
      PROVE  FALSE
  <2>1. PICK n \in Emitters : \E i, j \in DOMAIN Emits[n] :
               i < j /\ Emits[n][i] = Current(m) /\ Emits[n][j] = e
    BY <1>3 DEF Earlier
  <2> PICK i \in DOMAIN Emits[n], j \in DOMAIN Emits[n] :
             i < j /\ Emits[n][i] = Current(m) /\ Emits[n][j] = e
    BY <2>1
  <2>2. n = m /\ i = emitted[m] + 1
    BY <1>1, <1>2, <2>1, EventBusAssumption
  <2>3. PICK o \in Emitters : \E l \in 1..emitted[o] : Emits[o][l] = e
    BY <1>3 DEF Past
  <2> PICK l \in 1..emitted[o] : Emits[o][l] = e
    BY <2>3
  <2>4. l \in DOMAIN Emits[o]
    <3>1. emitted[o] \in Nat /\ emitted[o] <= Len(Emits[o])
      OBVIOUS
    <3>2. QED BY <3>1
  <2>5. o = n /\ l = j
    BY <2>1, <2>3, <2>4, EventBusAssumption
  <2>6. l <= emitted[m] /\ j > emitted[m] + 1
    BY <1>1, <2>1, <2>2, <2>3, <2>5
  <2>7. QED BY <1>1, <2>5, <2>6
<1>4. QED BY <1>2, <1>3

\* One event of a thread follows another in the table.
LEMMA StoredIsEarlier ==
  ASSUME EmittersOK, NEW m \in Emitters, m \notin persisted, HasNext(m), NEW e, Stored(e)
  PROVE  ~Earlier(Current(m), e)
<1> USE EmitsTyped DEF EmittersOK
<1>1. CASE Past(e)
  BY <1>1, CurrentIsLast
<1>2. ASSUME NEW n \in persisted, Current(n) = e, Earlier(Current(m), e)
      PROVE  FALSE
  <2>1. \A o \in Emitters : HasNext(o) => /\ Current(o) = Emits[o][emitted[o] + 1]
                                          /\ emitted[o] + 1 \in DOMAIN Emits[o]
    BY DEF HasNext, Current
  <2>2. PICK o \in Emitters : \E i, j \in DOMAIN Emits[o] :
               Emits[o][i] = Current(m) /\ Emits[o][j] = e
    BY <1>2 DEF Earlier
  <2> PICK i \in DOMAIN Emits[o], j \in DOMAIN Emits[o] :
             Emits[o][i] = Current(m) /\ Emits[o][j] = e
    BY <2>2
  <2>3. o = m
    BY <2>1, <2>2, EventBusAssumption
  <2>4. o = n
    BY <1>2, <2>1, <2>2, EventBusAssumption
  <2>5. QED BY <1>2, <2>3, <2>4
<1>3. QED BY <1>1, <1>2 DEF Stored

LEMMA PersistKeeps ==
  ASSUME OrderInv, NEW m \in Emitters, Persist(m)
  PROVE  OrderInv'
<1> USE DEF OrderInv
<1>1. /\ HasNext(m) /\ m \notin persisted /\ persisted' = persisted \cup {m}
      /\ table' = table \/ table' = Append(table, Current(m))
      /\ UNCHANGED <<emitted, queue, worker, log>>
  BY DEF Persist
<1>2. EmittersOK'
  BY <1>1 DEF EmittersOK, HasNext
<1>3. \A e : Stored(e) => Stored(e)'
  BY <1>1 DEF Stored, Past, Current
<1>4. Current(m) \in Events /\ MayFollow(Current(m), table)
  BY <1>1, CurrentIsLast, StoredIsEarlier DEF MayFollow, TableInv
<1>5. \A e : e = Current(m) => Stored(e)'
  BY <1>1 DEF Stored, Current
<1>6. TableInv'
  <2>1. CASE table' = table
    BY <1>3, <2>1 DEF TableInv, Sorted
  <2>2. CASE table' = Append(table, Current(m))
    <3>1. table' \in Seq(Events) /\ Sorted(table)'
      <4>1. table' \in Seq(Events) /\ Sorted(Append(table, Current(m)))
        BY <1>4, <2>2, SortedAppend DEF TableInv
      <4>2. QED BY <2>2, <4>1 DEF Sorted
    <3>2. \A a \in DOMAIN table' : table'[a] = Current(m) \/ (a \in DOMAIN table /\ table'[a] = table[a])
      BY <1>4, <2>2 DEF TableInv
    <3>3. \A a \in DOMAIN table' : Stored(table[a])'
      BY <1>3, <1>5, <3>2 DEF TableInv
    <3>4. QED BY <3>1, <3>3 DEF TableInv
  <2>3. QED BY <1>1, <2>1, <2>2
<1>7. QueueInv' /\ WorkerInv' /\ LogInv'
  BY <1>1 DEF QueueInv, WorkerInv, LogInv, Delivering, Sorted, MayFollow, Past
<1>8. QED BY <1>2, <1>6, <1>7

LEMMA PutKeeps ==
  ASSUME OrderInv, NEW m \in Emitters, Put(m)
  PROVE  OrderInv'
<1> USE DEF OrderInv
<1>1. /\ m \in persisted /\ persisted' = persisted \ {m}
      /\ emitted' = [emitted EXCEPT ![m] = @ + 1]
      /\ queue' = queue \/ queue' = Append(queue, Current(m))
      /\ UNCHANGED <<table, worker, log>>
  BY DEF Put, Enqueue
<1>2. HasNext(m) /\ emitted[m] \in Nat /\ Len(Emits[m]) \in Nat
  BY <1>1, EmitsTyped DEF EmittersOK
<1>3. /\ emitted'[m] = emitted[m] + 1
      /\ \A n \in Emitters \ {m} : emitted'[n] = emitted[n]
      /\ emitted' \in [Emitters -> Nat]
  BY <1>1, <1>2 DEF EmittersOK
<1>4. EmittersOK'
  <2>1. emitted'[m] <= Len(Emits[m])
    BY <1>2, <1>3 DEF HasNext
  <2>2. QED BY <1>1, <1>3, <2>1 DEF EmittersOK, HasNext
<1>5. \A e : Past(e) => Past(e)'
  <2>1. \A n \in Emitters : 1..emitted[n] \subseteq 1..emitted'[n]
    BY <1>2, <1>3
  <2>2. QED BY <2>1 DEF Past
<1>6. \A e : e = Current(m) => Past(e)'
  BY <1>2, <1>3 DEF Current, Past
<1>7. \A e : Stored(e) => Stored(e)'
  <2>1. ASSUME NEW n \in persisted, n # m, NEW e, Current(n) = e
        PROVE  n \in persisted' /\ Current(n)' = e
    BY <1>1, <1>3, <2>1 DEF Current, EmittersOK
  <2>2. QED BY <1>5, <1>6, <2>1 DEF Stored
<1>8. TableInv'
  BY <1>1, <1>7 DEF TableInv, Sorted
<1>9. /\ Current(m) \in Events
      /\ \A e : Past(e) => ~Earlier(Current(m), e)
  BY <1>2, CurrentIsLast
<1>10. CASE queue' = queue
  BY <1>1, <1>4, <1>5, <1>8, <1>10
     DEF QueueInv, WorkerInv, LogInv, Sorted, MayFollow, Delivering
<1>11. CASE queue' = Append(queue, Current(m))
  <2>1. PICK e \in Events : e = Current(m)
    BY <1>9
  <2>2. queue' = Append(queue, e) /\ (\A f : Past(f) => ~Earlier(e, f)) /\ Past(e)'
    BY <1>6, <1>9, <1>11, <2>1
  <2>3. queue' \in Seq(Events) /\ Sorted(Append(queue, e))
    BY <2>2, SortedAppend DEF QueueInv, MayFollow
  <2>4. \A b \in DOMAIN queue' : queue'[b] = e \/ (b \in DOMAIN queue /\ queue'[b] = queue[b])
    BY <2>2 DEF QueueInv
  <2>5. QueueInv'
    <3>1. Sorted(queue)'
      BY <2>2, <2>3 DEF Sorted
    <3>2. \A b \in DOMAIN queue' : Past(queue[b])'
      BY <1>5, <2>2, <2>4 DEF QueueInv
    <3>3. QED BY <2>3, <3>1, <3>2 DEF QueueInv
  <2>6. WorkerInv'
    BY <1>1, <1>5, <2>2, <2>4 DEF WorkerInv, Delivering
  <2>7. LogInv'
    BY <1>1, <1>5, <2>2, <2>4 DEF LogInv, Sorted, MayFollow, Delivering
  <2>8. QED BY <1>4, <1>8, <2>5, <2>6, <2>7
<1>12. QED BY <1>1, <1>10, <1>11

LEMMA GetKeeps ==
  ASSUME OrderInv, Get
  PROVE  OrderInv'
<1> USE DEF OrderInv
<1>1. /\ queue # <<>> /\ queue' = Tail(queue)
      /\ UNCHANGED <<emitted, persisted, table, log>>
  BY DEF Get, emitting
<1>2. queue \in Seq(Events)
  BY DEF QueueInv
<1>3. PICK e \in Events : e = Head(queue)
  BY <1>1, <1>2
<1>4. /\ DOMAIN worker' = {"at", "event", "list", "i", "k", "n"}
      /\ worker'.event = e /\ worker'.at = "calling"
  BY <1>3 DEF Get, WorkerInv
<1>5. /\ queue' \in Seq(Events) /\ 1 \in DOMAIN queue /\ queue[1] = e
      /\ \A b \in DOMAIN queue' : b + 1 \in DOMAIN queue /\ queue'[b] = queue[b + 1] /\ b \in Nat /\ 1 < b + 1
  BY <1>1, <1>2, <1>3
<1>6. EmittersOK' /\ TableInv'
  BY <1>1 DEF EmittersOK, TableInv, Sorted, Stored, Past, HasNext, Current
<1>7. QueueInv'
  <2>1. \A a, b \in DOMAIN queue' : a < b => a + 1 < b + 1
    BY <1>5
  <2>2. Sorted(queue)'
    BY <1>5, <2>1 DEF QueueInv, Sorted
  <2>3. QED BY <1>1, <1>5, <2>2 DEF QueueInv, Past
<1>8. WorkerInv'
  <2>1. \A b \in DOMAIN queue' : ~Earlier(queue'[b], e)
    BY <1>5 DEF QueueInv, Sorted
  <2>2. Past(e)'
    BY <1>1, <1>5 DEF QueueInv, Past
  <2>3. Past(worker.event)'
    BY <1>4, <2>2 DEF Past
  <2>4. QED BY <1>4, <2>1, <2>3 DEF WorkerInv
<1>9. LogInv'
  <2>1. \A h \in Handlers : MayFollow(e, log[h])
    BY <1>5 DEF LogInv
  <2>2. QED BY <1>1, <1>4, <1>5, <2>1 DEF LogInv, Sorted, MayFollow, Past
<1>10. QED BY <1>6, <1>7, <1>8, <1>9

LEMMA CallKeeps ==
  ASSUME OrderInv, Call
  PROVE  OrderInv'
<1> USE DEF OrderInv
<1>1. /\ worker.at = "calling"
      /\ UNCHANGED <<emitted, persisted, table, queue>>
  BY DEF Call, emitting
<1>2. PICK e \in Events : e = worker.event
  BY <1>1 DEF WorkerInv, Delivering
<1>3. /\ DOMAIN worker' = {"at", "event", "list", "i", "k", "n"}
      /\ worker'.event = e /\ worker'.at = "calling"
  BY <1>1, <1>2 DEF Call, WorkerInv
<1>4. PICK g : log' = [log EXCEPT ![g] = Append(@, e)]
  BY <1>2 DEF Call
<1>5. EmittersOK' /\ TableInv' /\ QueueInv'
  <2>1. EmittersOK'
    BY <1>1 DEF EmittersOK, HasNext, Current
  <2>2. \A x : (Past(x)' <=> Past(x)) /\ (Stored(x)' <=> Stored(x))
    BY <1>1 DEF Stored, Past, Current
  <2>3. TableInv' /\ QueueInv'
    BY <1>1, <2>2 DEF TableInv, QueueInv, Sorted
  <2> QED
    BY <2>1, <2>2, <2>3
<1>6. Past(e) /\ \A b \in DOMAIN queue : ~Earlier(queue[b], e)
  BY <1>1, <1>2 DEF WorkerInv, Delivering
<1>7. WorkerInv'
  <2>1. Past(e)'
    BY <1>1, <1>6 DEF Past
  <2>2. Past(worker.event)'
    BY <1>3, <2>1 DEF Past
  <2>3. QED BY <1>1, <1>3, <1>6, <2>2 DEF WorkerInv
<1>8. ASSUME NEW h \in Handlers
      PROVE  /\ log'[h] \in Seq(Events) /\ Sorted(log'[h])
             /\ \A a \in DOMAIN log'[h] : Past(log'[h][a])
             /\ \A b \in DOMAIN queue : MayFollow(queue[b], log'[h])
             /\ MayFollow(e, log'[h])
  <2>1. /\ log[h] \in Seq(Events) /\ Sorted(log[h])
        /\ \A a \in DOMAIN log[h] : Past(log[h][a])
        /\ \A b \in DOMAIN queue : MayFollow(queue[b], log[h])
        /\ MayFollow(e, log[h])
    BY <1>1, <1>2 DEF LogInv, Delivering
  <2>2. CASE log'[h] = log[h]
    BY <2>1, <2>2
  <2>3. CASE log'[h] = Append(log[h], e)
    <3>1. \A a \in DOMAIN log'[h] :
            log'[h][a] = e \/ (a \in DOMAIN log[h] /\ log'[h][a] = log[h][a])
      BY <2>1, <2>3
    <3>2. Sorted(log'[h]) /\ log'[h] \in Seq(Events)
      BY <2>1, <2>3, SortedAppend
    <3>3. QED BY <1>6, <2>1, <3>1, <3>2, EarlierIsOneWay DEF MayFollow
  <2>4. log'[h] = IF h = g THEN Append(log[h], e) ELSE log[h]
    BY <1>4 DEF LogInv
  <2>5. QED BY <2>2, <2>3, <2>4
<1>9. log' \in [Handlers -> Seq(Events)]
  <2>1. log' = [h \in Handlers |-> log'[h]]
    BY <1>4 DEF LogInv
  <2>2. QED BY <1>8, <2>1
<1>10. LogInv'
  BY <1>1, <1>3, <1>8, <1>9 DEF LogInv, Past, Sorted, MayFollow
<1>11. QED BY <1>5, <1>7, <1>10

\* All other steps leave the order, and the event that is delivered, alone.
LEMMA OthersKeep ==
  ASSUME OrderInv, UNCHANGED <<emitted, persisted, table, queue, log>>,
         DOMAIN worker' = {"at", "event", "list", "i", "k", "n"},
         Delivering' => Delivering /\ worker'.event = worker.event
  PROVE  OrderInv'
<1> USE DEF OrderInv
<1>1. EmittersOK' /\ TableInv' /\ QueueInv'
  BY DEF EmittersOK, TableInv, QueueInv, Sorted, Stored, Past, HasNext, Current
<1>2. WorkerInv'
  <2>1. Delivering' => Past(worker.event)'
    BY DEF WorkerInv, Past
  <2>2. QED BY <2>1 DEF WorkerInv
<1>3. LogInv'
  BY DEF LogInv, Sorted, MayFollow, Past
<1>4. QED BY <1>1, <1>2, <1>3

LEMMA StepOrder ==
  ASSUME OrderInv, Next
  PROVE  OrderInv'
<1>1. ASSUME NEW m \in Emitters, Persist(m) \/ Put(m)
      PROVE  OrderInv'
  BY <1>1, PersistKeeps, PutKeeps
<1>2. DOMAIN worker = {"at", "event", "list", "i", "k", "n"}
  BY DEF OrderInv, WorkerInv
<1>3. ASSUME NEW c \in Subs, Subscribe(c) \/ CreateList(c) \/ AppendHandler(c) \/ Unsubscribe(c)
      PROVE  OrderInv'
  <2>1. UNCHANGED <<emitted, persisted, table, queue, log, worker>>
    BY <1>3 DEF Subscribe, CreateList, AppendHandler, Unsubscribe, emitting
  <2>2. QED BY <1>2, <2>1, OthersKeep DEF Delivering
<1>4. CASE Stop
  <2>1. UNCHANGED <<emitted, persisted, table, queue, log, worker>>
    BY <1>4 DEF Stop, emitting
  <2>2. QED BY <1>2, <2>1, OthersKeep DEF Delivering
<1>5. CASE Begin \/ Timeout \/ EndOfKeys
  <2>1. UNCHANGED <<emitted, persisted, table, queue, log>> /\ worker' = Resting
    BY <1>5 DEF Begin, Timeout, EndOfKeys, AfterKeys, emitting
  <2>2. DOMAIN worker' = {"at", "event", "list", "i", "k", "n"} /\ ~Delivering'
    BY <2>1 DEF Resting, Delivering
  <2>3. QED BY <2>1, <2>2, OthersKeep
<1>6. CASE Loop
  <2>1. /\ UNCHANGED <<emitted, persisted, table, queue, log>>
        /\ DOMAIN worker' = {"at", "event", "list", "i", "k", "n"} /\ ~Delivering'
    BY <1>2, <1>6 DEF Loop, Delivering, emitting
  <2>2. QED BY <2>1, OthersKeep
<1>7. CASE EndOfList
  <2>1. /\ UNCHANGED <<emitted, persisted, table, queue, log>> /\ Delivering
        /\ DOMAIN worker' = {"at", "event", "list", "i", "k", "n"}
        /\ worker'.event = worker.event
    BY <1>2, <1>7 DEF EndOfList, Delivering, emitting
  <2>2. QED BY <2>1, OthersKeep
<1>8. CASE NextKey
  <2>1. /\ UNCHANGED <<emitted, persisted, table, queue, log>> /\ Delivering
        /\ DOMAIN worker' = {"at", "event", "list", "i", "k", "n"}
        /\ worker'.event = worker.event
    BY <1>2, <1>8 DEF NextKey, Delivering, emitting
  <2>2. QED BY <2>1, OthersKeep
<1>9. QED
  BY <1>1, <1>3, <1>4, <1>5, <1>6, <1>7, <1>8, GetKeeps, CallKeeps DEF Next, WorkerStep

LEMMA InitOrder ==
  ASSUME Init
  PROVE  OrderInv
<1> USE DEF Init
<1>1. EmittersOK
  BY EmitsTyped DEF EmittersOK
<1>2. TableInv /\ QueueInv
  BY DEF TableInv, QueueInv, Sorted
<1>3. WorkerInv
  BY DEF WorkerInv, Delivering, Resting
<1>4. LogInv
  BY DEF LogInv, Sorted, MayFollow, Delivering, Resting
<1>5. QED BY <1>1, <1>2, <1>3, <1>4 DEF OrderInv

LEMMA SortedIsInOrder ==
  ASSUME NEW s, Sorted(s), NEW m \in Emitters,
         NEW i \in DOMAIN Emits[m], NEW j \in DOMAIN Emits[m], i < j
  PROVE  ~Before(s, Emits[m][j], Emits[m][i])
BY DEF Sorted, Before, Earlier

LEMMA OrderInvariant == Spec => []OrderInv
<1>1. OrderInv /\ UNCHANGED vars => OrderInv'
  <2> SUFFICES ASSUME OrderInv, UNCHANGED vars PROVE OrderInv'
    OBVIOUS
  <2>1. UNCHANGED <<emitted, persisted, table, queue, log, worker>>
    BY DEF vars, emitting
  <2> QED
    BY <2>1, OthersKeep DEF Delivering, OrderInv, WorkerInv
<1> QED
  BY <1>1, InitOrder, StepOrder, PTL DEF Spec

\* What one thread emits reaches the table and every handler in the order of the
\* calls, for any number of threads that emit, subscribe, unsubscribe or stop
\* the bus, and any size of the queue.
THEOREM EventsInOrder == Spec => []InOrder
<1>1. OrderInv => InOrder
  BY SortedIsInOrder DEF OrderInv, TableInv, LogInv, InOrder
<1> QED
  BY <1>1, OrderInvariant, PTL

-----------------------------------------------------------------------------
(* Positions of an element in a sequence.                                   *)
Spots(s, x) == {i \in DOMAIN s : s[i] = x}

LEMMA SpotsAppend ==
  ASSUME NEW S, NEW s \in Seq(S), NEW y \in S, NEW x
  PROVE  /\ Append(s, y) \in Seq(S) /\ Len(s) + 1 \notin Spots(s, x)
         /\ x = y => Spots(Append(s, y), x) = Spots(s, x) \cup {Len(s) + 1}
         /\ x # y => Spots(Append(s, y), x) = Spots(s, x)
<1>1. /\ Append(s, y) \in Seq(S) /\ Len(s) \in Nat
      /\ DOMAIN Append(s, y) = 1..Len(s)+1 /\ DOMAIN s = 1..Len(s)
      /\ \A i \in 1..Len(s) : Append(s, y)[i] = s[i]
      /\ Append(s, y)[Len(s)+1] = y
  OBVIOUS
<1>2. \A i : i \in 1..Len(s)+1 <=> i \in 1..Len(s) \/ i = Len(s) + 1
  BY <1>1
<1>3. Len(s) + 1 \notin 1..Len(s)
  BY <1>1
<1> QED
  BY <1>1, <1>2, <1>3 DEF Spots

LEMMA LeastNumber ==
  ASSUME NEW S \in SUBSET Nat, S # {}
  PROVE  \E n \in S : \A m \in S : n <= m
<1> DEFINE R == OpToRel(<, Nat)
<1>1. IsWellFoundedOn(R, Nat)
  BY NatLessThanWellFounded DEF OpToRel
<1>2. PICK n \in S : \A m \in S : <<m, n>> \notin R
  <2> HIDE DEF R
  <2> QED
    BY <1>1, WFMin
<1>3. \A m \in S : ~(m < n)
  BY <1>2 DEF OpToRel
<1> QED
  BY <1>3

(* list.remove: the first occurrence goes, and what follows moves.          *)
MovedUp(s, k, r) ==
  /\ Len(r) = Len(s) - 1
  /\ \A i \in 1..Len(r) : r[i] = IF i < k THEN s[i] ELSE s[i+1]

LEMMA FirstRemoved ==
  ASSUME NEW S, NEW s \in Seq(S), NEW x, Contains(s, x)
  PROVE  \E k \in DOMAIN s :
           /\ s[k] = x /\ \A j \in DOMAIN s : s[j] = x => k <= j
           /\ RemoveFirst(s, x) \in Seq(S) /\ MovedUp(s, k, RemoveFirst(s, x))
<1> DEFINE I == {i \in 1..Len(s) : s[i] = x}
           k == Min(I)
<1>1. Len(s) \in Nat /\ DOMAIN s = 1..Len(s)
  OBVIOUS
<1>2. I \in SUBSET Nat /\ I # {}
  BY <1>1 DEF Contains
<1>3. k \in I /\ \A j \in I : k <= j
  <2> HIDE DEF I
  <2>1. \E n \in I : \A m \in I : n <= m
    BY <1>2, LeastNumber
  <2> QED
    BY <2>1 DEF Min
<1>4. RemoveFirst(s, x) = SubSeq(s, 1, k-1) \o SubSeq(s, k+1, Len(s))
  BY <1>2 DEF RemoveFirst, RemoveAt, SelectInSeq, Contains
<1> HIDE DEF k
<1>5. k \in 1..Len(s) /\ s[k] = x /\ \A j \in 1..Len(s) : s[j] = x => k <= j
  BY <1>3
<1> DEFINE a == SubSeq(s, 1, k-1)
           b == SubSeq(s, k+1, Len(s))
<1>6. /\ a \in Seq(S) /\ Len(a) = k - 1 /\ \A i \in 1..k-1 : a[i] = s[i]
  <2>1. /\ 1 \in Int /\ k - 1 \in Int /\ (\A i \in 1..k-1 : s[i] \in S)
        /\ k - 1 - 1 + 1 = k - 1 /\ \A i \in 1..k-1 : 1 + i - 1 = i
    BY <1>1, <1>5
  <2>2. /\ a \in Seq(S) /\ Len(a) = (IF 1 <= k - 1 THEN k - 1 - 1 + 1 ELSE 0)
        /\ \A i \in 1..k-1-1+1 : a[i] = s[1+i-1]
    <3> HIDE DEF MovedUp
    <3> QED
      BY <2>1, SubSeqProperties
  <2>3. Len(a) = k - 1
    BY <1>5, <2>2
  <2> HIDE DEF a
  <2> QED
    BY <2>1, <2>2, <2>3
<1>7. /\ b \in Seq(S) /\ Len(b) = Len(s) - k /\ \A i \in 1..Len(s)-k : b[i] = s[k+i]
  <2>1. /\ k + 1 \in Int /\ Len(s) \in Int /\ (\A i \in k+1..Len(s) : s[i] \in S)
        /\ Len(s) - (k + 1) + 1 = Len(s) - k
        /\ \A i \in 1..Len(s)-k : (k + 1) + i - 1 = k + i
    BY <1>1, <1>5
  <2>2. /\ b \in Seq(S) /\ Len(b) = (IF k + 1 <= Len(s) THEN Len(s) - (k + 1) + 1 ELSE 0)
        /\ \A i \in 1..Len(s)-(k+1)+1 : b[i] = s[(k+1)+i-1]
    BY <2>1, SubSeqProperties
  <2> HIDE DEF b
  <2>3. Len(b) = Len(s) - k
    <3>1. CASE k + 1 <= Len(s)
      BY <2>1, <2>2, <3>1
    <3>2. CASE ~(k + 1 <= Len(s))
      <4>1. Len(b) = IF k + 1 <= Len(s) THEN Len(s) - (k + 1) + 1 ELSE 0
        BY <2>2
      <4>2. k \in Nat /\ Len(s) \in Nat /\ k <= Len(s)
        BY <1>1, <1>5
      <4>3. k = Len(s)
        BY <3>2, <4>2
      <4>4. k = Len(s) /\ Len(b) = 0
        BY <3>2, <4>1, <4>3
      <4> QED
        BY <1>1, <4>4
    <3> QED
      BY <3>1, <3>2
  <2> QED
    BY <2>1, <2>2, <2>3
<1> HIDE DEF a, b
<1>8. /\ a \o b \in Seq(S) /\ Len(a \o b) = Len(s) - 1
      /\ \A i \in 1..Len(s)-1 : (a \o b)[i] = IF i < k THEN s[i] ELSE s[i+1]
  <2>0. /\ a \o b \in Seq(S) /\ Len(a \o b) = Len(a) + Len(b)
        /\ \A i \in 1..Len(a)+Len(b) :
             (a \o b)[i] = IF i <= Len(a) THEN a[i] ELSE b[i - Len(a)]
    BY <1>6, <1>7, ConcatProperties
  <2>1. a \o b \in Seq(S) /\ Len(a \o b) = Len(s) - 1
    BY <1>1, <1>5, <1>6, <1>7, <2>0
  <2>2. ASSUME NEW i \in 1..Len(s)-1
        PROVE  (a \o b)[i] = IF i < k THEN s[i] ELSE s[i+1]
    <3>0. i \in 1..Len(a)+Len(b)
      BY <1>1, <1>5, <1>6, <1>7
    <3>1. CASE i < k
      BY <1>1, <1>5, <1>6, <2>0, <3>0, <3>1
    <3>2. CASE ~(i < k)
      <4>1. (a \o b)[i] = b[i - (k - 1)] /\ i - (k-1) \in 1..Len(s)-k
        BY <1>1, <1>5, <1>6, <1>7, <2>0, <3>0, <3>2
      <4>2. b[i - (k-1)] = s[k + (i - (k-1))] /\ k + (i - (k-1)) = i + 1
        BY <1>5, <1>7, <4>1
      <4> QED
        BY <3>2, <4>1, <4>2
    <3> QED
      BY <3>1, <3>2
  <2> QED
    BY <2>1, <2>2
<1> QED
  BY <1>1, <1>4, <1>5, <1>8 DEF MovedUp, a, b

Back(k, i) == IF i < k THEN i ELSE i + 1

LEMMA MovedSpots ==
  ASSUME NEW S, NEW s \in Seq(S), NEW r \in Seq(S), NEW k \in DOMAIN s, MovedUp(s, k, r),
         NEW x
  PROVE  /\ \A i \in Spots(r, x) : Back(k, i) \in Spots(s, x) \ {k}
         /\ \A j \in Spots(s, x) \ {k} : \E i \in Spots(r, x) : Back(k, i) = j
         /\ \A i, j \in Nat : Back(k, i) = Back(k, j) => i = j
<1>1. /\ Len(s) \in Nat /\ DOMAIN s = 1..Len(s) /\ DOMAIN r = 1..Len(s)-1
      /\ k \in Nat
  BY DEF MovedUp
<1>2. ASSUME NEW i \in Spots(r, x) PROVE Back(k, i) \in Spots(s, x) \ {k}
  BY <1>1, <1>2 DEF MovedUp, Back, Spots
<1>3. ASSUME NEW j \in Spots(s, x) \ {k} PROVE \E i \in Spots(r, x) : Back(k, i) = j
  <2>1. CASE j < k
    <3>1. j \in Spots(r, x) /\ Back(k, j) = j
      BY <1>1, <1>3, <2>1 DEF MovedUp, Back, Spots
    <3> QED
      BY <3>1
  <2>2. CASE j > k
    <3>1. j - 1 \in Spots(r, x) /\ Back(k, j-1) = j
      BY <1>1, <1>3, <2>2 DEF MovedUp, Back, Spots
    <3> QED
      BY <3>1
  <2> QED
    BY <1>1, <2>1, <2>2 DEF Spots
<1>4. \A i, j \in Nat : Back(k, i) = Back(k, j) => i = j
  BY <1>1 DEF Back
<1> QED
  BY <1>2, <1>3, <1>4

LEMMA SameSize ==
  ASSUME NEW S, NEW T, NEW f \in [S -> T], IsFiniteSet(T),
         \A x, y \in S : f[x] = f[y] => x = y,
         \A y \in T : \E x \in S : f[x] = y
  PROVE  IsFiniteSet(S) /\ Cardinality(S) = Cardinality(T)
<1>1. f \in Injection(S, T) /\ f \in Surjection(S, T)
  BY DEF Injection, IsInjective, Surjection
<1> QED
  BY <1>1, FS_Injection

-----------------------------------------------------------------------------
(* The lists of subscribers.  As long as no two first subscribers of a type *)
(* came at the same time, each key has a list of its own, and in it every   *)
(* handler is as often as it is subscribed.                                 *)
SubStates == {"idle", "creating", "appending", "in", "out"}

BusTyped ==
  /\ keys \in Seq(Types) /\ lists \in Seq(Seq(Handlers))
  /\ listOf \in [Types -> Nat] /\ sub \in [Subs -> SubStates]

ListsApart ==
  /\ \A a, b \in DOMAIN keys : keys[a] = keys[b] => a = b
  /\ \A t \in Types : Has(t) => listOf[t] \in DOMAIN lists
  /\ \A t, u \in Types : Has(t) /\ Has(u) /\ listOf[t] = listOf[u] => t = u

CreatorsAlone ==
  \A c \in Subs :
    /\ sub[c] = "creating" =>
         /\ ~Has(KeyOf[c])
         /\ \A d \in Subs : sub[d] = "creating" /\ KeyOf[d] = KeyOf[c] => d = c
    /\ sub[c] \in {"appending", "in", "out"} => Has(KeyOf[c])

Members(t, h) == {c \in Subs : sub[c] = "in" /\ KeyOf[c] = t /\ HandlerOf[c] = h}

Balanced ==
  \A t \in Types, h \in Handlers :
    /\ IsFiniteSet(Members(t, h))
    /\ Cardinality(Spots(ListOf(t), h)) = Cardinality(Members(t, h))

LEMMA SubTypes ==
  ASSUME NEW c \in Subs PROVE KeyOf[c] \in Types /\ HandlerOf[c] \in Handlers
BY EventBusAssumption DEF Types

LEMMA ListTyped ==
  ASSUME BusTyped, ListsApart, NEW t \in Types
  PROVE  ListOf(t) \in Seq(Handlers)
BY DEF BusTyped, ListsApart, ListOf

LEMMA SpotsFinite ==
  ASSUME NEW S, NEW s \in Seq(S), NEW x
  PROVE  IsFiniteSet(Spots(s, x)) /\ Cardinality(Spots(s, x)) \in Nat
<1>1. DOMAIN s = 1..Len(s) /\ Len(s) \in Int
  OBVIOUS
<1>2. Spots(s, x) \in SUBSET (1..Len(s)) /\ IsFiniteSet(1..Len(s))
  BY <1>1, FS_Interval DEF Spots
<1> QED
  BY <1>2, FS_Subset, FS_CardinalityType

(* What a change of one list is to the lists of all types.                  *)
LEMMA OneListChanges ==
  ASSUME BusTyped, ListsApart, NEW k \in Types, Has(k), NEW s \in Seq(Handlers),
         keys' = keys, listOf' = listOf, lists' = [lists EXCEPT ![listOf[k]] = s]
  PROVE  /\ lists' \in Seq(Seq(Handlers)) /\ DOMAIN lists' = DOMAIN lists
         /\ ListOf(k)' = s
         /\ \A t \in Types \ {k} : ListOf(t)' = ListOf(t)
         /\ \A t : Has(t)' = Has(t)
<1>1. \A t : Has(t)' = Has(t)
  BY DEF Has, Contains
<1>2. listOf[k] \in DOMAIN lists /\ DOMAIN lists = 1..Len(lists)
  BY DEF ListsApart, BusTyped
<1>3. lists' \in Seq(Seq(Handlers)) /\ DOMAIN lists' = DOMAIN lists
  <2> DEFINE T == Seq(Handlers)
  <2>1. lists \in Seq(T) /\ s \in T
    BY DEF BusTyped
  <2> HIDE DEF T
  <2>2. lists' \in Seq(T)
    BY <1>2, <2>1, ExceptSeq
  <2> QED
    BY <2>2 DEF T
<1>4. ListOf(k)' = s
  BY <1>1, <1>2 DEF ListOf
<1>5. ASSUME NEW t \in Types \ {k} PROVE ListOf(t)' = ListOf(t)
  <2>1. CASE Has(t)
    <3>1. listOf[t] # listOf[k] /\ listOf[t] \in DOMAIN lists
      BY <2>1 DEF ListsApart
    <3>2. lists'[listOf[t]] = lists[listOf[t]]
      BY <3>1
    <3> QED
      BY <1>1, <2>1, <3>2 DEF ListOf
  <2>2. CASE ~Has(t)
    BY <1>1, <2>2 DEF ListOf
  <2> QED
    BY <2>1, <2>2
<1> QED
  BY <1>1, <1>3, <1>4, <1>5

(* A handler is appended to the list of its key.                            *)
HandlerAdded(c) ==
  /\ lists' \in Seq(Seq(Handlers)) /\ DOMAIN lists' = DOMAIN lists
  /\ ListOf(KeyOf[c])' = Append(ListOf(KeyOf[c]), HandlerOf[c])
  /\ \A t \in Types \ {KeyOf[c]} : ListOf(t)' = ListOf(t)
  /\ \A t : Has(t)' = Has(t)

LEMMA ListedAdds ==
  ASSUME BusTyped, ListsApart, NEW c \in Subs, Has(KeyOf[c]),
         keys' = keys, listOf' = listOf, lists' = Listed(c)
  PROVE  HandlerAdded(c)
<1> DEFINE k == KeyOf[c]
           s == Append(ListOf(k), HandlerOf[c])
<1>1. k \in Types /\ HandlerOf[c] \in Handlers
  BY SubTypes
<1>2. s \in Seq(Handlers)
  BY <1>1, ListTyped
<1>3. lists' = [lists EXCEPT ![listOf[k]] = s]
  BY DEF Listed, ListOf
<1> HIDE DEF s
<1>4. /\ lists' \in Seq(Seq(Handlers)) /\ DOMAIN lists' = DOMAIN lists
      /\ ListOf(k)' = s
      /\ \A t \in Types \ {k} : ListOf(t)' = ListOf(t)
      /\ \A t : Has(t)' = Has(t)
  <2> HIDE DEF k
  <2>1. Has(k)
    BY DEF k
  <2> QED
    BY <1>1, <1>2, <1>3, <2>1, OneListChanges
<1> QED
  BY <1>4 DEF HandlerAdded, s

(* One occurrence of a handler is taken from the list of its key.           *)
HandlerRemoved(c, k) ==
  /\ lists' \in Seq(Seq(Handlers)) /\ DOMAIN lists' = DOMAIN lists
  /\ ListOf(KeyOf[c])' \in Seq(Handlers)
  /\ k \in DOMAIN ListOf(KeyOf[c]) /\ ListOf(KeyOf[c])[k] = HandlerOf[c]
  /\ \A j \in DOMAIN ListOf(KeyOf[c]) : ListOf(KeyOf[c])[j] = HandlerOf[c] => k <= j
  /\ MovedUp(ListOf(KeyOf[c]), k, ListOf(KeyOf[c])')
  /\ \A t \in Types \ {KeyOf[c]} : ListOf(t)' = ListOf(t)
  /\ \A t : Has(t)' = Has(t)

LEMMA MembersAreListed ==
  ASSUME BusTyped, ListsApart, CreatorsAlone, Balanced, NEW c \in Subs, sub[c] = "in"
  PROVE  Contains(ListOf(KeyOf[c]), HandlerOf[c])
<1> DEFINE t == KeyOf[c]
           h == HandlerOf[c]
<1>1. t \in Types /\ h \in Handlers
  BY SubTypes
<1>2. c \in Members(t, h) /\ IsFiniteSet(Members(t, h))
      /\ Cardinality(Spots(ListOf(t), h)) = Cardinality(Members(t, h))
  BY <1>1 DEF Balanced, Members
<1>3. Spots(ListOf(t), h) # {}
  <2>1. Cardinality(Members(t, h)) # 0
    <3> HIDE DEF t, h
    <3> QED
      BY <1>2, FS_EmptySet
  <2> QED
    BY <1>2, <2>1, FS_EmptySet
<1> QED
  BY <1>1, <1>3, ListTyped DEF Spots, Contains

LEMMA UnsubscribeRemoves ==
  ASSUME BusTyped, ListsApart, CreatorsAlone, Balanced, NEW c \in Subs, Unsubscribe(c)
  PROVE  \E k : HandlerRemoved(c, k)
<1> DEFINE t == KeyOf[c]
           h == HandlerOf[c]
           s == ListOf(t)
           r == RemoveFirst(s, h)
<1>1. /\ t \in Types /\ h \in Handlers /\ Has(t) /\ s \in Seq(Handlers)
      /\ Contains(s, h)
      /\ keys' = keys /\ listOf' = listOf
  <2>1. t \in Types /\ h \in Handlers
    BY SubTypes
  <2>2. sub[c] = "in" /\ keys' = keys /\ listOf' = listOf
    BY DEF Unsubscribe
  <2> QED
    BY <2>1, <2>2, ListTyped, MembersAreListed DEF CreatorsAlone
<1>2. PICK k \in DOMAIN s :
        /\ s[k] = h /\ \A j \in DOMAIN s : s[j] = h => k <= j
        /\ r \in Seq(Handlers) /\ MovedUp(s, k, r)
  <2> HIDE DEF s, h
  <2> QED
    BY <1>1, FirstRemoved
<1>3. lists' = [lists EXCEPT ![listOf[t]] = r]
  BY <1>1 DEF Unsubscribe, ListOf
<1>4. /\ lists' \in Seq(Seq(Handlers)) /\ DOMAIN lists' = DOMAIN lists
      /\ ListOf(t)' = r
      /\ \A u \in Types \ {t} : ListOf(u)' = ListOf(u)
      /\ \A u : Has(u)' = Has(u)
  <2> HIDE DEF t, r
  <2> QED
    BY <1>1, <1>2, <1>3, OneListChanges
<1>5. HandlerRemoved(c, k)
  <2> HIDE DEF r
  <2> QED
    BY <1>2, <1>4 DEF HandlerRemoved
<1> QED
  BY <1>5

LEMMA SpotsRemoved ==
  ASSUME NEW S, NEW s \in Seq(S), NEW r \in Seq(S), NEW k \in DOMAIN s, MovedUp(s, k, r),
         NEW x
  PROVE  Cardinality(Spots(r, x)) = Cardinality(Spots(s, x) \ {k})
<1> DEFINE f == [i \in Spots(r, x) |-> Back(k, i)]
<1>1. IsFiniteSet(Spots(s, x) \ {k})
  BY SpotsFinite, FS_RemoveElement
<1>2. Spots(r, x) \subseteq Nat
  BY DEF Spots
<1>3. /\ f \in [Spots(r, x) -> Spots(s, x) \ {k}]
      /\ \A i, j \in Spots(r, x) : f[i] = f[j] => i = j
      /\ \A j \in Spots(s, x) \ {k} : \E i \in Spots(r, x) : f[i] = j
  BY <1>2, MovedSpots
<1> HIDE DEF f
<1> QED
  BY <1>1, <1>3, SameSize

LEMMA BalanceAdds ==
  ASSUME BusTyped, ListsApart, Balanced, NEW c \in Subs, sub[c] # "in",
         sub' = [sub EXCEPT ![c] = "in"], HandlerAdded(c)
  PROVE  Balanced'
<1> SUFFICES ASSUME NEW t \in Types, NEW h \in Handlers
             PROVE  /\ IsFiniteSet(Members(t, h)')
                    /\ Cardinality(Spots(ListOf(t)', h)) = Cardinality(Members(t, h)')
  BY DEF Balanced, Spots
<1>1. /\ IsFiniteSet(Members(t, h)) /\ IsFiniteSet(Spots(ListOf(t), h))
      /\ Cardinality(Spots(ListOf(t), h)) = Cardinality(Members(t, h))
      /\ ListOf(t) \in Seq(Handlers)
  BY ListTyped, SpotsFinite DEF Balanced
<1>2. sub \in [Subs -> SubStates] /\ HandlerOf[c] \in Handlers /\ KeyOf[c] \in Types
  BY SubTypes DEF BusTyped
<1>3. CASE t = KeyOf[c] /\ h = HandlerOf[c]
  <2>1. Members(t, h)' = Members(t, h) \cup {c} /\ c \notin Members(t, h)
    BY <1>2, <1>3 DEF Members
  <2>2. /\ Spots(ListOf(t)', h) = Spots(ListOf(t), h) \cup {Len(ListOf(t)) + 1}
        /\ Len(ListOf(t)) + 1 \notin Spots(ListOf(t), h)
    <3>1. ListOf(t)' = Append(ListOf(t), h)
      BY <1>3 DEF HandlerAdded
    <3>2. /\ Spots(Append(ListOf(t), h), h) = Spots(ListOf(t), h) \cup {Len(ListOf(t)) + 1}
          /\ Len(ListOf(t)) + 1 \notin Spots(ListOf(t), h)
      BY <1>1, SpotsAppend
    <3> QED
      BY <3>1, <3>2
  <2>3. /\ IsFiniteSet(Members(t, h) \cup {c})
        /\ Cardinality(Members(t, h) \cup {c}) = Cardinality(Members(t, h)) + 1
    BY <1>1, <2>1, FS_AddElement
  <2>4. Cardinality(Spots(ListOf(t), h) \cup {Len(ListOf(t)) + 1})
          = Cardinality(Spots(ListOf(t), h)) + 1
    BY <1>1, <2>2, FS_AddElement
  <2> QED
    BY <1>1, <2>1, <2>2, <2>3, <2>4
<1>4. CASE ~(t = KeyOf[c] /\ h = HandlerOf[c])
  <2>1. Members(t, h)' = Members(t, h)
    BY <1>2, <1>4 DEF Members
  <2>2. Spots(ListOf(t)', h) = Spots(ListOf(t), h)
    <3>1. CASE t = KeyOf[c]
      <4>1. ListOf(t)' = Append(ListOf(t), HandlerOf[c]) /\ h # HandlerOf[c]
        BY <1>4, <3>1 DEF HandlerAdded
      <4>2. Spots(Append(ListOf(t), HandlerOf[c]), h) = Spots(ListOf(t), h)
        BY <1>1, <1>2, <4>1, SpotsAppend
      <4> QED
        BY <4>1, <4>2
    <3>2. CASE t # KeyOf[c]
      BY <3>2 DEF HandlerAdded
    <3> QED
      BY <3>1, <3>2
  <2> QED
    BY <1>1, <2>1, <2>2
<1> QED
  BY <1>3, <1>4

LEMMA BalanceRemoves ==
  ASSUME BusTyped, ListsApart, Balanced, NEW c \in Subs, sub[c] = "in",
         sub' = [sub EXCEPT ![c] = "out"], NEW k, HandlerRemoved(c, k)
  PROVE  Balanced'
<1> SUFFICES ASSUME NEW t \in Types, NEW h \in Handlers
             PROVE  /\ IsFiniteSet(Members(t, h)')
                    /\ Cardinality(Spots(ListOf(t)', h)) = Cardinality(Members(t, h)')
  BY DEF Balanced, Spots
<1>1. /\ IsFiniteSet(Members(t, h)) /\ IsFiniteSet(Spots(ListOf(t), h))
      /\ Cardinality(Spots(ListOf(t), h)) = Cardinality(Members(t, h))
      /\ ListOf(t) \in Seq(Handlers)
  BY ListTyped, SpotsFinite DEF Balanced
<1>2. sub \in [Subs -> SubStates] /\ HandlerOf[c] \in Handlers /\ KeyOf[c] \in Types
  BY SubTypes DEF BusTyped
<1>3. CASE t = KeyOf[c]
  <2>1. /\ k \in DOMAIN ListOf(t) /\ ListOf(t)' \in Seq(Handlers)
        /\ ListOf(t)[k] = HandlerOf[c]
        /\ MovedUp(ListOf(t), k, ListOf(t)')
    BY <1>3 DEF HandlerRemoved
  <2>2. Cardinality(Spots(ListOf(t)', h)) = Cardinality(Spots(ListOf(t), h) \ {k})
    BY <1>1, <2>1, SpotsRemoved
  <2>3. CASE h = HandlerOf[c]
    <3>1. Members(t, h)' = Members(t, h) \ {c} /\ c \in Members(t, h)
      BY <1>2, <1>3, <2>3 DEF Members
    <3>2. k \in Spots(ListOf(t), h)
      BY <2>1, <2>3 DEF Spots
    <3>3. /\ IsFiniteSet(Members(t, h) \ {c})
          /\ Cardinality(Members(t, h) \ {c}) = Cardinality(Members(t, h)) - 1
      BY <1>1, <3>1, FS_RemoveElement
    <3>4. Cardinality(Spots(ListOf(t), h) \ {k}) = Cardinality(Spots(ListOf(t), h)) - 1
      BY <1>1, <3>2, FS_RemoveElement
    <3> QED
      BY <1>1, <2>2, <3>1, <3>3, <3>4
  <2>4. CASE h # HandlerOf[c]
    <3>1. Members(t, h)' = Members(t, h)
      BY <1>2, <2>4 DEF Members
    <3>2. Spots(ListOf(t), h) \ {k} = Spots(ListOf(t), h)
      BY <2>1, <2>4 DEF Spots
    <3> QED
      BY <1>1, <2>2, <3>1, <3>2
  <2> QED
    BY <2>3, <2>4
<1>4. CASE t # KeyOf[c]
  <2>1. Members(t, h)' = Members(t, h)
    BY <1>2, <1>4 DEF Members
  <2>2. ListOf(t)' = ListOf(t)
    BY <1>4 DEF HandlerRemoved
  <2> QED
    BY <1>1, <2>1, <2>2
<1> QED
  BY <1>3, <1>4

BusOK == BusTyped /\ ListsApart /\ CreatorsAlone /\ Balanced

(* The first subscriber of a type creates its list, alone.                  *)
LEMMA CreateKeeps ==
  ASSUME BusOK, NEW c \in Subs, CreateList(c)
  PROVE  /\ BusOK' /\ \A t \in Types : ListOf(t)' = ListOf(t)
         /\ ~Has(KeyOf[c]) /\ keys' = Append(keys, KeyOf[c])
         /\ Len(lists') = Len(lists) + 1
         /\ \A n \in DOMAIN lists : lists'[n] = lists[n]
         /\ \A t \in Types : Has(t) => listOf'[t] = listOf[t]
<1> DEFINE k == KeyOf[c]
<1>1. k \in Types /\ ~Has(k) /\ sub[c] = "creating"
  BY SubTypes DEF CreateList, BusOK, CreatorsAlone
<1>2. /\ keys' = Append(keys, k) /\ lists' = Append(lists, <<>>)
      /\ sub' = [sub EXCEPT ![c] = "appending"]
      /\ listOf' = [listOf EXCEPT ![k] = Len(lists')]
  BY <1>1 DEF CreateList
<1>3. /\ keys \in Seq(Types) /\ lists \in Seq(Seq(Handlers)) /\ listOf \in [Types -> Nat]
      /\ sub \in [Subs -> SubStates]
  BY DEF BusOK, BusTyped
<1>4. /\ lists' \in Seq(Seq(Handlers)) /\ Len(lists') = Len(lists) + 1
      /\ \A n \in DOMAIN lists : n \in DOMAIN lists' /\ lists'[n] = lists[n]
      /\ lists'[Len(lists) + 1] = <<>> /\ Len(lists) + 1 \in DOMAIN lists'
      /\ Len(lists) + 1 \notin DOMAIN lists
  <2> DEFINE T == Seq(Handlers)
  <2>1. lists \in Seq(T) /\ <<>> \in T
    BY <1>3
  <2> HIDE DEF T
  <2>2. lists' \in Seq(T)
    BY <1>2, <2>1
  <2>3. /\ DOMAIN lists = 1..Len(lists) /\ Len(lists) \in Nat
        /\ DOMAIN lists' = 1..Len(lists)+1 /\ Len(lists') = Len(lists) + 1
    BY <1>2, <2>1
  <2>4. \A n \in 1..Len(lists) : lists'[n] = lists[n]
    BY <1>2, <2>1
  <2>5. lists'[Len(lists) + 1] = <<>>
    BY <1>2, <2>1
  <2> QED
    BY <2>2, <2>3, <2>4, <2>5 DEF T
<1>5. /\ keys' \in Seq(Types) /\ Len(keys') = Len(keys) + 1 /\ Len(keys) \in Nat
      /\ \A i \in 1..Len(keys) : keys'[i] = keys[i]
      /\ keys'[Len(keys) + 1] = k
  BY <1>1, <1>2, <1>3
<1>6. \A t : Has(t)' <=> Has(t) \/ t = k
  <2>1. \A i : i \in 1..Len(keys') <=> i \in 1..Len(keys) \/ i = Len(keys) + 1
    BY <1>5
  <2> QED
    BY <1>5, <2>1 DEF Has, Contains
<1>7. /\ listOf' \in [Types -> Nat] /\ listOf'[k] = Len(lists) + 1
      /\ \A t \in Types \ {k} : listOf'[t] = listOf[t]
  <2>1. Len(lists) + 1 \in Nat
    BY <1>3
  <2> QED
    BY <1>1, <1>2, <1>3, <1>4, <2>1
<1>8. BusTyped'
  BY <1>2, <1>3, <1>4, <1>5, <1>7 DEF BusTyped, SubStates
<1>9. ListsApart'
  <2>1. \A a, b \in DOMAIN keys' : keys'[a] = keys'[b] => a = b
    <3>1. DOMAIN keys' = 1..Len(keys)+1 /\ DOMAIN keys = 1..Len(keys)
      BY <1>3, <1>5
    <3>2. \A a \in 1..Len(keys) : keys[a] # k
      BY <1>1 DEF Has, Contains
    <3>3. \A a \in 1..Len(keys)+1 : a \in 1..Len(keys) \/ a = Len(keys) + 1
      BY <1>5
    <3> QED
      BY <1>5, <3>1, <3>2, <3>3 DEF BusOK, ListsApart
  <2>2. \A t \in Types : Has(t)' => listOf'[t] \in DOMAIN lists'
    BY <1>4, <1>6, <1>7 DEF BusOK, ListsApart
  <2>3. \A t, u \in Types : Has(t)' /\ Has(u)' /\ listOf'[t] = listOf'[u] => t = u
    <3>1. \A t \in Types \ {k} : Has(t)' => listOf'[t] # Len(lists) + 1
      BY <1>4, <1>6, <1>7 DEF BusOK, ListsApart
    <3> QED
      BY <1>6, <1>7, <3>1 DEF BusOK, ListsApart
  <2> QED
    BY <2>1, <2>2, <2>3 DEF ListsApart
<1>10. ASSUME NEW t \in Types PROVE ListOf(t)' = ListOf(t)
  <2>1. CASE t = k
    BY <1>1, <1>4, <1>6, <1>7, <2>1 DEF ListOf
  <2>2. CASE t # k /\ Has(t)
    BY <1>4, <1>6, <1>7, <2>2 DEF ListOf, BusOK, ListsApart
  <2>3. CASE t # k /\ ~Has(t)
    BY <1>6, <2>3 DEF ListOf
  <2> QED
    BY <2>1, <2>2, <2>3
<1>11. CreatorsAlone'
  BY <1>1, <1>2, <1>3, <1>6 DEF BusOK, CreatorsAlone
<1>12. Balanced'
  <2>1. \A t, h : Members(t, h)' = Members(t, h)
    BY <1>1, <1>2, <1>3 DEF Members
  <2> QED
    BY <1>10, <2>1 DEF BusOK, Balanced, Spots
<1>13. \A t \in Types : Has(t) => listOf'[t] = listOf[t]
  BY <1>1, <1>7
<1> QED
  BY <1>1, <1>2, <1>4, <1>8, <1>9, <1>10, <1>11, <1>12, <1>13 DEF BusOK

LEMMA SubscribeKeeps ==
  ASSUME BusOK, NEW c \in Subs, Subscribe(c), raced' = {}
  PROVE  /\ BusOK'
         /\ \/ HandlerAdded(c) /\ Has(KeyOf[c]) /\ keys' = keys /\ listOf' = listOf
            \/ UNCHANGED bus
<1>1. sub \in [Subs -> SubStates] /\ sub[c] = "idle" /\ keys' = keys /\ listOf' = listOf
  BY DEF BusOK, BusTyped, Subscribe
<1>2. CASE Missing(c)
  <2>1. UNCHANGED bus /\ sub' = [sub EXCEPT ![c] = "creating"] /\ ~Has(KeyOf[c])
    BY <1>2 DEF Subscribe, Missing, bus
  <2>2. \A d \in Subs \ {c} : ~(sub[d] = "creating" /\ KeyOf[d] = KeyOf[c])
    BY DEF Subscribe
  <2>3. (\A t : Has(t)' = Has(t)) /\ (\A t : ListOf(t)' = ListOf(t))
    BY <2>1 DEF Has, Contains, ListOf, bus
  <2>4. BusTyped' /\ ListsApart'
    BY <1>1, <2>1, <2>3 DEF BusOK, BusTyped, ListsApart, SubStates, bus
  <2>5. CreatorsAlone'
    BY <1>1, <2>1, <2>2, <2>3 DEF BusOK, CreatorsAlone
  <2>6. \A t, h : Members(t, h)' = Members(t, h)
    BY <1>1, <2>1 DEF Members
  <2>7. Balanced'
    BY <2>3, <2>6 DEF BusOK, Balanced, Spots
  <2> QED
    BY <2>1, <2>4, <2>5, <2>7 DEF BusOK
<1>3. CASE ~Missing(c)
  <2>1. /\ Has(KeyOf[c]) /\ lists' = Listed(c)
        /\ sub' = [sub EXCEPT ![c] = "in"]
    BY <1>3 DEF Subscribe, Missing
  <2>2. HandlerAdded(c)
    BY <1>1, <2>1, ListedAdds DEF BusOK
  <2>3. BusTyped' /\ ListsApart'
    BY <1>1, <2>1, <2>2 DEF BusOK, BusTyped, ListsApart, SubStates, HandlerAdded
  <2>4. CreatorsAlone'
    BY <1>1, <2>1, <2>2 DEF BusOK, CreatorsAlone, HandlerAdded
  <2>5. Balanced'
    BY <1>1, <2>1, <2>2, BalanceAdds DEF BusOK
  <2> QED
    BY <1>1, <2>1, <2>2, <2>3, <2>4, <2>5 DEF BusOK
<1> QED
  BY <1>2, <1>3

LEMMA AppendKeeps ==
  ASSUME BusOK, NEW c \in Subs, AppendHandler(c)
  PROVE  BusOK' /\ HandlerAdded(c) /\ Has(KeyOf[c])
<1>1. /\ sub \in [Subs -> SubStates] /\ sub[c] = "appending" /\ keys' = keys
      /\ listOf' = listOf /\ lists' = Listed(c) /\ sub' = [sub EXCEPT ![c] = "in"]
  BY DEF BusOK, BusTyped, AppendHandler
<1>2. Has(KeyOf[c]) /\ HandlerAdded(c)
  BY <1>1, ListedAdds DEF BusOK, CreatorsAlone
<1>3. BusTyped' /\ ListsApart'
  BY <1>1, <1>2 DEF BusOK, BusTyped, ListsApart, SubStates, HandlerAdded
<1>4. CreatorsAlone'
  BY <1>1, <1>2 DEF BusOK, CreatorsAlone, HandlerAdded
<1>5. Balanced'
  BY <1>1, <1>2, BalanceAdds DEF BusOK
<1> QED
  BY <1>2, <1>3, <1>4, <1>5 DEF BusOK

LEMMA UnsubscribeKeeps ==
  ASSUME BusOK, NEW c \in Subs, Unsubscribe(c)
  PROVE  BusOK' /\ Has(KeyOf[c]) /\ \E k : HandlerRemoved(c, k)
<1>1. /\ sub \in [Subs -> SubStates] /\ sub[c] = "in" /\ keys' = keys
      /\ listOf' = listOf /\ sub' = [sub EXCEPT ![c] = "out"]
  BY DEF BusOK, BusTyped, Unsubscribe
<1>2. PICK k : HandlerRemoved(c, k)
  BY UnsubscribeRemoves DEF BusOK
<1>3. Has(KeyOf[c])
  BY <1>1 DEF BusOK, CreatorsAlone
<1>4. BusTyped' /\ ListsApart'
  BY <1>1, <1>2 DEF BusOK, BusTyped, ListsApart, SubStates, HandlerRemoved
<1>5. CreatorsAlone'
  BY <1>1, <1>2, <1>3 DEF BusOK, CreatorsAlone, HandlerRemoved
<1>6. Balanced'
  BY <1>1, <1>2, BalanceRemoves DEF BusOK
<1> QED
  BY <1>2, <1>3, <1>4, <1>5, <1>6 DEF BusOK

\* The other steps do not touch the subscribers.
LEMMA BusFixed ==
  ASSUME BusOK, UNCHANGED <<bus, sub>>
  PROVE  BusOK' /\ (\A t : ListOf(t)' = ListOf(t)) /\ (\A t : Has(t)' = Has(t))
<1>1. (\A t : Has(t)' = Has(t)) /\ (\A t : ListOf(t)' = ListOf(t))
  BY DEF Has, Contains, ListOf, bus
<1>2. \A t, h : Members(t, h)' = Members(t, h)
  BY DEF Members
<1>3. Balanced'
  BY <1>1, <1>2 DEF BusOK, Balanced, Spots
<1> QED
  BY <1>1, <1>3 DEF BusOK, BusTyped, ListsApart, CreatorsAlone, bus

BusInv == raced = {} => BusOK

LEMMA RacedStays ==
  ASSUME [Next]_vars PROVE raced' = {} => raced = {}
BY DEF Next, WorkerStep, vars, Persist, Put, Subscribe, CreateList, AppendHandler,
  Unsubscribe, Begin, Loop, Get, Timeout, Call, EndOfList, NextKey, EndOfKeys, Stop

\* Subscribers come and go in four steps only.
Subscribing ==
  \E c \in Subs : Subscribe(c) \/ CreateList(c) \/ AppendHandler(c) \/ Unsubscribe(c)

LEMMA OthersLeaveBus ==
  ASSUME [Next]_vars, ~Subscribing PROVE UNCHANGED <<bus, sub>>
BY DEF Next, WorkerStep, Subscribing, vars, Persist, Put, Begin, Loop, Get, Timeout,
  Call, EndOfList, NextKey, EndOfKeys, Stop

LEMMA BusInvariant == Spec => []BusInv
<1>1. Init => BusInv
  <2> SUFFICES ASSUME Init PROVE BusOK
    BY DEF BusInv
  <2>1. (\A t : ~Has(t)) /\ (\A t : ListOf(t) = <<>>)
    BY DEF Init, Has, Contains, ListOf
  <2>2. BusTyped /\ ListsApart /\ CreatorsAlone
    BY <2>1 DEF Init, BusTyped, ListsApart, CreatorsAlone, SubStates
  <2>3. \A t, h : Members(t, h) = {} /\ Spots(ListOf(t), h) = {}
    BY <2>1 DEF Init, Members, Spots
  <2>4. Balanced
    BY <2>3, FS_EmptySet DEF Balanced
  <2> QED
    BY <2>2, <2>4 DEF BusOK
<1>2. BusInv /\ [Next]_vars => BusInv'
  <2> SUFFICES ASSUME BusInv, [Next]_vars, raced' = {} PROVE BusOK'
    BY DEF BusInv
  <2>1. BusOK
    BY RacedStays DEF BusInv
  <2>2. CASE Subscribing
    BY <2>1, <2>2, SubscribeKeeps, CreateKeeps, AppendKeeps, UnsubscribeKeeps
      DEF Subscribing
  <2>3. CASE ~Subscribing
    BY <2>1, <2>3, OthersLeaveBus, BusFixed
  <2> QED
    BY <2>2, <2>3
<1> QED
  BY <1>1, <1>2, PTL DEF Spec

\* Whoever has subscribed and not left is in the list of the type, however often
\* others, or the same handler, subscribe and leave.
THEOREM SubscribersListed == Spec => []SubscribedIsListed
<1>1. BusInv => SubscribedIsListed
  BY MembersAreListed DEF BusInv, BusOK, SubscribedIsListed
<1> QED
  BY <1>1, BusInvariant, PTL

-----------------------------------------------------------------------------
(* Every event is delivered once: what is queued is new to the handlers.    *)
FreshInv ==
  /\ \A a, b \in DOMAIN queue : queue[a] = queue[b] => a = b
  /\ \A h \in Handlers : \A a \in DOMAIN log[h], b \in DOMAIN queue : log[h][a] # queue[b]
  /\ Delivering => \A b \in DOMAIN queue : queue[b] # worker.event

LEMMA CurrentIsNew ==
  ASSUME EmittersOK, NEW m \in Emitters, HasNext(m)
  PROVE  ~Past(Current(m))
<1> USE EmitsTyped DEF EmittersOK
<1>1. emitted[m] \in Nat /\ emitted[m] + 1 \in DOMAIN Emits[m]
  BY DEF HasNext
<1>2. ASSUME NEW n \in Emitters, NEW i \in 1..emitted[n], Emits[n][i] = Current(m)
      PROVE  FALSE
  <2>1. emitted[n] \in Nat /\ emitted[n] <= Len(Emits[n])
    OBVIOUS
  <2>2. i \in DOMAIN Emits[n] /\ i <= emitted[n]
    BY <2>1
  <2>3. n = m /\ i = emitted[m] + 1
    BY <1>1, <1>2, <2>2, EventBusAssumption DEF Current
  <2> QED
    BY <1>1, <2>2, <2>3
<1> QED
  BY <1>2 DEF Past

\* Neither the queue, nor the calls, nor the event that is delivered change
\* but in a step of Put, Get or Call.
LEMMA OrderQuiet ==
  ASSUME OrderInv, [Next]_vars, ~(\E m \in Emitters : Put(m)), ~Get, ~Call
  PROVE  /\ queue' = queue /\ log' = log
         /\ Delivering' => Delivering /\ worker'.event = worker.event
<1>1. DOMAIN worker = {"at", "event", "list", "i", "k", "n"}
  BY DEF OrderInv, WorkerInv
<1>2. CASE UNCHANGED worker
  BY <1>2 DEF Next, WorkerStep, vars, Persist, Subscribe, CreateList, AppendHandler,
    Unsubscribe, Begin, Loop, Timeout, EndOfList, NextKey, EndOfKeys, Stop, Delivering
<1>3. CASE Begin \/ Timeout \/ EndOfKeys
  BY <1>3 DEF Begin, Timeout, EndOfKeys, AfterKeys, Resting, Delivering
<1>4. CASE Loop
  BY <1>1, <1>4 DEF Loop, Delivering
<1>5. CASE EndOfList
  BY <1>1, <1>5 DEF EndOfList, Delivering
<1>6. CASE NextKey
  BY <1>1, <1>6 DEF NextKey, Delivering
<1>7. UNCHANGED worker \/ Begin \/ Timeout \/ EndOfKeys \/ Loop \/ EndOfList \/ NextKey
  BY DEF Next, WorkerStep, vars, Persist, Subscribe, CreateList, AppendHandler,
    Unsubscribe, Stop
<1> QED
  BY <1>2, <1>3, <1>4, <1>5, <1>6, <1>7

LEMMA FreshKeeps ==
  ASSUME OrderInv, FreshInv, [Next]_vars
  PROVE  FreshInv'
<1>1. CASE \E m \in Emitters : Put(m)
  <2>1. PICK m \in Emitters : Put(m)
    BY <1>1
  <2>2. /\ queue' = queue \/ queue' = Append(queue, Current(m))
        /\ log' = log /\ worker' = worker /\ HasNext(m)
    BY <2>1 DEF Put, Enqueue, OrderInv, EmittersOK
  <2>3. PICK e \in Events : e = Current(m) /\ ~Past(e)
    BY <2>2, CurrentIsLast, CurrentIsNew DEF OrderInv
  <2>4. CASE queue' = queue
    BY <2>2, <2>4 DEF FreshInv, Delivering
  <2>5. CASE queue' = Append(queue, e)
    <3>1. queue \in Seq(Events)
      BY DEF OrderInv, QueueInv
    <3>2. \A b \in DOMAIN queue' : (b \in DOMAIN queue /\ queue'[b] = queue[b])
                                   \/ (b = Len(queue) + 1 /\ queue'[b] = e)
      BY <2>5, <3>1
    <3>3. /\ \A b \in DOMAIN queue : queue[b] # e
          /\ \A h \in Handlers : \A a \in DOMAIN log[h] : log[h][a] # e
          /\ Delivering => worker.event # e
      BY <2>3 DEF OrderInv, QueueInv, LogInv, WorkerInv
    <3> QED
      BY <2>2, <3>2, <3>3 DEF FreshInv, Delivering
  <2> QED
    BY <2>2, <2>3, <2>4, <2>5
<1>2. CASE Get
  <2>1. /\ queue # <<>> /\ queue' = Tail(queue) /\ log' = log
        /\ worker'.event = Head(queue) /\ queue \in Seq(Events)
    BY <1>2 DEF Get, OrderInv, WorkerInv, QueueInv
  <2>2. /\ 1 \in DOMAIN queue /\ Head(queue) = queue[1]
        /\ \A b \in DOMAIN queue' :
             b + 1 \in DOMAIN queue /\ queue'[b] = queue[b+1] /\ b + 1 # 1 /\ b \in Nat
    BY <2>1
  <2>3. \A a, b \in DOMAIN queue' : queue'[a] = queue'[b] => a = b
    <3>1. \A a, b \in DOMAIN queue' : a + 1 = b + 1 => a = b
      BY <2>2
    <3> QED
      BY <2>2, <3>1 DEF FreshInv
  <2>4. \A h \in Handlers : \A a \in DOMAIN log'[h], b \in DOMAIN queue' :
          log'[h][a] # queue'[b]
    BY <2>1, <2>2 DEF FreshInv
  <2>5. \A b \in DOMAIN queue' : queue'[b] # worker'.event
    BY <2>1, <2>2 DEF FreshInv
  <2> QED
    BY <2>3, <2>4, <2>5 DEF FreshInv
<1>3. CASE Call
  <2>1. /\ queue' = queue /\ worker.at = "calling"
        /\ worker'.event = worker.event
        /\ log' = [log EXCEPT ![Walked[worker.i + 1]] = Append(@, worker.event)]
    BY <1>3 DEF Call, OrderInv, WorkerInv
  <2>2. PICK g : log' = [log EXCEPT ![g] = Append(@, worker.event)]
    BY <2>1
  <2>3. worker.event \in Events /\ \A b \in DOMAIN queue : queue[b] # worker.event
    BY <2>1 DEF FreshInv, Delivering, OrderInv, WorkerInv
  <2>4. ASSUME NEW h \in Handlers, NEW a \in DOMAIN log'[h], NEW b \in DOMAIN queue
        PROVE  log'[h][a] # queue[b]
    <3>1. log[h] \in Seq(Events) /\ \A i \in DOMAIN log[h] : log[h][i] # queue[b]
      BY DEF OrderInv, LogInv, FreshInv
    <3>2. log'[h] = log[h] \/ log'[h] = Append(log[h], worker.event)
      BY <2>2 DEF OrderInv, LogInv
    <3>3. log'[h][a] = worker.event \/ (a \in DOMAIN log[h] /\ log'[h][a] = log[h][a])
      BY <2>3, <3>1, <3>2
    <3> QED
      BY <2>3, <3>1, <3>3
  <2>5. \A a, b \in DOMAIN queue' : queue'[a] = queue'[b] => a = b
    BY <2>1 DEF FreshInv
  <2> QED
    BY <2>1, <2>3, <2>4, <2>5 DEF FreshInv
<1>4. CASE ~(\E m \in Emitters : Put(m)) /\ ~Get /\ ~Call
  BY <1>4, OrderQuiet DEF FreshInv
<1> QED
  BY <1>1, <1>2, <1>3, <1>4

LEMMA FreshInvariant == Spec => []FreshInv
<1>1. Init => FreshInv
  BY DEF Init, FreshInv, Delivering, Resting
<1> QED
  BY <1>1, OrderInvariant, FreshKeeps, PTL DEF Spec

-----------------------------------------------------------------------------
(* The places of a handler, and how they change with the lists.             *)
InScope(p, T) ==
  \/ p[1] = "own" /\ p[2] = T
  \/ p[1] = "wild" /\ p[2] \in Wild /\ <<p[2], T>> \in Matches

LEMMA PlaceIs ==
  ASSUME NEW h, NEW T
  PROVE  /\ \A p : p \in Places(h, T) <=>
               p = <<p[1], p[2], p[3]>> /\ InScope(p, T) /\ p[3] \in Spots(ListOf(p[2]), h)
         /\ \A p : p \in Places(h, T)' <=>
               p = <<p[1], p[2], p[3]>> /\ InScope(p, T) /\ p[3] \in Spots(ListOf(p[2])', h)
<1>1. ASSUME NEW p
      PROVE  p \in Places(h, T) <=>
               p = <<p[1], p[2], p[3]>> /\ InScope(p, T) /\ p[3] \in Spots(ListOf(p[2]), h)
  <2> DEFINE Own == {<<"own", T, i>> : i \in Spots(ListOf(T), h)}
             Of(w) == {<<"wild", w, i>> : i \in Spots(ListOf(w), h)}
             Ws == {w \in Wild : <<w, T>> \in Matches}
  <2>1. Places(h, T) = Own \cup UNION {Of(w) : w \in Ws}
    BY DEF Places, Spots
  <2>2. p \in UNION {Of(w) : w \in Ws} <=> \E w \in Ws : p \in Of(w)
    <3> HIDE DEF Of, Ws
    <3> QED
      OBVIOUS
  <2>3. p \in Own <=> /\ p = <<p[1], p[2], p[3]>> /\ p[1] = "own" /\ p[2] = T
                     /\ p[3] \in Spots(ListOf(p[2]), h)
    OBVIOUS
  <2>4. (\E w \in Ws : p \in Of(w)) <=>
          /\ p = <<p[1], p[2], p[3]>> /\ p[1] = "wild" /\ p[2] \in Ws
          /\ p[3] \in Spots(ListOf(p[2]), h)
    <3>1. \A w : p \in Of(w) <=> /\ p = <<p[1], p[2], p[3]>> /\ p[1] = "wild" /\ p[2] = w
                               /\ p[3] \in Spots(ListOf(p[2]), h)
      OBVIOUS
    <3> HIDE DEF Of, Ws
    <3> QED
      BY <3>1
  <2> HIDE DEF Own, Of
  <2> QED
    BY <2>1, <2>2, <2>3, <2>4 DEF InScope
<1>2. ASSUME NEW p
      PROVE  p \in Places(h, T)' <=>
               p = <<p[1], p[2], p[3]>> /\ InScope(p, T) /\ p[3] \in Spots(ListOf(p[2])', h)
  <2> DEFINE Own == {<<"own", T, i>> : i \in Spots(ListOf(T)', h)}
             Of(w) == {<<"wild", w, i>> : i \in Spots(ListOf(w)', h)}
             Ws == {w \in Wild : <<w, T>> \in Matches}
  <2>1. Places(h, T)' = Own \cup UNION {Of(w) : w \in Ws}
    BY DEF Places, Spots
  <2>2. p \in UNION {Of(w) : w \in Ws} <=> \E w \in Ws : p \in Of(w)
    <3> HIDE DEF Of, Ws
    <3> QED
      OBVIOUS
  <2>3. p \in Own <=> /\ p = <<p[1], p[2], p[3]>> /\ p[1] = "own" /\ p[2] = T
                     /\ p[3] \in Spots(ListOf(p[2])', h)
    OBVIOUS
  <2>4. (\E w \in Ws : p \in Of(w)) <=>
          /\ p = <<p[1], p[2], p[3]>> /\ p[1] = "wild" /\ p[2] \in Ws
          /\ p[3] \in Spots(ListOf(p[2])', h)
    <3>1. \A w : p \in Of(w) <=> /\ p = <<p[1], p[2], p[3]>> /\ p[1] = "wild" /\ p[2] = w
                               /\ p[3] \in Spots(ListOf(p[2])', h)
      OBVIOUS
    <3> HIDE DEF Of, Ws
    <3> QED
      BY <3>1
  <2> HIDE DEF Own, Of
  <2> QED
    BY <2>1, <2>2, <2>3, <2>4 DEF InScope
<1> QED
  BY <1>1, <1>2

LEMMA PlaceTyped ==
  ASSUME BusOK, NEW h, NEW T \in Types, NEW p \in Places(h, T)
  PROVE  /\ p[2] \in Types /\ Has(p[2]) /\ p[3] \in DOMAIN ListOf(p[2])
         /\ p[3] \in 1..Len(ListOf(p[2])) /\ ListOf(p[2])[p[3]] = h
<1>1. InScope(p, T) /\ p[3] \in Spots(ListOf(p[2]), h)
  BY PlaceIs
<1>2. p[2] \in Types
  BY <1>1, EventBusAssumption DEF InScope
<1>3. p[3] \in DOMAIN ListOf(p[2]) /\ ListOf(p[2])[p[3]] = h
  BY <1>1 DEF Spots
<1>4. Has(p[2])
  BY <1>3 DEF ListOf
<1>5. ListOf(p[2]) \in Seq(Handlers)
  BY <1>2, ListTyped DEF BusOK
<1> QED
  BY <1>2, <1>3, <1>4, <1>5

LEMMA SamePlaces ==
  ASSUME NEW h, NEW T \in Types, \A t \in Types : ListOf(t)' = ListOf(t)
  PROVE  Places(h, T)' = Places(h, T)
<1>1. \A p : InScope(p, T) => p[2] \in Types
  BY EventBusAssumption DEF InScope
<1>2. \A p : p \in Places(h, T)' <=> p \in Places(h, T)
  BY <1>1, PlaceIs
<1>3. \A p : p \in Places(h, T)' => p \in Places(h, T)
  BY <1>2
<1> QED
  BY <1>2, <1>3

(* A handler that is appended has one or two new places.                    *)
NewPlaces(c, h, T) ==
  {p \in {<<"own", KeyOf[c], Len(ListOf(KeyOf[c])) + 1>>,
          <<"wild", KeyOf[c], Len(ListOf(KeyOf[c])) + 1>>} : InScope(p, T) /\ h = HandlerOf[c]}

LEMMA PlacesAdded ==
  ASSUME BusOK, NEW c \in Subs, HandlerAdded(c), NEW h, NEW T \in Types
  PROVE  /\ Places(h, T)' = Places(h, T) \cup NewPlaces(c, h, T)
         /\ Places(h, T) \cap NewPlaces(c, h, T) = {}
         /\ IsFiniteSet(NewPlaces(c, h, T))
<1> DEFINE n == Len(ListOf(KeyOf[c])) + 1
           k == KeyOf[c]
<1>1. k \in Types /\ HandlerOf[c] \in Handlers /\ ListOf(k) \in Seq(Handlers)
  BY SubTypes, ListTyped DEF BusOK
<1>2. ListOf(k)' = Append(ListOf(k), HandlerOf[c]) /\ \A t \in Types \ {k} : ListOf(t)' = ListOf(t)
  BY DEF HandlerAdded
<1>3. /\ n \notin Spots(ListOf(k), h)
      /\ Spots(ListOf(k)', h) = IF h = HandlerOf[c] THEN Spots(ListOf(k), h) \cup {n}
                                ELSE Spots(ListOf(k), h)
  <2> DEFINE s == ListOf(k)
             g == HandlerOf[c]
  <2>1. s \in Seq(Handlers) /\ g \in Handlers /\ ListOf(k)' = Append(s, g)
    BY <1>1, <1>2
  <2> HIDE DEF s, g, k
  <2>2. /\ Len(s) + 1 \notin Spots(s, h)
        /\ h = g => Spots(Append(s, g), h) = Spots(s, h) \cup {Len(s) + 1}
        /\ h # g => Spots(Append(s, g), h) = Spots(s, h)
    BY <2>1, SpotsAppend
  <2> QED
    BY <2>1, <2>2 DEF s, g, k
<1>4. \A p : InScope(p, T) => p[2] \in Types /\ p[1] \in {"own", "wild"}
  BY EventBusAssumption DEF InScope
<1>5. \A p : p \in NewPlaces(c, h, T) <=>
        p = <<p[1], p[2], p[3]>> /\ InScope(p, T) /\ h = HandlerOf[c] /\ p[2] = k /\ p[3] = n
  <2>1. \A p : p = <<p[1], p[2], p[3]>> /\ InScope(p, T) /\ p[2] = k /\ p[3] = n
          => p = <<"own", k, n>> \/ p = <<"wild", k, n>>
    BY <1>4
  <2> HIDE DEF n, k
  <2>2. \A p : p = <<"own", k, n>> \/ p = <<"wild", k, n>> =>
          p = <<p[1], p[2], p[3]>> /\ p[2] = k /\ p[3] = n
    OBVIOUS
  <2> QED
    BY <2>1, <2>2 DEF NewPlaces, n, k
<1> HIDE DEF n, k
<1>6. Places(h, T)' = Places(h, T) \cup NewPlaces(c, h, T)
  <2>1. ASSUME NEW p, InScope(p, T)
        PROVE  p[3] \in Spots(ListOf(p[2])', h) <=>
                 p[3] \in Spots(ListOf(p[2]), h) \/ (h = HandlerOf[c] /\ p[2] = k /\ p[3] = n)
    <3>1. CASE p[2] = k
      BY <1>3, <3>1
    <3>2. CASE p[2] # k
      BY <1>2, <1>4, <2>1, <3>2
    <3> QED
      BY <3>1, <3>2
  <2> QED
    BY <1>5, <2>1, PlaceIs
<1>7. Places(h, T) \cap NewPlaces(c, h, T) = {}
  BY <1>3, <1>5, PlaceIs
<1>8. IsFiniteSet(NewPlaces(c, h, T))
  <2> DEFINE a == <<"own", KeyOf[c], Len(ListOf(KeyOf[c])) + 1>>
             b == <<"wild", KeyOf[c], Len(ListOf(KeyOf[c])) + 1>>
  <2>1. NewPlaces(c, h, T) \in SUBSET {a, b}
    BY DEF NewPlaces
  <2> HIDE DEF a, b
  <2>2. IsFiniteSet({a}) /\ IsFiniteSet({b})
    BY FS_Singleton
  <2>3. IsFiniteSet({a} \cup {b}) /\ {a, b} = {a} \cup {b}
    BY <2>2, FS_Union
  <2> QED
    BY <2>1, <2>3, FS_Subset
<1> QED
  BY <1>6, <1>7, <1>8

(* A place that is left corresponds to one there was before, by position.   *)
Former(c, k, p) == IF p[2] = KeyOf[c] THEN <<p[1], p[2], Back(k, p[3])>> ELSE p

LEMMA PlacesRemoved ==
  ASSUME BusOK, NEW c \in Subs, NEW k, HandlerRemoved(c, k), NEW h, NEW T \in Types
  PROVE  /\ \A p \in Places(h, T)' : Former(c, k, p) \in Places(h, T)
         /\ \A p, q \in Places(h, T)' : Former(c, k, p) = Former(c, k, q) => p = q
         /\ h # HandlerOf[c] =>
              \A q \in Places(h, T) : \E p \in Places(h, T)' : Former(c, k, p) = q
<1> DEFINE t == KeyOf[c]
           s == ListOf(KeyOf[c])
           r == ListOf(KeyOf[c])'
<1>1. t \in Types /\ s \in Seq(Handlers) /\ r \in Seq(Handlers) /\ k \in DOMAIN s
      /\ s[k] = HandlerOf[c] /\ MovedUp(s, k, r)
  BY SubTypes, ListTyped DEF BusOK, HandlerRemoved
<1>2. \A u \in Types \ {t} : ListOf(u)' = ListOf(u)
  BY DEF HandlerRemoved
<1>3. \A p : InScope(p, T) => p[2] \in Types
  BY EventBusAssumption DEF InScope
<1>4. /\ \A i \in Spots(r, h) : Back(k, i) \in Spots(s, h) \ {k}
      /\ \A j \in Spots(s, h) \ {k} : \E i \in Spots(r, h) : Back(k, i) = j
      /\ \A i, j \in Nat : Back(k, i) = Back(k, j) => i = j
  <2> HIDE DEF s, r
  <2> QED
    BY <1>1, MovedSpots
<1>5. Spots(r, h) \subseteq Nat
  BY <1>1 DEF Spots
<1> HIDE DEF t, s, r
<1>6. ASSUME NEW p \in Places(h, T)' PROVE Former(c, k, p) \in Places(h, T)
  <2>1. p = <<p[1], p[2], p[3]>> /\ InScope(p, T) /\ p[3] \in Spots(ListOf(p[2])', h)
    BY PlaceIs
  <2>2. CASE p[2] = t
    <3>1. p[3] \in Spots(r, h)
      BY <2>1, <2>2 DEF t, r
    <3>2. Back(k, p[3]) \in Spots(s, h)
      BY <1>4, <3>1
    <3>3. Former(c, k, p) = <<p[1], p[2], Back(k, p[3])>>
      BY <2>2 DEF Former, t
    <3> DEFINE q == <<p[1], p[2], Back(k, p[3])>>
    <3>4. q = <<q[1], q[2], q[3]>> /\ InScope(q, T) /\ q[3] \in Spots(ListOf(q[2]), h)
      BY <2>1, <2>2, <3>2 DEF InScope, t, s
    <3> QED
      BY <3>3, <3>4, PlaceIs
  <2>3. CASE p[2] # t
    BY <1>2, <1>3, <2>1, <2>3, PlaceIs DEF Former, t
  <2> QED
    BY <2>2, <2>3
<1>7. ASSUME NEW p \in Places(h, T)', NEW q \in Places(h, T)',
             Former(c, k, p) = Former(c, k, q)
      PROVE  p = q
  <2>1. /\ p = <<p[1], p[2], p[3]>> /\ p[3] \in Spots(ListOf(p[2])', h)
        /\ q = <<q[1], q[2], q[3]>> /\ q[3] \in Spots(ListOf(q[2])', h)
    BY PlaceIs
  <2>2. p[1] = q[1] /\ p[2] = q[2]
    BY <1>7, <2>1 DEF Former
  <2>3. CASE p[2] = t
    <3>1. p[3] \in Nat /\ q[3] \in Nat
      BY <1>5, <2>1, <2>2, <2>3 DEF t, r
    <3>2. Back(k, p[3]) = Back(k, q[3])
      BY <1>7, <2>2, <2>3 DEF Former, t
    <3> QED
      BY <1>4, <2>1, <2>2, <3>1, <3>2
  <2>4. CASE p[2] # t
    BY <1>7, <2>2, <2>4 DEF Former, t
  <2> QED
    BY <2>3, <2>4
<1>8. ASSUME h # HandlerOf[c], NEW q \in Places(h, T)
      PROVE  \E p \in Places(h, T)' : Former(c, k, p) = q
  <2>1. q = <<q[1], q[2], q[3]>> /\ InScope(q, T) /\ q[3] \in Spots(ListOf(q[2]), h)
    BY PlaceIs
  <2>2. CASE q[2] = t
    <3>1. q[3] \in Spots(s, h) \ {k}
      BY <1>1, <1>8, <2>1, <2>2 DEF Spots, t, s
    <3>2. PICK i \in Spots(r, h) : Back(k, i) = q[3]
      BY <1>4, <3>1
    <3> DEFINE p == <<q[1], q[2], i>>
    <3>3. p = <<p[1], p[2], p[3]>> /\ InScope(p, T) /\ p[3] \in Spots(ListOf(p[2])', h)
      BY <2>1, <2>2, <3>2 DEF InScope, t, r
    <3>4. Former(c, k, p) = q
      BY <2>1, <2>2, <3>2 DEF Former, t
    <3> QED
      BY <3>3, <3>4, PlaceIs
  <2>3. CASE q[2] # t
    <3>1. q \in Places(h, T)'
      BY <1>2, <1>3, <2>1, <2>3, PlaceIs
    <3>2. Former(c, k, q) = q
      BY <2>3 DEF Former, t
    <3> QED
      BY <3>1, <3>2
  <2> QED
    BY <2>2, <2>3
<1> QED
  BY <1>6, <1>7, <1>8

-----------------------------------------------------------------------------
(* One delivery.  The worker has a list in hand, or goes on along the keys. *)
Type == TypeOf[worker.event]
Now  == IF worker.k = 0 THEN Type ELSE keys[worker.k - 1]

\* Inductive: where the worker is, unless somebody it has called already left,
\* or a type came while it walked the keys.
WalkOK ==
  /\ worker.i \in Nat /\ worker.k \in 0..Len(keys)+1
  /\ worker.k > 0 => worker.n = Len(keys)
  /\ worker.at = "keys" => worker.k > 0 /\ worker.list = 0 /\ worker.i = 0
  /\ worker.at = "calling" /\ worker.list = 0 => worker.k = 0 /\ worker.i = 0
  /\ worker.at = "calling" /\ worker.list # 0 =>
       /\ Has(Now) /\ worker.list = listOf[Now] /\ worker.i <= Len(ListOf(Now))
       /\ worker.k > 0 => worker.k > 1 /\ IsWildMatch(Now)

\* The places the worker has yet to come to: the rest of the list in hand, and
\* the lists of the keys it has not passed.
InHand(p) ==
  /\ worker.at = "calling" /\ worker.list # 0
  /\ \/ p[1] = "own" /\ worker.k = 0
     \/ p[1] = "wild" /\ worker.k > 0 /\ p[2] = keys[worker.k - 1]

ToCome(p) ==
  /\ p[1] = "wild"
  /\ worker.k = 0 \/ \E j \in DOMAIN keys : keys[j] = p[2] /\ j >= worker.k

Unwalked(p) == ToCome(p) \/ (InHand(p) /\ p[3] > worker.i)
Ahead(h)    == {p \in Places(h, Type) : Unwalked(p)}
Served(h)   == Spots(log[h], worker.event)

\* Inductive: the calls made and the places ahead together are as many as the
\* handler had at first, and no more than it has now.
InBounds(h) ==
  /\ hist.before[h] <= Cardinality(Served(h)) + Cardinality(Ahead(h))
  /\ Cardinality(Served(h)) + Cardinality(Ahead(h)) <= Calls(h, Type)

HistOK == DOMAIN hist = {"before", "left", "shifted"} /\ hist.before \in [Handlers -> Nat]

FinitePlaces == \A h \in Handlers, T \in Types : IsFiniteSet(Places(h, T))

AtRest == ~Delivering => worker.i = 0 /\ worker.k = 0

Walking ==
  /\ HistOK /\ FinitePlaces /\ AtRest
  /\ Delivering /\ ~hist.shifted => WalkOK /\ \A h \in Handlers \ hist.left : InBounds(h)

WalkInv == raced = {} => Walking

LEMMA TypeTyped ==
  ASSUME OrderInv, Delivering PROVE Type \in Types
BY DEF OrderInv, WorkerInv, Type, Types

LEMMA SubCount ==
  ASSUME NEW P, IsFiniteSet(P), NEW A \in SUBSET P
  PROVE  IsFiniteSet(A) /\ Cardinality(A) \in Nat /\ Cardinality(P) \in Nat
         /\ Cardinality(A) <= Cardinality(P)
BY FS_Subset, FS_CardinalityType

LEMMA JoinCount ==
  ASSUME NEW P, IsFiniteSet(P), NEW N, IsFiniteSet(N), P \cap N = {}
  PROVE  IsFiniteSet(P \cup N) /\ Cardinality(P \cup N) = Cardinality(P) + Cardinality(N)
<1>1. Cardinality(P \cap N) = 0
  BY FS_EmptySet
<1>2. IsFiniteSet(P \cup N)
      /\ Cardinality(P \cup N) = Cardinality(P) + Cardinality(N) - Cardinality(P \cap N)
  BY FS_Union
<1>3. Cardinality(P) \in Nat /\ Cardinality(N) \in Nat
  BY FS_CardinalityType
<1> QED
  BY <1>1, <1>2, <1>3

\* The steps of the other threads leave the worker where it is.
LEMMA SameWalk ==
  ASSUME UNCHANGED <<keys, worker>>
  PROVE  /\ Type' = Type /\ Now' = Now /\ (Delivering' <=> Delivering)
         /\ \A p : Unwalked(p)' <=> Unwalked(p)
BY DEF Type, Now, Delivering, Unwalked, ToCome, InHand

LEMMA QuietWalk ==
  ASSUME Walking, UNCHANGED <<bus, worker, log, hist>>
  PROVE  Walking'
<1>1. /\ (\A t : ListOf(t)' = ListOf(t)) /\ (\A t : Has(t)' <=> Has(t))
  BY DEF bus, Has, Contains, ListOf
<1>2. UNCHANGED <<keys, worker>>
  BY DEF bus
<1>3. /\ Type' = Type /\ Now' = Now /\ (Delivering' <=> Delivering)
      /\ \A p : Unwalked(p)' <=> Unwalked(p)
  BY <1>2, SameWalk
<1>4. ASSUME NEW h, NEW T PROVE Places(h, T)' = Places(h, T)
  <2>1. \A p : p \in Places(h, T)' <=> p \in Places(h, T)
    BY <1>1, PlaceIs
  <2>2. \A p : p \in Places(h, T)' => p \in Places(h, T)
    BY <2>1
  <2> QED
    BY <2>1, <2>2
<1>5. /\ \A h : Ahead(h)' = Ahead(h)
      /\ \A h : Served(h)' = Served(h)
      /\ \A h, T : Calls(h, T)' = Calls(h, T)
  BY <1>3, <1>4 DEF Ahead, Served, Calls, Spots
<1>6. HistOK' /\ FinitePlaces' /\ AtRest'
  BY <1>3, <1>4 DEF Walking, HistOK, FinitePlaces, AtRest
<1>7. \A h : InBounds(h)' <=> InBounds(h)
  BY <1>3, <1>5 DEF InBounds
<1>8. WalkOK => WalkOK'
  BY <1>1, <1>2, <1>3 DEF WalkOK, IsWildMatch, bus
<1> QED
  BY <1>3, <1>6, <1>7, <1>8 DEF Walking

(* A handler that is appended now is called now or later, if at all.        *)
LEMMA AddedWalk ==
  ASSUME BusOK, OrderInv, Walking, NEW c \in Subs, HandlerAdded(c),
         UNCHANGED <<keys, listOf, worker, log, hist>>
  PROVE  Walking'
<1>1. /\ Type' = Type /\ Now' = Now /\ (Delivering' <=> Delivering)
      /\ \A p : Unwalked(p)' <=> Unwalked(p)
  BY SameWalk
<1>2. HistOK' /\ AtRest'
  BY <1>1 DEF Walking, HistOK, AtRest
<1>3. FinitePlaces'
  BY PlacesAdded, JoinCount DEF Walking, FinitePlaces
<1>4. ASSUME Delivering, ~hist.shifted PROVE WalkOK'
  <2>1. WalkOK /\ Type \in Types
    BY <1>4, TypeTyped DEF Walking
  <2>2. \A t : Has(t)' <=> Has(t)
    BY DEF HandlerAdded
  <2>3. ASSUME NEW t \in Types, NEW i \in Nat, i <= Len(ListOf(t)) PROVE i <= Len(ListOf(t)')
    <3>1. ListOf(t) \in Seq(Handlers) /\ HandlerOf[c] \in Handlers
      BY ListTyped, SubTypes DEF BusOK
    <3>2. ListOf(t)' = ListOf(t) \/ ListOf(t)' = Append(ListOf(t), HandlerOf[c])
      BY DEF HandlerAdded
    <3> QED
      BY <2>3, <3>1, <3>2
  <2>4. Has(Now) => Now \in Types
    BY DEF Has, Contains, BusOK, BusTyped
  <2> QED
    BY <1>1, <2>1, <2>2, <2>3, <2>4 DEF WalkOK, IsWildMatch
<1>5. ASSUME Delivering, ~hist.shifted, NEW h \in Handlers, InBounds(h) PROVE InBounds(h)'
  <2> DEFINE P == Places(h, Type)
             N == NewPlaces(c, h, Type)
             M == {p \in N : Unwalked(p)}
             A == Ahead(h)
  <2>1. Type \in Types
    BY <1>5, TypeTyped
  <2>2. /\ Places(h, Type)' = P \cup N /\ P \cap N = {} /\ IsFiniteSet(N) /\ IsFiniteSet(P)
    BY <1>1, <2>1, PlacesAdded DEF Walking, FinitePlaces
  <2>3. Ahead(h)' = A \cup M /\ A \in SUBSET P /\ M \in SUBSET N
    BY <1>1, <2>2 DEF Ahead
  <2>4. Served(h)' = Served(h) /\ hist' = hist
    BY DEF Served, Spots
  <2>5. IsFiniteSet(Served(h)) /\ Cardinality(Served(h)) \in Nat
    BY SpotsFinite DEF Served, OrderInv, LogInv
  <2> HIDE DEF P, N, M, A
  <2>6. /\ Cardinality(P \cup N) = Cardinality(P) + Cardinality(N)
        /\ Cardinality(P) \in Nat /\ Cardinality(N) \in Nat
        /\ IsFiniteSet(A) /\ IsFiniteSet(M) /\ A \cap M = {}
        /\ Cardinality(A) \in Nat /\ Cardinality(M) \in Nat
        /\ Cardinality(M) <= Cardinality(N)
    BY <2>2, <2>3, SubCount, JoinCount
  <2>7. Cardinality(A \cup M) = Cardinality(A) + Cardinality(M)
    BY <2>6, JoinCount
  <2>8. /\ Calls(h, Type)' = Cardinality(P) + Cardinality(N)
        /\ Calls(h, Type) = Cardinality(P)
        /\ Cardinality(Ahead(h)') = Cardinality(A) + Cardinality(M)
        /\ Cardinality(Ahead(h)) = Cardinality(A)
    BY <1>1, <2>2, <2>3, <2>6, <2>7 DEF Calls, P, A
  <2>9. hist.before[h] \in Nat
    BY DEF Walking, HistOK
  <2> QED
    BY <1>5, <2>4, <2>5, <2>6, <2>8, <2>9 DEF InBounds
<1> QED
  BY <1>1, <1>2, <1>3, <1>4, <1>5 DEF Walking

(* A new type is seen by a walk of the keys that has not begun.             *)
LEMMA CreateWalk ==
  ASSUME BusOK, OrderInv, Walking, NEW c \in Subs, CreateList(c)
  PROVE  Walking'
<1>1. /\ \A t \in Types : ListOf(t)' = ListOf(t)
      /\ ~Has(KeyOf[c]) /\ keys' = Append(keys, KeyOf[c])
      /\ \A t \in Types : Has(t) => listOf'[t] = listOf[t]
  BY CreateKeeps
<1>2. worker' = worker /\ log' = log
  BY DEF CreateList
<1>3. DOMAIN hist = {"before", "left", "shifted"} /\ hist.before \in [Handlers -> Nat]
  BY DEF Walking, HistOK
<1>4. hist' = [hist EXCEPT !.shifted = @ \/ worker.k > 0]
  BY <1>1 DEF CreateList
<1>5. /\ DOMAIN hist' = DOMAIN hist /\ hist'.before = hist.before /\ hist'.left = hist.left
      /\ ~hist'.shifted => ~hist.shifted /\ ~(worker.k > 0)
  BY <1>3, <1>4
<1>6. \A h, T : T \in Types => Places(h, T)' = Places(h, T)
  BY <1>1, SamePlaces
<1>7. HistOK' /\ FinitePlaces' /\ AtRest'
  BY <1>2, <1>3, <1>5, <1>6 DEF Walking, HistOK, FinitePlaces, AtRest, Delivering
<1>8. ASSUME Delivering, ~hist'.shifted
      PROVE  WalkOK' /\ \A h \in Handlers \ hist'.left : InBounds(h)'
  <2>1. WalkOK /\ worker.k = 0 /\ Type \in Types
    BY <1>5, <1>8, TypeTyped DEF Walking, WalkOK
  <2>2. Type' = Type /\ Now' = Now /\ Now = Type
    BY <1>2, <2>1 DEF Type, Now
  <2>3. Has(Now) => Has(Now)'
    <3>1. \A i \in DOMAIN keys : i \in DOMAIN keys' /\ keys'[i] = keys[i]
      BY <1>1, SubTypes DEF BusOK, BusTyped
    <3> QED
      BY <2>2, <3>1 DEF Has, Contains, BusOK, BusTyped
  <2>4. WalkOK'
    <3>1. Len(keys') \in Nat
      BY <1>1, SubTypes DEF BusOK, BusTyped
    <3> QED
      BY <1>1, <1>2, <2>1, <2>2, <2>3, <3>1 DEF WalkOK
  <2>5. ASSUME NEW h \in Handlers \ hist'.left PROVE InBounds(h)'
    <3>1. InBounds(h)
      BY <1>5, <1>8 DEF Walking
    <3>2. \A p : Unwalked(p)' <=> Unwalked(p)
      BY <1>2, <2>1 DEF Unwalked, ToCome, InHand
    <3>3. Places(h, Type)' = Places(h, Type)
      BY <1>6, <2>1, <2>2
    <3>4. Ahead(h)' = Ahead(h) /\ Calls(h, Type)' = Calls(h, Type) /\ Served(h)' = Served(h)
      BY <1>2, <3>2, <3>3 DEF Ahead, Calls, Served, Spots
    <3> QED
      BY <1>5, <2>2, <3>1, <3>4 DEF InBounds
  <2> QED
    BY <2>4, <2>5
<1> QED
  BY <1>2, <1>7, <1>8 DEF Walking, Delivering

(* A handler that leaves moves up those behind it.  Nobody is skipped if    *)
(* the worker has not come to it yet.                                       *)
LEMMA RemovedWalk ==
  ASSUME BusOK, OrderInv, Walking, NEW c \in Subs, Unsubscribe(c),
         NEW k, HandlerRemoved(c, k)
  PROVE  Walking'
<1>1. UNCHANGED <<keys, listOf, worker, log>>
  BY DEF Unsubscribe
<1>2. DOMAIN hist = {"before", "left", "shifted"} /\ hist.before \in [Handlers -> Nat]
  BY DEF Walking, HistOK
<1>3. /\ DOMAIN hist' = DOMAIN hist /\ hist'.before = hist.before
      /\ Delivering => hist'.left = hist.left \cup {HandlerOf[c]}
      /\ ~hist'.shifted =>
           /\ ~hist.shifted
           /\ worker.list = listOf[KeyOf[c]] =>
                \A i \in 1..worker.i : lists[worker.list][i] # HandlerOf[c]
  BY <1>2 DEF Unsubscribe, Delivering
<1>4. /\ Type' = Type /\ Now' = Now /\ (Delivering' <=> Delivering)
      /\ \A p : Unwalked(p)' <=> Unwalked(p)
  BY <1>1, SameWalk
<1>5. HistOK' /\ AtRest'
  BY <1>1, <1>2, <1>3, <1>4 DEF Walking, HistOK, AtRest
<1>6. ASSUME NEW h \in Handlers, NEW T \in Types PROVE IsFiniteSet(Places(h, T)')
  <2> DEFINE f == [p \in Places(h, T)' |-> Former(c, k, p)]
  <2>1. /\ \A p \in Places(h, T)' : Former(c, k, p) \in Places(h, T)
        /\ \A p, q \in Places(h, T)' : Former(c, k, p) = Former(c, k, q) => p = q
    BY PlacesRemoved
  <2>2. f \in Injection(Places(h, T)', Places(h, T))
    BY <2>1 DEF Injection, IsInjective
  <2> HIDE DEF f
  <2>3. IsFiniteSet(Places(h, T))
    BY DEF Walking, FinitePlaces
  <2> QED
    BY <2>2, <2>3, FS_Injection
<1>7. ASSUME Delivering, ~hist'.shifted, worker.at = "calling", worker.list # 0, Now = KeyOf[c]
      PROVE  worker.i < k
  <2>1. WalkOK /\ worker.i \in Nat /\ worker.list = listOf[KeyOf[c]] /\ Has(KeyOf[c])
    BY <1>3, <1>7 DEF Walking, WalkOK
  <2>2. \A i \in 1..worker.i : ListOf(KeyOf[c])[i] # HandlerOf[c]
    BY <1>3, <1>7, <2>1 DEF ListOf
  <2>3. k \in Nat \ {0} /\ ListOf(KeyOf[c])[k] = HandlerOf[c]
    BY ListTyped, SubTypes DEF HandlerRemoved, BusOK
  <2> QED
    BY <2>1, <2>2, <2>3
<1>8. ASSUME Delivering, ~hist'.shifted PROVE WalkOK'
  <2>1. WalkOK
    BY <1>3, <1>8 DEF Walking
  <2>2. \A t : Has(t)' <=> Has(t)
    BY DEF HandlerRemoved
  <2>3. Has(Now) => Now \in Types
    BY DEF Has, Contains, BusOK, BusTyped
  <2>4. ASSUME worker.at = "calling", worker.list # 0 PROVE worker.i <= Len(ListOf(Now)')
    <3>1. worker.i <= Len(ListOf(Now)) /\ worker.i \in Nat /\ Now \in Types
      BY <2>1, <2>3, <2>4 DEF WalkOK
    <3>2. PICK t \in Types : t = Now /\ t = Now'
      BY <1>4, <3>1
    <3>3. CASE t = KeyOf[c]
      <4>1. worker.i < k
        BY <1>7, <1>8, <2>4, <3>2, <3>3
      <4>2. k \in DOMAIN ListOf(t) /\ Len(ListOf(t)') = Len(ListOf(t)) - 1
        BY <3>3 DEF HandlerRemoved, MovedUp
      <4>3. ListOf(t) \in Seq(Handlers)
        BY ListTyped DEF BusOK
      <4> QED
        BY <3>1, <3>2, <4>1, <4>2, <4>3
    <3>4. CASE t # KeyOf[c]
      BY <3>1, <3>2, <3>4 DEF HandlerRemoved
    <3> QED
      BY <3>3, <3>4
  <2> QED
    BY <1>1, <1>4, <2>1, <2>2, <2>4 DEF WalkOK, IsWildMatch
<1>9. ASSUME Delivering, ~hist'.shifted, NEW h \in Handlers \ hist'.left PROVE InBounds(h)'
  <2>1. WalkOK /\ Type \in Types /\ h \in Handlers /\ h # HandlerOf[c] /\ InBounds(h)
    BY <1>3, <1>9, TypeTyped DEF Walking
  <2>2. /\ \A p \in Places(h, Type)' : Former(c, k, p) \in Places(h, Type)
        /\ \A p, q \in Places(h, Type)' : Former(c, k, p) = Former(c, k, q) => p = q
        /\ \A q \in Places(h, Type) : \E p \in Places(h, Type)' : Former(c, k, p) = q
    <3>1. \A T \in Types :
            /\ \A p \in Places(h, T)' : Former(c, k, p) \in Places(h, T)
            /\ \A p, q \in Places(h, T)' : Former(c, k, p) = Former(c, k, q) => p = q
            /\ \A q \in Places(h, T) : \E p \in Places(h, T)' : Former(c, k, p) = q
      BY <2>1, PlacesRemoved
    <3> QED
      BY <1>4, <2>1, <3>1
  <2>3. ASSUME NEW p \in Places(h, Type)' PROVE Unwalked(p)' <=> Unwalked(Former(c, k, p))
    <3> DEFINE q == Former(c, k, p)
    <3>1. /\ q \in Places(h, Type) /\ q[1] = p[1] /\ q[2] = p[2]
          /\ p[3] \in Spots(ListOf(p[2])', h) /\ InScope(p, Type)
      BY <1>4, <2>2, PlaceIs DEF Former
    <3>2. (ToCome(q) <=> ToCome(p)) /\ (InHand(q) <=> InHand(p))
      BY <3>1 DEF ToCome, InHand
    <3>3. ASSUME InHand(p) PROVE q[3] > worker.i <=> p[3] > worker.i
      <4>1. Now = p[2] /\ worker.at = "calling" /\ worker.list # 0
        BY <2>1, <3>1, <3>3 DEF InHand, InScope, Now, WalkOK
      <4>2. CASE p[2] = KeyOf[c]
        <5>1. worker.i < k /\ worker.i \in Nat
          BY <1>7, <1>9, <2>1, <4>1, <4>2 DEF WalkOK
        <5>2. p[3] \in Nat /\ k \in Nat /\ q[3] = Back(k, p[3])
          BY <3>1, <4>2, ListTyped, SubTypes DEF Former, Spots, HandlerRemoved, BusOK
        <5> QED
          BY <5>1, <5>2 DEF Back
      <4>3. CASE p[2] # KeyOf[c]
        BY <4>3 DEF Former
      <4> QED
        BY <4>2, <4>3
    <3> HIDE DEF q
    <3>4. Unwalked(q) <=> Unwalked(p)
      BY <3>2, <3>3 DEF Unwalked
    <3> QED
      BY <1>4, <3>4 DEF q
  <2>4. Cardinality(Places(h, Type)') = Cardinality(Places(h, Type))
    <3> DEFINE f == [p \in Places(h, Type)' |-> Former(c, k, p)]
    <3>1. /\ f \in [Places(h, Type)' -> Places(h, Type)]
          /\ \A p, q \in Places(h, Type)' : f[p] = f[q] => p = q
          /\ \A q \in Places(h, Type) : \E p \in Places(h, Type)' : f[p] = q
      BY <2>2
    <3> HIDE DEF f
    <3>2. IsFiniteSet(Places(h, Type))
      BY <2>1 DEF Walking, FinitePlaces
    <3> QED
      BY <3>1, <3>2, SameSize
  <2>5. Cardinality(Ahead(h)') = Cardinality(Ahead(h))
    <3> DEFINE f == [p \in Ahead(h)' |-> Former(c, k, p)]
    <3>1. /\ \A p : p \in Ahead(h)' <=> p \in Places(h, Type)' /\ Unwalked(p)'
          /\ \A p : p \in Ahead(h) <=> p \in Places(h, Type) /\ Unwalked(p)
      BY DEF Ahead
    <3>2. /\ f \in [Ahead(h)' -> Ahead(h)]
          /\ \A p, q \in Ahead(h)' : f[p] = f[q] => p = q
          /\ \A q \in Ahead(h) : \E p \in Ahead(h)' : f[p] = q
      BY <2>2, <2>3, <3>1
    <3> HIDE DEF f
    <3>3. IsFiniteSet(Ahead(h))
      <4>1. IsFiniteSet(Places(h, Type)) /\ Ahead(h) \in SUBSET Places(h, Type)
        BY <2>1 DEF Walking, FinitePlaces, Ahead
      <4> QED
        BY <4>1, SubCount
    <3> QED
      BY <3>2, <3>3, SameSize
  <2>6. Served(h)' = Served(h)
    BY <1>1 DEF Served, Spots
  <2> QED
    BY <1>3, <1>4, <2>1, <2>4, <2>5, <2>6 DEF InBounds, Calls
<1>10. FinitePlaces'
  BY <1>6 DEF FinitePlaces
<1> QED
  BY <1>4, <1>5, <1>8, <1>9, <1>10 DEF Walking

LEMMA WorkerFields ==
  ASSUME OrderInv
  PROVE  DOMAIN worker = {"at", "event", "list", "i", "k", "n"}
BY DEF OrderInv, WorkerInv

\* What is there before and after a step of the worker.
LEMMA WorkerWalk ==
  ASSUME Walking, UNCHANGED bus
  PROVE  /\ (\A t : ListOf(t)' = ListOf(t)) /\ (\A t : Has(t)' <=> Has(t))
         /\ \A h, T : Places(h, T)' = Places(h, T)
         /\ FinitePlaces'
<1>1. /\ (\A t : ListOf(t)' = ListOf(t)) /\ (\A t : Has(t)' <=> Has(t))
  BY DEF bus, Has, Contains, ListOf
<1>2. ASSUME NEW h, NEW T PROVE Places(h, T)' = Places(h, T)
  <2>1. \A p : p \in Places(h, T)' <=> p \in Places(h, T)
    BY <1>1, PlaceIs
  <2>2. \A p : p \in Places(h, T)' => p \in Places(h, T)
    BY <2>1
  <2> QED
    BY <2>1, <2>2
<1> QED
  BY <1>1, <1>2 DEF Walking, FinitePlaces

(* A delivery begins: all places are ahead, and nobody has been called.     *)
LEMMA GetWalk ==
  ASSUME BusOK, OrderInv, FreshInv, Walking, Get
  PROVE  Walking'
<1>1. /\ queue # <<>> /\ queue \in Seq(Events) /\ UNCHANGED <<bus, log>> /\ worker.at = "getting"
  BY DEF Get, OrderInv, QueueInv
<1>2. PICK e \in Events : e = Head(queue) /\ 1 \in DOMAIN queue /\ e = queue[1]
  BY <1>1
<1>3. PICK T \in Types : T = TypeOf[e]
  BY DEF Types
<1>4. worker.i = 0 /\ worker.k = 0
  BY <1>1 DEF Walking, AtRest, Delivering
<1>5. /\ worker'.at = "calling" /\ worker'.event = e /\ worker'.i = 0 /\ worker'.k = 0
      /\ worker'.list = IF Has(T) THEN listOf[T] ELSE 0
      /\ hist' = [NoHist EXCEPT !.before = [h \in Handlers |-> Calls(h, T)]]
  BY <1>2, <1>3, <1>4, WorkerFields DEF Get
<1>6. /\ DOMAIN hist' = {"before", "left", "shifted"}
      /\ hist'.before = [h \in Handlers |-> Calls(h, T)]
  BY <1>5 DEF NoHist
<1>7. /\ (\A t : ListOf(t)' = ListOf(t)) /\ (\A t : Has(t)' <=> Has(t))
      /\ (\A h, U : Places(h, U)' = Places(h, U)) /\ FinitePlaces'
  BY <1>1, WorkerWalk
<1>8. \A h \in Handlers : Calls(h, T) \in Nat /\ IsFiniteSet(Places(h, T))
  BY FS_CardinalityType DEF Walking, FinitePlaces, Calls
<1>9. HistOK' /\ AtRest'
  BY <1>5, <1>6, <1>8 DEF HistOK, AtRest, Delivering
<1>10. Type' = T /\ Now' = T
  BY <1>3, <1>5 DEF Type, Now
<1>11. WalkOK'
  <2>1. Len(keys') \in Nat /\ ListOf(T) \in Seq(Handlers) /\ keys' = keys /\ listOf' = listOf
    BY <1>1, ListTyped DEF BusOK, BusTyped, bus
  <2>2. Has(T) => ListOf(T)' = ListOf(T) /\ 0 <= Len(ListOf(T))
    BY <1>7, <2>1
  <2> QED
    BY <1>5, <1>7, <1>10, <2>1, <2>2 DEF WalkOK
<1>12. ASSUME NEW h \in Handlers PROVE InBounds(h)'
  <2>1. ASSUME NEW p \in Places(h, T) PROVE Unwalked(p)'
    <3>1. /\ InScope(p, T) /\ Has(p[2]) /\ p[2] \in Types
          /\ p[3] \in 1..Len(ListOf(p[2])) /\ ListOf(p[2]) \in Seq(Handlers)
      BY PlaceIs, PlaceTyped, ListTyped DEF BusOK
    <3>2. CASE p[1] = "own" /\ p[2] = T
      <4>1. listOf[T] \in DOMAIN lists /\ lists \in Seq(Seq(Handlers))
        BY <3>1, <3>2 DEF BusOK, ListsApart, BusTyped
      <4>2. listOf[T] # 0 /\ p[3] > 0
        BY <3>1, <4>1
      <4> QED
        BY <1>5, <3>1, <3>2, <4>2 DEF Unwalked, InHand
    <3>3. CASE p[1] = "wild"
      BY <1>5, <3>3 DEF Unwalked, ToCome
    <3> QED
      BY <3>1, <3>2, <3>3 DEF InScope
  <2>2. Ahead(h)' = Places(h, T)
    BY <1>7, <1>10, <2>1 DEF Ahead
  <2>3. Served(h)' = {}
    <3>1. \A a \in DOMAIN log[h] : log[h][a] # queue[1]
      BY <1>2 DEF FreshInv
    <3> QED
      BY <1>1, <1>2, <1>5, <3>1 DEF Served, Spots
  <2>4. Calls(h, Type)' = Calls(h, T)
    BY <1>7, <1>10 DEF Calls
  <2>5. Cardinality(Served(h)') = 0
    BY <2>3, FS_EmptySet
  <2> QED
    BY <1>6, <1>8, <2>2, <2>4, <2>5 DEF InBounds, Calls
<1> QED
  BY <1>7, <1>9, <1>11, <1>12 DEF Walking

(* One more handler is called, and one place less is ahead.                 *)
LEMMA CallWalk ==
  ASSUME BusOK, OrderInv, Walking, Call
  PROVE  Walking'
<1>1. /\ worker.at = "calling" /\ worker.i < Len(Walked) /\ UNCHANGED <<bus, hist>>
      /\ worker' = [worker EXCEPT !.i = @ + 1]
      /\ log' = [log EXCEPT ![Walked[worker.i + 1]] = Append(@, worker.event)]
  BY DEF Call
<1>2. /\ worker'.at = worker.at /\ worker'.event = worker.event /\ worker'.list = worker.list
      /\ worker'.k = worker.k /\ worker'.n = worker.n /\ worker'.i = worker.i + 1
  BY <1>1, WorkerFields
<1>3. /\ (\A t : ListOf(t)' = ListOf(t)) /\ (\A t : Has(t)' <=> Has(t))
      /\ (\A h, U : Places(h, U)' = Places(h, U)) /\ FinitePlaces'
  BY <1>1, WorkerWalk
<1>4. HistOK' /\ AtRest' /\ Delivering
  BY <1>1, <1>2 DEF Walking, HistOK, AtRest, Delivering
<1>5. ASSUME ~hist.shifted
      PROVE  WalkOK' /\ \A h \in Handlers \ hist.left : InBounds(h)'
  <2>1. WalkOK /\ Type \in Types /\ Type' = Type /\ Now' = Now
    BY <1>1, <1>2, <1>4, <1>5, TypeTyped DEF Walking, Type, Now, bus
  <2>2. worker.list # 0
    BY <1>1, <2>1 DEF WalkOK, Walked
  <2>3. PICK t \in Types : t = Now /\ Has(t) /\ worker.list = listOf[t]
    BY <1>1, <2>1, <2>2 DEF WalkOK, Has, Contains, BusOK, BusTyped
  <2>4. Walked = ListOf(t) /\ ListOf(t) \in Seq(Handlers) /\ worker.i \in Nat
    BY <2>1, <2>2, <2>3, ListTyped DEF Walked, ListOf, WalkOK, BusOK
  <2>5. PICK g \in Handlers : g = ListOf(t)[worker.i + 1]
    BY <1>1, <2>4
  <2>6. log' = [log EXCEPT ![g] = Append(@, worker.event)]
    BY <1>1, <2>4, <2>5
  <2>7. WalkOK'
    BY <1>1, <1>2, <1>3, <2>1, <2>2, <2>3, <2>4 DEF WalkOK, IsWildMatch, bus
  <2> DEFINE tag == IF worker.k = 0 THEN "own" ELSE "wild"
             q == <<tag, t, worker.i + 1>>
  <2>8. ASSUME NEW h \in Handlers, NEW p \in Places(h, Type)
        PROVE  Unwalked(p)' <=> Unwalked(p) /\ p # q
    <3>1. /\ p = <<p[1], p[2], p[3]>> /\ InScope(p, Type) /\ p[3] \in Nat /\ p[2] \in Types
          /\ ListOf(p[2]) \in Seq(Handlers)
      BY <2>1, PlaceIs, PlaceTyped, ListTyped DEF BusOK
    <3>2. (ToCome(p)' <=> ToCome(p)) /\ (InHand(p)' <=> InHand(p))
      BY <1>1, <1>2 DEF ToCome, InHand, bus
    <3>3. InHand(p) <=> p[1] = tag /\ p[2] = t
      BY <1>1, <2>1, <2>2, <2>3, <3>1 DEF InHand, InScope, Now, WalkOK
    <3>4. ASSUME ToCome(p), p[1] = tag, p[2] = t PROVE FALSE
      <4>1. worker.k > 0 /\ worker.k \in 0..Len(keys)+1 /\ keys \in Seq(Types) /\ t = keys[worker.k - 1]
            /\ worker.k > 1
        <5>1. worker.k \in 0..Len(keys)+1 /\ keys \in Seq(Types)
          BY <2>1 DEF WalkOK, BusOK, BusTyped
        <5>2. worker.k > 0
          BY <3>4, <5>1 DEF ToCome
        <5>3. worker.k > 1
          BY <1>1, <2>1, <2>2, <5>2 DEF WalkOK
        <5>4. t = keys[worker.k - 1]
          BY <2>3, <5>2 DEF Now
        <5> QED
          BY <5>1, <5>2, <5>3, <5>4
      <4>2. PICK j \in DOMAIN keys : keys[j] = t /\ j >= worker.k
        BY <3>4, <4>1 DEF ToCome
      <4>3. worker.k - 1 \in DOMAIN keys /\ worker.k - 1 # j
        BY <4>1, <4>2
      <4> QED
        BY <4>1, <4>2, <4>3 DEF BusOK, ListsApart
    <3>5. p = q <=> p[1] = tag /\ p[2] = t /\ p[3] = worker.i + 1
      <4> HIDE DEF tag
      <4> QED
        BY <3>1
    <3>6. p[3] > worker'.i <=> p[3] > worker.i /\ p[3] # worker.i + 1
      BY <1>2, <2>4, <3>1
    <3> HIDE DEF q, tag
    <3> QED
      BY <3>2, <3>3, <3>4, <3>5, <3>6 DEF Unwalked
  <2>9. ASSUME NEW h \in Handlers PROVE q \in Ahead(h) <=> h = g
    <3>1. q[1] = tag /\ q[2] = t /\ q[3] = worker.i + 1 /\ q = <<q[1], q[2], q[3]>>
      OBVIOUS
    <3>2. InScope(q, Type)
      BY <1>1, <2>1, <2>2, <2>3, <3>1, EventBusAssumption DEF InScope, Now, WalkOK, IsWildMatch, Type
    <3>3. worker.i + 1 \in DOMAIN ListOf(t)
      BY <1>1, <2>4
    <3>4. q \in Places(h, Type) <=> h = g
      <4>1. q \in Places(h, Type) <=> q[3] \in Spots(ListOf(q[2]), h)
        BY <3>1, <3>2, PlaceIs
      <4> QED
        BY <2>5, <3>1, <3>3, <4>1 DEF Spots
    <3>5. Unwalked(q)
      <4>1. worker.k # 0 => worker.k > 0
        BY <2>1 DEF WalkOK
      <4>2. \/ tag = "own" /\ worker.k = 0
            \/ tag = "wild" /\ worker.k > 0 /\ t = keys[worker.k - 1]
        BY <2>3, <4>1 DEF Now
      <4> HIDE DEF tag, q
      <4>3. InHand(q)
        BY <1>1, <2>2, <3>1, <4>2 DEF InHand
      <4>4. q[3] > worker.i
        BY <2>4, <3>1
      <4> QED
        BY <4>3, <4>4 DEF Unwalked
    <3> HIDE DEF q
    <3> QED
      BY <3>4, <3>5 DEF Ahead
  <2> HIDE DEF q, tag
  <2>10. ASSUME NEW h \in Handlers \ hist.left PROVE InBounds(h)'
    <3>1. InBounds(h) /\ h \in Handlers /\ hist' = hist
      BY <1>1, <1>4, <1>5 DEF Walking
    <3>2. Calls(h, Type)' = Calls(h, Type)
      BY <1>3, <2>1 DEF Calls
    <3>3. Ahead(h)' = Ahead(h) \ {q}
      <4>1. \A p : p \in Ahead(h)' <=> p \in Places(h, Type) /\ Unwalked(p)'
        BY <1>3, <2>1 DEF Ahead
      <4>2. \A p : p \in Ahead(h)' <=> p \in Ahead(h) \ {q}
        BY <2>8, <4>1 DEF Ahead
      <4> QED
        BY <4>2
    <3>4. IsFiniteSet(Ahead(h))
      <4>1. IsFiniteSet(Places(h, Type)) /\ Ahead(h) \in SUBSET Places(h, Type)
        BY <2>1 DEF Walking, FinitePlaces, Ahead
      <4> QED
        BY <4>1, SubCount
    <3>5. /\ log[h] \in Seq(Events) /\ worker.event \in Events
          /\ IsFiniteSet(Served(h))
      BY <1>4, SpotsFinite DEF OrderInv, LogInv, WorkerInv, Served
    <3>6. Cardinality(Ahead(h)) \in Nat /\ Cardinality(Served(h)) \in Nat
      BY <3>4, <3>5, FS_CardinalityType
    <3>7. CASE h = g
      <4>1. log'[h] = Append(log[h], worker.event)
        BY <2>6, <3>7 DEF OrderInv, LogInv
      <4>2. /\ Spots(Append(log[h], worker.event), worker.event)
                 = Spots(log[h], worker.event) \cup {Len(log[h]) + 1}
            /\ Len(log[h]) + 1 \notin Spots(log[h], worker.event)
        BY <3>5, SpotsAppend
      <4>3. Served(h)' = Served(h) \cup {Len(log[h]) + 1} /\ Len(log[h]) + 1 \notin Served(h)
        BY <1>2, <4>1, <4>2 DEF Served
      <4>4. Cardinality(Served(h)') = Cardinality(Served(h)) + 1
        BY <3>5, <4>3, FS_AddElement
      <4>5. Cardinality(Ahead(h)') = Cardinality(Ahead(h)) - 1
        BY <2>9, <3>3, <3>4, <3>7, FS_RemoveElement
      <4> QED
        BY <3>1, <3>2, <3>6, <4>4, <4>5 DEF InBounds
    <3>8. CASE h # g
      <4>1. log'[h] = log[h]
        BY <2>6, <3>8 DEF OrderInv, LogInv
      <4>2. Served(h)' = Served(h)
        BY <1>2, <4>1 DEF Served
      <4>3. Ahead(h)' = Ahead(h)
        BY <2>9, <3>3, <3>8
      <4> QED
        BY <3>1, <3>2, <4>2, <4>3 DEF InBounds
    <3> QED
      BY <3>7, <3>8
  <2> QED
    BY <2>7, <2>10
<1> QED
  BY <1>1, <1>3, <1>4, <1>5 DEF Walking

\* A step of the worker between two calls keeps the places ahead.
LEMMA BoundsKept ==
  ASSUME Walking, UNCHANGED <<bus, log, hist>>, worker'.event = worker.event,
         NEW h \in Handlers, InBounds(h),
         \A p \in Places(h, Type) : Unwalked(p)' <=> Unwalked(p)
  PROVE  InBounds(h)'
<1>1. Places(h, Type)' = Places(h, Type) /\ Type' = Type
  BY WorkerWalk DEF Type
<1>2. Ahead(h)' = Ahead(h)
  <2>1. \A p : p \in Ahead(h)' <=> p \in Ahead(h)
    BY <1>1 DEF Ahead
  <2>2. \A p : p \in Ahead(h)' => p \in Ahead(h)
    BY <2>1
  <2> QED
    BY <2>1, <2>2
<1>3. Served(h)' = Served(h) /\ Calls(h, Type)' = Calls(h, Type)
  BY <1>1 DEF Served, Calls
<1> QED
  BY <1>2, <1>3 DEF InBounds

(* The end of a list: nothing of it is ahead.                               *)
LEMMA EndOfListWalk ==
  ASSUME BusOK, OrderInv, Walking, EndOfList
  PROVE  Walking'
<1>1. worker.at = "calling" /\ worker.i >= Len(Walked) /\ UNCHANGED <<bus, log, hist>>
  BY DEF EndOfList
<1>2. /\ worker'.at = "keys" /\ worker'.event = worker.event /\ worker'.list = 0 /\ worker'.i = 0
      /\ worker'.n = IF worker.k = 0 THEN Len(keys) ELSE worker.n
      /\ worker'.k = IF worker.k = 0 THEN 1 ELSE worker.k
  BY WorkerFields DEF EndOfList
<1>3. FinitePlaces' /\ HistOK' /\ AtRest' /\ Delivering
  BY <1>1, <1>2, WorkerWalk DEF Walking, HistOK, AtRest, Delivering
<1>4. ASSUME ~hist.shifted
      PROVE  WalkOK' /\ \A h \in Handlers \ hist.left : InBounds(h)'
  <2>1. WalkOK /\ Type \in Types /\ keys \in Seq(Types) /\ keys' = keys
    BY <1>1, <1>3, <1>4, TypeTyped DEF Walking, BusOK, BusTyped, bus
  <2>2. WalkOK'
    BY <1>2, <2>1 DEF WalkOK
  <2>3. ASSUME NEW h \in Handlers, NEW p \in Places(h, Type)
        PROVE  Unwalked(p)' <=> Unwalked(p)
    <3>1. /\ InScope(p, Type) /\ p[3] \in 1..Len(ListOf(p[2])) /\ p[2] \in Types
          /\ Has(p[2]) /\ ListOf(p[2]) \in Seq(Handlers)
      BY <2>1, PlaceIs, PlaceTyped, ListTyped DEF BusOK
    <3>2. ~InHand(p)'
      BY <1>2 DEF InHand
    <3>3. ~(InHand(p) /\ p[3] > worker.i)
      <4>1. ASSUME InHand(p) PROVE p[3] <= worker.i
        <5>1. p[2] = Now /\ worker.list = listOf[p[2]] /\ worker.list # 0 /\ worker.i \in Nat
          BY <1>1, <2>1, <3>1, <4>1 DEF InHand, InScope, Now, WalkOK
        <5>2. Walked = ListOf(p[2])
          BY <3>1, <5>1 DEF Walked, ListOf
        <5> QED
          BY <1>1, <3>1, <5>1, <5>2
      <4>2. p[3] \in Int /\ worker.i \in Int
        BY <2>1, <3>1 DEF WalkOK
      <4> QED
        BY <4>1, <4>2
    <3>4. CASE worker.k = 0
      <4>1. \E j \in DOMAIN keys : keys[j] = p[2] /\ j >= 1
        BY <2>1, <3>1 DEF Has, Contains
      <4>2. p[1] = "wild" => ToCome(p) /\ ToCome(p)'
        BY <1>2, <2>1, <3>4, <4>1 DEF ToCome
      <4> QED
        BY <3>2, <3>3, <4>2 DEF Unwalked, ToCome
    <3>5. CASE worker.k # 0
      BY <1>2, <2>1, <3>2, <3>3, <3>5 DEF Unwalked, ToCome
    <3> QED
      BY <3>4, <3>5
  <2>4. ASSUME NEW h \in Handlers \ hist.left PROVE InBounds(h)'
    BY <1>1, <1>2, <1>3, <1>4, <2>3, BoundsKept DEF Walking
  <2> QED
    BY <2>2, <2>4
<1> QED
  BY <1>1, <1>3, <1>4 DEF Walking

(* The next key: its list is taken in hand, or it has no place in it.       *)
LEMMA NextKeyWalk ==
  ASSUME BusOK, OrderInv, Walking, NextKey
  PROVE  Walking'
<1>0. PICK key : key = keys[worker.k]
  OBVIOUS
<1> DEFINE wild == IsWildMatch(key)
<1>1. /\ worker.at = "keys" /\ worker.n = Len(keys) /\ worker.k <= worker.n
      /\ UNCHANGED <<bus, log, hist>>
  BY DEF NextKey
<1>2. /\ worker'.at = (IF wild THEN "calling" ELSE "keys") /\ worker'.event = worker.event
      /\ worker'.list = (IF wild THEN listOf[key] ELSE 0) /\ worker'.i = worker.i
      /\ worker'.n = worker.n /\ worker'.k = worker.k + 1
  BY <1>0, WorkerFields DEF NextKey
<1> HIDE DEF wild
<1>3. FinitePlaces' /\ HistOK' /\ AtRest' /\ Delivering
  BY <1>1, <1>2, WorkerWalk DEF Walking, HistOK, AtRest, Delivering
<1>4. ASSUME ~hist.shifted
      PROVE  WalkOK' /\ \A h \in Handlers \ hist.left : InBounds(h)'
  <2>1. WalkOK /\ Type \in Types /\ keys \in Seq(Types) /\ keys' = keys /\ listOf' = listOf
    BY <1>1, <1>3, <1>4, TypeTyped DEF Walking, BusOK, BusTyped, bus
  <2>2. /\ worker.k \in DOMAIN keys /\ key \in Types /\ Has(key) /\ worker.k \in 1..Len(keys)
        /\ Len(keys) \in Nat
    <3>1. worker.k \in DOMAIN keys /\ worker.k \in 1..Len(keys) /\ Len(keys) \in Nat
      BY <1>1, <2>1 DEF WalkOK
    <3> QED
      BY <1>0, <2>1, <3>1 DEF Has, Contains
  <2>3. listOf[key] # 0 /\ ListOf(key) \in Seq(Handlers) /\ ListOf(key)' = ListOf(key)
    <3>1. listOf[key] \in DOMAIN lists /\ lists \in Seq(Seq(Handlers))
      BY <2>2 DEF BusOK, ListsApart, BusTyped
    <3>2. ListOf(key)' = ListOf(key)
      BY <1>1, WorkerWalk
    <3> QED
      BY <2>2, <3>1, <3>2, ListTyped DEF BusOK
  <2>4. worker.i = 0 /\ worker.list = 0 /\ worker.k - 1 + 1 = worker.k
        /\ worker.k + 1 - 1 = worker.k
    BY <1>1, <2>1, <2>2 DEF WalkOK
  <2>5. Now' = key
    BY <1>0, <1>2, <2>1, <2>2, <2>4 DEF Now
  <2>6. WalkOK'
    <3>1. Has(Now)'
      <4>1. \A t : Has(t)' <=> Has(t)
        BY <1>1, WorkerWalk
      <4> QED
        BY <2>2, <2>5, <4>1
    <3>2. wild => IsWildMatch(Now)'
      BY <1>2, <2>5 DEF IsWildMatch, wild
    <3>3. Len(ListOf(Now)') >= 0
      BY <2>3, <2>5, <1>1, WorkerWalk
    <3>4. worker'.k \in 0..Len(keys')+1 /\ worker'.k > 1 /\ worker'.n = Len(keys')
      BY <1>1, <1>2, <2>1, <2>2
    <3> QED
      BY <1>2, <2>1, <2>3, <2>4, <2>5, <3>1, <3>2, <3>3, <3>4 DEF WalkOK
  <2>7. ASSUME NEW h \in Handlers, NEW p \in Places(h, Type)
        PROVE  Unwalked(p)' <=> Unwalked(p)
    <3>1. InScope(p, Type) /\ p[3] \in 1..Len(ListOf(p[2])) /\ p[3] \in Nat /\ p[3] > 0
      <4>1. InScope(p, Type) /\ p[3] \in 1..Len(ListOf(p[2])) /\ ListOf(p[2]) \in Seq(Handlers)
        BY <2>1, PlaceIs, PlaceTyped, ListTyped DEF BusOK
      <4> QED
        BY <4>1
    <3>2. ~InHand(p)
      BY <1>1 DEF InHand
    <3>3. InHand(p)' <=> wild /\ p[1] = "wild" /\ p[2] = key
      BY <1>0, <1>2, <2>1, <2>2, <2>3, <2>4 DEF InHand
    <3>4. p[1] = "wild" /\ p[2] = key => wild
      BY <3>1 DEF InScope, wild, IsWildMatch, Type
    <3>5. p[1] = "wild" =>
            (ToCome(p) <=> \E j \in DOMAIN keys : keys[j] = p[2] /\ j >= worker.k)
      BY <2>2 DEF ToCome
    <3>6. p[1] = "wild" =>
            (ToCome(p)' <=> \E j \in DOMAIN keys : keys[j] = p[2] /\ j >= worker.k + 1)
      BY <1>2, <2>1, <2>2 DEF ToCome
    <3>7. \A j \in DOMAIN keys : j >= worker.k <=> j >= worker.k + 1 \/ j = worker.k
      BY <2>1, <2>2
    <3>8. p[1] = "wild" => (ToCome(p) <=> ToCome(p)' \/ p[2] = key)
      BY <1>0, <2>2, <3>5, <3>6, <3>7
    <3>9. p[3] > worker'.i
      BY <1>2, <2>4, <3>1
    <3>10. p[1] # "wild" => ~ToCome(p) /\ ~ToCome(p)'
      BY DEF ToCome
    <3> QED
      BY <3>2, <3>3, <3>4, <3>8, <3>9, <3>10 DEF Unwalked
  <2>8. ASSUME NEW h \in Handlers \ hist.left PROVE InBounds(h)'
    BY <1>1, <1>2, <1>3, <1>4, <2>7, BoundsKept DEF Walking
  <2> QED
    BY <2>6, <2>8
<1> QED
  BY <1>1, <1>3, <1>4 DEF Walking

(* No delivery is under way.                                                *)
LEMMA RestWalk ==
  ASSUME OrderInv, Walking, Begin \/ Loop \/ Timeout \/ EndOfKeys
  PROVE  Walking'
<1>1. UNCHANGED bus
  BY DEF Begin, Loop, Timeout, EndOfKeys
<1>2. hist' = hist \/ hist' = NoHist
  BY DEF Begin, Loop, Timeout, EndOfKeys
<1>3. HistOK'
  BY <1>2 DEF Walking, HistOK, NoHist
<1>4. ~Delivering' /\ AtRest'
  <2>1. CASE Begin \/ Timeout \/ EndOfKeys
    BY <2>1 DEF Begin, Timeout, EndOfKeys, AfterKeys, Resting, Delivering, AtRest
  <2>2. CASE Loop
    BY <2>2, WorkerFields DEF Loop, Delivering, AtRest, Walking
  <2> QED
    BY <2>1, <2>2
<1> QED
  BY <1>1, <1>3, <1>4, WorkerWalk DEF Walking

LEMMA StepWalk ==
  ASSUME BusOK, OrderInv, FreshInv, Walking, [Next]_vars, raced' = {}
  PROVE  Walking'
<1>1. CASE \E c \in Subs : Subscribe(c)
  <2>1. PICK c \in Subs : Subscribe(c)
    BY <1>1
  <2>2. UNCHANGED <<keys, listOf, worker, log, hist>>
    BY <2>1 DEF Subscribe
  <2>3. HandlerAdded(c) \/ UNCHANGED bus
    BY <2>1, SubscribeKeeps
  <2> QED
    BY <2>2, <2>3, AddedWalk, QuietWalk
<1>2. CASE \E c \in Subs : AppendHandler(c)
  <2>1. PICK c \in Subs : AppendHandler(c)
    BY <1>2
  <2>2. UNCHANGED <<keys, listOf, worker, log, hist>>
    BY <2>1 DEF AppendHandler
  <2> QED
    BY <2>1, <2>2, AppendKeeps, AddedWalk
<1>3. CASE \E c \in Subs : CreateList(c)
  BY <1>3, CreateWalk
<1>4. CASE \E c \in Subs : Unsubscribe(c)
  <2>1. PICK c \in Subs : Unsubscribe(c)
    BY <1>4
  <2>2. PICK k : HandlerRemoved(c, k)
    BY <2>1, UnsubscribeKeeps
  <2> QED
    BY <2>1, <2>2, RemovedWalk
<1>5. CASE UNCHANGED vars \/ Stop \/ \E m \in Emitters : Persist(m) \/ Put(m)
  <2>1. UNCHANGED <<bus, worker, log, hist>>
    BY <1>5 DEF vars, Stop, Persist, Put
  <2> QED
    BY <2>1, QuietWalk
<1> QED
  BY <1>1, <1>2, <1>3, <1>4, <1>5, GetWalk, CallWalk, EndOfListWalk, NextKeyWalk, RestWalk
    DEF Next, WorkerStep

LEMMA WalkInvariant == Spec => []WalkInv
<1>1. Init => WalkInv
  <2> SUFFICES ASSUME Init PROVE Walking
    BY DEF WalkInv
  <2>1. ~Delivering /\ AtRest /\ HistOK
    BY DEF Init, Resting, Delivering, AtRest, HistOK, NoHist
  <2>2. \A t : ListOf(t) = <<>>
    BY DEF Init, ListOf, Has, Contains
  <2>3. ASSUME NEW h \in Handlers, NEW T \in Types PROVE Places(h, T) = {}
    BY <2>2, PlaceIs DEF Spots
  <2> QED
    BY <2>1, <2>3, FS_EmptySet DEF FinitePlaces, Walking
<1>2. BusInv /\ OrderInv /\ FreshInv /\ WalkInv /\ [Next]_vars => WalkInv'
  BY StepWalk, RacedStays DEF BusInv, WalkInv
<1> QED
  BY <1>1, <1>2, BusInvariant, OrderInvariant, FreshInvariant, PTL DEF Spec

\* When the walk is over no place is ahead.
LEMMA NothingAhead ==
  ASSUME BusOK, OrderInv, Walking, ~hist.shifted, worker.at = "keys", worker.k > worker.n,
         NEW h \in Handlers
  PROVE  Ahead(h) = {}
<1>1. WalkOK /\ worker.k \in 0..Len(keys)+1 /\ worker.k > Len(keys) /\ keys \in Seq(Types)
  BY DEF Walking, Delivering, WalkOK, BusOK, BusTyped
<1>2. \A j \in DOMAIN keys : ~(j >= worker.k)
  BY <1>1
<1>3. worker.k # 0
  BY <1>1
<1>4. \A p : ~Unwalked(p)
  BY <1>2, <1>3 DEF Unwalked, ToCome, InHand
<1> QED
  BY <1>4 DEF Ahead

\* A delivery that is over called every handler as often as it was subscribed
\* when it began, and no more often than it is now, for any number of threads,
\* events, types and handlers, and any subscriptions that come and go meanwhile.
THEOREM HandlersCalled == Spec => []EveryHandlerCalled
<1>1. BusInv /\ OrderInv /\ WalkInv => EveryHandlerCalled
  <2> SUFFICES ASSUME BusInv, OrderInv, WalkInv, worker.at = "keys", worker.k > worker.n,
                      ~hist.shifted, raced = {}, NEW h \in Handlers \ hist.left
               PROVE  /\ Count(h, worker.event) >= hist.before[h]
                      /\ Count(h, worker.event) <= Calls(h, TypeOf[worker.event])
    BY DEF EveryHandlerCalled
  <2>1. BusOK /\ Walking /\ InBounds(h) /\ Ahead(h) = {}
    BY NothingAhead DEF BusInv, WalkInv, Walking, Delivering
  <2>2. Cardinality(Ahead(h)) = 0 /\ Cardinality(Served(h)) \in Nat
    BY <2>1, FS_EmptySet, SpotsFinite DEF OrderInv, LogInv, Served
  <2>3. Count(h, worker.event) = Cardinality(Served(h))
    BY DEF Count, Served, Spots
  <2> QED
    BY <2>1, <2>2, <2>3 DEF InBounds, Type
<1> QED
  BY <1>1, BusInvariant, OrderInvariant, WalkInvariant, PTL
=============================================================================
