------------------------------ MODULE EventBus ------------------------------
(***************************************************************************)
(* The event bus of a process (core/event_bus.py): any thread emits, one    *)
(* worker thread calls the handlers, and any thread may subscribe and       *)
(* unsubscribe meanwhile, as no lock guards the subscribers.                *)
(*                                                                          *)
(* subscribers is a dict of lists that the worker walks while they change:  *)
(* keys are in the order of insertion and are never removed, and a list is  *)
(* an object, so the worker may walk one the dict no longer holds.          *)
(***************************************************************************)
EXTENDS Naturals, Sequences, FiniteSets, SequencesExt

CONSTANTS
  Emitters,    \* threads that emit
  Emits,       \* bound: the events each of them emits, in this order
  Events,
  TypeOf,      \* the type of each event
  Unsaved,     \* the events whose INSERT fails, or all: EVENT_PERSIST_DISABLED
  Wild,        \* the types that end in .*
  Matches,     \* <<wild type, type>>: the type starts with its prefix
  Handlers,
  Subs,        \* bound: calls of subscribe, each with a later unsubscribe or not
  HandlerOf, KeyOf,
  Leavers,     \* the subscriptions that are taken back
  QueueSize    \* maxsize of event_queue, 10000 in the code

Types == {TypeOf[e] : e \in Events} \cup {KeyOf[c] : c \in Subs}

ASSUME EventBusAssumption ==
  /\ Emits \in [Emitters -> Seq(Events)]
  /\ \A m, n \in Emitters : \A i \in DOMAIN Emits[m], j \in DOMAIN Emits[n] :
       Emits[m][i] = Emits[n][j] => m = n /\ i = j
  /\ HandlerOf \in [Subs -> Handlers]
  /\ Leavers \subseteq Subs /\ Wild \subseteq Types
  /\ Matches \subseteq Wild \X Types /\ Unsaved \subseteq Events
  /\ QueueSize \in Nat \ {0}

VARIABLES
  keys,       \* the keys of subscribers
  lists,      \* every list there ever was, by the order of creation
  listOf,     \* subscribers: the number of the list of each key
  sub,        \* where each subscription is
  emitted,    \* how many events an emitter has done with
  persisted,  \* the emitters whose current event has been persisted, or not
  table,      \* the events table
  queue,      \* event_queue
  running,
  worker,     \* the worker: at, event, list and position, next key, keys at start
  log,        \* what each handler was called with
  stopped,    \* stop has been called
  raced,      \* history: subscriptions that both found a type without a list
  hist        \* history of one delivery: the lists at its start, what left

bus      == <<keys, lists, listOf>>
emitting == <<emitted, persisted, table>>
vars     == <<bus, sub, raced, emitting, queue, running, worker, log, stopped, hist>>

Has(key) == Contains(keys, key)
ListOf(key) == IF Has(key) THEN lists[listOf[key]] ELSE <<>>

\* No walk: list 0 is the fresh list that get returns for a missing key.
Resting == [at |-> "loop", event |-> "none", list |-> 0, i |-> 0, k |-> 0, n |-> 0]
NoHist  == [before |-> [h \in Handlers |-> 0], left |-> {}, shifted |-> FALSE]

Init ==
  /\ keys = <<>> /\ lists = <<>>
  /\ listOf = [t \in Types |-> 0]
  /\ sub = [c \in Subs |-> "idle"]
  /\ emitted = [m \in Emitters |-> 0]
  /\ persisted = {}
  /\ table = <<>> /\ queue = <<>>
  /\ running = FALSE
  /\ worker = [Resting EXCEPT !.at = "starting"]
  /\ log = [h \in Handlers |-> <<>>]
  /\ stopped = FALSE
  /\ raced = {}
  /\ hist = NoHist

-----------------------------------------------------------------------------
(* emit.                                                                    *)

Current(m) == Emits[m][emitted[m] + 1]
HasNext(m) == emitted[m] < Len(Emits[m])

\* create_event inserts a row; an exception is logged.
Persist(m) ==
  /\ HasNext(m) /\ m \notin persisted
  /\ persisted' = persisted \cup {m}
  /\ table' = IF Current(m) \in Unsaved THEN table ELSE Append(table, Current(m))
  /\ UNCHANGED <<bus, sub, raced, emitted, queue, running, worker, log, stopped, hist>>

\* Mutant: the newest event is served first.
Prepend(q, e) == <<e>> \o q
Enqueue(q, e) == Append(q, e)

HasRoom(q) == Len(q) < QueueSize

\* put waits a second for room and then drops the event.
Put(m) ==
  /\ m \in persisted
  /\ queue' = IF HasRoom(queue) THEN Enqueue(queue, Current(m)) ELSE queue
  /\ persisted' = persisted \ {m}
  /\ emitted' = [emitted EXCEPT ![m] = @ + 1]
  /\ UNCHANGED <<bus, sub, raced, table, running, worker, log, stopped, hist>>

-----------------------------------------------------------------------------
(* subscribe and unsubscribe.                                               *)

\* Mutant: every subscription gets a new list.
AlwaysMissing(c) == c \in Subs
\* event_type not in self.subscribers
Missing(c) == ~Has(KeyOf[c])

\* self.subscribers[event_type].append(handler)
Listed(c) == [lists EXCEPT ![listOf[KeyOf[c]]] = Append(@, HandlerOf[c])]

\* A list that is there stays, so that the test and append are one step.
Subscribe(c) ==
  /\ sub[c] = "idle"
  /\ sub' = [sub EXCEPT ![c] = IF Missing(c) THEN "creating" ELSE "in"]
  /\ lists' = IF Missing(c) THEN lists ELSE Listed(c)
  /\ LET rivals == {d \in Subs \ {c} : sub[d] = "creating" /\ KeyOf[d] = KeyOf[c]}
     IN raced' = IF rivals = {} THEN raced ELSE raced \cup rivals \cup {c}
  /\ UNCHANGED <<keys, listOf, emitting, queue, running, worker, log, stopped, hist>>

\* self.subscribers[event_type] = [], which replaces a list made meanwhile.
CreateList(c) ==
  /\ sub[c] = "creating"
  /\ keys' = IF Has(KeyOf[c]) THEN keys ELSE Append(keys, KeyOf[c])
  /\ lists' = Append(lists, <<>>)
  /\ listOf' = [listOf EXCEPT ![KeyOf[c]] = Len(lists')]
  /\ sub' = [sub EXCEPT ![c] = "appending"]
  \* A walk of the keys will not get past a new one.
  /\ hist' = [hist EXCEPT !.shifted = @ \/ (worker.k > 0 /\ ~Has(KeyOf[c]))]
  /\ UNCHANGED <<raced, emitting, queue, running, worker, log, stopped>>

AppendHandler(c) ==
  /\ sub[c] = "appending"
  /\ lists' = Listed(c)
  /\ sub' = [sub EXCEPT ![c] = "in"]
  /\ UNCHANGED <<keys, listOf, raced, emitting, queue, running, worker, log, stopped, hist>>

\* list.remove takes the first occurrence and moves what follows.
Unsubscribe(c) ==
  /\ c \in Leavers /\ sub[c] = "in"
  /\ sub' = [sub EXCEPT ![c] = "out"]
  /\ lists' = [lists EXCEPT ![listOf[KeyOf[c]]] = RemoveFirst(@, HandlerOf[c])]
  /\ hist' = [hist EXCEPT
       !.left = IF worker.at \in {"calling", "keys"} THEN @ \cup {HandlerOf[c]} ELSE @,
       !.shifted = @ \/ ( worker.list = listOf[KeyOf[c]] /\
                          \E i \in 1..worker.i : lists[worker.list][i] = HandlerOf[c] )]
  /\ UNCHANGED <<keys, listOf, raced, emitting, queue, running, worker, log, stopped>>

-----------------------------------------------------------------------------
(* _process_events, the worker thread.                                      *)

\* Where a handler is in the list of the type itself, and in those of the wild
\* types it matches: it is to be called once for each.
Places(h, type) ==
  LET In(key) == {i \in DOMAIN ListOf(key) : ListOf(key)[i] = h}
      Wilds   == {w \in Wild : <<w, type>> \in Matches}
  IN {<<"own", type, i>> : i \in In(type)}
       \cup UNION {{<<"wild", w, i>> : i \in In(w)} : w \in Wilds}

Calls(h, type) == Cardinality(Places(h, type))

\* The thread starts: a stop that came earlier is forgotten.
Begin ==
  /\ worker.at = "starting"
  /\ running' = TRUE
  /\ worker' = Resting
  /\ UNCHANGED <<bus, sub, raced, emitting, queue, log, stopped, hist>>

Loop ==
  /\ worker.at = "loop"
  /\ worker' = [worker EXCEPT !.at = IF running THEN "getting" ELSE "ended"]
  /\ UNCHANGED <<bus, sub, raced, emitting, queue, running, log, stopped, hist>>

\* get takes the oldest event, and subscribers.get the list of its type.
Get ==
  /\ worker.at = "getting" /\ queue # <<>>
  /\ queue' = Tail(queue)
  /\ LET type == TypeOf[Head(queue)] IN
     /\ worker' = [worker EXCEPT !.at = "calling", !.event = Head(queue),
                     !.list = IF Has(type) THEN listOf[type] ELSE 0]
     /\ hist' = [NoHist EXCEPT !.before = [h \in Handlers |-> Calls(h, type)]]
  /\ UNCHANGED <<bus, sub, raced, emitting, running, log, stopped>>

\* get waits for a second and raises Empty.
Timeout ==
  /\ worker.at = "getting" /\ queue = <<>>
  /\ worker' = Resting
  /\ UNCHANGED <<bus, sub, raced, emitting, queue, running, log, stopped, hist>>

Walked == IF worker.list = 0 THEN <<>> ELSE lists[worker.list]

\* The next handler of the list; what it raises is logged.
Call ==
  /\ worker.at = "calling" /\ worker.i < Len(Walked)
  /\ log' = [log EXCEPT ![Walked[worker.i + 1]] = Append(@, worker.event)]
  /\ worker' = [worker EXCEPT !.i = @ + 1]
  /\ UNCHANGED <<bus, sub, raced, emitting, queue, running, stopped, hist>>

\* The end of a list; after that of the type itself the keys are walked.
EndOfList ==
  /\ worker.at = "calling" /\ worker.i >= Len(Walked)
  /\ worker' = [worker EXCEPT !.at = "keys", !.list = 0, !.i = 0,
                  !.n = IF worker.k = 0 THEN Len(keys) ELSE worker.n,
                  !.k = IF worker.k = 0 THEN 1 ELSE worker.k]
  /\ UNCHANGED <<bus, sub, raced, emitting, queue, running, log, stopped, hist>>

\* Mutant: no test for the .* at the end.
StartsWith(key) == key = TypeOf[worker.event] \/ <<key, TypeOf[worker.event]>> \in Matches
IsWildMatch(key) == <<key, TypeOf[worker.event]>> \in Matches

NextKey ==
  /\ worker.at = "keys" /\ worker.n = Len(keys) /\ worker.k <= worker.n
  /\ LET key == keys[worker.k] IN
     worker' = [worker EXCEPT !.k = @ + 1,
                  !.at = IF IsWildMatch(key) THEN "calling" ELSE "keys",
                  !.list = IF IsWildMatch(key) THEN listOf[key] ELSE 0]
  /\ UNCHANGED <<bus, sub, raced, emitting, queue, running, log, stopped, hist>>

\* Mutant: the exception ends the thread.
Uncaught == [worker EXCEPT !.at = IF worker.n = Len(keys) THEN "loop" ELSE "ended"]
\* After the last key, or as the dict has grown: its iterator raises then, and
\* the bare except takes that for a time-out.
AfterKeys == Resting

EndOfKeys ==
  /\ worker.at = "keys" /\ (worker.n # Len(keys) \/ worker.k > worker.n)
  /\ worker' = AfterKeys
  /\ hist' = NoHist
  /\ UNCHANGED <<bus, sub, raced, emitting, queue, running, log, stopped>>

Stop ==
  /\ ~stopped
  /\ stopped' = TRUE
  /\ running' = FALSE
  /\ UNCHANGED <<bus, sub, raced, emitting, queue, worker, log, hist>>

-----------------------------------------------------------------------------
WorkerStep == \/ Begin \/ Loop \/ Get \/ Timeout \/ Call \/ EndOfList
              \/ NextKey \/ EndOfKeys

Next ==
  \/ \E m \in Emitters : Persist(m) \/ Put(m)
  \/ \E c \in Subs : \/ Subscribe(c) \/ CreateList(c) \/ AppendHandler(c)
                     \/ Unsubscribe(c)
  \/ WorkerStep
  \/ Stop

Spec == Init /\ [][Next]_vars

\* The worker is a thread of its own; nobody has to emit or subscribe.
FairSpec == Spec /\ WF_vars(WorkerStep)

-----------------------------------------------------------------------------
(* Properties.                                                              *)

Count(h, e) == Cardinality({i \in DOMAIN log[h] : log[h][i] = e})

\* A delivery that is over called every handler at least as often as it was
\* subscribed when the delivery began, and no more often than it is now,
\* though others subscribed and left while it ran.  Left out are a handler
\* that left itself, and a delivery in which one that was called already left
\* (the next is skipped) or a new type came (the wild types after it are), or
\* whose list a subscription that came at the same time has replaced.
EveryHandlerCalled ==
  worker.at = "keys" /\ worker.k > worker.n /\ ~hist.shifted /\ raced = {} =>
    \A h \in Handlers \ hist.left :
      /\ Count(h, worker.event) >= hist.before[h]
      /\ Count(h, worker.event) <= Calls(h, TypeOf[worker.event])

\* Whoever has subscribed and not left is in the list of the type, unless the
\* first two subscribers of a type came at the same time.
SubscribedIsListed ==
  \A c \in Subs : sub[c] = "in" /\ raced = {} =>
    Contains(ListOf(KeyOf[c]), HandlerOf[c])

Before(s, e, f) == \E i, j \in DOMAIN s : i < j /\ s[i] = e /\ s[j] = f

\* What one thread emits reaches every handler, and the table, in the order of
\* the calls, though other threads emit and events are dropped in between.
InOrder ==
  \A m \in Emitters : \A i, j \in DOMAIN Emits[m] : i < j =>
    /\ ~Before(table, Emits[m][j], Emits[m][i])
    /\ \A h \in Handlers : ~Before(log[h], Emits[m][j], Emits[m][i])

\* Every accepted event is taken from the queue sooner or later, whatever its
\* handlers raise and whatever changes under the worker, unless the bus stops.
EveryEventTaken == <>[](queue = <<>> \/ stopped)
=============================================================================
