------------------------------ MODULE Database ------------------------------
(***************************************************************************)
(* What BaseRepository (database/repositories/base_repository.py) and       *)
(* ConnectionManager (database/connection.py) make of a table that several  *)
(* processes write: every call takes a connection, executes one statement   *)
(* and commits.                                                             *)
(*                                                                          *)
(* With mysql the connection is one of a pool, and what raises is rolled    *)
(* back.  With sqlite it is the only one of the process, all threads share  *)
(* it, and nobody rolls back: a row whose commit raised stays in the open   *)
(* transaction, which all threads of the process see, which the next commit *)
(* of any of them publishes, and which keeps other processes from writing.  *)
(* Statement and commit are one step: whoever commits in between publishes  *)
(* no more than the commit would.                                           *)
(***************************************************************************)
EXTENDS Naturals, FiniteSets

CONSTANTS
  Procs,        \* processes with a ConnectionManager of their own
  Keys,         \* primary keys
  Absent,       \* the row of a key that is not in the table
  Pooled,       \* DB_ENGINE is mysql
  MaxDbErrors   \* bound: statements and commits that raise

ASSUME DatabaseAssumption == Pooled \in BOOLEAN /\ MaxDbErrors \in Nat

VARIABLES
  db,         \* the committed table
  tx,         \* the table as the open transaction of a process has it, or Absent
  dbErrors

dbVars == <<db, tx, dbErrors>>

DbInit ==
  /\ db \in [Keys -> {Absent}]
  /\ tx = [p \in Procs |-> Absent]
  /\ dbErrors = 0

\* find_by_id, find_by_criteria and the like: what the connection sees.
View(p)    == IF tx[p] = Absent THEN db ELSE tx[p]
Find(p, k) == View(p)[k]

\* The lock of sqlite: only one process has a transaction that has written.
Locked(p) == \E q \in Procs \ {p} : tx[q] # Absent

Commit(p, table) == db' = table /\ tx' = [tx EXCEPT ![p] = Absent]

\* create and update: the row is written and committed.
Store(p, k, row) ==
  /\ ~Locked(p)
  /\ Commit(p, [View(p) EXCEPT ![k] = row])
  /\ UNCHANGED dbErrors

\* The statement raises: the table is locked, or anything else.
StatementRaises(p) ==
  /\ dbErrors < MaxDbErrors
  /\ dbErrors' = dbErrors + 1
  /\ UNCHANGED <<db, tx>>

\* The commit raises: rolled back in a pool, left open otherwise.
CommitRaises(p, k, row) ==
  /\ ~Locked(p) /\ ~Pooled /\ dbErrors < MaxDbErrors
  /\ dbErrors' = dbErrors + 1
  /\ tx' = [tx EXCEPT ![p] = [View(p) EXCEPT ![k] = row]]
  /\ UNCHANGED db

Raises(p, k, row) ==
  \/ StatementRaises(p)
  \/ CommitRaises(p, k, row)
  \/ Locked(p) /\ UNCHANGED dbVars
=============================================================================
