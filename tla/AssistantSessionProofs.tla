----------------------- MODULE AssistantSessionProofs -----------------------
(* Theorems about AssistantSession, for any sessions, rows, drafts and      *)
(* processes, any number of messages and errors, and both kinds of          *)
(* database connection.                                                     *)
EXTENDS AssistantSession, FiniteSetTheorems, TLAPS

-----------------------------------------------------------------------------
(* The table: what a repository call may do to what others see of it.       *)

TablesOK ==
  /\ db \in Rows
  /\ tx \in [Procs -> Rows \cup {Absent}]
  /\ \A p \in Procs : tx[p] # Absent => ~Locked(p)

\* What is committed is in the open transaction too.
Covers ==
  \A p \in Procs : tx[p] # Absent =>
    \A k \in Keys : db[k] # Absent => tx[p][k] # Absent

Writes(p, k, row) == Store(p, k, row) \/ Raises(p, k, row)

LEMMA ViewOK ==
  ASSUME TablesOK, NEW p \in Procs
  PROVE  View(p) \in Rows
BY DEF TablesOK, View

\* What a write leaves of the table and of the transactions.
LEMMA WriteEffect ==
  ASSUME TablesOK, NEW p \in Procs, NEW k \in Keys, NEW row \in Table, Writes(p, k, row)
  PROVE  \/ UNCHANGED <<db, tx>>
         \/ /\ ~Locked(p)
            /\ db' = [View(p) EXCEPT ![k] = row]
            /\ \A q \in Procs : tx'[q] = Absent
            /\ tx' \in [Procs -> Rows \cup {Absent}]
         \/ /\ ~Locked(p)
            /\ db' = db
            /\ tx' = [tx EXCEPT ![p] = [View(p) EXCEPT ![k] = row]]
<1>1. CASE Store(p, k, row)
  BY <1>1 DEF TablesOK, Store, Commit, Locked
<1>2. CASE Raises(p, k, row)
  BY <1>2 DEF Raises, StatementRaises, CommitRaises, dbVars
<1>3. QED BY <1>1, <1>2 DEF Writes

LEMMA WriteKeepsTables ==
  ASSUME TablesOK, NEW p \in Procs, NEW k \in Keys, NEW row \in Table, Writes(p, k, row)
  PROVE  TablesOK'
<1> DEFINE table == [View(p) EXCEPT ![k] = row]
<1>1. table \in Rows
  BY ViewOK DEF Rows
<1>2. CASE UNCHANGED <<db, tx>>
  BY <1>2 DEF TablesOK, Locked
<1>3. CASE /\ db' = table
           /\ \A q \in Procs : tx'[q] = Absent
           /\ tx' \in [Procs -> Rows \cup {Absent}]
  <2> HIDE DEF table
  <2>1. QED BY <1>1, <1>3 DEF TablesOK
<1>4. CASE ~Locked(p) /\ db' = db /\ tx' = [tx EXCEPT ![p] = table]
  <2> HIDE DEF table
  <2>1. \A q \in Procs : tx'[q] # Absent => q = p
    BY <1>4 DEF TablesOK, Locked
  <2>2. QED BY <1>1, <1>4, <2>1 DEF TablesOK, Locked
<1>5. QED BY <1>2, <1>3, <1>4, WriteEffect

\* A process sees what it saw, what the writer saw, or the row written.
LEMMA WriteSeen ==
  ASSUME TablesOK, NEW p \in Procs, NEW k \in Keys, NEW row \in Table, Writes(p, k, row),
         NEW q \in Procs, NEW j \in Keys
  PROVE  \/ Find(q, j)' = Find(q, j)
         \/ Find(q, j)' = Find(p, j)
         \/ j = k /\ Find(q, j)' = row
<1> DEFINE table == [View(p) EXCEPT ![k] = row]
<1>1. table \in Rows /\ table[j] = IF j = k THEN row ELSE Find(p, j)
  BY ViewOK DEF Rows, Find
<1>2. CASE UNCHANGED <<db, tx>>
  BY <1>2 DEF Find, View
<1>3. CASE db' = table /\ \A r \in Procs : tx'[r] = Absent
  BY <1>1, <1>3 DEF Find, View
<1>4. CASE db' = db /\ tx' = [tx EXCEPT ![p] = table]
  <2>1. CASE q = p
    BY <1>1, <1>4, <2>1, SessionAssumption DEF Find, View, TablesOK
  <2>2. CASE q # p
    BY <1>4, <2>2 DEF Find, View, TablesOK
  <2>3. QED BY <2>1, <2>2
<1>5. QED BY <1>2, <1>3, <1>4, WriteEffect

\* No row goes out of anybody's sight.
LEMMA WriteKeepsRows ==
  ASSUME TablesOK, Covers,
         NEW p \in Procs, NEW k \in Keys, NEW row \in Table, Writes(p, k, row)
  PROVE  /\ Covers'
         /\ \A q \in Procs, j \in Keys : Find(q, j) # Absent => Find(q, j)' # Absent
<1> DEFINE table == [View(p) EXCEPT ![k] = row]
<1>1. /\ table \in Rows
      /\ \A j \in Keys : table[j] = IF j = k THEN row ELSE View(p)[j]
      /\ row # Absent
  BY ViewOK, SessionAssumption DEF Rows
<1>2. \A j \in Keys : db[j] # Absent => View(p)[j] # Absent
  BY DEF Covers, View
<1>3. CASE UNCHANGED <<db, tx>>
  BY <1>3 DEF Covers, Find, View
<1>4. CASE ~Locked(p) /\ db' = table /\ \A r \in Procs : tx'[r] = Absent
  <2>1. \A q \in Procs \ {p} : View(q) = db
    BY <1>4 DEF Locked, View
  <2>2. \A q \in Procs, j \in Keys : Find(q, j) # Absent => View(p)[j] # Absent
    BY <1>2, <2>1 DEF Find
  <2>3. \A q \in Procs, j \in Keys : Find(q, j)' = table[j]
    BY <1>4 DEF Find, View
  <2> HIDE DEF table
  <2>4. QED BY <1>1, <1>4, <2>2, <2>3 DEF Covers
<1>5. CASE ~Locked(p) /\ db' = db /\ tx' = [tx EXCEPT ![p] = table]
  <2>1. \A q \in Procs : tx'[q] # Absent => q = p
    BY <1>5 DEF TablesOK, Locked
  <2>2. tx'[p] = table /\ table # Absent
    BY <1>1, <1>5, SessionAssumption DEF TablesOK
  <2>3. \A q \in Procs \ {p} : View(q)' = View(q)
    BY <1>5 DEF TablesOK, View
  <2>4. View(p)' = table
    BY <2>2 DEF View
  <2> HIDE DEF table
  <2>5. Covers'
    BY <1>1, <1>2, <1>5, <2>1, <2>2 DEF Covers
  <2>6. \A q \in Procs, j \in Keys : Find(q, j) # Absent => Find(q, j)' # Absent
    BY <1>1, <2>3, <2>4 DEF Find
  <2>7. QED BY <2>5, <2>6
<1>6. QED BY <1>3, <1>4, <1>5, WriteEffect

\* Rows in which no commit is left open: everybody sees what is committed.
Agreed(k) == \A p \in Procs : Find(p, k) = db[k]

LEMMA WriteAgreed ==
  ASSUME TablesOK, NEW p \in Procs, NEW k \in Keys, NEW row \in Table, NEW j \in Keys,
         Agreed(j)
  PROVE  /\ Store(p, k, row) =>
              Agreed(j)' /\ db'[j] = (IF j = k THEN row ELSE db[j])
         /\ Raises(p, k, row) /\ (tx' = tx \/ j # k) =>
              Agreed(j)' /\ db'[j] = db[j]
<1> DEFINE table == [View(p) EXCEPT ![k] = row]
<1>1. table \in Rows /\ table[j] = IF j = k THEN row ELSE db[j]
  BY ViewOK DEF Rows, Find, Agreed
<1>2. ASSUME Store(p, k, row)
      PROVE  db' = table /\ \A q \in Procs : tx'[q] = Absent
  BY <1>2 DEF TablesOK, Store, Commit, Locked
<1>3. ASSUME Raises(p, k, row)
      PROVE  db' = db /\ (tx' = tx \/ tx' = [tx EXCEPT ![p] = table])
  BY <1>3 DEF Raises, StatementRaises, CommitRaises, dbVars
<1> HIDE DEF table
<1>4. ASSUME Store(p, k, row)
      PROVE  Agreed(j)' /\ db'[j] = (IF j = k THEN row ELSE db[j])
  BY <1>1, <1>2, <1>4 DEF Agreed, Find, View
<1>5. ASSUME Raises(p, k, row), tx' = tx \/ j # k
      PROVE  Agreed(j)' /\ db'[j] = db[j]
  <2>1. CASE tx' = tx
    BY <1>3, <1>5, <2>1 DEF Agreed, Find, View
  <2>2. CASE tx' = [tx EXCEPT ![p] = table] /\ j # k
    BY <1>1, <1>3, <1>5, <2>2 DEF Agreed, Find, View, TablesOK
  <2>3. QED BY <1>3, <1>5, <2>1, <2>2
<1>6. QED BY <1>4, <1>5

-----------------------------------------------------------------------------
(* Types.  That a row found may be edited needs that bound rows are there.  *)

Saving == {"creating", "finding", "updating"}

Held(s) == {session[s], send[s].in, send[s].out, confirm[s].in, confirm[s].out, discard[s].out}

There(d) == d.saved # None => Find(Web, d.saved) # Absent

Ready(c) ==
  /\ c.at \in Saving => c.in.pending \in Specs
  /\ c.at \in {"finding", "updating"} => c.in.saved \in Keys
  /\ c.at = "updating" => c.row \in Table

\* Inductive, with TypeOK and Covers: the rows drafts are bound to exist, and
\* a save has a draft, and a row to write it over.
BoundInv ==
  \A s \in Sessions : (\A d \in Held(s) : There(d)) /\ Ready(confirm[s])

ShapeInv == TypeOK /\ Covers /\ BoundInv

LEMMA TypeTables ==
  ASSUME TypeOK
  PROVE  TablesOK
BY DEF TypeOK, TablesOK

LEMMA Found ==
  ASSUME TypeOK, NEW p \in Procs, NEW k \in Keys, Find(p, k) # Absent
  PROVE  Find(p, k) \in Table
BY TypeTables, ViewOK DEF Find, Rows

\* What a save writes, and where.
LEMMA EditedOK ==
  ASSUME ShapeInv, NEW s \in Sessions, confirm[s].at = "updating"
  PROVE  /\ confirm[s].in.saved \in Keys
         /\ Edited(s) \in Table
         /\ Edited(s).spec = confirm[s].in.pending
         /\ Edited(s).state = confirm[s].row.state
BY DEF ShapeInv, BoundInv, Ready, Saving, Edited, Table

LEMMA CreatedOK ==
  ASSUME ShapeInv, NEW s \in Sessions, confirm[s].at = "creating"
  PROVE  /\ Row(confirm[s].in.pending, "initializing") \in Table
         /\ Row(confirm[s].in.pending, "initializing").spec = confirm[s].in.pending
BY DEF ShapeInv, BoundInv, Ready, Saving, Row, Table

LEMMA StartedOK ==
  ASSUME ShapeInv, NEW k \in Keys, start[k] # Absent
  PROVE  /\ [start[k] EXCEPT !.state = "running"] \in Table
         /\ [start[k] EXCEPT !.state = "running"].spec = start[k].spec
<1>1. start[k] \in Table
  BY DEF ShapeInv, TypeOK, Rows
<1>2. QED BY <1>1 DEF Table

\* Only three steps touch the table.
LEMMA StepWrites ==
  ASSUME ShapeInv, Next
  PROVE  \/ UNCHANGED <<db, tx>>
         \/ \E p \in Procs, k \in Keys, row \in Table : Writes(p, k, row)
<1> USE SessionAssumption
<1>1. ASSUME NEW s \in Sessions, Create(s)
      PROVE  \E k \in Keys, row \in Table : Writes(Web, k, row)
  BY <1>1, CreatedOK DEF Create, SaveRaised, Writes
<1>2. ASSUME NEW s \in Sessions, UpdateRow(s)
      PROVE  \E k \in Keys, row \in Table : Writes(Web, k, row)
  BY <1>2, EditedOK DEF UpdateRow, SaveRaised, Writes
<1>3. ASSUME NEW k \in Keys, StartWrite(k)
      PROVE  \E row \in Table : Writes(Api, k, row)
  BY <1>3, StartedOK DEF StartWrite, Writes
<1>4. ASSUME NEW s \in Sessions, SendBegin(s) \/ SendEnd(s) \/ Clear(s) \/ ConfirmBegin(s)
      PROVE  UNCHANGED <<db, tx>>
  BY <1>4 DEF SendBegin, SendEnd, Clear, ConfirmBegin, dbVars
<1>5. ASSUME NEW s \in Sessions, FindRow(s) \/ ConfirmEnd(s) \/ DiscardBegin(s) \/ DiscardEnd(s)
      PROVE  UNCHANGED <<db, tx>>
  BY <1>5 DEF FindRow, ConfirmEnd, DiscardBegin, DiscardEnd, dbVars
<1>6. ASSUME NEW k \in Keys, StartFind(k)
      PROVE  UNCHANGED <<db, tx>>
  BY <1>6 DEF StartFind, dbVars
<1>7. QED BY <1>1, <1>2, <1>3, <1>4, <1>5, <1>6 DEF Next

\* No step takes a row out of anybody's sight.
LEMMA RowsStay ==
  ASSUME ShapeInv, Next \/ UNCHANGED vars
  PROVE  /\ TablesOK' /\ Covers'
         /\ \A p \in Procs, k \in Keys : Find(p, k) # Absent => Find(p, k)' # Absent
<1>1. TablesOK /\ Covers
  BY TypeTables DEF ShapeInv
<1>2. CASE UNCHANGED <<db, tx>>
  BY <1>1, <1>2 DEF TablesOK, Locked, Covers, Find, View
<1>3. ASSUME NEW p \in Procs, NEW k \in Keys, NEW row \in Table, Writes(p, k, row)
      PROVE  /\ TablesOK' /\ Covers'
             /\ \A q \in Procs, j \in Keys : Find(q, j) # Absent => Find(q, j)' # Absent
  BY <1>1, <1>3, WriteKeepsTables, WriteKeepsRows
<1>4. QED BY <1>2, <1>3, StepWrites DEF vars, dbVars

LEMMA ErrorsCounted ==
  ASSUME dbErrors \in 0..MaxDbErrors, NEW p, NEW k, NEW row, Writes(p, k, row)
  PROVE  dbErrors' \in 0..MaxDbErrors
BY DatabaseAssumption
   DEF Writes, Store, Raises, StatementRaises, CommitRaises, dbVars

LEMMA EmptyOK == Empty \in Drafts /\ Empty.saved = None /\ Empty.pending = None /\ ~Empty.dirty
BY DEF Empty, Drafts

LEMMA NoCallOK ==
  ASSUME NEW at, "idle" \in at
  PROVE  /\ NoCall \in Calls(at) /\ NoCall.at = "idle"
         /\ NoCall.in = Empty /\ NoCall.out = Empty /\ NoCall.row = Absent
BY EmptyOK DEF NoCall, Calls

\* The rest of TypeOK, except for what is wanted.
LocalsOK ==
  /\ dbErrors \in 0..MaxDbErrors /\ sends \in 0..MaxSends
  /\ session \in [Sessions -> Drafts]
  /\ send \in [Sessions -> Calls({"idle", "model"})]
  /\ confirm \in [Sessions -> Calls({"idle", "end"} \cup Saving)]
  /\ discard \in [Sessions -> Calls({"idle", "end"})]
  /\ start \in Rows
  /\ written \in [Keys -> SUBSET Specs]
  /\ created \in [Sessions -> SUBSET Keys]
  /\ mixed \subseteq Sessions /\ clash \subseteq Keys

LEMMA TypeParts == TypeOK <=> TablesOK /\ LocalsOK /\ wanted \in Rows
BY DEF TypeOK, TablesOK, LocalsOK, Saving

LEMMA BoundOK ==
  ASSUME NEW in \in Drafts, NEW k \in Keys
  PROVE  /\ Bound(in, k) \in Drafts /\ Bound(in, k).saved = k
         /\ Bound(in, k).pending = in.pending /\ ~Bound(in, k).dirty
BY DEF Bound, Drafts

LEMMA SaveRaisedOK ==
  ASSUME LocalsOK, NEW s \in Sessions, NEW k \in Keys, NEW row \in Table,
         SaveRaised(s, k, row)
  PROVE  /\ dbErrors' \in 0..MaxDbErrors
         /\ confirm' \in [Sessions -> Calls({"idle", "end"} \cup Saving)]
         /\ written' \in [Keys -> SUBSET Specs]
         /\ created' \in [Sessions -> SUBSET Keys]
         /\ mixed' \subseteq Sessions /\ clash' \subseteq Keys
<1>1. dbErrors' \in 0..MaxDbErrors
  BY ErrorsCounted DEF SaveRaised, Writes, LocalsOK
<1>2. confirm' \in [Sessions -> Calls({"idle", "end"} \cup Saving)]
  <2> DEFINE C == Calls({"idle", "end"} \cup Saving)
  <2>1. \A c \in C : [c EXCEPT !.at = "end"] \in C
    BY DEF Calls
  <2> HIDE DEF C
  <2>2. confirm \in [Sessions -> C] /\ confirm' = [confirm EXCEPT ![s].at = "end"]
    BY DEF SaveRaised, LocalsOK, C
  <2>3. QED BY <2>1, <2>2 DEF C
<1>3. row.spec \in Specs
  BY DEF Table
<1>4. written' = written \/ Wrote(k, row)
  BY DEF SaveRaised
<1>5. written' \in [Keys -> SUBSET Specs]
  BY <1>3, <1>4 DEF LocalsOK, Wrote
<1>6. created' = created /\ mixed' = mixed \cup {s} /\ clash' \subseteq clash \cup {k}
  BY DEF SaveRaised
<1>7. QED BY <1>1, <1>2, <1>5, <1>6 DEF LocalsOK

\* A save that ends.
LEMMA Ended ==
  ASSUME LocalsOK, NEW s \in Sessions, NEW out \in Drafts,
         confirm' = [confirm EXCEPT ![s].at = "end", ![s].out = out]
  PROVE  /\ confirm' \in [Sessions -> Calls({"idle", "end"} \cup Saving)]
         /\ confirm'[s] = [confirm[s] EXCEPT !.at = "end", !.out = out]
         /\ confirm'[s].at = "end" /\ confirm'[s].out = out
         /\ confirm'[s].in = confirm[s].in
         /\ \A r \in Sessions \ {s} : confirm'[r] = confirm[r]
<1> DEFINE call == [confirm[s] EXCEPT !.at = "end", !.out = out]
<1>1. confirm[s] \in Calls({"idle", "end"} \cup Saving)
  BY DEF LocalsOK
<1>2. /\ call \in Calls({"idle", "end"} \cup Saving)
      /\ call.at = "end" /\ call.out = out /\ call.in = confirm[s].in
  BY <1>1 DEF Calls
<1>3. confirm' = [confirm EXCEPT ![s] = call]
  BY DEF LocalsOK
<1> HIDE DEF call
<1>4. confirm' \in [Sessions -> Calls({"idle", "end"} \cup Saving)]
  BY <1>2, <1>3 DEF LocalsOK
<1>5. confirm'[s] = call /\ \A r \in Sessions \ {s} : confirm'[r] = confirm[r]
  BY <1>3 DEF LocalsOK
<1>6. QED BY <1>2, <1>4, <1>5 DEF call

LEMMA StepLocals ==
  ASSUME ShapeInv, Next
  PROVE  LocalsOK'
<1> USE SessionAssumption, NoCallOK, EmptyOK DEF ShapeInv
<1>0. LocalsOK /\ TablesOK
  BY TypeParts
<1>1. ASSUME NEW s \in Sessions, SendBegin(s)
      PROVE  LocalsOK'
  <2> DEFINE in == session[s]
  <2>1. \A k \in Keys : Loadable(in, k) => Find(Web, k).spec \in Specs
    BY Found DEF Loadable, Table
  <2>2. \A k \in Keys : Loadable(in, k) =>
          [in EXCEPT !.pending = Find(Web, k).spec, !.saved = k] \in Drafts
    BY <1>0, <2>1 DEF LocalsOK, Drafts
  <2>3. PICK out \in Drafts :
          send' = [send EXCEPT ![s] = [NoCall EXCEPT !.at = "model", !.in = in, !.out = out]]
    BY <1>0, <1>1, <2>2 DEF SendBegin, LocalsOK
  <2>4. [NoCall EXCEPT !.at = "model", !.in = in, !.out = out] \in Calls({"idle", "model"})
    BY <1>0 DEF LocalsOK, Calls
  <2>5. send' \in [Sessions -> Calls({"idle", "model"})]
    BY <1>0, <2>3, <2>4 DEF LocalsOK
  <2>6. sends' \in 0..MaxSends
    <3>1. sends \in 0..MaxSends /\ sends < MaxSends /\ sends' = sends + 1
      BY <1>0, <1>1 DEF LocalsOK, SendBegin
    <3> HIDE NoCallOK, EmptyOK DEF ShapeInv
    <3>2. QED BY <3>1
  <2>7. QED BY <1>0, <1>1, <2>5, <2>6 DEF SendBegin, LocalsOK, Begin, dbVars
<1>2. ASSUME NEW s \in Sessions, SendEnd(s)
      PROVE  LocalsOK'
  <2> DEFINE in == send[s].in
  <2>1. in \in Drafts /\ send[s].out \in Drafts
    BY <1>0 DEF LocalsOK, Calls
  <2>2. PICK spec \in Specs \cup {send[s].out.pending} :
          session' = [session EXCEPT ![s] =
            [[send[s].out EXCEPT !.pending = spec] EXCEPT
               !.dirty = Dirty(in, [send[s].out EXCEPT !.pending = spec])]]
    BY <1>2 DEF SendEnd
  <2>3. [[send[s].out EXCEPT !.pending = spec] EXCEPT
               !.dirty = Dirty(in, [send[s].out EXCEPT !.pending = spec])] \in Drafts
    BY <2>1 DEF Dirty, Drafts
  <2>4. session' \in [Sessions -> Drafts]
    BY <1>0, <2>2, <2>3 DEF LocalsOK
  <2>5. send' \in [Sessions -> Calls({"idle", "model"})]
    BY <1>0, <1>2 DEF LocalsOK, SendEnd
  <2>6. QED BY <1>0, <1>2, <2>4, <2>5 DEF SendEnd, LocalsOK, history, dbVars
<1>3. ASSUME NEW s \in Sessions, Clear(s)
      PROVE  LocalsOK'
  BY <1>0, <1>3 DEF Clear, LocalsOK, handlers, dbVars
<1>4. ASSUME NEW s \in Sessions, ConfirmBegin(s)
      PROVE  LocalsOK'
  <2>1. [NoCall EXCEPT !.at = Save(session[s]), !.in = session[s], !.out = session[s]]
          \in Calls({"idle", "end"} \cup Saving)
    BY <1>0 DEF LocalsOK, Calls, Save, Saving
  <2>2. QED BY <1>0, <1>4, <2>1 DEF ConfirmBegin, LocalsOK, Begin, dbVars
<1>5. ASSUME NEW s \in Sessions, Create(s)
      PROVE  LocalsOK'
  <2> DEFINE in == confirm[s].in
             row == Row(in.pending, "initializing")
  <2>1. row \in Table /\ row.spec \in Specs /\ in \in Drafts
    BY <1>0, <1>5, CreatedOK DEF Create, Table, LocalsOK, Calls
  <2>2. PICK k \in Keys :
          \/ /\ Store(Web, k, row)
             /\ confirm' = [confirm EXCEPT ![s].at = "end", ![s].out = Bound(in, k)]
             /\ Wrote(k, row)
             /\ wanted' = [wanted EXCEPT ![k] = row]
             /\ created' = [created EXCEPT ![s] = @ \cup {k}]
             /\ UNCHANGED <<mixed, clash>>
          \/ SaveRaised(s, k, row)
    BY <1>5 DEF Create
  <2> HIDE DEF row
  <2>3. CASE SaveRaised(s, k, row)
    <3>1. UNCHANGED <<session, send, discard, start, sends>>
      BY <1>5 DEF Create
    <3>2. QED BY <1>0, <2>1, <2>3, <3>1, SaveRaisedOK DEF LocalsOK
  <2>4. CASE ~SaveRaised(s, k, row)
    <3>1. confirm' \in [Sessions -> Calls({"idle", "end"} \cup Saving)]
      BY <1>0, <2>1, <2>2, <2>4, BoundOK, Ended
    <3>2. UNCHANGED <<session, send, discard, start, sends, dbErrors>>
      BY <1>5, <2>2, <2>4 DEF Create, Store
    <3>3. written' \in [Keys -> SUBSET Specs]
      BY <1>0, <2>1, <2>2, <2>4 DEF LocalsOK, Wrote
    <3>4. created' \in [Sessions -> SUBSET Keys] /\ UNCHANGED <<mixed, clash>>
      BY <1>0, <2>2, <2>4 DEF LocalsOK
    <3>5. QED BY <1>0, <3>1, <3>2, <3>3, <3>4 DEF LocalsOK
  <2>5. QED BY <2>3, <2>4
<1>6. ASSUME NEW s \in Sessions, FindRow(s)
      PROVE  LocalsOK'
  <2>1. confirm[s].in.saved \in Keys
    BY <1>6 DEF FindRow, BoundInv, Ready
  <2>2. Find(Web, confirm[s].in.saved) \in Table \cup {Absent}
    BY <2>1, Found
  <2> DEFINE call == [confirm[s] EXCEPT !.at = "updating",
                                        !.row = Find(Web, confirm[s].in.saved)]
  <2>5. confirm[s] \in Calls({"idle", "end"} \cup Saving)
    BY <1>0 DEF LocalsOK
  <2>6. call \in Calls({"idle", "end"} \cup Saving)
    BY <2>2, <2>5 DEF Calls, Saving
  <2>7. confirm' = [confirm EXCEPT ![s] = call]
    BY <1>0, <1>6 DEF FindRow, LocalsOK
  <2> HIDE DEF call
  <2>3. confirm' \in [Sessions -> Calls({"idle", "end"} \cup Saving)]
    BY <1>0, <2>6, <2>7 DEF LocalsOK
  <2>4. QED BY <1>0, <1>6, <2>3 DEF FindRow, LocalsOK, history, dbVars
<1>7. ASSUME NEW s \in Sessions, UpdateRow(s)
      PROVE  LocalsOK'
  <2> DEFINE in == confirm[s].in
             k == in.saved
  <2>1. /\ k \in Keys /\ Edited(s) \in Table /\ Edited(s).spec \in Specs
        /\ in \in Drafts /\ in.pending \in Specs
    BY <1>0, <1>7, EditedOK DEF UpdateRow, Table, LocalsOK, Calls, BoundInv, Ready, Saving
  <2>2. UNCHANGED <<session, send, discard, start, sends>>
    BY <1>7 DEF UpdateRow
  <2>3. CASE SaveRaised(s, k, Edited(s))
    BY <1>0, <2>1, <2>2, <2>3, SaveRaisedOK DEF LocalsOK
  <2>4. CASE ~SaveRaised(s, k, Edited(s))
    <3>1. /\ Store(Web, k, Edited(s))
          /\ confirm' = [confirm EXCEPT ![s].at = "end", ![s].out = Bound(in, k)]
          /\ Wrote(k, Edited(s))
          /\ Wants(k, "spec", in.pending)
          /\ clash' \subseteq clash \cup {k}
          /\ UNCHANGED <<created, mixed>>
      BY <1>7, <2>4 DEF UpdateRow
    <3>2. confirm' \in [Sessions -> Calls({"idle", "end"} \cup Saving)]
      BY <1>0, <2>1, <3>1, BoundOK, Ended
    <3>3. written' \in [Keys -> SUBSET Specs]
      BY <1>0, <2>1, <3>1 DEF LocalsOK, Wrote
    <3>4. QED BY <1>0, <2>1, <2>2, <3>1, <3>2, <3>3 DEF LocalsOK, Store
  <2>5. QED BY <2>3, <2>4
<1>8. ASSUME NEW s \in Sessions, ConfirmEnd(s)
      PROVE  LocalsOK'
  <2>1. confirm[s].out \in Drafts
    BY <1>0 DEF LocalsOK, Calls
  <2>2. QED BY <1>0, <1>8, <2>1 DEF ConfirmEnd, LocalsOK, history, dbVars
<1>9. ASSUME NEW s \in Sessions, DiscardBegin(s)
      PROVE  LocalsOK'
  <2> DEFINE k == session[s].saved
             out == IF k = None THEN Empty
                    ELSE [pending |-> Find(Web, k).spec, dirty |-> FALSE, saved |-> k]
  <2>1. k # None => k \in Keys /\ Find(Web, k) # Absent
    BY <1>0 DEF BoundInv, There, Held, LocalsOK, Drafts
  <2>2. out \in Drafts
    BY <2>1, Found DEF Drafts, Table
  <2>3. [NoCall EXCEPT !.at = "end", !.out = out] \in Calls({"idle", "end"})
    BY <2>2 DEF Calls
  <2>4. discard' = [discard EXCEPT ![s] = [NoCall EXCEPT !.at = "end", !.out = out]]
    BY <1>9 DEF DiscardBegin
  <2> HIDE DEF out
  <2>5. discard' \in [Sessions -> Calls({"idle", "end"})]
    BY <1>0, <2>3, <2>4 DEF LocalsOK
  <2>6. QED BY <1>0, <1>9, <2>5 DEF DiscardBegin, LocalsOK, Begin, dbVars
<1>10. ASSUME NEW s \in Sessions, DiscardEnd(s)
       PROVE  LocalsOK'
  <2>1. discard[s].out \in Drafts
    BY <1>0 DEF LocalsOK, Calls
  <2>2. QED BY <1>0, <1>10, <2>1 DEF DiscardEnd, LocalsOK, dbVars
<1>11. ASSUME NEW k \in Keys, StartFind(k)
       PROVE  LocalsOK'
  BY <1>0, <1>11, Found DEF StartFind, LocalsOK, Rows, handlers, history, dbVars
<1>12. ASSUME NEW k \in Keys, StartWrite(k)
       PROVE  LocalsOK'
  <2> DEFINE row == [start[k] EXCEPT !.state = "running"]
  <2>1. row \in Table /\ row.spec \in Specs
    BY <1>12, StartedOK DEF StartWrite, Table
  <2>2. dbErrors' \in 0..MaxDbErrors
    BY <1>0, <1>12, <2>1, ErrorsCounted DEF StartWrite, Writes, LocalsOK
  <2>4. written' \in [Keys -> SUBSET Specs]
    BY <1>0, <1>12, <2>1 DEF StartWrite, LocalsOK, Wrote
  <2>5. start' \in Rows /\ clash' \subseteq Keys
    BY <1>0, <1>12 DEF StartWrite, LocalsOK, Rows
  <2>6. QED BY <1>0, <1>12, <2>2, <2>4, <2>5 DEF StartWrite, LocalsOK, handlers
<1>13. QED BY <1>1, <1>2, <1>3, <1>4, <1>5, <1>6, <1>7, <1>8, <1>9, <1>10, <1>11, <1>12 DEF Next

-----------------------------------------------------------------------------
(* What each step does to the drafts of its session.                        *)

\* Nothing of another session changes.
Alone(s) ==
  \A r \in Sessions \ {s} :
    UNCHANGED <<session[r], send[r], confirm[r], discard[r], created[r]>>
    /\ (r \in mixed' <=> r \in mixed)

LEMMA SendBegins ==
  ASSUME ShapeInv, NEW s \in Sessions, SendBegin(s)
  PROVE  /\ Alone(s) /\ UNCHANGED <<session, confirm, discard, created, written>>
         /\ mixed' = IF Quiet(s) THEN mixed ELSE mixed \cup {s}
         /\ send'[s].at = "model" /\ send'[s].in = session[s]
         /\ send'[s].out \in Drafts
         /\ \/ send'[s].out = session[s]
            \/ send'[s].out.saved \in Keys /\ Find(Web, send'[s].out.saved) # Absent
<1> DEFINE in == session[s]
<1>0. LocalsOK
  BY TypeParts DEF ShapeInv
<1>1. \A k \in Keys : Loadable(in, k) =>
        /\ [in EXCEPT !.pending = Find(Web, k).spec, !.saved = k] \in Drafts
        /\ [in EXCEPT !.pending = Find(Web, k).spec, !.saved = k].saved = k
        /\ Find(Web, k) # Absent
  <2>1. \A k \in Keys : Loadable(in, k) => Find(Web, k).spec \in Specs /\ Find(Web, k) # Absent
    BY Found, SessionAssumption DEF Loadable, Table, ShapeInv
  <2>2. QED BY <1>0, <2>1 DEF LocalsOK, Drafts
<1>2. PICK out \in {in} \cup {[in EXCEPT !.pending = Find(Web, k).spec, !.saved = k] :
                                k \in {j \in Keys : Loadable(in, j)}} :
        send' = [send EXCEPT ![s] = [NoCall EXCEPT !.at = "model", !.in = in, !.out = out]]
  BY DEF SendBegin
<1>3. /\ out \in Drafts
      /\ out = in \/ (out.saved \in Keys /\ Find(Web, out.saved) # Absent)
  <2>1. CASE out = in
    BY <1>0, <2>1 DEF LocalsOK
  <2>2. CASE out # in
    <3>1. PICK k \in Keys : /\ Loadable(in, k)
                            /\ out = [in EXCEPT !.pending = Find(Web, k).spec, !.saved = k]
      BY <2>2
    <3>2. out \in Drafts /\ out.saved = k /\ Find(Web, k) # Absent
      BY <1>1, <3>1
    <3>3. QED BY <3>2
  <2>3. QED BY <2>1, <2>2
<1> DEFINE c == [NoCall EXCEPT !.at = "model", !.in = in, !.out = out]
<1>4. c.at = "model" /\ c.in = in /\ c.out = out
  BY DEF NoCall
<1> HIDE DEF c
<1>5. send'[s] = c /\ \A r \in Sessions \ {s} : send'[r] = send[r]
  BY <1>0, <1>2 DEF LocalsOK, c
<1>6. /\ UNCHANGED <<session, confirm, discard, created, written>>
      /\ mixed' = IF Quiet(s) THEN mixed ELSE mixed \cup {s}
  BY DEF SendBegin, Begin
<1>7. QED BY <1>3, <1>4, <1>5, <1>6 DEF Alone

\* A draft that comes out clean went in clean, and did not change.
LEMMA SendEnds ==
  ASSUME ShapeInv, NEW s \in Sessions, SendEnd(s)
  PROVE  /\ Alone(s) /\ UNCHANGED <<confirm, discard, created, written, mixed>>
         /\ send[s].at = "model" /\ send'[s].at = "idle"
         /\ send'[s].in = Empty /\ send'[s].out = Empty
         /\ session'[s] \in Drafts
         /\ session'[s].saved = send[s].out.saved
         /\ session'[s].pending # None /\ ~session'[s].dirty =>
              /\ ~send[s].in.dirty /\ session'[s].pending = send[s].in.pending
              /\ session'[s].saved \in {None, send[s].in.saved}
<1> DEFINE in == send[s].in
           out == send[s].out
<1>0. LocalsOK /\ in \in Drafts /\ out \in Drafts
  BY TypeParts DEF ShapeInv, LocalsOK, Calls
<1>1. PICK spec \in Specs \cup {out.pending} :
        session' = [session EXCEPT ![s] =
          [[out EXCEPT !.pending = spec] EXCEPT !.dirty = Dirty(in, [out EXCEPT !.pending = spec])]]
  BY DEF SendEnd
<1> DEFINE made == [out EXCEPT !.pending = spec]
           new  == [made EXCEPT !.dirty = Dirty(in, made)]
<1>2. made \in Drafts /\ made.saved = out.saved
  BY <1>0 DEF Drafts
<1>3. Dirty(in, made) \in BOOLEAN
  BY <1>0 DEF Dirty, Drafts
<1>4. /\ new \in Drafts /\ new.saved = out.saved /\ new.pending = made.pending
      /\ new.dirty = Dirty(in, made)
  BY <1>2, <1>3 DEF Drafts
<1>5. new.pending # None /\ ~new.dirty =>
        ~in.dirty /\ new.pending = in.pending /\ new.saved \in {None, in.saved}
  BY <1>2, <1>4 DEF Dirty
<1> HIDE DEF made, new
<1>6. session'[s] = new /\ \A r \in Sessions \ {s} : session'[r] = session[r]
  BY <1>0, <1>1 DEF LocalsOK, new, made
<1>7. /\ send[s].at = "model" /\ send' = [send EXCEPT ![s] = NoCall]
      /\ UNCHANGED <<confirm, discard, created, written, mixed>>
  BY DEF SendEnd, history
<1>8. send'[s] = NoCall /\ \A r \in Sessions \ {s} : send'[r] = send[r]
  BY <1>0, <1>7 DEF LocalsOK
<1>9. QED BY <1>4, <1>5, <1>6, <1>7, <1>8 DEF Alone, NoCall

LEMMA Clears ==
  ASSUME ShapeInv, NEW s \in Sessions, Clear(s)
  PROVE  /\ Alone(s) /\ UNCHANGED <<send, confirm, discard, written>>
         /\ session'[s] = Empty /\ created'[s] = {}
         /\ mixed' = IF Quiet(s) THEN mixed \ {s} ELSE mixed \cup {s}
<1>1. LocalsOK
  BY TypeParts DEF ShapeInv
<1>2. QED BY <1>1 DEF Clear, Alone, handlers, LocalsOK

LEMMA ConfirmBegins ==
  ASSUME ShapeInv, NEW s \in Sessions, ConfirmBegin(s)
  PROVE  /\ Alone(s) /\ UNCHANGED <<session, send, discard, created, written>>
         /\ mixed' = IF Quiet(s) THEN mixed ELSE mixed \cup {s}
         /\ confirm'[s].in = session[s] /\ confirm'[s].out = session[s]
         /\ session[s].dirty
         /\ \/ confirm'[s].at = "end"
            \/ confirm'[s].at = "creating" /\ session[s].saved = None /\ session[s].pending \in Specs
            \/ confirm'[s].at = "finding" /\ session[s].saved \in Keys /\ session[s].pending \in Specs
<1> DEFINE in == session[s]
           c  == [NoCall EXCEPT !.at = Save(in), !.in = in, !.out = in]
<1>0. LocalsOK /\ in \in Drafts
  BY TypeParts DEF ShapeInv, LocalsOK
<1>1. confirm' = [confirm EXCEPT ![s] = c]
  BY DEF ConfirmBegin
<1>2. c.at = Save(in) /\ c.in = in /\ c.out = in
  BY DEF NoCall
<1>3. in.pending \in Specs /\ in.saved \in Keys \cup {None}
  BY <1>0 DEF ConfirmBegin, Drafts
<1>4. \/ Save(in) = "end"
      \/ Save(in) = "creating" /\ in.saved = None
      \/ Save(in) = "finding" /\ in.saved \in Keys
  BY <1>3 DEF Save
<1> HIDE DEF c
<1>5. confirm'[s] = c /\ \A r \in Sessions \ {s} : confirm'[r] = confirm[r]
  BY <1>0, <1>1 DEF LocalsOK
<1>6. /\ UNCHANGED <<session, send, discard, created, written>> /\ in.dirty
      /\ mixed' = IF Quiet(s) THEN mixed ELSE mixed \cup {s}
  BY DEF ConfirmBegin, Begin
<1>7. QED BY <1>2, <1>3, <1>4, <1>5, <1>6 DEF Alone

LEMMA ConfirmEnds ==
  ASSUME ShapeInv, NEW s \in Sessions, ConfirmEnd(s)
  PROVE  /\ Alone(s) /\ UNCHANGED <<send, discard, created, written, mixed>>
         /\ confirm[s].at = "end" /\ confirm'[s] = NoCall
         /\ session'[s] = confirm[s].out
<1>1. LocalsOK
  BY TypeParts DEF ShapeInv
<1>2. QED BY <1>1 DEF ConfirmEnd, Alone, LocalsOK, history

LEMMA DiscardBegins ==
  ASSUME ShapeInv, NEW s \in Sessions, DiscardBegin(s)
  PROVE  /\ Alone(s) /\ UNCHANGED <<session, send, confirm, created, written>>
         /\ mixed' = IF Quiet(s) THEN mixed ELSE mixed \cup {s}
         /\ discard'[s].at = "end" /\ discard'[s].out \in Drafts
         /\ \/ session[s].saved = None /\ discard'[s].out = Empty
            \/ /\ session[s].saved \in Keys
               /\ discard'[s].out.saved = session[s].saved
               /\ discard'[s].out.pending = Find(Web, session[s].saved).spec
<1> DEFINE k   == session[s].saved
           out == IF k = None THEN Empty
                  ELSE [pending |-> Find(Web, k).spec, dirty |-> FALSE, saved |-> k]
           c   == [NoCall EXCEPT !.at = "end", !.out = out]
<1>0. LocalsOK /\ session[s] \in Drafts
  BY TypeParts DEF ShapeInv, LocalsOK
<1>1. k # None => k \in Keys /\ Find(Web, k) # Absent
  BY <1>0 DEF ShapeInv, BoundInv, There, Held, Drafts
<1>2. k # None => Find(Web, k).spec \in Specs
  BY <1>1, Found, SessionAssumption DEF ShapeInv, Table
<1>3. out \in Drafts
  BY <1>1, <1>2, EmptyOK DEF Drafts
<1>4. \/ k = None /\ out = Empty
      \/ k \in Keys /\ out.saved = k /\ out.pending = Find(Web, k).spec
  BY <1>1
<1>5. discard' = [discard EXCEPT ![s] = c]
  BY DEF DiscardBegin
<1> HIDE DEF out
<1>6. c.at = "end" /\ c.out = out
  BY DEF NoCall
<1> HIDE DEF c
<1>7. discard'[s] = c /\ \A r \in Sessions \ {s} : discard'[r] = discard[r]
  BY <1>0, <1>5 DEF LocalsOK
<1>8. /\ UNCHANGED <<session, send, confirm, created, written>>
      /\ mixed' = IF Quiet(s) THEN mixed ELSE mixed \cup {s}
  BY DEF DiscardBegin, Begin
<1>9. QED BY <1>3, <1>4, <1>6, <1>7, <1>8 DEF Alone

LEMMA DiscardEnds ==
  ASSUME ShapeInv, NEW s \in Sessions, DiscardEnd(s)
  PROVE  /\ Alone(s) /\ UNCHANGED <<send, confirm, written, mixed>>
         /\ discard[s].at = "end" /\ discard'[s] = NoCall
         /\ session'[s] = discard[s].out
         /\ created'[s] = IF discard[s].out = Empty THEN {} ELSE created[s]
<1>1. LocalsOK
  BY TypeParts DEF ShapeInv
<1>2. QED BY <1>1 DEF DiscardEnd, Alone, LocalsOK

\* A save that raised leaves the draft as it was.
LEMMA SaveRaises ==
  ASSUME ShapeInv, NEW s \in Sessions, NEW k, NEW row, SaveRaised(s, k, row)
  PROVE  /\ confirm'[s].at = "end" /\ confirm'[s].in = confirm[s].in
         /\ confirm'[s].out = confirm[s].out
         /\ \A r \in Sessions \ {s} : confirm'[r] = confirm[r]
         /\ created' = created /\ mixed' = mixed \cup {s}
         /\ wanted' = wanted
         /\ Raises(Web, k, row)
         /\ \/ tx' = tx /\ UNCHANGED <<written, clash>>
            \/ Wrote(k, row) /\ clash' = clash \cup {k}
<1>1. LocalsOK /\ confirm[s] \in Calls({"idle", "end"} \cup Saving)
  BY TypeParts DEF ShapeInv, LocalsOK
<1>2. confirm' = [confirm EXCEPT ![s].at = "end"]
  BY DEF SaveRaised
<1>3. /\ confirm'[s] = [confirm[s] EXCEPT !.at = "end"]
      /\ \A r \in Sessions \ {s} : confirm'[r] = confirm[r]
  BY <1>1, <1>2 DEF LocalsOK
<1>4. /\ confirm'[s].at = "end" /\ confirm'[s].in = confirm[s].in
      /\ confirm'[s].out = confirm[s].out
  BY <1>1, <1>3 DEF Calls
<1>5. QED BY <1>3, <1>4 DEF SaveRaised

\* The rows a save writes: a new one, with the draft in it ...
LEMMA Creates ==
  ASSUME ShapeInv, NEW s \in Sessions, Create(s)
  PROVE  LET row == Row(confirm[s].in.pending, "initializing") IN
         /\ UNCHANGED <<session, send, discard, start>>
         /\ confirm[s].at = "creating"
         /\ row \in Table /\ row.spec = confirm[s].in.pending
         /\ \E k \in Unused :
              \/ SaveRaised(s, k, row)
              \/ /\ Store(Web, k, row) /\ Wrote(k, row)
                 /\ wanted' = [wanted EXCEPT ![k] = row]
                 /\ created'[s] = created[s] \cup {k}
                 /\ UNCHANGED <<mixed, clash>>
                 /\ confirm'[s].at = "end" /\ confirm'[s].in = confirm[s].in
                 /\ confirm'[s].out = Bound(confirm[s].in, k)
                 /\ \A r \in Sessions \ {s} : UNCHANGED <<confirm[r], created[r]>>
<1> DEFINE in  == confirm[s].in
           row == Row(in.pending, "initializing")
<1>1. LocalsOK /\ in \in Drafts
  BY TypeParts DEF ShapeInv, LocalsOK, Calls
<1>2. /\ UNCHANGED <<session, send, discard, start>>
      /\ confirm[s].at = "creating"
  BY DEF Create
<1>3. row \in Table /\ row.spec = in.pending
  BY <1>2, CreatedOK
<1>4. PICK k \in Unused :
          \/ /\ Store(Web, k, row)
             /\ confirm' = [confirm EXCEPT ![s].at = "end", ![s].out = Bound(in, k)]
             /\ Wrote(k, row)
             /\ wanted' = [wanted EXCEPT ![k] = row]
             /\ created' = [created EXCEPT ![s] = @ \cup {k}]
             /\ UNCHANGED <<mixed, clash>>
          \/ SaveRaised(s, k, row)
  BY DEF Create
<1>5. k \in Keys /\ Bound(in, k) \in Drafts
  BY <1>1, <1>4, BoundOK DEF Unused
<1> HIDE DEF row, in
<1>6. CASE SaveRaised(s, k, row)
  BY <1>2, <1>3, <1>4, <1>6 DEF row, in
<1>7. CASE ~SaveRaised(s, k, row)
  <2>1. confirm' = [confirm EXCEPT ![s].at = "end", ![s].out = Bound(in, k)]
    BY <1>4, <1>7
  <2>2. /\ confirm'[s].at = "end" /\ confirm'[s].in = confirm[s].in
        /\ confirm'[s].out = Bound(in, k)
        /\ \A r \in Sessions \ {s} : confirm'[r] = confirm[r]
    BY <1>1, <1>5, <2>1, Ended
  <2>3. created'[s] = created[s] \cup {k} /\ \A r \in Sessions \ {s} : created'[r] = created[r]
    BY <1>1, <1>4, <1>7 DEF LocalsOK
  <2>4. QED BY <1>2, <1>3, <1>4, <1>7, <2>2, <2>3 DEF row, in
<1>8. QED BY <1>6, <1>7

LEMMA Finds ==
  ASSUME ShapeInv, NEW s \in Sessions, FindRow(s)
  PROVE  /\ Alone(s) /\ UNCHANGED <<dbVars, session, send, discard, start, history>>
         /\ confirm[s].at = "finding" /\ confirm'[s].at = "updating"
         /\ confirm'[s].in = confirm[s].in /\ confirm'[s].out = confirm[s].out
         /\ confirm[s].in.saved \in Keys
         /\ confirm'[s].row = Find(Web, confirm[s].in.saved)
<1> DEFINE c == [confirm[s] EXCEPT !.at = "updating", !.row = Find(Web, confirm[s].in.saved)]
<1>1. LocalsOK /\ confirm[s] \in Calls({"idle", "end"} \cup Saving)
  BY TypeParts DEF ShapeInv, LocalsOK
<1>2. confirm' = [confirm EXCEPT ![s] = c]
  BY <1>1 DEF FindRow, LocalsOK
<1>3. /\ c.at = "updating" /\ c.in = confirm[s].in /\ c.out = confirm[s].out
      /\ c.row = Find(Web, confirm[s].in.saved)
  BY <1>1 DEF Calls
<1> HIDE DEF c
<1>4. confirm'[s] = c /\ \A r \in Sessions \ {s} : confirm'[r] = confirm[r]
  BY <1>1, <1>2 DEF LocalsOK
<1>5. /\ UNCHANGED <<dbVars, session, send, discard, start, history>>
      /\ confirm[s].at = "finding"
  BY DEF FindRow
<1>6. confirm[s].in.saved \in Keys
  BY <1>5 DEF ShapeInv, BoundInv, Ready
<1>7. QED BY <1>3, <1>4, <1>5, <1>6 DEF Alone, history

\* ... or the one that is bound, with the fields that were found.
LEMMA Updates ==
  ASSUME ShapeInv, NEW s \in Sessions, UpdateRow(s)
  PROVE  LET k == confirm[s].in.saved IN
         /\ UNCHANGED <<session, send, discard, start, created>>
         /\ confirm[s].at = "updating" /\ k \in Keys /\ Find(Web, k) # Absent
         /\ \/ SaveRaised(s, k, Edited(s))
            \/ /\ Store(Web, k, Edited(s)) /\ Wrote(k, Edited(s))
               /\ Wants(k, "spec", confirm[s].in.pending)
               /\ clash' = IF start[k] = Absent /\ Editors(k) = {s} THEN clash ELSE clash \cup {k}
               /\ mixed' = mixed
               /\ confirm'[s].at = "end" /\ confirm'[s].in = confirm[s].in
               /\ confirm'[s].out = Bound(confirm[s].in, k)
               /\ \A r \in Sessions \ {s} : confirm'[r] = confirm[r]
<1> DEFINE in  == confirm[s].in
           k   == in.saved
<1>1. LocalsOK /\ in \in Drafts
  BY TypeParts DEF ShapeInv, LocalsOK, Calls
<1>2. /\ UNCHANGED <<session, send, discard, start>>
      /\ confirm[s].at = "updating"
  BY DEF UpdateRow
<1>3. k \in Keys
  BY <1>2, EditedOK
<1>4. There(in)
  BY DEF ShapeInv, BoundInv, Held
<1>5. Find(Web, k) # Absent
  BY <1>3, <1>4, SessionAssumption DEF There
<1>6. CASE SaveRaised(s, k, Edited(s))
  BY <1>2, <1>3, <1>5, <1>6 DEF SaveRaised
<1>7. CASE ~SaveRaised(s, k, Edited(s))
  <2>1. /\ Store(Web, k, Edited(s)) /\ Wrote(k, Edited(s))
        /\ Wants(k, "spec", in.pending)
        /\ clash' = IF start[k] = Absent /\ Editors(k) = {s} THEN clash ELSE clash \cup {k}
        /\ UNCHANGED <<created, mixed>>
        /\ confirm' = [confirm EXCEPT ![s].at = "end", ![s].out = Bound(in, k)]
    BY <1>7 DEF UpdateRow
  <2>2. Bound(in, k) \in Drafts
    BY <1>1, <1>3, BoundOK
  <2> HIDE DEF in
  <2>3. /\ confirm'[s].at = "end" /\ confirm'[s].in = confirm[s].in
        /\ confirm'[s].out = Bound(in, k)
        /\ \A r \in Sessions \ {s} : confirm'[r] = confirm[r]
    BY <1>1, <2>1, <2>2, Ended
  <2>4. QED BY <1>2, <1>3, <1>5, <2>1, <2>3 DEF in
<1>8. QED BY <1>6, <1>7

LEMMA Starts ==
  ASSUME NEW k \in Keys, StartFind(k) \/ StartWrite(k)
  PROVE  UNCHANGED <<session, send, confirm, discard, created, mixed>>
BY DEF StartFind, StartWrite, handlers, history

LEMMA HeldOK ==
  ASSUME TypeOK, NEW s \in Sessions
  PROVE  Held(s) \subseteq Drafts
BY TypeParts DEF LocalsOK, Calls, Held

\* A draft that is bound stays bound to a row that is there.
LEMMA ThereStays ==
  ASSUME ShapeInv, Next, NEW d \in Drafts, There(d)
  PROVE  There(d)'
BY RowsStay, SessionAssumption DEF There, Drafts

\* What a save wrote is there.
LEMMA StoredIsThere ==
  ASSUME ShapeInv, NEW k \in Keys, NEW row \in Table, Store(Web, k, row)
  PROVE  Find(Web, k)' = row /\ row # Absent
<1>1. View(Web) \in Rows /\ TablesOK
  BY ViewOK, TypeTables, SessionAssumption DEF ShapeInv
<1>2. QED BY <1>1, SessionAssumption DEF Store, Commit, Find, View, Rows, TablesOK

LEMMA StepBound ==
  ASSUME ShapeInv, Next
  PROVE  BoundInv'
<1> DEFINE Fine(s) == (\A d \in Held(s)' : There(d)') /\ Ready(confirm'[s])
<1> SUFFICES ASSUME NEW s \in Sessions
             PROVE  Fine(s)
  BY DEF BoundInv
<1>1. \A d \in Held(s) : d \in Drafts /\ There(d) /\ There(d)'
  BY HeldOK, ThereStays DEF ShapeInv, BoundInv
<1>2. Ready(confirm[s])
  BY DEF ShapeInv, BoundInv
<1>3. There(Empty) /\ There(Empty)'
  BY EmptyOK DEF There
<1>4. ASSUME NEW r \in Sessions, r # s, Alone(r)
      PROVE  Fine(s)
  BY <1>1, <1>2, <1>4 DEF Alone, Held
<1>5. ASSUME SendBegin(s)
      PROVE  Fine(s)
  <2>1. ASSUME NEW d, d = send'[s].out
        PROVE  There(d)'
    <3>1. There(d) /\ d \in Drafts
      BY <1>1, <1>5, <2>1, SendBegins DEF Held, There
    <3>2. QED BY <3>1, ThereStays
  <2>2. QED BY <1>1, <1>2, <1>5, <2>1, SendBegins DEF Held
<1>6. ASSUME SendEnd(s)
      PROVE  Fine(s)
  <2>1. ASSUME NEW d, d = session'[s]
        PROVE  There(d)'
    <3>1. There(d) /\ d \in Drafts
      BY <1>1, <1>6, <2>1, SendEnds DEF Held, There
    <3>2. QED BY <3>1, ThereStays
  <2>2. QED BY <1>1, <1>2, <1>3, <1>6, <2>1, SendEnds DEF Held
<1>7. ASSUME Clear(s)
      PROVE  Fine(s)
  BY <1>1, <1>2, <1>3, <1>7, Clears DEF Held
<1>8. ASSUME ConfirmBegin(s)
      PROVE  Fine(s)
  <2>1. Ready(confirm'[s])
    BY <1>8, ConfirmBegins DEF Ready, Saving
  <2>2. QED BY <1>1, <1>8, <2>1, ConfirmBegins DEF Held
<1>9. ASSUME Create(s)
      PROVE  Fine(s)
  <2> DEFINE row == Row(confirm[s].in.pending, "initializing")
  <2>1. PICK k \in Unused :
          \/ SaveRaised(s, k, row)
          \/ /\ Store(Web, k, row)
             /\ confirm'[s].at = "end" /\ confirm'[s].in = confirm[s].in
             /\ confirm'[s].out = Bound(confirm[s].in, k)
    BY <1>9, Creates
  <2>2. row \in Table /\ UNCHANGED <<session, send, discard>>
    BY <1>9, Creates
  <2> HIDE DEF row
  <2>3. ASSUME SaveRaised(s, k, row)
        PROVE  Fine(s)
    BY <1>1, <2>2, <2>3, SaveRaises DEF Held, Ready, Saving
  <2>4. ASSUME ~SaveRaised(s, k, row)
        PROVE  Fine(s)
    <3>1. k \in Keys /\ confirm[s].in \in Drafts
      BY <1>1 DEF Unused, Held
    <3>2. ASSUME NEW d, d = confirm'[s].out
          PROVE  There(d)'
      <4>1. d.saved = k
        BY <2>1, <2>4, <3>1, <3>2, BoundOK
      <4>2. Find(Web, k)' # Absent
        BY <2>1, <2>2, <2>4, <3>1, StoredIsThere
      <4>3. QED BY <4>1, <4>2 DEF There
    <3>3. QED BY <1>1, <2>1, <2>2, <2>4, <3>2 DEF Held, Ready, Saving
  <2>5. QED BY <2>3, <2>4
<1>10. ASSUME FindRow(s)
       PROVE  Fine(s)
  <2>1. confirm'[s].row \in Table
    <3>1. There(confirm[s].in)
      BY <1>1 DEF Held
    <3>2. Find(Web, confirm[s].in.saved) # Absent
      BY <1>10, <3>1, Finds, SessionAssumption DEF There
    <3>3. QED BY <1>10, <3>2, Finds, Found, SessionAssumption DEF ShapeInv
  <2>2. Ready(confirm'[s])
    BY <1>2, <1>10, <2>1, Finds DEF Ready, Saving
  <2>3. QED BY <1>1, <1>10, <2>2, Finds DEF Held
<1>11. ASSUME UpdateRow(s)
       PROVE  Fine(s)
  <2> DEFINE k == confirm[s].in.saved
  <2>1. /\ \/ SaveRaised(s, k, Edited(s))
           \/ /\ confirm'[s].at = "end" /\ confirm'[s].in = confirm[s].in
              /\ confirm'[s].out = Bound(confirm[s].in, k)
        /\ UNCHANGED <<session, send, discard>>
        /\ k \in Keys
    BY <1>11, Updates
  <2>2. ASSUME SaveRaised(s, k, Edited(s))
        PROVE  Fine(s)
    BY <1>1, <2>1, <2>2, SaveRaises DEF Held, Ready, Saving
  <2>3. ASSUME ~SaveRaised(s, k, Edited(s))
        PROVE  Fine(s)
    <3>1. PICK in \in Drafts : in = confirm[s].in /\ There(in)'
      BY <1>1 DEF Held
    <3>2. ASSUME NEW d, d = confirm'[s].out
          PROVE  There(d)'
      <4>1. d.saved = in.saved
        BY <2>1, <2>3, <3>1, <3>2, BoundOK
      <4>2. QED BY <3>1, <4>1 DEF There
    <3>3. QED BY <1>1, <2>1, <2>3, <3>2 DEF Held, Ready, Saving
  <2>4. QED BY <2>2, <2>3
<1>12. ASSUME ConfirmEnd(s)
       PROVE  Fine(s)
  BY <1>1, <1>3, <1>12, NoCallOK, ConfirmEnds DEF Held, Ready, Saving, NoCall
<1>13. ASSUME DiscardBegin(s)
       PROVE  Fine(s)
  <2>1. ASSUME NEW d, d = discard'[s].out
        PROVE  There(d)'
    <3>1. PICK in \in Drafts : in = session[s] /\ There(in)'
      BY <1>1 DEF Held
    <3>2. d.saved \in {None, in.saved}
      BY <1>13, <2>1, <3>1, DiscardBegins, EmptyOK
    <3>3. QED BY <3>1, <3>2 DEF There
  <2>2. QED BY <1>1, <1>2, <1>13, <2>1, DiscardBegins DEF Held
<1>14. ASSUME DiscardEnd(s)
       PROVE  Fine(s)
  BY <1>1, <1>2, <1>3, <1>14, DiscardEnds DEF Held, NoCall
<1>15. ASSUME NEW r \in Sessions, r # s, Create(r) \/ UpdateRow(r)
       PROVE  Fine(s)
  <2>1. UNCHANGED <<session, send, discard, confirm[s]>>
    BY <1>15, Creates, Updates, SaveRaises
  <2>2. QED BY <1>1, <1>2, <2>1 DEF Held
<1>16. ASSUME NEW k \in Keys, StartFind(k) \/ StartWrite(k)
       PROVE  Fine(s)
  BY <1>1, <1>2, <1>16, Starts DEF Held
<1>17. ASSUME NEW r \in Sessions, r # s,
              \/ SendBegin(r) \/ SendEnd(r) \/ Clear(r) \/ ConfirmBegin(r)
              \/ FindRow(r) \/ ConfirmEnd(r) \/ DiscardBegin(r) \/ DiscardEnd(r)
       PROVE  Alone(r)
  BY <1>17, SendBegins, SendEnds, Clears, ConfirmBegins, Finds, ConfirmEnds, DiscardBegins,
     DiscardEnds
<1> HIDE DEF Fine
<1>18. QED
  BY <1>4, <1>5, <1>6, <1>7, <1>8, <1>9, <1>10, <1>11, <1>12, <1>13, <1>14, <1>15, <1>16,
     <1>17 DEF Next

-----------------------------------------------------------------------------
(* CleanWasSaved.                                                           *)

Good(d) ==
  d.pending # None /\ ~d.dirty => d.saved # None /\ d.pending \in written[d.saved]

\* What anybody sees of a row, or has in hand of it, was written into it.
SeenInv ==
  /\ \A p \in Procs, k \in Keys : Find(p, k) # Absent => Find(p, k).spec \in written[k]
  /\ \A k \in Keys : start[k] # Absent => start[k].spec \in written[k]

\* Inductive with it: not only the drafts at rest, but those that a handler
\* has taken, or will leave behind, are good.  Loading never unbinds.
GoodInv ==
  \A s \in Sessions :
    /\ Good(session[s]) /\ Good(send[s].in) /\ Good(confirm[s].out) /\ Good(discard[s].out)
    /\ send[s].out.saved = None => send[s].in.saved = None

\* A step that writes a row into the table, or nothing.
LEMMA SeenStays ==
  ASSUME ShapeInv, SeenInv, NEW p \in Procs, NEW k \in Keys, NEW row \in Table,
         Writes(p, k, row),
         \A j \in Keys : written[j] \subseteq written'[j],
         (tx' = tx /\ Raises(p, k, row)) \/ row.spec \in written'[k],
         NEW q \in Procs, NEW j \in Keys, Find(q, j)' # Absent
  PROVE  Find(q, j)'.spec \in written'[j]
<1>1. \/ Find(q, j)' = Find(q, j)
      \/ Find(q, j)' = Find(p, j)
      \/ j = k /\ Find(q, j)' = row
  BY TypeTables, WriteSeen DEF ShapeInv
<1>2. CASE tx' = tx /\ Raises(p, k, row)
  <2>1. db' = db
    BY <1>2 DEF Raises, StatementRaises, CommitRaises, dbVars
  <2>2. Find(q, j)' = Find(q, j)
    BY <1>2, <2>1 DEF Find, View
  <2>3. QED BY <2>2 DEF SeenInv
<1>3. CASE row.spec \in written'[k]
  BY <1>1, <1>3 DEF SeenInv
<1>4. QED BY <1>2, <1>3

LEMMA Wrotes ==
  ASSUME ShapeInv, NEW k \in Keys, NEW row, Wrote(k, row)
  PROVE  row.spec \in written'[k] /\ \A j \in Keys : written[j] \subseteq written'[j]
BY TypeParts DEF ShapeInv, LocalsOK, Wrote

LEMMA StepSeen ==
  ASSUME ShapeInv, SeenInv, Next
  PROVE  SeenInv' /\ \A j \in Keys : written[j] \subseteq written'[j]
<1> USE SessionAssumption
<1> DEFINE Grown == \A j \in Keys : written[j] \subseteq written'[j]
           Shown == \A q \in Procs, j \in Keys :
                      Find(q, j)' # Absent => Find(q, j)'.spec \in written'[j]
<1>1. ASSUME NEW s \in Sessions, Create(s)
      PROVE  Shown /\ Grown /\ start' = start
  <2> DEFINE row == Row(confirm[s].in.pending, "initializing")
  <2>1. PICK k \in Keys : SaveRaised(s, k, row) \/ (Store(Web, k, row) /\ Wrote(k, row))
    BY <1>1, Creates DEF Unused
  <2>2. row \in Table /\ start' = start
    BY <1>1, Creates
  <2> HIDE DEF row
  <2>3. Writes(Web, k, row) /\ ((tx' = tx /\ Raises(Web, k, row) /\ written' = written) \/ Wrote(k, row))
    BY <2>1, SaveRaises DEF Writes
  <2>4. Grown
    BY <2>3, Wrotes
  <2>5. QED BY <2>2, <2>3, <2>4, Wrotes, SeenStays
<1>2. ASSUME NEW s \in Sessions, UpdateRow(s)
      PROVE  Shown /\ Grown /\ start' = start
  <2> DEFINE row == Edited(s)
             k   == confirm[s].in.saved
  <2>1. /\ k \in Keys /\ start' = start
        /\ SaveRaised(s, k, row) \/ (Store(Web, k, row) /\ Wrote(k, row))
    BY <1>2, Updates
  <2>2. row \in Table
    BY <1>2, EditedOK, Updates
  <2> HIDE DEF row, k
  <2>3. Writes(Web, k, row) /\ ((tx' = tx /\ Raises(Web, k, row) /\ written' = written) \/ Wrote(k, row))
    BY <2>1, SaveRaises DEF Writes
  <2>4. Grown
    BY <2>1, <2>3, Wrotes
  <2>5. QED BY <2>1, <2>2, <2>3, <2>4, Wrotes, SeenStays
<1>3. ASSUME NEW k \in Keys, StartWrite(k)
      PROVE  Shown /\ Grown /\ start' = [start EXCEPT ![k] = Absent]
  <2> DEFINE row == [start[k] EXCEPT !.state = "running"]
  <2>1. /\ start[k] # Absent /\ start' = [start EXCEPT ![k] = Absent]
        /\ (Store(Api, k, row) /\ Wrote(k, row)) \/ (Raises(Api, k, row) /\ written' = written)
    BY <1>3 DEF StartWrite
  <2>2. row \in Table /\ row.spec \in written[k]
    BY <2>1, StartedOK DEF SeenInv
  <2> HIDE DEF row
  <2>3. Writes(Api, k, row)
    BY <2>1 DEF Writes
  <2>4. Grown
    BY <2>1, Wrotes
  <2>5. row.spec \in written'[k]
    BY <2>2, <2>4
  <2>6. QED BY <2>1, <2>2, <2>3, <2>4, <2>5, SeenStays
<1>4. ASSUME NEW s \in Sessions, SendBegin(s) \/ SendEnd(s) \/ Clear(s) \/ ConfirmBegin(s)
      PROVE  UNCHANGED <<db, tx, start, written>>
  BY <1>4 DEF SendBegin, SendEnd, Clear, ConfirmBegin, dbVars, history
<1>5. ASSUME NEW s \in Sessions, FindRow(s) \/ ConfirmEnd(s) \/ DiscardBegin(s) \/ DiscardEnd(s)
      PROVE  UNCHANGED <<db, tx, start, written>>
  BY <1>5 DEF FindRow, ConfirmEnd, DiscardBegin, DiscardEnd, dbVars, history
<1>6. ASSUME NEW k \in Keys, StartFind(k)
      PROVE  SeenInv' /\ Grown
  <2>1. /\ UNCHANGED <<db, tx, written>> /\ start' = [start EXCEPT ![k] = Find(Api, k)]
        /\ Find(Api, k) # Absent
    BY <1>6 DEF StartFind, dbVars, history
  <2>2. \A p \in Procs, j \in Keys : Find(p, j)' = Find(p, j)
    BY <2>1 DEF Find, View
  <2>3. start \in Rows
    BY TypeParts DEF ShapeInv, LocalsOK
  <2>4. QED BY <2>1, <2>2, <2>3 DEF SeenInv, Rows
<1>7. ASSUME UNCHANGED <<db, tx, start, written>>
      PROVE  SeenInv' /\ Grown
  BY <1>7 DEF SeenInv, Find, View
<1>8. ASSUME Shown, Grown, \A k \in Keys : start'[k] \in {start[k], Absent}
      PROVE  SeenInv' /\ Grown
  BY <1>8 DEF SeenInv
<1>9. start \in Rows
  BY TypeParts DEF ShapeInv, LocalsOK
<1> HIDE DEF Shown, Grown
<1>10. ASSUME NEW k \in Keys, StartWrite(k)
       PROVE  \A j \in Keys : start'[j] \in {start[j], Absent}
  BY <1>3, <1>9, <1>10 DEF Rows
<1>11. SeenInv' /\ Grown
  BY <1>1, <1>2, <1>3, <1>4, <1>5, <1>6, <1>7, <1>8, <1>10 DEF Next
<1>12. QED BY <1>11 DEF Grown

LEMMA GoodStays ==
  ASSUME ShapeInv, NEW d \in Drafts, Good(d),
         \A j \in Keys : written[j] \subseteq written'[j]
  PROVE  Good(d)'
BY DEF Good, Drafts

LEMMA StepGood ==
  ASSUME ShapeInv, SeenInv, GoodInv, Next
  PROVE  GoodInv'
<1> DEFINE Fine(s) == /\ \A d \in {session'[s], send'[s].in, confirm'[s].out, discard'[s].out} :
                           Good(d)'
                      /\ send'[s].out.saved = None => send'[s].in.saved = None
<1> SUFFICES ASSUME NEW s \in Sessions
             PROVE  Fine(s)
  BY DEF GoodInv
<1>0. \A j \in Keys : written[j] \subseteq written'[j]
  BY StepSeen
<1>1. /\ \A d \in {session[s], send[s].in, confirm[s].out, discard[s].out} :
           d \in Drafts /\ Good(d) /\ Good(d)'
      /\ send[s].out.saved = None => send[s].in.saved = None
  <2>1. \A d \in {session[s], send[s].in, confirm[s].out, discard[s].out} :
           d \in Drafts /\ Good(d)
    BY HeldOK DEF GoodInv, ShapeInv, Held
  <2>2. QED BY <1>0, <2>1, GoodStays DEF GoodInv
<1>2. \A d : d = Empty => Good(d)'
  BY EmptyOK DEF Good
<1>3. ASSUME NEW r \in Sessions, r # s, Alone(r)
      PROVE  Fine(s)
  BY <1>1, <1>3 DEF Alone
<1>4. ASSUME SendBegin(s)
      PROVE  Fine(s)
  BY <1>1, <1>4, SendBegins, SessionAssumption
<1>5. ASSUME SendEnd(s)
      PROVE  Fine(s)
  <2>1. ASSUME NEW d, d = session'[s]
        PROVE  Good(d)'
    <3>1. PICK in \in Drafts : in = send[s].in /\ Good(in)'
      BY <1>1
    <3>2. d.pending # None /\ ~d.dirty =>
            ~in.dirty /\ d.pending = in.pending /\ d.saved \in {None, in.saved}
      BY <1>5, <2>1, <3>1, SendEnds
    <3>3. d.saved = None => in.saved = None
      BY <1>1, <1>5, <2>1, <3>1, SendEnds
    <3>4. QED BY <3>1, <3>2, <3>3 DEF Good
  <2>2. QED BY <1>1, <1>2, <1>5, <2>1, SendEnds
<1>6. ASSUME Clear(s)
      PROVE  Fine(s)
  BY <1>1, <1>2, <1>6, Clears
<1>7. ASSUME ConfirmBegin(s)
      PROVE  Fine(s)
  BY <1>1, <1>7, ConfirmBegins
<1>8. ASSUME Create(s)
      PROVE  Fine(s)
  <2> DEFINE row == Row(confirm[s].in.pending, "initializing")
  <2>1. PICK k \in Keys :
          \/ SaveRaised(s, k, row)
          \/ Wrote(k, row) /\ confirm'[s].out = Bound(confirm[s].in, k)
    BY <1>8, Creates DEF Unused
  <2>2. row.spec = confirm[s].in.pending /\ UNCHANGED <<session, send, discard>>
    BY <1>8, Creates
  <2> HIDE DEF row
  <2>3. ASSUME SaveRaised(s, k, row)
        PROVE  Fine(s)
    BY <1>1, <2>2, <2>3, SaveRaises
  <2>4. ASSUME ~SaveRaised(s, k, row)
        PROVE  Fine(s)
    <3>1. ASSUME NEW d, d = confirm'[s].out
          PROVE  Good(d)'
      <4>1. confirm[s].in \in Drafts
        BY HeldOK DEF ShapeInv, Held
      <4>2. d.saved = k /\ d.pending = row.spec
        BY <2>1, <2>2, <2>4, <3>1, <4>1, BoundOK
      <4>3. row.spec \in written'[k]
        BY <2>1, <2>4, Wrotes
      <4>4. QED BY <4>2, <4>3, SessionAssumption DEF Good
    <3>2. QED BY <1>1, <2>2, <3>1
  <2>5. QED BY <2>3, <2>4
<1>9. ASSUME FindRow(s)
      PROVE  Fine(s)
  BY <1>1, <1>9, Finds
<1>10. ASSUME UpdateRow(s)
       PROVE  Fine(s)
  <2> DEFINE k == confirm[s].in.saved
  <2>1. /\ \/ SaveRaised(s, k, Edited(s))
           \/ Wrote(k, Edited(s)) /\ confirm'[s].out = Bound(confirm[s].in, k)
        /\ UNCHANGED <<session, send, discard>>
        /\ k \in Keys /\ Edited(s).spec = confirm[s].in.pending
    BY <1>10, Updates, EditedOK
  <2> HIDE DEF k
  <2>2. ASSUME SaveRaised(s, k, Edited(s))
        PROVE  Fine(s)
    BY <1>1, <2>1, <2>2, SaveRaises
  <2>3. ASSUME ~SaveRaised(s, k, Edited(s))
        PROVE  Fine(s)
    <3>1. ASSUME NEW d, d = confirm'[s].out
          PROVE  Good(d)'
      <4>1. confirm[s].in \in Drafts
        BY HeldOK DEF ShapeInv, Held
      <4>2. d.saved = k /\ d.pending = Edited(s).spec
        BY <2>1, <2>3, <3>1, <4>1, BoundOK
      <4>3. Edited(s).spec \in written'[k]
        BY <2>1, <2>3, Wrotes
      <4>4. QED BY <2>1, <4>2, <4>3, SessionAssumption DEF Good
    <3>2. QED BY <1>1, <2>1, <3>1
  <2>4. QED BY <2>2, <2>3
<1>11. ASSUME ConfirmEnd(s)
       PROVE  Fine(s)
  BY <1>1, <1>2, <1>11, ConfirmEnds DEF NoCall
<1>12. ASSUME DiscardBegin(s)
       PROVE  Fine(s)
  <2>1. ASSUME NEW d, d = discard'[s].out
        PROVE  Good(d)'
    <3>1. CASE d = Empty
      BY <1>2, <3>1
    <3>2. CASE d # Empty
      <4>1. PICK k \in Keys : k = session[s].saved /\ d.saved = k /\ d.pending = Find(Web, k).spec
        BY <1>12, <2>1, <3>2, DiscardBegins
      <4>2. Find(Web, k) # Absent
        BY <4>1, SessionAssumption DEF ShapeInv, BoundInv, There, Held
      <4>3. d.pending \in written'[k]
        BY <1>0, <4>1, <4>2, SessionAssumption DEF SeenInv
      <4>4. QED BY <4>1, <4>3, SessionAssumption DEF Good
    <3>3. QED BY <3>1, <3>2
  <2>2. QED BY <1>1, <1>12, <2>1, DiscardBegins
<1>13. ASSUME DiscardEnd(s)
       PROVE  Fine(s)
  BY <1>1, <1>2, <1>13, DiscardEnds DEF NoCall
<1>14. ASSUME NEW r \in Sessions, r # s, Create(r) \/ UpdateRow(r)
       PROVE  Fine(s)
  <2>1. UNCHANGED <<session, send, discard, confirm[s]>>
    BY <1>14, Creates, Updates, SaveRaises
  <2>2. QED BY <1>1, <2>1
<1>15. ASSUME NEW k \in Keys, StartFind(k) \/ StartWrite(k)
       PROVE  Fine(s)
  BY <1>1, <1>15, Starts
<1>16. ASSUME NEW r \in Sessions, r # s,
              \/ SendBegin(r) \/ SendEnd(r) \/ Clear(r) \/ ConfirmBegin(r)
              \/ FindRow(r) \/ ConfirmEnd(r) \/ DiscardBegin(r) \/ DiscardEnd(r)
       PROVE  Alone(r)
  BY <1>16, SendBegins, SendEnds, Clears, ConfirmBegins, Finds, ConfirmEnds, DiscardBegins,
     DiscardEnds
<1> HIDE DEF Fine
<1>17. QED
  BY <1>3, <1>4, <1>5, <1>6, <1>7, <1>8, <1>9, <1>10, <1>11, <1>12, <1>13, <1>14, <1>15,
     <1>16 DEF Next

-----------------------------------------------------------------------------
(* OneDraftOneRow.                                                          *)

\* Inductive: a conversation whose handlers did not overlap has one at most
\* at work, on the session as it is, and is bound to the row it has created
\* as soon as there is one, or will be when its save ends.
OneRow(s) ==
  /\ created[s] = {} \/ \E k \in Keys : created[s] = {k}
  /\ send[s].at # "idle" => confirm[s].at = "idle" /\ discard[s].at = "idle"
  /\ confirm[s].at # "idle" => discard[s].at = "idle"
  /\ send[s].at = "model" => send[s].in = session[s]
  /\ confirm[s].at \in Saving => confirm[s].in = session[s]
  /\ confirm[s].at = "creating" => confirm[s].in.saved = None
  /\ discard[s].at = "end" => discard[s].out = Empty \/ discard[s].out.saved # None
  /\ created[s] # {} =>
       IF confirm[s].at = "end" THEN confirm[s].out.saved # None ELSE session[s].saved # None

OneRowInv == \A s \in Sessions : s \in mixed \/ OneRow(s)

LEMMA Stages ==
  ASSUME ShapeInv, NEW s \in Sessions
  PROVE  /\ send[s].at \in {"idle", "model"} /\ discard[s].at \in {"idle", "end"}
         /\ confirm[s].at \in {"idle", "end"} \cup Saving
         /\ created[s] \subseteq Keys
BY TypeParts DEF ShapeInv, LocalsOK, Calls

LEMMA StepOneRow ==
  ASSUME ShapeInv, GoodInv, OneRowInv, Next
  PROVE  OneRowInv'
<1> DEFINE Fine(s) == s \in mixed' \/ OneRow(s)'
<1> SUFFICES ASSUME NEW s \in Sessions
             PROVE  Fine(s)
  BY DEF OneRowInv
<1>0. s \in mixed \/ OneRow(s)
  BY DEF OneRowInv
<1>a. /\ send[s].at \in {"idle", "model"} /\ discard[s].at \in {"idle", "end"}
      /\ confirm[s].at \in {"idle", "end"} \cup Saving
      /\ created[s] \subseteq Keys
  BY Stages
<1>1. ASSUME UNCHANGED <<session[s], send[s], confirm[s], discard[s], created[s]>>,
             s \in mixed => s \in mixed'
      PROVE  Fine(s)
  BY <1>0, <1>1 DEF OneRow
<1>2. ASSUME SendBegin(s)
      PROVE  Fine(s)
  BY <1>0, <1>a, <1>2, SendBegins DEF OneRow, Quiet, Saving
<1>3. ASSUME SendEnd(s)
      PROVE  Fine(s)
  <2>1. send[s].out.saved = None => send[s].in.saved = None
    BY DEF GoodInv
  <2>2. QED BY <1>0, <1>a, <1>3, <2>1, SendEnds DEF OneRow, Saving
<1>4. ASSUME Clear(s)
      PROVE  Fine(s)
  BY <1>0, <1>a, <1>4, Clears DEF OneRow, Quiet, Saving
<1>5. ASSUME ConfirmBegin(s)
      PROVE  Fine(s)
  BY <1>0, <1>a, <1>5, ConfirmBegins DEF OneRow, Quiet, Saving
<1>6. ASSUME Create(s)
      PROVE  Fine(s)
  <2> DEFINE row == Row(confirm[s].in.pending, "initializing")
             in  == confirm[s].in
  <2>1. PICK k \in Keys :
          \/ SaveRaised(s, k, row)
          \/ /\ created'[s] = created[s] \cup {k}
             /\ mixed' = mixed
             /\ confirm'[s].at = "end" /\ confirm'[s].in = in
             /\ confirm'[s].out = Bound(in, k)
    BY <1>6, Creates DEF Unused
  <2>2. UNCHANGED <<session, send, discard>> /\ confirm[s].at = "creating"
    BY <1>6, Creates
  <2> HIDE DEF row
  <2>3. CASE SaveRaised(s, k, row)
    BY <2>3, SaveRaises
  <2>4. CASE ~SaveRaised(s, k, row)
    <3>1. in \in Drafts
      BY HeldOK DEF ShapeInv, Held
    <3>2. k # None /\ Bound(in, k).saved = k
      BY <3>1, BoundOK, SessionAssumption
    <3> HIDE DEF in
    <3>3. QED BY <1>0, <2>1, <2>2, <2>4, <3>2 DEF OneRow, Saving, in
  <2>5. QED BY <2>3, <2>4
<1>7. ASSUME FindRow(s)
      PROVE  Fine(s)
  BY <1>0, <1>7, Finds DEF OneRow, Saving, history
<1>8. ASSUME UpdateRow(s)
      PROVE  Fine(s)
  <2> DEFINE k == confirm[s].in.saved
  <2>1. /\ \/ SaveRaised(s, k, Edited(s))
           \/ /\ confirm'[s].at = "end" /\ confirm'[s].in = confirm[s].in
              /\ confirm'[s].out = Bound(confirm[s].in, k)
              /\ mixed' = mixed
        /\ UNCHANGED <<session, send, discard, created>>
        /\ k \in Keys /\ confirm[s].at = "updating"
    BY <1>8, Updates
  <2>2. CASE SaveRaised(s, k, Edited(s))
    BY <2>2, SaveRaises
  <2>3. CASE ~SaveRaised(s, k, Edited(s))
    <3>1. k # None /\ Bound(confirm[s].in, k).saved = k
      <4>1. confirm[s].in \in Drafts
        BY HeldOK DEF ShapeInv, Held
      <4>2. QED BY <2>1, <4>1, BoundOK, SessionAssumption
    <3> HIDE DEF k
    <3>2. QED BY <1>0, <2>1, <2>3, <3>1 DEF OneRow, Saving
  <2>4. QED BY <2>2, <2>3
<1>9. ASSUME ConfirmEnd(s)
      PROVE  Fine(s)
  BY <1>0, <1>9, ConfirmEnds DEF OneRow, NoCall, Saving
<1>10. ASSUME DiscardBegin(s)
       PROVE  Fine(s)
  BY <1>0, <1>a, <1>10, DiscardBegins, SessionAssumption DEF OneRow, Quiet, Saving
<1>11. ASSUME DiscardEnd(s)
       PROVE  Fine(s)
  BY <1>0, <1>a, <1>11, DiscardEnds DEF OneRow, NoCall, Saving
<1>12. ASSUME NEW r \in Sessions, r # s, Create(r)
       PROVE  Fine(s)
  <2>1. UNCHANGED <<session, send, discard, confirm[s], created[s]>> /\ mixed \subseteq mixed'
    BY <1>12, Creates, SaveRaises
  <2>2. QED BY <1>1, <2>1
<1>13. ASSUME NEW r \in Sessions, r # s, UpdateRow(r)
       PROVE  Fine(s)
  <2>1. UNCHANGED <<session, send, discard, confirm[s], created>> /\ mixed \subseteq mixed'
    BY <1>13, Updates, SaveRaises
  <2>2. QED BY <1>1, <2>1
<1>14. ASSUME NEW k \in Keys, StartFind(k) \/ StartWrite(k)
       PROVE  Fine(s)
  BY <1>1, <1>14, Starts
<1>15. ASSUME NEW r \in Sessions, r # s,
              \/ SendBegin(r) \/ SendEnd(r) \/ Clear(r) \/ ConfirmBegin(r)
              \/ FindRow(r) \/ ConfirmEnd(r) \/ DiscardBegin(r) \/ DiscardEnd(r)
       PROVE  Fine(s)
  <2>1. Alone(r)
    BY <1>15, SendBegins, SendEnds, Clears, ConfirmBegins, Finds, ConfirmEnds, DiscardBegins,
       DiscardEnds
  <2>2. QED BY <1>1, <1>15, <2>1 DEF Alone
<1> HIDE DEF Fine
<1>16. QED
  BY <1>2, <1>3, <1>4, <1>5, <1>6, <1>7, <1>8, <1>9, <1>10, <1>11, <1>12, <1>13, <1>14,
     <1>15 DEF Next

-----------------------------------------------------------------------------
(* EveryWriteLasts.                                                         *)

\* Inductive: of a row without a clash everybody sees what is committed, and
\* whoever has it in hand has it as it is.
LastInv ==
  /\ \A k \in Keys \ clash :
       /\ Agreed(k) /\ db[k] = wanted[k]
       /\ start[k] # Absent => start[k] = db[k]
       /\ \A s \in Editors(k) : confirm[s].row = db[k]
  /\ \A k \in Keys : start[k] # Absent => Find(Api, k) # Absent

\* A call comes to have a row in hand by finding it only.
LEMMA EditorsFind ==
  ASSUME ShapeInv, Next, NEW s \in Sessions, confirm'[s].at = "updating"
  PROVE  FindRow(s) \/ confirm'[s] = confirm[s]
<1>1. ASSUME NEW r \in Sessions, Create(r) \/ UpdateRow(r)
      PROVE  confirm'[s] = confirm[s]
  BY <1>1, Creates, Updates, SaveRaises
<1>2. ASSUME NEW k \in Keys, StartFind(k) \/ StartWrite(k)
      PROVE  confirm'[s] = confirm[s]
  BY <1>2, Starts
<1>3. ASSUME NEW r \in Sessions,
             SendBegin(r) \/ SendEnd(r) \/ Clear(r) \/ DiscardBegin(r) \/ DiscardEnd(r)
      PROVE  confirm'[s] = confirm[s]
  BY <1>3, SendBegins, SendEnds, Clears, DiscardBegins, DiscardEnds
<1>4. ASSUME NEW r \in Sessions, ConfirmBegin(r) \/ ConfirmEnd(r)
      PROVE  confirm'[s] = confirm[s]
  BY <1>4, ConfirmBegins, ConfirmEnds DEF Alone, NoCall
<1>5. ASSUME NEW r \in Sessions, FindRow(r), r # s
      PROVE  confirm'[s] = confirm[s]
  BY <1>5, Finds DEF Alone
<1>6. QED BY <1>1, <1>2, <1>3, <1>4, <1>5 DEF Next

\* What LastInv says of a row without a clash.
LastOK(k) ==
  /\ Agreed(k) /\ db[k] = wanted[k]
  /\ start[k] # Absent => start[k] = db[k]
  /\ \A s \in Editors(k) : confirm[s].row = db[k]

\* Unless somebody finds the row, those who have it had it before.
LEMMA LastFramed ==
  ASSUME ShapeInv, LastInv, Next,
         NEW k \in Keys \ clash, Agreed(k)', db'[k] = db[k], wanted'[k] = wanted[k],
         start'[k] \in {start[k], Absent, Find(Api, k)}
  PROVE  LastOK(k)'
<1> USE SessionAssumption
<1>1. Agreed(k) /\ db[k] = wanted[k]
  BY DEF LastInv
<1>2. start'[k] # Absent => start'[k] = db'[k]
  BY <1>1 DEF LastInv, Agreed
<1>3. ASSUME NEW s \in Editors(k)'
      PROVE  confirm'[s].row = db'[k]
  <2>1. s \in Sessions /\ confirm'[s].at = "updating" /\ confirm'[s].in.saved = k
    BY DEF Editors
  <2>2. CASE FindRow(s)
    BY <1>1, <2>1, <2>2, Finds DEF Agreed
  <2>3. CASE ~FindRow(s)
    <3>1. confirm'[s] = confirm[s]
      BY <2>1, <2>3, EditorsFind
    <3>2. s \in Editors(k)
      BY <2>1, <3>1 DEF Editors
    <3>3. QED BY <1>1, <3>1, <3>2 DEF LastInv
  <2>4. QED BY <2>2, <2>3
<1>4. QED BY <1>1, <1>2, <1>3 DEF LastOK

\* A write to row w that nobody else has in hand, or else there is a clash.
LEMMA LastStored ==
  ASSUME ShapeInv, LastInv, Next,
         NEW p \in Procs, NEW w \in Keys, NEW row \in Table, Store(p, w, row),
         NEW k \in Keys \ clash, start'[k] \in {start[k], Absent},
         IF k = w THEN wanted'[k] = row /\ start'[k] = Absent /\ Editors(k)' = {}
         ELSE wanted'[k] = wanted[k]
  PROVE  LastOK(k)'
<1>1. Agreed(k) /\ TablesOK
  BY TypeTables DEF LastInv, ShapeInv
<1>2. Agreed(k)' /\ db'[k] = IF k = w THEN row ELSE db[k]
  BY <1>1, WriteAgreed
<1>3. CASE k = w
  BY <1>2, <1>3 DEF LastOK
<1>4. CASE k # w
  BY <1>2, <1>4, LastFramed
<1>5. QED BY <1>3, <1>4

LEMMA LastRaised ==
  ASSUME ShapeInv, LastInv, Next,
         NEW p \in Procs, NEW w \in Keys, NEW row \in Table, Raises(p, w, row),
         NEW k \in Keys \ clash, start'[k] \in {start[k], Absent},
         tx' = tx \/ k # w, wanted'[k] = wanted[k]
  PROVE  LastOK(k)'
<1>1. Agreed(k) /\ TablesOK
  BY TypeTables DEF LastInv, ShapeInv
<1>2. Agreed(k)' /\ db'[k] = db[k]
  BY <1>1, WriteAgreed
<1>3. QED BY <1>2, LastFramed

LEMMA LastSaveRaised ==
  ASSUME ShapeInv, LastInv, Next, NEW s \in Sessions, NEW w \in Keys, NEW row \in Table,
         SaveRaised(s, w, row), start' = start
  PROVE  wanted' = wanted /\ \A k \in Keys \ clash' : LastOK(k)'
<1>1. /\ wanted' = wanted /\ Raises(Web, w, row)
      /\ (tx' = tx /\ clash' = clash) \/ clash' = clash \cup {w}
  BY SaveRaises
<1>2. QED BY <1>1, LastRaised, SessionAssumption

LEMMA CreateLast ==
  ASSUME ShapeInv, LastInv, Next, NEW s \in Sessions, Create(s)
  PROVE  wanted' \in Rows /\ \A k \in Keys \ clash' : LastOK(k)'
<1> USE SessionAssumption
<1> DEFINE row == Row(confirm[s].in.pending, "initializing")
<1>1. PICK w \in Unused :
        \/ SaveRaised(s, w, row)
        \/ /\ Store(Web, w, row) /\ wanted' = [wanted EXCEPT ![w] = row]
           /\ UNCHANGED clash
           /\ confirm'[s].at = "end"
           /\ \A r \in Sessions \ {s} : UNCHANGED <<confirm[r], created[r]>>
  BY Creates
<1>2. row \in Table /\ start' = start
  BY Creates
<1> HIDE DEF row
<1>3. w \in Keys /\ wanted \in Rows /\ Find(Web, w) = Absent /\ Find(Api, w) = Absent
  BY <1>1, TypeParts DEF Unused, Used, ShapeInv
<1>4. start[w] = Absent
  BY <1>3 DEF LastInv
<1>5. CASE SaveRaised(s, w, row)
  BY <1>2, <1>3, <1>5, LastSaveRaised
<1>6. CASE ~SaveRaised(s, w, row)
  <2>1. /\ Store(Web, w, row) /\ wanted' = [wanted EXCEPT ![w] = row] /\ clash' = clash
    BY <1>1, <1>6
  <2>2. ASSUME NEW r \in Sessions \ {s}, confirm[r].in.saved = w
        PROVE  FALSE
    BY <1>3, <2>2 DEF ShapeInv, BoundInv, There, Held
  <2>3. \A r \in Sessions : confirm'[r].at = "updating" => confirm'[r].in.saved # w
    BY <1>1, <1>6, <2>2
  <2>4. Editors(w)' = {}
    BY <2>3 DEF Editors
  <2>5. wanted' \in Rows /\ wanted'[w] = row /\ \A k \in Keys \ {w} : wanted'[k] = wanted[k]
    BY <1>2, <1>3, <2>1 DEF Rows
  <2>6. QED BY <1>2, <1>3, <1>4, <2>1, <2>4, <2>5, LastStored
<1>7. QED BY <1>5, <1>6

\* One field of a row is written over a row as it is wanted.
LEMMA Wanted ==
  ASSUME wanted \in Rows, NEW w \in Keys, wanted[w] \in Table \/ w \in clash,
         NEW field \in {"spec", "state"}, NEW value,
         field = "spec" => value \in Specs, field = "state" => value = "running",
         Wants(w, field, value)
  PROVE  /\ wanted' \in Rows
         /\ \A k \in Keys \ {w} : wanted'[k] = wanted[k]
         /\ w \notin clash => wanted'[w] = [wanted[w] EXCEPT ![field] = value]
<1>1. CASE w \in clash
  BY <1>1 DEF Wants
<1>2. CASE w \notin clash
  <2> DEFINE new == [wanted[w] EXCEPT ![field] = value]
  <2>1. new \in Table
    BY <1>2 DEF Table
  <2>2. wanted' = [wanted EXCEPT ![w] = new]
    BY <1>2 DEF Wants, Rows
  <2> HIDE DEF new
  <2>3. /\ wanted' \in Rows /\ wanted'[w] = new
        /\ \A k \in Keys \ {w} : wanted'[k] = wanted[k]
    BY <2>1, <2>2 DEF Rows
  <2>4. QED BY <2>3 DEF new
<1>3. QED BY <1>1, <1>2

LEMMA UpdateLast ==
  ASSUME ShapeInv, LastInv, Next, NEW s \in Sessions, UpdateRow(s)
  PROVE  wanted' \in Rows /\ \A k \in Keys \ clash' : LastOK(k)'
<1> USE SessionAssumption
<1> DEFINE row == Edited(s)
<1>0. PICK w \in Keys : w = confirm[s].in.saved
  BY Updates
<1>1. /\ \/ SaveRaised(s, w, row)
         \/ /\ Store(Web, w, row) /\ Wants(w, "spec", confirm[s].in.pending)
            /\ clash' = IF start[w] = Absent /\ Editors(w) = {s} THEN clash ELSE clash \cup {w}
            /\ confirm'[s].at = "end"
            /\ \A r \in Sessions \ {s} : confirm'[r] = confirm[r]
      /\ start' = start
      /\ confirm[s].at = "updating" /\ Find(Web, w) # Absent
  BY <1>0, Updates
<1>2. row \in Table /\ wanted \in Rows /\ confirm[s].in.pending \in Specs
  BY <1>1, EditedOK, TypeParts DEF ShapeInv, BoundInv, Ready, Saving
<1>3. w \notin clash => wanted[w] = confirm[s].row /\ wanted[w] \in Table
  <2>1. SUFFICES ASSUME w \notin clash
                 PROVE  wanted[w] = confirm[s].row /\ wanted[w] \in Table
    OBVIOUS
  <2>2. s \in Editors(w)
    BY <1>0, <1>1 DEF Editors
  <2>3. Agreed(w) /\ db[w] = wanted[w] /\ confirm[s].row = db[w]
    BY <2>1, <2>2 DEF LastInv
  <2>4. Find(Web, w) \in Table /\ Find(Web, w) = db[w]
    BY <1>1, <2>3, Found DEF ShapeInv, Agreed
  <2>5. QED BY <2>3, <2>4
<1>4. row = [confirm[s].row EXCEPT !.spec = confirm[s].in.pending]
  BY DEF Edited
<1> HIDE DEF row
<1>5. CASE SaveRaised(s, w, row)
  BY <1>1, <1>2, <1>5, LastSaveRaised
<1>6. CASE ~SaveRaised(s, w, row)
  <2>1. /\ wanted' \in Rows
        /\ \A k \in Keys \ {w} : wanted'[k] = wanted[k]
        /\ w \notin clash => wanted'[w] = row
    <3>1. Wants(w, "spec", confirm[s].in.pending)
      BY <1>1, <1>6
    <3>2. /\ wanted' \in Rows
          /\ \A k \in Keys \ {w} : wanted'[k] = wanted[k]
          /\ w \notin clash => wanted'[w] = [wanted[w] EXCEPT !["spec"] = confirm[s].in.pending]
      BY <1>2, <1>3, <3>1, Wanted
    <3>3. QED BY <1>3, <1>4, <3>2
  <2>2. ASSUME w \notin clash'
        PROVE  start[w] = Absent /\ Editors(w)' = {}
    <3>1. start[w] = Absent /\ Editors(w) = {s}
      BY <1>1, <1>6, <2>2
    <3>2. \A r \in Sessions : ~(confirm'[r].at = "updating" /\ confirm'[r].in.saved = w)
      BY <1>1, <1>6, <3>1 DEF Editors
    <3>3. QED BY <3>1, <3>2 DEF Editors
  <2>3. clash \subseteq clash'
    BY <1>1, <1>6
  <2>4. QED BY <1>1, <1>2, <1>6, <2>1, <2>2, <2>3, LastStored
<1>7. QED BY <1>5, <1>6

LEMMA StartLast ==
  ASSUME ShapeInv, LastInv, Next, NEW w \in Keys, StartWrite(w)
  PROVE  wanted' \in Rows /\ \A k \in Keys \ clash' : LastOK(k)'
<1> USE SessionAssumption
<1> DEFINE row == [start[w] EXCEPT !.state = "running"]
<1>1. /\ \/ /\ Store(Api, w, row) /\ Wants(w, "state", "running")
            /\ clash' = IF Editors(w) = {} THEN clash ELSE clash \cup {w}
         \/ /\ Raises(Api, w, row) /\ wanted' = wanted
            /\ clash' = IF tx' = tx THEN clash ELSE clash \cup {w}
      /\ start[w] # Absent /\ start' = [start EXCEPT ![w] = Absent]
      /\ confirm' = confirm
  BY Starts DEF StartWrite
<1>2. row \in Table /\ wanted \in Rows /\ start \in Rows
  BY <1>1, StartedOK, TypeParts DEF ShapeInv, LocalsOK
<1>3. start'[w] = Absent /\ \A k \in Keys : start'[k] \in {start[k], Absent}
  BY <1>1, <1>2 DEF Rows
<1>4. w \notin clash => wanted[w] = start[w] /\ wanted[w] \in Table
  BY <1>1, <1>2 DEF LastInv, Rows
<1>5. Editors(w)' = Editors(w)
  BY <1>1 DEF Editors
<1>6. CASE Store(Api, w, row) /\ Wants(w, "state", "running")
           /\ clash' = IF Editors(w) = {} THEN clash ELSE clash \cup {w}
  <2>1. /\ wanted' \in Rows
        /\ \A k \in Keys \ {w} : wanted'[k] = wanted[k]
        /\ w \notin clash => wanted'[w] = row
    BY <1>2, <1>4, <1>6, Wanted
  <2> HIDE DEF row
  <2>2. QED BY <1>2, <1>3, <1>5, <1>6, <2>1, LastStored
<1>7. CASE Raises(Api, w, row) /\ wanted' = wanted
           /\ clash' = IF tx' = tx THEN clash ELSE clash \cup {w}
  <2> HIDE DEF row
  <2>1. QED BY <1>2, <1>3, <1>7, LastRaised
<1>8. QED BY <1>1, <1>6, <1>7

LEMMA StepLast ==
  ASSUME ShapeInv, LastInv, Next
  PROVE  wanted' \in Rows /\ LastInv'
<1> USE SessionAssumption
<1>1. ASSUME NEW s \in Sessions, SendBegin(s) \/ SendEnd(s) \/ Clear(s) \/ ConfirmBegin(s)
      PROVE  UNCHANGED <<db, tx, start, clash, wanted>>
  BY <1>1 DEF SendBegin, SendEnd, Clear, ConfirmBegin, dbVars, history
<1>2. ASSUME NEW s \in Sessions, FindRow(s) \/ ConfirmEnd(s) \/ DiscardBegin(s) \/ DiscardEnd(s)
      PROVE  UNCHANGED <<db, tx, start, clash, wanted>>
  BY <1>2 DEF FindRow, ConfirmEnd, DiscardBegin, DiscardEnd, dbVars, history
<1>3. ASSUME NEW w \in Keys, StartFind(w)
      PROVE  /\ UNCHANGED <<db, tx, clash, wanted>>
             /\ start' = [start EXCEPT ![w] = Find(Api, w)] /\ Find(Api, w) # Absent
  BY <1>3 DEF StartFind, dbVars, history
<1>4. wanted \in Rows /\ start \in Rows
  BY TypeParts DEF ShapeInv, LocalsOK
<1>5. \/ wanted' \in Rows /\ \A k \in Keys \ clash' : LastOK(k)'
      \/ /\ UNCHANGED <<db, tx, clash, wanted>>
         /\ \A k \in Keys : start'[k] \in {start[k], Find(Api, k)}
  BY <1>1, <1>2, <1>3, <1>4, CreateLast, UpdateLast, StartLast DEF Next, Rows
<1>6. ASSUME UNCHANGED <<db, tx, clash, wanted>>,
             \A k \in Keys : start'[k] \in {start[k], Find(Api, k)},
             NEW k \in Keys \ clash'
      PROVE  LastOK(k)'
  <2>1. Agreed(k)
    BY <1>6 DEF LastInv
  <2>2. Agreed(k)'
    BY <1>6, <2>1 DEF Agreed, Find, View
  <2>3. QED BY <1>6, <2>2, LastFramed
<1>7. wanted' \in Rows /\ \A k \in Keys \ clash' : LastOK(k)'
  BY <1>4, <1>5, <1>6
<1>8. ASSUME NEW k \in Keys, start'[k] # Absent
      PROVE  Find(Api, k)' # Absent
  <2>1. start'[k] \in {start[k], Absent, Find(Api, k)}
    <3>1. ASSUME NEW s \in Sessions, Create(s) \/ UpdateRow(s)
          PROVE  start' = start
      BY <3>1, Creates, Updates
    <3>2. ASSUME NEW w \in Keys, StartWrite(w)
          PROVE  start' = [start EXCEPT ![w] = Absent]
      BY <3>2 DEF StartWrite
    <3>3. QED BY <1>1, <1>2, <1>3, <1>4, <3>1, <3>2 DEF Next, Rows
  <2>2. Find(Api, k) # Absent
    BY <1>8, <2>1 DEF LastInv
  <2>3. QED BY <2>2, RowsStay
<1>9. QED BY <1>7, <1>8 DEF LastInv, LastOK

-----------------------------------------------------------------------------
(* The theorems.                                                            *)

SessionInv == ShapeInv /\ SeenInv /\ GoodInv /\ OneRowInv /\ LastInv

LEMMA InitInv ==
  ASSUME Init
  PROVE  SessionInv
<1> USE SessionAssumption, DatabaseAssumption, EmptyOK, NoCallOK
<1>1. db = [k \in Keys |-> Absent] /\ db \in Rows /\ \A p \in Procs : tx[p] = Absent
  BY DEF Init, DbInit, Rows
<1>2. TablesOK /\ Covers /\ \A p \in Procs, k \in Keys : Find(p, k) = Absent
  BY <1>1 DEF TablesOK, Covers, Find, View, Init, DbInit
<1>3. LocalsOK /\ wanted \in Rows
  BY DEF LocalsOK, Init, DbInit, Rows
<1>4. TypeOK
  BY <1>2, <1>3, TypeParts
<1>5. \A s \in Sessions : /\ session[s] = Empty /\ send[s] = NoCall /\ confirm[s] = NoCall
                          /\ discard[s] = NoCall /\ created[s] = {}
  BY DEF Init
<1>6. BoundInv
  BY <1>5 DEF BoundInv, Held, There, Ready, Saving
<1>7. SeenInv
  BY <1>2 DEF SeenInv, Init
<1>8. GoodInv
  BY <1>5 DEF GoodInv, Good
<1>9. OneRowInv
  BY <1>5 DEF OneRowInv, OneRow, Saving
<1>10. LastInv
  BY <1>1, <1>2, <1>5 DEF LastInv, Agreed, Editors, Init
<1>11. QED BY <1>2, <1>4, <1>6, <1>7, <1>8, <1>9, <1>10 DEF SessionInv, ShapeInv

LEMMA StepInv ==
  ASSUME SessionInv, Next
  PROVE  SessionInv'
<1> USE DEF SessionInv
<1>1. TablesOK' /\ Covers'
  BY RowsStay
<1>2. TypeOK'
  BY <1>1, StepLocals, StepLast DEF TypeOK, TablesOK, LocalsOK, Saving
<1>3. ShapeInv'
  BY <1>1, <1>2, StepBound DEF ShapeInv
<1>4. QED BY <1>3, StepSeen, StepGood, StepOneRow, StepLast

LEMMA StutterInv ==
  ASSUME SessionInv, UNCHANGED vars
  PROVE  SessionInv'
<1>1. UNCHANGED <<db, tx, dbErrors, session, send, confirm, discard, start, sends,
                  written, created, mixed, clash, wanted>>
  BY DEF vars, dbVars, handlers, history
<1>2. ShapeInv'
  BY <1>1 DEF SessionInv, ShapeInv, TypeOK, Locked, Covers, BoundInv, Held, There, Ready,
     Find, View
<1>3. SeenInv' /\ GoodInv' /\ OneRowInv'
  BY <1>1 DEF SessionInv, SeenInv, GoodInv, Good, OneRowInv, OneRow, Find, View
<1>4. LastInv'
  BY <1>1 DEF SessionInv, LastInv, Agreed, Editors, Find, View
<1>5. QED BY <1>2, <1>3, <1>4 DEF SessionInv

LEMMA Invariant == Spec => []SessionInv
BY InitInv, StepInv, StutterInv, PTL DEF Spec

\* Every variable of the drafts, the handlers and the table stays in its range.
THEOREM Typing == Spec => []TypeOK
<1>1. SessionInv => TypeOK
  BY DEF SessionInv, ShapeInv
<1>2. QED BY <1>1, Invariant, PTL

\* What the assistant page shows as saved was written into the row it is bound
\* to, for any number of handlers that overlap and any writes that raise.
THEOREM CleanDrafts == Spec => []CleanWasSaved
<1>1. SessionInv => CleanWasSaved
  BY DEF SessionInv, GoodInv, Good, CleanWasSaved
<1>2. QED BY <1>1, Invariant, PTL

\* A conversation whose on_send, on_confirm and on_discard did not overlap, and
\* whose saves did not raise, has created one row at most.
THEOREM OneRowEach == Spec => []OneDraftOneRow
<1>1. ASSUME SessionInv
      PROVE  OneDraftOneRow
  <2>1. ASSUME NEW s \in Sessions \ mixed
        PROVE  Cardinality(created[s]) <= 1
    <3>1. created[s] = {} \/ \E k \in Keys : created[s] = {k}
      BY <1>1, <2>1 DEF SessionInv, OneRowInv, OneRow
    <3>2. Cardinality(created[s]) \in {0, 1}
      BY <3>1, FS_EmptySet, FS_Singleton
    <3>3. QED BY <3>2
  <2>2. QED BY <2>1 DEF OneDraftOneRow
<1>2. QED BY <1>1, Invariant, PTL

\* Although update_scenario and update_scenario_state write whole rows, a row
\* holds the text and the state that were set last, unless a writer wrote while
\* another had the row in hand, or a commit raised.
THEOREM NoLostWrite == Spec => []EveryWriteLasts
<1>1. SessionInv => EveryWriteLasts
  BY DEF SessionInv, LastInv, EveryWriteLasts
<1>2. QED BY <1>1, Invariant, PTL

=============================================================================
