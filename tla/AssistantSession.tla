-------------------------- MODULE AssistantSession --------------------------
(***************************************************************************)
(* The assistant of the home page (pages/home): a user talks about a        *)
(* scenario until the draft is right and then saves it, as a new row or     *)
(* over the row it was loaded from, while scenarios are started elsewhere.  *)
(*                                                                          *)
(* Gradio passes the session's state to a handler when it begins and writes *)
(* what it returns when it ends.  Handlers run in threads: one call of each *)
(* at a time, but different ones side by side, and on_send takes as long as *)
(* the language model.  update_scenario and start_scenario both find a row, *)
(* change some fields and write all of it back.                             *)
(***************************************************************************)
EXTENDS Database

CONSTANTS
  Web, Api,    \* the Gradio process, and the one that starts scenarios
  Sessions,
  Specs,       \* what a draft, and a row, may say
  Invalid,     \* those that validate_scene_spec refuses
  None,
  MaxSends     \* bound: messages of all sessions

Table == [spec : Specs, state : {"initializing", "running"}]
Rows  == [Keys -> Table \cup {Absent}]

ASSUME SessionAssumption ==
  /\ Web \in Procs /\ Api \in Procs
  /\ Keys \subseteq Nat
  /\ Invalid \subseteq Specs /\ None \notin Specs \cup Keys
  /\ Absent \notin Table \cup Rows
  /\ MaxSends \in Nat

VARIABLES
  session,   \* pending_state, dirty_state and saved_id_state
  send,      \* a call of on_send: its inputs, what it loaded; at "idle" none
  confirm,   \* a call of on_confirm
  discard,   \* a call of on_discard
  start,     \* a call of start_scenario for each row: what it found
  sends,     \* messages so far
  written,   \* history: what was ever written into each row
  created,   \* history: rows the conversation has created
  mixed,     \* history: handlers of the conversation overlapped, or a save raised
  clash,     \* history: rows written while another writer had them in hand
  wanted     \* history: each row as its writers meant it

handlers == <<send, confirm, discard>>
history  == <<written, created, mixed, clash, wanted>>
vars     == <<dbVars, session, handlers, start, sends, history>>

Empty  == [pending |-> None, dirty |-> FALSE, saved |-> None]
NoCall == [at |-> "idle", in |-> Empty, out |-> Empty, row |-> Absent]

Row(spec, state) == [spec |-> spec, state |-> state]

Used(k) == \E p \in Procs : Find(p, k) # Absent
Unused  == {k \in Keys : ~Used(k)}

Init ==
  /\ DbInit
  /\ session = [s \in Sessions |-> Empty]
  /\ send = [s \in Sessions |-> NoCall]
  /\ confirm = [s \in Sessions |-> NoCall]
  /\ discard = [s \in Sessions |-> NoCall]
  /\ start = [k \in Keys |-> Absent]
  /\ sends = 0
  /\ written = [k \in Keys |-> {}]
  /\ created = [s \in Sessions |-> {}]
  /\ mixed = {}
  /\ clash = {}
  /\ wanted = [k \in Keys |-> Absent]

Quiet(s) == send[s].at = "idle" /\ confirm[s].at = "idle" /\ discard[s].at = "idle"

\* A handler begins: does it run beside another one?
Begin(s) == mixed' = IF Quiet(s) THEN mixed ELSE mixed \cup {s}

-----------------------------------------------------------------------------
(* on_send: assistant.reply.                                                *)

\* _detect_edit finds that the text asks to modify row k, and it is not the
\* one at hand; load_scenario_spec then binds the draft to it.
Loadable(in, k) ==
  /\ Find(Web, k) # Absent /\ Find(Web, k).state = "initializing"
  /\ ~(in.saved = k /\ in.pending # None)

SendBegin(s) ==
  LET in == session[s] IN
  /\ send[s].at = "idle" /\ sends < MaxSends
  /\ sends' = sends + 1
  /\ \E out \in {in} \cup {[in EXCEPT !.pending = Find(Web, k).spec, !.saved = k] :
                             k \in {j \in Keys : Loadable(in, j)}} :
       send' = [send EXCEPT ![s] = [NoCall EXCEPT !.at = "model", !.in = in, !.out = out]]
  /\ Begin(s)
  /\ UNCHANGED <<dbVars, session, confirm, discard, start, written, created, clash, wanted>>

\* Mutant: only this message counts.
OnlyChanged(in, out) == out.pending # None /\ out.pending # in.pending
\* new_dirty: unsaved before, or a new draft, or another row.
Dirty(in, out) ==
  \/ in.dirty
  \/ out.pending # None /\ out.pending # in.pending
  \/ out.saved # None /\ out.saved # in.saved

\* The model answers, with a new scene-spec or without one.
SendEnd(s) ==
  LET in == send[s].in IN
  /\ send[s].at = "model"
  /\ \E spec \in Specs \cup {send[s].out.pending} :
       LET out == [send[s].out EXCEPT !.pending = spec]
       IN session' = [session EXCEPT ![s] = [out EXCEPT !.dirty = Dirty(in, out)]]
  /\ send' = [send EXCEPT ![s] = NoCall]
  /\ UNCHANGED <<dbVars, confirm, discard, start, sends, history>>

\* on_clear begins a conversation.
Clear(s) ==
  /\ session[s] # Empty
  /\ session' = [session EXCEPT ![s] = Empty]
  /\ created' = [created EXCEPT ![s] = {}]
  /\ mixed' = IF Quiet(s) THEN mixed \ {s} ELSE mixed \cup {s}
  /\ UNCHANGED <<dbVars, handlers, start, sends, written, clash, wanted>>

-----------------------------------------------------------------------------
(* on_confirm: assistant.save_scene, create_scenario or update_scenario.    *)

Valid(spec) == spec \notin Invalid

Editable(k) == Find(Web, k) # Absent /\ Find(Web, k).state = "initializing"

\* The next step of a save; one that is refused returns its inputs.
Save(in) ==
  IF ~Valid(in.pending) \/ (in.saved # None /\ ~Editable(in.saved)) THEN "end"
  ELSE IF in.saved = None THEN "creating" ELSE "finding"

\* Without unsaved changes nothing happens.
ConfirmBegin(s) ==
  LET in == session[s] IN
  /\ confirm[s].at = "idle" /\ in.pending # None /\ in.dirty
  /\ confirm' = [confirm EXCEPT ![s] = [NoCall EXCEPT !.at = Save(in), !.in = in, !.out = in]]
  /\ Begin(s)
  /\ UNCHANGED <<dbVars, session, send, discard, start, sends, written, created, clash, wanted>>

\* Mutant: the draft is not bound to the row it was saved as.
Unbound(in, k) == [in EXCEPT !.dirty = FALSE]
Bound(in, k) == [in EXCEPT !.dirty = FALSE, !.saved = k]

Wrote(k, row) == written' = [written EXCEPT ![k] = @ \cup {row.spec}]

\* One field of a row is to change.
Wants(k, field, value) ==
  wanted' = IF k \in clash THEN wanted ELSE [wanted EXCEPT ![k][field] = value]

\* A write that raised: save_scene returns the error.
SaveRaised(s, k, row) ==
  /\ Raises(Web, k, row)
  /\ confirm' = [confirm EXCEPT ![s].at = "end"]
  /\ IF tx' = tx THEN UNCHANGED <<written, clash>>
     ELSE Wrote(k, row) /\ clash' = clash \cup {k}
  /\ mixed' = mixed \cup {s}
  /\ UNCHANGED <<created, wanted>>

Create(s) ==
  LET in == confirm[s].in IN
  /\ confirm[s].at = "creating"
  /\ \E k \in Keys :
     /\ k \in Unused /\ \A j \in Unused : k <= j
     /\ LET row == Row(in.pending, "initializing") IN
       \/ /\ Store(Web, k, row)
          /\ confirm' = [confirm EXCEPT ![s].at = "end", ![s].out = Bound(in, k)]
          /\ Wrote(k, row)
          /\ wanted' = [wanted EXCEPT ![k] = row]
          /\ created' = [created EXCEPT ![s] = @ \cup {k}]
          /\ UNCHANGED <<mixed, clash>>
       \/ SaveRaised(s, k, row)
  /\ UNCHANGED <<session, send, discard, start, sends>>

\* update_scenario finds the row ...
FindRow(s) ==
  /\ confirm[s].at = "finding"
  /\ confirm' = [confirm EXCEPT ![s].at = "updating",
                                ![s].row = Find(Web, confirm[s].in.saved)]
  /\ UNCHANGED <<dbVars, session, send, discard, start, sends, history>>

\* The sessions that have found row k and will write all of it.
Editors(k) == {s \in Sessions : confirm[s].at = "updating" /\ confirm[s].in.saved = k}

\* Mutant: the row is made anew.
Renewed(s) == Row(confirm[s].in.pending, "initializing")
\* ... and writes the fields of the draft over those it found.
Edited(s) == [confirm[s].row EXCEPT !.spec = confirm[s].in.pending]

UpdateRow(s) ==
  LET in == confirm[s].in
      k  == in.saved
  IN
  /\ confirm[s].at = "updating"
  /\ \/ /\ Store(Web, k, Edited(s))
        /\ confirm' = [confirm EXCEPT ![s].at = "end", ![s].out = Bound(in, k)]
        /\ Wrote(k, Edited(s))
        /\ Wants(k, "spec", in.pending)
        /\ clash' = IF start[k] = Absent /\ Editors(k) = {s} THEN clash ELSE clash \cup {k}
        /\ UNCHANGED <<created, mixed>>
     \/ SaveRaised(s, k, Edited(s))
  /\ UNCHANGED <<session, send, discard, start, sends>>

ConfirmEnd(s) ==
  /\ confirm[s].at = "end"
  /\ session' = [session EXCEPT ![s] = confirm[s].out]
  /\ confirm' = [confirm EXCEPT ![s] = NoCall]
  /\ UNCHANGED <<dbVars, send, discard, start, sends, history>>

-----------------------------------------------------------------------------
(* on_discard: back to the saved version, or to nothing.                    *)

DiscardBegin(s) ==
  LET k == session[s].saved IN
  /\ discard[s].at = "idle" /\ session[s].pending # None /\ session[s].dirty
  /\ discard' = [discard EXCEPT ![s] =
       [NoCall EXCEPT !.at = "end", !.out =
          IF k = None THEN Empty
          ELSE [pending |-> Find(Web, k).spec, dirty |-> FALSE, saved |-> k]]]
  /\ Begin(s)
  /\ UNCHANGED <<dbVars, session, send, confirm, start, sends, written, created, clash, wanted>>

DiscardEnd(s) ==
  /\ discard[s].at = "end"
  /\ session' = [session EXCEPT ![s] = discard[s].out]
  /\ discard' = [discard EXCEPT ![s] = NoCall]
  /\ created' = IF discard[s].out = Empty THEN [created EXCEPT ![s] = {}] ELSE created
  /\ UNCHANGED <<dbVars, send, confirm, start, sends, written, mixed, clash, wanted>>

-----------------------------------------------------------------------------
(* start_scenario in the other process, as far as the row goes (the rest is *)
(* in ScenarioLifecycle): update_scenario_state finds it ...                *)
StartFind(k) ==
  /\ start[k] = Absent
  /\ Find(Api, k) # Absent /\ Find(Api, k).state = "initializing"
  /\ start' = [start EXCEPT ![k] = Find(Api, k)]
  /\ UNCHANGED <<dbVars, session, handlers, sends, history>>

\* ... and writes it back as running; if that raises, the call fails.
StartWrite(k) ==
  LET row == [start[k] EXCEPT !.state = "running"] IN
  /\ start[k] # Absent
  /\ \/ /\ Store(Api, k, row)
        /\ Wrote(k, row)
        /\ Wants(k, "state", "running")
        /\ clash' = IF Editors(k) = {} THEN clash ELSE clash \cup {k}
     \/ /\ Raises(Api, k, row)
        /\ clash' = IF tx' = tx THEN clash ELSE clash \cup {k}
        /\ UNCHANGED <<written, wanted>>
  /\ start' = [start EXCEPT ![k] = Absent]
  /\ UNCHANGED <<session, handlers, sends, created, mixed>>

-----------------------------------------------------------------------------
Next ==
  \/ \E s \in Sessions :
       \/ SendBegin(s) \/ SendEnd(s) \/ Clear(s)
       \/ ConfirmBegin(s) \/ Create(s) \/ FindRow(s) \/ UpdateRow(s) \/ ConfirmEnd(s)
       \/ DiscardBegin(s) \/ DiscardEnd(s)
  \/ \E k \in Keys : StartFind(k) \/ StartWrite(k)

Spec == Init /\ [][Next]_vars

-----------------------------------------------------------------------------
(* Properties.                                                              *)

Drafts    == [pending : Specs \cup {None}, dirty : BOOLEAN, saved : Keys \cup {None}]
Calls(at) == [at : at, in : Drafts, out : Drafts, row : Table \cup {Absent}]

\* Every variable stays in its range, and at most one process has an open
\* transaction.
TypeOK ==
  /\ db \in Rows
  /\ tx \in [Procs -> Rows \cup {Absent}]
  /\ \A p \in Procs : tx[p] # Absent => ~Locked(p)
  /\ dbErrors \in 0..MaxDbErrors /\ sends \in 0..MaxSends
  /\ session \in [Sessions -> Drafts]
  /\ send \in [Sessions -> Calls({"idle", "model"})]
  /\ confirm \in [Sessions -> Calls({"idle", "creating", "finding", "updating", "end"})]
  /\ discard \in [Sessions -> Calls({"idle", "end"})]
  /\ start \in Rows /\ wanted \in Rows
  /\ written \in [Keys -> SUBSET Specs]
  /\ created \in [Sessions -> SUBSET Keys]
  /\ mixed \subseteq Sessions /\ clash \subseteq Keys

\* A draft that is shown as saved, so that the buttons to save or discard it
\* are hidden, was written into the row it is bound to at some time, however
\* the handlers of the session overlapped.
CleanWasSaved ==
  \A s \in Sessions : session[s].pending # None /\ ~session[s].dirty =>
    session[s].saved # None /\ session[s].pending \in written[session[s].saved]

\* A conversation, until it is cleared, creates one row at most, and edits it
\* from then on; it takes overlapping handlers or a failed save to make two.
OneDraftOneRow ==
  \A s \in Sessions \ mixed : Cardinality(created[s]) <= 1

\* Each row holds the text that was saved last and the state that was set
\* last, though every writer writes all fields: nothing is lost unless one
\* wrote while another had the row in hand, or a commit raised.
EveryWriteLasts ==
  \A k \in Keys \ clash : db[k] = wanted[k]

\* update_scenario does not change the state.
EditKeepsState ==
  [][\A s \in Sessions : confirm[s].at = "updating" /\ confirm'[s].at = "end" =>
       \A k \in Keys : db[k] # Absent => db'[k].state = db[k].state]_vars
=============================================================================
