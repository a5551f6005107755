--------------------------- MODULE WatchdogProofs ---------------------------
(***************************************************************************)
(* Proofs about Watchdog: it writes only tasks.state, so the in-flight     *)
(* guard, which does not look at it, holds in spite of the watchdog.       *)
(***************************************************************************)
EXTENDS Watchdog, CentralDispatcherProofs

\* A step of the watchdog leaves the rows and the process alone.
LEMMA WatchdogKeepsOut ==
  ASSUME WatchdogStep
  PROVE  UNCHANGED <<written, acked, replies, up, batch, inFlight, stage>>
  BY DEF WatchdogStep, Scan, Retry, ReadRetryCount, WriteRetryCount, GiveUp, OnlyState,
         procVars

LEMMA WDInitTypeOK == WDInit => WDTypeOK
  BY CDInitTypeOK, WatchdogAssumption DEF WDInit, WDTypeOK

LEMMA WDStepTypeOK ==
  ASSUME WDTypeOK, WDNext
  PROVE  WDTypeOK'
<1> USE WatchdogAssumption DEF WDTypeOK
<1>1. CASE LocalNext /\ Alongside
  BY <1>1, CDStepTypeOK DEF Alongside, wdVars
<1>2. CASE WatchdogStep
  <2>1. taskState' \in [Tasks -> TaskStates]
    BY <1>2 DEF WatchdogStep, Scan, Retry, ReadRetryCount, WriteRetryCount, GiveUp,
                GivesUpScan, SetState, CDTypeOK, TaskStates
  <2>2. faults' \in [crashes : Nat, cancels : Nat, dbErrors : Nat]
    <3>1. UNCHANGED faults \/ faults' = [faults EXCEPT !.dbErrors = @ + 1]
      BY <1>2 DEF WatchdogStep, Scan, Retry, ReadRetryCount, WriteRetryCount, GiveUp,
                  GivesUpScan, DbOk, DbRaise
    <3>2. QED BY <3>1 DEF CDTypeOK
  <2>3. CDTypeOK'
    BY <1>2, <2>1, <2>2, WatchdogKeepsOut DEF CDTypeOK
  <2>4. /\ overdue' \subseteq Tasks /\ counting' \in Tasks \cup {None}
        /\ seen' \in TaskStates \cup {None} /\ scans' \in 0..MaxScans
    BY <1>2 DEF WatchdogStep, Scan, Retry, ReadRetryCount, WriteRetryCount, GiveUp,
                GivesUpScan, CDTypeOK
  <2>5. QED BY <2>3, <2>4
<1>3. QED BY <1>1, <1>2 DEF WDNext

\* Every reachable state of the dispatcher with the watchdog is well typed.
THEOREM WDTyping == WDSpec => []WDTypeOK
<1>1. WDTypeOK /\ UNCHANGED vars => WDTypeOK'
  BY DEF WDTypeOK, CDTypeOK, vars, cdVars, dbVars, procVars, wdVars
<1>2. QED BY <1>1, WDInitTypeOK, WDStepTypeOK, PTL DEF WDSpec

\* The watchdog may set a task back to pending while its job executes it, but
\* it never makes the dispatcher execute the task twice at a time.
THEOREM WDGuard == WDSpec => [](InFlightExclusive /\ NoInFlightLeak)
<1> DEFINE Inv == InFlightExclusive /\ Claimed /\ DeadByError
<1>1. WDInit => Inv
  BY CDInitGuard DEF WDInit
<1>2. WDTypeOK /\ Inv /\ [WDNext]_vars => Inv'
  <2> SUFFICES ASSUME WDTypeOK, Inv, [WDNext]_vars
               PROVE  Inv'
    OBVIOUS
  <2>1. CASE LocalNext
    BY <2>1, CDStepGuard, CDStepDead DEF WDTypeOK
  <2>2. CASE WatchdogStep
    <3>1. InFlightExclusive' /\ Claimed'
      BY <2>2, WatchdogKeepsOut DEF InFlightExclusive, Claimed, Claims
    <3>2. DbOk \/ DbRaise
      BY <2>2 DEF WatchdogStep, Scan, Retry, ReadRetryCount, WriteRetryCount, GiveUp,
                  GivesUpScan, DbOk
    <3>3. faults.dbErrors \in Nat /\ faults'.dbErrors \in Nat
      BY <3>2 DEF WDTypeOK, CDTypeOK, DbOk, DbRaise
    <3>4. DeadByError'
      BY <2>2, <3>2, <3>3, WatchdogKeepsOut, ErrorsCount DEF DeadByError, WDTypeOK
    <3>5. QED BY <3>1, <3>4
  <2>3. CASE UNCHANGED vars
    BY <2>3 DEF InFlightExclusive, Claimed, DeadByError, Claims, vars, cdVars, procVars
  <2>4. QED BY <2>1, <2>2, <2>3 DEF WDNext
<1>3. Inv => InFlightExclusive /\ NoInFlightLeak
  BY LeaksByError
<1> HIDE DEF Inv
<1>4. QED BY <1>1, <1>2, <1>3, WDTyping, PTL DEF WDSpec
=============================================================================
