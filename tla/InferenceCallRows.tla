------------------------- MODULE InferenceCallRows -------------------------
(***************************************************************************)
(* The durable InferenceCall row of every call BackendAdmission admits or  *)
(* turns away, what becomes of it when writes fail, when a call's future   *)
(* is dropped or when the process dies, and its recovery by                *)
(* InferenceCall::recover_all.  Every step of BackendAdmission is taken    *)
(* here together with the row it writes.  The rows of two calls have       *)
(* nothing in common but the controller, so only those of the Traced calls *)
(* are followed; the others compete for slots and write what they will.    *)
(***************************************************************************)
EXTENDS BackendAdmission

CONSTANT Traced  \* the calls whose rows are followed

ASSUME TracedAssumption == Traced \subseteq Calls

VARIABLES
    late,      \* per call: the outcome its drop leaves to a spawned write
    row,       \* per call: its InferenceCall row
    told,      \* calls whose completion was handed over with its usage
    parent,    \* per call: what became of its request
    seen       \* per call: the row state the recovery sweep read

rowVars == <<late, row, told, parent, seen>>
allVars == <<vars, rowVars>>

Live == {"queued", "running"}
Ended == {"completed", "failed", "cancelled"}

Row(state) == [state |-> state, usage |-> FALSE]
NoOutcome == Row("none")
Cancelled == Row("cancelled")

(* What a call ends with: a provider may report no usage. *)
Outcomes == {[state |-> "completed", usage |-> TRUE], Row("completed"),
             Row("failed")}

(* A database write: acknowledged means applied, an error or a dropped     *)
(* await leaves it open whether it was.                                    *)
Write(c, new, acked) ==
    \/ row' = [row EXCEPT ![c] = new]
    \/ ~acked /\ UNCHANGED row

Others == <<told, parent, seen>>

(* persist_terminal_call: a new row, already terminal. *)
RecordTurnAway(c) ==
    /\ TurnAway(c)
    /\ Write(c, Row(IF phase[c] = "gone" THEN "cancelled" ELSE "failed"), FALSE)
    /\ UNCHANGED <<late, Others>>

(* persist_call_started *)
RecordStart(c) ==
    /\ \/ \E acked \in BOOLEAN : /\ Start(c, acked)
                                 /\ Write(c, Row("running"), acked)
       \/ DropStart(c) /\ Write(c, Row("running"), FALSE)
    /\ UNCHANGED <<late, Others>>

(* persist_call_queued *)
RecordQueued(c) ==
    /\ \E acked \in BOOLEAN : /\ PersistQueued(c, acked)
                              /\ Write(c, Row("queued"), acked)
    /\ UNCHANGED <<late, Others>>

(* Mutant: an update that found no queued row passes for a success. *)
RecordUpgradeUnconfirmed(c) ==
    /\ \E acked \in BOOLEAN :
          /\ Upgrade(c, acked)
          /\ IF row[c].state = "queued" THEN Write(c, Row("running"), acked)
                                        ELSE UNCHANGED row
    /\ UNCHANGED <<late, Others>>

(* persist_existing_call_running: only a queued row becomes running. *)
RecordUpgrade(c) ==
    /\ \E acked \in BOOLEAN :
          /\ acked => row[c].state = "queued"
          /\ Upgrade(c, acked)
          /\ IF row[c].state = "queued" THEN Write(c, Row("running"), acked)
                                        ELSE UNCHANGED row
    /\ UNCHANGED <<late, Others>>

(* Mutant: a later outcome replaces the one already recorded. *)
TerminalRowOverwrites(r, t) ==
    IF r.state \in Live \cup Ended
    THEN [state |-> t.state, usage |-> r.usage \/ t.usage]
    ELSE r

(* persist_existing_call_terminal: the first outcome, from a legal source; *)
(* on an ended row only the usage.                                         *)
TerminalRow(r, t) ==
    CASE r.state = "running" \/ (r.state = "queued" /\ t.state = "cancelled")
            -> [state |-> t.state, usage |-> r.usage \/ t.usage]
      [] r.state \in Ended -> [r EXCEPT !.usage = @ \/ t.usage]
      [] OTHER -> r

(* The row of a waiter that the closed semaphore turned out. *)
RecordEviction(c) ==
    /\ Settle(c)
    /\ Write(c, TerminalRow(row[c], Cancelled), FALSE)
    /\ UNCHANGED <<late, Others>>

(* QueuedCallGuard dropped armed: a spawned write cancels the row. *)
DropWait(c) ==
    /\ AbandonWait(c)
    /\ late' = [late EXCEPT ![c] = Cancelled]
    /\ UNCHANGED <<row, Others>>

(* Mutant: charged usage is handed over although its write failed. *)
FinishUnchecked(c, t) ==
    /\ EndCall(c)
    /\ Write(c, TerminalRow(row[c], t), FALSE)
    /\ told' = IF t.usage THEN told \cup {c} ELSE told
    /\ UNCHANGED <<late, parent, seen>>

(* finish: the outcome is durable before the result is handed over; a      *)
(* failed write is an error only when there is usage to record, and then   *)
(* the drop of the unfinished permit tries again.                          *)
Finish(c, t) ==
    /\ EndCall(c)
    /\ \E acked \in BOOLEAN :
          /\ Write(c, TerminalRow(row[c], t), acked)
          /\ late' = IF ~acked /\ t.usage THEN [late EXCEPT ![c] = t]
                                          ELSE late
          /\ told' = IF acked /\ t.usage THEN told \cup {c} ELSE told
    /\ UNCHANGED <<parent, seen>>

(* The permit is dropped unfinished, while finish writes an outcome or     *)
(* before there is one: a spawned write is left behind.                    *)
DropCall(c) ==
    /\ EndCall(c)
    /\ \/ \E t \in Outcomes : /\ Write(c, TerminalRow(row[c], t), FALSE)
                              /\ late' = [late EXCEPT ![c] = t]
       \/ late' = [late EXCEPT ![c] = Cancelled] /\ UNCHANGED row
    /\ UNCHANGED Others

(* The write a drop spawned; its failure is only logged. *)
LateWrite(c) ==
    /\ late[c] # NoOutcome /\ phase[c] \notin {"unqueue", "releasing"}
    /\ Write(c, TerminalRow(row[c], late[c]), FALSE)
    /\ late' = [late EXCEPT ![c] = NoOutcome]
    /\ UNCHANGED <<vars, Others>>

-----------------------------------------------------------------------------
(* Recovery, the requests, and crashes.                                    *)

(* load_stale_inference_calls: one query for all live rows, which the      *)
(* sweep then goes through before it reads again.                          *)
SweepRead ==
    /\ \A c \in Traced : seen[c] = "none"
    /\ \E c \in Traced : row[c].state \in Live
    /\ seen' = [c \in Traced |->
                  IF row[c].state \in Live THEN row[c].state ELSE "none"]
    /\ UNCHANGED <<vars, late, row, told, parent>>

(* recovery_outcome *)
RecoveryOutcome(c) ==
    IF parent[c] = "interrupted" \/ seen[c] = "queued" THEN "cancelled"
                                                       ELSE "failed"

(* Mutant: only the calls of interrupted requests are ended. *)
SweepSpares(c) ==
    /\ seen[c] # "none" /\ parent[c] = "interrupted"
    /\ row' = IF row[c].state = seen[c]
              THEN [row EXCEPT ![c].state = RecoveryOutcome(c)] ELSE row
    /\ seen' = [seen EXCEPT ![c] = "none"]
    /\ UNCHANGED <<vars, late, told, parent>>

(* recover_inference_call_row of an ended request's call, if it is still   *)
(* in the state that was read.                                             *)
SweepEnds(c) ==
    /\ seen[c] # "none" /\ parent[c] # "open"
    /\ row' = IF row[c].state = seen[c]
              THEN [row EXCEPT ![c].state = RecoveryOutcome(c)] ELSE row
    /\ seen' = [seen EXCEPT ![c] = "none"]
    /\ UNCHANGED <<vars, late, told, parent>>

(* The request is still open, or the write failed. *)
SweepSkips(c) ==
    /\ seen[c] # "none"
    /\ seen' = [seen EXCEPT ![c] = "none"]
    /\ UNCHANGED <<vars, late, row, told, parent>>

(* The request reaches a terminal state, whatever its call is doing: its   *)
(* generation may have been recovered or revoked.                          *)
ParentEnds(c) ==
    /\ parent[c] = "open"
    /\ \E how \in {"ended", "interrupted"} :
          parent' = [parent EXCEPT ![c] = how]
    /\ UNCHANGED <<vars, late, row, told, seen>>

(* Only the rows and the requests outlive the process. *)
CrashRows ==
    /\ Crash
    /\ late' = [c \in Traced |-> NoOutcome]
    /\ seen' = [c \in Traced |-> "none"]
    /\ UNCHANGED <<row, told, parent>>

RowsInit ==
    /\ Init
    /\ late = [c \in Traced |-> NoOutcome]
    /\ row = [c \in Traced |-> Row("none")]
    /\ told = {}
    /\ parent = [c \in Traced |-> "open"]
    /\ seen = [c \in Traced |-> "none"]

(* A step of admission that writes no row, or the row of another call. *)
Admission ==
    /\ \/ \E k \in Configs \cup {Removed} : Reconcile(k)
       \/ ReconcileStep
       \/ \E c \in Calls : Silent(c)
       \/ \E c \in Calls \ Traced :
             Recording(c) \/ DropStart(c) \/ AbandonWait(c)
    /\ UNCHANGED rowVars

RowsNext ==
    \/ Admission
    \/ \E c \in Traced :
          \/ RecordTurnAway(c) \/ RecordStart(c) \/ RecordQueued(c)
          \/ RecordUpgrade(c) \/ RecordEviction(c) \/ DropWait(c)
          \/ \E t \in Outcomes : Finish(c, t)
          \/ DropCall(c) \/ LateWrite(c)
          \/ SweepEnds(c) \/ SweepSkips(c) \/ ParentEnds(c)
    \/ SweepRead
    \/ CrashRows

RowsSpec == RowsInit /\ [][RowsNext]_allVars

(* The recovery sweep is periodic, comes to the end of the rows it read,   *)
(* and its writes do not fail for ever.                                    *)
FairRowsSpec ==
    /\ RowsSpec
    /\ WF_allVars(SweepRead)
    /\ \A c \in Traced : WF_allVars(SweepSkips(c)) /\ SF_allVars(SweepEnds(c))

-----------------------------------------------------------------------------
(* The type invariant of the rows and of what is left to be written. *)
RowsTypeOK ==
    /\ late \in [Traced -> {NoOutcome, Cancelled} \cup Outcomes]
    /\ row \in [Traced -> [state : Live \cup Ended \cup {"none"},
                          usage : BOOLEAN]]
    /\ told \subseteq Traced
    /\ parent \in [Traced -> {"open", "ended", "interrupted"}]
    /\ seen \in [Traced -> Live \cup {"none"}]

(* A completion handed to the caller has its usage in the InferenceCall    *)
(* row ("Charged usage must land durably before the request continues",    *)
(* permit.rs), even when recovery ended the row before.                    *)
PublishedUsageIsDurable ==
    \A c \in told : row[c].usage

(* The first terminal outcome of a row is its last, whoever else still     *)
(* writes: the owner, a spawned write, or a delayed recovery sweep.        *)
TerminalRowIsFinal ==
    [][\A c \in Traced : row[c].state \in Ended =>
          /\ row'[c].state = row[c].state
          /\ row[c].usage => row'[c].usage]_allVars

(* A provider call is only dispatched on a row that is running: one that   *)
(* recovery ended while the call was queued is not.                        *)
DispatchIsRecorded ==
    [][\A c \in Traced : phase[c] # "running" /\ phase'[c] = "running"
          => row'[c].state = "running"]_allVars

(* No row stays live after its request has ended, whatever write was lost, *)
(* dropped or overtaken by a crash.                                        *)
RowsSettle ==
    \A c \in Traced : (parent[c] # "open" /\ row[c].state \in Live)
                     ~> row[c].state \in Ended

=============================================================================
