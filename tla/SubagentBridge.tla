--------------------------- MODULE SubagentBridge ---------------------------
(***************************************************************************)
(* Delegation to a subagent: one parent request, the AgentToolCall row that *)
(* bridges it to its child (the "bridge"), and the child request.           *)
(*                                                                         *)
(* The parent's hook writes the bridge, the SubagentSource of the child's    *)
(* deployment creates the child from it, and from then on the three          *)
(* documents are driven by processes that only share the database: the       *)
(* hook's await and cancel paths, the source, the periodic sweeps, the       *)
(* completion observer, the cancel mirror and startup recovery.  A read of   *)
(* one document and the write that depends on it are separate steps          *)
(* wherever the code awaits between them.                                    *)
(*                                                                         *)
(* remote says whether the child's deployment is another node.  Then the     *)
(* bridge is authored at home and replicated to it, the child is authored    *)
(* there and replicated home, and the parent row is not replicated at all.   *)
(***************************************************************************)
EXTENDS Naturals

CONSTANT
    MaxCrashes    \* bound, per value of remote: restarts of the parent's process

ASSUME CrashesAssumption == MaxCrashes \in [BOOLEAN -> Nat]

VARIABLES
    remote,       \* the child's deployment is not the parent's; never changes
    parent,       \* parent AgentRequest: lifecycle state and interrupt latch
    bridge,       \* AgentToolCall row
    child,        \* child AgentRequest: lifecycle state and interrupt latch
    seenBridge,   \* the bridge as the child's deployment last received it
    seenChild,    \* the child as the parent's deployment last received it
    held,         \* the bridge is in the hook's in_flight_lifecycles map
    cancel,       \* progress of a cancel with cascade dispatch
    source,       \* progress of SubagentSource on this bridge
    processed,    \* SubagentSource's processed_tool_calls holds this bridge
    sweep,        \* terminal-parent sweep: the outcome it is about to write
    reap,         \* unclaimed-spawn reconciler: about to fail the bridge
    running,      \* an executor is running the child
    due,          \* which deadlines have passed
    phase,        \* startup recovery, or "up"
    crashes

docs     == <<parent, bridge, child>>
seen     == <<seenBridge, seenChild>>
hook     == <<held, cancel>>
src      == <<source, processed>>
sweepers == <<sweep, reap>>
env      == <<remote, due, phase, crashes>>
vars     == <<docs, seen, hook, src, sweepers, running, env>>

RequestTerminal == {"completed", "failed", "dead", "interrupted"}
BridgeTerminal  == {"completed", "failed", "timedOut", "cancelled"}
Requests == [st : {"absent", "pending", "processing"} \cup RequestTerminal, latch : BOOLEAN]
Bridges  == [st : {"absent", "running"} \cup BridgeTerminal, mode : {"foreground", "background"},
             unclaimed : BOOLEAN, intent : BOOLEAN, ack : BOOLEAN, reason : {"none", "unclaimed"}]

TypeOK ==
    /\ remote \in BOOLEAN
    /\ parent \in Requests /\ child \in Requests /\ seenChild \in Requests
    /\ bridge \in Bridges /\ seenBridge \in Bridges
    /\ held \in BOOLEAN /\ processed \in BOOLEAN /\ reap \in BOOLEAN /\ running \in BOOLEAN
    /\ cancel \in {"idle", "local", "remote", "interrupt"}
    /\ source \in {"idle", "create", "recheck", "parent", "interrupt"}
    /\ sweep \in [st : {"idle", "cancelled", "failed"}, remote : BOOLEAN]
    /\ due \in [unclaimed : BOOLEAN, child : BOOLEAN, parent : BOOLEAN]
    /\ phase \in {"up", "orphans", "stuck"} /\ crashes \in 0..MaxCrashes[remote]

NoRequest == [st |-> "absent", latch |-> FALSE]
NoBridge  == [st |-> "absent", mode |-> "foreground", unclaimed |-> FALSE,
              intent |-> FALSE, ack |-> FALSE, reason |-> "none"]

NoSweep   == [st |-> "idle", remote |-> FALSE]

Init ==
    /\ remote \in BOOLEAN
    /\ parent = [st |-> "processing", latch |-> FALSE]
    /\ bridge = NoBridge /\ seenBridge = NoBridge
    /\ child = NoRequest /\ seenChild = NoRequest
    /\ held = FALSE /\ cancel = "idle" /\ source = "idle" /\ processed = FALSE
    /\ sweep = NoSweep /\ reap = FALSE /\ running = FALSE
    /\ due = [unclaimed |-> FALSE, child |-> FALSE, parent |-> FALSE]
    /\ phase = "up" /\ crashes = 0

-----------------------------------------------------------------------------
(* What each deployment reads.                                              *)
BridgeView == IF remote THEN seenBridge ELSE bridge
ChildView  == IF remote THEN seenChild ELSE child

Live(r)         == r.st \in {"pending", "processing"}
CancelWorthy(r) == r.st \in RequestTerminal \ {"completed"}

(* child_request_is_locally_owned: the row must exist here and be ours.      *)
ChildIsLocal == ~remote /\ child.st # "absent"

(* Every terminal write to a bridge compares lifecycle_state = "running" in  *)
(* the same mutation and clears the unclaimed deadline.                      *)
Closed(st) == [bridge EXCEPT !.st = st, !.unclaimed = FALSE]
ClosedWithIntent(st) == [Closed(st) EXCEPT !.intent = TRUE, !.ack = TRUE]

CompareAndClose(next) == bridge' = IF bridge.st = "running" THEN next ELSE bridge

(* A completed child completes the bridge, an interrupted child cancels it,  *)
(* any other terminal fails it (ChildTerminal::projected_state).             *)
Projected(r) == CASE r.st = "completed"   -> "completed"
                  [] r.st = "interrupted" -> "cancelled"
                  [] OTHER                -> "failed"

HomeUp  == phase = "up"
ChildUp == remote \/ phase = "up"

-----------------------------------------------------------------------------
(* Parent's hook.                                                           *)

(* persist_spawn_subagent: a background spawn carries the unclaimed          *)
(* deadline; a foreground one is refused for a remote target.                *)
Spawn(mode) ==
    /\ HomeUp /\ parent.st = "processing" /\ bridge.st = "absent"
    /\ remote => mode = "background"
    /\ bridge' = [NoBridge EXCEPT !.st = "running", !.mode = mode,
                                  !.unclaimed = (mode = "background")]
    /\ held' = TRUE
    /\ UNCHANGED <<parent, child, seen, cancel, src, sweepers, running, env>>

(* foreground_subagent on a background bridge: the flip compares the state   *)
(* and the mode; the in-memory row writes its own unclaimed deadline back.   *)
Foreground ==
    /\ HomeUp /\ parent.st = "processing" /\ cancel = "idle"
    /\ bridge.st = "running" /\ bridge.mode = "background" /\ ChildView.st # "absent"
    /\ bridge' = [bridge EXCEPT !.mode = "foreground", !.unclaimed = held \/ bridge.unclaimed]
    /\ held' = TRUE
    /\ UNCHANGED <<parent, child, seen, cancel, src, sweepers, running, env>>

(* await_foreground_subagent: the child's terminal row ends the wait.        *)
AwaitEnds ==
    /\ HomeUp /\ held /\ bridge.mode = "foreground" /\ bridge.st # "absent"
    /\ \/ bridge.st \in BridgeTerminal /\ UNCHANGED bridge
       \/ bridge.st = "running" /\ ChildView.st \in RequestTerminal
          /\ CompareAndClose(Closed(Projected(ChildView)))
    /\ held' = FALSE
    /\ UNCHANGED <<parent, child, seen, cancel, src, sweepers, running, env>>

(* The hook is blocked in the tool call while a foreground bridge is awaited. *)
Awaiting == held /\ bridge.mode = "foreground"

ParentEnds(st) ==
    /\ HomeUp /\ parent.st = "processing" /\ ~Awaiting /\ cancel = "idle"
    /\ st \in {"completed", "failed"}
    /\ parent' = [parent EXCEPT !.st = st]
    /\ held' = FALSE
    /\ UNCHANGED <<bridge, child, seen, cancel, src, sweepers, running, env>>

(* timeout_expired_tool_calls at the request deadline: a foreground bridge   *)
(* times out, a background one is left running.                              *)
ParentDeadline ==
    /\ HomeUp /\ parent.st = "processing" /\ due.parent /\ cancel = "idle"
    /\ IF Awaiting THEN CompareAndClose(Closed("timedOut")) ELSE UNCHANGED bridge
    /\ held' = FALSE
    /\ parent' = [parent EXCEPT !.st = "failed"]
    /\ UNCHANGED <<child, seen, cancel, src, sweepers, running, env>>

(* fail_in_flight_tool_calls after the execution lease was lost.             *)
ParentLeaseLost ==
    /\ HomeUp /\ parent.st = "processing" /\ held /\ cancel = "idle"
    /\ CompareAndClose(Closed("failed"))
    /\ held' = FALSE
    /\ parent' = [parent EXCEPT !.st = "dead"]
    /\ UNCHANGED <<child, seen, cancel, src, sweepers, running, env>>

(* interrupt_request on the parent.                                          *)
InterruptParent ==
    /\ parent.st = "processing" /\ ~parent.latch
    /\ parent' = [parent EXCEPT !.latch = TRUE]
    /\ UNCHANGED <<bridge, child, seen, hook, src, sweepers, running, env>>

(* cancel_during_run_with_cascade_dispatch reads who owns the child before   *)
(* it writes the bridge.                                                     *)
CancelReadsOwner ==
    /\ HomeUp /\ cancel = "idle" /\ bridge.st = "running" /\ parent.st = "processing"
    /\ \/ parent.latch /\ held              \* cancel_in_flight_tool_calls
       \/ ~Awaiting /\ ChildView.st # "absent"   \* cancel_subagent
    /\ cancel' = IF ChildIsLocal THEN "local" ELSE "remote"
    /\ held' = FALSE
    /\ UNCHANGED <<docs, seen, src, sweepers, running, env>>

(* The compare and write: a remote child's intent is part of it, a local     *)
(* child is interrupted afterwards by the caller that won.                   *)
CancelWrites ==
    /\ HomeUp /\ cancel \in {"local", "remote"}
    /\ CompareAndClose(IF cancel = "remote" THEN ClosedWithIntent("cancelled")
                                            ELSE Closed("cancelled"))
    /\ cancel' = IF bridge.st = "running" /\ cancel = "local" THEN "interrupt" ELSE "idle"
    /\ UNCHANGED <<parent, child, seen, held, src, sweepers, running, env>>

CancelInterruptsChild ==
    /\ HomeUp /\ cancel = "interrupt"
    /\ child' = [child EXCEPT !.latch = TRUE]
    /\ cancel' = "idle"
    /\ UNCHANGED <<parent, bridge, seen, held, src, sweepers, running, env>>

(* The daemon ends the interrupted request once its tool calls are cancelled. *)
ParentInterrupted ==
    /\ HomeUp /\ parent.st = "processing" /\ parent.latch /\ ~held /\ cancel = "idle"
    /\ parent' = [parent EXCEPT !.st = "interrupted"]
    /\ UNCHANGED <<bridge, child, seen, hook, src, sweepers, running, env>>

-----------------------------------------------------------------------------
(* SubagentSource on the child's deployment.                                *)

SourceReadsBridge ==
    /\ ChildUp /\ source = "idle" /\ ~processed /\ BridgeView.st = "running"
    /\ IF child.st = "absent" THEN source' = "create" /\ UNCHANGED processed
                              ELSE processed' = TRUE /\ UNCHANGED source
    /\ UNCHANGED <<docs, seen, hook, sweepers, running, env>>

(* A local spawn the authorization denies, or whose workspace does not       *)
(* resolve, fails the bridge instead.                                        *)
SourceRejects ==
    /\ ChildUp /\ ~remote /\ source = "create"
    /\ CompareAndClose(Closed("failed"))
    /\ source' = "idle" /\ processed' = TRUE
    /\ UNCHANGED <<parent, child, seen, hook, sweepers, running, env>>

(* Mutant: the child is created and nothing is looked at again.              *)
SourceCreatesBlindly ==
    /\ ChildUp /\ source = "create"
    /\ child' = [st |-> "pending", latch |-> FALSE]
    /\ source' = "idle" /\ processed' = TRUE
    /\ UNCHANGED <<parent, bridge, seen, hook, sweepers, running, env>>

SourceCreatesChild ==
    /\ ChildUp /\ source = "create"
    /\ child' = [st |-> "pending", latch |-> FALSE]
    /\ source' = "recheck"
    /\ UNCHANGED <<parent, bridge, seen, hook, processed, sweepers, running, env>>

(* The re-check after the create: the bridge first, then the parent's latch  *)
(* and state when the parent row is here.                                    *)
SourceRechecksBridge ==
    /\ ChildUp /\ source = "recheck"
    /\ source' = IF BridgeView.st = "cancelled" THEN "interrupt" ELSE "parent"
    /\ UNCHANGED <<docs, seen, hook, processed, sweepers, running, env>>

SourceRechecksParent ==
    /\ ChildUp /\ source = "parent"
    /\ IF ~remote /\ (parent.latch \/ CancelWorthy(parent))
       THEN source' = "interrupt" /\ UNCHANGED processed
       ELSE source' = "idle" /\ processed' = TRUE
    /\ UNCHANGED <<docs, seen, hook, sweepers, running, env>>

SourceInterruptsChild ==
    /\ ChildUp /\ source = "interrupt"
    /\ child' = [child EXCEPT !.latch = TRUE]
    /\ source' = "idle" /\ processed' = TRUE
    /\ UNCHANGED <<parent, bridge, seen, hook, sweepers, running, env>>

-----------------------------------------------------------------------------
(* The child request; RequestExecution.tla has the detail.                   *)

ChildClaimed ==
    /\ ChildUp /\ child.st = "pending"
    /\ child' = [child EXCEPT !.st = "processing"] /\ running' = TRUE
    /\ UNCHANGED <<parent, bridge, seen, hook, src, sweepers, env>>

ChildEnds(st) ==
    /\ ChildUp /\ child.st = "processing" /\ running
    /\ \/ st \in {"completed", "failed"}
       \/ st = "interrupted" /\ child.latch
    /\ child' = [child EXCEPT !.st = st] /\ running' = FALSE
    /\ UNCHANGED <<parent, bridge, seen, hook, src, sweepers, env>>

(* Request recovery of an attempt whose process died: requeued or dead.      *)
ChildRequeued(st) ==
    /\ ChildUp /\ child.st = "processing" /\ ~running /\ st \in {"pending", "dead"}
    /\ child' = [child EXCEPT !.st = st]
    /\ UNCHANGED <<parent, bridge, seen, hook, src, sweepers, running, env>>

-----------------------------------------------------------------------------
(* Periodic sweeps and the completion observer.                             *)

(* reconcile_subagent_liveness, first half: the expired child of a running   *)
(* bridge is marked dead (a queued child by compare, a claimed one by        *)
(* revoking its generation) and a background bridge is projected at once.    *)
SweepExpiredChild ==
    /\ HomeUp /\ ~remote /\ bridge.st = "running" /\ Live(child) /\ due.child
    /\ child' = [child EXCEPT !.st = "dead"] /\ running' = FALSE
    /\ IF bridge.mode = "background" THEN bridge' = Closed("failed") ELSE UNCHANGED bridge
    /\ UNCHANGED <<parent, seen, hook, src, sweepers, env>>

(* reconcile_subagent_liveness, second half: a queued child of a terminal    *)
(* parent, whatever the terminal.                                            *)
SweepQueuedChild ==
    /\ HomeUp /\ ~remote /\ child.st = "pending" /\ parent.st \in RequestTerminal
    /\ child' = [child EXCEPT !.st = "interrupted"]
    /\ UNCHANGED <<parent, bridge, seen, hook, src, sweepers, running, env>>

(* Mutant: every background row is left to the orphan sweep, bridges too.     *)
SweepSkipsBackground ==
    /\ HomeUp /\ sweep.st = "idle" /\ bridge.st = "running" /\ parent.st \in RequestTerminal
    /\ bridge.mode = "foreground" /\ ChildView.st \notin RequestTerminal /\ CancelWorthy(parent)
    /\ sweep' = [st |-> "failed", remote |-> ~ChildIsLocal]
    /\ child' = IF ChildIsLocal THEN [child EXCEPT !.latch = TRUE] ELSE child
    /\ UNCHANGED <<parent, bridge, seen, hook, src, reap, running, env>>

(* reconcile_terminal_parent_owned_tools: child-terminal precedence, no      *)
(* action under a clean completion, else the cascade first and the row after. *)
SweepTerminalParent ==
    /\ HomeUp /\ sweep.st = "idle" /\ bridge.st = "running" /\ parent.st \in RequestTerminal
    /\ \/ /\ ChildView.st \in RequestTerminal
          /\ bridge' = Closed(Projected(ChildView))
          /\ UNCHANGED <<child, sweep>>
       \/ /\ ChildView.st \notin RequestTerminal /\ CancelWorthy(parent)
          /\ sweep' = [st |-> IF parent.st = "interrupted" THEN "cancelled" ELSE "failed",
                       remote |-> ~ChildIsLocal]
          /\ child' = IF ChildIsLocal THEN [child EXCEPT !.latch = TRUE] ELSE child
          /\ UNCHANGED bridge
    /\ UNCHANGED <<parent, seen, hook, src, reap, running, env>>

(* Mutant: recover_tool_call_row without the running filter.                 *)
SweepOverwrites ==
    /\ HomeUp /\ sweep.st # "idle"
    /\ bridge' = IF sweep.remote THEN ClosedWithIntent(sweep.st) ELSE Closed(sweep.st)
    /\ sweep' = NoSweep
    /\ UNCHANGED <<parent, child, seen, hook, src, reap, running, env>>

SweepWrites ==
    /\ HomeUp /\ sweep.st # "idle"
    /\ CompareAndClose(IF sweep.remote THEN ClosedWithIntent(sweep.st) ELSE Closed(sweep.st))
    /\ sweep' = NoSweep
    /\ UNCHANGED <<parent, child, seen, hook, src, reap, running, env>>

(* Mutant: every terminal child is projected as a success.                   *)
ObserverProjectsSuccess ==
    /\ HomeUp /\ bridge.st = "running" /\ bridge.mode = "background"
    /\ ChildView.st \in RequestTerminal
    /\ bridge' = Closed("completed")
    /\ UNCHANGED <<parent, child, seen, hook, src, sweepers, running, env>>

(* project_background_subagent_completion.                                   *)
ObserverProjects ==
    /\ HomeUp /\ bridge.st = "running" /\ bridge.mode = "background"
    /\ ChildView.st \in RequestTerminal
    /\ bridge' = Closed(Projected(ChildView))
    /\ UNCHANGED <<parent, child, seen, hook, src, sweepers, running, env>>

(* reconcile_unclaimed_cross_deployment_spawns looks for the child, and in a  *)
(* later step fails the bridge it found unclaimed.                           *)
ReapReads ==
    /\ HomeUp /\ ~reap /\ bridge.st = "running" /\ bridge.mode = "background"
    /\ bridge.unclaimed /\ due.unclaimed
    /\ IF ChildView.st # "absent"
       THEN bridge' = [bridge EXCEPT !.unclaimed = FALSE] /\ UNCHANGED reap
       ELSE reap' = TRUE /\ UNCHANGED bridge
    /\ UNCHANGED <<parent, child, seen, hook, src, sweep, running, env>>

ReapWrites ==
    /\ HomeUp /\ reap
    /\ CompareAndClose([Closed("failed") EXCEPT !.reason = "unclaimed"])
    /\ reap' = FALSE
    /\ UNCHANGED <<parent, child, seen, hook, src, sweep, running, env>>

(* observe_cancel_cascade_ack.                                               *)
ObserveAck ==
    /\ HomeUp /\ bridge.ack
    /\ ChildView.st \in RequestTerminal \/ ChildView.latch
    /\ bridge' = [bridge EXCEPT !.ack = FALSE]
    /\ UNCHANGED <<parent, child, seen, hook, src, sweepers, running, env>>

(* CrossDeploymentCancelMirror on the child's deployment.  Only an enrolled   *)
(* peer's intent is mirrored, which the deployment itself is not.            *)
MirrorCancel ==
    /\ remote /\ seenBridge.intent /\ Live(child) /\ ~child.latch
    /\ child' = [child EXCEPT !.latch = TRUE]
    /\ UNCHANGED <<parent, bridge, seen, hook, src, sweepers, running, env>>

-----------------------------------------------------------------------------
(* Restart of the parent's process.                                         *)

Crash ==
    /\ HomeUp /\ crashes < MaxCrashes[remote]
    /\ crashes' = crashes + 1 /\ phase' = "orphans"
    /\ held' = FALSE /\ cancel' = "idle" /\ sweep' = NoSweep /\ reap' = FALSE
    /\ IF remote THEN UNCHANGED <<source, processed, running>>
                 ELSE source' = "idle" /\ processed' = FALSE /\ running' = FALSE
    /\ UNCHANGED <<docs, seen, due, remote>>

(* recover_orphan_subagent_children: the missing child of a running bridge   *)
(* that carries no unclaimed deadline; a failed authorization fails it.      *)
RecoverOrphan ==
    /\ phase = "orphans"
    /\ IF bridge.st = "running" /\ ChildView.st = "absent" /\ ~bridge.unclaimed
       THEN \/ child' = [st |-> "pending", latch |-> FALSE] /\ UNCHANGED bridge
            \/ bridge' = Closed("failed") /\ UNCHANGED child
       ELSE UNCHANGED <<bridge, child>>
    /\ phase' = "stuck"
    /\ UNCHANGED <<parent, seen, hook, src, sweepers, running, remote, due, crashes>>

(* classify_running_tool_recovery.                                           *)
RecoveryOutcome ==
    IF due.parent THEN "timedOut"
    ELSE IF bridge.unclaimed /\ due.unclaimed THEN "unclaimed"
    ELSE IF parent.st = "interrupted" THEN "cancelled"
    ELSE IF CancelWorthy(parent) THEN "failed"
    ELSE "none"

RecoverClosed(outcome) ==
    IF outcome = "unclaimed" THEN [Closed("failed") EXCEPT !.reason = "unclaimed"]
    ELSE IF parent.st # "completed" /\ ~ChildIsLocal THEN ClosedWithIntent(outcome)
    ELSE Closed(outcome)

(* recover_stuck_running_tool_calls: expired child, then child-terminal      *)
(* precedence, then the classifier with its cascade.                         *)
RecoverStuck ==
    /\ phase = "stuck"
    /\ LET expired == bridge.st = "running" /\ ~remote /\ Live(child) /\ due.child
           current == IF expired THEN [child EXCEPT !.st = "dead"] ELSE child
           view    == IF remote THEN seenChild ELSE current
           outcome == RecoveryOutcome
           latches == outcome \notin {"none", "unclaimed"} /\ parent.st # "completed" /\ ChildIsLocal
       IN  IF bridge.st # "running" THEN UNCHANGED <<bridge, child>>
           ELSE IF view.st \in RequestTerminal
                THEN bridge' = Closed(Projected(view)) /\ child' = current
           ELSE IF outcome = "none" THEN UNCHANGED <<bridge, child>>
           ELSE /\ bridge' = RecoverClosed(outcome)
                /\ child' = IF latches THEN [child EXCEPT !.latch = TRUE] ELSE child
    /\ phase' = "up"
    /\ UNCHANGED <<parent, seen, hook, src, sweepers, running, remote, due, crashes>>

-----------------------------------------------------------------------------
(* Replication and the clock.                                                *)

ReplicateBridge ==
    /\ remote /\ seenBridge # bridge
    /\ seenBridge' = bridge
    /\ UNCHANGED <<docs, seenChild, hook, src, sweepers, running, env>>

ReplicateChild ==
    /\ remote /\ seenChild # child
    /\ seenChild' = child
    /\ UNCHANGED <<docs, seenBridge, hook, src, sweepers, running, env>>

(* The child's deadline is at most the bridge's, which is the parent's.      *)
DeadlinePasses(d) ==
    /\ ~due[d]
    /\ d = "parent" => due.child
    /\ due' = [due EXCEPT ![d] = TRUE]
    /\ UNCHANGED <<docs, seen, hook, src, sweepers, running, remote, phase, crashes>>

-----------------------------------------------------------------------------
HookStep ==
    \/ \E mode \in {"foreground", "background"} : Spawn(mode)
    \/ Foreground \/ AwaitEnds
    \/ \E st \in {"completed", "failed"} : ParentEnds(st)
    \/ ParentDeadline \/ ParentLeaseLost
    \/ CancelReadsOwner \/ CancelWrites \/ CancelInterruptsChild \/ ParentInterrupted
SourceStep ==
    \/ SourceReadsBridge \/ SourceRejects \/ SourceCreatesChild
    \/ SourceRechecksBridge \/ SourceRechecksParent \/ SourceInterruptsChild
ChildStep ==
    \/ ChildClaimed
    \/ \E st \in {"completed", "failed", "interrupted"} : ChildEnds(st)
    \/ \E st \in {"pending", "dead"} : ChildRequeued(st)
SweepStep ==
    \/ SweepExpiredChild \/ SweepQueuedChild \/ SweepTerminalParent \/ SweepWrites
    \/ ObserverProjects \/ ReapReads \/ ReapWrites \/ ObserveAck \/ MirrorCancel

Next ==
    \/ HookStep \/ InterruptParent \/ SourceStep \/ ChildStep \/ SweepStep
    \/ Crash \/ RecoverOrphan \/ RecoverStuck
    \/ ReplicateBridge \/ ReplicateChild
    \/ \E d \in {"unclaimed", "child", "parent"} : DeadlinePasses(d)

(* The tasks of a running process are scheduled, the 5 s ticks recur, and     *)
(* replication delivers.  Nothing makes the model, the clock or a user act:   *)
(* the child may run for ever and no deadline need pass.                      *)
Fairness ==
    /\ WF_vars(CancelWrites) /\ WF_vars(CancelInterruptsChild)
    /\ WF_vars(SourceCreatesChild \/ SourceRejects)
    /\ WF_vars(SourceRechecksBridge) /\ WF_vars(SourceRechecksParent)
    /\ WF_vars(SourceInterruptsChild)
    /\ WF_vars(SweepTerminalParent) /\ WF_vars(SweepWrites) /\ WF_vars(SweepExpiredChild)
    /\ WF_vars(AwaitEnds) /\ WF_vars(ObserverProjects) /\ WF_vars(MirrorCancel)
    /\ WF_vars(ReplicateBridge) /\ WF_vars(ReplicateChild)
    /\ WF_vars(RecoverOrphan) /\ WF_vars(RecoverStuck)

Spec     == Init /\ [][Next]_vars
FairSpec == Spec /\ Fairness

-----------------------------------------------------------------------------
(* The first terminal state of a bridge is its last, and a cancel intent is   *)
(* never withdrawn: however the hook, the sweeps, the observer, the source    *)
(* and recovery race, a loser of the running-state compare writes nothing.    *)
FirstTerminalWins ==
    [][bridge.st \in BridgeTerminal =>
          bridge'.st = bridge.st /\ bridge'.intent = bridge.intent]_vars

(* A bridge reports success only of a child that completed: no timeout,       *)
(* interrupt or recovery path turns an unfinished child into a result.        *)
SuccessIsTheChilds == bridge.st = "completed" => child.st = "completed"

(* Cancelling a parent, or its bridge, reaches the child: whatever is the      *)
(* order of the source's create and re-check and the canceller's ownership    *)
(* read, compare and interrupt, a live child of a cancelled bridge is latched *)
(* (or has ended), without waiting for the child's own end or deadline.  A    *)
(* local child is interrupted by the canceller itself, in memory of a process *)
(* that must then stay up; a remote one hears of the durable intent.          *)
CancelReachesChild ==
    (bridge.st = "cancelled" /\ Live(child))
        ~> (child.latch \/ ~Live(child) \/ (~remote /\ crashes > 0))

(* A background bridge whose child has ended, and any bridge whose parent     *)
(* ended in a way that cancels its tools, does not stay running: a projection *)
(* or a sweep closes it even when the process that awaited it was restarted.  *)
(* (A bridge the parent took to the foreground is the parent's to await.)     *)
(* The expired child of a running bridge is ended by the liveness sweep or by *)
(* recovery when nothing executes it any more (mark_child_request_dead).      *)
BridgeConverges ==
    /\ (bridge.st = "running" /\ bridge.mode = "background" /\ child.st \in RequestTerminal)
            ~> (bridge.st \in BridgeTerminal \/ bridge.mode = "foreground")
    /\ (bridge.st = "running" /\ CancelWorthy(parent)) ~> (bridge.st \in BridgeTerminal)
    /\ (~remote /\ bridge.st = "running" /\ due.child /\ Live(child))
            ~> (~Live(child) \/ bridge.st \in BridgeTerminal)

(* What CancelReachesChild rests on: while the live child of a cancelled      *)
(* bridge is not latched, the cancel is still owed to it by somebody.  For a  *)
(* remote child the durable intent says so; for a local one the canceller is  *)
(* about to interrupt it, or the source that created it has yet to look at    *)
(* the bridge or at a parent that was cancelled, unless a restart forgot it.  *)
CancelIsOwed ==
    bridge.st = "cancelled" /\ Live(child) /\ ~child.latch =>
        IF remote THEN bridge.intent
        ELSE \/ cancel = "interrupt"
             \/ source \in {"recheck", "interrupt"}
             \/ source = "parent" /\ (parent.latch \/ CancelWorthy(parent))
             \/ crashes > 0

(* A bridge is failed as "no peer claimed subagent spawn" only when no child  *)
(* was created for it.                                                        *)
UnclaimedMeansNoChild == bridge.reason = "unclaimed" => child.st = "absent"

(* "a cleanly-completed parent never cascade-cancels its tools": a child is   *)
(* interrupted only after its parent was interrupted or ended badly, or its   *)
(* bridge was cancelled.                                                      *)
CleanCompletionSparesChild ==
    child.st = "interrupted" => child.latch \/ parent.latch \/ CancelWorthy(parent)
=============================================================================
