----------------------------- MODULE ToolCalls -----------------------------
(***************************************************************************)
(* The native tool calls of one request: the hook that starts, holds for   *)
(* approval and closes them, the tasks that run processes in the           *)
(* background with the registry that records who owns them, and the        *)
(* sweeps and the startup recovery that close what nobody owns any more.   *)
(* Subagent bridges are in SubagentBridge.tla; the delivery of an owed     *)
(* notice is one step here, which may fail and be repeated.                *)
(***************************************************************************)
EXTENDS Naturals, Sequences, FiniteSets

CONSTANTS
    Native,         \* calls run in the turn, each possibly held for approval
    Background,     \* processes started with spawn_process
    Loads           \* the loads considered: see load

Calls == Native \cup Background

ASSUME CallsAssumption ==
    /\ Native \cap Background = {} /\ {"none", "request"} \cap Calls = {}
    /\ \A l \in Loads : l.decisions \in Nat /\ l.fails \in Nat /\ l.crashes \in Nat

Ends           == {"completed", "failed", "timedOut", "cancelled"}
ParentTerminal == {"completed", "failed", "interrupted"}

VARIABLES
    load,       \* never changes: the calls of the turn, and the bounds on
                \* decisions per held call, failing writes and restarts
    row,        \* AgentToolCall rows: state, who ended it, notice still owed
    parent,     \* state of the request
    latch,      \* its interrupt_requested_at
    decisions,  \* AgentToolApproval documents by created_at
    hook,       \* where the turn is: at which point of which call
    mem,        \* in_flight_lifecycles: the hook's view of its open calls
    closing,    \* the sweep over in_flight_lifecycles that ends an attempt
    registry,   \* BackgroundExecutionRegistry
    worker,     \* the task of a background call
    token,      \* its cancellation token has fired
    canceller,  \* a cancel_process call that has won its compare
    loaded,     \* rows a sweep has read as running
    due,        \* the deadline of the request, and of each background call
    phase, fails, crashes

docs     == <<row, parent, latch, decisions>>
turn     == <<hook, mem, closing>>
procs    == <<registry, worker, token, canceller>>
env      == <<load, due, phase, crashes>>
vars     == <<docs, turn, procs, loaded, env, fails>>

Idle      == [at |-> "idle", call |-> "none", seen |-> "none"]
NoRow     == [st |-> "absent", by |-> "none", owed |-> FALSE]

TypeOK ==
    /\ row \in [Calls -> [st : {"absent", "held", "running"} \cup Ends,
                          by : {"none", "hook", "worker", "user", "sweep"}, owed : BOOLEAN]]
    /\ parent \in {"pending", "processing"} \cup ParentTerminal /\ latch \in BOOLEAN
    /\ decisions \in [Native -> Seq({"approved", "denied"})]
    /\ hook \in [at : {"idle", "insert", "poll", "verdict", "run", "spawn"},
                 call : Calls \cup {"none"}, seen : {"none", "approved", "denied"}]
    /\ mem \in [Native -> {"none", "held", "running"}]
    /\ closing \in {"no", "cancel", "fail", "timeout", "end"}
    /\ registry \subseteq Background /\ token \subseteq Background /\ loaded \subseteq Calls
    /\ worker \in [Background -> {"none", "running", "notify", "cleanup"}]
    /\ canceller \in Background \cup {"none"}
    /\ due \subseteq Background \cup {"request"}
    /\ phase \in {"up", "tools", "requests"}
    /\ load \in Loads /\ fails \in 0..load.fails /\ crashes \in 0..load.crashes

Init ==
    /\ load \in Loads
    /\ row = [c \in Calls |-> NoRow]
    /\ parent = "processing" /\ latch = FALSE
    /\ decisions = [c \in Native |-> <<>>]
    /\ hook = Idle /\ mem = [c \in Native |-> "none"] /\ closing = "no"
    /\ registry = {} /\ worker = [c \in Background |-> "none"] /\ token = {} /\ canceller = "none"
    /\ loaded = {} /\ due = {} /\ phase = "up" /\ fails = 0 /\ crashes = 0

-----------------------------------------------------------------------------
Running(c)      == row[c].st = "running"
Turn            == phase = "up" /\ parent = "processing" /\ closing = "no"
At(p, c)        == Turn /\ hook.at = p /\ hook.call = c
GoTo(p, c)      == hook' = [at |-> p, call |-> c, seen |-> "none"]
FirstDecision(c) == IF decisions[c] = <<>> THEN "none" ELSE Head(decisions[c])

(* Mutant: the end is written without the compare.                           *)
EndBlindly(c, from, st, by) ==
    [row EXCEPT ![c] = [st |-> st, by |-> by, owed |-> c \in Background]]

(* Every terminal write compares the state it leaves in the same mutation;   *)
(* the loser adopts what it finds.  The end of a background call owes a      *)
(* notice from that write on (completionPending).                            *)
EndFrom(c, from, st, by) ==
    IF row[c].st = from
    THEN [row EXCEPT ![c] = [st |-> st, by |-> by, owed |-> c \in Background]]
    ELSE row

(* A write of the runtime that may fail, a bounded number of times.          *)
Fail == fails < load.fails /\ fails' = fails + 1

-----------------------------------------------------------------------------
(* The turn.                                                                *)

(* on_tool_call persists the row, held or running, and then inserts the      *)
(* lifecycle into the in-flight map.                                         *)
OnToolCall(c, st) ==
    /\ Turn /\ hook = Idle /\ c \in load.calls /\ row[c].st = "absent" /\ st \in {"held", "running"}
    /\ row' = [row EXCEPT ![c].st = st]
    /\ GoTo("insert", c)
    /\ UNCHANGED <<parent, latch, decisions, mem, closing, procs, loaded, env, fails>>

InsertInFlight(c) ==
    /\ At("insert", c)
    /\ mem' = [mem EXCEPT ![c] = row[c].st]
    /\ GoTo(IF row[c].st = "held" THEN "poll" ELSE "run", c)
    /\ UNCHANGED <<docs, closing, procs, loaded, env, fails>>

(* An operator's approval document; more than one may be written.            *)
Decide(c, d) ==
    /\ row[c].st = "held" /\ Len(decisions[c]) < load.decisions
    /\ decisions' = [decisions EXCEPT ![c] = Append(@, d)]
    /\ UNCHANGED <<row, parent, latch, turn, procs, loaded, env, fails>>

(* drive_held_tool_call, one round: the deadline first, then the documents.  *)
PollTimesOut(c) ==
    /\ At("poll", c) /\ "request" \in due
    /\ row' = EndFrom(c, "held", "timedOut", "hook")
    /\ mem' = [mem EXCEPT ![c] = "none"] /\ hook' = Idle
    /\ UNCHANGED <<parent, latch, decisions, closing, procs, loaded, env, fails>>

(* Mutant: the newest document is taken for the decision.                    *)
PollReadsLast(c) ==
    /\ At("poll", c) /\ "request" \notin due /\ decisions[c] # <<>>
    /\ hook' = [at |-> "verdict", call |-> c, seen |-> decisions[c][Len(decisions[c])]]
    /\ UNCHANGED <<docs, mem, closing, procs, loaded, env, fails>>

PollReads(c) ==
    /\ At("poll", c) /\ "request" \notin due /\ decisions[c] # <<>>
    /\ hook' = [at |-> "verdict", call |-> c, seen |-> FirstDecision(c)]
    /\ UNCHANGED <<docs, mem, closing, procs, loaded, env, fails>>

(* approve_and_start or deny_approval, under the lock of the map.            *)
Verdict(c) ==
    /\ At("verdict", c) /\ row[c].st = "held"
    /\ IF hook.seen = "approved"
       THEN /\ row' = [row EXCEPT ![c].st = "running"]
            /\ mem' = [mem EXCEPT ![c] = "running"] /\ GoTo("run", c)
       ELSE /\ row' = EndFrom(c, "held", "failed", "hook")
            /\ mem' = [mem EXCEPT ![c] = "none"] /\ hook' = Idle
    /\ UNCHANGED <<parent, latch, decisions, closing, procs, loaded, env, fails>>

(* on_tool_result removes the lifecycle and writes the outcome.              *)
OnToolResult(c, st) ==
    /\ At("run", c) /\ st \in {"completed", "failed"}
    /\ row' = EndFrom(c, "running", st, "hook")
    /\ mem' = [mem EXCEPT ![c] = "none"] /\ hook' = Idle
    /\ UNCHANGED <<parent, latch, decisions, closing, procs, loaded, env, fails>>

(* spawn_process reserves the registry entry before the row exists.          *)
SpawnReserves(c) ==
    /\ Turn /\ hook = Idle /\ c \in load.calls /\ row[c].st = "absent" /\ c \notin registry
    /\ registry' = registry \cup {c}
    /\ GoTo("spawn", c)
    /\ UNCHANGED <<docs, mem, closing, worker, token, canceller, loaded, env, fails>>

(* start_running, then tokio::spawn.                                         *)
SpawnStarts(c) ==
    /\ At("spawn", c)
    /\ row' = [row EXCEPT ![c].st = "running"]
    /\ worker' = [worker EXCEPT ![c] = "running"]
    /\ hook' = Idle
    /\ UNCHANGED <<parent, latch, decisions, mem, closing, registry, token, canceller,
                   loaded, env, fails>>

-----------------------------------------------------------------------------
(* The end of an attempt.                                                   *)

Interrupt ==
    /\ parent \in {"pending", "processing"} /\ ~latch
    /\ latch' = TRUE
    /\ UNCHANGED <<row, parent, decisions, turn, procs, loaded, env, fails>>

(* The daemon drops the stream, and with it the hook's pending call.  A      *)
(* write that was under way may still be committed: the verdict, or the row  *)
(* of a process whose task is never spawned and whose reservation is         *)
(* released by the drop.                                                     *)
DropStream(why) ==
    /\ Turn
    /\ \/ why = "cancel" /\ latch
       \/ why = "fail"
       \/ why = "timeout" /\ "request" \in due
    /\ closing' = why /\ hook' = Idle
    /\ registry' = IF hook.at = "spawn" THEN registry \ {hook.call} ELSE registry
    /\ \/ UNCHANGED row
       \/ /\ hook.at = "spawn" \/ (hook.at = "verdict" /\ hook.seen = "approved")
          /\ row' = [row EXCEPT ![hook.call].st = "running"]
       \/ /\ hook.at = "verdict" /\ hook.seen = "denied"
          /\ row' = EndFrom(hook.call, "held", "failed", "hook")
    /\ UNCHANGED <<parent, latch, decisions, mem, worker, token, canceller, loaded, env, fails>>

(* cancel_in_flight_tool_calls and timeout_expired_tool_calls choose the     *)
(* transition by the state in memory and lose the compare if the row has     *)
(* moved on.                                                                 *)
CloseInFlight(c) ==
    /\ phase = "up" /\ closing \in {"cancel", "timeout"} /\ mem[c] # "none"
    /\ row' = EndFrom(c, mem[c], IF closing = "cancel" THEN "cancelled" ELSE "timedOut", "hook")
    /\ mem' = [mem EXCEPT ![c] = "none"]
    /\ UNCHANGED <<parent, latch, decisions, hook, closing, procs, loaded, env, fails>>

(* fail_in_flight_tool_calls after a lost lease: fail() refuses a held call,  *)
(* and the error leaves the rest of the drained calls as they are.           *)
FailInFlight(c) ==
    /\ phase = "up" /\ closing = "fail" /\ mem[c] # "none"
    /\ IF mem[c] = "held"
       THEN mem' = [d \in Native |-> "none"] /\ UNCHANGED row
       ELSE mem' = [mem EXCEPT ![c] = "none"] /\ row' = EndFrom(c, "running", "failed", "hook")
    /\ UNCHANGED <<parent, latch, decisions, hook, closing, procs, loaded, env, fails>>

(* The request is ended by its turn, or once its open calls are closed.      *)
ParentEnds(st) ==
    /\ phase = "up" /\ parent = "processing" /\ hook = Idle /\ \A c \in Native : mem[c] = "none"
    /\ CASE closing = "no"     -> st \in {"completed", "failed"}
         [] closing = "cancel" -> st = "interrupted"
         [] OTHER              -> st \in {"failed", "pending"}
    /\ parent' = st /\ closing' = "no"
    /\ UNCHANGED <<row, latch, decisions, hook, mem, procs, loaded, env, fails>>

(* A requeued request is claimed again; its next turn uses other call ids.   *)
Reclaim ==
    /\ phase = "up" /\ parent = "pending"
    /\ parent' = IF latch THEN "interrupted" ELSE "processing"
    /\ UNCHANGED <<row, latch, decisions, turn, procs, loaded, env, fails>>

-----------------------------------------------------------------------------
(* Background processes.                                                    *)

(* The task's outcome is written under the running-state compare; only the   *)
(* winner goes on to append the notice.  A write that fails is logged.       *)
WorkerEnds(c, st) ==
    /\ phase = "up" /\ worker[c] = "running"
    /\ CASE st = "cancelled" -> c \in token
         [] st = "timedOut"  -> c \in due
         [] OTHER            -> TRUE
    /\ \/ /\ row' = EndFrom(c, "running", IF st = "timedOut" THEN "failed" ELSE st, "worker")
          /\ worker' = [worker EXCEPT ![c] = IF Running(c) THEN "notify" ELSE "cleanup"]
          /\ UNCHANGED fails
       \/ Fail /\ worker' = [worker EXCEPT ![c] = "cleanup"] /\ UNCHANGED row
    /\ UNCHANGED <<parent, latch, decisions, turn, registry, token, canceller, loaded, env>>

(* append_background_tool_completion clears the owed notice last.            *)
WorkerNotifies(c) ==
    /\ phase = "up" /\ worker[c] = "notify"
    /\ \/ row' = [row EXCEPT ![c].owed = FALSE] /\ UNCHANGED fails
       \/ Fail /\ UNCHANGED row
    /\ worker' = [worker EXCEPT ![c] = "cleanup"]
    /\ UNCHANGED <<parent, latch, decisions, turn, registry, token, canceller, loaded, env>>

(* The reservation is dropped with the task.                                 *)
WorkerReleases(c) ==
    /\ phase = "up" /\ worker[c] = "cleanup"
    /\ worker' = [worker EXCEPT ![c] = "none"] /\ registry' = registry \ {c}
    /\ UNCHANGED <<docs, turn, token, canceller, loaded, env, fails>>

(* cancel_process, from this or a later request of the session: the durable  *)
(* cancel first, the token after it, and the notice by the winner.           *)
CancelProcess(c) ==
    /\ phase = "up" /\ canceller = "none" /\ Running(c)
    /\ row' = EndFrom(c, "running", "cancelled", "user")
    /\ canceller' = c
    /\ UNCHANGED <<parent, latch, decisions, turn, registry, worker, token, loaded, env, fails>>

CancelFires(c) ==
    /\ phase = "up" /\ canceller = c
    /\ token' = IF c \in registry THEN token \cup {c} ELSE token
    /\ \/ row' = [row EXCEPT ![c].owed = FALSE] /\ UNCHANGED fails
       \/ Fail /\ UNCHANGED row
    /\ canceller' = "none"
    /\ UNCHANGED <<parent, latch, decisions, turn, registry, worker, loaded, env>>

-----------------------------------------------------------------------------
(* Periodic sweeps: the rows are read once, each is then checked and ended.  *)

SweepLoads ==
    /\ phase = "up" /\ loaded = {}
    /\ loaded' = {c \in Calls : Running(c)} /\ loaded' # {}
    /\ UNCHANGED <<docs, turn, procs, env, fails>>

(* classify_running_tool_recovery for a call without a child.                *)
RecoveryOutcome(c) ==
    IF c \in due \/ (c \in Native /\ "request" \in due) THEN "timedOut"
    ELSE IF c \in Background /\ parent \notin ParentTerminal THEN "cancelled"
    ELSE IF parent = "interrupted" THEN "cancelled"
    ELSE IF parent \in ParentTerminal THEN "failed"
    ELSE "none"

(* Mutant: the orphan sweep does not look at the registry.                   *)
SweepOrphanUnowned(c) ==
    /\ phase = "up" /\ c \in loaded /\ loaded' = loaded \ {c}
    /\ row' = EndFrom(c, "running", RecoveryOutcome(c), "sweep")
    /\ UNCHANGED <<parent, latch, decisions, turn, procs, env, fails>>

(* Mutant: the orphan sweep, like the other one, waits for the request's end. *)
SweepOrphanOfEnded(c) ==
    /\ phase = "up" /\ c \in loaded /\ loaded' = loaded \ {c}
    /\ row' = IF c \in registry \/ parent \notin ParentTerminal THEN row
              ELSE EndFrom(c, "running", RecoveryOutcome(c), "sweep")
    /\ UNCHANGED <<parent, latch, decisions, turn, procs, env, fails>>

(* reconcile_orphaned_background_tools: a row whose process is not owned here *)
(* any more.  Its notice is appended by the sweep, or left owed.             *)
SweepOrphan(c) ==
    /\ phase = "up" /\ c \in loaded /\ loaded' = loaded \ {c}
    /\ IF c \in registry THEN UNCHANGED <<row, fails>>
       ELSE LET ended == EndFrom(c, "running", RecoveryOutcome(c), "sweep")
            IN  \/ /\ row' = IF Running(c) THEN [ended EXCEPT ![c].owed = FALSE] ELSE row
                   /\ UNCHANGED fails
                \/ Fail /\ row' = ended
    /\ UNCHANGED <<parent, latch, decisions, turn, procs, env>>

(* reconcile_terminal_parent_owned_tools: a call run in a turn that is over. *)
SweepTerminalParent(c) ==
    /\ phase = "up" /\ c \in loaded /\ loaded' = loaded \ {c}
    /\ row' = IF parent \in ParentTerminal
              THEN EndFrom(c, "running",
                           IF parent = "interrupted" THEN "cancelled" ELSE "failed", "sweep")
              ELSE row
    /\ UNCHANGED <<parent, latch, decisions, turn, procs, env, fails>>

(* Mutant: a notice is redriven only while its request is live.              *)
RedriveNoticeOfLive(c) ==
    /\ phase = "up" /\ row[c].owed /\ parent \notin ParentTerminal
    /\ \/ row' = [row EXCEPT ![c].owed = FALSE] /\ UNCHANGED fails
       \/ Fail /\ UNCHANGED row
    /\ UNCHANGED <<parent, latch, decisions, turn, procs, loaded, env>>

(* reconcile_background_completion_side_effects.                             *)
RedriveNotice(c) ==
    /\ phase = "up" /\ row[c].owed
    /\ \/ row' = [row EXCEPT ![c].owed = FALSE] /\ UNCHANGED fails
       \/ Fail /\ UNCHANGED row
    /\ UNCHANGED <<parent, latch, decisions, turn, procs, loaded, env>>

-----------------------------------------------------------------------------
(* Restart: the tool calls are recovered before the requests.               *)

Crash ==
    /\ phase = "up" /\ crashes < load.crashes
    /\ crashes' = crashes + 1 /\ phase' = "tools"
    /\ hook' = Idle /\ mem' = [c \in Native |-> "none"] /\ closing' = "no"
    /\ registry' = {} /\ worker' = [c \in Background |-> "none"] /\ token' = {} /\ canceller' = "none"
    /\ loaded' = {}
    /\ UNCHANGED <<docs, load, due, fails>>

(* recover_stuck_running_tool_calls over every running row.                  *)
RecoverToolCalls ==
    /\ phase = "tools"
    /\ row' = [c \in Calls |-> IF Running(c) /\ RecoveryOutcome(c) # "none"
                               THEN EndFrom(c, "running", RecoveryOutcome(c), "sweep")[c]
                               ELSE row[c]]
    /\ phase' = "requests"
    /\ UNCHANGED <<parent, latch, decisions, turn, procs, loaded, due, load, crashes, fails>>

RecoverRequest(st) ==
    /\ phase = "requests"
    /\ IF parent = "processing"
       THEN st \in IF latch THEN {"interrupted"} ELSE {"pending", "failed"}
       ELSE st = parent
    /\ parent' = st /\ phase' = "up"
    /\ UNCHANGED <<row, latch, decisions, turn, procs, loaded, due, load, crashes, fails>>

DeadlinePasses(d) ==
    /\ d \notin due /\ d \in load.calls \cup {"request"}
    /\ due' = due \cup {d}
    /\ UNCHANGED <<docs, turn, procs, loaded, phase, load, crashes, fails>>

-----------------------------------------------------------------------------
TurnStep ==
    \/ \E c \in Native :
         \/ \E st \in {"held", "running"} : OnToolCall(c, st)
         \/ InsertInFlight(c) \/ PollTimesOut(c) \/ PollReads(c) \/ Verdict(c)
         \/ \E st \in {"completed", "failed"} : OnToolResult(c, st)
    \/ \E c \in Background : SpawnReserves(c) \/ SpawnStarts(c)
EndStep ==
    \/ \E why \in {"cancel", "fail", "timeout"} : DropStream(why)
    \/ \E c \in Native : CloseInFlight(c) \/ FailInFlight(c)
    \/ \E st \in ParentTerminal \cup {"pending"} : ParentEnds(st)
    \/ Reclaim
ProcessStep ==
    \E c \in Background :
        \/ \E st \in Ends : WorkerEnds(c, st)
        \/ WorkerNotifies(c) \/ WorkerReleases(c) \/ CancelProcess(c) \/ CancelFires(c)
SweepStep ==
    \/ SweepLoads
    \/ \E c \in Background : SweepOrphan(c) \/ RedriveNotice(c)
    \/ \E c \in Native : SweepTerminalParent(c)
Next ==
    \/ TurnStep \/ EndStep \/ ProcessStep \/ SweepStep
    \/ Interrupt \/ Crash \/ RecoverToolCalls
    \/ \E st \in {"pending"} \cup ParentTerminal : RecoverRequest(st)
    \/ \E c \in Native, d \in {"approved", "denied"} : Decide(c, d)
    \/ \E d \in Background \cup {"request"} : DeadlinePasses(d)

(* Tasks of a running process are scheduled and the periodic ticks recur.     *)
(* The model, the tools, the operators and the clock owe nothing: a process   *)
(* may run for ever unless its token fires.                                   *)
Fairness ==
    /\ WF_vars(SweepLoads) /\ WF_vars(RecoverToolCalls)
    /\ WF_vars(\E st \in {"pending"} \cup ParentTerminal : RecoverRequest(st))
    /\ \A c \in Native :
        /\ WF_vars(SweepTerminalParent(c)) /\ WF_vars(InsertInFlight(c))
        /\ WF_vars(PollTimesOut(c)) /\ WF_vars(PollReads(c)) /\ WF_vars(Verdict(c))
        /\ WF_vars(CloseInFlight(c))
    /\ \A c \in Background :
        /\ WF_vars(SweepOrphan(c)) /\ WF_vars(RedriveNotice(c))
        /\ WF_vars(WorkerEnds(c, "cancelled")) /\ WF_vars(WorkerNotifies(c))
        /\ WF_vars(WorkerReleases(c)) /\ WF_vars(CancelFires(c))

Spec     == Init /\ [][Next]_vars
FairSpec == Spec /\ Fairness

-----------------------------------------------------------------------------
(* The first end of a call is its last: however the turn, the tasks,          *)
(* cancel_process, the sweeps and recovery race, a loser of the compare       *)
(* changes neither the state nor the cause, and a notice once delivered is    *)
(* not owed again.                                                            *)
FirstEndWins ==
    [][\A c \in Calls : row[c].st \in Ends =>
          /\ row'[c].st = row[c].st /\ row'[c].by = row[c].by
          /\ row'[c].owed => row[c].owed]_vars

(* A process that is still running here is never written off as orphaned:     *)
(* the registry entry exists before the row does and outlives its end, so a   *)
(* sweep that read the row as running finds the owner.                        *)
LiveProcessKeepsItsRow ==
    \A c \in Background : worker[c] = "running" => row[c].by # "sweep"

(* A held tool runs, or is refused, by the first decision written for it,     *)
(* whatever is written after it.                                              *)
FirstDecisionRules ==
    \A c \in Native : hook.call = c /\ hook.at = "run" /\ decisions[c] # <<>> =>
                          FirstDecision(c) = "approved"

(* Every end of a background call is announced to the session, whoever wrote  *)
(* it and whichever write of the notice failed.                               *)
EndIsAnnounced ==
    \A c \in Background : row[c].owed ~> ~row[c].owed

(* Nothing outlives what it belongs to: the row of a process that no task     *)
(* owns and the call of a request that has ended are closed, and a process    *)
(* whose row cancel_process closed is really stopped.                         *)
OrphanEnds ==
    /\ \A c \in Background : (row[c].by = "user") ~> (worker[c] # "running")
    /\ \A c \in Background : (Running(c) /\ c \notin registry) ~> ~Running(c)
    /\ \A c \in Native : (Running(c) /\ parent \in ParentTerminal) ~> ~Running(c)

(* What stopping a cancelled process rests on: while the task of a call that  *)
(* cancel_process closed still runs, its token has fired or the canceller is  *)
(* about to fire it; the durable cancel and the token are two steps.          *)
CancelIsCarriedOut ==
    \A c \in Background :
        row[c].by = "user" /\ worker[c] = "running" => canceller = c \/ c \in token

(* "an unanswered approval must not become a zombie": a held call past its    *)
(* deadline leaves awaitingApproval.                                          *)
HeldEnds ==
    \A c \in Native : (row[c].st = "held" /\ "request" \in due) ~> (row[c].st # "held")
=============================================================================
