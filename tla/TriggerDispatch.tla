-------------------------- MODULE TriggerDispatch --------------------------
(***************************************************************************)
(* One trigger, from the moment its source finds it due to the request it  *)
(* leaves behind: the schedule and the event source, TriggerEngine's       *)
(* dispatch with its concurrency gates, the production materializer, and   *)
(* the checkpoint that the schedule source writes after the fact.  Each    *)
(* source has one driver task, so one fire of a trigger is dispatched at   *)
(* a time and the per-trigger lock of dispatch is never contended.  The    *)
(* documents of the event source are new when they arrive.                 *)
(***************************************************************************)
EXTENDS Naturals, Sequences, FiniteSets

CONSTANTS
    Kinds,        \* the kinds of trigger considered: see kind
    MaxSlots,     \* bound: times the schedule falls due, or documents
    MaxFires,     \* bound: fires that are dispatched
    MaxRounds,    \* DEFRA_DB_CONFLICT_MAX_RETRIES + 1
    MaxEdits,     \* bound: edits of the trigger and of its task
    MaxFaults,    \* bound: operations that fail
    MaxCrashes    \* bound: restarts of the process

ASSUME TriggerAssumption ==
    /\ Kinds \subseteq [source : {"schedule", "event"}, workspace : BOOLEAN,
                        mode : {"parallel", "serial", "latestOnly"}]
    /\ \A k \in Kinds : k.workspace => k.source = "event"

VARIABLES
    kind,       \* never changes: its source, ConcurrencyMode, and whether the
                \* source documents carry a workspace binding
    req,        \* AgentRequest rows of this trigger, in order of creation
    nextRun,    \* Schedule.next_run_at; 0 is null
    now,        \* the clock, in intervals of the schedule
    writes,     \* runtime-field writes that on_result has spawned
    queued,     \* pending_intents of the event source
    arrived,    \* documents the event source has turned into intents
    driver,     \* the driver task: where dispatch is, and for which fire
    fires,      \* fires dispatched so far
    active,     \* the trigger is in the published snapshot
    declared,   \* its task declares a goal
    edits, faults, crashes

store == <<req, nextRun>>
src   == <<now, queued, arrived>>
conf  == <<kind, active, declared, edits>>
vars  == <<store, writes, src, driver, fires, conf, faults, crashes>>

States == {"binding", "pending", "claimed", "done", "superseded"}
Idle   == [at |-> "idle", key |-> 0, goal |-> FALSE, round |-> 0]

TypeOK ==
    /\ kind \in Kinds
    /\ req \in Seq([key : 1..MaxSlots, goal : BOOLEAN, st : States, late : 0..2])
    /\ nextRun \in 0..MaxSlots + 1 /\ now \in 1..MaxSlots
    /\ writes \subseteq [fire : 1..MaxFires, to : 1..MaxSlots + 1]
    /\ queued \in Seq([key : 1..MaxSlots, goal : BOOLEAN]) /\ arrived \in 0..MaxSlots
    /\ driver \in [at : {"idle", "recover", "snapshot", "gate", "supersede", "revoke",
                         "create", "bind", "down"},
                   key : 0..MaxSlots, goal : BOOLEAN, round : 0..MaxRounds]
    /\ fires \in 0..MaxFires
    /\ active \in BOOLEAN /\ declared \in BOOLEAN
    /\ edits \in 0..MaxEdits /\ faults \in 0..MaxFaults /\ crashes \in 0..MaxCrashes

Init ==
    /\ kind \in Kinds
    /\ req = <<>> /\ nextRun = 0 /\ now = 1 /\ writes = {} /\ queued = <<>> /\ arrived = 0
    /\ driver = Idle /\ fires = 0 /\ active = TRUE /\ declared \in BOOLEAN
    /\ edits = 0 /\ faults = 0 /\ crashes = 0

-----------------------------------------------------------------------------
Rows        == DOMAIN req
At(p)       == driver.at = p
GoTo(p)     == driver' = [driver EXCEPT !.at = p]
Up          == ~At("down")
Begin(k, g) == /\ fires < MaxFires /\ fires' = fires + 1
               /\ driver' = [at |-> "recover", key |-> k, goal |-> g, round |-> 0]
Fails       == faults < MaxFaults /\ faults' = faults + 1
Holds       == UNCHANGED faults

(* The request of this very fire, which the gates leave out: a goal fire    *)
(* has a deterministic identity.                                            *)
OwnFire(r)  == driver.goal /\ req[r].goal /\ req[r].key = driver.key
Recorded    == \E r \in Rows : req[r].goal /\ req[r].key = driver.key

(* The callback of the schedule source: a fire that happened or was skipped *)
(* moves next_run_at on, an error leaves it, and the write is a task of its *)
(* own that nobody waits for.                                               *)
OnResult(result) ==
    writes' = IF kind.source = "schedule" /\ result # "errored"
                THEN writes \cup {[fire |-> fires, to |-> driver.key + 1]}
                ELSE writes
Finish(result) == driver' = Idle /\ OnResult(result)

-----------------------------------------------------------------------------
(* ScheduleSource::next_fire: a schedule without next_run_at is seeded and  *)
(* due at once, any other one when its time has come.                       *)
ScheduleFires ==
    LET slot == IF nextRun = 0 THEN now ELSE nextRun
    IN  /\ kind.source = "schedule" /\ At("idle") /\ active /\ slot <= now
        /\ nextRun' = slot /\ Begin(slot, declared)
        /\ UNCHANGED <<req, writes, src, conf, faults, crashes>>

(* The clock passes the next slot of the schedule. *)
Tick ==
    /\ kind.source = "schedule" /\ now < MaxSlots /\ now' = now + 1
    /\ UNCHANGED <<store, writes, queued, arrived, driver, fires, conf, faults, crashes>>

(* EventSource::build_intents_for_all_matching: one intent for each new     *)
(* document of an active trigger, with the task as the snapshot has it.     *)
DocumentArrives ==
    /\ kind.source = "event" /\ Up /\ active /\ arrived < MaxSlots
    /\ arrived' = arrived + 1
    /\ queued' = Append(queued, [key |-> arrived + 1, goal |-> declared])
    /\ UNCHANGED <<store, writes, now, driver, fires, conf, faults, crashes>>

(* EventSource::next_fire takes the first queued intent. *)
EventFires ==
    /\ At("idle") /\ queued # <<>>
    /\ Begin(Head(queued).key, Head(queued).goal) /\ queued' = Tail(queued)
    /\ UNCHANGED <<store, writes, now, arrived, conf, faults, crashes>>

(* A spawned write of the runtime fields reaches the store, or fails. *)
WriteLands(w) ==
    /\ writes' = writes \ {w}
    /\ \/ nextRun' = w.to /\ Holds
       \/ Fails /\ UNCHANGED nextRun
    /\ UNCHANGED <<req, src, driver, fires, conf, crashes>>

-----------------------------------------------------------------------------
(* TriggerEngine::dispatch, recover_goal_task_fire: before anything else,   *)
(* the request this fire may have left behind is looked up by its durable   *)
(* key, whatever the task declares by now.                                  *)
(* Mutant: only a task that still declares its goal is looked up. *)
RecoverDeclaredFire ==
    /\ At("recover")
    /\ \/ Recorded /\ driver.goal /\ Finish("fired") /\ Holds
       \/ ~(Recorded /\ driver.goal) /\ GoTo("snapshot") /\ UNCHANGED writes /\ Holds
    /\ UNCHANGED <<store, src, fires, conf, crashes>>
RecoverGoalTaskFire ==
    /\ At("recover")
    /\ \/ Recorded /\ Finish("fired") /\ Holds
       \/ ~Recorded /\ GoTo("snapshot") /\ UNCHANGED writes /\ Holds
       \/ Fails /\ Finish("errored")
    /\ UNCHANGED <<store, src, fires, conf, crashes>>

(* dispatch: the trigger must be in the snapshot of this moment; then the   *)
(* templates are rendered, which may fail, and the mode picks the gate.     *)
CheckSnapshot ==
    /\ At("snapshot")
    /\ \/ ~active /\ Finish("skipped") /\ Holds
       \/ active /\ Fails /\ Finish("errored")
       \/ /\ active /\ UNCHANGED writes /\ Holds
          /\ GoTo(CASE kind.mode = "parallel" -> "create" [] kind.mode = "serial" -> "gate"
                    [] kind.mode = "latestOnly" -> "supersede")
    /\ UNCHANGED <<store, src, fires, conf, crashes>>

(* row_gates_serial_fire: a pending row gates, and a claimed one until a    *)
(* grace period after its deadline.                                         *)
(* Mutant: only a claimed row counts as in flight. *)
GatesWhenClaimed(r) == req[r].st = "claimed" /\ req[r].late < 2
RowGates(r) == req[r].st = "pending" \/ (req[r].st = "claimed" /\ req[r].late < 2)

(* has_active_runtime_request_for_trigger, for a serial trigger. *)
GateSerial ==
    LET busy == \E r \in Rows : ~OwnFire(r) /\ RowGates(r)
    IN  /\ At("gate")
        /\ \/ busy /\ Finish("skipped") /\ Holds
           \/ ~busy /\ GoTo("create") /\ UNCHANGED writes /\ Holds
           \/ Fails /\ Finish("errored")
        /\ UNCHANGED <<store, src, fires, conf, crashes>>

Superseded(W) == [r \in Rows |-> IF r \in W THEN [req[r] EXCEPT !.st = "superseded"] ELSE req[r]]

(* supersede_active_runtime_requests_for_trigger, first half: one mutation  *)
(* ends every request that is still pending.                                *)
SupersedePending ==
    /\ At("supersede")
    /\ \/ /\ req' = Superseded({r \in Rows : ~OwnFire(r) /\ req[r].st = "pending"})
          /\ GoTo("revoke") /\ UNCHANGED writes /\ Holds
       \/ Fails /\ Finish("errored") /\ UNCHANGED req
    /\ UNCHANGED <<nextRun, src, fires, conf, crashes>>

(* Its second half: claims that raced the first are read and revoked, each  *)
(* unless its owner has moved on since it was read; the rows are read again *)
(* until none is left, and the fire fails when they do not run out.         *)
(* Mutant: one pass is taken to be enough. *)
RevokeOnce ==
    LET open == {r \in Rows : ~OwnFire(r) /\ req[r].st = "claimed"}
    IN  /\ At("revoke") /\ UNCHANGED writes /\ Holds /\ GoTo("create")
        /\ \E W \in SUBSET open : req' = Superseded(W)
        /\ UNCHANGED <<nextRun, src, fires, conf, crashes>>
RevokeClaims ==
    LET open == {r \in Rows : ~OwnFire(r) /\ req[r].st = "claimed"}
    IN  /\ At("revoke")
        /\ \/ open = {} /\ GoTo("create") /\ UNCHANGED <<req, writes>> /\ Holds
           \/ /\ open # {} /\ driver.round < MaxRounds
              /\ \E W \in SUBSET open : req' = Superseded(W)
              /\ driver' = [driver EXCEPT !.round = @ + 1] /\ UNCHANGED writes /\ Holds
           \/ /\ open # {} /\ driver.round = MaxRounds
              /\ Finish("errored") /\ UNCHANGED req /\ Holds
        /\ UNCHANGED <<nextRun, src, fires, conf, crashes>>

(* ProductionMaterializer::materialize writes the request.  One bound to a  *)
(* workspace waits in workspaceBindingPending for its binding; an error or  *)
(* a denial by the graph the trigger belongs to writes nothing.             *)
Materialize ==
    /\ At("create")
    /\ \/ /\ req' = Append(req, [key |-> driver.key, goal |-> driver.goal, late |-> 0,
                                 st |-> IF kind.workspace THEN "binding" ELSE "pending"])
          /\ IF kind.workspace THEN GoTo("bind") /\ UNCHANGED writes ELSE Finish("fired")
          /\ Holds
       \/ /\ \E result \in {"errored", "skipped"} : Finish(result)
          /\ Fails /\ UNCHANGED req
    /\ UNCHANGED <<nextRun, src, fires, conf, crashes>>

(* The rest of materialize for a bound request: the binding, and only then  *)
(* the activation.  A goal fire whose binding fails is found again by its   *)
(* identity and reported as fired.                                          *)
MaterializeBinding ==
    /\ At("bind")
    /\ \/ /\ req' = [req EXCEPT ![Len(req)].st = "pending"]
          /\ Finish("fired") /\ Holds
       \/ Fails /\ UNCHANGED req /\ Finish(IF driver.goal THEN "fired" ELSE "errored")
    /\ UNCHANGED <<nextRun, src, fires, conf, crashes>>

-----------------------------------------------------------------------------
(* The executor claims a request of this trigger, and ends it. *)
Claim(r) ==
    /\ Up /\ req[r].st = "pending" /\ req' = [req EXCEPT ![r].st = "claimed"]
    /\ UNCHANGED <<nextRun, writes, src, driver, fires, conf, faults, crashes>>
End(r) ==
    /\ Up /\ req[r].st \in {"pending", "claimed"} /\ req' = [req EXCEPT ![r].st = "done"]
    /\ UNCHANGED <<nextRun, writes, src, driver, fires, conf, faults, crashes>>

(* The clock passes the deadline of a claimed request, where the attempt is *)
(* aborted, and then EXPIRED_CLAIM_GRACE_SECS.                              *)
Ages(r) ==
    /\ req[r].st = "claimed" /\ req[r].late < 2 /\ req' = [req EXCEPT ![r].late = @ + 1]
    /\ UNCHANGED <<nextRun, writes, src, driver, fires, conf, faults, crashes>>

(* The operator enables or disables the trigger, or edits its task, and the *)
(* runtime publishes a new snapshot.                                        *)
Publish ==
    /\ edits < MaxEdits /\ edits' = edits + 1
    /\ \/ active' = ~active /\ UNCHANGED declared
       \/ declared' = ~declared /\ UNCHANGED active
    /\ UNCHANGED <<kind, store, writes, src, driver, fires, faults, crashes>>

Crash ==
    /\ Up /\ crashes < MaxCrashes /\ crashes' = crashes + 1
    /\ driver' = [Idle EXCEPT !.at = "down"] /\ writes' = {} /\ queued' = <<>>
    /\ UNCHANGED <<store, now, arrived, fires, conf, faults>>

(* Startup: recovery ends the claims of the process that died; then         *)
(* recover_workspace_binding_pending_requests binds and activates what is   *)
(* still waiting, each row that can be bound; then the sources start.       *)
Restart ==
    /\ At("down") /\ driver' = Idle
    /\ \E B \in SUBSET {r \in Rows : req[r].st = "binding"} :
          req' = [r \in Rows |->
                    IF req[r].st = "claimed" THEN [req[r] EXCEPT !.st = "done"]
                    ELSE IF r \in B THEN [req[r] EXCEPT !.st = "pending"] ELSE req[r]]
    /\ UNCHANGED <<nextRun, writes, src, fires, conf, faults, crashes>>

-----------------------------------------------------------------------------
Dispatch == \/ RecoverGoalTaskFire \/ CheckSnapshot \/ GateSerial \/ SupersedePending
            \/ RevokeClaims \/ Materialize \/ MaterializeBinding

Next ==
    \/ ScheduleFires \/ Tick \/ DocumentArrives \/ EventFires
    \/ \E w \in writes : WriteLands(w)
    \/ Dispatch
    \/ \E r \in Rows : Claim(r) \/ End(r) \/ Ages(r)
    \/ Publish \/ Crash \/ Restart

Spec == Init /\ [][Next]_vars

-----------------------------------------------------------------------------
(* A serial trigger has at most one request that is waiting or within its   *)
(* deadline and grace (dispatch's Serial gate).                             *)
SerialOne ==
    kind.mode = "serial" =>
        Cardinality({r \in Rows : req[r].st = "pending"
                                  \/ (req[r].st = "claimed" /\ req[r].late < 2)}) <= 1

(* A latest-only trigger has at most one request waiting or running: every  *)
(* earlier one is ended before the next exists, whichever way the executor  *)
(* raced the supersession.                                                  *)
LatestOnlyOne ==
    kind.mode = "latestOnly" =>
        Cardinality({r \in Rows : req[r].st \in {"pending", "claimed"}}) <= 1

(* A fire that created a goal-backed request creates no second request,     *)
(* however often its slot is dispatched again because the checkpoint was    *)
(* late, failed or was cut off, and whatever became of the declaration.     *)
GoalFireOnce ==
    \A i, j \in Rows : i < j /\ req[i].goal => req[i].key # req[j].key

(* next_run_at never moves back: a slot that is past is not due again.      *)
NextRunMonotone == [][nextRun' >= nextRun]_vars
=============================================================================
