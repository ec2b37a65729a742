-------------------------- MODULE RequestExecution --------------------------
(***************************************************************************)
(* The execution of ONE AgentRequest document: how it is claimed, run      *)
(* under a renewable execution lease, and terminalized together with its   *)
(* AgentResponse document.                                                 *)
(*                                                                         *)
(* The parties are                                                         *)
(*   - Owners: RequestLifecycle values, one per dispatch of the request to *)
(*     an executor worker (agent/daemon.rs).  Two of them exist when the   *)
(*     watcher hands the same pending request out twice;                   *)
(*   - Sweepers: callers of terminalize_execution that are not the owner:  *)
(*     the recovery sweep (lifecycle/recovery.rs) and the revokers         *)
(*     (LatestOnly triggers, child deadlines);                             *)
(*   - writers that terminalize a request that is still pending.           *)
(* Every durable write is one DefraDB transaction: an atomic step.  Reads  *)
(* that precede a transaction are steps of their own.  A commit can be     *)
(* ambiguous: applied, yet reported to its caller as a storage error.      *)
(*                                                                         *)
(* Time is counted in ticks, TicksPerMs to the millisecond, because the    *)
(* owner's authority is decided on truncated milliseconds and the          *)
(* recovery's on full-precision timestamps.                                *)
(***************************************************************************)
EXTENDS Integers

CONSTANTS
    Owners,       \* RequestLifecycle values
    Sweepers,     \* recovery sweeps and revokers
    NoGen,        \* execution_generation is null
    NoTtl,        \* valid_until is null
    MalformedTtl, \* valid_until does not parse
    Ttls,         \* the values of valid_until considered
    TicksPerMs,   \* clock ticks in one millisecond
    Lease,        \* execution_lease_duration_secs, in ticks
    MaxRetries,   \* TERMINAL_PERSISTENCE_MAX_RETRIES
    MaxTokens,    \* bound: size of the streamed tail
    MaxTime       \* bound: the last tick of the clock

ASSUME TimeAssumption ==
    /\ TicksPerMs \in Nat \ {0}
    /\ Lease \in Nat \ {0}
    /\ MaxTime \in Nat
    /\ MaxRetries \in Nat
    /\ MaxTokens \in Nat

ASSUME PartiesAssumption ==
    /\ Owners \cap Sweepers = {}
    /\ NoGen \notin Owners \cup Sweepers
    /\ Ttls \subseteq Int \cup {NoTtl, MalformedTtl}

VARIABLES
    now,        \* the wall clock
    req,        \* the AgentRequest row
    resp,       \* the AgentResponse row; status "none" when it does not exist
    lstate,     \* per owner: LocalLifecycleState, "New" before, "Gone" after
    op,         \* per owner: the durable operation in progress
    tries,      \* per owner: failed attempts of that operation
    goal,       \* per owner: the outcome terminalize_owned was asked for
    due,        \* per owner: the lease deadline computed before its claim
    buf,        \* per owner: size of StreamBuffer.content
    saved,      \* per owner: size of StreamBuffer.persisted
    relinquish, \* owners whose Drop spawned the lease-expiring update
    scan,       \* per sweeper: the observation it is about to act on
    winners     \* parties that were told TerminalizeResult::Won

durable == <<req, resp>>
buffers == <<buf, saved>>
local == <<lstate, op, tries, goal, due, buf, saved, relinquish>>
vars == <<now, req, resp, lstate, op, tries, goal, due, buf, saved,
          relinquish, scan, winners>>

-----------------------------------------------------------------------------
(* States and outcomes *)

Active == {"Claimed", "Processing"}
Terminal == {"Completed", "Failed", "Interrupted", "Dead", "Superseded"}
RequestState == {"Pending"} \cup Active \cup Terminal
ResponseStatus == {"none", "streaming", "complete", "error"}

LocalState == {"New", "Pending", "Claimed", "Streaming", "Completed",
               "Failed", "Interrupted", "Dead", "Gone"}
Op == {"idle", "interruptPending", "expirePending", "claim", "reject",
       "begin", "flush", "advance", "reset", "broken", "workspace",
       "finalFlush", "final"}

(* "Unflushed" is Completed turned into Failed by a failed final flush:    *)
(* the caller gets an error even when the terminal write wins.             *)
Goal == {"Undecided", "Completed", "Failed", "Interrupted", "Unflushed"}

(* Mutant: the downgrade of an unflushed completion is forgotten. *)
OutcomeNotDowngraded(g) == g

Outcome(g) == IF g = "Unflushed" THEN "Failed" ELSE g

StatusOf(outcome) == IF outcome = "Completed" THEN "complete" ELSE "error"

(* A failure of a request whose interrupt was latched is an interrupt. *)
EffectiveOutcome(outcome) ==
    IF outcome = "Failed" /\ req.interrupt THEN "Interrupted" ELSE outcome

Millis(t) == t \div TicksPerMs

NewDeadline ==
    IF now + Lease >= req.expiry + TicksPerMs
    THEN now + Lease
    ELSE req.expiry + TicksPerMs

(* Model bound: a lease that ends before the last tick can still expire. *)
WithinHorizon(deadline) == deadline < MaxTime

-----------------------------------------------------------------------------
(* lifecycle/execution_policy.rs *)

ClaimedPair == req.state = "Claimed" /\ resp.status = "none"
ProcessingPair == req.state = "Processing" /\ resp.status = "streaming"

LiveGeneration(o) == req.gen = o /\ Millis(req.expiry) >= Millis(now)

AuthorizeLive(o, operation) ==
    /\ LiveGeneration(o)
    /\ \/ operation = "Begin" /\ ClaimedPair
       \/ operation = "Progress" /\ ProcessingPair
            /\ Millis(req.expiry) < Millis(NewDeadline)
       \/ operation = "Observe" /\ ProcessingPair
       \/ operation = "Finalize" /\ (ProcessingPair \/ ClaimedPair)
       \/ operation = "FinalizeCompleted" /\ ProcessingPair

(* Mutant: recovery trusts the lease it read instead of the stored one. *)
AuthorizeRecoveryFromRead(obs) ==
    req.gen = obs.gen /\ obs.expiry < now /\ req.state \in Active

(* Mutant: recovery only ends a request that has a streaming response. *)
AuthorizeRecoveryOfStreams(obs) ==
    /\ req.gen = obs.gen /\ req.expiry = obs.expiry /\ req.seq = obs.seq
    /\ req.expiry < now /\ ProcessingPair

AuthorizeRecovery(obs) ==
    /\ req.gen = obs.gen
    /\ req.expiry = obs.expiry
    /\ req.seq = obs.seq
    /\ req.expiry < now
    /\ req.state \in Active

AuthorizeRevocation(obs) ==
    /\ ClaimedPair \/ ProcessingPair
    /\ req.gen = obs.gen
    /\ Millis(req.expiry) = Millis(obs.expiry)
    /\ req.seq = obs.seq
    /\ EffectiveOutcome(obs.outcome) \in {"Dead", "Superseded"}

-----------------------------------------------------------------------------
ResponseCompatible(outcome) ==
    resp.status \in {"none", "streaming", StatusOf(outcome)}

(* Mutant: the terminal row keeps the generation it was taken from. *)
TerminalWriteKeepsGeneration(outcome, gen) ==
    /\ req' = [req EXCEPT !.state = outcome, !.expiry = now]
    /\ resp' = [resp EXCEPT !.status = StatusOf(outcome),
                            !.interrupted = IF outcome = "Interrupted" THEN TRUE ELSE @]

(* The terminal write shared by every authority (terminalize_execution):   *)
(* request and response change in one transaction, and gen is the          *)
(* generation the terminal row carries.                                    *)
TerminalWrite(outcome, gen) ==
    /\ req' = [req EXCEPT !.state = outcome, !.gen = gen, !.expiry = now]
    /\ resp' = [resp EXCEPT !.status = StatusOf(outcome),
                            !.interrupted = IF outcome = "Interrupted" THEN TRUE ELSE @]

(* A writer that terminalizes a request nobody has claimed creates no      *)
(* response.                                                               *)
PendingWrite(outcome) ==
    /\ req.state = "Pending"
    /\ req' = [req EXCEPT !.state = outcome]
    /\ UNCHANGED resp

-----------------------------------------------------------------------------
(* What a RequestLifecycle does between its durable writes *)

Become(o, s) == lstate' = [lstate EXCEPT ![o] = s]

SetOp(o, p) ==
    /\ op' = [op EXCEPT ![o] = p]
    /\ tries' = [tries EXCEPT ![o] = 0]

Aim(o, g) == goal' = [goal EXCEPT ![o] = g]

HoldsLease(o) == lstate[o] \in {"Claimed", "Streaming"}

(* The value is dropped.  Drop spawns the update that expires the lease,   *)
(* unless no lease is held or the local state is already terminal.         *)
Depart(o) ==
    /\ Become(o, "Gone")
    /\ SetOp(o, "idle")
    /\ relinquish' = IF HoldsLease(o) THEN relinquish \cup {o} ELSE relinquish
    /\ Aim(o, "Undecided")
    /\ due' = [due EXCEPT ![o] = 0]
    /\ UNCHANGED buffers

Again(o) ==
    /\ tries[o] < MaxRetries
    /\ tries' = [tries EXCEPT ![o] = @ + 1]
    /\ UNCHANGED <<lstate, op, goal, due, buf, saved, relinquish>>

GiveUp(o) == tries[o] = MaxRetries /\ Depart(o)

(* Mutant: the terminal write is not preceded by a flush. *)
StartTerminalizeUnflushed(o, g) ==
    /\ Aim(o, g)
    /\ SetOp(o, "final")
    /\ UNCHANGED <<lstate, due, buf, saved, relinquish>>

(* terminalize_owned flushes a dirty tail before the terminal write. *)
StartTerminalize(o, g) ==
    /\ Aim(o, g)
    /\ SetOp(o, IF lstate[o] = "Streaming" /\ buf[o] # saved[o]
                THEN "finalFlush" ELSE "final")
    /\ UNCHANGED <<lstate, due, buf, saved, relinquish>>

-----------------------------------------------------------------------------
(* Claiming *)

TtlExpired == req.validUntil \in Int /\ now > req.validUntil

Enter(o, p) ==
    /\ Become(o, "Pending")
    /\ SetOp(o, p)
    /\ UNCHANGED <<goal, buf, saved, relinquish>>

(* The reads of claim_inner, and the router's rejection of a request no    *)
(* behavior serves.  A claim's lease deadline is computed here, before its *)
(* transaction.                                                            *)
ReadBeforeClaim(o) ==
    /\ lstate[o] = "New"
    /\ \/ /\ req.interrupt
          /\ Enter(o, "interruptPending") /\ UNCHANGED due
       \/ /\ ~req.interrupt /\ TtlExpired
          /\ Enter(o, "expirePending") /\ UNCHANGED due
       \/ /\ ~req.interrupt /\ ~TtlExpired /\ req.validUntil # MalformedTtl
          /\ WithinHorizon(now + Lease)
          /\ Enter(o, "claim")
          /\ due' = [due EXCEPT ![o] = now + Lease]
       \/ Enter(o, "reject") /\ UNCHANGED due
       \/ Depart(o)  \* queued behind another request, or an error
    /\ UNCHANGED <<now, req, resp, scan, winners>>

(* Mutant: the claim does not filter on the pending state. *)
ClaimWriteUnfiltered(o) ==
    /\ req' = [req EXCEPT !.state = "Claimed", !.gen = o,
                          !.expiry = due[o], !.seq = 0]
    /\ UNCHANGED resp

ClaimWrite(o) ==
    /\ req.state = "Pending"
    /\ req' = [req EXCEPT !.state = "Claimed", !.gen = o,
                          !.expiry = due[o], !.seq = 0]
    /\ UNCHANGED resp

(* The claim transaction is not retried on an ambiguous error: its owner   *)
(* leaves without having learnt that it holds the lease.                   *)
Claim(o) ==
    /\ op[o] = "claim"
    /\ \/ /\ ClaimWrite(o)
          /\ \/ /\ Become(o, "Claimed") /\ SetOp(o, "idle")
                /\ due' = [due EXCEPT ![o] = 0]
                /\ UNCHANGED <<goal, buf, saved, relinquish>>
             \/ Depart(o)
       \/ /\ UNCHANGED durable
          /\ Depart(o)
       \/ /\ req.state = "Pending"  \* the session projection is refused
          /\ UNCHANGED durable
          /\ SetOp(o, "reject")
          /\ due' = [due EXCEPT ![o] = 0]
          /\ UNCHANGED <<lstate, goal, buf, saved, relinquish>>
    /\ UNCHANGED <<now, scan, winners>>

PendingTarget(p) ==
    CASE p = "interruptPending" -> "Interrupted"
      [] p = "expirePending" -> "Dead"
      [] p = "reject" -> "Failed"

(* Of the writers of pending rows, only reject_admission creates a         *)
(* response.                                                               *)
RejectWrite ==
    /\ req.state = "Pending"
    /\ req' = [req EXCEPT !.state = "Failed"]
    /\ resp' = [resp EXCEPT !.status = "error"]

PendingOwnerWrite(o) ==
    IF op[o] = "reject" THEN RejectWrite ELSE PendingWrite(PendingTarget(op[o]))

(* Mutant: any terminal row satisfies a pending transition. *)
AlreadyThereIfTerminal(o) == req.state \in Terminal

AlreadyThere(o) == req.state = PendingTarget(op[o])

EndPending(o, s) ==
    /\ Become(o, s)
    /\ SetOp(o, "idle")
    /\ UNCHANGED <<goal, due, buf, saved, relinquish>>

(* transition_pending_to_interrupted, transition_pending_to_dead_stale and *)
(* reject_admission: retried, and satisfied by a row already in the state  *)
(* they want.                                                              *)
TerminalizePending(o) ==
    /\ op[o] \in {"interruptPending", "expirePending", "reject"}
    /\ \/ /\ PendingOwnerWrite(o)
          /\ EndPending(o, PendingTarget(op[o])) \/ Again(o) \/ GiveUp(o)
       \/ /\ UNCHANGED durable
          /\ \/ Again(o) \/ GiveUp(o)
             \/ /\ req.state # "Pending"
                /\ IF AlreadyThere(o)
                   THEN EndPending(o, PendingTarget(op[o]))
                   ELSE Depart(o)
    /\ UNCHANGED <<now, scan, winners>>

-----------------------------------------------------------------------------
(* Executing: durable response writes under the execution fence *)

FenceOf(p) ==
    CASE p = "begin" -> "Begin"
      [] p \in {"flush", "finalFlush", "advance"} -> "Progress"
      [] p = "reset" -> "Observe"

(* Mutant: progress is counted but the lease is not extended. *)
RenewedWithoutDeadline == [req EXCEPT !.seq = @ + 1]

Renewed == [req EXCEPT !.expiry = NewDeadline, !.seq = @ + 1]

ResponseWrite(o) ==
    /\ AuthorizeLive(o, FenceOf(op[o]))
    /\ \/ /\ op[o] = "begin"
          /\ req' = [req EXCEPT !.state = "Processing"]
          /\ resp' = [resp EXCEPT !.status = "streaming", !.content = 0]
       \/ /\ op[o] \in {"flush", "finalFlush"}
          /\ WithinHorizon(NewDeadline)
          /\ req' = Renewed
          /\ resp' = [resp EXCEPT !.content = buf[o]]
       \/ /\ op[o] = "advance"
          /\ WithinHorizon(NewDeadline)
          /\ req' = Renewed
          /\ UNCHANGED resp
       \/ /\ op[o] = "reset"
          /\ req' = req
          /\ resp' = [resp EXCEPT !.content = 0]

(* What the owner does once a response write is acknowledged. *)
Acknowledged(o) ==
    /\ SetOp(o, CASE op[o] = "finalFlush" -> "final"
                  [] op[o] = "begin" /\ goal[o] = "Completed" -> "workspace"
                  [] OTHER -> "idle")
    /\ lstate' = [lstate EXCEPT ![o] = IF op[o] = "begin" THEN "Streaming" ELSE @]
    /\ buf' = [buf EXCEPT ![o] = IF op[o] = "reset" THEN 0 ELSE @]
    /\ saved' = [saved EXCEPT ![o] = CASE op[o] \in {"flush", "finalFlush"} -> buf[o]
                                       [] op[o] = "reset" -> 0
                                       [] OTHER -> @]
    /\ UNCHANGED <<goal, due, relinquish>>

(* What it does once its retries are spent: a failed begin fails the       *)
(* request, a failed final flush turns Completed into Failed, any other    *)
(* failure ends the inference.                                             *)
Exhausted(o) ==
    /\ tries[o] = MaxRetries
    /\ SetOp(o, IF op[o] \in {"begin", "finalFlush"} THEN "final" ELSE "broken")
    /\ Aim(o, CASE op[o] = "begin" -> "Failed"
                [] op[o] = "finalFlush" /\ goal[o] = "Completed" -> "Unflushed"
                [] OTHER -> goal[o])
    /\ UNCHANGED <<lstate, due, buf, saved, relinquish>>

(* execute_response_write retries every error, a refused authorization     *)
(* included.                                                               *)
WriteResponse(o) ==
    /\ op[o] \in {"begin", "flush", "advance", "reset", "finalFlush"}
    /\ \/ ResponseWrite(o) /\ (Acknowledged(o) \/ Again(o) \/ Exhausted(o))
       \/ UNCHANGED durable /\ (Again(o) \/ Exhausted(o))
    /\ UNCHANGED <<now, scan, winners>>

(* A claimed request either fails before its response exists or begins;    *)
(* the workspace path of an already sealed writer begins only to complete. *)
BeginExecution(o) ==
    /\ lstate[o] = "Claimed" /\ op[o] = "idle"
    /\ \/ StartTerminalize(o, "Failed")
       \/ /\ resp.status = "none"
          /\ \E g \in {"Undecided", "Completed"} : Aim(o, g)
          /\ SetOp(o, "begin")
          /\ UNCHANGED <<lstate, due, buf, saved, relinquish>>
    /\ UNCHANGED <<now, req, resp, scan, winners>>

(* write_tokens: the tail grows, and is flushed at once when the batch     *)
(* interval has passed or the text is the first visible one.               *)
WriteTokens(o) ==
    /\ lstate[o] = "Streaming" /\ op[o] = "idle"
    /\ buf[o] < MaxTokens
    /\ buf' = [buf EXCEPT ![o] = @ + 1]
    /\ \E p \in {"idle", "flush"} : SetOp(o, p)
    /\ UNCHANGED <<now, req, resp, lstate, goal, due, saved, relinquish, scan,
                   winners>>

(* The other durable writes of the stream processor.  A clean tail is      *)
(* neither flushed nor reset.                                              *)
ProcessStreamItem(o) ==
    /\ lstate[o] = "Streaming" /\ op[o] = "idle"
    /\ \/ buf[o] # saved[o] /\ SetOp(o, "flush")
       \/ SetOp(o, "advance")
       \/ (buf[o] # 0 \/ saved[o] # 0) /\ SetOp(o, "reset")
    /\ UNCHANGED <<now, req, resp, lstate, goal, due, buf, saved, relinquish,
                   scan, winners>>

(* validate_owned_execution takes the response to be streaming. *)
ValidateOwned(o) == LiveGeneration(o) /\ req.state = "Processing"

(* The inference ended.  A latched interrupt decides the outcome, unless   *)
(* reading it fails; a completion needs a clean end and a live lease.      *)
ConcludeInference(o) ==
    /\ lstate[o] = "Streaming" /\ op[o] \in {"idle", "broken"}
    /\ \/ req.interrupt /\ StartTerminalize(o, "Interrupted")
       \/ StartTerminalize(o, "Failed")
       \/ /\ op[o] = "idle" /\ ~req.interrupt
          /\ SetOp(o, "workspace")
          /\ Aim(o, "Completed")
          /\ UNCHANGED <<lstate, due, buf, saved, relinquish>>
    /\ UNCHANGED <<now, req, resp, scan, winners>>

(* Seal and integrate the workspace of a completed request: both validate  *)
(* the lease first, and either may fail.                                   *)
FinishWorkspace(o) ==
    /\ op[o] = "workspace"
    /\ \/ ValidateOwned(o) /\ \E g \in {"Completed", "Failed"} :
              StartTerminalize(o, g)
       \/ ~ValidateOwned(o) /\ Depart(o)
    /\ UNCHANGED <<now, req, resp, scan, winners>>

-----------------------------------------------------------------------------
(* terminalize_execution with the owner's authority *)

OwnerOutcome(o) == EffectiveOutcome(Outcome(goal[o]))

FinalFence(outcome) ==
    IF outcome = "Completed" THEN "FinalizeCompleted" ELSE "Finalize"

OwnerMayFinalize(o) ==
    /\ req.state \notin Terminal
    /\ AuthorizeLive(o, FinalFence(OwnerOutcome(o)))
    /\ ResponseCompatible(OwnerOutcome(o))

AlreadySame(o) ==
    /\ req.state \in Terminal
    /\ req.gen = o
    /\ req.state = OwnerOutcome(o)
    /\ resp.status = StatusOf(OwnerOutcome(o))

(* The local state follows the outcome that was asked for. *)
Settle(o) ==
    /\ Become(o, Outcome(goal[o]))
    /\ SetOp(o, "idle")
    /\ Aim(o, "Undecided")
    /\ UNCHANGED <<due, buf, saved, relinquish>>

(* Follow-up effects are authorized by Won alone, and a completion that    *)
(* was not flushed is reported as an error.                                *)
FinalizeOwned(o) ==
    /\ op[o] = "final"
    /\ \/ /\ OwnerMayFinalize(o)
          /\ TerminalWrite(OwnerOutcome(o), o)
          /\ \/ /\ Settle(o)
                /\ winners' = IF goal[o] = "Unflushed" THEN winners
                              ELSE winners \cup {o}
             \/ (Again(o) \/ GiveUp(o)) /\ UNCHANGED winners
       \/ /\ UNCHANGED durable /\ UNCHANGED winners
          /\ \/ AlreadySame(o) /\ Settle(o)
             \/ ~AlreadySame(o) /\ ~OwnerMayFinalize(o) /\ Depart(o)
             \/ Again(o) \/ GiveUp(o)
    /\ UNCHANGED <<now, scan>>

(* A panic or an abort drops the lifecycle wherever it is. *)
Abort(o) ==
    /\ lstate[o] \in {"Pending", "Claimed", "Streaming"}
    /\ Depart(o)
    /\ UNCHANGED <<now, req, resp, scan, winners>>

RelinquishMatches(o) == req.gen = o /\ req.state \in Active

RelinquishWrite(o) ==
    /\ RelinquishMatches(o)
    /\ req' = [req EXCEPT !.expiry = now - TicksPerMs]
    /\ UNCHANGED resp

Relinquish(o) ==
    /\ o \in relinquish
    /\ relinquish' = relinquish \ {o}
    /\ \/ RelinquishWrite(o)
       \/ UNCHANGED durable  \* no match, or the best-effort update failed
    /\ UNCHANGED <<now, lstate, op, tries, goal, due, buf, saved, scan,
                   winners>>

-----------------------------------------------------------------------------
(* Recovery and revocation *)

NoScan == [phase |-> "none", kind |-> "recovery", gen |-> NoGen, expiry |-> 0,
           seq |-> 0, interrupt |-> FALSE, outcome |-> "Failed", tries |-> 0]

SetScan(s, obs) == scan' = [scan EXCEPT ![s] = obs]

Observed(phase, kind, outcome) ==
    [phase |-> phase, kind |-> kind, gen |-> req.gen, expiry |-> req.expiry,
     seq |-> req.seq, interrupt |-> req.interrupt, outcome |-> outcome,
     tries |-> 0]

LeaseLapsed == req.state \in Active /\ req.expiry <= now

(* recover_active_requests reads the active rows, then the clock. *)
RecoveryScan(s) ==
    /\ scan[s].phase = "none"
    /\ LeaseLapsed
    /\ SetScan(s, Observed("row", "recovery", "Failed"))
    /\ UNCHANGED <<now, req, resp, local, winners>>

RecoveryOutcome(interrupt) ==
    CASE resp.status = "complete" -> "Completed"
      [] resp.status = "error" ->
            IF resp.interrupted THEN "Interrupted" ELSE "Failed"
      [] OTHER -> IF interrupt THEN "Interrupted" ELSE "Failed"

(* The response is loaded by a later query than its request row. *)
RecoveryLoadResponse(s) ==
    /\ scan[s].phase = "row"
    /\ SetScan(s, [scan[s] EXCEPT !.phase = "ready",
                       !.outcome = RecoveryOutcome(scan[s].interrupt)])
    /\ UNCHANGED <<now, req, resp, local, winners>>

(* LatestOnly triggers and child deadlines observe an active row to revoke *)
(* it, whether or not its lease is live.                                   *)
RevocationScan(s) ==
    /\ scan[s].phase = "none"
    /\ req.state \in Active
    /\ \E outcome \in {"Dead", "Superseded"} :
          SetScan(s, Observed("ready", "revocation", outcome))
    /\ UNCHANGED <<now, req, resp, local, winners>>

SweepMayFinalize(s) ==
    /\ req.state \notin Terminal
    /\ \/ scan[s].kind = "recovery" /\ AuthorizeRecovery(scan[s])
       \/ scan[s].kind = "revocation" /\ AuthorizeRevocation(scan[s])
    /\ ResponseCompatible(EffectiveOutcome(scan[s].outcome))

SweepRetry(s) ==
    SetScan(s, IF scan[s].tries < MaxRetries
               THEN [scan[s] EXCEPT !.tries = @ + 1] ELSE NoScan)

SweepWrite(s) ==
    /\ scan[s].phase = "ready"
    /\ SweepMayFinalize(s)
    /\ TerminalWrite(EffectiveOutcome(scan[s].outcome), s)

(* The terminal row carries a fresh generation, named by its sweeper. *)
SweepWins(s) ==
    /\ SweepWrite(s)
    /\ SetScan(s, NoScan)
    /\ winners' = winners \cup {s}
    /\ UNCHANGED <<now, local>>

(* The commit is ambiguous, the storage fails, or the row has moved on. *)
SweepFails(s) ==
    /\ scan[s].phase = "ready"
    /\ \/ SweepWrite(s) /\ SweepRetry(s)
       \/ UNCHANGED durable /\ SweepRetry(s)
       \/ ~SweepMayFinalize(s) /\ UNCHANGED durable /\ SetScan(s, NoScan)
    /\ UNCHANGED <<now, local, winners>>

-----------------------------------------------------------------------------
(* The rest of the runtime *)

(* interrupt_request latches the interrupt without looking at the state;   *)
(* nothing ever clears the latch.                                          *)
LatchInterrupt ==
    /\ ~req.interrupt
    /\ req' = [req EXCEPT !.interrupt = TRUE]
    /\ UNCHANGED <<now, resp, local, scan, winners>>

(* Writers of pending rows: admission denial (Failed), queue drains        *)
(* (Interrupted), coalescing and LatestOnly (Superseded), child deadlines  *)
(* (Dead).                                                                 *)
WithdrawPending ==
    /\ \E outcome \in {"Failed", "Interrupted", "Superseded", "Dead"} :
          PendingWrite(outcome)
    /\ UNCHANGED <<now, local, scan, winners>>

(* The process dies: its lifecycles, sweeps and spawned updates are lost.  *)
Crash ==
    /\ lstate' = [o \in Owners |->
                     IF lstate[o] \in {"Pending", "Claimed", "Streaming"}
                     THEN "Gone" ELSE lstate[o]]
    /\ op' = [o \in Owners |-> "idle"]
    /\ tries' = [o \in Owners |-> 0]
    /\ goal' = [o \in Owners |-> "Undecided"]
    /\ due' = [o \in Owners |-> 0]
    /\ relinquish' = {}
    /\ scan' = [s \in Sweepers |-> NoScan]
    /\ UNCHANGED <<now, req, resp, buf, saved, winners>>

Tick ==
    /\ now < MaxTime
    /\ now' = now + 1
    /\ UNCHANGED <<req, resp, local, scan, winners>>

-----------------------------------------------------------------------------
Init ==
    /\ now = 0
    /\ \E ttl \in Ttls :
          req = [state |-> "Pending", gen |-> NoGen, expiry |-> 0, seq |-> 0,
                 interrupt |-> FALSE, validUntil |-> ttl]
    /\ resp = [status |-> "none", content |-> 0, interrupted |-> FALSE]
    /\ lstate = [o \in Owners |-> "New"]
    /\ op = [o \in Owners |-> "idle"]
    /\ tries = [o \in Owners |-> 0]
    /\ goal = [o \in Owners |-> "Undecided"]
    /\ due = [o \in Owners |-> 0]
    /\ buf = [o \in Owners |-> 0]
    /\ saved = [o \in Owners |-> 0]
    /\ relinquish = {}
    /\ scan = [s \in Sweepers |-> NoScan]
    /\ winners = {}

OwnerNext(o) ==
    \/ ReadBeforeClaim(o) \/ Claim(o) \/ TerminalizePending(o)
    \/ BeginExecution(o) \/ WriteTokens(o) \/ ProcessStreamItem(o)
    \/ WriteResponse(o) \/ ConcludeInference(o) \/ FinishWorkspace(o)
    \/ FinalizeOwned(o) \/ Abort(o) \/ Relinquish(o)

SweeperNext(s) ==
    \/ RecoveryScan(s) \/ RecoveryLoadResponse(s) \/ RevocationScan(s)
    \/ SweepWins(s) \/ SweepFails(s)

Next ==
    \/ \E o \in Owners : OwnerNext(o)
    \/ \E s \in Sweepers : SweeperNext(s)
    \/ LatchInterrupt \/ WithdrawPending \/ Crash \/ Tick

Spec == Init /\ [][Next]_vars

(* The clock runs and the recovery sweep is scheduled for ever.  A storage *)
(* error is transient: an attempt that stays possible again and again      *)
(* commits in the end.  The process does not crash for ever.               *)
Fairness ==
    /\ <>[][~Crash]_vars
    /\ WF_now(Tick)
    /\ \A s \in Sweepers :
          /\ WF_vars(RecoveryScan(s))
          /\ WF_vars(RecoveryLoadResponse(s))
          /\ WF_vars(SweepFails(s))
          /\ SF_vars(SweepWins(s))

FairSpec == Spec /\ Fairness

-----------------------------------------------------------------------------
(* Properties *)

Times == Int
Generations == Owners \cup Sweepers \cup {NoGen}

Requests == [state: RequestState, gen: Generations, expiry: Times, seq: Nat,
             interrupt: BOOLEAN, validUntil: Ttls]
Responses == [status: ResponseStatus, content: Nat, interrupted: BOOLEAN]
Scans == [phase: {"none", "row", "ready"}, kind: {"recovery", "revocation"},
          gen: Generations, expiry: Times, seq: Nat, interrupt: BOOLEAN,
          outcome: Terminal, tries: Nat]

(* Every variable has the type the code gives it. *)
TypeOK ==
    /\ now \in Nat
    /\ req \in Requests
    /\ resp \in Responses
    /\ lstate \in [Owners -> LocalState]
    /\ op \in [Owners -> Op]
    /\ tries \in [Owners -> Nat]
    /\ goal \in [Owners -> Goal]
    /\ due \in [Owners -> Times]
    /\ buf \in [Owners -> Nat]
    /\ saved \in [Owners -> Nat]
    /\ relinquish \subseteq Owners
    /\ scan \in [Sweepers -> Scans]
    /\ winners \subseteq Owners \cup Sweepers

(* Request and response never disagree, whatever crashes, retries and      *)
(* sweeps interleave: no response before execution begins, a streaming one *)
(* exactly while it runs, and a terminal one from the transaction that     *)
(* ended a claimed request.  A request withdrawn before any claim may have *)
(* no response, and then carries no generation (terminalize_execution,     *)
(* begin_owned_execution, reject_admission).                               *)
PairCoherent ==
    /\ req.state \in {"Pending", "Claimed"} => resp.status = "none"
    /\ req.state = "Processing" <=> resp.status = "streaming"
    /\ req.state = "Completed" <=> resp.status = "complete"
    /\ req.state \in Terminal \ {"Completed"} =>
          \/ resp.status = "error"
          \/ resp.status = "none" /\ req.gen = NoGen
    /\ req.state = "Pending" => req.gen = NoGen
    /\ req.state \in Active => req.gen \in Owners

(* A completed response holds everything its owner streamed into the live  *)
(* tail: no write that was lost, retried or only half acknowledged leaves  *)
(* a completed request with a stale preview (terminalize_owned's final     *)
(* flush).                                                                 *)
CompletedTailIsDurable ==
    req.state = "Completed" => req.gen \in Owners /\ resp.content = buf[req.gen]

(* Follow-up effects (releasing the writer binding, draining wake-ups,     *)
(* counting a recovery) are authorized at most once, and only for the      *)
(* party whose generation the terminal row carries (terminalize_request).  *)
OneWinner ==
    \A w \in winners : req.state \in Terminal /\ req.gen = w

(* What a lifecycle believes when it stops is what is stored: a local      *)
(* Completed or Failed is a durable one, except that a failure may have    *)
(* been recorded as an interrupt.                                          *)
LocalOutcomeIsDurable ==
    \A o \in Owners :
       /\ lstate[o] = "Completed" => req.state = "Completed" /\ req.gen = o
       /\ lstate[o] = "Failed" => req.state \in {"Failed", "Interrupted"}
       /\ lstate[o] = "Interrupted" => req.state = "Interrupted"
       /\ lstate[o] = "Dead" => req.state = "Dead"

(* A terminal request is never reopened, re-decided or overwritten: late   *)
(* flushes, retried terminal writes, relinquished leases and sweeps that   *)
(* read the row before it ended leave it and its response as they are.     *)
TerminalIsFinal ==
    [][req.state \in Terminal =>
          /\ req' = [req EXCEPT !.interrupt = req'.interrupt]
          /\ resp' = resp]_vars

(* A recovery never takes a request from an owner that renewed its lease   *)
(* between the sweep's read and its write: an active request that ends     *)
(* Failed, Interrupted or Completed under a sweeper's generation had an    *)
(* expired lease at that instant.                                          *)
LiveLeaseIsNotRecovered ==
    [][(/\ req.state \in Active /\ req'.gen \in Sweepers
        /\ req'.state \in {"Completed", "Failed", "Interrupted"})
       => req.expiry < now]_vars

(* An interrupt latched on an active request is never lost to a failure:   *)
(* whoever ends the request as failed records Interrupted instead.         *)
InterruptOutranksFailure ==
    [][(req.state \in Active /\ req.interrupt) => req'.state # "Failed"]_vars

(* A lease moves forward under one owner, by at least a millisecond with   *)
(* each renewal, unless the owner itself gave it up; the progress counter  *)
(* never goes back.  Recovery's compare on expiry and progress rests on    *)
(* this: a renewed lease never looks like the observed one again.          *)
RenewalIsVisible ==
    [][(req.state \in Active /\ req'.state \in Active) =>
          /\ req'.gen = req.gen
          /\ req'.seq >= req.seq
          /\ req'.seq > req.seq => Millis(req'.expiry) > Millis(req.expiry)
          /\ req'.expiry < req.expiry => relinquish' # relinquish]_vars

(* A claimed request always reaches a terminal state, even when its owner  *)
(* crashes, hangs, or never learns that its claim succeeded: the lease     *)
(* expires and a sweep ends it (recover_active_requests).                  *)
ClaimedEventuallyEnds == req.state \in Active ~> req.state \in Terminal

Contract == INSTANCE RequestContract WITH
    Texts <- Nat, state <- req.state, reply <- resp.status,
    text <- resp.content, interrupted <- req.interrupt

(* The execution protocol implements what is promised of the two           *)
(* documents.                                                              *)
ImplementsContract == Contract!Spec

(* The same with the promise that an accepted request ends. *)
ImplementsFairContract == Contract!FairSpec

=============================================================================
