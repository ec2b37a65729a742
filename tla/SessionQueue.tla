---------------------------- MODULE SessionQueue ----------------------------
(***************************************************************************)
(* The request queue of one session: the watcher's scan of the pending     *)
(* rows with its cooldown, the claim of a request in its separate steps    *)
(* (signals, same-session check, claim transaction), interrupts and the    *)
(* drain of automated wake-ups that follows them.  A request is its        *)
(* position in the order (created_at, request_id).  What runs after the    *)
(* claim is RequestExecution; here it is one step.                         *)
(***************************************************************************)
EXTENDS Naturals, FiniteSets, FiniteSetsExt

CONSTANTS
    Requests,    \* positions of the session's requests in the queue order
    Wakes,       \* automated wake-ups among them
    Malformed,   \* requests whose valid_until does not parse
    Incoherent,  \* requests whose row does not convert to an AgentRequest
    Foreign,     \* requests of another agent in the same session
    Workers,
    Ordered,     \* TRUE: a request is created after all that exist
    MaxCrashes

ASSUME QueueAssumption ==
    /\ Requests \subseteq Nat
    /\ Wakes \cup Malformed \cup Incoherent \cup Foreign \subseteq Requests
    /\ Ordered \in BOOLEAN
    /\ MaxCrashes \in Nat

VARIABLES
    row,       \* per request: its lifecycle_state, coarsely
    latched,   \* requests with interrupt_requested_at
    stale,     \* requests whose valid_until has passed
    cooling,   \* the watcher's processed_request_ids
    worker,    \* per worker: where its claim stands
    drain,     \* wake-ups that running drains have read as pending
    crashes

vars == <<row, latched, stale, cooling, worker, drain, crashes>>

Own == Requests \ Foreign
Idle == [pc |-> "idle", req |-> 0]
At(pc, r) == [pc |-> pc, req |-> r]
Pending(r) == row[r] = "pending"
Active(r) == row[r] = "active"

(* preclaim_signal *)
Signal(r) == IF r \in latched \cup stale THEN "terminal"
             ELSE IF r \in Malformed THEN "malformed" ELSE "none"

(* claimable_pending_rows_from_rows: an interrupted or expired row always, *)
(* else the first coherent pending row of a session with no active row.    *)
(* The scan is of this agent's rows only.                                  *)
Claimable ==
    {r \in Own \ Incoherent :
        /\ Pending(r)
        /\ \/ Signal(r) = "terminal"
           \/ /\ Signal(r) = "none"
              /\ \A q \in Own : ~Active(q)
              /\ \A q \in Own \ Incoherent : q < r => ~Pending(q)}

(* Rows that do not convert are failed by the scan that meets them. *)
Quarantine ==
    row' = [q \in Requests |->
              IF q \in Incoherent \cap Own /\ Pending(q) THEN "ended" ELSE row[q]]

(* next_request: the first claimable row that is not cooling down, or a    *)
(* wake-up that has aged past the others; it cools down from now on.       *)
NextRequest(w, r) ==
    /\ worker[w] = Idle
    /\ r \in Claimable \ cooling
    /\ r = Min(Claimable \ cooling) \/ r \in Wakes
    /\ Quarantine
    /\ cooling' = cooling \cup {r}
    /\ worker' = [worker EXCEPT ![w] = At("inspect", r)]
    /\ UNCHANGED <<latched, stale, drain, crashes>>

(* A scan that finds nothing to hand out. *)
EmptyScan ==
    /\ Claimable \ cooling = {}
    /\ Quarantine
    /\ UNCHANGED <<latched, stale, cooling, worker, drain, crashes>>

(* Mutant: an entry is dropped only once its request has ended. *)
CoolDownWhenEnded(r) ==
    /\ r \in cooling /\ row[r] = "ended"
    /\ cooling' = cooling \ {r}
    /\ UNCHANGED <<row, latched, stale, worker, drain, crashes>>

(* prune_processed_requests, request_is_cooling_down: 30 s have passed, or *)
(* the table had grown past its limit and was cleared.                     *)
CoolDown(r) ==
    /\ r \in cooling
    /\ cooling' = cooling \ {r}
    /\ UNCHANGED <<row, latched, stale, worker, drain, crashes>>

(* claim_inner reads the interrupt and the TTL of the row. *)
Inspect(w) ==
    LET r == worker[w].req
        next == IF r \in latched THEN "interrupt"
                ELSE IF r \in stale THEN "expire"
                ELSE IF r \in Malformed THEN "idle" ELSE "check"
    IN  /\ worker[w].pc = "inspect"
        /\ worker' = [worker EXCEPT ![w] = IF next = "idle" THEN Idle ELSE At(next, r)]
        /\ UNCHANGED <<row, latched, stale, cooling, drain, crashes>>

(* A database update whose filter asks for a pending row. *)
IfPending(r, state) == row' = IF Pending(r) THEN [row EXCEPT ![r] = state] ELSE row

(* transition_pending_to_interrupted, transition_pending_to_dead_stale *)
EndBeforeClaim(w) ==
    /\ worker[w].pc \in {"interrupt", "expire"}
    /\ IfPending(worker[w].req, "ended")
    /\ worker' = [worker EXCEPT ![w] = Idle]
    /\ UNCHANGED <<latched, stale, cooling, drain, crashes>>

(* check_deduplication: the first pending row of the session, and no other *)
(* row of it active; rows of every agent count.                            *)
IsEarliest(r) ==
    /\ \A q \in Requests \ {r} : ~Active(q)
    /\ Pending(r) /\ \A q \in Requests : q < r => ~Pending(q)

CheckDeduplication(w) ==
    /\ worker[w].pc = "check"
    /\ worker' = [worker EXCEPT
                    ![w] = IF IsEarliest(@.req) THEN At("claim", @.req) ELSE Idle]
    /\ UNCHANGED <<row, latched, stale, cooling, drain, crashes>>

(* Mutant: the claim does not ask for a pending row. *)
ClaimUnfiltered(w) ==
    /\ worker[w].pc = "claim"
    /\ row' = [row EXCEPT ![worker[w].req] = "active"]
    /\ worker' = [worker EXCEPT ![w] = Idle]
    /\ UNCHANGED <<latched, stale, cooling, drain, crashes>>

(* claim_request_with_projection: conflicts retry the transaction, never   *)
(* the check before it.                                                    *)
Claim(w) ==
    /\ worker[w].pc = "claim"
    /\ IfPending(worker[w].req, "active")
    /\ worker' = [worker EXCEPT ![w] = Idle]
    /\ UNCHANGED <<latched, stale, cooling, drain, crashes>>

(* RequestExecution, and recovery where its executor is gone. *)
End(r) ==
    /\ Active(r) /\ r \in Own
    /\ row' = [row EXCEPT ![r] = "ended"]
    /\ UNCHANGED <<latched, stale, cooling, worker, drain, crashes>>

(* The control plane, a trigger or a completion creates a request. *)
Submit(r) ==
    /\ row[r] = "absent" /\ r \in Own
    /\ Ordered => \A q \in Own : row[q] # "absent" => q < r
    /\ row' = [row EXCEPT ![r] = "pending"]
    /\ UNCHANGED <<latched, stale, cooling, worker, drain, crashes>>

(* Replication brings in what another agent's request has become. *)
Replicate(r, state) ==
    /\ r \in Foreign
    /\ <<row[r], state>> \in {<<"absent", "pending">>, <<"pending", "active">>,
                              <<"pending", "ended">>, <<"active", "ended">>}
    /\ row' = [row EXCEPT ![r] = state]
    /\ UNCHANGED <<latched, stale, cooling, worker, drain, crashes>>

Expire(r) ==
    /\ r \notin stale \cup Malformed
    /\ row[r] # "absent"
    /\ stale' = stale \cup {r}
    /\ UNCHANGED <<row, latched, cooling, worker, drain, crashes>>

(* interrupt_request: the latch is set once; the automated wake-ups that   *)
(* are pending then are read for the drain, latched before or not.         *)
Interrupt(r) ==
    /\ row[r] # "absent" /\ r \in Own
    /\ latched' = latched \cup {r}
    /\ drain' = drain \cup {q \in Wakes \cap Own : Pending(q)}
    /\ UNCHANGED <<row, stale, cooling, worker, crashes>>

(* Mutant: the drain updates whatever it has read. *)
DrainWakeUnfiltered(q) ==
    /\ q \in drain
    /\ row' = [row EXCEPT ![q] = "ended"]
    /\ drain' = drain \ {q}
    /\ UNCHANGED <<latched, stale, cooling, worker, crashes>>

(* drain_automated_wakeups: one update per wake-up that was read. *)
DrainWake(q) ==
    /\ q \in drain
    /\ IfPending(q, "ended")
    /\ drain' = drain \ {q}
    /\ UNCHANGED <<latched, stale, cooling, worker, crashes>>

(* A failed update ends the drain; the failure is only logged. *)
DrainFails ==
    /\ drain # {}
    /\ drain' = {}
    /\ UNCHANGED <<row, latched, stale, cooling, worker, crashes>>

(* The process ends; the rows are all that stays. *)
Crash ==
    /\ crashes < MaxCrashes
    /\ crashes' = crashes + 1
    /\ cooling' = {}
    /\ worker' = [w \in Workers |-> Idle]
    /\ drain' = {}
    /\ UNCHANGED <<row, latched, stale>>

Init ==
    /\ row = [r \in Requests |-> "absent"]
    /\ latched = {} /\ stale = {} /\ cooling = {} /\ drain = {}
    /\ worker = [w \in Workers |-> Idle]
    /\ crashes = 0

Step(w) == Inspect(w) \/ EndBeforeClaim(w) \/ CheckDeduplication(w) \/ Claim(w)

Next ==
    \/ \E w \in Workers : Step(w) \/ \E r \in Requests : NextRequest(w, r)
    \/ \E r \in Requests :
          \/ CoolDown(r) \/ End(r) \/ Submit(r) \/ Expire(r) \/ Interrupt(r)
          \/ DrainWake(r)
          \/ \E state \in {"pending", "active", "ended"} : Replicate(r, state)
    \/ EmptyScan \/ DrainFails \/ Crash

Spec == Init /\ [][Next]_vars

(* The worker tasks run, the watcher polls at least every 30 s, cooldowns  *)
(* elapse and executions end.                                              *)
Fairness ==
    /\ \A w \in Workers : WF_vars(Step(w))
    /\ \A r \in Requests : WF_vars(CoolDown(r)) /\ WF_vars(End(r))
    /\ WF_vars(\E w \in Workers, r \in Requests : NextRequest(w, r))
    /\ WF_vars(EmptyScan)

FairSpec == Spec /\ Fairness

-----------------------------------------------------------------------------

(* The variables keep their types. *)
TypeOK ==
    /\ row \in [Requests -> {"absent", "pending", "active", "ended"}]
    /\ latched \subseteq Requests /\ stale \subseteq Requests
    /\ cooling \subseteq Own /\ drain \subseteq Wakes \cap Own
    /\ \A w \in Workers : worker[w] = Idle \/
          worker[w] \in [pc : {"inspect", "interrupt", "expire", "check", "claim"},
                         req : Own]
    /\ crashes \in 0..MaxCrashes

(* No two requests of the agent's session run at once, although the check  *)
(* and the claim that relies on it are two steps (claim_inner).            *)
OneActive == \A r, q \in Own : Active(r) /\ Active(q) => r = q

(* The session's rows follow the contract of an ordered queue: appended at *)
(* the end, claimed at the head when nothing is active, each of them ended *)
(* once; check, claim, drain and restart in separate steps change nothing. *)
Contract == INSTANCE SessionContract WITH
    Entries <- Own, state <- [r \in Own |-> row[r]]

FollowsContract == Contract!Spec

(* A drain never ends a wake-up that was claimed after the drain read it   *)
(* as pending (drain_automated_wakeups).                                   *)
DrainSparesActive ==
    [][\A q \in drain : q \notin drain' /\ Active(q) => Active(q)']_vars

(* What holds a pending request back for good: an unread TTL or another    *)
(* agent's request before it, or one of those running.                     *)
HeldBack(r) ==
    \/ r \in Malformed
    \/ \E q \in Own : q < r /\ Pending(q) /\ Signal(q) = "malformed"
    \/ \E q \in Foreign : Active(q) \/ (q < r /\ Pending(q))

(* A pending request that nothing holds back for ever is claimed or ended, *)
(* whatever the cooldown, lost races, drains and restarts do.              *)
PendingIsServed ==
    \A r \in Own : <>[]~HeldBack(r) => (Pending(r) ~> ~Pending(r))

=============================================================================
