-------------------------- MODULE BackendAdmission --------------------------
(***************************************************************************)
(* Admission of inference calls to ONE backend (crates/gents/src/          *)
(* admission): the registry that replaces a backend's controller when its  *)
(* configuration changes, the controller's semaphore, waiting queue and    *)
(* in-flight count, and the permit of an admitted call.  The durable rows  *)
(* of the calls are in InferenceCallRows, which extends this module; here  *)
(* a write either succeeds or does not.                                    *)
(*                                                                         *)
(* Each access of another thread's data is a step: an atomic load or       *)
(* update, a semaphore operation, a critical section of the registry's     *)
(* mutex.  A call's future can be dropped at each of its await points.     *)
(*                                                                         *)
(* A controller is named by the generation of the reconcile that asked for *)
(* it.  0 stands for no controller.                                        *)
(***************************************************************************)
EXTENDS Integers, Sequences, FiniteSets, Functions

CONSTANTS
    Calls,      \* calls to the backend
    Configs,    \* BackendAdmissionConfig values considered
    Removed,    \* the backend is not among the configurations
    MaxGen      \* bound: reconciles in one life of the process

ASSUME ConfigAssumption ==
    /\ \A k \in Configs : /\ k.limit \in Nat \ {0} /\ k.depth \in Nat
                          /\ k.available \in BOOLEAN
    /\ Removed \notin Configs
    /\ MaxGen \in Nat
    /\ IsFiniteSet(Calls)

VARIABLES
    gen,       \* generation of the last reconcile
    asked,     \* per generation: the configuration it asked for
    active,    \* RegistryState.active
    draining,  \* RegistryState.draining
    pending,   \* RegistryState.pending
    step,      \* progress of the reconcile that holds the registry's mutex
    ctl,       \* per generation: the controller
    phase,     \* per call: the operation it performs next
    on,        \* per call: its controller
    holds      \* per call: it owns a semaphore permit

registry == <<gen, asked, active, draining, pending, step>>
vars == <<gen, asked, active, draining, pending, step, ctl, phase, on, holds>>

Gens == 1 .. MaxGen
None == 0

(* BackendAdmissionConfig::is_available; a removed backend is not. *)
Available(k) == k # Removed /\ k.available

NewController(k) ==
    [config |-> k, closed |-> FALSE, shut |-> FALSE,
     free |-> IF k = Removed THEN 0 ELSE k.limit, parked |-> <<>>,
     waiters |-> 0, inFlight |-> 0]

-----------------------------------------------------------------------------
(* The semaphore (tokio): permits go to the parked acquirers first.        *)

Owners(g) == {c \in Calls : holds[c] /\ on[c] = g}

(* Call c returns its permit and goes on with next. *)
ReturnPermit(c, next) ==
    LET g == on[c] IN
    IF ctl[g].parked = <<>>
    THEN /\ ctl' = [ctl EXCEPT ![g].free = @ + 1]
         /\ holds' = [holds EXCEPT ![c] = FALSE]
         /\ phase' = [phase EXCEPT ![c] = next]
    ELSE LET w == Head(ctl[g].parked) IN
         /\ ctl' = [ctl EXCEPT ![g].parked = Tail(@)]
         /\ holds' = [holds EXCEPT ![c] = FALSE, ![w] = TRUE]
         /\ phase' = [phase EXCEPT ![c] = next, ![w] = "assigned"]

TakePermit(c, next) ==
    /\ ctl' = [ctl EXCEPT ![on[c]].free = @ - 1]
    /\ holds' = [holds EXCEPT ![c] = TRUE]
    /\ phase' = [phase EXCEPT ![c] = next]

(* The parked acquirers without call c, which no longer waits. *)
Place(parked, c)  == CHOOSE i \in DOMAIN parked : parked[i] = c
Unpark(parked, c) == SubSeq(parked, 1, Place(parked, c) - 1)
                         \o SubSeq(parked, Place(parked, c) + 1, Len(parked))

Go(c, next) == phase' = [phase EXCEPT ![c] = next]

-----------------------------------------------------------------------------
(* The registry.  A reconcile and a drained notice run under its mutex,    *)
(* but calls go on counting, releasing and acquiring meanwhile.            *)

Undrained(S) == {g \in S : ctl[g].inFlight > 0}

(* Install(g): the controller of generation g becomes the active one. *)
Install(g) ==
    /\ active' = g
    /\ ctl' = [ctl EXCEPT ![g] = NewController(asked'[g])]

(* install_pending_if_ready: prune, then install what waits, if nothing    *)
(* is active or draining.                                                  *)
InstallPendingIfReady ==
    /\ draining' = Undrained(draining)
    /\ UNCHANGED asked
    /\ IF active # None \/ draining' # {} \/ pending = None
       THEN UNCHANGED <<active, pending, ctl>>
       ELSE /\ pending' = None
            /\ IF Available(asked[pending])
               THEN Install(pending)
               ELSE UNCHANGED <<active, ctl>>

(* Reconcile(k): take the mutex and mark an active controller that does    *)
(* not match the wanted configuration as closed.                           *)
Reconcile(k) ==
    /\ step = "idle" /\ gen < MaxGen
    /\ gen' = gen + 1
    /\ asked' = [asked EXCEPT ![gen'] = k]
    /\ draining' = Undrained(draining)
    /\ IF active = None \/ (Available(k) /\ ctl[active].config = k)
       THEN /\ step' = "fill"
            /\ UNCHANGED ctl
       ELSE /\ step' = "shut"
            /\ ctl' = [ctl EXCEPT ![active].closed = TRUE]
    /\ UNCHANGED <<active, pending, phase, on, holds>>

(* Semaphore::close: every parked acquirer is woken with an error. *)
ShutSemaphore ==
    /\ step = "shut"
    /\ step' = "decide"
    /\ ctl' = [ctl EXCEPT ![active].shut = TRUE, ![active].parked = <<>>]
    /\ phase' = [c \in Calls |-> IF c \in Range(ctl[active].parked)
                                 THEN "evicted" ELSE phase[c]]
    /\ UNCHANGED <<gen, asked, active, draining, pending, on, holds>>

(* Mutant: the replacement is installed without waiting for the drain. *)
ReplaceAtOnce ==
    /\ step = "decide"
    /\ step' = "fill"
    /\ UNCHANGED <<gen, asked>>
    /\ IF Available(asked[gen])
       THEN Install(gen) /\ UNCHANGED <<draining, pending>>
       ELSE /\ active' = None /\ pending' = None
            /\ UNCHANGED <<draining, ctl>>
    /\ UNCHANGED <<phase, on, holds>>

(* The closed controller is dropped, replaced, or left to drain. *)
Replace ==
    /\ step = "decide"
    /\ step' = "fill"
    /\ draining' = draining \cup Undrained({active})
    /\ pending' = IF ~Available(asked[gen]) THEN None
                  ELSE IF ctl[active].inFlight > 0 THEN gen ELSE pending
    /\ UNCHANGED <<gen, asked>>
    /\ IF ctl[active].inFlight = 0 /\ Available(asked[gen])
       THEN Install(gen)
       ELSE active' = None /\ UNCHANGED ctl
    /\ UNCHANGED <<phase, on, holds>>

(* Mutant: an unavailable configuration leaves what was pending. *)
FillKeepsPending ==
    /\ step = "fill"
    /\ step' = "install"
    /\ UNCHANGED <<gen, asked>>
    /\ \/ /\ ~Available(asked[gen]) \/ active # None
          /\ UNCHANGED <<active, draining, pending, ctl>>
       \/ /\ Available(asked[gen]) /\ active = None
          /\ draining' = Undrained(draining)
          /\ IF draining' # {}
             THEN pending' = gen /\ UNCHANGED <<active, ctl>>
             ELSE Install(gen) /\ UNCHANGED pending
    /\ UNCHANGED <<phase, on, holds>>

(* The loop over the wanted configurations: a removed backend is not there.*)
Fill ==
    /\ step = "fill"
    /\ step' = "install"
    /\ UNCHANGED <<gen, asked>>
    /\ \/ /\ asked[gen] = Removed \/ (Available(asked[gen]) /\ active # None)
          /\ UNCHANGED <<active, draining, pending, ctl>>
       \/ /\ asked[gen] # Removed /\ ~Available(asked[gen])
          /\ pending' = None
          /\ UNCHANGED <<active, draining, ctl>>
       \/ /\ Available(asked[gen]) /\ active = None
          /\ draining' = Undrained(draining)
          /\ IF draining' # {}
             THEN pending' = gen /\ UNCHANGED <<active, ctl>>
             ELSE Install(gen) /\ UNCHANGED pending
    /\ UNCHANGED <<phase, on, holds>>

(* The last loop of reconcile, and the mutex's release. *)
FinishReconcile ==
    /\ step = "install"
    /\ step' = "idle"
    /\ IF pending = None
       THEN UNCHANGED <<asked, active, draining, pending, ctl>>
       ELSE InstallPendingIfReady
    /\ UNCHANGED <<gen, phase, on, holds>>

-----------------------------------------------------------------------------
(* Acquisition (acquire_current_call, acquire, start_permit).              *)

(* The active controller is looked up under the mutex and used after it. *)
Lookup(c) ==
    /\ phase[c] = "new" /\ step = "idle"
    /\ on' = [on EXCEPT ![c] = active]
    /\ Go(c, IF active = None THEN "gone" ELSE "arrived")
    /\ UNCHANGED <<registry, ctl, holds>>

(* InFlightGuard::new *)
CountIn(c) ==
    /\ phase[c] = "arrived"
    /\ ctl' = [ctl EXCEPT ![on[c]].inFlight = @ + 1]
    /\ Go(c, "counted")
    /\ UNCHANGED <<registry, on, holds>>

CheckOpen(c) ==
    /\ phase[c] = "counted"
    /\ Go(c, IF ctl[on[c]].closed THEN "gone" ELSE "trying")
    /\ UNCHANGED <<registry, ctl, on, holds>>

(* try_acquire_owned, before the queue and again when the queue is full. *)
TryAcquire(c, otherwise) ==
    \/ /\ ctl[on[c]].shut
       /\ Go(c, "gone")
       /\ UNCHANGED <<ctl, holds>>
    \/ /\ ~ctl[on[c]].shut /\ ctl[on[c]].free > 0
       /\ TakePermit(c, "starting")
    \/ /\ ~ctl[on[c]].shut /\ ctl[on[c]].free = 0
       /\ Go(c, otherwise)
       /\ UNCHANGED <<ctl, holds>>

FirstTry(c) ==
    /\ phase[c] = "trying"
    /\ TryAcquire(c, "entering")
    /\ UNCHANGED <<registry, on>>

(* try_enter_queue *)
EnterQueue(c) ==
    /\ phase[c] = "entering"
    /\ IF ctl[on[c]].waiters < ctl[on[c]].config.depth
       THEN /\ ctl' = [ctl EXCEPT ![on[c]].waiters = @ + 1]
            /\ Go(c, "queueing")
       ELSE Go(c, "lastTry") /\ UNCHANGED ctl
    /\ UNCHANGED <<registry, on, holds>>

LastTry(c) ==
    /\ phase[c] = "lastTry"
    /\ TryAcquire(c, "full")
    /\ UNCHANGED <<registry, on>>

(* A call that is turned away records that, and leaves; a failed write is  *)
(* only logged, and dropping the future has the same effect.               *)
TurnAway(c) ==
    /\ phase[c] \in {"gone", "full"}
    /\ Go(c, IF on[c] = None THEN "done" ELSE "leaving")
    /\ UNCHANGED <<registry, ctl, on, holds>>

(* start_permit: on a persistence error the permit goes back first. *)
Start(c, acked) ==
    /\ phase[c] = "starting"
    /\ Go(c, IF acked THEN "running" ELSE "releasing")
    /\ UNCHANGED <<registry, ctl, on, holds>>

(* start_permit dropped at its await: in_flight, declared after permit, is *)
(* dropped before it, so the call leaves while it still owns the permit.   *)
DropStart(c) ==
    /\ phase[c] = "starting"
    /\ Go(c, "leaving")
    /\ UNCHANGED <<registry, ctl, on, holds>>

(* Mutant: a persistence error keeps the queue place. *)
PersistQueuedLeaky(c, acked) ==
    /\ phase[c] = "queueing"
    /\ Go(c, IF acked THEN "parking" ELSE "leaving")
    /\ UNCHANGED <<registry, ctl, on, holds>>

(* The queued row; an error or a drop frees the queue place. *)
PersistQueued(c, acked) ==
    /\ phase[c] = "queueing"
    /\ Go(c, IF acked THEN "parking" ELSE "unqueue")
    /\ UNCHANGED <<registry, ctl, on, holds>>

(* The first poll of acquire_owned. *)
Park(c) ==
    /\ phase[c] = "parking"
    /\ \/ /\ ctl[on[c]].shut
          /\ Go(c, "evicted")
          /\ UNCHANGED <<ctl, holds>>
       \/ /\ ~ctl[on[c]].shut /\ ctl[on[c]].free > 0
          /\ TakePermit(c, "granted")
       \/ /\ ~ctl[on[c]].shut /\ ctl[on[c]].free = 0
          /\ ctl' = [ctl EXCEPT ![on[c]].parked = Append(@, c)]
          /\ Go(c, "parked")
          /\ UNCHANGED holds
    /\ UNCHANGED <<registry, on>>

(* The waiter a permit was assigned to resumes; on a semaphore closed in   *)
(* between it gets an error and the permit goes back.                      *)
Resume(c) ==
    /\ phase[c] = "assigned"
    /\ IF ctl[on[c]].shut
       THEN ReturnPermit(c, "evicted")
       ELSE Go(c, "granted") /\ UNCHANGED <<ctl, holds>>
    /\ UNCHANGED <<registry, on>>

(* Drop of QueuedCallGuard, disarmed or not: leave_queue. *)
LeaveQueue(c) ==
    /\ phase[c] \in {"granted", "evicted", "unqueue"}
    /\ ctl' = [ctl EXCEPT ![on[c]].waiters = @ - 1]
    /\ Go(c, CASE phase[c] = "granted" -> "upgrading"
               [] phase[c] = "evicted" -> "settling"
               [] OTHER -> "leaving")
    /\ UNCHANGED <<registry, on, holds>>

(* The wait is dropped: a permit already assigned goes to the next waiter. *)
AbandonWait(c) ==
    /\ \/ /\ phase[c] = "parked"
          /\ ctl' = [ctl EXCEPT ![on[c]].parked = Unpark(@, c)]
          /\ Go(c, "unqueue")
          /\ UNCHANGED holds
       \/ /\ phase[c] = "assigned"
          /\ ReturnPermit(c, "unqueue")
    /\ UNCHANGED <<registry, on>>

(* The queued row becomes running; on an error, a row that is no longer    *)
(* queued or a drop the permit is returned.                                *)
Upgrade(c, acked) ==
    /\ phase[c] = "upgrading"
    /\ Go(c, IF acked THEN "running" ELSE "releasing")
    /\ UNCHANGED <<registry, ctl, on, holds>>

(* A waiter that was evicted records that; the result is only logged. *)
Settle(c) ==
    /\ phase[c] = "settling"
    /\ Go(c, "leaving")
    /\ UNCHANGED <<registry, ctl, on, holds>>

-----------------------------------------------------------------------------
(* The admitted call (AdmissionPermit).                                    *)

(* The provider's answer was handled, or the permit is dropped before. *)
EndCall(c) ==
    /\ phase[c] = "running"
    /\ Go(c, "releasing")
    /\ UNCHANGED <<registry, ctl, on, holds>>

(* Mutant: a permit forgotten with the call that owned it. *)
ReleaseForgets(c) ==
    /\ phase[c] = "releasing"
    /\ Go(c, "leaving")
    /\ holds' = [holds EXCEPT ![c] = FALSE]
    /\ UNCHANGED <<registry, ctl, on>>

(* The semaphore permit goes back before the in-flight unit. *)
Release(c) ==
    /\ phase[c] = "releasing"
    /\ ReturnPermit(c, "leaving")
    /\ UNCHANGED <<registry, on>>

Left(c) == IF holds[c] THEN "returning" ELSE "done"

(* Mutant: the count after the decrement is tested instead of before. *)
LeaveOffByOne(c) ==
    /\ phase[c] = "leaving"
    /\ ctl' = [ctl EXCEPT ![on[c]].inFlight = @ - 1]
    /\ Go(c, IF ctl[on[c]].inFlight = 2 THEN "checking" ELSE Left(c))
    /\ UNCHANGED <<registry, on, holds>>

(* release_in_flight: the last one out asks whether it was closed. *)
Leave(c) ==
    /\ phase[c] = "leaving"
    /\ ctl' = [ctl EXCEPT ![on[c]].inFlight = @ - 1]
    /\ Go(c, IF ctl[on[c]].inFlight = 1 THEN "checking" ELSE Left(c))
    /\ UNCHANGED <<registry, on, holds>>

CheckDrained(c) ==
    /\ phase[c] = "checking"
    /\ Go(c, IF ctl[on[c]].closed THEN "notifying" ELSE Left(c))
    /\ UNCHANGED <<registry, ctl, on, holds>>

(* controller_drained *)
Notify(c) ==
    /\ phase[c] = "notifying" /\ step = "idle"
    /\ InstallPendingIfReady
    /\ Go(c, Left(c))
    /\ UNCHANGED <<gen, step, on, holds>>

(* The permit of a dropped start goes back last. *)
ReturnLast(c) ==
    /\ phase[c] = "returning"
    /\ ReturnPermit(c, "done")
    /\ UNCHANGED <<registry, on>>

Unused == NewController(Removed)

(* The process dies, and starts again with an empty registry. *)
Crash ==
    /\ gen' = 0 /\ active' = None /\ draining' = {} /\ pending' = None
    /\ step' = "idle"
    /\ asked' = [g \in Gens |-> Removed]
    /\ ctl' = [g \in Gens |-> Unused]
    /\ phase' = [c \in Calls |-> IF phase[c] = "new" THEN "new" ELSE "done"]
    /\ on' = [c \in Calls |-> None]
    /\ holds' = [c \in Calls |-> FALSE]

Init ==
    /\ gen = 0 /\ active = None /\ draining = {} /\ pending = None
    /\ step = "idle"
    /\ asked = [g \in Gens |-> Removed]
    /\ ctl = [g \in Gens |-> Unused]
    /\ phase = [c \in Calls |-> "new"]
    /\ on = [c \in Calls |-> None]
    /\ holds = [c \in Calls |-> FALSE]

ReconcileStep == ShutSemaphore \/ Replace \/ Fill \/ FinishReconcile

(* Steps of a call that write no row. *)
Silent(c) ==
    \/ Lookup(c) \/ CountIn(c) \/ CheckOpen(c) \/ FirstTry(c) \/ EnterQueue(c)
    \/ LastTry(c) \/ Park(c) \/ Resume(c) \/ LeaveQueue(c) \/ Release(c)
    \/ Leave(c) \/ CheckDrained(c) \/ Notify(c) \/ ReturnLast(c)

(* Steps of a call that do, with either result. *)
Recording(c) ==
    \/ TurnAway(c) \/ Settle(c) \/ EndCall(c)
    \/ \E acked \in BOOLEAN :
          Start(c, acked) \/ PersistQueued(c, acked) \/ Upgrade(c, acked)

Next ==
    \/ \E k \in Configs \cup {Removed} : Reconcile(k)
    \/ ReconcileStep
    \/ \E c \in Calls :
          Silent(c) \/ Recording(c) \/ DropStart(c) \/ AbandonWait(c)
    \/ Crash

Spec == Init /\ [][Next]_vars

(* Tasks are polled, the mutex is handed on, and a provider call ends by   *)
(* itself or by the stream liveness timeout.                               *)
Fairness ==
    /\ <>[][~Crash]_vars
    /\ WF_vars(ReconcileStep)
    /\ \A c \in Calls : WF_vars(Silent(c) \/ Recording(c))

FairSpec == Spec /\ Fairness

-----------------------------------------------------------------------------
Phases ==
    {"new", "arrived", "counted", "trying", "entering", "lastTry", "gone",
     "full", "starting", "queueing", "parking", "parked", "assigned",
     "granted", "evicted", "unqueue", "upgrading", "settling", "running",
     "releasing", "leaving", "checking", "notifying", "returning", "done"}

Controllers ==
    [config : Configs \cup {Removed}, closed : BOOLEAN, shut : BOOLEAN,
     free : Nat, parked : Seq(Calls), waiters : Nat, inFlight : Nat]

(* The type invariant of the registry, the controllers and the calls; that *)
(* the unsigned counters of BackendAdmissionController never wrap is part  *)
(* of it.                                                                  *)
TypeOK ==
    /\ gen \in 0 .. MaxGen
    /\ asked \in [Gens -> Configs \cup {Removed}]
    /\ active \in 0 .. MaxGen /\ pending \in 0 .. MaxGen
    /\ draining \subseteq Gens
    /\ step \in {"idle", "shut", "decide", "fill", "install"}
    /\ ctl \in [Gens -> Controllers]
    /\ phase \in [Calls -> Phases]
    /\ on \in [Calls -> 0 .. MaxGen]
    /\ holds \in [Calls -> BOOLEAN]

At(g, S) == {c \in Calls : on[c] = g /\ phase[c] \in S}

Waiting == {"queueing", "parking", "parked", "assigned", "granted", "evicted",
            "unqueue"}

Counted == Waiting \cup
    {"counted", "trying", "entering", "lastTry", "gone", "full", "starting",
     "upgrading", "settling", "running", "releasing", "leaving"}

Capacity(g) == IF ctl[g].config = Removed THEN 0 ELSE ctl[g].config.limit

(* Every slot of a controller is free or owned by exactly one call, on     *)
(* every path: errors, drops at any await, eviction, a permit assigned to  *)
(* a waiter that goes away ("Slots are never leaked", docs/gents.md).      *)
SlotsAccounted ==
    \A g \in Gens : ctl[g].free + Cardinality(Owners(g)) = Capacity(g)

(* waiters counts exactly the calls between try_enter_queue and the drop   *)
(* of their guard, and max_queue_depth bounds them: a failed or abandoned  *)
(* wait never shrinks the queue.                                           *)
QueueAccounted ==
    \A g \in Gens : ctl[g].config # Removed =>
        /\ ctl[g].waiters = Cardinality(At(g, Waiting))
        /\ ctl[g].waiters <= ctl[g].config.depth

(* Calls that run at the provider were all admitted by one controller and  *)
(* respect its limit: a replacement starts only after its predecessor has  *)
(* drained, even for a call that looked its controller up before.          *)
ProviderWithinLimit ==
    LET busy == {c \in Calls : phase[c] = "running"} IN
    \A c \in busy : /\ \A d \in busy : on[d] = on[c]
                    /\ Cardinality(busy) <= Capacity(on[c])

(* Between reconciles the active controller has the configuration of the   *)
(* last reconcile that named the backend: a pending configuration that was *)
(* superseded is never installed.                                          *)
ActiveIsLatest ==
    step = "idle" /\ active # None /\ asked[gen] # Removed =>
        /\ Available(asked[gen])
        /\ ctl[active].config = asked[gen]
        /\ ~ctl[active].closed

(* No waiter is left behind: while a call is parked at a semaphore some    *)
(* call owns a permit of it, and the owner's return reaches the waiter.    *)
WaitersHaveOwner ==
    \A c \in Calls : phase[c] = "parked" =>
        \E d \in Calls : holds[d] /\ on[d] = on[c]

(* Nor is a pending configuration: outside the mutex, while one waits and  *)
(* nothing is active, a call of a draining controller is still to leave,   *)
(* to check whether it was the last one out, or to give the notice that    *)
(* installs what waits.                                                    *)
PendingHasDrainer ==
    step = "idle" /\ active = None /\ pending # None =>
        \E c \in Calls : /\ on[c] \in draining
                         /\ phase[c] \in Counted \cup {"checking", "notifying"}

(* No lost wakeup: a pending configuration is installed or withdrawn once  *)
(* the calls of the old controller are gone, whoever is the last one out.  *)
PendingIsResolved == pending # None ~> (active # None \/ pending = None)

(* Every call that asked for admission comes to an end, queued ones        *)
(* included: a permit or an eviction reaches every waiter.                 *)
EveryCallEnds == \A c \in Calls : phase[c] = "arrived" ~> phase[c] = "done"

-----------------------------------------------------------------------------
(* What comments and tests say that the code does not do.                  *)

(* "drained controller must hold no outstanding semaphore permits"         *)
(* (admission/tests.rs): a closed controller without calls in flight has   *)
(* all its permits back.                                                   *)
DrainedHoldsNoPermit ==
    \A g \in Gens : ctl[g].closed /\ ctl[g].inFlight = 0 => Owners(g) = {}

(* "unavailable backends cannot admit work" (docs/gents.md): between       *)
(* reconciles a backend the last one did not name has no controller.       *)
RemovedBackendIsGone ==
    step = "idle" /\ gen > 0 /\ asked[gen] = Removed => active = None

=============================================================================
