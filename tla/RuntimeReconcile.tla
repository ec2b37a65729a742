-------------------------- MODULE RuntimeReconcile --------------------------
(***************************************************************************)
(* Hot reload of the agent runtime: the control watcher proposes resolved  *)
(* configurations, the generation supervisor stages, publishes and retires *)
(* behavior slots, the readiness publisher owns the durable readiness row, *)
(* the router moves pending requests into the bounded queue of a slot, and *)
(* the lifecycle coordinator opens and closes the admission gate.          *)
(*                                                                         *)
(* Sources: agent/reconcile.rs, agent/reconcile/slot.rs,                   *)
(* agent/runtime/{router,startup,context,control_watcher}.rs,              *)
(* behavior_readiness_publisher.rs, startup_readiness.rs, watcher.rs.      *)
(* A configuration is, for each behavior, the fingerprint of its runnable  *)
(* definition, or 0 when the behavior is unavailable.  What an executor    *)
(* does with a request it takes is module RequestExecution; here it takes  *)
(* the row out of "pending".  Losing the publisher task itself (a command  *)
(* timeout) is not modelled; a failing durable write is.                   *)
(***************************************************************************)
EXTENDS Naturals, FiniteSets, Sequences

CONSTANTS
    Behavior,       \* behavior ids
    Request,        \* AgentRequest rows
    Target,         \* the behavior each request resolves to
    Print0,         \* the configuration the runtime boots with
    Prints,         \* fingerprints a behavior may be configured with
    Workers,        \* executor_capacity of every slot
    QueueCap,       \* BEHAVIOR_EXECUTOR_QUEUE_CAPACITY
    Budget,         \* build_failure_budget
    MaxEdits,       \* bound: configuration edits
    Limits          \* bounds, one of which holds throughout: configuration
                    \* edits, failed client builds, panicking requests and
                    \* failed durable readiness writes

ASSUME ReconcileAssumption ==
    /\ Target \in [Request -> Behavior]
    /\ Print0 \in [Behavior -> Prints \cup {0}] /\ MaxEdits \in Nat
    /\ Workers \in Nat \ {0} /\ QueueCap \in Nat \ {0} /\ Budget \in Nat \ {0}
    /\ Limits \subseteq [edits : 0 .. MaxEdits, fails : Nat, panics : Nat, faults : Nat]

Gen    == 1 .. (MaxEdits + 1)
Slot   == Behavior \X Gen
Config == [Behavior -> Prints \cup {0}]
Worker == 1 .. Workers

VARIABLES
    doc,        \* the configuration documents, resolved
    proposed,   \* last_proposed_fingerprint: {} before the first proposal
    proposals,  \* the bounded channel to the supervisor
    cur,        \* the active snapshot: generation, configuration, dispatchers
    plan,       \* the generation the supervisor is applying, and how far it is
    slot,       \* every behavior slot ever spawned
    pub,        \* the readiness publisher: source, slots, demotions, states
    barrier,    \* StartupBarrier.pending_standings
    gate,       \* RuntimeAdmissionGate and the state of a close()
    router,     \* the router task
    row,        \* request rows
    cooling,    \* processed_request_ids
    life,       \* runtime coordinator: shutdown progress and fatal error
    used        \* edits, failures, panics and faults so far, and their limit

vars == <<doc, proposed, proposals, cur, plan, slot, pub, barrier, gate, router,
          row, cooling, life, used>>

NoSlot   == [st |-> "none", w |-> [i \in Worker |-> "gone"], fails |-> 0, q |-> <<>>]
NewSlot  == [st |-> "live", w |-> [i \in Worker |-> "building"], fails |-> 0, q |-> <<>>]
NoPlan   == [phase |-> "idle", cfg |-> Print0]

(* The dispatchers a snapshot holds: the generation of each runnable       *)
(* behavior's slot, 0 for a behavior that has none.  A slot is reused when *)
(* BehaviorSlot::matches, else recreated in the new generation.            *)
Dispatch(cfg, g) ==
    [b \in Behavior |-> IF cfg[b] = 0 THEN 0
                        ELSE IF cur.disp[b] # 0 /\ cur.cfg[b] = cfg[b] THEN cur.disp[b]
                        ELSE g]

Recreated(disp, g) == {<<b, g>> : b \in {x \in Behavior : disp[x] = g}}

NextGen  == cur.gen + 1
NextDisp == Dispatch(plan.cfg, NextGen)
Staged   == Recreated(NextDisp, NextGen)
Retired  == {<<b, cur.disp[b]>> : b \in {x \in Behavior : cur.disp[x] # 0 /\ NextDisp[x] # cur.disp[x]}}

(* The demoted behaviors as an observer of the readiness row sees them:    *)
(* only the slot the published source names counts.                        *)
Vetoed == {b \in Behavior : <<b, pub.src.slot[b]>> \in pub.demoted}

TypeOK ==
    /\ doc \in Config /\ proposed \subseteq Config /\ proposals \in Seq(Config)
    /\ cur \in [gen : Gen, cfg : Config, disp : [Behavior -> Gen \cup {0}]]
    /\ plan \in [phase : {"idle", "staged", "published", "aborting", "retiring"}, cfg : Config]
    /\ slot \in [Slot -> [st : {"none", "live", "retiring", "closed"},
                          w : [Worker -> {"building", "backoff", "running", "demoting",
                                          "parked", "gone"}],
                          fails : 0 .. Budget, q : Seq(Request)]]
    /\ \A s \in Slot : Len(slot[s].q) <= QueueCap
    /\ pub \in [src : [gen : Gen, slot : [Behavior -> Gen \cup {0}]], registered : SUBSET Slot,
                demoted : SUBSET Slot, router : Gen \cup {0},
                process : {"recovering", "ready", "shuttingdown"}]
    /\ barrier \subseteq Slot
    /\ gate \in [lock : BOOLEAN, announced : BOOLEAN, draining : BOOLEAN]
    /\ router.pc \in {"waitopen", "idle", "holding", "routed", "entered", "sending",
                      "failed", "stopped"}
    /\ row \in [Request -> {"pending", "taken", "rejected"}] /\ cooling \subseteq Request
    /\ life \in [down : {"no", "closing", "down"}, fatal : BOOLEAN]

(* GenerationSupervisor::bootstrap and publish_startup_snapshot: slots of  *)
(* generation 1 for every runnable behavior, registered and pending.       *)
BootDisp == [b \in Behavior |-> IF Print0[b] = 0 THEN 0 ELSE 1]
Boot     == {<<b, 1>> : b \in {x \in Behavior : Print0[x] # 0}}

Init ==
    /\ doc = Print0 /\ proposed = {} /\ proposals = <<>>
    /\ cur = [gen |-> 1, cfg |-> Print0, disp |-> BootDisp]
    /\ plan = NoPlan
    /\ slot = [s \in Slot |-> IF s \in Boot THEN NewSlot ELSE NoSlot]
    /\ pub = [src |-> [gen |-> 1, slot |-> BootDisp], registered |-> Boot, demoted |-> {},
              router |-> 0, process |-> "recovering"]
    /\ barrier = Boot
    /\ gate = [lock |-> FALSE, announced |-> FALSE, draining |-> FALSE]
    /\ router = [pc |-> "waitopen", req |-> {}, snap |-> cur, veto |-> {}]
    /\ row = [r \in Request |-> "pending"] /\ cooling = {}
    /\ life = [down |-> "no", fatal |-> FALSE]
    /\ \E l \in Limits :
          used = [edits |-> 0, fails |-> 0, panics |-> 0, faults |-> 0, limit |-> l]

Up == life.down = "no"

(* A durable readiness write fails: MAX_PERSIST_ATTEMPTS were used up, and *)
(* the publisher drops the candidate state.                                *)
WriteFails == /\ used.faults < used.limit.faults
              /\ used' = [used EXCEPT !.faults = @ + 1]

-----------------------------------------------------------------------------
(* Control watcher.                                                        *)

(* Someone edits the configuration documents.                              *)
EditDocuments(c) ==
    /\ Up /\ used.edits < used.limit.edits /\ c # doc
    /\ doc' = c
    /\ used' = [used EXCEPT !.edits = @ + 1]
    /\ UNCHANGED <<proposed, proposals, cur, plan, slot, pub, barrier, gate, router, row,
                   cooling, life>>

(* run_control_watcher after the debounce: a resolved snapshot is proposed *)
(* only when its fingerprint differs from the last one proposed.           *)
(* Mutant: a proposal that finds another one queued is dropped.            *)
Mutant_TrySend ==
    /\ Up /\ doc \notin proposed
    /\ proposals' = IF proposals = <<>> THEN <<doc>> ELSE proposals
    /\ proposed' = {doc}
    /\ UNCHANGED <<doc, cur, plan, slot, pub, barrier, gate, router, row, cooling, life, used>>

ProposeSnapshot ==
    /\ Up /\ doc \notin proposed
    /\ proposals' = Append(proposals, doc)
    /\ proposed' = {doc}
    /\ UNCHANGED <<doc, cur, plan, slot, pub, barrier, gate, router, row, cooling, life, used>>

-----------------------------------------------------------------------------
(* Generation supervisor.                                                  *)

(* handle_proposal, the fingerprint already active: publish_noop.          *)
ProposalNoop ==
    /\ Up /\ plan.phase = "idle" /\ proposals # <<>> /\ Head(proposals) = cur.cfg
    /\ proposals' = Tail(proposals)
    /\ UNCHANGED <<doc, proposed, cur, plan, slot, pub, barrier, gate, router, row, cooling,
                   life, used>>

(* apply_snapshot up to spawn_slot_with_capacity: plan the recreations,    *)
(* register each with the publisher and the barrier, spawn the executors.  *)
StageSlots ==
    /\ Up /\ plan.phase = "idle" /\ proposals # <<>> /\ Head(proposals) # cur.cfg
    /\ proposals' = Tail(proposals)
    /\ plan' = [phase |-> "staged", cfg |-> Head(proposals)]
    /\ LET new == Recreated(Dispatch(Head(proposals), NextGen), NextGen)
       IN  /\ slot' = [s \in Slot |-> IF s \in new THEN NewSlot ELSE slot[s]]
           /\ pub' = [pub EXCEPT !.registered = @ \cup new]
           /\ barrier' = barrier \cup new
    /\ UNCHANGED <<doc, proposed, cur, gate, router, row, cooling, life, used>>

(* Command::PublishSource: each dispatcher is tied to the newest slot      *)
(* registered for its behavior; demotions of unknown slots are dropped.    *)
PublishedSlots ==
    [b \in Behavior |->
        LET gens == {g \in Gen : <<b, g>> \in pub.registered}
        IN  IF NextDisp[b] = 0 \/ gens = {} THEN 0
            ELSE CHOOSE g \in gens : \A h \in gens : h <= g]

PublishSource ==
    /\ Up /\ plan.phase = "staged"
    /\ \/ /\ pub' = [pub EXCEPT !.src = [gen |-> NextGen, slot |-> PublishedSlots],
                                !.demoted = @ \cap pub.registered]
          /\ plan' = [plan EXCEPT !.phase = "published"]
          /\ UNCHANGED <<slot, used>>
       \/ /\ WriteFails
          /\ plan' = [plan EXCEPT !.phase = "aborting"]
          /\ slot' = [s \in Slot |-> IF s \in Staged THEN [slot[s] EXCEPT !.st = "retiring"]
                                     ELSE slot[s]]
          /\ UNCHANGED pub
    /\ UNCHANGED <<doc, proposed, proposals, cur, barrier, gate, router, row, cooling, life>>

(* on_slot_retired: forget the registration and release the barrier.       *)
(* Mutant: the registration outlives the slot.                             *)
Mutant_ForgetSlots(ss) ==
    /\ pub' = [pub EXCEPT !.demoted = @ \ ss]
    /\ barrier' = barrier \ ss

(* Mutant: a superseded slot stays in the barrier.                         *)
Mutant_KeepBarrier(ss) ==
    /\ pub' = [pub EXCEPT !.registered = @ \ ss, !.demoted = @ \ ss]
    /\ UNCHANGED barrier

ForgetSlots(ss) ==
    /\ pub' = [pub EXCEPT !.registered = @ \ ss, !.demoted = @ \ ss]
    /\ barrier' = barrier \ ss

(* StagedSlots::abort, once the staged executors have joined.  The         *)
(* previous generation stays active and the error is only reported.        *)
AbortStaged ==
    /\ plan.phase = "aborting"
    /\ \A s \in Staged : slot[s].st = "closed"
    /\ ForgetSlots(Staged)
    /\ slot' = [s \in Slot |-> IF s \in Staged THEN NoSlot ELSE slot[s]]
    /\ plan' = NoPlan
    /\ UNCHANGED <<doc, proposed, proposals, cur, gate, router, row, cooling, life, used>>

(* The snapshot watch is sent and slot ownership is committed in one step  *)
(* without an await: replaced and removed slots start retiring.            *)
InstallSnapshot ==
    /\ Up /\ plan.phase = "published"
    /\ cur' = [gen |-> NextGen, cfg |-> plan.cfg, disp |-> NextDisp]
    /\ slot' = [s \in Slot |-> IF s \in Retired /\ slot[s].st = "live"
                               THEN [slot[s] EXCEPT !.st = "retiring"] ELSE slot[s]]
    /\ plan' = [plan EXCEPT !.phase = "retiring"]
    /\ UNCHANGED <<doc, proposed, proposals, pub, barrier, gate, router, row, cooling, life, used>>

(* The tail of apply_snapshot: on_slot_retired for every replaced slot.    *)
RetireReplaced ==
    /\ plan.phase = "retiring"
    /\ ForgetSlots({s \in pub.registered : cur.disp[s[1]] # s[2]})
    /\ plan' = NoPlan
    /\ UNCHANGED <<doc, proposed, proposals, cur, slot, gate, router, row, cooling, life, used>>

-----------------------------------------------------------------------------
(* Slot workers: run_slot_loop.                                            *)

(* A slot's request channel closes when its last worker has returned: the  *)
(* receiver and everything still queued are dropped.                       *)
Put(s, rec) ==
    slot' = [slot EXCEPT ![s] =
        IF \A i \in Worker : rec.w[i] = "gone" THEN [rec EXCEPT !.st = "closed", !.q = <<>>]
        ELSE rec]

(* The runner built its client and daemon.run reported the slot ready: a   *)
(* registered slot is cleared of a demotion and released from the barrier. *)
WorkerStart(s, i) ==
    /\ slot[s].w[i] = "building" /\ life.down # "down"
    /\ Put(s, [slot[s] EXCEPT !.w[i] = "running"])
    /\ IF s \in pub.registered
       THEN /\ pub' = [pub EXCEPT !.demoted = @ \ {s}]
            /\ barrier' = barrier \ {s}
       ELSE UNCHANGED <<pub, barrier>>
    /\ UNCHANGED <<doc, proposed, proposals, cur, plan, gate, router, row, cooling, life, used>>

(* handle_slot_failure: a failure is charged to the slot's standing, which *)
(* the workers share; the one that spends the budget goes on to demote,    *)
(* later ones park at once.                                                *)
Failed(s, i) ==
    IF slot[s].fails = Budget THEN [slot[s] EXCEPT !.w[i] = "parked"]
    ELSE IF slot[s].fails + 1 < Budget THEN [slot[s] EXCEPT !.w[i] = "backoff", !.fails = @ + 1]
    ELSE [slot[s] EXCEPT !.w[i] = "demoting", !.fails = Budget]

BuildFails(s, i) ==
    /\ slot[s].w[i] = "building" /\ life.down # "down"
    /\ used.fails < used.limit.fails
    /\ Put(s, Failed(s, i))
    /\ used' = [used EXCEPT !.fails = @ + 1]
    /\ UNCHANGED <<doc, proposed, proposals, cur, plan, pub, barrier, gate, router, row,
                   cooling, life>>

(* wait_for_restart elapsed: back at the top of the loop.                  *)
WorkerRestart(s, i) ==
    /\ slot[s].w[i] = "backoff" /\ life.down # "down"
    /\ Put(s, [slot[s] EXCEPT !.w[i] = IF slot[s].st = "retiring" THEN "gone"
                                       ELSE IF slot[s].fails = Budget THEN "parked"
                                       ELSE "building"])
    /\ UNCHANGED <<doc, proposed, proposals, cur, plan, pub, barrier, gate, router, row,
                   cooling, life, used>>

(* RuntimeAdmissionGate::close: announce first, then wait for the lock.    *)
(* Mutant: the lock is awaited without the announcement.                   *)
Mutant_CloseQuietly == gate' = [gate EXCEPT !.draining = TRUE]

BeginClose == gate' = [gate EXCEPT !.announced = FALSE, !.draining = TRUE]

(* StartupSlotFailurePolicy::try_demote.  A slot that already left the     *)
(* barrier, or was retired, is not demoted; a veto that cannot become      *)
(* durable closes the gate and is fatal.  The worker parks in every case.  *)
TryDemote(s, i) ==
    /\ slot[s].w[i] = "demoting" /\ life.down # "down"
    /\ Put(s, [slot[s] EXCEPT !.w[i] = "parked"])
    /\ \/ /\ s \notin barrier \/ s \notin pub.registered
          /\ UNCHANGED <<pub, barrier, gate, life, used>>
       \/ /\ s \in barrier /\ s \in pub.registered
          /\ pub' = [pub EXCEPT !.demoted = @ \cup {s}]
          /\ barrier' = barrier \ {s}
          /\ UNCHANGED <<gate, life, used>>
       \/ /\ s \in barrier /\ s \in pub.registered /\ pub.src.slot[s[1]] = s[2]
          /\ WriteFails
          /\ BeginClose
          /\ life' = [life EXCEPT !.fatal = TRUE]
          /\ UNCHANGED <<pub, barrier>>
    /\ UNCHANGED <<doc, proposed, proposals, cur, plan, router, row, cooling>>

(* park_until_retired returns.                                             *)
ParkedReturns(s, i) ==
    /\ slot[s].w[i] = "parked" /\ slot[s].st = "retiring"
    /\ Put(s, [slot[s] EXCEPT !.w[i] = "gone"])
    /\ UNCHANGED <<doc, proposed, proposals, cur, plan, pub, barrier, gate, router, row,
                   cooling, life, used>>

(* daemon.run takes the next queued request; a row another delivery        *)
(* already took is refused by the claim.                                   *)
Serve(s, i) ==
    /\ slot[s].w[i] = "running" /\ slot[s].q # <<>> /\ life.down # "down"
    /\ slot' = [slot EXCEPT ![s].q = Tail(@)]
    /\ row' = [row EXCEPT ![Head(slot[s].q)] = IF @ = "pending" THEN "taken" ELSE @]
    /\ UNCHANGED <<doc, proposed, proposals, cur, plan, pub, barrier, gate, router, cooling,
                   life, used>>

(* process_request panics: catch_unwind treats it as one more failure of   *)
(* the slot.                                                               *)
ServePanics(s, i) ==
    /\ slot[s].w[i] = "running" /\ slot[s].q # <<>> /\ life.down # "down"
    /\ used.panics < used.limit.panics
    /\ row' = [row EXCEPT ![Head(slot[s].q)] = IF @ = "pending" THEN "taken" ELSE @]
    /\ Put(s, [Failed(s, i) EXCEPT !.q = Tail(@)])
    /\ used' = [used EXCEPT !.panics = @ + 1]
    /\ UNCHANGED <<doc, proposed, proposals, cur, plan, pub, barrier, gate, router, cooling, life>>

(* recv() yields None: the slot is retiring, its queue is drained and no   *)
(* snapshot still holds its dispatcher.                                    *)
WorkerDrained(s, i) ==
    /\ slot[s].w[i] = "running" /\ slot[s].st = "retiring" /\ slot[s].q = <<>>
    /\ router.snap.disp[s[1]] # s[2] \/ router.pc \in {"failed", "stopped"}
    /\ Put(s, [slot[s] EXCEPT !.w[i] = "gone"])
    /\ UNCHANGED <<doc, proposed, proposals, cur, plan, pub, barrier, gate, router, row,
                   cooling, life, used>>

-----------------------------------------------------------------------------
(* Router.                                                                 *)

Aligned == pub.src.gen = cur.gen
Guarded == router.pc \in {"entered", "sending"}

(* run_router: wait_open.                                                  *)
RouterOpens ==
    /\ router.pc = "waitopen" /\ gate.announced /\ Up
    /\ router' = [router EXCEPT !.pc = "idle"]
    /\ UNCHANGED <<doc, proposed, proposals, cur, plan, slot, pub, barrier, gate, row, cooling,
                   life, used>>

(* wait_for_next_request_with_latest_snapshot: the latest snapshot is      *)
(* borrowed, and once the readiness source matches it the router           *)
(* acknowledges the generation durably; a failing write closes the gate.   *)
RouterObserves ==
    /\ router.pc \in {"idle", "holding"} /\ gate.announced
    /\ \/ /\ router.snap # cur
          /\ router' = [router EXCEPT !.snap = cur]
          /\ UNCHANGED <<pub, gate, used>>
       \/ /\ router.snap = cur /\ Aligned /\ pub.router # cur.gen
          /\ pub' = [pub EXCEPT !.router = cur.gen]
          /\ UNCHANGED <<router, gate, used>>
       \/ /\ router.snap = cur /\ Aligned /\ pub.router # cur.gen
          /\ WriteFails
          /\ router' = [router EXCEPT !.pc = "failed", !.req = {}]
          /\ BeginClose
          /\ UNCHANGED pub
    /\ UNCHANGED <<doc, proposed, proposals, cur, plan, slot, barrier, row, cooling, life>>

(* watcher.next_request: a pending row that is not cooling down.           *)
RouterDequeues(r) ==
    /\ router.pc = "idle" /\ gate.announced
    /\ router.snap = cur /\ Aligned /\ pub.router = cur.gen
    /\ row[r] = "pending" /\ r \notin cooling
    /\ router' = [router EXCEPT !.pc = "holding", !.req = {r}]
    /\ cooling' = cooling \cup {r}
    /\ UNCHANGED <<doc, proposed, proposals, cur, plan, slot, pub, barrier, gate, row, life, used>>

(* Mutant: an entry is dropped only once its request has left pending.     *)
Mutant_CooldownEnds(r) ==
    /\ r \in cooling /\ row[r] # "pending"
    /\ cooling' = cooling \ {r}
    /\ UNCHANGED <<doc, proposed, proposals, cur, plan, slot, pub, barrier, gate, router, row,
                   life, used>>

(* PROCESSED_REQUEST_COOLDOWN elapsed.                                     *)
CooldownEnds(r) ==
    /\ r \in cooling
    /\ cooling' = cooling \ {r}
    /\ UNCHANGED <<doc, proposed, proposals, cur, plan, slot, pub, barrier, gate, router, row,
                   life, used>>

(* The dequeued request is only handed out with an aligned, acknowledged   *)
(* snapshot and the vetoes observed with it.                               *)
(* Mutant: the request goes out although source and snapshot differ.       *)
Mutant_RouteUnaligned ==
    /\ router.pc = "holding" /\ gate.announced
    /\ router' = [router EXCEPT !.pc = "routed", !.veto = Vetoed]
    /\ UNCHANGED <<doc, proposed, proposals, cur, plan, slot, pub, barrier, gate, row, cooling,
                   life, used>>

RouterRoutes ==
    /\ router.pc = "holding" /\ gate.announced
    /\ router.snap = cur /\ Aligned /\ pub.router = cur.gen
    /\ router' = [router EXCEPT !.pc = "routed", !.veto = Vetoed]
    /\ UNCHANGED <<doc, proposed, proposals, cur, plan, slot, pub, barrier, gate, row, cooling,
                   life, used>>

(* RuntimeAdmissionGate::enter: a waiting writer keeps new readers out.    *)
RouterEnters ==
    /\ router.pc = "routed" /\ ~gate.draining
    /\ router' = IF gate.lock THEN [router EXCEPT !.pc = "entered"]
                 ELSE [router EXCEPT !.pc = "stopped", !.req = {}]
    /\ UNCHANGED <<doc, proposed, proposals, cur, plan, slot, pub, barrier, gate, row, cooling,
                   life, used>>

(* effective_behavior_admission after the behavior is resolved: a missing  *)
(* dispatcher or a demotion rejects the request, otherwise it is sent.     *)
RouterAdmits ==
    /\ router.pc = "entered"
    /\ \E r \in router.req :
         IF router.snap.disp[Target[r]] = 0 \/ Target[r] \in router.veto
         THEN /\ row' = [row EXCEPT ![r] = IF @ = "pending" THEN "rejected" ELSE @]
              /\ router' = [router EXCEPT !.pc = "idle", !.req = {}]
         ELSE /\ router' = [router EXCEPT !.pc = "sending"]
              /\ UNCHANGED row
    /\ UNCHANGED <<doc, proposed, proposals, cur, plan, slot, pub, barrier, gate, cooling, life,
                   used>>

(* The executor channel holds QueueCap requests.                           *)
HasRoom(s) == Len(slot[s].q) < QueueCap

(* dispatcher.send on the snapshot the request was routed with; it waits   *)
(* while the queue is full, and a closed channel is a router error that    *)
(* closes the gate.  The announced close is polled first.                  *)
RouterSends ==
    /\ router.pc = "sending" /\ gate.announced
    /\ \E r \in router.req :
         LET s == <<Target[r], router.snap.disp[Target[r]]>>
         IN  \/ /\ slot[s].st = "closed"
                /\ router' = [router EXCEPT !.pc = "failed", !.req = {}]
                /\ BeginClose
                /\ UNCHANGED slot
             \/ /\ slot[s].st # "closed" /\ HasRoom(s)
                /\ slot' = [slot EXCEPT ![s].q = Append(@, r)]
                /\ router' = [router EXCEPT !.pc = "idle", !.req = {}]
                /\ UNCHANGED gate
    /\ UNCHANGED <<doc, proposed, proposals, cur, plan, pub, barrier, row, cooling, life, used>>

(* Every wait of the router selects on the announcement: it drops what it  *)
(* holds, read lease included, and returns.                                *)
RouterStops ==
    /\ router.pc \in {"idle", "holding", "sending"} /\ ~gate.announced
    /\ router' = [router EXCEPT !.pc = "stopped", !.req = {}]
    /\ UNCHANGED <<doc, proposed, proposals, cur, plan, slot, pub, barrier, gate, row, cooling,
                   life, used>>

-----------------------------------------------------------------------------
(* RuntimeLifecycleCoordinator.                                            *)

(* become_ready: the durable Ready row comes before the open gate.         *)
BecomeReady ==
    /\ Up /\ pub.process = "recovering" /\ barrier = {} /\ ~gate.draining
    /\ \/ /\ pub' = [pub EXCEPT !.process = "ready"]
          /\ gate' = [gate EXCEPT !.lock = TRUE, !.announced = TRUE]
          /\ UNCHANGED <<life, used>>
       \/ /\ ~life.fatal /\ WriteFails
          /\ life' = [life EXCEPT !.fatal = TRUE]
          /\ UNCHANGED <<pub, gate>>
    /\ UNCHANGED <<doc, proposed, proposals, cur, plan, slot, barrier, router, row, cooling>>

(* The lock half of close(): it waits for the router's read lease.         *)
(* Mutant: the read lease is not waited for.                               *)
Mutant_GateDrained ==
    /\ gate.draining
    /\ gate' = [gate EXCEPT !.lock = FALSE, !.draining = FALSE]
    /\ UNCHANGED <<doc, proposed, proposals, cur, plan, slot, pub, barrier, router, row,
                   cooling, life, used>>

GateDrained ==
    /\ gate.draining /\ ~Guarded
    /\ gate' = [gate EXCEPT !.lock = FALSE, !.draining = FALSE]
    /\ UNCHANGED <<doc, proposed, proposals, cur, plan, slot, pub, barrier, router, row,
                   cooling, life, used>>

(* begin_shutdown on an external signal, a fatal error or a failed router: *)
(* closing is set and the gate closes ...                                  *)
BeginShutdown ==
    /\ Up
    /\ life' = [life EXCEPT !.down = "closing"]
    /\ BeginClose
    /\ UNCHANGED <<doc, proposed, proposals, cur, plan, slot, pub, barrier, router, row,
                   cooling, used>>

(* ... and ShuttingDown is published after the drain; a failing write is   *)
(* reported and teardown goes on.                                          *)
ShutdownPublished ==
    /\ life.down = "closing" /\ ~gate.draining
    /\ life' = [life EXCEPT !.down = "down"]
    /\ \/ pub' = [pub EXCEPT !.process = "shuttingdown"] /\ UNCHANGED used
       \/ WriteFails /\ UNCHANGED pub
    /\ UNCHANGED <<doc, proposed, proposals, cur, plan, slot, barrier, gate, router, row,
                   cooling>>

-----------------------------------------------------------------------------
WorkerStep(s, i) ==
    \/ WorkerStart(s, i) \/ BuildFails(s, i) \/ WorkerRestart(s, i) \/ TryDemote(s, i)
    \/ ParkedReturns(s, i) \/ Serve(s, i) \/ ServePanics(s, i) \/ WorkerDrained(s, i)

SupervisorStep ==
    \/ ProposalNoop \/ StageSlots \/ PublishSource \/ AbortStaged \/ InstallSnapshot
    \/ RetireReplaced

RouterStep ==
    \/ RouterOpens \/ RouterObserves \/ RouterRoutes \/ RouterEnters \/ RouterAdmits
    \/ RouterSends \/ RouterStops

Next ==
    \/ \E c \in Config : EditDocuments(c)
    \/ ProposeSnapshot
    \/ SupervisorStep
    \/ \E s \in Slot, i \in Worker : WorkerStep(s, i)
    \/ RouterStep
    \/ \E r \in Request : RouterDequeues(r) \/ CooldownEnds(r)
    \/ BecomeReady \/ GateDrained \/ BeginShutdown \/ ShutdownPublished

Spec == Init /\ [][Next]_vars

(* Every task of the runtime keeps being scheduled, timers fire, a router  *)
(* that finds claimable rows takes each of them in the end, and a fatal or *)
(* router error reaches the coordinator.  Nobody is forced to edit or to   *)
(* shut down, and no build, panic or write is forced to fail.              *)
Fairness ==
    /\ WF_vars(ProposeSnapshot) /\ WF_vars(SupervisorStep) /\ WF_vars(RouterStep)
    /\ \A s \in Slot, i \in Worker :
         /\ WF_vars(WorkerStart(s, i) \/ BuildFails(s, i)) /\ WF_vars(WorkerRestart(s, i))
         /\ WF_vars(TryDemote(s, i)) /\ WF_vars(ParkedReturns(s, i))
         /\ WF_vars(Serve(s, i)) /\ WF_vars(WorkerDrained(s, i))
    /\ \A r \in Request : SF_vars(RouterDequeues(r)) /\ WF_vars(CooldownEnds(r))
    /\ WF_vars(BecomeReady) /\ WF_vars(GateDrained) /\ WF_vars(ShutdownPublished)
    /\ WF_vars((life.fatal \/ router.pc = "failed") /\ BeginShutdown)

FairSpec == Spec /\ Fairness

-----------------------------------------------------------------------------
Broken == ~Up \/ life.fatal \/ router.pc \in {"failed", "stopped"}

(* A request is queued for an executor or rejected by the router only      *)
(* while the durable process state is Ready and the admission lock is      *)
(* open: not before Ready is persisted, not after close() has returned,    *)
(* not once ShuttingDown is published (become_ready, begin_shutdown,       *)
(* RuntimeAdmissionGate).                                                  *)
RoutesOnlyWhenReady ==
    [][(\/ \E s \in Slot : Len(slot'[s].q) > Len(slot[s].q)
        \/ \E r \in Request : row'[r] = "rejected" /\ row[r] # "rejected")
          => pub.process = "ready" /\ gate.lock]_vars

(* Between two applications the readiness publisher knows exactly the      *)
(* slots the supervisor owns, and the published source ties every          *)
(* dispatcher to its own slot, so a demotion vetoes the slot it is about:  *)
(* no applied or rolled-back generation leaks a registration.              *)
RegisteredAreOwned ==
    plan.phase = "idle" =>
        /\ pub.registered = {s \in Slot : cur.disp[s[1]] = s[2]}
        /\ pub.src = [gen |-> cur.gen, slot |-> cur.disp]

(* The vetoes a request is routed with are those of the very slots its     *)
(* snapshot dispatches to: the router never pairs the dispatchers of one   *)
(* generation with the demotions of another, though source and snapshot    *)
(* are published one after the other.                                      *)
VetoMatchesDispatcher ==
    [][(router.pc = "holding" /\ router'.pc = "routed")
          => router'.veto = {b \in Behavior : <<b, router'.snap.disp[b]>> \in pub.demoted}]_vars

(* close() returns: once closure is announced or awaited, the lock is      *)
(* taken even if the router was blocked on the full queue of a slot that   *)
(* never reads again.                                                      *)
CloseCompletes == gate.draining ~> ~gate.draining

(* The startup barrier opens: every slot that was ever registered starts,  *)
(* is demoted within its failure budget, or is superseded.                 *)
BarrierReleases == (barrier # {}) ~> (barrier = {} \/ Broken)

(* The runtime ends up running the configuration the documents hold        *)
(* (docs/gents.md: "When configuration documents change, the runtime       *)
(* reconciles: it resolves the new configuration, applies it"), unless a   *)
(* readiness write failed.                                                 *)
ConfigConverges == <>[](cur.cfg = doc \/ Broken \/ used.faults > 0)

(* Every worker of the behavior's slot has parked, and no veto says so (it *)
(* used up its failure budget after it had started), or the veto came when *)
(* the router had already begun to wait for room in the queue.             *)
Abandoned(b) ==
    LET s == <<b, cur.disp[b]>>
    IN  /\ cur.disp[b] # 0 /\ \A i \in Worker : slot[s].w[i] = "parked"
        /\ s \notin pub.demoted \/ router.pc = "sending"

(* A pending request is executed or rejected, though its slot may be       *)
(* replaced while it is queued and the queue dropped, unless the slot was  *)
(* abandoned.                                                              *)
ServedOrRejected ==
    \A r \in Request :
        (row[r] = "pending") ~> (row[r] # "pending" \/ Broken \/ Abandoned(Target[r]))

(* A reconcile never takes the router down: it fails only on a readiness   *)
(* write (docs/gents.md: "no restart, no dropped work").                   *)
RouterOutlivesReconcile == router.pc = "failed" => used.faults > 0

(* A slot that will never read its queue again is vetoed for the router:   *)
(* once every worker of an active slot has parked, its demotion is         *)
(* published or routing is closed.                                         *)
ParkedIsVetoed ==
    \A b \in Behavior :
        LET s == <<b, cur.disp[b]>>
        IN  cur.disp[b] # 0 /\ (\A i \in Worker : slot[s].w[i] = "parked")
              => s \in pub.demoted \/ ~gate.announced

(* A pending request for a demoted behavior is turned away.                *)
DemotedIsRefused ==
    \A r \in Request :
        (row[r] = "pending" /\ Target[r] \in Vetoed)
            ~> (row[r] # "pending" \/ Target[r] \notin Vetoed \/ Broken)
=============================================================================
