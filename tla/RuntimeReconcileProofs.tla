----------------------- MODULE RuntimeReconcileProofs -----------------------
(***************************************************************************)
(* Hot reload, for any behaviors, requests, configurations and bounds: no  *)
(* registration leaks, vetoes and dispatchers are of one generation, and   *)
(* requests are routed only while the runtime is ready.                    *)
(***************************************************************************)
EXTENDS RuntimeReconcile, TLAPS

Owned == {s \in Slot : cur.disp[s[1]] = s[2]}

WStates == {"building", "backoff", "running", "demoting", "parked", "gone"}
Slots == [st : {"none", "live", "retiring", "closed"}, w : [Worker -> WStates],
          fails : 0 .. Budget, q : Seq(Request)]
Pubs  == [src : [gen : Gen, slot : [Behavior -> Gen \cup {0}]], registered : SUBSET Slot,
          demoted : SUBSET Slot, router : Gen \cup {0},
          process : {"recovering", "ready", "shuttingdown"}]
Snaps == [gen : Gen, cfg : Config, disp : [Behavior -> Gen \cup {0}]]
Plans == [phase : {"idle", "staged", "published", "aborting", "retiring"}, cfg : Config]
Pcs   == {"waitopen", "idle", "holding", "routed", "entered", "sending", "failed", "stopped"}
Routers == [pc : Pcs, req : SUBSET Request, snap : Snaps, veto : SUBSET Behavior]
Gates == [lock : BOOLEAN, announced : BOOLEAN, draining : BOOLEAN]
Lives == [down : {"no", "closing", "down"}, fatal : BOOLEAN]
Uses  == [edits : Nat, fails : Nat, panics : Nat, faults : Nat, limit : Limits]

Types ==
    /\ doc \in Config /\ proposals \in Seq(Config)
    /\ cur \in Snaps /\ plan \in Plans /\ pub \in Pubs
    /\ slot \in [Slot -> Slots] /\ router \in Routers /\ gate \in Gates /\ life \in Lives
    /\ row \in [Request -> {"pending", "taken", "rejected"}]
    /\ used \in Uses /\ used.edits <= used.limit.edits

(* Every generation is paid for by an edit: those that were installed, the *)
(* one being applied, the proposals that wait and the edit that is not yet *)
(* proposed.  The boot configuration may be proposed once for nothing.     *)
Busy   == IF plan.phase \in {"staged", "published", "aborting"} THEN 1 ELSE 0
News   == IF doc \in proposed THEN 0 ELSE 1
Outlay == cur.gen + Busy + Len(proposals) + News

BootProposal ==
    /\ cur.cfg = Print0 /\ plan.phase = "idle"
    /\ IF proposals = <<>> THEN proposed = {} /\ doc = Print0 ELSE Head(proposals) = Print0

Paid == Outlay <= used.edits + 1 \/ (Outlay <= used.edits + 2 /\ BootProposal)

(* What is registered and published while a generation is applied.         *)
Applied ==
    /\ \A b \in Behavior : cur.disp[b] <= cur.gen
    /\ plan.phase = "idle" => pub.registered = Owned
    /\ plan.phase \in {"staged", "published", "aborting"} => pub.registered = Owned \cup Staged
    /\ plan.phase = "retiring" => Owned \subseteq pub.registered
    /\ pub.src = IF plan.phase = "published" THEN [gen |-> NextGen, slot |-> NextDisp]
                                             ELSE [gen |-> cur.gen, slot |-> cur.disp]

(* The admission lock is open only while the durable state is Ready, and a *)
(* router inside holds it open.                                            *)
GateAgrees ==
    /\ gate.lock => pub.process = "ready" /\ life.down # "down"
    /\ Guarded => gate.lock
    /\ life.down = "closing" => gate.draining \/ ~gate.lock

ReconcileInv == Types /\ Paid /\ Applied /\ GateAgrees

-----------------------------------------------------------------------------
(* What the steps other than the supervisor's and the watcher's leave      *)
(* alone: the generations, what is registered and the published source.    *)
Calm ==
    /\ UNCHANGED <<doc, proposed, proposals, cur, plan>>
    /\ used'.edits = used.edits /\ used'.limit = used.limit
    /\ pub'.registered = pub.registered /\ pub'.src = pub.src

(* No request is queued and none is rejected.                              *)
Quiet ==
    /\ \A s \in Slot : Len(slot'[s].q) <= Len(slot[s].q)
    /\ \A r \in Request : row'[r] = "rejected" => row[r] = "rejected"

(* The gate at most begins to drain, and a router enters it only open.     *)
GateQuiet ==
    /\ gate'.lock = gate.lock /\ (gate.draining => gate'.draining)
    /\ life'.down = life.down /\ pub'.process = pub.process
    /\ Guarded' => Guarded \/ gate.lock

LEMMA GateStays == GateAgrees /\ GateQuiet => GateAgrees'
BY Zenon DEF GateAgrees, GateQuiet

LEMMA CalmStays ==
    ASSUME Types, Paid, Applied, Calm
    PROVE  Paid' /\ Applied'
<1>1. Owned' = Owned /\ Staged' = Staged /\ NextDisp' = NextDisp /\ NextGen' = NextGen
  BY DEF Calm, Owned, Staged, Recreated, NextDisp, NextGen, Dispatch
<1>2. Applied'
  BY <1>1 DEF Applied, Calm
<1>3. Paid'
  BY DEF Paid, Outlay, Busy, News, BootProposal, Calm
<1> QED  BY <1>2, <1>3

-----------------------------------------------------------------------------
(* Sequences.                                                              *)
LEMMA SeqLen ==
    ASSUME NEW S, NEW s \in Seq(S)
    PROVE  Len(s) \in Nat /\ s \in [1 .. Len(s) -> S] /\ DOMAIN s = 1 .. Len(s)
  BY SMT

LEMMA SeqEmpty ==
    ASSUME NEW S
    PROVE  <<>> \in Seq(S) /\ Len(<<>>) = 0 /\ \A s \in Seq(S) : s # <<>> => Len(s) \in Nat \ {0}
  BY SMT

LEMMA SeqAppend ==
    ASSUME NEW S, NEW s \in Seq(S), NEW e \in S
    PROVE  /\ Append(s, e) \in Seq(S) /\ Append(s, e) # <<>> /\ Len(Append(s, e)) = Len(s) + 1
           /\ \A i \in 1 .. Len(s) : Append(s, e)[i] = s[i]
           /\ Append(s, e)[Len(s) + 1] = e
  BY SMT

LEMMA SeqHeadTail ==
    ASSUME NEW S, NEW s \in Seq(S), s # <<>>
    PROVE  /\ Head(s) \in S /\ Tail(s) \in Seq(S) /\ Len(Tail(s)) = Len(s) - 1
           /\ \A i \in 1 .. Len(Tail(s)) : Tail(s)[i] = s[i + 1]
  BY SMT

-----------------------------------------------------------------------------
(* Records.                                                                *)
LEMMA WorkerFacts ==
    ASSUME NEW a \in Slots, NEW i \in Worker, NEW v \in WStates
    PROVE  [a EXCEPT !.w[i] = v] \in Slots /\ [a EXCEPT !.w[i] = v].q = a.q
BY DEF Slots

LEMMA PutFacts ==
    ASSUME slot \in [Slot -> Slots], NEW s \in Slot, NEW a \in Slots, Put(s, a),
           Len(a.q) <= Len(slot[s].q)
    PROVE  /\ slot' \in [Slot -> Slots]
           /\ \A x \in Slot : Len(slot'[x].q) <= Len(slot[x].q)
<1> DEFINE new == IF \A i \in Worker : a.w[i] = "gone" THEN [a EXCEPT !.st = "closed", !.q = <<>>]
                  ELSE a
<1>1. new \in Slots
  <2>1. [a EXCEPT !.st = "closed", !.q = <<>>] \in Slots
    BY SeqEmpty DEF Slots
  <2> QED  BY <2>1
<1>2. \A x \in Slot : slot[x].q \in Seq(Request) /\ Len(slot[x].q) \in Nat
  BY SeqLen DEF Slots
<1>3. Len(new.q) <= Len(slot[s].q)
  <2>1. CASE new = a
    BY <2>1
  <2>2. CASE new = [a EXCEPT !.st = "closed", !.q = <<>>]
    <3>1. new.q = <<>>
      BY <2>2 DEF Slots
    <3> QED  BY <3>1, <1>2
  <2> QED  BY <2>1, <2>2
<1>4. slot' = [slot EXCEPT ![s] = new]
  BY DEF Put
<1> HIDE DEF new
<1>5. slot' \in [Slot -> Slots]
  BY <1>1, <1>4
<1>6. \A x \in Slot : Len(slot'[x].q) <= Len(slot[x].q)
  <2> TAKE x \in Slot
  <2>1. CASE x = s
    BY <2>1, <1>3, <1>4
  <2>2. CASE x # s
    <3>1. slot'[x] = slot[x]
      BY <2>2, <1>4
    <3> QED  BY <3>1, <1>2
  <2> QED  BY <2>1, <2>2
<1> QED  BY <1>5, <1>6

LEMMA FailedFacts ==
    ASSUME Types, NEW s \in Slot, NEW i \in Worker
    PROVE  Failed(s, i) \in Slots /\ Failed(s, i).q = slot[s].q
<1>1. slot[s] \in Slots /\ Budget \in Nat /\ slot[s].fails \in 0 .. Budget
  BY ReconcileAssumption DEF Types, Slots
<1>2. CASE slot[s].fails = Budget
  <2>1. Failed(s, i) = [slot[s] EXCEPT !.w[i] = "parked"]
    BY <1>2 DEF Failed
  <2>2. "parked" \in WStates
    BY DEF WStates
  <2> QED  BY <2>1, <2>2, <1>1, WorkerFacts
<1>3. CASE slot[s].fails # Budget /\ slot[s].fails + 1 < Budget
  <2>1. Failed(s, i) = [slot[s] EXCEPT !.w[i] = "backoff", !.fails = @ + 1]
    BY <1>3 DEF Failed
  <2>2. slot[s].fails + 1 \in 0 .. Budget
    BY <1>1, <1>3
  <2>3. "backoff" \in WStates
    BY DEF WStates
  <2> DEFINE a == [slot[s] EXCEPT !.w[i] = "backoff"]
  <2>4. a \in Slots /\ a.q = slot[s].q
    BY <2>3, <1>1, WorkerFacts
  <2>5. Failed(s, i) = [a EXCEPT !.fails = slot[s].fails + 1]
    BY <2>1, <1>1 DEF Slots
  <2> HIDE DEF a
  <2> QED  BY <2>2, <2>4, <2>5 DEF Slots
<1>4. CASE slot[s].fails # Budget /\ ~(slot[s].fails + 1 < Budget)
  <2>1. Failed(s, i) = [slot[s] EXCEPT !.w[i] = "demoting", !.fails = Budget]
    BY <1>4 DEF Failed
  <2>2. "demoting" \in WStates /\ Budget \in 0 .. Budget
    BY <1>1 DEF WStates
  <2> DEFINE a == [slot[s] EXCEPT !.w[i] = "demoting"]
  <2>4. a \in Slots /\ a.q = slot[s].q
    BY <2>2, <1>1, WorkerFacts
  <2>5. Failed(s, i) = [a EXCEPT !.fails = Budget]
    BY <2>1, <1>1 DEF Slots
  <2> HIDE DEF a
  <2> QED  BY <2>2, <2>4, <2>5 DEF Slots
<1> QED  BY <1>2, <1>3, <1>4

LEMMA PubFacts ==
    ASSUME pub \in Pubs, NEW d \in SUBSET Slot, pub' = [pub EXCEPT !.demoted = d]
    PROVE  /\ pub' \in Pubs /\ pub'.registered = pub.registered /\ pub'.src = pub.src
           /\ pub'.process = pub.process
BY DEF Pubs

LEMMA CloseFacts ==
    ASSUME gate \in Gates, BeginClose
    PROVE  gate' \in Gates /\ gate'.lock = gate.lock /\ gate'.draining = TRUE
BY DEF Gates, BeginClose

LEMMA FaultFacts ==
    ASSUME Types, WriteFails
    PROVE  used' \in Uses /\ used'.edits = used.edits /\ used'.limit = used.limit
<1>1. used.faults + 1 \in Nat
  BY DEF Types, Uses
<1> QED  BY <1>1 DEF Types, Uses, WriteFails

-----------------------------------------------------------------------------
(* Slot workers.                                                           *)
Benign ==
    /\ Calm /\ Types' /\ GateQuiet /\ (Quiet \/ Guarded)
    /\ router'.pc = "routed" => router.pc = "routed"

(* A worker moves to another state and everything else stays.              *)
LEMMA WorkerMoves ==
    ASSUME Types, NEW s \in Slot, NEW a \in Slots, a.q = slot[s].q, Put(s, a)
    PROVE  /\ slot' \in [Slot -> Slots]
           /\ \A x \in Slot : Len(slot'[x].q) <= Len(slot[x].q)
<1>1. slot \in [Slot -> Slots] /\ Len(a.q) <= Len(slot[s].q)
  <2>1. slot[s].q \in Seq(Request)
    BY DEF Types, Slots
  <2>2. Len(slot[s].q) \in Nat
    BY <2>1, SeqLen
  <2> QED  BY <2>2 DEF Types
<1> QED  BY <1>1, PutFacts

LEMMA WorkerStartSafe ==
    ASSUME Types, NEW s \in Slot, NEW i \in Worker, WorkerStart(s, i)
    PROVE  Benign
<1>1. "running" \in WStates /\ slot[s] \in Slots
  BY DEF WStates, Types
<1>2. Put(s, [slot[s] EXCEPT !.w[i] = "running"])
  BY DEF WorkerStart
<1>3. /\ slot' \in [Slot -> Slots]
      /\ \A x \in Slot : Len(slot'[x].q) <= Len(slot[x].q)
  BY <1>1, <1>2, WorkerFacts, WorkerMoves
<1>4. /\ pub' \in Pubs /\ pub'.registered = pub.registered /\ pub'.src = pub.src
      /\ pub'.process = pub.process
  <2>1. CASE s \in pub.registered
    <3>1. pub' = [pub EXCEPT !.demoted = pub.demoted \ {s}]
      BY <2>1 DEF WorkerStart
    <3>2. pub \in Pubs /\ pub.demoted \ {s} \in SUBSET Slot
      BY DEF Types, Pubs
    <3> QED  BY <3>1, <3>2, PubFacts
  <2>2. CASE s \notin pub.registered
    BY <2>2 DEF WorkerStart, Types
  <2> QED  BY <2>1, <2>2
<1>5. UNCHANGED <<doc, proposed, proposals, cur, plan, gate, router, row, life, used>>
  BY DEF WorkerStart
<1>6. Calm /\ Quiet
  BY <1>3, <1>4, <1>5 DEF Calm, Quiet
<1>7. GateQuiet
  BY <1>4, <1>5, Zenon DEF GateQuiet, Guarded
<1>8. Types'
  BY <1>3, <1>4, <1>5 DEF Types
<1> QED  BY <1>5, <1>6, <1>7, <1>8 DEF Benign

(* A worker step that leaves the publisher, the gate and the router alone. *)
LEMMA InsideSafe ==
    ASSUME Types,
           slot' \in [Slot -> Slots],
           \A x \in Slot : Len(slot'[x].q) <= Len(slot[x].q),
           row' \in [Request -> {"pending", "taken", "rejected"}],
           \A r \in Request : row'[r] = "rejected" => row[r] = "rejected",
           used' \in Uses, used'.edits = used.edits, used'.limit = used.limit,
           UNCHANGED <<doc, proposed, proposals, cur, plan, pub, gate, router, life>>
    PROVE  Benign
<1>1. Calm /\ Quiet
  BY DEF Calm, Quiet
<1>2. GateQuiet
  BY Zenon DEF GateQuiet, Guarded
<1>3. Types'
  BY DEF Types
<1> QED  BY <1>1, <1>2, <1>3 DEF Benign

LEMMA BuildFailsSafe ==
    ASSUME Types, NEW s \in Slot, NEW i \in Worker, BuildFails(s, i)
    PROVE  Benign
<1>1. /\ slot' \in [Slot -> Slots]
      /\ \A x \in Slot : Len(slot'[x].q) <= Len(slot[x].q)
  BY FailedFacts, WorkerMoves DEF BuildFails
<1>2. used' \in Uses /\ used'.edits = used.edits /\ used'.limit = used.limit
  <2>1. used.fails + 1 \in Nat
    BY DEF Types, Uses
  <2> QED  BY <2>1 DEF BuildFails, Types, Uses
<1> QED  BY <1>1, <1>2, InsideSafe DEF BuildFails, Types

(* A worker of slot s moves to v.                                          *)
LEMMA MoveSafe ==
    ASSUME Types, NEW s \in Slot, NEW i \in Worker, NEW v \in WStates,
           Put(s, [slot[s] EXCEPT !.w[i] = v]),
           UNCHANGED <<doc, proposed, proposals, cur, plan, pub, gate, router, row, life, used>>
    PROVE  Benign
<1>1. slot[s] \in Slots
  BY DEF Types
<1>2. /\ slot' \in [Slot -> Slots]
      /\ \A x \in Slot : Len(slot'[x].q) <= Len(slot[x].q)
  BY <1>1, WorkerFacts, WorkerMoves
<1> QED  BY <1>2, InsideSafe DEF Types

LEMMA TryDemoteSafe ==
    ASSUME Types, NEW s \in Slot, NEW i \in Worker, TryDemote(s, i)
    PROVE  Benign
<1>1. "parked" \in WStates /\ slot[s] \in Slots
  BY DEF WStates, Types
<1>2. Put(s, [slot[s] EXCEPT !.w[i] = "parked"])
  BY DEF TryDemote
<1>3. /\ slot' \in [Slot -> Slots]
      /\ \A x \in Slot : Len(slot'[x].q) <= Len(slot[x].q)
  BY <1>1, <1>2, WorkerFacts, WorkerMoves
<1>4. UNCHANGED <<doc, proposed, proposals, cur, plan, router, row>>
  BY DEF TryDemote
<1>5. CASE UNCHANGED <<pub, gate, life, used>>
  BY <1>3, <1>4, <1>5, InsideSafe DEF Types
<1>6. CASE pub' = [pub EXCEPT !.demoted = @ \cup {s}] /\ UNCHANGED <<gate, life, used>>
  <2>1. /\ pub' \in Pubs /\ pub'.registered = pub.registered /\ pub'.src = pub.src
        /\ pub'.process = pub.process
    <3>1. pub' = [pub EXCEPT !.demoted = pub.demoted \cup {s}]
      BY <1>6
    <3>2. pub \in Pubs /\ pub.demoted \cup {s} \in SUBSET Slot
      BY DEF Types, Pubs
    <3> QED  BY <3>1, <3>2, PubFacts
  <2>2. Calm /\ Quiet
    BY <1>3, <1>4, <1>6, <2>1 DEF Calm, Quiet
  <2>3. GateQuiet
    BY <1>4, <1>6, <2>1, Zenon DEF GateQuiet, Guarded
  <2>4. Types'
    BY <1>3, <1>4, <1>6, <2>1 DEF Types
  <2> QED  BY <1>4, <2>2, <2>3, <2>4 DEF Benign
<1>7. CASE WriteFails /\ BeginClose /\ life' = [life EXCEPT !.fatal = TRUE] /\ UNCHANGED pub
  <2>1. used' \in Uses /\ used'.edits = used.edits /\ used'.limit = used.limit
    BY <1>7, FaultFacts
  <2>2. gate' \in Gates /\ gate'.lock = gate.lock /\ gate'.draining = TRUE
    BY <1>7, CloseFacts DEF Types
  <2>3. life' \in Lives /\ life'.down = life.down
    BY <1>7 DEF Types, Lives
  <2>4. Calm /\ Quiet
    BY <1>3, <1>4, <1>7, <2>1 DEF Calm, Quiet
  <2>5. GateQuiet
    BY <1>4, <1>7, <2>2, <2>3, Zenon DEF GateQuiet, Guarded
  <2>6. Types'
    BY <1>3, <1>4, <1>7, <2>1, <2>2, <2>3 DEF Types
  <2> QED  BY <1>4, <2>4, <2>5, <2>6 DEF Benign
<1> QED  BY <1>5, <1>6, <1>7, Zenon DEF TryDemote

(* A request leaves the queue of slot s and its row is taken.              *)
LEMMA TakenFacts ==
    ASSUME Types, NEW s \in Slot, slot[s].q # <<>>,
           row' = [row EXCEPT ![Head(slot[s].q)] = IF @ = "pending" THEN "taken" ELSE @]
    PROVE  /\ row' \in [Request -> {"pending", "taken", "rejected"}]
           /\ \A r \in Request : row'[r] = "rejected" => row[r] = "rejected"
           /\ Tail(slot[s].q) \in Seq(Request)
           /\ Len(Tail(slot[s].q)) <= Len(slot[s].q)
<1>1. slot[s].q \in Seq(Request)
  BY DEF Types, Slots
<1>2. /\ Head(slot[s].q) \in Request /\ Tail(slot[s].q) \in Seq(Request)
      /\ Len(Tail(slot[s].q)) = Len(slot[s].q) - 1
  BY <1>1, SeqHeadTail
<1>3. Len(slot[s].q) \in Nat
  BY <1>1, SeqLen
<1>4. row \in [Request -> {"pending", "taken", "rejected"}]
  BY DEF Types
<1>5. /\ row' \in [Request -> {"pending", "taken", "rejected"}]
      /\ \A r \in Request : row'[r] = "rejected" => row[r] = "rejected"
  BY <1>2, <1>4
<1> QED  BY <1>2, <1>3, <1>5

LEMMA ServeSafe ==
    ASSUME Types, NEW s \in Slot, NEW i \in Worker, Serve(s, i)
    PROVE  Benign
<1>1. /\ row' \in [Request -> {"pending", "taken", "rejected"}]
      /\ \A r \in Request : row'[r] = "rejected" => row[r] = "rejected"
      /\ Tail(slot[s].q) \in Seq(Request)
      /\ Len(Tail(slot[s].q)) <= Len(slot[s].q)
  BY TakenFacts DEF Serve
<1> DEFINE new == [slot[s] EXCEPT !.q = Tail(slot[s].q)]
<1>2. new \in Slots /\ new.q = Tail(slot[s].q)
  BY <1>1 DEF Types, Slots
<1>3. slot' = [slot EXCEPT ![s] = new]
  BY DEF Serve
<1> HIDE DEF new
<1>4. slot' \in [Slot -> Slots]
  BY <1>2, <1>3 DEF Types
<1>5. \A x \in Slot : Len(slot'[x].q) <= Len(slot[x].q)
  <2> TAKE x \in Slot
  <2>1. CASE x = s
    BY <2>1, <1>1, <1>2, <1>3 DEF Types
  <2>2. CASE x # s
    <3>1. slot'[x] = slot[x] /\ slot[x].q \in Seq(Request)
      BY <2>2, <1>3 DEF Types, Slots
    <3>2. Len(slot[x].q) \in Nat
      BY <3>1, SeqLen
    <3> QED  BY <3>1, <3>2
  <2> QED  BY <2>1, <2>2
<1> QED  BY <1>1, <1>4, <1>5, InsideSafe DEF Serve, Types

LEMMA ServePanicsSafe ==
    ASSUME Types, NEW s \in Slot, NEW i \in Worker, ServePanics(s, i)
    PROVE  Benign
<1>1. /\ row' \in [Request -> {"pending", "taken", "rejected"}]
      /\ \A r \in Request : row'[r] = "rejected" => row[r] = "rejected"
      /\ Tail(slot[s].q) \in Seq(Request)
      /\ Len(Tail(slot[s].q)) <= Len(slot[s].q)
  BY TakenFacts DEF ServePanics
<1>2. Failed(s, i) \in Slots /\ Failed(s, i).q = slot[s].q
  BY FailedFacts
<1> DEFINE new == [Failed(s, i) EXCEPT !.q = Tail(@)]
<1>3. new \in Slots /\ new.q = Tail(slot[s].q)
  BY <1>1, <1>2 DEF Slots
<1>4. Put(s, new)
  BY DEF ServePanics
<1> HIDE DEF new
<1>5. /\ slot' \in [Slot -> Slots]
      /\ \A x \in Slot : Len(slot'[x].q) <= Len(slot[x].q)
  BY <1>1, <1>3, <1>4, PutFacts DEF Types
<1>6. used' \in Uses /\ used'.edits = used.edits /\ used'.limit = used.limit
  <2>1. used.panics + 1 \in Nat
    BY DEF Types, Uses
  <2> QED  BY <2>1 DEF ServePanics, Types, Uses
<1> QED  BY <1>1, <1>5, <1>6, InsideSafe DEF ServePanics

LEMMA WorkerSafe ==
    ASSUME Types, NEW s \in Slot, NEW i \in Worker, WorkerStep(s, i)
    PROVE  Benign
<1>1. CASE WorkerRestart(s, i)
  <2> DEFINE v == IF slot[s].st = "retiring" THEN "gone"
                  ELSE IF slot[s].fails = Budget THEN "parked" ELSE "building"
  <2>1. v \in WStates
    BY DEF WStates
  <2>2. Put(s, [slot[s] EXCEPT !.w[i] = v])
    BY <1>1 DEF WorkerRestart
  <2> HIDE DEF v
  <2> QED  BY <1>1, <2>1, <2>2, MoveSafe DEF WorkerRestart
<1>2. "gone" \in WStates
  BY DEF WStates
<1>3. CASE ParkedReturns(s, i)
  BY <1>2, <1>3, MoveSafe DEF ParkedReturns
<1>4. CASE WorkerDrained(s, i)
  BY <1>2, <1>4, MoveSafe DEF WorkerDrained
<1> QED  BY <1>1, <1>3, <1>4, WorkerStartSafe, BuildFailsSafe, TryDemoteSafe, ServeSafe,
            ServePanicsSafe DEF WorkerStep

-----------------------------------------------------------------------------
(* The router.                                                             *)

LEMMA LenStays ==
    ASSUME Types
    PROVE  \A x \in Slot : Len(slot[x].q) <= Len(slot[x].q)
<1> TAKE x \in Slot
<1>1. slot[x].q \in Seq(Request)
  BY DEF Types, Slots
<1> QED  BY <1>1, SeqLen

(* Only the router task moves, without entering the gate.                  *)
LEMMA RouterMoves ==
    ASSUME Types, router' \in Routers, router'.pc = "routed" => router.pc = "routed",
           Guarded' => Guarded \/ gate.lock,
           UNCHANGED <<doc, proposed, proposals, cur, plan, slot, pub, gate, row, life, used>>
    PROVE  Benign
<1>2. Calm /\ Quiet
  BY LenStays DEF Calm, Quiet
<1>3. GateQuiet
  BY Zenon DEF GateQuiet
<1>4. Types'
  BY DEF Types
<1> QED  BY <1>2, <1>3, <1>4 DEF Benign

LEMMA RouterOpensSafe == Types /\ RouterOpens => Benign
<1> SUFFICES ASSUME Types, RouterOpens PROVE Benign
  OBVIOUS
<1>1. router' \in Routers /\ router'.pc = "idle"
  BY DEF RouterOpens, Types, Routers, Pcs
<1> QED  BY <1>1, RouterMoves DEF RouterOpens, Guarded

LEMMA RouterEntersSafe == Types /\ RouterEnters => Benign
<1> SUFFICES ASSUME Types, RouterEnters PROVE Benign
  OBVIOUS
<1>1. CASE gate.lock
  <2>1. router' \in Routers /\ router'.pc = "entered"
    BY <1>1 DEF RouterEnters, Types, Routers, Pcs
  <2> QED  BY <1>1, <2>1, RouterMoves DEF RouterEnters
<1>2. CASE ~gate.lock
  <2>1. router' \in Routers /\ router'.pc = "stopped"
    BY <1>2 DEF RouterEnters, Types, Routers, Pcs
  <2> QED  BY <2>1, RouterMoves DEF RouterEnters, Guarded
<1> QED  BY <1>1, <1>2

LEMMA RouterStopsSafe == Types /\ RouterStops => Benign
<1> SUFFICES ASSUME Types, RouterStops PROVE Benign
  OBVIOUS
<1>1. router' \in Routers /\ router'.pc = "stopped"
  BY DEF RouterStops, Types, Routers, Pcs
<1> QED  BY <1>1, RouterMoves DEF RouterStops, Guarded

LEMMA RouterDequeuesSafe ==
    ASSUME Types, NEW r \in Request, RouterDequeues(r)
    PROVE  Benign
<1>1. router' \in Routers /\ router'.pc = "holding"
  BY DEF RouterDequeues, Types, Routers, Pcs
<1> QED  BY <1>1, RouterMoves DEF RouterDequeues, Guarded

LEMMA CooldownSafe ==
    ASSUME Types, NEW r \in Request, CooldownEnds(r)
    PROVE  Benign
BY RouterMoves DEF CooldownEnds, Types, Guarded

LEMMA RouterObservesSafe == Types /\ RouterObserves => Benign
<1> SUFFICES ASSUME Types, RouterObserves PROVE Benign
  OBVIOUS
<1>1. UNCHANGED <<doc, proposed, proposals, cur, plan, slot, row, life>>
  BY DEF RouterObserves
<1>2. CASE router' = [router EXCEPT !.snap = cur] /\ UNCHANGED <<pub, gate, used>>
  <2>1. router' \in Routers /\ router'.pc = router.pc
    BY <1>2 DEF Types, Routers
  <2> QED  BY <1>1, <1>2, <2>1, RouterMoves DEF Guarded
<1>3. CASE pub' = [pub EXCEPT !.router = cur.gen] /\ UNCHANGED <<router, gate, used>>
  <2>1. /\ pub' \in Pubs /\ pub'.registered = pub.registered /\ pub'.src = pub.src
        /\ pub'.process = pub.process
    BY <1>3 DEF Types, Pubs, Snaps
  <2>2. Calm /\ Quiet
    BY <1>1, <1>3, <2>1, LenStays DEF Calm, Quiet
  <2>3. GateQuiet
    BY <1>1, <1>3, <2>1, Zenon DEF GateQuiet, Guarded
  <2>4. Types'
    BY <1>1, <1>3, <2>1 DEF Types
  <2> QED  BY <1>3, <2>2, <2>3, <2>4 DEF Benign
<1>4. CASE /\ WriteFails /\ BeginClose /\ UNCHANGED pub
           /\ router' = [router EXCEPT !.pc = "failed", !.req = {}]
  <2>1. used' \in Uses /\ used'.edits = used.edits /\ used'.limit = used.limit
    BY <1>4, FaultFacts
  <2>2. gate' \in Gates /\ gate'.lock = gate.lock /\ gate'.draining = TRUE
    BY <1>4, CloseFacts DEF Types
  <2>3. router' \in Routers /\ router'.pc = "failed"
    BY <1>4 DEF Types, Routers, Pcs
  <2>4. Calm /\ Quiet
    BY <1>1, <1>4, <2>1, LenStays DEF Calm, Quiet
  <2>5. ~Guarded'
    BY <2>3 DEF Guarded
  <2>6. GateQuiet
    BY <1>1, <1>4, <2>2, <2>5, Zenon DEF GateQuiet
  <2>7. Types'
    BY <1>1, <1>4, <2>1, <2>2, <2>3 DEF Types
  <2> QED  BY <2>3, <2>4, <2>6, <2>7 DEF Benign
<1> QED  BY <1>2, <1>3, <1>4, Zenon DEF RouterObserves

(* Rejection happens under the read lease ...                              *)
LEMMA RouterAdmitsSafe == Types /\ RouterAdmits => Benign
<1> SUFFICES ASSUME Types, RouterAdmits PROVE Benign
  OBVIOUS
<1>1. Guarded /\ UNCHANGED <<doc, proposed, proposals, cur, plan, slot, pub, gate, life, used>>
  BY DEF RouterAdmits, Guarded
<1>2. PICK r \in router.req :
         \/ /\ row' = [row EXCEPT ![r] = IF @ = "pending" THEN "rejected" ELSE @]
            /\ router' = [router EXCEPT !.pc = "idle", !.req = {}]
         \/ router' = [router EXCEPT !.pc = "sending"] /\ UNCHANGED row
  BY DEF RouterAdmits
<1>3. row' \in [Request -> {"pending", "taken", "rejected"}]
  BY <1>2 DEF Types
<1>4. router' \in Routers /\ router'.pc # "routed"
  BY <1>2 DEF Types, Routers, Pcs
<1>5. Calm
  BY <1>1 DEF Calm
<1>6. GateQuiet
  BY <1>1, Zenon DEF GateQuiet
<1>7. Types'
  BY <1>1, <1>3, <1>4 DEF Types
<1> QED  BY <1>1, <1>4, <1>5, <1>6, <1>7 DEF Benign

(* ... and so does sending to an executor.                                 *)
LEMMA RouterSendsSafe == Types /\ RouterSends => Benign
<1> SUFFICES ASSUME Types, RouterSends PROVE Benign
  OBVIOUS
<1>1. Guarded /\ UNCHANGED <<doc, proposed, proposals, cur, plan, pub, row, life, used>>
  BY DEF RouterSends, Guarded
<1>2. PICK r \in router.req :
         LET s == <<Target[r], router.snap.disp[Target[r]]>>
         IN  \/ /\ router' = [router EXCEPT !.pc = "failed", !.req = {}]
                /\ BeginClose /\ UNCHANGED slot
             \/ /\ slot' = [slot EXCEPT ![s].q = Append(@, r)]
                /\ router' = [router EXCEPT !.pc = "idle", !.req = {}]
                /\ UNCHANGED gate
  BY DEF RouterSends
<1> DEFINE s == <<Target[r], router.snap.disp[Target[r]]>>
<1>3. r \in Request
  BY DEF Types, Routers
<1>4. router' \in Routers /\ router'.pc # "routed" /\ ~Guarded'
  BY <1>2 DEF Types, Routers, Pcs, Guarded
<1>5. slot' \in [Slot -> Slots]
  <2>1. CASE UNCHANGED slot
    BY <2>1 DEF Types
  <2>2. CASE slot' = [slot EXCEPT ![s].q = Append(@, r)]
    <3>1. CASE s \in Slot
      <4>1. slot[s] \in Slots /\ slot[s].q \in Seq(Request)
        BY <3>1 DEF Types, Slots
      <4>2. Append(slot[s].q, r) \in Seq(Request)
        BY <4>1, <1>3, SeqAppend
      <4>3. [slot[s] EXCEPT !.q = Append(slot[s].q, r)] \in Slots
        BY <4>1, <4>2 DEF Slots
      <4>4. slot' = [slot EXCEPT ![s] = [slot[s] EXCEPT !.q = Append(slot[s].q, r)]]
        BY <2>2, <3>1
      <4> HIDE DEF s
      <4> QED  BY <3>1, <4>3, <4>4 DEF Types
    <3>2. CASE s \notin Slot
      <4> HIDE DEF s
      <4> QED  BY <2>2, <3>2 DEF Types
    <3> QED  BY <3>1, <3>2
  <2> QED  BY <1>2, <2>1, <2>2
<1>6. gate' \in Gates /\ gate'.lock = gate.lock /\ (gate.draining => gate'.draining)
  <2>1. CASE BeginClose
    <3>1. gate' \in Gates /\ gate'.lock = gate.lock /\ gate'.draining = TRUE
      BY <2>1, CloseFacts DEF Types
    <3> QED  BY <3>1, Zenon
  <2>2. CASE UNCHANGED gate
    BY <2>2, Zenon DEF Types
  <2> QED  BY <1>2, <2>1, <2>2
<1>7. Calm
  BY <1>1 DEF Calm
<1>8. GateQuiet
  BY <1>1, <1>4, <1>6, Zenon DEF GateQuiet
<1>9. Types'
  BY <1>1, <1>4, <1>5, <1>6, Zenon DEF Types
<1> QED  BY <1>1, <1>4, <1>7, <1>8, <1>9 DEF Benign

-----------------------------------------------------------------------------
(* What every step satisfies besides keeping the invariant.                *)
Lawful ==
    /\ Quiet \/ Guarded
    /\ (router.pc = "holding" /\ router'.pc = "routed")
          => router'.veto = {b \in Behavior : <<b, router'.snap.disp[b]>> \in pub.demoted}

LEMMA BenignSafe == ReconcileInv /\ Benign => ReconcileInv' /\ Lawful
<1> SUFFICES ASSUME ReconcileInv, Benign PROVE ReconcileInv' /\ Lawful
  OBVIOUS
<1>1. Paid' /\ Applied'
  BY CalmStays DEF ReconcileInv, Benign
<1>2. GateAgrees'
  BY GateStays DEF ReconcileInv, Benign
<1>3. Lawful
  BY DEF Lawful, Benign
<1> QED  BY <1>1, <1>2, <1>3 DEF ReconcileInv, Benign

(* The request leaves with an aligned snapshot.  While a generation is     *)
(* published and not installed the source is one generation ahead, and at  *)
(* every other time source and snapshot name the same slots.               *)
LEMMA RouterRoutesSafe == ReconcileInv /\ RouterRoutes => ReconcileInv' /\ Lawful
<1> SUFFICES ASSUME ReconcileInv, RouterRoutes PROVE ReconcileInv' /\ Lawful
  OBVIOUS
<1>1. UNCHANGED <<doc, proposed, proposals, cur, plan, slot, pub, gate, row, life, used>>
  BY DEF RouterRoutes
<1>2. router' \in Routers /\ router'.pc = "routed" /\ router'.snap = cur /\ router'.veto = Vetoed
  <2>1. Vetoed \in SUBSET Behavior
    BY DEF Vetoed
  <2> QED  BY <2>1 DEF RouterRoutes, ReconcileInv, Types, Routers, Pcs
<1>3. Calm /\ Quiet
  BY <1>1, LenStays DEF Calm, Quiet, ReconcileInv
<1>4. ~Guarded'
  BY <1>2 DEF Guarded
<1>5. GateQuiet
  BY <1>1, <1>4, Zenon DEF GateQuiet
<1>6. Types'
  BY <1>1, <1>2 DEF ReconcileInv, Types
<1>7. pub.src.slot = cur.disp
  <2>1. pub.src.gen = cur.gen
    BY DEF RouterRoutes, Aligned
  <2>2. cur.gen \in Nat
    BY ReconcileAssumption DEF ReconcileInv, Types, Snaps, Gen
  <2>3. plan.phase # "published"
    BY <2>1, <2>2 DEF ReconcileInv, Applied, NextGen
  <2> QED  BY <2>3 DEF ReconcileInv, Applied
<1>8. router'.veto = {b \in Behavior : <<b, router'.snap.disp[b]>> \in pub.demoted}
  BY <1>2, <1>7 DEF Vetoed
<1>9. Paid' /\ Applied' /\ GateAgrees'
  BY <1>3, <1>5, CalmStays, GateStays DEF ReconcileInv
<1> QED  BY <1>3, <1>6, <1>8, <1>9 DEF ReconcileInv, Lawful

-----------------------------------------------------------------------------
(* The lifecycle coordinator.                                              *)
LEMMA LifecycleSafe ==
    ASSUME ReconcileInv, Calm, Types', GateAgrees', UNCHANGED <<slot, row, router>>
    PROVE  ReconcileInv' /\ Lawful
<1>1. Quiet
  BY LenStays DEF Quiet, ReconcileInv
<1>2. Paid' /\ Applied'
  BY CalmStays DEF ReconcileInv
<1> QED  BY <1>1, <1>2 DEF ReconcileInv, Lawful

LEMMA BecomeReadySafe == ReconcileInv /\ BecomeReady => ReconcileInv' /\ Lawful
<1> SUFFICES ASSUME ReconcileInv, BecomeReady PROVE ReconcileInv' /\ Lawful
  OBVIOUS
<1>1. UNCHANGED <<doc, proposed, proposals, cur, plan, slot, router, row>> /\ life.down = "no"
  BY DEF BecomeReady, Up
<1>2. CASE /\ pub' = [pub EXCEPT !.process = "ready"]
           /\ gate' = [gate EXCEPT !.lock = TRUE, !.announced = TRUE]
           /\ UNCHANGED <<life, used>>
  <2>1. /\ pub' \in Pubs /\ pub'.registered = pub.registered /\ pub'.src = pub.src
        /\ pub'.process = "ready"
    BY <1>2 DEF ReconcileInv, Types, Pubs
  <2>2. gate' \in Gates /\ gate'.lock = TRUE
    BY <1>2 DEF ReconcileInv, Types, Gates
  <2>3. Calm
    BY <1>1, <1>2, <2>1 DEF Calm
  <2>4. Types'
    BY <1>1, <1>2, <2>1, <2>2 DEF ReconcileInv, Types
  <2>5. life'.down = "no"
    BY <1>1, <1>2
  <2>6. GateAgrees'
    BY <2>1, <2>2, <2>5 DEF GateAgrees
  <2> QED  BY <1>1, <2>3, <2>4, <2>6, LifecycleSafe
<1>3. CASE WriteFails /\ life' = [life EXCEPT !.fatal = TRUE] /\ UNCHANGED <<pub, gate>>
  <2>1. used' \in Uses /\ used'.edits = used.edits /\ used'.limit = used.limit
    BY <1>3, FaultFacts DEF ReconcileInv
  <2>2. life' \in Lives /\ life'.down = life.down
    BY <1>3 DEF ReconcileInv, Types, Lives
  <2>3. Calm
    BY <1>1, <1>3, <2>1 DEF Calm
  <2>4. Types'
    BY <1>1, <1>3, <2>1, <2>2 DEF ReconcileInv, Types
  <2>5. GateAgrees'
    BY <1>1, <1>3, <2>2, Zenon DEF ReconcileInv, GateAgrees, Guarded
  <2> QED  BY <1>1, <2>3, <2>4, <2>5, LifecycleSafe
<1> QED  BY <1>2, <1>3, Zenon DEF BecomeReady

LEMMA GateDrainedSafe == ReconcileInv /\ GateDrained => ReconcileInv' /\ Lawful
<1> SUFFICES ASSUME ReconcileInv, GateDrained PROVE ReconcileInv' /\ Lawful
  OBVIOUS
<1>1. /\ UNCHANGED <<doc, proposed, proposals, cur, plan, slot, pub, router, row, life, used>>
      /\ ~Guarded
  BY DEF GateDrained
<1>2. gate' \in Gates /\ gate'.lock = FALSE
  BY DEF GateDrained, ReconcileInv, Types, Gates
<1>3. Calm
  BY <1>1 DEF Calm
<1>4. Types'
  BY <1>1, <1>2 DEF ReconcileInv, Types
<1>5. GateAgrees'
  BY <1>1, <1>2 DEF GateAgrees, Guarded
<1> QED  BY <1>1, <1>3, <1>4, <1>5, LifecycleSafe

LEMMA BeginShutdownSafe == ReconcileInv /\ BeginShutdown => ReconcileInv' /\ Lawful
<1> SUFFICES ASSUME ReconcileInv, BeginShutdown PROVE ReconcileInv' /\ Lawful
  OBVIOUS
<1>1. UNCHANGED <<doc, proposed, proposals, cur, plan, slot, pub, router, row, used>>
  BY DEF BeginShutdown
<1>2. gate' \in Gates /\ gate'.lock = gate.lock /\ gate'.draining = TRUE
  BY CloseFacts DEF BeginShutdown, ReconcileInv, Types
<1>3. life' \in Lives /\ life'.down = "closing"
  BY DEF BeginShutdown, ReconcileInv, Types, Lives
<1>4. Calm
  BY <1>1 DEF Calm
<1>5. Types'
  BY <1>1, <1>2, <1>3 DEF ReconcileInv, Types
<1>6. GateAgrees'
  <2>1. life'.down # "down"
    BY <1>3
  <2> QED  BY <1>1, <1>2, <2>1, Zenon DEF ReconcileInv, GateAgrees, Guarded
<1> QED  BY <1>1, <1>4, <1>5, <1>6, LifecycleSafe

LEMMA ShutdownPublishedSafe == ReconcileInv /\ ShutdownPublished => ReconcileInv' /\ Lawful
<1> SUFFICES ASSUME ReconcileInv, ShutdownPublished PROVE ReconcileInv' /\ Lawful
  OBVIOUS
<1>1. /\ UNCHANGED <<doc, proposed, proposals, cur, plan, slot, gate, router, row>>
      /\ life.down = "closing" /\ ~gate.draining
  BY DEF ShutdownPublished
<1>2. life' \in Lives /\ life'.down = "down"
  BY DEF ShutdownPublished, ReconcileInv, Types, Lives
<1>3. pub' \in Pubs /\ pub'.registered = pub.registered /\ pub'.src = pub.src
  BY DEF ShutdownPublished, ReconcileInv, Types, Pubs
<1>4. used' \in Uses /\ used'.edits = used.edits /\ used'.limit = used.limit
  BY FaultFacts DEF ShutdownPublished, ReconcileInv, Types
<1>5. Calm
  BY <1>1, <1>3, <1>4 DEF Calm
<1>6. Types'
  BY <1>1, <1>2, <1>3, <1>4 DEF ReconcileInv, Types
<1>7. GateAgrees'
  <2>1. ~gate.lock /\ ~Guarded
    BY <1>1, Zenon DEF ReconcileInv, GateAgrees
  <2>2. life'.down # "closing"
    BY <1>2
  <2> QED  BY <1>1, <2>1, <2>2, Zenon DEF GateAgrees, Guarded
<1> QED  BY <1>1, <1>5, <1>6, <1>7, LifecycleSafe

-----------------------------------------------------------------------------
(* The control watcher and the supervisor.                                 *)

(* None of their steps touches the gate, the rows or the router.           *)
LEMMA ControlSafe ==
    ASSUME ReconcileInv, Types', Paid', Applied', pub'.process = pub.process,
           \A x \in Slot : Len(slot'[x].q) <= Len(slot[x].q),
           UNCHANGED <<gate, router, row, life>>
    PROVE  ReconcileInv' /\ Lawful
<1>1. Quiet
  BY DEF Quiet
<1>2. GateQuiet
  BY Zenon DEF GateQuiet, Guarded
<1>3. GateAgrees'
  BY <1>2, GateStays DEF ReconcileInv
<1> QED  BY <1>1, <1>3 DEF ReconcileInv, Lawful

LEMMA NumberFacts ==
    ASSUME Types
    PROVE  /\ cur.gen \in Nat /\ used.edits \in Nat /\ used.edits <= MaxEdits
           /\ MaxEdits \in Nat /\ Len(proposals) \in Nat
<1>1. cur.gen \in Gen /\ used.edits \in Nat /\ used.edits <= used.limit.edits
  BY DEF Types, Snaps, Uses
<1>2. used.limit.edits \in 0 .. MaxEdits /\ MaxEdits \in Nat
  BY ReconcileAssumption DEF Types, Uses
<1>3. Len(proposals) \in Nat
  BY SeqLen DEF Types
<1> QED  BY <1>1, <1>2, <1>3 DEF Gen

LEMMA OutlayFacts ==
    /\ Outlay = cur.gen + Busy + Len(proposals) + News
    /\ Outlay' = cur'.gen + Busy' + Len(proposals') + News'
    /\ Busy \in Nat /\ Busy' \in Nat /\ News \in 0 .. 1 /\ News' \in 0 .. 1
BY DEF Outlay, Busy, News

LEMMA Sums ==
    ASSUME NEW g \in Nat, NEW b \in Nat, NEW l \in Nat, NEW n \in 0 .. 1, NEW m \in 0 .. 1
    PROVE  /\ g + b + l + n \in Nat
           /\ g + b + l + m <= (g + b + l + n) + 1
           /\ n = 1 => g + b + l + m <= g + b + l + n
OBVIOUS

LEMMA SumsLess ==
    ASSUME NEW g \in Nat, NEW b \in Nat, NEW k \in Nat, NEW n \in 0 .. 1
    PROVE  g + b + k + n \in Nat /\ g + b + (k + 1) + n = (g + b + k + n) + 1
OBVIOUS

LEMMA SumsDone ==
    ASSUME NEW g \in Nat, NEW l \in Nat, NEW n \in 0 .. 1
    PROVE  /\ g + 1 + l + n \in Nat /\ g + 0 + l + n \in Nat /\ g + 0 + l + n <= g + 1 + l + n
           /\ (g + 1) + 0 + l + n = g + 1 + l + n
OBVIOUS

LEMMA EditSafe ==
    ASSUME ReconcileInv, NEW c \in Config, EditDocuments(c)
    PROVE  ReconcileInv' /\ Lawful
<1>1. UNCHANGED <<proposed, proposals, cur, plan, slot, pub, gate, router, row, life>>
  BY DEF EditDocuments
<1>2. /\ cur.gen \in Nat /\ used.edits \in Nat /\ used.edits <= MaxEdits
      /\ MaxEdits \in Nat /\ Len(proposals) \in Nat
  BY NumberFacts DEF ReconcileInv
<1>3. used.limit.edits \in Nat
  BY ReconcileAssumption DEF ReconcileInv, Types, Uses
<1>4. used' \in Uses /\ used'.edits = used.edits + 1 /\ used'.limit = used.limit
  <2>1. used.edits + 1 \in Nat
    BY <1>2
  <2> QED  BY <2>1 DEF EditDocuments, ReconcileInv, Types, Uses
<1>5. used'.edits <= used'.limit.edits
  BY <1>2, <1>3, <1>4 DEF EditDocuments
<1>6. Types'
  BY <1>1, <1>4, <1>5 DEF EditDocuments, ReconcileInv, Types
<1>7. Applied'
  <2>1. Owned' = Owned /\ Staged' = Staged /\ NextDisp' = NextDisp /\ NextGen' = NextGen
    BY <1>1 DEF Owned, Staged, Recreated, NextDisp, NextGen, Dispatch
  <2> QED  BY <1>1, <2>1 DEF ReconcileInv, Applied
<1>8. Paid'
  <2>1. Paid
    BY DEF ReconcileInv
  <2>2. Busy' = Busy /\ Busy \in {0, 1} /\ News \in {0, 1} /\ News' \in {0, 1}
    BY <1>1 DEF Busy, News
  <2>6. Outlay' <= Outlay + 1 /\ (News = 1 => Outlay' <= Outlay) /\ Outlay \in Nat /\ Outlay' \in Nat
    <3>1. cur'.gen = cur.gen /\ Len(proposals') = Len(proposals)
      BY <1>1
    <3>2. Outlay' = cur.gen + Busy + Len(proposals) + News'
      BY <2>2, <3>1, OutlayFacts
    <3>3. /\ Busy \in Nat /\ News \in 0 .. 1 /\ News' \in 0 .. 1
          /\ Outlay = cur.gen + Busy + Len(proposals) + News
      BY OutlayFacts
    <3> QED  BY <1>2, <3>2, <3>3, Sums
  <2>3. CASE Outlay <= used.edits + 1
    <3>1. Outlay' <= used'.edits + 1
      BY <1>2, <1>4, <2>3, <2>6
    <3> QED  BY <3>1 DEF Paid
  <2>4. CASE Outlay <= used.edits + 2 /\ BootProposal /\ proposals = <<>>
    <3>1. News = 1
      BY <2>4 DEF BootProposal, News
    <3>2. Outlay' <= used'.edits + 1
      BY <1>2, <1>4, <2>4, <2>6, <3>1
    <3> QED  BY <3>2 DEF Paid
  <2>5. CASE Outlay <= used.edits + 2 /\ BootProposal /\ proposals # <<>>
    <3>1. BootProposal'
      BY <1>1, <2>5 DEF BootProposal
    <3>2. Outlay' <= used'.edits + 2
      BY <1>2, <1>4, <2>5, <2>6
    <3> QED  BY <3>1, <3>2 DEF Paid
  <2> QED  BY <2>1, <2>3, <2>4, <2>5 DEF Paid
<1>9. \A x \in Slot : Len(slot'[x].q) <= Len(slot[x].q)
  BY <1>1, LenStays DEF ReconcileInv
<1> QED  BY <1>1, <1>6, <1>7, <1>8, <1>9, ControlSafe

LEMMA ProposeSafe == ReconcileInv /\ ProposeSnapshot => ReconcileInv' /\ Lawful
<1> SUFFICES ASSUME ReconcileInv, ProposeSnapshot PROVE ReconcileInv' /\ Lawful
  OBVIOUS
<1>1. /\ UNCHANGED <<doc, cur, plan, slot, pub, gate, router, row, life, used>>
      /\ doc \notin proposed /\ proposed' = {doc} /\ proposals' = Append(proposals, doc)
  BY DEF ProposeSnapshot
<1>2. /\ cur.gen \in Nat /\ used.edits \in Nat /\ used.edits <= MaxEdits
      /\ MaxEdits \in Nat /\ Len(proposals) \in Nat
  BY NumberFacts DEF ReconcileInv
<1>3. doc \in Config /\ proposals \in Seq(Config)
  BY DEF ReconcileInv, Types
<1>4. /\ proposals' \in Seq(Config) /\ proposals' # <<>> /\ Len(proposals') = Len(proposals) + 1
      /\ \A i \in 1 .. Len(proposals) : proposals'[i] = proposals[i]
      /\ proposals'[Len(proposals) + 1] = doc
  BY <1>1, <1>3, SeqAppend
<1>5. Head(proposals') = IF proposals = <<>> THEN doc ELSE Head(proposals)
  <2>1. CASE proposals = <<>>
    <3>1. Len(proposals) = 0
      BY <2>1
    <3> QED  BY <2>1, <3>1, <1>4
  <2>2. CASE proposals # <<>>
    <3>1. Len(proposals) # 0
      BY <2>2, <1>3, SeqEmpty
    <3>2. 1 \in 1 .. Len(proposals)
      BY <3>1, <1>2
    <3> QED  BY <2>2, <3>2, <1>3, <1>4
  <2> QED  BY <2>1, <2>2
<1>6. Types'
  BY <1>1, <1>4 DEF ReconcileInv, Types
<1>7. Applied'
  <2>1. Owned' = Owned /\ Staged' = Staged /\ NextDisp' = NextDisp /\ NextGen' = NextGen
    BY <1>1 DEF Owned, Staged, Recreated, NextDisp, NextGen, Dispatch
  <2> QED  BY <1>1, <2>1 DEF ReconcileInv, Applied
<1>8. Paid'
  <2>1. Paid
    BY DEF ReconcileInv
  <2>2. Busy' = Busy /\ Busy \in {0, 1} /\ News = 1 /\ News' = 0
    BY <1>1 DEF Busy, News
  <2>3. Outlay' = Outlay
    BY <1>1, <1>2, <1>4, <2>2, OutlayFacts
  <2>4. BootProposal => BootProposal'
    BY <1>1, <1>4, <1>5 DEF BootProposal
  <2> QED  BY <1>1, <2>1, <2>3, <2>4 DEF Paid
<1>9. \A x \in Slot : Len(slot'[x].q) <= Len(slot[x].q)
  BY <1>1, LenStays DEF ReconcileInv
<1> QED  BY <1>1, <1>6, <1>7, <1>8, <1>9, ControlSafe

LEMMA NoopSafe == ReconcileInv /\ ProposalNoop => ReconcileInv' /\ Lawful
<1> SUFFICES ASSUME ReconcileInv, ProposalNoop PROVE ReconcileInv' /\ Lawful
  OBVIOUS
<1>1. /\ UNCHANGED <<doc, proposed, cur, plan, slot, pub, gate, router, row, life, used>>
      /\ proposals # <<>> /\ proposals' = Tail(proposals)
  BY DEF ProposalNoop
<1>2. /\ cur.gen \in Nat /\ used.edits \in Nat /\ used.edits <= MaxEdits
      /\ MaxEdits \in Nat /\ Len(proposals) \in Nat
  BY NumberFacts DEF ReconcileInv
<1>3. proposals' \in Seq(Config) /\ Len(proposals') = Len(proposals) - 1
  BY <1>1, SeqHeadTail DEF ReconcileInv, Types
<1>4. Types'
  BY <1>1, <1>3 DEF ReconcileInv, Types
<1>5. Applied'
  <2>1. Owned' = Owned /\ Staged' = Staged /\ NextDisp' = NextDisp /\ NextGen' = NextGen
    BY <1>1 DEF Owned, Staged, Recreated, NextDisp, NextGen, Dispatch
  <2> QED  BY <1>1, <2>1 DEF ReconcileInv, Applied
<1>6. Paid'
  <2>1. Paid
    BY DEF ReconcileInv
  <2>2. Busy' = Busy /\ Busy \in {0, 1} /\ News' = News /\ News \in {0, 1}
    BY <1>1 DEF Busy, News
  <2>3. Outlay' \in Nat /\ Outlay = Outlay' + 1
    <3>1. cur'.gen = cur.gen
      BY <1>1
    <3>2. Outlay' = cur.gen + Busy + Len(proposals') + News
      BY <2>2, <3>1, OutlayFacts
    <3>3. Len(proposals') \in Nat /\ Len(proposals) = Len(proposals') + 1
      <4>1. Len(proposals') \in Nat
        BY <1>3, SeqLen
      <4> QED  BY <1>2, <1>3, <4>1
    <3>4. Busy \in Nat /\ News \in 0 .. 1 /\ Outlay = cur.gen + Busy + (Len(proposals') + 1) + News
      BY <3>3, OutlayFacts
    <3>5. cur.gen \in Nat
      BY <1>2
    <3>6. /\ cur.gen + Busy + Len(proposals') + News \in Nat
          /\ cur.gen + Busy + (Len(proposals') + 1) + News
               = (cur.gen + Busy + Len(proposals') + News) + 1
      BY <3>3, <3>4, <3>5, SumsLess
    <3> QED  BY <3>2, <3>4, <3>6
  <2>4. Outlay <= used.edits + 2
    BY <1>2, <2>1, <2>3 DEF Paid
  <2>5. Outlay' <= used'.edits + 1
    BY <1>1, <1>2, <2>3, <2>4
  <2> QED  BY <2>5 DEF Paid
<1>7. \A x \in Slot : Len(slot'[x].q) <= Len(slot[x].q)
  BY <1>1, LenStays DEF ReconcileInv
<1> QED  BY <1>1, <1>4, <1>5, <1>6, <1>7, ControlSafe

(* A generation in progress has been paid for, so it has a number.         *)
LEMMA GenFacts ==
    ASSUME ReconcileInv, plan.phase \in {"staged", "published", "aborting"}
    PROVE  NextGen \in Gen /\ Outlay <= used.edits + 1
<1>1. /\ cur.gen \in Nat /\ used.edits \in Nat /\ used.edits <= MaxEdits
      /\ MaxEdits \in Nat /\ Len(proposals) \in Nat
  BY NumberFacts DEF ReconcileInv
<1>2. Outlay <= used.edits + 1
  BY DEF ReconcileInv, Paid, BootProposal
<1>3. Busy = 1
  BY DEF Busy
<1>4. Outlay = cur.gen + 1 + Len(proposals) + News /\ News \in 0 .. 1
  BY <1>3, OutlayFacts
<1>5. cur.gen + 1 <= MaxEdits + 1
  <2>1. Outlay \in Nat /\ cur.gen + 1 <= Outlay
    BY <1>1, <1>4
  <2> QED  BY <1>1, <1>2, <2>1
<1> QED  BY <1>1, <1>2, <1>5 DEF NextGen, Gen

(* The dispatchers of the next generation.                                 *)
LEMMA DispatchFacts ==
    ASSUME Types, Applied, NextGen \in Gen, NEW cfg
    PROVE  /\ Dispatch(cfg, NextGen) \in [Behavior -> Gen \cup {0}]
           /\ \A b \in Behavior :
                 /\ Dispatch(cfg, NextGen)[b] \in {0, cur.disp[b], NextGen}
                 /\ Dispatch(cfg, NextGen)[b] <= NextGen
                 /\ cur.disp[b] # NextGen /\ cur.disp[b] <= NextGen
           /\ Recreated(Dispatch(cfg, NextGen), NextGen) \subseteq Slot
           /\ \A b \in Behavior, g \in Gen :
                 <<b, g>> \in Recreated(Dispatch(cfg, NextGen), NextGen)
                   <=> g = NextGen /\ Dispatch(cfg, NextGen)[b] = NextGen
<1> DEFINE D == Dispatch(cfg, NextGen)
<1>1. cur.disp \in [Behavior -> Gen \cup {0}] /\ cur.gen \in Nat /\ NextGen = cur.gen + 1
  BY NumberFacts DEF Types, Snaps, NextGen
<1>2. D = [b \in Behavior |-> IF cfg[b] = 0 THEN 0
                              ELSE IF cur.disp[b] # 0 /\ cur.cfg[b] = cfg[b] THEN cur.disp[b]
                              ELSE NextGen]
  BY DEF Dispatch
<1>3. D \in [Behavior -> Gen \cup {0}]
  BY <1>1, <1>2
<1>4. \A b \in Behavior : D[b] \in {0, cur.disp[b], NextGen}
  BY <1>2
<1>5. \A b \in Behavior : cur.disp[b] \in Nat /\ cur.disp[b] <= cur.gen
  BY <1>1, ReconcileAssumption DEF Applied, Gen
<1> HIDE DEF D
<1>6. \A b \in Behavior : D[b] <= NextGen /\ cur.disp[b] # NextGen /\ cur.disp[b] <= NextGen
  <2> TAKE b \in Behavior
  <2>1. cur.disp[b] \in Nat /\ cur.disp[b] <= cur.gen /\ cur.disp[b] # NextGen
        /\ cur.disp[b] <= NextGen
    BY <1>1, <1>5
  <2>2. D[b] = 0 \/ D[b] = cur.disp[b] \/ D[b] = NextGen
    BY <1>4
  <2> QED  BY <1>1, <2>1, <2>2
<1>7. Recreated(D, NextGen) \subseteq Slot
  BY DEF Recreated, Slot
<1>8. \A b \in Behavior, g \in Gen :
        <<b, g>> \in Recreated(D, NextGen) <=> g = NextGen /\ D[b] = NextGen
  BY DEF Recreated
<1> QED  BY <1>3, <1>4, <1>6, <1>7, <1>8 DEF D

(* PublishSource picks the newest slot registered for a behavior: the one  *)
(* the next snapshot dispatches to.                                        *)
LEMMA PublishedFacts ==
    ASSUME Types, Applied, NextGen \in Gen, plan.phase = "staged"
    PROVE  PublishedSlots = NextDisp
<1>1. /\ NextDisp \in [Behavior -> Gen \cup {0}]
      /\ \A b \in Behavior :
            /\ NextDisp[b] \in {0, cur.disp[b], NextGen}
            /\ cur.disp[b] # NextGen /\ cur.disp[b] <= NextGen
      /\ \A b \in Behavior, g \in Gen :
            <<b, g>> \in Staged <=> g = NextGen /\ NextDisp[b] = NextGen
  BY DispatchFacts DEF NextDisp, Staged
<1>2. pub.registered = Owned \cup Staged
  BY DEF Applied
<1>3. 0 \notin Gen /\ Gen \subseteq Nat
  BY ReconcileAssumption DEF Gen
<1>4. ASSUME NEW b \in Behavior
      PROVE  PublishedSlots[b] = NextDisp[b]
  <2> DEFINE gens == {g \in Gen : <<b, g>> \in pub.registered}
  <2>1. PublishedSlots[b] = IF NextDisp[b] = 0 \/ gens = {} THEN 0
                            ELSE CHOOSE g \in gens : \A h \in gens : h <= g
    BY DEF PublishedSlots
  <2>2. \A g \in Gen : g \in gens <=> g = cur.disp[b] \/ (g = NextGen /\ NextDisp[b] = NextGen)
    BY <1>1, <1>2 DEF Owned, Slot
  <2> HIDE DEF gens
  <2>3. CASE NextDisp[b] = 0
    BY <2>1, <2>3
  <2>4. CASE NextDisp[b] # 0
    <3>1. NextDisp[b] \in Gen
      BY <1>1, <2>4
    <3>2. NextDisp[b] \in gens
      BY <1>1, <2>2, <2>4, <3>1
    <3>3. \A h \in gens : h \in Gen
      BY DEF gens
    <3>4. \A h \in gens : h <= NextDisp[b]
      <4> TAKE h \in gens
      <4>1. h = cur.disp[b] \/ (h = NextGen /\ NextDisp[b] = NextGen)
        BY <2>2, <3>3
      <4>2. NextDisp[b] = cur.disp[b] \/ NextDisp[b] = NextGen
        BY <1>1, <2>4
      <4>3. h = NextDisp[b] \/ (h = cur.disp[b] /\ NextDisp[b] = NextGen)
        BY <4>1, <4>2
      <4>4. h <= h
        <5>1. h \in Nat
          BY <1>3, <3>3, Zenon
        <5> QED  BY <5>1
      <4>5. cur.disp[b] <= NextGen
        BY <1>1
      <4> QED  BY <4>3, <4>4, <4>5
    <3>5. \A g \in gens : (\A h \in gens : h <= g) => g = NextDisp[b]
      <4> SUFFICES ASSUME NEW g \in gens, \A h \in gens : h <= g PROVE g = NextDisp[b]
        OBVIOUS
      <4>1. g <= NextDisp[b] /\ NextDisp[b] <= g /\ g \in Nat /\ NextDisp[b] \in Nat
        BY <1>3, <3>1, <3>2, <3>3, <3>4
      <4> QED  BY <4>1
    <3>6. (CHOOSE g \in gens : \A h \in gens : h <= g) = NextDisp[b]
      BY <3>2, <3>4, <3>5
    <3> QED  BY <2>1, <2>4, <3>2, <3>6
  <2> QED  BY <2>3, <2>4
<1>5. PublishedSlots = [b \in Behavior |-> PublishedSlots[b]]
  BY DEF PublishedSlots
<1> QED  BY <1>1, <1>4, <1>5

LEMMA PaidLater ==
    ASSUME ReconcileInv, plan.phase # "idle", Outlay \in Nat, Outlay' \in Nat, Outlay' <= Outlay,
           used'.edits = used.edits
    PROVE  Paid'
<1>1. used.edits \in Nat
  BY NumberFacts DEF ReconcileInv
<1>2. Outlay <= used.edits + 1
  BY DEF ReconcileInv, Paid, BootProposal
<1>3. Outlay' <= used'.edits + 1
  BY <1>1, <1>2
<1> QED  BY <1>3 DEF Paid

LEMMA StageSafe == ReconcileInv /\ StageSlots => ReconcileInv' /\ Lawful
<1> SUFFICES ASSUME ReconcileInv, StageSlots PROVE ReconcileInv' /\ Lawful
  OBVIOUS
<1> DEFINE c   == Head(proposals)
           new == Recreated(Dispatch(c, NextGen), NextGen)
<1>1. /\ plan.phase = "idle" /\ proposals # <<>> /\ c # cur.cfg
      /\ proposals' = Tail(proposals) /\ plan' = [phase |-> "staged", cfg |-> c]
      /\ slot' = [s \in Slot |-> IF s \in new THEN NewSlot ELSE slot[s]]
      /\ pub' = [pub EXCEPT !.registered = @ \cup new]
      /\ UNCHANGED <<doc, proposed, cur, gate, router, row, life, used>>
  BY DEF StageSlots
<1>2. /\ cur.gen \in Nat /\ used.edits \in Nat /\ used.edits <= MaxEdits
      /\ MaxEdits \in Nat /\ Len(proposals) \in Nat
  BY NumberFacts DEF ReconcileInv
<1>3. /\ c \in Config /\ proposals' \in Seq(Config)
      /\ Len(proposals') = Len(proposals) - 1
  BY <1>1, SeqHeadTail DEF ReconcileInv, Types
<1> HIDE DEF c
<1>4. Len(proposals') \in Nat /\ Len(proposals) = Len(proposals') + 1
  <2>1. Len(proposals') \in Nat
    BY <1>3, SeqLen
  <2> QED  BY <1>2, <1>3, <2>1
<1>5. Outlay <= used.edits + 1
  BY <1>1 DEF ReconcileInv, Paid, BootProposal, c
<1>6. Busy = 0 /\ Busy' = 1 /\ News' = News /\ News \in 0 .. 1
  BY <1>1 DEF Busy, News
<1>7. Outlay = cur.gen + 0 + (Len(proposals') + 1) + News
  BY <1>4, <1>6, OutlayFacts
<1>8. Outlay' = cur.gen + 1 + Len(proposals') + News
  <2>1. cur'.gen = cur.gen
    BY <1>1
  <2> QED  BY <1>6, <2>1, OutlayFacts
<1>9. Outlay' = Outlay
  BY <1>2, <1>4, <1>6, <1>7, <1>8
<1>10. Paid'
  BY <1>1, <1>5, <1>9 DEF Paid
<1>11. NextGen \in Gen
  <2>1. cur.gen + 1 <= used.edits + 1
    <3>1. Outlay \in Nat /\ cur.gen + 1 <= Outlay
      BY <1>2, <1>4, <1>6, <1>7
    <3> QED  BY <1>2, <1>5, <3>1
  <2> QED  BY <1>2, <2>1 DEF NextGen, Gen
<1>12. new \subseteq Slot
  BY <1>11, DispatchFacts DEF ReconcileInv
<1>13. Staged' = new /\ Owned' = Owned
  BY <1>1 DEF Staged, NextDisp, NextGen, Owned, Recreated, Dispatch
<1> HIDE DEF new
<1>14. pub' \in Pubs /\ pub'.process = pub.process /\ pub'.src = pub.src
       /\ pub'.registered = pub.registered \cup new
  BY <1>1, <1>12 DEF ReconcileInv, Types, Pubs
<1>15. slot' \in [Slot -> Slots] /\ \A x \in Slot : Len(slot'[x].q) <= Len(slot[x].q)
  <2>1. NewSlot \in Slots /\ NewSlot.q = <<>>
    <3>1. 0 \in 0 .. Budget /\ <<>> \in Seq(Request)
      BY ReconcileAssumption, SeqEmpty
    <3> QED  BY <3>1 DEF NewSlot, Slots, WStates
  <2>2. \A x \in Slot : slot[x] \in Slots /\ Len(slot[x].q) \in Nat
    BY SeqLen DEF ReconcileInv, Types, Slots
  <2>3. slot' \in [Slot -> Slots]
    BY <1>1, <2>1, <2>2
  <2>4. \A x \in Slot : Len(slot'[x].q) <= Len(slot[x].q)
    <3> TAKE x \in Slot
    <3>1. slot'[x] = NewSlot \/ slot'[x] = slot[x]
      BY <1>1
    <3>2. Len(NewSlot.q) = 0
      BY <2>1
    <3> QED  BY <2>2, <3>1, <3>2
  <2> QED  BY <2>3, <2>4
<1>16. Types'
  <2>1. plan' \in Plans
    BY <1>1, <1>3 DEF Plans
  <2> QED  BY <1>1, <1>3, <1>14, <1>15, <2>1 DEF ReconcileInv, Types
<1>17. Applied'
  <2>1. pub.registered = Owned /\ pub.src = [gen |-> cur.gen, slot |-> cur.disp]
    BY <1>1 DEF ReconcileInv, Applied
  <2>2. plan'.phase = "staged" /\ cur' = cur
    BY <1>1
  <2>3. \A b \in Behavior : cur.disp[b] <= cur.gen
    BY DEF ReconcileInv, Applied
  <2> QED  BY <1>13, <1>14, <2>1, <2>2, <2>3 DEF Applied
<1> QED  BY <1>1, <1>10, <1>14, <1>15, <1>16, <1>17, ControlSafe

LEMMA PublishSafe == ReconcileInv /\ PublishSource => ReconcileInv' /\ Lawful
<1> SUFFICES ASSUME ReconcileInv, PublishSource PROVE ReconcileInv' /\ Lawful
  OBVIOUS
<1>1. /\ plan.phase = "staged"
      /\ UNCHANGED <<doc, proposed, proposals, cur, gate, router, row, life>>
  BY DEF PublishSource
<1>2. NextGen \in Gen
  BY <1>1, GenFacts
<1>3. /\ pub.registered = Owned \cup Staged
      /\ pub.src = [gen |-> cur.gen, slot |-> cur.disp]
      /\ \A b \in Behavior : cur.disp[b] <= cur.gen
  BY <1>1 DEF ReconcileInv, Applied
<1>4. /\ NextDisp \in [Behavior -> Gen \cup {0}] /\ PublishedSlots = NextDisp
  BY <1>1, <1>2, DispatchFacts, PublishedFacts DEF ReconcileInv, NextDisp
<1>5. plan' = [plan EXCEPT !.phase = "published"] \/ plan' = [plan EXCEPT !.phase = "aborting"]
  BY DEF PublishSource
<1>6. /\ plan' \in Plans /\ plan'.cfg = plan.cfg /\ plan'.phase \in {"published", "aborting"}
  BY <1>5 DEF ReconcileInv, Types, Plans
<1>7. Owned' = Owned /\ NextGen' = NextGen /\ NextDisp' = NextDisp /\ Staged' = Staged
  BY <1>1, <1>6 DEF Owned, NextGen, NextDisp, Staged, Dispatch, Recreated
<1>8. used' \in Uses /\ used'.edits = used.edits /\ used'.limit = used.limit
  BY FaultFacts DEF PublishSource, ReconcileInv, Types
<1>9. Paid'
  <2>1. Busy = 1 /\ Busy' = 1 /\ News' = News
    BY <1>1, <1>6 DEF Busy, News
  <2>2. cur'.gen = cur.gen /\ Len(proposals') = Len(proposals)
    BY <1>1
  <2>3. Outlay' = Outlay
    BY <2>1, <2>2, OutlayFacts
  <2>4. Outlay <= used.edits + 1
    BY <1>1, GenFacts
  <2> QED  BY <1>8, <2>3, <2>4 DEF Paid
<1>10. CASE /\ pub' = [pub EXCEPT !.src = [gen |-> NextGen, slot |-> PublishedSlots],
                                 !.demoted = @ \cap pub.registered]
            /\ plan' = [plan EXCEPT !.phase = "published"] /\ UNCHANGED slot
  <2>1. pub' = [pub EXCEPT !.src = [gen |-> NextGen, slot |-> NextDisp],
                           !.demoted = pub.demoted \cap pub.registered]
    BY <1>4, <1>10
  <2>2. /\ pub' \in Pubs /\ pub'.process = pub.process /\ pub'.registered = pub.registered
        /\ pub'.src = [gen |-> NextGen, slot |-> NextDisp]
    BY <2>1, <1>2, <1>4 DEF ReconcileInv, Types, Pubs
  <2>3. plan'.phase = "published"
    BY <1>10 DEF ReconcileInv, Types, Plans
  <2>4. Applied'
    BY <1>1, <1>3, <1>7, <2>2, <2>3 DEF Applied
  <2>5. Types'
    BY <1>1, <1>6, <1>8, <1>10, <2>2 DEF ReconcileInv, Types
  <2>6. \A x \in Slot : Len(slot'[x].q) <= Len(slot[x].q)
    BY <1>10, LenStays DEF ReconcileInv
  <2> QED  BY <1>1, <1>9, <2>2, <2>4, <2>5, <2>6, ControlSafe
<1>11. CASE /\ plan' = [plan EXCEPT !.phase = "aborting"] /\ UNCHANGED pub
            /\ slot' = [s \in Slot |-> IF s \in Staged THEN [slot[s] EXCEPT !.st = "retiring"]
                                       ELSE slot[s]]
  <2>1. plan'.phase = "aborting"
    BY <1>11 DEF ReconcileInv, Types, Plans
  <2>2. Applied'
    BY <1>1, <1>3, <1>7, <1>11, <2>1 DEF Applied
  <2>3. slot' \in [Slot -> Slots] /\ \A x \in Slot : slot'[x].q = slot[x].q
    BY <1>11 DEF ReconcileInv, Types, Slots
  <2>4. Types'
    BY <1>1, <1>6, <1>8, <1>11, <2>3 DEF ReconcileInv, Types
  <2>5. \A x \in Slot : Len(slot'[x].q) <= Len(slot[x].q)
    BY <2>3, LenStays DEF ReconcileInv
  <2> QED  BY <1>1, <1>9, <1>11, <2>2, <2>4, <2>5, ControlSafe
<1> QED  BY <1>10, <1>11 DEF PublishSource

LEMMA AbortSafe == ReconcileInv /\ AbortStaged => ReconcileInv' /\ Lawful
<1> SUFFICES ASSUME ReconcileInv, AbortStaged PROVE ReconcileInv' /\ Lawful
  OBVIOUS
<1>1. /\ plan.phase = "aborting" /\ plan' = NoPlan
      /\ pub' = [pub EXCEPT !.registered = @ \ Staged, !.demoted = @ \ Staged]
      /\ slot' = [s \in Slot |-> IF s \in Staged THEN NoSlot ELSE slot[s]]
      /\ UNCHANGED <<doc, proposed, proposals, cur, gate, router, row, life, used>>
  BY DEF AbortStaged, ForgetSlots
<1>2. NextGen \in Gen
  BY <1>1, GenFacts
<1>3. /\ pub.registered = Owned \cup Staged
      /\ pub.src = [gen |-> cur.gen, slot |-> cur.disp]
      /\ \A b \in Behavior : cur.disp[b] <= cur.gen
  BY <1>1 DEF ReconcileInv, Applied
<1>4. Owned \cap Staged = {}
  <2>1. /\ \A b \in Behavior : cur.disp[b] # NextGen
        /\ \A b \in Behavior, g \in Gen : <<b, g>> \in Staged => g = NextGen
    BY <1>2, DispatchFacts DEF ReconcileInv, Staged, NextDisp
  <2> QED  BY <2>1 DEF Owned, Slot
<1>5. /\ pub' \in Pubs /\ pub'.process = pub.process /\ pub'.src = pub.src
      /\ pub'.registered = pub.registered \ Staged
  BY <1>1 DEF ReconcileInv, Types, Pubs
<1>6. plan' \in Plans /\ plan'.phase = "idle"
  BY <1>1, ReconcileAssumption DEF NoPlan, Plans, Config
<1>7. Owned' = Owned
  BY <1>1 DEF Owned
<1>8. Applied'
  BY <1>1, <1>3, <1>4, <1>5, <1>6, <1>7 DEF Applied
<1>9. slot' \in [Slot -> Slots] /\ \A x \in Slot : Len(slot'[x].q) <= Len(slot[x].q)
  <2>1. NoSlot \in Slots /\ NoSlot.q = <<>>
    <3>1. 0 \in 0 .. Budget /\ <<>> \in Seq(Request)
      BY ReconcileAssumption, SeqEmpty
    <3> QED  BY <3>1 DEF NoSlot, Slots, WStates
  <2>2. \A x \in Slot : slot[x] \in Slots /\ Len(slot[x].q) \in Nat
    BY SeqLen DEF ReconcileInv, Types, Slots
  <2>3. slot' \in [Slot -> Slots]
    BY <1>1, <2>1, <2>2
  <2>4. \A x \in Slot : Len(slot'[x].q) <= Len(slot[x].q)
    <3> TAKE x \in Slot
    <3>1. slot'[x] = NoSlot \/ slot'[x] = slot[x]
      BY <1>1
    <3>2. Len(NoSlot.q) = 0
      BY <2>1
    <3> QED  BY <2>2, <3>1, <3>2
  <2> QED  BY <2>3, <2>4
<1>10. Types'
  BY <1>1, <1>5, <1>6, <1>9 DEF ReconcileInv, Types
<1>11. Paid'
  <2>1. Busy = 1 /\ Busy' = 0 /\ News' = News /\ News \in 0 .. 1
    BY <1>1, <1>6 DEF Busy, News
  <2>2. cur'.gen = cur.gen /\ Len(proposals') = Len(proposals)
    BY <1>1
  <2>3. cur.gen \in Nat /\ Len(proposals) \in Nat
    BY NumberFacts DEF ReconcileInv
  <2>4. Outlay = cur.gen + 1 + Len(proposals) + News /\ Outlay' = cur.gen + 0 + Len(proposals) + News
    BY <2>1, <2>2, OutlayFacts
  <2>5. Outlay \in Nat /\ Outlay' \in Nat /\ Outlay' <= Outlay
    BY <2>1, <2>3, <2>4, SumsDone
  <2>6. used'.edits = used.edits /\ plan.phase # "idle"
    BY <1>1
  <2> QED  BY <2>5, <2>6, PaidLater
<1> QED  BY <1>1, <1>5, <1>8, <1>9, <1>10, <1>11, ControlSafe

LEMMA InstallSafe == ReconcileInv /\ InstallSnapshot => ReconcileInv' /\ Lawful
<1> SUFFICES ASSUME ReconcileInv, InstallSnapshot PROVE ReconcileInv' /\ Lawful
  OBVIOUS
<1>1. /\ plan.phase = "published" /\ plan' = [plan EXCEPT !.phase = "retiring"]
      /\ cur' = [gen |-> NextGen, cfg |-> plan.cfg, disp |-> NextDisp]
      /\ slot' = [s \in Slot |-> IF s \in Retired /\ slot[s].st = "live"
                                 THEN [slot[s] EXCEPT !.st = "retiring"] ELSE slot[s]]
      /\ UNCHANGED <<doc, proposed, proposals, pub, gate, router, row, life, used>>
  BY DEF InstallSnapshot
<1>2. NextGen \in Gen
  BY <1>1, GenFacts
<1>3. pub.registered = Owned \cup Staged /\ pub.src = [gen |-> NextGen, slot |-> NextDisp]
  BY <1>1 DEF ReconcileInv, Applied
<1>4. /\ NextDisp \in [Behavior -> Gen \cup {0}]
      /\ \A b \in Behavior : NextDisp[b] \in {0, cur.disp[b], NextGen} /\ NextDisp[b] <= NextGen
      /\ \A b \in Behavior, g \in Gen :
            <<b, g>> \in Staged <=> g = NextGen /\ NextDisp[b] = NextGen
  BY <1>2, DispatchFacts DEF ReconcileInv, NextDisp, Staged
<1>5. plan' \in Plans /\ plan'.phase = "retiring" /\ plan.cfg \in Config
  BY <1>1 DEF ReconcileInv, Types, Plans
<1>6. Owned' \subseteq pub.registered
  <2> SUFFICES ASSUME NEW b \in Behavior, NEW g \in Gen, NextDisp[b] = g
               PROVE  <<b, g>> \in Owned \cup Staged
    BY <1>1, <1>3 DEF Owned, Slot
  <2>1. g # 0
    BY ReconcileAssumption DEF Gen
  <2>2. CASE g = cur.disp[b]
    BY <2>2 DEF Owned, Slot
  <2>3. CASE g = NextGen
    BY <1>4, <2>3
  <2> QED  BY <1>4, <2>1, <2>2, <2>3
<1>7. Applied'
  <2>1. cur'.gen = NextGen /\ cur'.disp = NextDisp /\ pub' = pub
    BY <1>1
  <2> QED  BY <1>3, <1>4, <1>5, <1>6, <2>1 DEF Applied
<1>8. slot' \in [Slot -> Slots] /\ \A x \in Slot : slot'[x].q = slot[x].q
  BY <1>1 DEF ReconcileInv, Types, Slots
<1>9. \A x \in Slot : Len(slot'[x].q) <= Len(slot[x].q)
  BY <1>8, LenStays DEF ReconcileInv
<1>10. Types'
  <2>1. cur' \in Snaps
    BY <1>1, <1>2, <1>4, <1>5 DEF Snaps
  <2> QED  BY <1>1, <1>5, <1>8, <2>1 DEF ReconcileInv, Types
<1>11. Paid'
  <2>1. Busy = 1 /\ Busy' = 0 /\ News' = News /\ News \in 0 .. 1
    BY <1>1, <1>5 DEF Busy, News
  <2>2. cur'.gen = cur.gen + 1 /\ Len(proposals') = Len(proposals)
    BY <1>1 DEF NextGen
  <2>3. cur.gen \in Nat /\ Len(proposals) \in Nat
    BY NumberFacts DEF ReconcileInv
  <2>4. /\ Outlay = cur.gen + 1 + Len(proposals) + News
        /\ Outlay' = (cur.gen + 1) + 0 + Len(proposals) + News
    BY <2>1, <2>2, OutlayFacts
  <2>5. Outlay \in Nat /\ Outlay' = Outlay
    BY <2>1, <2>3, <2>4, SumsDone
  <2>6. used'.edits = used.edits /\ plan.phase # "idle" /\ Outlay' \in Nat /\ Outlay' <= Outlay
    BY <1>1, <2>5
  <2> QED  BY <2>5, <2>6, PaidLater
<1> QED  BY <1>1, <1>7, <1>9, <1>10, <1>11, ControlSafe

LEMMA RetireSafe == ReconcileInv /\ RetireReplaced => ReconcileInv' /\ Lawful
<1> SUFFICES ASSUME ReconcileInv, RetireReplaced PROVE ReconcileInv' /\ Lawful
  OBVIOUS
<1> DEFINE old == {s \in pub.registered : cur.disp[s[1]] # s[2]}
<1>1. /\ plan.phase = "retiring" /\ plan' = NoPlan
      /\ pub' = [pub EXCEPT !.registered = @ \ old, !.demoted = @ \ old]
      /\ UNCHANGED <<doc, proposed, proposals, cur, slot, gate, router, row, life, used>>
  BY DEF RetireReplaced, ForgetSlots
<1>2. /\ Owned \subseteq pub.registered /\ pub.src = [gen |-> cur.gen, slot |-> cur.disp]
      /\ \A b \in Behavior : cur.disp[b] <= cur.gen
  BY <1>1 DEF ReconcileInv, Applied
<1>3. pub.registered \ old = Owned
  <2>1. pub.registered \subseteq Slot
    BY DEF ReconcileInv, Types, Pubs
  <2> QED  BY <1>2, <2>1 DEF Owned
<1> HIDE DEF old
<1>4. /\ pub' \in Pubs /\ pub'.process = pub.process /\ pub'.src = pub.src
      /\ pub'.registered = pub.registered \ old
  BY <1>1 DEF ReconcileInv, Types, Pubs
<1>5. plan' \in Plans /\ plan'.phase = "idle"
  BY <1>1, ReconcileAssumption DEF NoPlan, Plans, Config
<1>6. Applied'
  <2>1. Owned' = Owned
    BY <1>1 DEF Owned
  <2> QED  BY <1>1, <1>2, <1>3, <1>4, <1>5, <2>1 DEF Applied
<1>7. Types'
  BY <1>1, <1>4, <1>5 DEF ReconcileInv, Types
<1>8. \A x \in Slot : Len(slot'[x].q) <= Len(slot[x].q)
  BY <1>1, LenStays DEF ReconcileInv
<1>9. Paid'
  <2>1. Busy = 0 /\ Busy' = 0 /\ News' = News
    BY <1>1, <1>5 DEF Busy, News
  <2>2. cur'.gen = cur.gen /\ Len(proposals') = Len(proposals)
    BY <1>1
  <2>3. Outlay' = Outlay
    BY <2>1, <2>2, OutlayFacts
  <2>4. Outlay <= used.edits + 1
    BY <1>1 DEF ReconcileInv, Paid, BootProposal
  <2> QED  BY <1>1, <2>3, <2>4 DEF Paid
<1> QED  BY <1>1, <1>4, <1>6, <1>7, <1>8, <1>9, ControlSafe

-----------------------------------------------------------------------------
LEMMA ReconcileInit == Init => ReconcileInv
<1> SUFFICES ASSUME Init PROVE ReconcileInv
  OBVIOUS
<1>1. PICK l \in Limits :
        used = [edits |-> 0, fails |-> 0, panics |-> 0, faults |-> 0, limit |-> l]
  BY DEF Init
<1>2. /\ 1 \in Gen /\ 0 \in 0 .. Budget /\ l.edits \in 0 .. MaxEdits /\ Print0 \in Config
      /\ BootDisp \in [Behavior -> Gen \cup {0}] /\ Boot \subseteq Slot
  BY ReconcileAssumption DEF Gen, Config, BootDisp, Boot, Slot
<1>3. NoSlot \in Slots /\ NewSlot \in Slots
  <2>1. <<>> \in Seq(Request)
    BY SeqEmpty
  <2> QED  BY <1>2, <2>1 DEF NoSlot, NewSlot, Slots, WStates
<1>4. Types
  <2>1. doc \in Config /\ proposals \in Seq(Config) /\ cur \in Snaps /\ plan \in Plans
    BY <1>2, SeqEmpty DEF Init, Snaps, NoPlan, Plans
  <2>2. slot \in [Slot -> Slots]
    BY <1>3 DEF Init
  <2>3. pub \in Pubs
    BY <1>2 DEF Init, Pubs
  <2>4. router \in Routers
    BY <2>1 DEF Init, Routers, Pcs
  <2>5. gate \in Gates /\ life \in Lives
    BY DEF Init, Gates, Lives
  <2>6. row \in [Request -> {"pending", "taken", "rejected"}]
    BY DEF Init
  <2>7. used \in Uses /\ used.edits <= used.limit.edits
    BY <1>1, <1>2 DEF Uses
  <2> QED  BY <2>1, <2>2, <2>3, <2>4, <2>5, <2>6, <2>7 DEF Types
<1>5. Paid
  <2>1. Outlay = 1 + 0 + 0 + 1
    BY SeqEmpty DEF Init, Outlay, Busy, News, NoPlan
  <2>2. BootProposal
    BY DEF Init, BootProposal, NoPlan
  <2>3. used.edits = 0
    BY <1>1
  <2> QED  BY <2>1, <2>2, <2>3 DEF Paid
<1>6. Applied
  <2>1. cur.gen = 1 /\ cur.disp = BootDisp /\ plan.phase = "idle"
    BY DEF Init, NoPlan
  <2>2. \A b \in Behavior : cur.disp[b] <= cur.gen
    BY <2>1 DEF BootDisp
  <2>3. Owned = Boot
    <3>1. Owned \subseteq Boot
      BY <2>1, ReconcileAssumption DEF Owned, Boot, BootDisp, Slot, Gen
    <3>2. Boot \subseteq Owned
      BY <1>2, <2>1 DEF Owned, Boot, BootDisp, Slot
    <3> QED  BY <3>1, <3>2
  <2>4. pub.registered = Boot /\ pub.src = [gen |-> 1, slot |-> BootDisp]
    BY DEF Init
  <2> QED  BY <2>1, <2>2, <2>3, <2>4 DEF Applied
<1>7. GateAgrees
  BY DEF Init, GateAgrees, Guarded
<1> QED  BY <1>4, <1>5, <1>6, <1>7 DEF ReconcileInv

LEMMA ReconcileNext == ReconcileInv /\ Next => ReconcileInv' /\ Lawful
<1> SUFFICES ASSUME ReconcileInv, Next PROVE ReconcileInv' /\ Lawful
  OBVIOUS
<1>1. CASE \E c \in Config : EditDocuments(c)
  BY <1>1, EditSafe
<1>2. CASE ProposeSnapshot
  BY <1>2, ProposeSafe
<1>3. CASE SupervisorStep
  BY <1>3, NoopSafe, StageSafe, PublishSafe, AbortSafe, InstallSafe, RetireSafe
     DEF SupervisorStep
<1>4. CASE \E s \in Slot, i \in Worker : WorkerStep(s, i)
  BY <1>4, WorkerSafe, BenignSafe DEF ReconcileInv
<1>5. CASE RouterStep
  BY <1>5, RouterOpensSafe, RouterObservesSafe, RouterRoutesSafe, RouterEntersSafe,
     RouterAdmitsSafe, RouterSendsSafe, RouterStopsSafe, BenignSafe DEF RouterStep, ReconcileInv
<1>6. CASE \E r \in Request : RouterDequeues(r) \/ CooldownEnds(r)
  BY <1>6, RouterDequeuesSafe, CooldownSafe, BenignSafe DEF ReconcileInv
<1>7. CASE BecomeReady \/ GateDrained \/ BeginShutdown \/ ShutdownPublished
  BY <1>7, BecomeReadySafe, GateDrainedSafe, BeginShutdownSafe, ShutdownPublishedSafe
<1> QED  BY <1>1, <1>2, <1>3, <1>4, <1>5, <1>6, <1>7 DEF Next

LEMMA ReconcileStep == ReconcileInv /\ [Next]_vars => ReconcileInv'
<1>1. CASE UNCHANGED vars
  <2>1. ReconcileInv /\ UNCHANGED vars => ReconcileInv'
    <3> SUFFICES ASSUME ReconcileInv, UNCHANGED vars PROVE ReconcileInv'
      OBVIOUS
    <3>1. Types'
      BY DEF ReconcileInv, Types, vars
    <3>2. Calm /\ GateQuiet
      BY Zenon DEF Calm, GateQuiet, Guarded, vars
    <3> QED  BY <3>1, <3>2, CalmStays, GateStays DEF ReconcileInv
  <2> QED  BY <1>1, <2>1
<1> QED  BY <1>1, ReconcileNext

LEMMA ReconcileAlways == Spec => []ReconcileInv
BY ReconcileInit, ReconcileStep, PTL DEF Spec

(* For any behaviors, requests, configurations, capacities and bounds:     *)
(* between two applications of a configuration the readiness publisher     *)
(* knows exactly the slots the supervisor owns and ties every dispatcher   *)
(* to its own slot, whichever generations were applied or rolled back      *)
(* before (apply_snapshot, StagedSlots::abort, on_slot_retired).           *)
THEOREM NoRegistrationLeaks == Spec => []RegisteredAreOwned
<1>1. ReconcileInv => RegisteredAreOwned
  BY DEF ReconcileInv, Applied, RegisteredAreOwned, Owned
<1> QED  BY <1>1, ReconcileAlways, PTL

(* For the same constants: the router pairs the dispatchers of a snapshot  *)
(* with the vetoes of exactly those slots, though the readiness source is  *)
(* published before the snapshot is installed                              *)
(* (wait_for_next_request_with_latest_snapshot).                           *)
THEOREM VetoesAreOfTheSnapshot == Spec => VetoMatchesDispatcher
<1>1. ReconcileInv /\ [Next]_vars
        => [(router.pc = "holding" /\ router'.pc = "routed")
              => router'.veto = {b \in Behavior : <<b, router'.snap.disp[b]>> \in pub.demoted}]_vars
  BY ReconcileNext DEF Lawful
<1> QED  BY <1>1, ReconcileAlways, PTL DEF Spec, VetoMatchesDispatcher

(* For the same constants: a request is queued or rejected only while the  *)
(* durable process state is Ready and the admission lock is open, through  *)
(* any number of closes, fatal errors and a shutdown (become_ready,        *)
(* RuntimeAdmissionGate::close, begin_shutdown).                           *)
THEOREM RoutingNeedsReady == Spec => RoutesOnlyWhenReady
<1>1. ReconcileInv /\ [Next]_vars
        => [(\/ \E s \in Slot : Len(slot'[s].q) > Len(slot[s].q)
             \/ \E r \in Request : row'[r] = "rejected" /\ row[r] # "rejected")
               => pub.process = "ready" /\ gate.lock]_vars
  <2> SUFFICES ASSUME ReconcileInv, Next,
                      \/ \E s \in Slot : Len(slot'[s].q) > Len(slot[s].q)
                      \/ \E r \in Request : row'[r] = "rejected" /\ row[r] # "rejected"
               PROVE  pub.process = "ready" /\ gate.lock
    OBVIOUS
  <2>1. (Quiet \/ Guarded) /\ Types' /\ Types
    BY ReconcileNext DEF Lawful, ReconcileInv
  <2>2. \A s \in Slot : Len(slot'[s].q) \in Nat /\ Len(slot[s].q) \in Nat
    BY <2>1, SeqLen DEF Types, Slots
  <2>3. ~Quiet
    BY <2>2 DEF Quiet
  <2> QED  BY <2>1, <2>3 DEF ReconcileInv, GateAgrees
<1> QED  BY <1>1, ReconcileAlways, PTL DEF Spec, RoutesOnlyWhenReady
=============================================================================
