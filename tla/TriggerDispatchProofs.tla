----------------------- MODULE TriggerDispatchProofs -----------------------
(***************************************************************************)
(* What the concurrency gates and the durable identity of a goal fire      *)
(* guarantee, for every trigger and any number of slots, fires, edits,     *)
(* faults and restarts.                                                    *)
(***************************************************************************)
EXTENDS TriggerDispatch, FiniteSetTheorems, SequenceTheorems, TLAPS

Row     == [key : Nat, goal : BOOLEAN, st : States, late : 0..2]
Places  == {"idle", "recover", "snapshot", "gate", "supersede", "revoke",
            "create", "bind", "down"}
Drivers == [at : Places, key : Nat, goal : BOOLEAN, round : Nat]
Gates(q)  == q.st = "pending" \/ (q.st = "claimed" /\ q.late < 2)
Open(q)   == q.st \in {"pending", "claimed"}

(* The shape of the state, as far as the arguments need it. *)
Shape ==
    /\ kind \in Kinds
    /\ req \in Seq(Row)
    /\ nextRun \in Nat /\ now \in Nat /\ arrived \in Nat
    /\ \A w \in writes : w.to \in Nat
    /\ queued \in Seq([key : Nat, goal : BOOLEAN])
    /\ driver \in Drivers
    /\ declared \in BOOLEAN

(* Between the look-up of recover_goal_task_fire and the creation of its   *)
(* request, a fire is known not to have left a goal-backed one.            *)
Fresh ==
    At("snapshot") \/ At("gate") \/ At("supersede") \/ At("revoke") \/ At("create")
        => ~Recorded

(* What the gates have established when the next request is created, for   *)
(* a trigger whose requests need no workspace binding.                     *)
SerialClear ==
    kind.mode = "serial" =>
        /\ \A i, j \in Rows : Gates(req[i]) /\ Gates(req[j]) => i = j
        /\ At("create") => \A r \in Rows : ~Gates(req[r])

LatestClear ==
    kind.mode = "latestOnly" =>
        /\ \A i, j \in Rows : Open(req[i]) /\ Open(req[j]) => i = j
        /\ At("revoke") => \A r \in Rows : req[r].st # "pending"
        /\ At("create") => \A r \in Rows : ~Open(req[r])

(* The gates look at requests that were created pending: a trigger they    *)
(* apply to takes its documents without a workspace binding.               *)
GatedUnbound == \A k \in Kinds : k.mode # "parallel" => ~k.workspace

NoBinding == kind.mode # "parallel" => ~At("bind") /\ \A r \in Rows : req[r].st # "binding"

-----------------------------------------------------------------------------
(* How a row may go on without becoming open again: its identity stays,    *)
(* and it gates, is open, pending or unbound only if it was so before.     *)
Follows(p, q) ==
    /\ p \in Row /\ p.key = q.key /\ p.goal = q.goal
    /\ Gates(p) => Gates(q)
    /\ Open(p) => Open(q)
    /\ p.st = "pending" => q.st = "pending"
    /\ p.st = "binding" => q.st = "binding"

Calm == /\ req' \in Seq(Row) /\ Len(req') = Len(req)
        /\ \A r \in Rows : Follows(req'[r], req[r])

-----------------------------------------------------------------------------
(* A sequence that is rewritten place by place stays a sequence.           *)
LEMMA Rewrite ==
    ASSUME NEW S, NEW s \in Seq(S), NEW f,
           f = [i \in DOMAIN s |-> f[i]], \A i \in DOMAIN s : f[i] \in S
    PROVE  f \in Seq(S) /\ Len(f) = Len(s)
<1>1. Len(s) \in Nat /\ DOMAIN s = 1 .. Len(s)
  BY LenProperties
<1>2. f \in [1 .. Len(s) -> S]
  BY <1>1
<1>3. f \in Seq(S)
  BY <1>1, <1>2, SeqDef
<1>4. DOMAIN f = 1 .. Len(f) /\ Len(f) \in Nat
  BY <1>3, LenProperties
<1> QED
  BY <1>1, <1>2, <1>3, <1>4

(* What a claim, an end, a supersession and the passing of time do to a row.*)
LEMMA RowSteps ==
    ASSUME NEW q \in Row
    PROVE  /\ Follows(q, q)
           /\ q.st = "pending" => Follows([q EXCEPT !.st = "claimed"], q)
           /\ Follows([q EXCEPT !.st = "done"], q)
           /\ Follows([q EXCEPT !.st = "superseded"], q)
           /\ q.late < 2 => Follows([q EXCEPT !.late = @ + 1], q)
           /\ [q EXCEPT !.st = "pending"] \in Row
           /\ [q EXCEPT !.st = "pending"].key = q.key
           /\ [q EXCEPT !.st = "pending"].goal = q.goal
           /\ [q EXCEPT !.st = "done"].key = q.key
           /\ [q EXCEPT !.st = "done"].goal = q.goal
  BY DEF Row, States, Follows, Gates, Open

(* Supersession leaves every row behind it calm. *)
LEMMA SupersededCalm ==
    ASSUME req \in Seq(Row), NEW W, req' = Superseded(W)
    PROVE  Calm
<1>1. ASSUME NEW r \in Rows
      PROVE  Follows(req'[r], req[r])
  <2>1. req[r] \in Row
    BY <1>1, LenProperties DEF Rows
  <2> QED
    BY <2>1, <1>1, RowSteps DEF Superseded
<1>2. req' = [r \in DOMAIN req |-> req'[r]] /\ \A r \in DOMAIN req : req'[r] \in Row
  BY <1>1 DEF Superseded, Rows, Follows
<1> QED
  BY <1>1, <1>2, Rewrite DEF Calm

(* Rows that are left alone are calm. *)
LEMMA SameCalm == req \in Seq(Row) /\ req' = req => Calm
<1> SUFFICES ASSUME req \in Seq(Row), req' = req PROVE Calm
  OBVIOUS
<1>1. \A r \in Rows : req[r] \in Row
  BY LenProperties DEF Rows
<1> QED
  BY <1>1, RowSteps DEF Calm

(* The rewriting of one row. *)
LEMMA OneRowCalm ==
    ASSUME req \in Seq(Row), NEW r \in Rows, Claim(r) \/ End(r) \/ Ages(r)
    PROVE  Calm
<1>1. \A i \in Rows : req[i] \in Row
  BY LenProperties DEF Rows
<1>2. PICK p : req' = [req EXCEPT ![r] = p] /\ Follows(p, req[r])
  <2>1. CASE Claim(r)
    BY <2>1, <1>1, RowSteps DEF Claim
  <2>2. CASE End(r)
    BY <2>2, <1>1, RowSteps DEF End
  <2>3. CASE Ages(r)
    BY <2>3, <1>1, RowSteps DEF Ages
  <2> QED
    BY <2>1, <2>2, <2>3
<1>3. \A i \in Rows : Follows(req'[i], req[i])
  BY <1>1, <1>2, RowSteps DEF Rows
<1>4. req' = [i \in DOMAIN req |-> req'[i]]
  BY <1>2
<1> QED
  BY <1>3, <1>4, Rewrite DEF Calm, Rows, Follows

-----------------------------------------------------------------------------
(* Shape holds at the start and is kept by every step.                     *)
LEMMA ShapeInit == Init => Shape
  BY DEF Init, Shape, Idle, Places, Drivers

LEMMA RestartRows ==
    ASSUME req \in Seq(Row), Restart
    PROVE  /\ req' \in Seq(Row) /\ Len(req') = Len(req)
           /\ \A r \in Rows : req'[r].key = req[r].key /\ req'[r].goal = req[r].goal
           /\ (\A r \in Rows : req[r].st # "binding") => Calm
<1>1. \A r \in Rows : req[r] \in Row
  BY LenProperties DEF Rows
<1>2. PICK B \in SUBSET {r \in Rows : req[r].st = "binding"} :
          req' = [r \in Rows |->
                    IF req[r].st = "claimed" THEN [req[r] EXCEPT !.st = "done"]
                    ELSE IF r \in B THEN [req[r] EXCEPT !.st = "pending"] ELSE req[r]]
  BY DEF Restart
<1>3. \A r \in Rows : /\ req'[r] \in Row
                      /\ req'[r].key = req[r].key /\ req'[r].goal = req[r].goal
  BY <1>1, <1>2, RowSteps DEF Follows
<1>4. req' = [r \in DOMAIN req |-> req'[r]]
  BY <1>2 DEF Rows
<1>5. req' \in Seq(Row) /\ Len(req') = Len(req)
  BY <1>3, <1>4, Rewrite DEF Rows
<1>6. (\A r \in Rows : req[r].st # "binding") => \A r \in Rows : Follows(req'[r], req[r])
  BY <1>1, <1>2, RowSteps
<1> QED
  BY <1>3, <1>5, <1>6 DEF Calm

LEMMA BindingRows ==
    ASSUME req \in Seq(Row), req # <<>>, req' = [req EXCEPT ![Len(req)].st = "pending"]
    PROVE  /\ req' \in Seq(Row) /\ Len(req') = Len(req)
           /\ \A r \in Rows : req'[r].key = req[r].key /\ req'[r].goal = req[r].goal
<1>1. \A r \in Rows : req[r] \in Row
  BY LenProperties DEF Rows
<1>2. /\ Len(req) \in 1 .. Len(req) /\ DOMAIN req = 1 .. Len(req)
      /\ [req[Len(req)] EXCEPT !.st = "pending"] \in Row
  <2>1. Len(req) \in Nat \ {0}
    BY EmptySeq
  <2>2. DOMAIN req = 1 .. Len(req)
    BY LenProperties
  <2>3. Len(req) \in 1 .. Len(req)
    BY <2>1
  <2>4. req[Len(req)] \in Row
    BY <1>1, <2>2, <2>3 DEF Rows
  <2> QED
    BY <2>2, <2>3, <2>4, RowSteps
<1>3. req' = [req EXCEPT ![Len(req)] = [req[Len(req)] EXCEPT !.st = "pending"]]
  OBVIOUS
<1>4. /\ req' \in Seq(Row) /\ Len(req') = Len(req)
      /\ \A r \in 1 .. Len(req) :
            req'[r] = IF r = Len(req) THEN [req[Len(req)] EXCEPT !.st = "pending"] ELSE req[r]
  BY <1>2, <1>3, ExceptSeq
<1> QED
  BY <1>1, <1>2, <1>4, RowSteps DEF Rows

(* A request that waits for its binding is the last one.                   *)
Bound == At("bind") => req # <<>>

-----------------------------------------------------------------------------
(* What a step does to the driver and to the rows.                         *)

Moved(p) == driver' = [driver EXCEPT !.at = p]

ModeOf == CASE kind.mode = "parallel" -> "create" [] kind.mode = "serial" -> "gate"
            [] kind.mode = "latestOnly" -> "supersede"

Proceeds ==
    \/ driver' = Idle \/ driver' = [Idle EXCEPT !.at = "down"] \/ driver' = driver
    \/ \E k \in Nat, g \in BOOLEAN :
          driver' = [at |-> "recover", key |-> k, goal |-> g, round |-> 0]
    \/ At("recover") /\ ~Recorded /\ Moved("snapshot") /\ req' = req
    \/ At("snapshot") /\ Moved(ModeOf) /\ req' = req
    \/ /\ At("gate") /\ Moved("create") /\ req' = req
       /\ \A r \in Rows : ~OwnFire(r) => ~RowGates(r)
    \/ /\ At("supersede") /\ Moved("revoke")
       /\ req' = Superseded({r \in Rows : ~OwnFire(r) /\ req[r].st = "pending"})
    \/ At("revoke") /\ driver' = [driver EXCEPT !.round = @ + 1]
    \/ /\ At("revoke") /\ Moved("create") /\ req' = req
       /\ \A r \in Rows : ~OwnFire(r) => req[r].st # "claimed"

Creates ==
    /\ At("create")
    /\ req' = Append(req, [key |-> driver.key, goal |-> driver.goal, late |-> 0,
                           st |-> IF kind.workspace THEN "binding" ELSE "pending"])
    /\ driver' = Idle \/ (kind.workspace /\ Moved("bind"))

Activates ==
    /\ req' \in Seq(Row) /\ Len(req') = Len(req)
    /\ \A r \in Rows : req'[r].key = req[r].key /\ req'[r].goal = req[r].goal
    /\ driver' = Idle
    /\ ~At("bind") /\ (\A r \in Rows : req[r].st # "binding") => Calm

(* Every step lets the rows proceed, creates one or activates some.        *)
LEMMA StepCases ==
    ASSUME Shape, Bound, [Next]_vars
    PROVE  kind' = kind /\ ((Calm /\ Proceeds) \/ Creates \/ Activates)
<1> USE SameCalm DEF Shape
<1>1. ASSUME ScheduleFires PROVE kind' = kind /\ Calm /\ Proceeds
  BY <1>1 DEF ScheduleFires, Begin, Proceeds, conf
<1>2. ASSUME Tick \/ DocumentArrives PROVE kind' = kind /\ Calm /\ Proceeds
  BY <1>2 DEF Tick, DocumentArrives, Proceeds, store, conf
<1>3. ASSUME EventFires PROVE kind' = kind /\ Calm /\ Proceeds
  <2>1. Head(queued) \in [key : Nat, goal : BOOLEAN]
    BY <1>3, HeadTailProperties DEF EventFires
  <2>2. Head(queued).key \in Nat /\ Head(queued).goal \in BOOLEAN
    BY <2>1
  <2> QED
    BY <1>3, <2>2 DEF EventFires, Begin, Proceeds, store, conf
<1>4. ASSUME NEW w \in writes, WriteLands(w) PROVE kind' = kind /\ Calm /\ Proceeds
  BY <1>4 DEF WriteLands, Proceeds, conf
<1>5. ASSUME RecoverGoalTaskFire \/ CheckSnapshot \/ GateSerial
      PROVE  kind' = kind /\ Calm /\ Proceeds
  BY <1>5 DEF RecoverGoalTaskFire, CheckSnapshot, GateSerial, Finish, GoTo, Proceeds,
              Moved, ModeOf, store, conf
<1>6. ASSUME SupersedePending PROVE kind' = kind /\ Calm /\ Proceeds
  BY <1>6, SupersededCalm DEF SupersedePending, Finish, GoTo, Proceeds, Moved, conf
<1>7. ASSUME RevokeClaims PROVE kind' = kind /\ Calm /\ Proceeds
  BY <1>7, SupersededCalm DEF RevokeClaims, Finish, GoTo, Proceeds, Moved, conf
<1>8. ASSUME Materialize PROVE kind' = kind /\ ((Calm /\ Proceeds) \/ Creates)
  BY <1>8 DEF Materialize, Finish, GoTo, Proceeds, Creates, Moved, conf
<1>9. ASSUME MaterializeBinding PROVE kind' = kind /\ ((Calm /\ Proceeds) \/ Activates)
  BY <1>9, BindingRows DEF MaterializeBinding, Finish, Proceeds, Activates, Bound, conf
<1>10. ASSUME NEW r \in Rows, Claim(r) \/ End(r) \/ Ages(r)
       PROVE  kind' = kind /\ Calm /\ Proceeds
  BY <1>10, OneRowCalm DEF Claim, End, Ages, Proceeds, conf
<1>11. ASSUME Publish \/ Crash PROVE kind' = kind /\ Calm /\ Proceeds
  BY <1>11 DEF Publish, Crash, Proceeds, store, conf
<1>12. ASSUME Restart PROVE kind' = kind /\ Activates
  BY <1>12, RestartRows DEF Restart, Activates, conf
<1>13. ASSUME UNCHANGED vars PROVE kind' = kind /\ Calm /\ Proceeds
  BY <1>13 DEF vars, store, conf, Proceeds
<1> QED
  BY <1>1, <1>2, <1>3, <1>4, <1>5, <1>6, <1>7, <1>8, <1>9, <1>10, <1>11, <1>12, <1>13
     DEF Next, Dispatch

-----------------------------------------------------------------------------
(* The driver's record, whatever it does. *)
LEMMA DriverSteps ==
    /\ Idle \in Drivers /\ [Idle EXCEPT !.at = "down"] \in Drivers
    /\ \A k \in Nat, g \in BOOLEAN :
          [at |-> "recover", key |-> k, goal |-> g, round |-> 0] \in Drivers
    /\ \A d \in Drivers : [d EXCEPT !.round = @ + 1] \in Drivers
    /\ \A d \in Drivers, p \in Places : [d EXCEPT !.at = p] \in Drivers
    /\ {"snapshot", "create", "revoke", "bind"} \subseteq Places
<1>1. Idle \in Drivers /\ [Idle EXCEPT !.at = "down"] \in Drivers
  BY DEF Idle, Drivers, Places
<1>2. \A k \in Nat, g \in BOOLEAN :
          [at |-> "recover", key |-> k, goal |-> g, round |-> 0] \in Drivers
  BY DEF Drivers, Places
<1>3. \A d \in Drivers : [d EXCEPT !.round = @ + 1] \in Drivers
  BY DEF Drivers
<1>4. \A d \in Drivers, p \in Places : [d EXCEPT !.at = p] \in Drivers
  BY DEF Drivers
<1>5. {"snapshot", "create", "revoke", "bind"} \subseteq Places
  BY DEF Places
<1> QED
  BY <1>1, <1>2, <1>3, <1>4, <1>5

(* Shape and Bound, from the cases. *)
LEMMA ShapeNext == Shape /\ Bound /\ [Next]_vars => Shape' /\ Bound'
<1> SUFFICES ASSUME Shape, Bound, [Next]_vars PROVE Shape' /\ Bound'
  OBVIOUS
<1>1. req' \in Seq(Row) /\ Bound'
  <2>1. CASE Calm /\ Proceeds
    <3>1. req' \in Seq(Row) /\ Len(req') = Len(req)
      BY <2>1 DEF Calm
    <3>2. At("bind")' => At("bind")
      BY <2>1, TriggerAssumption DEF Proceeds, At, Moved, Idle, ModeOf, Shape, Drivers
    <3> QED
      BY <3>1, <3>2, EmptySeq DEF Bound, Shape
  <2>2. CASE Creates
    <3>1. [key |-> driver.key, goal |-> driver.goal, late |-> 0,
           st |-> IF kind.workspace THEN "binding" ELSE "pending"] \in Row
      BY DEF Shape, Row, States, Drivers
    <3> QED
      BY <2>2, <3>1, AppendProperties DEF Creates, Shape, Bound
  <2>3. CASE Activates
    BY <2>3 DEF Activates, Bound, At, Idle
  <2> QED
    BY <2>1, <2>2, <2>3, StepCases
<1>2. driver' \in Drivers
  <2> USE DriverSteps DEF Shape
  <2>1. CASE Proceeds
    <3>1. ModeOf \in Places
      BY TriggerAssumption DEF ModeOf, Places
    <3> QED
      BY <2>1, <3>1, SMTT(20) DEF Proceeds, Moved
  <2>2. CASE Creates \/ Activates
    BY <2>2 DEF Creates, Activates, Moved
  <2> QED
    BY <2>1, <2>2, StepCases
<1> DEFINE Rest == /\ nextRun \in Nat /\ now \in Nat /\ arrived \in Nat
                   /\ \A w \in writes : w.to \in Nat
                   /\ queued \in Seq([key : Nat, goal : BOOLEAN])
                   /\ declared \in BOOLEAN
<1>3. Rest'
  <2> USE DEF Shape
  <2>1. CASE ScheduleFires \/ Tick
    BY <2>1 DEF ScheduleFires, Tick, src, conf, store
  <2>9. CASE Publish
    <3>1. declared' \in BOOLEAN
      BY <2>9 DEF Publish
    <3> QED
      BY <2>9, <3>1 DEF Publish, src, store
  <2>2. CASE DocumentArrives
    BY <2>2 DEF DocumentArrives, store, conf
  <2>3. CASE EventFires
    BY <2>3, HeadTailProperties DEF EventFires, store, conf
  <2>4. ASSUME NEW w \in writes, WriteLands(w)
        PROVE  Rest'
    BY <2>4 DEF WriteLands, src, conf
  <2>5. CASE Dispatch
    BY <2>5 DEF Dispatch, RecoverGoalTaskFire, CheckSnapshot, GateSerial, SupersedePending,
                RevokeClaims, Materialize, MaterializeBinding, Finish, OnResult, store,
                src, conf, Drivers
  <2>6. ASSUME NEW r \in Rows, Claim(r) \/ End(r) \/ Ages(r)
        PROVE  Rest'
    BY <2>6 DEF Claim, End, Ages, src, conf
  <2>7. CASE Crash \/ Restart
    BY <2>7, EmptySeq DEF Crash, Restart, store, src, conf
  <2>8. CASE UNCHANGED vars
    BY <2>8 DEF vars, store, src, conf
  <2> HIDE DEF Rest
  <2> QED
    BY <2>9, <2>1, <2>2, <2>3, <2>4, <2>5, <2>6, <2>7, <2>8 DEF Next
<1> QED
  BY <1>1, <1>2, <1>3, StepCases DEF Shape

-----------------------------------------------------------------------------
(* A goal fire leaves one request.                                         *)

GoalInv == Shape /\ Bound /\ Fresh /\ GoalFireOnce

(* Where the driver is after it proceeded, and for which fire.             *)
LEMMA DriverProceeds ==
    ASSUME Shape, Proceeds
    PROVE  \/ driver'.at \in {"idle", "down", "recover"}
           \/ /\ driver'.key = driver.key /\ driver'.goal = driver.goal
              /\ \/ driver'.at = driver.at
                 \/ At("recover") /\ ~Recorded /\ driver'.at = "snapshot"
                 \/ At("snapshot") /\ driver'.at = ModeOf
                 \/ /\ At("gate") /\ driver'.at = "create"
                    /\ \A r \in Rows : ~OwnFire(r) => ~RowGates(r)
                 \/ /\ At("supersede") /\ driver'.at = "revoke"
                    /\ req' = Superseded({r \in Rows : ~OwnFire(r) /\ req[r].st = "pending"})
                 \/ /\ At("revoke") /\ driver'.at = "create"
                    /\ \A r \in Rows : ~OwnFire(r) => req[r].st # "claimed"
  BY DEF Proceeds, Moved, Idle, Shape, Drivers, At

LEMMA ModeOfPlaces ==
    ASSUME Shape
    PROVE  /\ ModeOf \in {"create", "gate", "supersede"}
           /\ ModeOf = "create" <=> kind.mode = "parallel"
           /\ ModeOf = "gate" <=> kind.mode = "serial"
           /\ ModeOf = "supersede" <=> kind.mode = "latestOnly"
  BY TriggerAssumption DEF ModeOf, Shape

LEMMA RecordedBefore ==
    ASSUME Shape, req' \in Seq(Row), Len(req') = Len(req),
           \A r \in Rows : req'[r].key = req[r].key /\ req'[r].goal = req[r].goal
    PROVE  /\ driver'.key = driver.key /\ Recorded' => Recorded
           /\ GoalFireOnce => GoalFireOnce'
<1>1. Rows' = Rows
  BY LenProperties DEF Rows, Shape
<1> QED
  BY <1>1 DEF Recorded, GoalFireOnce

LEMMA GoalInvNext == GoalInv /\ [Next]_vars => GoalInv'
<1> SUFFICES ASSUME GoalInv, [Next]_vars PROVE GoalInv'
  OBVIOUS
<1> USE DEF GoalInv
<1>1. Shape' /\ Bound'
  BY ShapeNext
<1>2. CASE Calm /\ Proceeds
  <2>1. /\ req' \in Seq(Row) /\ Len(req') = Len(req)
        /\ \A r \in Rows : req'[r].key = req[r].key /\ req'[r].goal = req[r].goal
    BY <1>2 DEF Calm, Follows
  <2>2. GoalFireOnce' /\ (driver'.key = driver.key /\ Recorded' => Recorded)
    BY <2>1, RecordedBefore
  <2>3. Fresh'
    BY <1>2, <2>2, DriverProceeds, ModeOfPlaces DEF Fresh, At
  <2> QED
    BY <1>1, <2>2, <2>3
<1>3. CASE Creates
  <2> DEFINE new == [key |-> driver.key, goal |-> driver.goal, late |-> 0,
                     st |-> IF kind.workspace THEN "binding" ELSE "pending"]
  <2>1. new \in Row /\ new.key = driver.key
    BY DEF Shape, Row, States, Drivers
  <2>2. ~Recorded
    BY <1>3 DEF Fresh, Creates
  <2>3. /\ Rows' = 1 .. Len(req) + 1 /\ Rows = 1 .. Len(req) /\ Len(req) \in Nat
        /\ \A i \in 1 .. Len(req) : req'[i] = req[i]
        /\ req'[Len(req) + 1] = new
    BY <1>3, <2>1, AppendProperties, LenProperties DEF Creates, Rows, Shape
  <2>4. GoalFireOnce'
    <3> HIDE DEF new
    <3> SUFFICES ASSUME NEW i \in Rows', NEW j \in Rows', i < j, req'[i].goal
                 PROVE  req'[i].key # req'[j].key
      BY DEF GoalFireOnce
    <3>1. i \in Rows /\ req'[i] = req[i]
      BY <2>3
    <3>2. CASE j \in Rows
      BY <2>3, <3>1, <3>2 DEF GoalFireOnce
    <3>3. CASE j = Len(req) + 1
      BY <2>1, <2>2, <2>3, <3>1, <3>3 DEF Recorded
    <3> QED
      BY <2>3, <3>2, <3>3
  <2>5. Fresh'
    BY <1>3 DEF Fresh, Creates, At, Moved, Idle, Shape, Drivers
  <2> QED
    BY <1>1, <2>4, <2>5
<1>4. CASE Activates
  <2>1. GoalFireOnce'
    BY <1>4, RecordedBefore DEF Activates
  <2>2. Fresh'
    BY <1>4 DEF Fresh, Activates, At, Idle
  <2> QED
    BY <1>1, <2>1, <2>2
<1> QED
  BY <1>2, <1>3, <1>4, StepCases

(* GoalFireOnce for every trigger: a slot or a document of a goal-backed   *)
(* task leaves one request, however often its checkpoint is late, fails or *)
(* is lost, and whatever becomes of the declaration meanwhile              *)
(* (trigger_engine/mod.rs, recover_goal_task_fire).                        *)
THEOREM GoalFiresOnce == Spec => []GoalFireOnce
<1>1. Init => GoalInv
  <2> SUFFICES ASSUME Init PROVE GoalInv
    OBVIOUS
  <2>1. Shape
    BY ShapeInit
  <2>2. Rows = {} /\ driver = Idle
    BY EmptySeq DEF Init, Rows
  <2> QED
    BY <2>1, <2>2 DEF GoalInv, Bound, Fresh, GoalFireOnce, At, Idle
<1>2. GoalInv => GoalFireOnce
  BY DEF GoalInv
<1> QED
  BY <1>1, <1>2, GoalInvNext, PTL DEF Spec

-----------------------------------------------------------------------------
(* The gates.                                                              *)

(* Each gate is used by its own mode only. *)
Gated ==
    /\ At("gate") => kind.mode = "serial"
    /\ At("supersede") \/ At("revoke") => kind.mode = "latestOnly"

GateInv == GoalInv /\ Gated /\ NoBinding /\ SerialClear /\ LatestClear

(* Rows that only follow what they were keep what the gates established.   *)
LEMMA CalmKeeps ==
    ASSUME Shape, Calm, kind' = kind
    PROVE  /\ Rows' = Rows
           /\ \A r \in Rows : /\ Gates(req'[r]) => Gates(req[r])
                              /\ Open(req'[r]) => Open(req[r])
                              /\ req'[r].st = "pending" => req[r].st = "pending"
                              /\ req'[r].st = "binding" => req[r].st = "binding"
<1>1. Rows' = Rows
  BY LenProperties DEF Rows, Shape, Calm
<1> QED
  BY <1>1 DEF Calm, Follows

LEMMA GateCalm ==
    ASSUME GateInv, Calm, kind' = kind,
           Proceeds \/ driver' = Idle
    PROVE  Gated' /\ NoBinding' /\ SerialClear' /\ LatestClear'
<1> USE DEF GateInv, GoalInv
<1>1. /\ Rows' = Rows
      /\ \A r \in Rows : /\ Gates(req'[r]) => Gates(req[r])
                         /\ Open(req'[r]) => Open(req[r])
                         /\ req'[r].st = "pending" => req[r].st = "pending"
                         /\ req'[r].st = "binding" => req[r].st = "binding"
  BY CalmKeeps
<1>2. \/ driver'.at \in {"idle", "down", "recover"}
      \/ driver'.at = driver.at
      \/ driver'.at = "snapshot"
      \/ At("snapshot") /\ driver'.at = ModeOf
      \/ /\ At("gate") /\ driver'.at = "create"
         /\ \A r \in Rows : ~OwnFire(r) => ~RowGates(r)
      \/ /\ At("supersede") /\ driver'.at = "revoke"
         /\ req' = Superseded({r \in Rows : ~OwnFire(r) /\ req[r].st = "pending"})
      \/ /\ At("revoke") /\ driver'.at = "create"
         /\ \A r \in Rows : ~OwnFire(r) => req[r].st # "claimed"
  BY DriverProceeds DEF Idle
<1>3. At("gate") \/ At("supersede") \/ At("revoke") => \A r \in Rows : ~OwnFire(r)
  BY DEF Fresh, Recorded, OwnFire
<1>4. Gated'
  BY <1>2, ModeOfPlaces DEF Gated, At
<1>5. NoBinding'
  BY <1>1, <1>2, ModeOfPlaces DEF NoBinding, At
<1>6. SerialClear'
  <2> SUFFICES ASSUME kind.mode = "serial" PROVE SerialClear'
    BY DEF SerialClear
  <2>1. \A i, j \in Rows' : Gates(req'[i]) /\ Gates(req'[j]) => i = j
    BY <1>1 DEF SerialClear
  <2>2. ASSUME driver'.at = "create" PROVE \A r \in Rows' : ~Gates(req'[r])
    <3>1. \A r \in Rows : ~Gates(req[r])
      BY <1>2, <1>3, <2>2, ModeOfPlaces DEF SerialClear, Gated, At, RowGates, Gates
    <3> QED
      BY <1>1, <3>1
  <2> QED
    BY <2>1, <2>2 DEF SerialClear, At
<1>7. LatestClear'
  <2> SUFFICES ASSUME kind.mode = "latestOnly" PROVE LatestClear'
    BY DEF LatestClear
  <2>1. \A i, j \in Rows' : Open(req'[i]) /\ Open(req'[j]) => i = j
    BY <1>1 DEF LatestClear
  <2>2. ASSUME driver'.at = "revoke" PROVE \A r \in Rows' : req'[r].st # "pending"
    <3>1. CASE At("revoke")
      BY <1>1, <3>1 DEF LatestClear
    <3>2. CASE /\ At("supersede")
               /\ req' = Superseded({r \in Rows : ~OwnFire(r) /\ req[r].st = "pending"})
      <4> SUFFICES ASSUME NEW r \in Rows, req'[r].st = "pending" PROVE FALSE
        BY <1>1
      <4>1. req[r].st = "pending" /\ req[r] \in Row
        BY <1>1, LenProperties DEF Shape, Rows
      <4>2. req'[r] = [req[r] EXCEPT !.st = "superseded"]
        BY <3>2, <1>3, <4>1 DEF Superseded
      <4> QED
        BY <4>1, <4>2 DEF Row
    <3> QED
      BY <1>2, <2>2, <3>1, <3>2, ModeOfPlaces DEF At
  <2>3. ASSUME driver'.at = "create" PROVE \A r \in Rows' : ~Open(req'[r])
    <3>1. \A r \in Rows : ~Open(req[r])
      BY <1>2, <1>3, <2>3, ModeOfPlaces DEF LatestClear, Gated, At, Open
    <3> QED
      BY <1>1, <3>1
  <2> QED
    BY <2>1, <2>2, <2>3 DEF LatestClear, At
<1> QED
  BY <1>4, <1>5, <1>6, <1>7

LEMMA GateInvNext == GatedUnbound /\ GateInv /\ [Next]_vars => GateInv'
<1> SUFFICES ASSUME GatedUnbound, GateInv, [Next]_vars PROVE GateInv'
  OBVIOUS
<1> USE DEF GateInv
<1>1. GoalInv' /\ kind' = kind /\ Shape /\ ((Calm /\ Proceeds) \/ Creates \/ Activates)
  BY GoalInvNext, StepCases DEF GoalInv
<1>2. CASE Calm /\ Proceeds
  BY <1>1, <1>2, GateCalm
<1>3. CASE Creates /\ kind.mode # "parallel"
  <2> DEFINE new == [key |-> driver.key, goal |-> driver.goal, late |-> 0, st |-> "pending"]
  <2>1. ~kind.workspace /\ driver' = Idle
    BY <1>1, <1>3 DEF GatedUnbound, Creates, Shape
  <2>2. new \in Row /\ new.st = "pending"
    BY <1>1 DEF Shape, Row, States, Drivers
  <2>3. req' = Append(req, new)
    BY <1>3, <2>1 DEF Creates
  <2>4. /\ Rows' = 1 .. Len(req) + 1 /\ Rows = 1 .. Len(req) /\ Len(req) \in Nat
        /\ \A i \in 1 .. Len(req) : req'[i] = req[i]
        /\ req'[Len(req) + 1] = new
    BY <1>1, <2>2, <2>3, AppendProperties, LenProperties DEF Rows, Shape
  <2>5. \A i \in Rows' : (i \in Rows /\ req'[i] = req[i]) \/ (i = Len(req) + 1 /\ req'[i] = new)
    BY <2>4
  <2> HIDE DEF new
  <2>6. At("create") /\ driver'.at = "idle"
    BY <1>3, <2>1 DEF Creates, Idle
  <2>7. Gated' /\ NoBinding'
    BY <2>2, <2>5, <2>6, <1>1 DEF Gated, NoBinding, At
  <2>8. SerialClear' /\ LatestClear'
    BY <2>5, <2>6, <1>1 DEF SerialClear, LatestClear, At
  <2> QED
    BY <1>1, <2>7, <2>8
<1>4. CASE Activates /\ kind.mode # "parallel"
  <2>1. Calm /\ driver' = Idle
    BY <1>4 DEF Activates, NoBinding
  <2> QED
    BY <1>1, <2>1, GateCalm
<1>5. CASE (Creates \/ Activates) /\ kind.mode = "parallel"
  <2>1. driver'.at \in {"idle", "bind"}
    BY <1>1, <1>5 DEF Creates, Activates, Moved, Idle, Shape, Drivers
  <2> QED
    BY <1>1, <1>5, <2>1 DEF Gated, NoBinding, SerialClear, LatestClear, At
<1> QED
  BY <1>1, <1>2, <1>3, <1>4, <1>5

LEMMA GateInvInit == Init => GateInv
<1> SUFFICES ASSUME Init PROVE GateInv
  OBVIOUS
<1>1. Shape
  BY ShapeInit
<1>2. Rows = {} /\ driver = Idle
  BY EmptySeq DEF Init, Rows
<1> QED
  BY <1>1, <1>2 DEF GateInv, GoalInv, Bound, Fresh, GoalFireOnce, Gated, NoBinding,
                    SerialClear, LatestClear, At, Idle

(* A set without two different elements has at most one.                   *)
LEMMA AtMostOne ==
    ASSUME NEW S, \A x, y \in S : x = y
    PROVE  Cardinality(S) <= 1
<1>1. CASE S = {}
  BY <1>1, FS_EmptySet
<1>2. CASE S # {}
  <2>1. PICK x : S = {x}
    BY <1>2
  <2> QED
    BY <2>1, FS_Singleton
<1> QED
  BY <1>1, <1>2

(* SerialOne for every number of fires, restarts and faults: while one     *)
(* request of a serial trigger waits or is within deadline and grace, no   *)
(* second one is created (dispatch's Serial gate), if its requests are     *)
(* created pending.                                                        *)
THEOREM SerialHoldsOne == GatedUnbound /\ Spec => []SerialOne
<1> SUFFICES ASSUME GatedUnbound PROVE Spec => []SerialOne
  OBVIOUS
<1>1. GateInv => SerialOne
  <2> SUFFICES ASSUME GateInv, kind.mode = "serial" PROVE SerialOne
    BY DEF SerialOne
  <2> DEFINE S == {r \in Rows : req[r].st = "pending"
                                \/ (req[r].st = "claimed" /\ req[r].late < 2)}
  <2>1. \A x, y \in S : x = y
    BY DEF GateInv, SerialClear, Gates
  <2>2. Cardinality(S) <= 1
    BY <2>1, AtMostOne
  <2> QED
    BY <2>2 DEF SerialOne
<1>2. GateInv /\ [Next]_vars => GateInv'
  BY GateInvNext
<1> QED
  BY <1>1, <1>2, GateInvInit, PTL DEF Spec

(* LatestOnlyOne likewise: when the next request of a latest-only trigger  *)
(* is created every earlier one has ended, whichever way claims raced the  *)
(* two halves of the supersession.                                         *)
THEOREM LatestOnlyHoldsOne == GatedUnbound /\ Spec => []LatestOnlyOne
<1> SUFFICES ASSUME GatedUnbound PROVE Spec => []LatestOnlyOne
  OBVIOUS
<1>1. GateInv => LatestOnlyOne
  <2> SUFFICES ASSUME GateInv, kind.mode = "latestOnly" PROVE LatestOnlyOne
    BY DEF LatestOnlyOne
  <2> DEFINE S == {r \in Rows : req[r].st \in {"pending", "claimed"}}
  <2>1. \A x, y \in S : x = y
    BY DEF GateInv, LatestClear, Open
  <2>2. Cardinality(S) <= 1
    BY <2>1, AtMostOne
  <2> QED
    BY <2>2 DEF LatestOnlyOne
<1>2. GateInv /\ [Next]_vars => GateInv'
  BY GateInvNext
<1> QED
  BY <1>1, <1>2, GateInvInit, PTL DEF Spec

=============================================================================
