-------------------------- MODULE ToolCallsProofs --------------------------
(***************************************************************************)
(* The tool calls of a request, for any sets of calls and any load: an end *)
(* is final, a live process keeps its row, and the first decision rules.   *)
(***************************************************************************)
EXTENDS ToolCalls, TLAPS

(* Where the turn is, and what it found there.                             *)
HookAgrees ==
    /\ hook.at = "idle" => hook = Idle
    /\ hook.at # "idle" => phase = "up" /\ parent = "processing" /\ closing = "no"
    /\ hook.at \in {"insert", "poll", "verdict", "run"} => hook.call \in Native
    /\ hook.at = "insert" => /\ row[hook.call].st \in {"held", "running"}
                             /\ Running(hook.call) => decisions[hook.call] = <<>>
    /\ hook.at \in {"poll", "verdict"} => row[hook.call].st = "held"
    /\ hook.at = "verdict" => /\ decisions[hook.call] # <<>>
                              /\ hook.seen = FirstDecision(hook.call)
    /\ hook.at = "run" => /\ row[hook.call].st \notin {"absent", "held"}
                          /\ decisions[hook.call] # <<>> =>
                                FirstDecision(hook.call) = "approved"
    /\ hook.at = "spawn" => /\ hook.call \in registry
                            /\ row[hook.call].st = "absent"

(* Rows, decisions and the tasks that own processes.                       *)
RowsAgree ==
    /\ \A c \in Calls : row[c].st \notin Ends => row[c].by = "none"
    /\ \A c \in Native : row[c].st = "absent" => decisions[c] = <<>>
    /\ \A c \in Background :
          /\ row[c].st = "absent" => worker[c] = "none"
          /\ worker[c] # "none" => c \in registry /\ phase = "up"
          /\ worker[c] = "running" => row[c].by # "sweep"

ToolsInv == TypeOK /\ HookAgrees /\ RowsAgree

-----------------------------------------------------------------------------
(* What the writes do to a row.                                            *)

RowSet == [st : {"absent", "held", "running"} \cup Ends,
           by : {"none", "hook", "worker", "user", "sweep"}, owed : BOOLEAN]
RowFns == [Calls -> RowSet]

LEMMA EndFromFacts ==
    ASSUME row \in RowFns, NEW c \in Calls, NEW from, NEW st \in Ends,
           NEW by \in {"hook", "worker", "user", "sweep"}
    PROVE  /\ EndFrom(c, from, st, by) \in RowFns
           /\ \A d \in Calls \ {c} : EndFrom(c, from, st, by)[d] = row[d]
           /\ IF row[c].st = from
              THEN /\ EndFrom(c, from, st, by)[c].st = st
                   /\ EndFrom(c, from, st, by)[c].by = by
              ELSE EndFrom(c, from, st, by)[c] = row[c]
<1> DEFINE new == [st |-> st, by |-> by, owed |-> c \in Background]
<1>1. new \in RowSet /\ new.st = st /\ new.by = by
  BY DEF RowSet
<1> HIDE DEF new
<1>2. CASE row[c].st = from
  <2>1. EndFrom(c, from, st, by) = [row EXCEPT ![c] = new]
    BY <1>2 DEF EndFrom, new
  <2> QED
    BY <1>1, <1>2, <2>1 DEF RowFns
<1>3. CASE row[c].st # from
  BY <1>3 DEF EndFrom, RowFns
<1> QED
  BY <1>2, <1>3

LEMMA StateWrite ==
    ASSUME row \in RowFns, NEW c \in Calls, NEW st \in {"held", "running"},
           row' = [row EXCEPT ![c].st = st]
    PROVE  /\ row' \in RowFns /\ \A d \in Calls \ {c} : row'[d] = row[d]
           /\ row'[c].st = st /\ row'[c].by = row[c].by
<1> DEFINE new == [row[c] EXCEPT !.st = st]
<1>1. row[c] \in RowSet /\ new \in RowSet /\ new.st = st /\ new.by = row[c].by
  BY DEF RowFns, RowSet
<1>2. row' = [row EXCEPT ![c] = new]
  OBVIOUS
<1> HIDE DEF new
<1> QED
  BY <1>1, <1>2 DEF RowFns

LEMMA NoticeFacts ==
    ASSUME row \in RowFns, NEW c \in Calls
    PROVE  /\ [row EXCEPT ![c].owed = FALSE] \in RowFns
           /\ \A d \in Calls \ {c} : [row EXCEPT ![c].owed = FALSE][d] = row[d]
           /\ [row EXCEPT ![c].owed = FALSE][c].st = row[c].st
           /\ [row EXCEPT ![c].owed = FALSE][c].by = row[c].by
           /\ ~[row EXCEPT ![c].owed = FALSE][c].owed
<1>1. [row[c] EXCEPT !.owed = FALSE] \in RowSet
  BY DEF RowFns, RowSet
<1> QED
  BY <1>1 DEF RowFns, RowSet

(* What any step may do to the row of call c. *)
Lawful(c) ==
    \/ row'[c] = row[c]
    \/ row[c].st \in {"held", "running"} /\ row'[c].st \in Ends
    \/ row'[c].st = row[c].st /\ row'[c].by = row[c].by /\ ~row'[c].owed
    \/ /\ row[c].st \in {"absent", "held"} /\ row'[c].st \in {"held", "running"}
       /\ row'[c].by = row[c].by

AllLawful == \A c \in Calls : Lawful(c)

(* Nothing but call c's row is written: it ends, or its notice is done. *)
Closes(c, by) ==
    /\ row' \in RowFns /\ \A d \in Calls \ {c} : row'[d] = row[d]
    /\ \/ row'[c] = row[c]
       \/ /\ row[c].st \in {"held", "running"} /\ row'[c].st \in Ends /\ row'[c].by = by
       \/ row'[c].st = row[c].st /\ row'[c].by = row[c].by /\ ~row'[c].owed

(* Tasks only move towards their end, and a call is in the registry as     *)
(* long as its task is there.                                              *)
Tasks ==
    /\ \A d \in Background : \/ worker'[d] = worker[d]
                             \/ worker[d] # "none" /\ worker'[d] # "running"
    /\ \A d \in Background : worker'[d] # "none" => d \in registry'
    /\ \A d \in registry : d \in registry' \/ worker[d] # "none"

LEMMA Typed ==
    TypeOK => /\ row \in RowFns /\ decisions \in [Native -> Seq({"approved", "denied"})]
              /\ Native \subseteq Calls /\ Background \subseteq Calls
              /\ registry \subseteq Background
              /\ \A c \in Native : c \notin Background
  BY CallsAssumption DEF TypeOK, RowFns, RowSet, Calls

LEMMA ClosesKeeps ==
    ASSUME ToolsInv, NEW c \in Calls, NEW by, Closes(c, by), Tasks,
           hook.at = "idle" \/ c \in Background,
           UNCHANGED <<decisions, hook, phase, parent, closing>>,
           by = "sweep" => c \in Native \/ worker[c] = "none"
    PROVE  HookAgrees' /\ RowsAgree' /\ AllLawful
<1>0. /\ row \in RowFns /\ Native \subseteq Calls /\ Background \subseteq Calls
      /\ registry \subseteq Background /\ \A d \in Native : d \notin Background
  BY Typed DEF ToolsInv
<1>1. HookAgrees'
  <2>1. CASE hook.at = "idle"
    BY <2>1 DEF ToolsInv, HookAgrees
  <2>2. CASE hook.at = "spawn"
    <3>1. /\ hook.call \in registry /\ row[hook.call].st = "absent"
          /\ hook.call \in Background /\ worker[hook.call] = "none"
      BY <1>0, <2>2 DEF ToolsInv, HookAgrees, RowsAgree
    <3>2. hook.call \in registry' /\ row'[hook.call].st = "absent"
      BY <1>0, <3>1 DEF Closes, Tasks
    <3> QED
      BY <2>2, <3>2 DEF ToolsInv, HookAgrees
  <2>3. CASE hook.at \notin {"idle", "spawn"}
    <3>1. hook.at \in {"insert", "poll", "verdict", "run"} /\ hook.call \in Native
      BY <2>3 DEF ToolsInv, HookAgrees, TypeOK
    <3>2. row'[hook.call] = row[hook.call]
      BY <1>0, <2>3, <3>1 DEF Closes
    <3> QED
      BY <2>3, <3>1, <3>2 DEF ToolsInv, HookAgrees, Running, FirstDecision
  <2> QED
    BY <2>1, <2>2, <2>3
<1>2. RowsAgree'
  <2>1. ASSUME NEW d \in Calls, row'[d].st \notin Ends PROVE row'[d].by = "none"
    BY <2>1 DEF ToolsInv, RowsAgree, Closes
  <2>2. ASSUME NEW d \in Calls, row'[d].st = "absent" PROVE row[d].st = "absent"
    BY <2>2 DEF Closes, Ends
  <2>3. ASSUME NEW d \in Background
        PROVE  /\ row'[d].st = "absent" => worker'[d] = "none"
               /\ worker'[d] # "none" => d \in registry' /\ phase' = "up"
               /\ worker'[d] = "running" => row'[d].by # "sweep"
    <3>1. row[d].st = "absent" => worker[d] = "none"
      BY DEF ToolsInv, RowsAgree
    <3>2. row'[d].st = "absent" => worker'[d] = "none"
      BY <1>0, <2>2, <3>1 DEF Tasks
    <3>3. worker'[d] # "none" => d \in registry' /\ phase' = "up"
      BY DEF ToolsInv, RowsAgree, Tasks
    <3>4. worker'[d] = "running" => row'[d].by # "sweep"
      <4> SUFFICES ASSUME worker'[d] = "running" PROVE row'[d].by # "sweep"
        OBVIOUS
      <4>1. worker[d] = "running" /\ row[d].by # "sweep"
        BY DEF ToolsInv, RowsAgree, Tasks
      <4> QED
        BY <1>0, <4>1 DEF Closes
    <3> QED
      BY <3>2, <3>3, <3>4
  <2> QED
    BY <1>0, <2>1, <2>2, <2>3 DEF ToolsInv, RowsAgree
<1>3. AllLawful
  BY DEF Closes, AllLawful, Lawful
<1> QED
  BY <1>1, <1>2, <1>3

-----------------------------------------------------------------------------
(* The actions.                                                            *)

Safe == ToolsInv' /\ AllLawful

LEMMA ProcessSafe ==
    ASSUME ToolsInv, NEW c \in Background,
           \/ \E st \in Ends : WorkerEnds(c, st)
           \/ WorkerNotifies(c) \/ WorkerReleases(c) \/ CancelProcess(c) \/ CancelFires(c)
    PROVE  Safe
<1>0. /\ row \in RowFns /\ c \in Calls /\ TypeOK /\ row[c] \in RowSet
      /\ \A d \in Background : worker[d] # "none" => d \in registry
  BY Typed DEF ToolsInv, RowsAgree, RowFns
<1>f. ASSUME Fail PROVE fails' \in 0 .. load.fails
  BY <1>0, <1>f, CallsAssumption DEF Fail, TypeOK
<1>1. ASSUME NEW st \in Ends, WorkerEnds(c, st) PROVE Safe
  <2> DEFINE how == IF st = "timedOut" THEN "failed" ELSE st
  <2>1. how \in Ends
    BY DEF Ends
  <2>2. /\ row' = EndFrom(c, "running", how, "worker") \/ row' = row
        /\ worker[c] = "running"
        /\ worker' \in {[worker EXCEPT ![c] = "notify"], [worker EXCEPT ![c] = "cleanup"]}
        /\ fails' = fails \/ Fail
        /\ UNCHANGED <<parent, latch, decisions, turn, registry, token, canceller, loaded, env>>
    BY <1>1 DEF WorkerEnds
  <2> HIDE DEF how
  <2>3. Closes(c, "worker")
    BY <1>0, <2>1, <2>2, EndFromFacts DEF Closes
  <2>4. Tasks
    BY <1>0, <2>2 DEF Tasks, TypeOK
  <2>5. TypeOK'
    BY <1>0, <1>f, <2>2, <2>3 DEF TypeOK, Closes, RowFns, RowSet, turn, env
  <2> QED
    BY <1>0, <2>2, <2>3, <2>4, <2>5, ClosesKeeps DEF Safe, ToolsInv, turn, env
<1>2. CASE WorkerNotifies(c)
  <2>1. /\ row' = [row EXCEPT ![c].owed = FALSE] \/ row' = row
        /\ worker[c] = "notify" /\ worker' = [worker EXCEPT ![c] = "cleanup"]
        /\ fails' = fails \/ Fail
        /\ UNCHANGED <<parent, latch, decisions, turn, registry, token, canceller, loaded, env>>
    BY <1>2 DEF WorkerNotifies
  <2>2. Closes(c, "worker")
    BY <1>0, <2>1, NoticeFacts DEF Closes
  <2>3. Tasks
    BY <1>0, <2>1 DEF Tasks, TypeOK
  <2>4. TypeOK'
    BY <1>0, <1>f, <2>1, <2>2 DEF TypeOK, Closes, RowFns, RowSet, turn, env
  <2> QED
    BY <1>0, <2>1, <2>2, <2>3, <2>4, ClosesKeeps DEF Safe, ToolsInv, turn, env
<1>3. CASE WorkerReleases(c)
  <2>1. /\ row' = row /\ worker[c] = "cleanup"
        /\ worker' = [worker EXCEPT ![c] = "none"] /\ registry' = registry \ {c}
        /\ UNCHANGED <<docs, turn, token, canceller, loaded, env, fails>>
    BY <1>3 DEF WorkerReleases, docs
  <2>2. Closes(c, "worker")
    BY <1>0, <2>1 DEF Closes
  <2>3. Tasks
    BY <1>0, <2>1 DEF Tasks, TypeOK
  <2>4. TypeOK'
    BY <1>0, <2>1 DEF TypeOK, docs, turn, env
  <2> QED
    BY <1>0, <2>1, <2>2, <2>3, <2>4, ClosesKeeps DEF Safe, ToolsInv, docs, turn, env
<1>4. CASE CancelProcess(c)
  <2>1. /\ row' = EndFrom(c, "running", "cancelled", "user") /\ canceller' = c
        /\ UNCHANGED <<parent, latch, decisions, turn, registry, worker, token, loaded, env, fails>>
    BY <1>4 DEF CancelProcess
  <2>2. Closes(c, "user")
    <3>1. "cancelled" \in Ends
      BY DEF Ends
    <3> QED
      BY <1>0, <2>1, <3>1, EndFromFacts DEF Closes
  <2>3. Tasks
    BY <1>0, <2>1 DEF Tasks
  <2>4. TypeOK'
    BY <1>0, <2>1, <2>2 DEF TypeOK, Closes, RowFns, RowSet, turn, env
  <2> QED
    BY <1>0, <2>1, <2>2, <2>3, <2>4, ClosesKeeps DEF Safe, ToolsInv, turn, env
<1>5. CASE CancelFires(c)
  <2>1. /\ row' = [row EXCEPT ![c].owed = FALSE] \/ row' = row
        /\ token' \in {token, token \cup {c}} /\ canceller' = "none"
        /\ fails' = fails \/ Fail
        /\ UNCHANGED <<parent, latch, decisions, turn, registry, worker, loaded, env>>
    BY <1>5 DEF CancelFires
  <2>2. Closes(c, "user")
    BY <1>0, <2>1, NoticeFacts DEF Closes
  <2>3. Tasks
    BY <1>0, <2>1 DEF Tasks
  <2>4. TypeOK'
    BY <1>0, <1>f, <2>1, <2>2 DEF TypeOK, Closes, RowFns, RowSet, turn, env
  <2> QED
    BY <1>0, <2>1, <2>2, <2>3, <2>4, ClosesKeeps DEF Safe, ToolsInv, turn, env
<1> QED
  BY <1>1, <1>2, <1>3, <1>4, <1>5

LEMMA SweepSafe ==
    ASSUME ToolsInv, NEW c \in Calls,
           \/ c \in Background /\ (SweepOrphan(c) \/ RedriveNotice(c))
           \/ c \in Native /\ SweepTerminalParent(c)
    PROVE  Safe
<1>0. /\ row \in RowFns /\ TypeOK /\ row[c] \in RowSet
      /\ \A d \in Background : worker[d] # "none" => d \in registry
  BY Typed DEF ToolsInv, RowsAgree, RowFns
<1>f. ASSUME Fail PROVE fails' \in 0 .. load.fails
  BY <1>0, <1>f, CallsAssumption DEF Fail, TypeOK
<1>1. CASE c \in Background /\ SweepOrphan(c)
  <2>1. /\ loaded' \subseteq Calls /\ (fails' = fails \/ Fail)
        /\ UNCHANGED <<parent, latch, decisions, turn, procs, env>>
    BY <1>0, <1>1 DEF SweepOrphan, TypeOK
  <2>2. RecoveryOutcome(c) \in Ends
    BY <1>1 DEF RecoveryOutcome, Ends
  <2> DEFINE ended == EndFrom(c, "running", RecoveryOutcome(c), "sweep")
  <2>3. /\ ended \in RowFns /\ \A d \in Calls \ {c} : ended[d] = row[d]
        /\ IF row[c].st = "running" THEN ended[c].st \in Ends /\ ended[c].by = "sweep"
                                    ELSE ended[c] = row[c]
    BY <1>0, <2>2, EndFromFacts
  <2>4. /\ [ended EXCEPT ![c].owed = FALSE] \in RowFns
        /\ \A d \in Calls \ {c} : [ended EXCEPT ![c].owed = FALSE][d] = row[d]
        /\ [ended EXCEPT ![c].owed = FALSE][c].st = ended[c].st
        /\ [ended EXCEPT ![c].owed = FALSE][c].by = ended[c].by
    <3> HIDE DEF ended
    <3>1. ended[c] \in RowSet
      BY <2>3 DEF RowFns
    <3>2. [ended[c] EXCEPT !.owed = FALSE] \in RowSet
      BY <3>1 DEF RowSet
    <3> QED
      BY <2>3, <3>1, <3>2 DEF RowFns, RowSet
  <2>5. \/ row' = row
        \/ c \notin registry /\ row' = ended
        \/ c \notin registry /\ row[c].st = "running" /\ row' = [ended EXCEPT ![c].owed = FALSE]
    BY <1>1 DEF SweepOrphan, Running
  <2> HIDE DEF ended
  <2>6. Closes(c, IF c \in registry THEN "worker" ELSE "sweep")
    <3>1. CASE c \in registry
      BY <1>0, <2>5, <3>1 DEF Closes
    <3>2. CASE c \notin registry
      BY <1>0, <2>3, <2>4, <2>5, <3>2 DEF Closes
    <3> QED
      BY <3>1, <3>2
  <2>7. Tasks
    BY <1>0, <2>1 DEF Tasks, procs
  <2>8. TypeOK'
    <3>1. fails' \in 0 .. load.fails /\ row' \in RowFns
      BY <1>0, <1>f, <2>1, <2>6 DEF TypeOK, Closes
    <3> QED
      BY <1>0, <2>1, <3>1 DEF TypeOK, RowFns, RowSet, turn, procs, env
  <2> QED
    BY <1>0, <1>1, <2>1, <2>6, <2>7, <2>8, ClosesKeeps DEF Safe, ToolsInv, turn, env
<1>2. CASE c \in Background /\ RedriveNotice(c)
  <2>1. /\ row' = [row EXCEPT ![c].owed = FALSE] \/ row' = row
        /\ fails' = fails \/ Fail
        /\ UNCHANGED <<parent, latch, decisions, turn, procs, loaded, env>>
    BY <1>2 DEF RedriveNotice
  <2>2. Closes(c, "worker")
    BY <1>0, <2>1, NoticeFacts DEF Closes
  <2>3. Tasks
    BY <1>0, <2>1 DEF Tasks, procs
  <2>4. TypeOK'
    BY <1>0, <1>f, <2>1, <2>2 DEF TypeOK, Closes, RowFns, RowSet, turn, procs, env
  <2> QED
    BY <1>0, <1>2, <2>1, <2>2, <2>3, <2>4, ClosesKeeps DEF Safe, ToolsInv, turn, env
<1>3. CASE c \in Native /\ SweepTerminalParent(c)
  <2>1. /\ loaded' \subseteq Calls
        /\ UNCHANGED <<parent, latch, decisions, turn, procs, env, fails>>
    BY <1>0, <1>3 DEF SweepTerminalParent, TypeOK
  <2>2. CASE parent \notin ParentTerminal
    <3>1. row' = row
      BY <1>3, <2>2 DEF SweepTerminalParent
    <3>2. HookAgrees' /\ RowsAgree' /\ AllLawful
      BY <2>1, <3>1 DEF ToolsInv, HookAgrees, RowsAgree, AllLawful, Lawful, Running,
         FirstDecision, turn, procs, env
    <3>3. TypeOK'
      BY <1>0, <2>1, <3>1 DEF TypeOK, turn, procs, env
    <3> QED
      BY <3>2, <3>3 DEF Safe, ToolsInv
  <2>3. CASE parent \in ParentTerminal
    <3>0. hook.at = "idle"
      BY <2>3 DEF ToolsInv, HookAgrees, ParentTerminal
    <3>1. Closes(c, "sweep")
      <4>1. PICK st \in Ends : row' = EndFrom(c, "running", st, "sweep")
        BY <1>3, <2>3 DEF SweepTerminalParent, Ends
      <4> QED
        BY <1>0, <4>1, EndFromFacts DEF Closes
    <3>2. Tasks
      BY <1>0, <2>1 DEF Tasks, procs
    <3>3. TypeOK'
      BY <1>0, <2>1, <3>1 DEF TypeOK, Closes, RowFns, RowSet, turn, procs, env
    <3> QED
      BY <1>0, <1>3, <2>1, <3>0, <3>1, <3>2, <3>3, ClosesKeeps DEF Safe, ToolsInv, turn, env
  <2> QED
    BY <2>2, <2>3
<1> QED
  BY <1>1, <1>2, <1>3

(* The calls of a turn that is over. *)
LEMMA InFlightSafe ==
    ASSUME ToolsInv, NEW c \in Native, CloseInFlight(c) \/ FailInFlight(c)
    PROVE  Safe
<1>0. /\ row \in RowFns /\ TypeOK /\ c \in Calls /\ row[c] \in RowSet
      /\ \A d \in Background : worker[d] # "none" => d \in registry
  BY Typed DEF ToolsInv, RowsAgree, RowFns
<1>1. /\ hook.at = "idle" /\ mem' \in [Native -> {"none", "held", "running"}]
      /\ UNCHANGED <<parent, latch, decisions, hook, closing, procs, loaded, env, fails>>
  BY <1>0 DEF CloseInFlight, FailInFlight, ToolsInv, HookAgrees, TypeOK
<1>2. Closes(c, "hook")
  <2>1. CASE row' = row
    BY <1>0, <2>1 DEF Closes
  <2>2. CASE \E from \in {"held", "running"}, st \in Ends : row' = EndFrom(c, from, st, "hook")
    BY <1>0, <2>2, EndFromFacts DEF Closes
  <2>3. CASE CloseInFlight(c)
    <3>1. mem[c] \in {"held", "running"}
      BY <1>0, <2>3 DEF CloseInFlight, TypeOK
    <3> QED
      BY <2>2, <2>3, <3>1 DEF CloseInFlight, Ends
  <2>4. CASE FailInFlight(c)
    BY <2>1, <2>2, <2>4 DEF FailInFlight, Ends
  <2> QED
    BY <2>3, <2>4
<1>3. Tasks
  BY <1>0, <1>1 DEF Tasks, procs
<1>4. TypeOK'
  BY <1>0, <1>1, <1>2 DEF TypeOK, Closes, RowFns, RowSet, procs, env
<1> QED
  BY <1>0, <1>1, <1>2, <1>3, <1>4, ClosesKeeps DEF Safe, ToolsInv, procs, env

(* Steps that touch neither a row nor a task nor the turn's place. *)
LEMMA QuietSafe ==
    ASSUME ToolsInv, TypeOK', UNCHANGED <<row, decisions, hook, registry, worker>>,
           hook.at # "idle" => UNCHANGED <<phase, parent, closing>>,
           phase = "up" => phase' = "up"
    PROVE  Safe
<1>1. HookAgrees'
  BY DEF ToolsInv, HookAgrees, Running, FirstDecision
<1>2. RowsAgree'
  BY DEF ToolsInv, RowsAgree
<1> QED
  BY <1>1, <1>2 DEF Safe, ToolsInv, AllLawful, Lawful

LEMMA OtherSafe ==
    ASSUME ToolsInv,
           \/ Interrupt \/ SweepLoads \/ Reclaim
           \/ \E st \in ParentTerminal \cup {"pending"} : ParentEnds(st) \/ RecoverRequest(st)
           \/ \E d \in Background \cup {"request"} : DeadlinePasses(d)
    PROVE  Safe
<1>0. TypeOK
  BY DEF ToolsInv
<1>1. CASE Interrupt
  <2>1. TypeOK'
    BY <1>0, <1>1 DEF Interrupt, TypeOK, turn, procs, env
  <2> QED
    BY <1>1, <2>1, QuietSafe DEF Interrupt, turn, procs, env
<1>2. CASE SweepLoads
  <2>1. TypeOK'
    BY <1>0, <1>2 DEF SweepLoads, TypeOK, docs, turn, procs, env
  <2> QED
    BY <1>2, <2>1, QuietSafe DEF SweepLoads, docs, turn, procs, env
<1>3. CASE Reclaim
  <2>1. TypeOK'
    BY <1>0, <1>3 DEF Reclaim, TypeOK, turn, procs, env, ParentTerminal
  <2>2. hook.at = "idle"
    BY <1>3 DEF Reclaim, ToolsInv, HookAgrees
  <2> QED
    BY <1>3, <2>1, <2>2, QuietSafe DEF Reclaim, turn, procs, env
<1>4. ASSUME NEW st \in ParentTerminal \cup {"pending"}, ParentEnds(st) PROVE Safe
  <2>1. TypeOK'
    BY <1>0, <1>4 DEF ParentEnds, TypeOK, procs, env
  <2>2. hook.at = "idle"
    BY <1>4 DEF ParentEnds, Idle
  <2> QED
    BY <1>4, <2>1, <2>2, QuietSafe DEF ParentEnds, procs, env
<1>5. ASSUME NEW st \in ParentTerminal \cup {"pending"}, RecoverRequest(st) PROVE Safe
  <2>1. TypeOK'
    BY <1>0, <1>5 DEF RecoverRequest, TypeOK, turn, procs
  <2>2. hook.at = "idle"
    BY <1>5 DEF RecoverRequest, ToolsInv, HookAgrees
  <2> QED
    BY <1>5, <2>1, <2>2, QuietSafe DEF RecoverRequest, turn, procs
<1>6. ASSUME NEW d \in Background \cup {"request"}, DeadlinePasses(d) PROVE Safe
  <2>1. TypeOK'
    BY <1>0, <1>6 DEF DeadlinePasses, TypeOK, docs, turn, procs
  <2> QED
    BY <1>6, <2>1, QuietSafe DEF DeadlinePasses, docs, turn, procs
<1> QED
  BY <1>1, <1>2, <1>3, <1>4, <1>5, <1>6

(* The row of call c starts, moves on or is ended by the hook. *)
Moves(c) ==
    /\ row' \in RowFns /\ \A d \in Calls \ {c} : row'[d] = row[d]
    /\ \/ row'[c] = row[c]
       \/ /\ row[c].st \in {"held", "running"} /\ row'[c].st \in Ends /\ row'[c].by = "hook"
       \/ /\ row[c].st \in {"absent", "held"} /\ row'[c].st \in {"held", "running"}
          /\ row'[c].by = row[c].by

LEMMA MovesKeep ==
    ASSUME ToolsInv, NEW c \in Calls, Moves(c), UNCHANGED <<decisions, phase>>,
           \A d \in Background :
              /\ \/ worker'[d] = worker[d]
                 \/ d = c /\ row'[c].st = "running" /\ phase = "up"
              /\ worker'[d] # "none" => d \in registry'
    PROVE  RowsAgree' /\ AllLawful
<1>0. Native \subseteq Calls /\ Background \subseteq Calls
  BY Typed DEF ToolsInv
<1>1. \A d \in Calls : row'[d].st \notin Ends => row'[d].by = "none"
  <2> SUFFICES ASSUME NEW d \in Calls, row'[d].st \notin Ends PROVE row'[d].by = "none"
    OBVIOUS
  <2>1. row[d].st \notin Ends => row[d].by = "none"
    BY DEF ToolsInv, RowsAgree
  <2> QED
    BY <2>1 DEF Moves, Ends
<1>2. ASSUME NEW d \in Calls, row'[d].st = "absent" PROVE row[d].st = "absent"
  BY <1>2 DEF Moves, Ends
<1>3. ASSUME NEW d \in Background
      PROVE  /\ row'[d].st = "absent" => worker'[d] = "none"
             /\ worker'[d] # "none" => d \in registry' /\ phase' = "up"
             /\ worker'[d] = "running" => row'[d].by # "sweep"
  <2>0. /\ row[d].st = "absent" => worker[d] = "none"
        /\ worker[d] # "none" => phase = "up"
        /\ worker[d] = "running" => row[d].by # "sweep"
    BY DEF ToolsInv, RowsAgree
  <2>1. CASE worker'[d] = worker[d]
    BY <1>0, <1>2, <2>0, <2>1 DEF Moves
  <2>2. CASE d = c /\ row'[c].st = "running" /\ phase = "up"
    BY <1>0, <1>1, <2>2 DEF Ends
  <2> QED
    BY <2>1, <2>2
<1>4. RowsAgree'
  BY <1>0, <1>1, <1>2, <1>3 DEF ToolsInv, RowsAgree
<1> QED
  BY <1>4 DEF Moves, AllLawful, Lawful

(* The stream is dropped, with the write that was under way or without it. *)
LEMMA DropSafe ==
    ASSUME ToolsInv, NEW why \in {"cancel", "fail", "timeout"}, DropStream(why)
    PROVE  Safe
<1>0. /\ row \in RowFns /\ TypeOK /\ Background \subseteq Calls /\ Native \subseteq Calls
      /\ registry \subseteq Background
      /\ \A d \in Background : worker[d] # "none" => d \in registry
  BY Typed DEF ToolsInv, RowsAgree
<1>1. /\ hook' = Idle /\ closing' = why
      /\ registry' = IF hook.at = "spawn" THEN registry \ {hook.call} ELSE registry
      /\ UNCHANGED <<parent, latch, decisions, mem, worker, token, canceller, loaded, env, fails>>
  BY DEF DropStream
<1>2. HookAgrees'
  BY <1>1 DEF HookAgrees, Idle
<1>3. \A d \in Background : worker'[d] # "none" => d \in registry'
  <2> SUFFICES ASSUME NEW d \in Background, worker[d] # "none" PROVE d \in registry'
    BY <1>1
  <2>1. hook.at = "spawn" => d # hook.call
    <3>1. hook.at = "spawn" => row[hook.call].st = "absent"
      BY DEF ToolsInv, HookAgrees
    <3>2. row[d].st # "absent"
      BY DEF ToolsInv, RowsAgree
    <3> QED
      BY <3>1, <3>2
  <2> QED
    BY <1>0, <1>1, <2>1
<1>4. row' \in RowFns /\ RowsAgree' /\ AllLawful
  <2>1. CASE row' = row
    <3>1. RowsAgree' /\ AllLawful
      BY <1>1, <1>3, <2>1 DEF ToolsInv, RowsAgree, AllLawful, Lawful, env
    <3> QED
      BY <1>0, <2>1, <3>1
  <2>2. CASE /\ hook.at = "spawn" \/ (hook.at = "verdict" /\ hook.seen = "approved")
             /\ row' = [row EXCEPT ![hook.call].st = "running"]
    <3>1. hook.call \in Calls /\ row[hook.call].st \in {"absent", "held"}
      BY <1>0, <2>2 DEF ToolsInv, HookAgrees
    <3>2. Moves(hook.call)
      <4>1. ASSUME NEW c \in Calls, row[c].st \in {"absent", "held"},
                   row' = [row EXCEPT ![c].st = "running"]
            PROVE  Moves(c)
        <5>1. /\ row' \in RowFns /\ \A d \in Calls \ {c} : row'[d] = row[d]
              /\ row'[c].st = "running" /\ row'[c].by = row[c].by
          BY <1>0, <4>1, StateWrite
        <5> QED
          BY <4>1, <5>1 DEF Moves
      <4> QED
        BY <2>2, <3>1, <4>1
    <3>3. RowsAgree' /\ AllLawful
      BY <1>1, <1>3, <3>1, <3>2, MovesKeep DEF env
    <3> QED
      BY <3>2, <3>3 DEF Moves
  <2>3. CASE /\ hook.at = "verdict" /\ hook.seen = "denied"
             /\ row' = EndFrom(hook.call, "held", "failed", "hook")
    <3>1. hook.call \in Calls
      BY <1>0, <2>3 DEF ToolsInv, HookAgrees
    <3>2. "failed" \in Ends
      BY DEF Ends
    <3>3. Moves(hook.call)
      BY <1>0, <2>3, <3>1, <3>2, EndFromFacts DEF Moves
    <3>4. RowsAgree' /\ AllLawful
      BY <1>1, <1>3, <3>1, <3>3, MovesKeep DEF env
    <3> QED
      BY <3>3, <3>4 DEF Moves
  <2> QED
    BY <2>1, <2>2, <2>3 DEF DropStream
<1>5. TypeOK'
  BY <1>0, <1>1, <1>4 DEF TypeOK, RowFns, RowSet, Idle, env
<1> QED
  BY <1>2, <1>4, <1>5 DEF Safe, ToolsInv

(* Restart: every task is gone, and with it the turn.                      *)
LEMMA CrashSafe ==
    ASSUME ToolsInv, Crash
    PROVE  Safe
<1>0. TypeOK
  BY DEF ToolsInv
<1>1. crashes' \in 0 .. load.crashes
  BY <1>0, CallsAssumption DEF Crash, TypeOK
<1>2. TypeOK'
  BY <1>0, <1>1 DEF Crash, TypeOK, docs, Idle
<1>3. HookAgrees'
  BY DEF Crash, HookAgrees, Idle
<1>4. RowsAgree'
  BY DEF Crash, ToolsInv, RowsAgree, docs
<1>5. AllLawful
  BY DEF Crash, AllLawful, Lawful, docs
<1> QED
  BY <1>2, <1>3, <1>4, <1>5 DEF Safe, ToolsInv

LEMMA RecoverSafe ==
    ASSUME ToolsInv, RecoverToolCalls
    PROVE  Safe
<1>0. /\ row \in RowFns /\ TypeOK /\ Background \subseteq Calls /\ Native \subseteq Calls
  BY Typed DEF ToolsInv
<1>1. /\ phase = "tools" /\ phase' = "requests"
      /\ row' = [c \in Calls |-> IF Running(c) /\ RecoveryOutcome(c) # "none"
                                 THEN EndFrom(c, "running", RecoveryOutcome(c), "sweep")[c]
                                 ELSE row[c]]
      /\ UNCHANGED <<parent, latch, decisions, turn, procs, loaded, due, load, crashes, fails>>
  BY DEF RecoverToolCalls
<1>2. \A c \in Calls : \/ row'[c] = row[c] /\ row'[c] \in RowSet
                       \/ /\ row[c].st = "running" /\ row'[c].st \in Ends
                          /\ row'[c].by = "sweep" /\ row'[c] \in RowSet
  <2> SUFFICES ASSUME NEW c \in Calls
               PROVE  \/ row'[c] = row[c] /\ row'[c] \in RowSet
                      \/ /\ row[c].st = "running" /\ row'[c].st \in Ends
                         /\ row'[c].by = "sweep" /\ row'[c] \in RowSet
    OBVIOUS
  <2>1. CASE Running(c) /\ RecoveryOutcome(c) # "none"
    <3>1. RecoveryOutcome(c) \in Ends
      BY <2>1 DEF RecoveryOutcome, Ends
    <3>2. row'[c] = EndFrom(c, "running", RecoveryOutcome(c), "sweep")[c]
      BY <1>1, <2>1
    <3>3. /\ EndFrom(c, "running", RecoveryOutcome(c), "sweep") \in RowFns
          /\ EndFrom(c, "running", RecoveryOutcome(c), "sweep")[c].st \in Ends
          /\ EndFrom(c, "running", RecoveryOutcome(c), "sweep")[c].by = "sweep"
      BY <1>0, <2>1, <3>1, EndFromFacts DEF Running
    <3> QED
      BY <2>1, <3>2, <3>3 DEF Running, RowFns
  <2>2. CASE ~(Running(c) /\ RecoveryOutcome(c) # "none")
    <3>1. row'[c] = row[c]
      BY <1>1, <2>2
    <3> QED
      BY <1>0, <3>1 DEF RowFns
  <2> QED
    BY <2>1, <2>2
<1>3. row' \in RowFns
  <2>1. row' \in [Calls -> RowSet]
    BY <1>1, <1>2
  <2> QED
    BY <2>1 DEF RowFns
<1>4. TypeOK'
  <2>1. /\ parent' = parent /\ latch' = latch /\ decisions' = decisions /\ hook' = hook
        /\ mem' = mem /\ closing' = closing /\ registry' = registry /\ worker' = worker
        /\ token' = token /\ canceller' = canceller /\ loaded' = loaded /\ due' = due
        /\ load' = load /\ crashes' = crashes /\ fails' = fails
    BY <1>1 DEF turn, procs
  <2> QED
    BY <1>0, <1>1, <1>3, <2>1 DEF TypeOK, RowFns, RowSet
<1>5. hook.at = "idle" /\ \A c \in Background : worker[c] = "none"
  BY <1>1 DEF ToolsInv, HookAgrees, RowsAgree
<1>6. HookAgrees'
  BY <1>1, <1>5 DEF ToolsInv, HookAgrees, turn
<1>7. RowsAgree'
  <2>1. \A c \in Calls : row'[c].st \notin Ends => row'[c].by = "none"
    BY <1>2 DEF ToolsInv, RowsAgree
  <2>2. \A c \in Native : row'[c].st = "absent" => decisions'[c] = <<>>
    <3>1. \A c \in Native : row'[c].st = "absent" => row[c].st = "absent"
      BY <1>0, <1>2 DEF Ends
    <3> QED
      BY <1>1, <3>1 DEF ToolsInv, RowsAgree
  <2>3. worker' = worker
    BY <1>1 DEF procs
  <2> QED
    BY <1>5, <2>1, <2>2, <2>3 DEF RowsAgree
<1>8. AllLawful
  BY <1>2 DEF AllLawful, Lawful
<1> QED
  BY <1>4, <1>6, <1>7, <1>8 DEF Safe, ToolsInv

(* The steps of the turn.                                                  *)
LEMMA TurnSafe ==
    ASSUME ToolsInv, TurnStep
    PROVE  Safe
<1>0. /\ row \in RowFns /\ TypeOK /\ Background \subseteq Calls /\ Native \subseteq Calls
      /\ registry \subseteq Background /\ \A d \in Native : d \notin Background
      /\ \A d \in Background : worker[d] # "none" => d \in registry
  BY Typed DEF ToolsInv, RowsAgree
<1>e. {"completed", "failed", "timedOut"} \subseteq Ends
  BY DEF Ends
<1>1. ASSUME NEW c \in Native, NEW st \in {"held", "running"}, OnToolCall(c, st)
      PROVE  Safe
  <2>1. /\ Turn /\ row[c].st = "absent" /\ row' = [row EXCEPT ![c].st = st]
        /\ hook' = [at |-> "insert", call |-> c, seen |-> "none"]
        /\ UNCHANGED <<parent, latch, decisions, mem, closing, procs, loaded, env, fails>>
    BY <1>1 DEF OnToolCall, GoTo
  <2>2. Moves(c) /\ row'[c].st = st
    <3>1. /\ row' \in RowFns /\ \A d \in Calls \ {c} : row'[d] = row[d]
          /\ row'[c].st = st /\ row'[c].by = row[c].by
      BY <1>0, <2>1, StateWrite
    <3> QED
      BY <2>1, <3>1 DEF Moves
  <2>3. RowsAgree' /\ AllLawful
    BY <1>0, <2>1, <2>2, MovesKeep DEF procs, env
  <2>4. decisions'[c] = <<>>
    BY <2>1 DEF ToolsInv, RowsAgree
  <2>5. HookAgrees'
    BY <2>1, <2>2, <2>4 DEF HookAgrees, Turn, env
  <2>6. TypeOK'
    BY <1>0, <2>1, <2>2 DEF TypeOK, Moves, RowFns, RowSet, procs, env
  <2> QED
    BY <2>3, <2>5, <2>6 DEF Safe, ToolsInv
<1>2. ASSUME NEW c \in Native, InsertInFlight(c) PROVE Safe
  <2>1. /\ Turn /\ hook.at = "insert" /\ hook.call = c /\ mem' = [mem EXCEPT ![c] = row[c].st]
        /\ hook' = [at |-> IF row[c].st = "held" THEN "poll" ELSE "run", call |-> c, seen |-> "none"]
        /\ UNCHANGED <<docs, closing, procs, loaded, env, fails>>
    BY <1>2 DEF InsertInFlight, GoTo, At
  <2>2. /\ row[c].st \in {"held", "running"}
        /\ row[c].st = "running" => decisions[c] = <<>>
    BY <2>1 DEF ToolsInv, HookAgrees, Running
  <2>3. RowsAgree' /\ AllLawful
    BY <2>1 DEF ToolsInv, RowsAgree, AllLawful, Lawful, docs, procs, env
  <2>4. HookAgrees'
    <3>1. CASE row[c].st = "held"
      BY <2>1, <3>1 DEF HookAgrees, Turn, docs, env
    <3>2. CASE row[c].st = "running"
      BY <2>1, <2>2, <3>2 DEF HookAgrees, Turn, docs, env
    <3> QED
      BY <2>2, <3>1, <3>2
  <2>5. TypeOK'
    BY <1>0, <2>1, <2>2 DEF TypeOK, docs, procs, env
  <2> QED
    BY <2>3, <2>4, <2>5 DEF Safe, ToolsInv
<1>3. ASSUME NEW c \in Native, NEW st \in Ends, NEW from \in {"held", "running"},
             row' = EndFrom(c, from, st, "hook"),
             mem' = [mem EXCEPT ![c] = "none"], hook' = Idle,
             UNCHANGED <<parent, latch, decisions, closing, procs, loaded, env, fails>>
      PROVE  Safe
  <2>2. Moves(c)
    <3>1. /\ row' \in RowFns /\ \A d \in Calls \ {c} : row'[d] = row[d]
          /\ IF row[c].st = from THEN row'[c].st = st /\ row'[c].by = "hook"
                                ELSE row'[c] = row[c]
      <4>1. c \in Calls /\ row \in RowFns
        BY <1>0
      <4>2. /\ EndFrom(c, from, st, "hook") \in RowFns
            /\ \A d \in Calls \ {c} : EndFrom(c, from, st, "hook")[d] = row[d]
            /\ IF row[c].st = from
               THEN /\ EndFrom(c, from, st, "hook")[c].st = st
                    /\ EndFrom(c, from, st, "hook")[c].by = "hook"
               ELSE EndFrom(c, from, st, "hook")[c] = row[c]
        BY <4>1, EndFromFacts
      <4> QED
        BY <1>3, <4>2
    <3> QED
      BY <1>3, <3>1 DEF Moves
  <2>3. RowsAgree' /\ AllLawful
    BY <1>0, <1>3, <2>2, MovesKeep DEF procs, env
  <2>5. HookAgrees'
    BY <1>3 DEF HookAgrees, Idle
  <2>6. TypeOK'
    BY <1>0, <1>3, <2>2 DEF TypeOK, Moves, RowFns, RowSet, procs, env, Idle
  <2> QED
    BY <2>3, <2>5, <2>6 DEF Safe, ToolsInv
<1>4. ASSUME NEW c \in Native, PollTimesOut(c) PROVE Safe
  BY <1>e, <1>3, <1>4 DEF PollTimesOut
<1>5. ASSUME NEW c \in Native, NEW st \in {"completed", "failed"}, OnToolResult(c, st)
      PROVE  Safe
  BY <1>e, <1>3, <1>5 DEF OnToolResult
<1>6. ASSUME NEW c \in Native, PollReads(c) PROVE Safe
  <2>1. /\ Turn /\ hook.at = "poll" /\ hook.call = c /\ decisions[c] # <<>>
        /\ hook' = [at |-> "verdict", call |-> c, seen |-> FirstDecision(c)]
        /\ UNCHANGED <<docs, mem, closing, procs, loaded, env, fails>>
    BY <1>6 DEF PollReads, At
  <2>2. row[c].st = "held"
    BY <2>1 DEF ToolsInv, HookAgrees
  <2>3. FirstDecision(c) \in {"none", "approved", "denied"}
    BY <1>0 DEF FirstDecision, TypeOK
  <2>4. RowsAgree' /\ AllLawful
    BY <2>1 DEF ToolsInv, RowsAgree, AllLawful, Lawful, docs, procs, env
  <2>5. HookAgrees'
    <3>1. FirstDecision(c)' = FirstDecision(c)
      BY <2>1 DEF FirstDecision, docs
    <3> QED
      BY <2>1, <2>2, <3>1 DEF HookAgrees, Turn, docs, env, FirstDecision
  <2>6. TypeOK'
    BY <1>0, <2>1, <2>3 DEF TypeOK, docs, procs, env
  <2> QED
    BY <2>4, <2>5, <2>6 DEF Safe, ToolsInv
<1>7. ASSUME NEW c \in Native, Verdict(c) PROVE Safe
  <2>1. CASE hook.seen = "approved"
    <3>1. /\ Turn /\ hook.at = "verdict" /\ hook.call = c /\ row[c].st = "held"
          /\ row' = [row EXCEPT ![c].st = "running"]
          /\ mem' = [mem EXCEPT ![c] = "running"]
          /\ hook' = [at |-> "run", call |-> c, seen |-> "none"]
          /\ UNCHANGED <<parent, latch, decisions, closing, procs, loaded, env, fails>>
      BY <1>7, <2>1 DEF Verdict, At, GoTo
    <3>2. Moves(c) /\ row'[c].st = "running"
      <4>1. /\ row' \in RowFns /\ \A d \in Calls \ {c} : row'[d] = row[d]
            /\ row'[c].st = "running" /\ row'[c].by = row[c].by
        BY <1>0, <3>1, StateWrite
      <4> QED
        BY <3>1, <4>1 DEF Moves
    <3>3. FirstDecision(c) = "approved"
      BY <2>1, <3>1 DEF ToolsInv, HookAgrees
    <3>4. RowsAgree' /\ AllLawful
      BY <1>0, <3>1, <3>2, MovesKeep DEF procs, env
    <3>5. HookAgrees'
      BY <3>1, <3>2, <3>3 DEF HookAgrees, Turn, env, FirstDecision
    <3>6. TypeOK'
      BY <1>0, <3>1, <3>2 DEF TypeOK, Moves, RowFns, RowSet, procs, env
    <3> QED
      BY <3>4, <3>5, <3>6 DEF Safe, ToolsInv
  <2>2. CASE hook.seen # "approved"
    BY <1>e, <1>3, <1>7, <2>2 DEF Verdict
  <2> QED
    BY <2>1, <2>2
<1>8. ASSUME NEW c \in Background, SpawnReserves(c) PROVE Safe
  <2>1. /\ Turn /\ row[c].st = "absent" /\ registry' = registry \cup {c}
        /\ hook' = [at |-> "spawn", call |-> c, seen |-> "none"]
        /\ UNCHANGED <<docs, mem, closing, worker, token, canceller, loaded, env, fails>>
    BY <1>8 DEF SpawnReserves, GoTo
  <2>2. RowsAgree' /\ AllLawful
    BY <2>1 DEF ToolsInv, RowsAgree, AllLawful, Lawful, docs, env
  <2>3. HookAgrees'
    BY <2>1 DEF HookAgrees, Turn, docs, env
  <2>4. TypeOK'
    BY <1>0, <2>1 DEF TypeOK, docs, env
  <2> QED
    BY <2>2, <2>3, <2>4 DEF Safe, ToolsInv
<1>9. ASSUME NEW c \in Background, SpawnStarts(c) PROVE Safe
  <2>1. /\ Turn /\ hook.at = "spawn" /\ hook.call = c /\ hook' = Idle
        /\ row' = [row EXCEPT ![c].st = "running"]
        /\ worker' = [worker EXCEPT ![c] = "running"]
        /\ UNCHANGED <<parent, latch, decisions, mem, closing, registry, token, canceller,
                       loaded, env, fails>>
    BY <1>9 DEF SpawnStarts, At
  <2>2. row[c].st = "absent" /\ c \in registry
    BY <2>1 DEF ToolsInv, HookAgrees
  <2>3. Moves(c) /\ row'[c].st = "running"
    <3>1. /\ row' \in RowFns /\ \A d \in Calls \ {c} : row'[d] = row[d]
          /\ row'[c].st = "running" /\ row'[c].by = row[c].by
      BY <1>0, <2>1, StateWrite
    <3> QED
      BY <2>2, <3>1 DEF Moves
  <2>4. worker \in [Background -> {"none", "running", "notify", "cleanup"}]
    BY <1>0 DEF TypeOK
  <2>5. RowsAgree' /\ AllLawful
    <3>1. \A d \in Background :
             /\ \/ worker'[d] = worker[d]
                \/ d = c /\ row'[c].st = "running" /\ phase = "up"
             /\ worker'[d] # "none" => d \in registry'
      BY <1>0, <2>1, <2>2, <2>3, <2>4 DEF Turn
    <3> QED
      BY <1>0, <2>1, <2>3, <3>1, MovesKeep DEF env
  <2>6. HookAgrees'
    BY <2>1 DEF HookAgrees, Idle
  <2>7. TypeOK'
    BY <1>0, <2>1, <2>3, <2>4 DEF TypeOK, Moves, RowFns, RowSet, env, Idle
  <2> QED
    BY <2>5, <2>6, <2>7 DEF Safe, ToolsInv
<1> QED
  BY <1>1, <1>2, <1>4, <1>5, <1>6, <1>7, <1>8, <1>9 DEF TurnStep

(* An operator decides: the first document stays the first.                *)
LEMMA DecideSafe ==
    ASSUME ToolsInv, NEW c \in Native, NEW d \in {"approved", "denied"}, Decide(c, d)
    PROVE  Safe
<1>0. /\ TypeOK /\ c \in Calls /\ decisions \in [Native -> Seq({"approved", "denied"})]
      /\ decisions[c] \in Seq({"approved", "denied"})
  BY Typed DEF ToolsInv
<1>1. /\ row[c].st = "held" /\ decisions' = [decisions EXCEPT ![c] = Append(decisions[c], d)]
      /\ UNCHANGED <<row, parent, latch, turn, procs, loaded, env, fails>>
  BY DEF Decide
<1>2. /\ Append(decisions[c], d) \in Seq({"approved", "denied"})
      /\ Append(decisions[c], d) # <<>>
      /\ decisions[c] # <<>> => Head(Append(decisions[c], d)) = Head(decisions[c])
  <2>1. Append(decisions[c], d) \in Seq({"approved", "denied"})
    BY <1>0
  <2>2. Append(decisions[c], d) # <<>>
    BY <1>0, SMT
  <2>3. decisions[c] # <<>> => Head(Append(decisions[c], d)) = Head(decisions[c])
    <3> SUFFICES ASSUME decisions[c] # <<>>
                 PROVE  Head(Append(decisions[c], d)) = Head(decisions[c])
      OBVIOUS
    <3>1. Len(decisions[c]) >= 1
      BY <1>0
    <3> QED
      BY <1>0, <3>1
  <2> QED
    BY <1>0, <2>1, <2>2, <2>3
<1>3. /\ decisions'[c] = Append(decisions[c], d)
      /\ \A e \in Native \ {c} : decisions'[e] = decisions[e]
      /\ decisions' \in [Native -> Seq({"approved", "denied"})]
  BY <1>0, <1>1, <1>2
<1>4. \A e \in Native : decisions[e] # <<>> =>
         decisions'[e] # <<>> /\ FirstDecision(e)' = FirstDecision(e)
  BY <1>2, <1>3 DEF FirstDecision
<1>5. HookAgrees'
  <2>1. UNCHANGED <<row, hook, phase, parent, closing, registry>>
    BY <1>1 DEF turn, procs, env
  <2>2. hook.at = "insert" /\ Running(hook.call) => decisions'[hook.call] = <<>>
    <3>1. hook.at = "insert" /\ row[hook.call].st = "running" =>
             hook.call \in Native /\ hook.call # c /\ decisions[hook.call] = <<>>
      BY <1>1 DEF ToolsInv, HookAgrees, Running
    <3> QED
      BY <1>3, <3>1 DEF Running
  <2>3. hook.at = "verdict" => /\ decisions'[hook.call] # <<>>
                               /\ hook.seen = FirstDecision(hook.call)'
    <3>1. hook.at = "verdict" => hook.call \in Native /\ decisions[hook.call] # <<>>
                                 /\ hook.seen = FirstDecision(hook.call)
      BY DEF ToolsInv, HookAgrees
    <3> QED
      BY <1>4, <2>1, <3>1 DEF FirstDecision
  <2>4. hook.at = "run" => (decisions'[hook.call] # <<>> =>
                               FirstDecision(hook.call)' = "approved")
    <3>1. hook.at = "run" =>
             /\ hook.call \in Native /\ hook.call # c
             /\ decisions[hook.call] # <<>> => FirstDecision(hook.call) = "approved"
      BY <1>1 DEF ToolsInv, HookAgrees
    <3> QED
      BY <1>3, <2>1, <3>1 DEF FirstDecision
  <2> QED
    BY <2>1, <2>2, <2>3, <2>4 DEF ToolsInv, HookAgrees, Running, FirstDecision
<1>6. RowsAgree'
  BY <1>0, <1>1, <1>3 DEF ToolsInv, RowsAgree, turn, procs, env
<1>7. AllLawful
  BY <1>1 DEF AllLawful, Lawful
<1>8. TypeOK'
  BY <1>0, <1>1, <1>3 DEF TypeOK, turn, procs, env
<1> QED
  BY <1>5, <1>6, <1>7, <1>8 DEF Safe, ToolsInv

-----------------------------------------------------------------------------
(* Every step keeps the invariant and treats the rows lawfully.            *)
LEMMA ToolsStep ==
    ASSUME ToolsInv, [Next]_vars
    PROVE  Safe
<1>1. CASE TurnStep
  BY <1>1, TurnSafe
<1>2. CASE EndStep
  BY <1>2, DropSafe, InFlightSafe, OtherSafe DEF EndStep
<1>3. CASE ProcessStep
  BY <1>3, ProcessSafe DEF ProcessStep
<1>4. CASE SweepStep
  <2>1. CASE SweepLoads
    BY <2>1, OtherSafe
  <2>2. ASSUME NEW c \in Background, SweepOrphan(c) \/ RedriveNotice(c) PROVE Safe
    <3>1. c \in Calls
      BY DEF Calls
    <3> QED
      BY <2>2, <3>1, SweepSafe
  <2>3. ASSUME NEW c \in Native, SweepTerminalParent(c) PROVE Safe
    <3>1. c \in Calls
      BY DEF Calls
    <3> QED
      BY <2>3, <3>1, SweepSafe
  <2> QED
    BY <1>4, <2>1, <2>2, <2>3 DEF SweepStep
<1>5. CASE Interrupt
  BY <1>5, OtherSafe
<1>6. CASE Crash
  BY <1>6, CrashSafe
<1>7. CASE RecoverToolCalls
  BY <1>7, RecoverSafe
<1>8. CASE \E st \in {"pending"} \cup ParentTerminal : RecoverRequest(st)
  BY <1>8, OtherSafe
<1>9. CASE \E c \in Native, d \in {"approved", "denied"} : Decide(c, d)
  BY <1>9, DecideSafe
<1>10. CASE \E d \in Background \cup {"request"} : DeadlinePasses(d)
  BY <1>10, OtherSafe
<1>11. CASE UNCHANGED vars
  <2>1. TypeOK'
    BY <1>11 DEF ToolsInv, TypeOK, vars, docs, turn, procs, env
  <2> QED
    BY <1>11, <2>1, QuietSafe DEF vars, docs, turn, procs, env
<1> QED
  BY <1>1, <1>2, <1>3, <1>4, <1>5, <1>6, <1>7, <1>8, <1>9, <1>10, <1>11 DEF Next

LEMMA ToolsStart == Init => ToolsInv
<1> SUFFICES ASSUME Init PROVE ToolsInv
  OBVIOUS
<1>1. NoRow \in RowSet
  BY DEF NoRow, RowSet
<1>2. row \in RowFns /\ \A c \in Calls : row[c] = NoRow
  BY <1>1 DEF Init, RowFns
<1>3. TypeOK
  <2>1. load.fails \in Nat /\ load.crashes \in Nat
    BY CallsAssumption DEF Init
  <2>2. decisions \in [Native -> Seq({"approved", "denied"})]
    BY DEF Init
  <2>3. /\ hook \in [at : {"idle", "insert", "poll", "verdict", "run", "spawn"},
                     call : Calls \cup {"none"}, seen : {"none", "approved", "denied"}]
        /\ mem \in [Native -> {"none", "held", "running"}]
        /\ worker \in [Background -> {"none", "running", "notify", "cleanup"}]
    BY DEF Init, Idle
  <2>4. fails \in 0 .. load.fails /\ crashes \in 0 .. load.crashes
    BY <2>1 DEF Init
  <2> QED
    BY <1>2, <2>2, <2>3, <2>4 DEF Init, TypeOK, RowFns, RowSet
<1>4. HookAgrees
  BY DEF Init, HookAgrees, Idle
<1>5. RowsAgree
  BY <1>2, Typed, <1>3 DEF Init, RowsAgree, NoRow
<1> QED
  BY <1>3, <1>4, <1>5 DEF ToolsInv

LEMMA ToolsAlways == Spec => []ToolsInv
<1>1. ToolsInv /\ [Next]_vars => ToolsInv'
  BY ToolsStep DEF Safe
<1> QED
  BY <1>1, ToolsStart, PTL DEF Spec

(* A process that still runs here is never written off as orphaned: for any *)
(* calls and any load, no sweep ends the row of a call whose task is alive.  *)
THEOREM SweepsSpareTheLiving == Spec => []LiveProcessKeepsItsRow
<1>1. ToolsInv => LiveProcessKeepsItsRow
  BY DEF ToolsInv, RowsAgree, LiveProcessKeepsItsRow
<1> QED
  BY <1>1, ToolsAlways, PTL

(* A held tool that runs was approved by the first decision written for it,  *)
(* for any number of decisions.                                              *)
THEOREM FirstDocumentDecides == Spec => []FirstDecisionRules
<1>1. ToolsInv => FirstDecisionRules
  BY DEF ToolsInv, HookAgrees, FirstDecisionRules
<1> QED
  BY <1>1, ToolsAlways, PTL

(* However the turn, the tasks, cancel_process, the sweeps and the recovery  *)
(* race, the first end of a call stays, with its cause, and a notice once    *)
(* delivered is not owed again.                                              *)
THEOREM EndsAreFinal == Spec => FirstEndWins
<1>1. ToolsInv /\ [Next]_vars =>
          [\A c \in Calls : row[c].st \in Ends =>
              /\ row'[c].st = row[c].st /\ row'[c].by = row[c].by
              /\ row'[c].owed => row[c].owed]_vars
  <2> SUFFICES ASSUME ToolsInv, [Next]_vars, NEW c \in Calls, row[c].st \in Ends
               PROVE  /\ row'[c].st = row[c].st /\ row'[c].by = row[c].by
                      /\ row'[c].owed => row[c].owed
    OBVIOUS
  <2>1. Lawful(c)
    BY ToolsStep DEF Safe, AllLawful
  <2>2. row[c].st \notin {"absent", "held", "running"}
    BY DEF Ends
  <2> QED
    BY <2>1, <2>2 DEF Lawful
<1> QED
  BY <1>1, ToolsAlways, PTL DEF Spec, FirstEndWins

(* The variables keep their types, for any sets of calls and any load.      *)
THEOREM ToolsTypeCorrect == Spec => []TypeOK
<1>1. ToolsInv => TypeOK
  BY DEF ToolsInv
<1> QED
  BY <1>1, ToolsAlways, PTL

-----------------------------------------------------------------------------
(* The cancel of a process is two steps; what lies between them.           *)

(* A step that starts no task, blames no user and leaves the cancel alone. *)
Uninvolved ==
    /\ canceller' = canceller /\ token' = token
    /\ \A c \in Background : /\ worker'[c] = "running" => worker[c] = "running"
                             /\ row'[c].by = "user" => row[c].by = "user"

LEMMA UninvolvedKeeps ==
    ASSUME CancelIsCarriedOut, Uninvolved
    PROVE  CancelIsCarriedOut'
  BY DEF CancelIsCarriedOut, Uninvolved

LEMMA OthersEnd ==
    ASSUME row \in RowFns, NEW c \in Calls, NEW from, NEW st \in Ends,
           NEW by \in {"hook", "worker", "sweep"}, NEW d \in Calls,
           EndFrom(c, from, st, by)[d].by = "user"
    PROVE  row[d].by = "user"
<1>1. by \in {"hook", "worker", "user", "sweep"} /\ by # "user"
  OBVIOUS
<1> QED
  BY <1>1, EndFromFacts

LEMMA TurnUninvolved ==
    ASSUME ToolsInv, TurnStep \/ EndStep, ~\E c \in Background : SpawnStarts(c)
    PROVE  Uninvolved
<1>0. row \in RowFns /\ Native \subseteq Calls /\ Background \subseteq Calls
  BY Typed DEF ToolsInv
<1>e. {"completed", "failed", "timedOut", "cancelled"} \subseteq Ends
  BY DEF Ends
<1>1. canceller' = canceller /\ token' = token /\ worker' = worker
  BY DEF TurnStep, EndStep, OnToolCall, InsertInFlight, PollTimesOut, PollReads, Verdict,
     OnToolResult, SpawnReserves, DropStream, CloseInFlight, FailInFlight, ParentEnds, Reclaim,
     procs
<1>2. ASSUME NEW d \in Background, row'[d].by = "user" PROVE row[d].by = "user"
  <2>0. d \in Calls
    BY <1>0
  <2>1. CASE row' = row
    BY <1>2, <2>1
  <2>2. ASSUME NEW c \in Calls, NEW st \in {"held", "running"}, row' = [row EXCEPT ![c].st = st]
        PROVE  row[d].by = "user"
    BY <1>0, <1>2, <2>0, <2>2, StateWrite
  <2>3. ASSUME NEW c \in Calls, NEW from, NEW st \in {"completed", "failed", "timedOut", "cancelled"},
               row' = EndFrom(c, from, st, "hook")
        PROVE  row[d].by = "user"
    BY <1>0, <1>e, <1>2, <2>0, <2>3, OthersEnd
  <2>4. CASE \E c \in Native : OnToolCall(c, "held") \/ OnToolCall(c, "running")
    BY <1>0, <2>2, <2>4 DEF OnToolCall
  <2>5. CASE \E c \in Native : PollTimesOut(c) \/ Verdict(c)
    BY <1>0, <2>2, <2>3, <2>5 DEF PollTimesOut, Verdict
  <2>6. CASE \E c \in Native : \/ \E st \in {"completed", "failed"} : OnToolResult(c, st)
                               \/ CloseInFlight(c) \/ FailInFlight(c)
    BY <1>0, <2>1, <2>3, <2>6 DEF OnToolResult, CloseInFlight, FailInFlight
  <2>7. ASSUME NEW why, DropStream(why) PROVE row[d].by = "user"
    <3>1. hook.at \in {"spawn", "verdict"} => hook.call \in Calls
      BY <1>0, Typed DEF ToolsInv, HookAgrees
    <3> QED
      BY <2>1, <2>2, <2>3, <2>7, <3>1 DEF DropStream
  <2> QED
    BY <2>1, <2>4, <2>5, <2>6, <2>7 DEF TurnStep, EndStep, InsertInFlight, PollReads,
       SpawnReserves, ParentEnds, Reclaim, docs
<1> QED
  BY <1>1, <1>2 DEF Uninvolved

LEMMA TasksUninvolved ==
    ASSUME ToolsInv, NEW c \in Background,
           \/ \E st \in Ends : WorkerEnds(c, st)
           \/ WorkerNotifies(c) \/ WorkerReleases(c) \/ SweepOrphan(c) \/ RedriveNotice(c)
    PROVE  Uninvolved
<1>0. /\ row \in RowFns /\ Native \subseteq Calls /\ Background \subseteq Calls /\ c \in Calls
      /\ worker \in [Background -> {"none", "running", "notify", "cleanup"}]
  BY Typed DEF ToolsInv, TypeOK
<1>1. canceller' = canceller /\ token' = token
  BY DEF WorkerEnds, WorkerNotifies, WorkerReleases, SweepOrphan, RedriveNotice, procs
<1>2. \A d \in Background : worker'[d] = "running" => worker[d] = "running"
  BY <1>0 DEF WorkerEnds, WorkerNotifies, WorkerReleases, SweepOrphan, RedriveNotice, procs
<1>3. ASSUME NEW d \in Background, row'[d].by = "user" PROVE row[d].by = "user"
  <2>0. d \in Calls
    BY <1>0
  <2>1. CASE row' = row
    BY <1>3, <2>1
  <2>2. CASE row' = [row EXCEPT ![c].owed = FALSE]
    BY <1>0, <1>3, <2>0, <2>2, NoticeFacts
  <2>3. ASSUME NEW st \in Ends, NEW by \in {"hook", "worker", "sweep"},
               row' = EndFrom(c, "running", st, by)
        PROVE  row[d].by = "user"
    BY <1>0, <1>3, <2>0, <2>3, OthersEnd
  <2>4. CASE \E st \in Ends : WorkerEnds(c, st)
    BY <2>1, <2>3, <2>4 DEF WorkerEnds, Ends
  <2>5. CASE SweepOrphan(c)
    <3>1. RecoveryOutcome(c) \in Ends
      BY DEF RecoveryOutcome, Ends
    <3> DEFINE ended == EndFrom(c, "running", RecoveryOutcome(c), "sweep")
    <3>2. ended \in RowFns
      BY <1>0, <3>1, EndFromFacts
    <3>3. ended[d].by = "user" => row[d].by = "user"
      BY <1>0, <2>0, <3>1, OthersEnd
    <3>4. ended \in RowFns /\ (ended[d].by = "user" => row[d].by = "user")
      BY <3>2, <3>3
    <3>5. row' = row \/ row' = ended \/ row' = [ended EXCEPT ![c].owed = FALSE]
      BY <2>5 DEF SweepOrphan
    <3> HIDE DEF ended
    <3>6. CASE row' = [ended EXCEPT ![c].owed = FALSE]
      <4>1. row'[d].by = ended[d].by
        BY <1>0, <2>0, <3>4, <3>6 DEF RowFns, RowSet
      <4> QED
        BY <1>3, <3>4, <4>1
    <3> QED
      BY <1>3, <2>1, <3>4, <3>5, <3>6
  <2> QED
    BY <2>1, <2>2, <2>4, <2>5 DEF WorkerNotifies, WorkerReleases, RedriveNotice, docs
<1> QED
  BY <1>1, <1>2, <1>3 DEF Uninvolved

LEMMA QuietUninvolved ==
    ASSUME ToolsInv,
           \/ SweepLoads \/ \E c \in Native : SweepTerminalParent(c)
           \/ Interrupt \/ RecoverToolCalls
           \/ \E st \in {"pending"} \cup ParentTerminal : RecoverRequest(st)
           \/ \E c \in Native, d \in {"approved", "denied"} : Decide(c, d)
           \/ \E d \in Background \cup {"request"} : DeadlinePasses(d)
           \/ UNCHANGED vars
    PROVE  Uninvolved
<1>0. row \in RowFns /\ Native \subseteq Calls /\ Background \subseteq Calls
  BY Typed DEF ToolsInv
<1>1. canceller' = canceller /\ token' = token /\ worker' = worker
  BY DEF SweepLoads, SweepTerminalParent, Interrupt, RecoverToolCalls, RecoverRequest, Decide,
     DeadlinePasses, vars, procs
<1>2. ASSUME NEW d \in Background, row'[d].by = "user" PROVE row[d].by = "user"
  <2>0. d \in Calls
    BY <1>0
  <2>1. CASE row' = row
    BY <1>2, <2>1
  <2>2. ASSUME NEW c \in Native, SweepTerminalParent(c) PROVE row[d].by = "user"
    <3>1. c \in Calls /\ {"cancelled", "failed"} \subseteq Ends
      BY <1>0 DEF Ends
    <3>2. ASSUME NEW st \in {"cancelled", "failed"}, row' = EndFrom(c, "running", st, "sweep")
          PROVE  row[d].by = "user"
      BY <1>0, <1>2, <2>0, <3>1, <3>2, OthersEnd
    <3> QED
      BY <2>1, <2>2, <3>2 DEF SweepTerminalParent
  <2>3. CASE RecoverToolCalls
    <3>1. row'[d] = row[d] \/ row'[d] = EndFrom(d, "running", RecoveryOutcome(d), "sweep")[d]
      BY <2>0, <2>3 DEF RecoverToolCalls
    <3>2. RecoveryOutcome(d) \in Ends
      BY DEF RecoveryOutcome, Ends
    <3>3. EndFrom(d, "running", RecoveryOutcome(d), "sweep")[d].by = "user" => row[d].by = "user"
      BY <1>0, <2>0, <3>2, OthersEnd
    <3> QED
      BY <1>2, <3>1, <3>3
  <2> QED
    BY <2>1, <2>2, <2>3 DEF SweepLoads, Interrupt, RecoverRequest, Decide, DeadlinePasses,
       vars, docs
<1> QED
  BY <1>1, <1>2 DEF Uninvolved

(* A cancelled process is stopped: from the durable cancel on, and until   *)
(* its task is gone, the canceller still has the token to fire or has      *)
(* fired it, because the registry keeps the entry of a task that runs.     *)
THEOREM CancelStopsTheProcess == Spec => []CancelIsCarriedOut
<1>1. Init => CancelIsCarriedOut
  BY DEF Init, CancelIsCarriedOut
<1>2. ToolsInv /\ CancelIsCarriedOut /\ [Next]_vars => CancelIsCarriedOut'
  <2> SUFFICES ASSUME ToolsInv, CancelIsCarriedOut, [Next]_vars PROVE CancelIsCarriedOut'
    OBVIOUS
  <2>0. /\ row \in RowFns /\ Background \subseteq Calls
        /\ worker \in [Background -> {"none", "running", "notify", "cleanup"}]
    BY Typed DEF ToolsInv, TypeOK
  <2>1. ASSUME NEW c \in Background, SpawnStarts(c) PROVE CancelIsCarriedOut'
    <3>1. row[c].st = "absent"
      BY <2>1 DEF SpawnStarts, At, ToolsInv, HookAgrees
    <3>2. row[c].by = "none"
      BY <2>0, <3>1 DEF ToolsInv, RowsAgree, Ends
    <3>3. row'[c].by = "none" /\ \A d \in Background \ {c} : row'[d] = row[d]
      BY <2>0, <2>1, <3>2, StateWrite DEF SpawnStarts
    <3>4. /\ \A d \in Background \ {c} : worker'[d] = worker[d]
          /\ canceller' = canceller /\ token' = token
      BY <2>0, <2>1 DEF SpawnStarts
    <3> QED
      BY <3>3, <3>4 DEF CancelIsCarriedOut
  <2>2. ASSUME NEW c \in Background, CancelProcess(c) PROVE CancelIsCarriedOut'
    <3>1. /\ canceller = "none" /\ canceller' = c /\ token' = token /\ worker' = worker
          /\ row' = EndFrom(c, "running", "cancelled", "user") /\ c # "none"
      BY <2>2, CallsAssumption DEF CancelProcess, Calls
    <3>2. "none" \notin Background
      BY CallsAssumption DEF Calls
    <3>3. "cancelled" \in Ends /\ c \in Calls
      BY <2>0 DEF Ends
    <3>4. \A d \in Background \ {c} : row'[d] = row[d]
      <4>1. \A d \in Calls \ {c} : EndFrom(c, "running", "cancelled", "user")[d] = row[d]
        BY <2>0 DEF EndFrom, RowFns
      <4> QED
        BY <2>0, <3>1, <4>1
    <3> QED
      BY <3>1, <3>2, <3>4 DEF CancelIsCarriedOut
  <2>3. ASSUME NEW c \in Background, CancelFires(c) PROVE CancelIsCarriedOut'
    <3>1. /\ canceller = c /\ worker' = worker
          /\ token' = IF c \in registry THEN token \cup {c} ELSE token
          /\ row' = row \/ row' = [row EXCEPT ![c].owed = FALSE]
      BY <2>3 DEF CancelFires
    <3>2. worker[c] = "running" => c \in registry
      BY DEF ToolsInv, RowsAgree
    <3>3. \A d \in Background : row'[d].by = row[d].by
      <4>1. c \in Calls
        BY <2>0
      <4>2. \A d \in Calls : [row EXCEPT ![c].owed = FALSE][d].by = row[d].by
        BY <2>0, <4>1, NoticeFacts
      <4> QED
        BY <2>0, <3>1, <4>2
    <3> QED
      BY <3>1, <3>2, <3>3 DEF CancelIsCarriedOut
  <2>4. CASE Crash
    BY <2>4 DEF Crash, CancelIsCarriedOut
  <2>5. CASE Uninvolved
    BY <2>5, UninvolvedKeeps
  <2> QED
    BY <2>1, <2>2, <2>3, <2>4, <2>5, TurnUninvolved, TasksUninvolved, QuietUninvolved
       DEF Next, ProcessStep, SweepStep
<1> QED
  BY <1>1, <1>2, ToolsAlways, PTL DEF Spec

=============================================================================
