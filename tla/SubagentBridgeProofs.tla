------------------------ MODULE SubagentBridgeProofs ------------------------
(***************************************************************************)
(* A delegation, for any number of restarts at home, with a local and with *)
(* a remote child: the bridge's first end is its last, and a success is    *)
(* the child's.                                                            *)
(***************************************************************************)
EXTENDS SubagentBridge, TLAPS

Shapes ==
    /\ remote \in BOOLEAN
    /\ parent \in Requests /\ child \in Requests /\ seenChild \in Requests
    /\ bridge \in Bridges /\ seenBridge \in Bridges
    /\ sweep \in [st : {"idle", "cancelled", "failed"}, remote : BOOLEAN]

(* The source creates a child only where there is none: nobody else creates *)
(* one while it is about to.  A restart at home takes a local source with   *)
(* it; a remote child is never recreated at home, because its running       *)
(* bridge carries the unclaimed deadline until the child was seen.          *)
OneChild ==
    /\ source = "create" => child.st = "absent"
    /\ ~remote /\ phase # "up" => source = "idle"
    /\ remote /\ bridge.st = "running" /\ ~bridge.unclaimed => seenChild.st # "absent"

(* What is replicated of a child that exists, or has ended, stays true.    *)
ViewAgrees ==
    /\ seenChild.st # "absent" => child.st # "absent"
    /\ seenChild.st \in RequestTerminal => child.st = seenChild.st

BridgeInv == Shapes /\ OneChild /\ ViewAgrees /\ SuccessIsTheChilds

-----------------------------------------------------------------------------
(* What any step may do to the two documents.                              *)

(* A child is created once, moves while it is live, and stays as it ended. *)
ChildMoves ==
    /\ child' \in Requests
    /\ \/ child'.st = child.st
       \/ child.st = "absent" /\ child'.st = "pending"
       \/ Live(child) /\ child'.st # "absent"

(* A bridge starts, is edited, or is closed once; only a completed child,  *)
(* as this deployment sees it, completes it.                               *)
BridgeMoves ==
    /\ bridge' \in Bridges
    /\ \/ bridge'.st = bridge.st /\ bridge'.intent = bridge.intent
       \/ bridge.st = "absent" /\ bridge'.st = "running"
       \/ bridge.st = "running" /\ bridge'.st \in BridgeTerminal \ {"completed"}
       \/ bridge.st = "running" /\ bridge'.st = "completed" /\ ChildView.st = "completed"
    /\ remote /\ bridge'.st = "running" /\ ~bridge'.unclaimed =>
          ChildView.st # "absent" \/ (bridge.st = "running" /\ ~bridge.unclaimed)

(* The rest: a deployment hears what the other one stored, and the source  *)
(* is about to create a child only while there is none.                    *)
OthersMove ==
    /\ remote' = remote /\ parent' \in Requests
    /\ sweep' \in [st : {"idle", "cancelled", "failed"}, remote : BOOLEAN]
    /\ seenBridge' \in {seenBridge, bridge}
    /\ seenChild' = seenChild \/ (seenChild' = child /\ child' = child)
    /\ source' = "create" => child'.st = "absent"
    /\ ~remote /\ phase' # "up" => source' = "idle"

Step == ChildMoves /\ BridgeMoves /\ OthersMove

LEMMA StepKeeps ==
    ASSUME BridgeInv, Step
    PROVE  BridgeInv'
<1> USE DEF BridgeInv, Step
<1>1. Shapes'
  BY DEF Shapes, ChildMoves, BridgeMoves, OthersMove
<1>2. child.st \in RequestTerminal => child'.st = child.st
  BY DEF ChildMoves, Live, RequestTerminal
<1>3. child.st # "absent" => child'.st # "absent"
  BY DEF ChildMoves
<1>4. ViewAgrees'
  BY <1>2, <1>3 DEF ViewAgrees, OthersMove
<1>5. ChildView.st = "completed" => child.st = "completed"
  BY DEF ChildView, ViewAgrees, RequestTerminal
<1>6. SuccessIsTheChilds'
  <2>1. child.st = "completed" => child'.st = "completed"
    BY <1>2 DEF RequestTerminal
  <2>2. bridge'.st = "completed" => child.st = "completed"
    BY <1>5 DEF SuccessIsTheChilds, BridgeMoves
  <2> QED
    BY <2>1, <2>2 DEF SuccessIsTheChilds
<1>7. OneChild'
  <2>1. seenChild.st # "absent" => seenChild'.st # "absent"
    BY DEF ViewAgrees, OthersMove
  <2>2. remote /\ bridge'.st = "running" /\ ~bridge'.unclaimed => seenChild.st # "absent"
    BY DEF BridgeMoves, OneChild, ChildView
  <2> QED
    BY <2>1, <2>2 DEF OneChild, OthersMove
<1> QED
  BY <1>1, <1>4, <1>6, <1>7

-----------------------------------------------------------------------------
(* The writes.                                                             *)

LEMMA ClosedFacts ==
    ASSUME Shapes, NEW st \in BridgeTerminal
    PROVE  /\ Closed(st) \in Bridges /\ Closed(st).st = st
           /\ ClosedWithIntent(st) \in Bridges /\ ClosedWithIntent(st).st = st
           /\ [Closed(st) EXCEPT !.reason = "unclaimed"] \in Bridges
           /\ [Closed(st) EXCEPT !.reason = "unclaimed"].st = st
<1>1. Closed(st) \in Bridges /\ Closed(st).st = st
  BY DEF Shapes, Closed, Bridges
<1> QED
  BY <1>1 DEF ClosedWithIntent, Bridges

LEMMA ProjectedFacts ==
    ASSUME NEW r, r.st \in RequestTerminal
    PROVE  /\ Projected(r) \in BridgeTerminal
           /\ Projected(r) = "completed" => r.st = "completed"
  BY DEF Projected, RequestTerminal, BridgeTerminal

(* A terminal write, under the compare. *)
LEMMA CloseMoves ==
    ASSUME Shapes, NEW next \in Bridges, next.st \in BridgeTerminal,
           next.st = "completed" => ChildView.st = "completed",
           CompareAndClose(next) \/ (bridge.st = "running" /\ bridge' = next)
    PROVE  BridgeMoves
<1>1. next.st # "running"
  BY DEF BridgeTerminal
<1>2. CASE bridge' = bridge
  BY <1>2 DEF Shapes, BridgeMoves
<1>3. CASE bridge.st = "running" /\ bridge' = next
  BY <1>1, <1>3 DEF BridgeMoves
<1> QED
  BY <1>2, <1>3 DEF CompareAndClose

(* The ways in which the actions close the bridge. *)
LEMMA CloseBadly ==
    ASSUME Shapes, NEW st \in BridgeTerminal \ {"completed"}, NEW next,
           next \in {Closed(st), ClosedWithIntent(st),
                     [Closed(st) EXCEPT !.reason = "unclaimed"]},
           CompareAndClose(next) \/ (bridge.st = "running" /\ bridge' = next)
    PROVE  BridgeMoves
<1>1. next \in Bridges /\ next.st = st
  BY ClosedFacts
<1> QED
  BY <1>1, CloseMoves

LEMMA CloseProjected ==
    ASSUME Shapes, ChildView.st \in RequestTerminal,
           bridge.st = "running", bridge' = Closed(Projected(ChildView))
    PROVE  BridgeMoves
<1>1. /\ Projected(ChildView) \in BridgeTerminal
      /\ Projected(ChildView) = "completed" => ChildView.st = "completed"
  BY ProjectedFacts
<1>2. /\ Closed(Projected(ChildView)) \in Bridges
      /\ Closed(Projected(ChildView)).st = Projected(ChildView)
  BY <1>1, ClosedFacts
<1> QED
  BY <1>1, <1>2, CloseMoves

(* Nothing but latches, or nothing at all, changes of a document. *)
LEMMA BridgeStays ==
    ASSUME Shapes, bridge' = bridge
    PROVE  BridgeMoves
  BY DEF Shapes, BridgeMoves

LEMMA ChildStays ==
    ASSUME Shapes, child' = child \/ child' = [child EXCEPT !.latch = TRUE]
    PROVE  ChildMoves /\ child'.st = child.st
  BY DEF Shapes, ChildMoves, Requests

LEMMA LiveChildMoves ==
    ASSUME Shapes, Live(child),
           NEW st \in {"pending", "processing"} \cup RequestTerminal,
           child' = [child EXCEPT !.st = st]
    PROVE  ChildMoves /\ child.st # "absent"
<1>1. child' \in Requests /\ child'.st = st
  BY DEF Shapes, Requests
<1>2. st # "absent"
  BY DEF RequestTerminal
<1> QED
  BY <1>1, <1>2 DEF ChildMoves, Live

(* The frame of a step at home or of the child that leaves the source and  *)
(* the views alone, and creates no child.                                  *)
LEMMA Framed ==
    ASSUME BridgeInv, UNCHANGED <<seen, source, remote, phase>>,
           parent' \in Requests,
           sweep' \in [st : {"idle", "cancelled", "failed"}, remote : BOOLEAN],
           child'.st = child.st \/ child.st # "absent"
    PROVE  OthersMove
  BY DEF BridgeInv, OneChild, OthersMove, seen

-----------------------------------------------------------------------------
(* The actions.                                                            *)

LEMMA HookSteps ==
    ASSUME BridgeInv, HookStep \/ InterruptParent
    PROVE  Step
<1>0. Shapes /\ parent \in Requests /\ bridge \in Bridges
      /\ sweep \in [st : {"idle", "cancelled", "failed"}, remote : BOOLEAN]
  BY DEF BridgeInv, Shapes
<1>e. {"failed", "timedOut", "cancelled"} \subseteq BridgeTerminal \ {"completed"}
  BY DEF BridgeTerminal
<1>p. ASSUME NEW st \in {"completed", "failed", "dead", "interrupted"}
      PROVE  [parent EXCEPT !.st = st] \in Requests /\ [parent EXCEPT !.latch = TRUE] \in Requests
  BY <1>0 DEF Requests, RequestTerminal
<1>1. ASSUME NEW mode \in {"foreground", "background"}, Spawn(mode) PROVE Step
  <2>1. bridge.st = "absent" /\ (remote => mode = "background")
        /\ bridge' = [NoBridge EXCEPT !.st = "running", !.mode = mode,
                                      !.unclaimed = (mode = "background")]
    BY <1>1 DEF Spawn
  <2>2. bridge' \in Bridges /\ bridge'.st = "running" /\ bridge'.unclaimed = (mode = "background")
    BY <2>1 DEF NoBridge, Bridges
  <2>3. BridgeMoves
    BY <2>1, <2>2 DEF BridgeMoves
  <2>4. ChildMoves /\ child'.st = child.st
    BY <1>0, <1>1, ChildStays DEF Spawn
  <2>5. OthersMove
    BY <1>0, <1>1, <2>4, Framed DEF Spawn, src, sweepers, env
  <2> QED
    BY <2>3, <2>4, <2>5 DEF Step
<1>2. CASE Foreground
  <2>1. /\ bridge.st = "running" /\ ChildView.st # "absent"
        /\ bridge' = [bridge EXCEPT !.mode = "foreground", !.unclaimed = held \/ bridge.unclaimed]
    BY <1>2 DEF Foreground
  <2>2. (held \/ bridge.unclaimed) \in BOOLEAN
    OBVIOUS
  <2>3. bridge' \in Bridges /\ bridge'.st = bridge.st /\ bridge'.intent = bridge.intent
    BY <1>0, <2>1, <2>2 DEF Bridges
  <2>4. BridgeMoves
    BY <2>1, <2>3 DEF BridgeMoves
  <2>5. ChildMoves /\ child'.st = child.st
    BY <1>0, <1>2, ChildStays DEF Foreground
  <2>6. OthersMove
    BY <1>0, <1>2, <2>5, Framed DEF Foreground, src, sweepers, env
  <2> QED
    BY <2>4, <2>5, <2>6 DEF Step
<1>3. CASE AwaitEnds
  <2>1. BridgeMoves
    <3>1. CASE bridge' = bridge
      BY <1>0, <3>1, BridgeStays
    <3>2. CASE bridge.st = "running" /\ ChildView.st \in RequestTerminal
               /\ CompareAndClose(Closed(Projected(ChildView)))
      BY <1>0, <3>2, CloseProjected DEF CompareAndClose
    <3> QED
      BY <1>3, <3>1, <3>2 DEF AwaitEnds
  <2>3. ChildMoves /\ child'.st = child.st
    BY <1>0, <1>3, ChildStays DEF AwaitEnds
  <2>4. OthersMove
    BY <1>0, <1>3, <2>3, Framed DEF AwaitEnds, src, sweepers, env
  <2> QED
    BY <2>1, <2>3, <2>4 DEF Step
<1>4. CASE ParentDeadline \/ ParentLeaseLost
  <2>1. BridgeMoves
    BY <1>0, <1>e, <1>4, CloseBadly, BridgeStays DEF ParentDeadline, ParentLeaseLost
  <2>2. ChildMoves /\ child'.st = child.st
    BY <1>0, <1>4, ChildStays DEF ParentDeadline, ParentLeaseLost
  <2>3. OthersMove
    BY <1>0, <1>p, <1>4, <2>2, Framed DEF ParentDeadline, ParentLeaseLost, src, sweepers, env
  <2> QED
    BY <2>1, <2>2, <2>3 DEF Step
<1>5. CASE CancelWrites
  <2>1. BridgeMoves
    BY <1>0, <1>e, <1>5, CloseBadly DEF CancelWrites
  <2>2. ChildMoves /\ child'.st = child.st
    BY <1>0, <1>5, ChildStays DEF CancelWrites
  <2>3. OthersMove
    BY <1>0, <1>5, <2>2, Framed DEF CancelWrites, src, sweepers, env
  <2> QED
    BY <2>1, <2>2, <2>3 DEF Step
<1>6. CASE \/ \E st \in {"completed", "failed"} : ParentEnds(st)
           \/ CancelReadsOwner \/ CancelInterruptsChild \/ ParentInterrupted \/ InterruptParent
  <2>1. BridgeMoves
    BY <1>0, <1>6, BridgeStays DEF ParentEnds, CancelReadsOwner, CancelInterruptsChild,
       ParentInterrupted, InterruptParent, docs
  <2>2. ChildMoves /\ child'.st = child.st
    BY <1>0, <1>6, ChildStays DEF ParentEnds, CancelReadsOwner, CancelInterruptsChild,
       ParentInterrupted, InterruptParent, docs
  <2>3. parent' \in Requests
    BY <1>0, <1>p, <1>6 DEF ParentEnds, CancelReadsOwner, CancelInterruptsChild,
       ParentInterrupted, InterruptParent, docs
  <2>4. UNCHANGED <<seen, source, remote, phase, sweep>>
    BY <1>6 DEF ParentEnds, CancelReadsOwner, CancelInterruptsChild,
       ParentInterrupted, InterruptParent, src, sweepers, env
  <2>5. OthersMove
    BY <1>0, <2>2, <2>3, <2>4, Framed
  <2> QED
    BY <2>1, <2>2, <2>5 DEF Step
<1> QED
  BY <1>1, <1>2, <1>3, <1>4, <1>5, <1>6 DEF HookStep

LEMMA SourceSteps ==
    ASSUME BridgeInv, SourceStep
    PROVE  Step
<1>0. /\ Shapes /\ parent \in Requests /\ bridge \in Bridges
      /\ sweep \in [st : {"idle", "cancelled", "failed"}, remote : BOOLEAN]
      /\ source = "create" => child.st = "absent"
      /\ ChildUp => (~remote => phase = "up")
  BY DEF BridgeInv, Shapes, OneChild, ChildUp
<1>1. UNCHANGED <<parent, seen, sweep, remote, phase>> /\ ChildUp
  BY DEF SourceStep, SourceReadsBridge, SourceRejects, SourceCreatesChild,
     SourceRechecksBridge, SourceRechecksParent, SourceInterruptsChild, docs, sweepers, env
<1>2. CASE SourceRejects
  <2>1. "failed" \in BridgeTerminal \ {"completed"}
    BY DEF BridgeTerminal
  <2>2. BridgeMoves
    BY <1>0, <1>2, <2>1, CloseBadly DEF SourceRejects
  <2>3. ChildMoves /\ child'.st = child.st
    BY <1>0, <1>2, ChildStays DEF SourceRejects
  <2>4. OthersMove
    BY <1>0, <1>1, <1>2 DEF SourceRejects, OthersMove, seen
  <2> QED
    BY <2>2, <2>3, <2>4 DEF Step
<1>3. CASE SourceCreatesChild
  <2>1. child.st = "absent" /\ child' \in Requests /\ child'.st = "pending"
    BY <1>0, <1>3 DEF SourceCreatesChild, Requests
  <2>2. ChildMoves
    BY <2>1 DEF ChildMoves
  <2>3. BridgeMoves
    BY <1>0, <1>3, BridgeStays DEF SourceCreatesChild
  <2>4. OthersMove
    BY <1>0, <1>1, <1>3 DEF SourceCreatesChild, OthersMove, seen
  <2> QED
    BY <2>2, <2>3, <2>4 DEF Step
<1>4. CASE SourceReadsBridge \/ SourceRechecksBridge \/ SourceRechecksParent
           \/ SourceInterruptsChild
  <2>1. BridgeMoves
    BY <1>0, <1>4, BridgeStays DEF SourceReadsBridge, SourceRechecksBridge,
       SourceRechecksParent, SourceInterruptsChild, docs
  <2>2. ChildMoves /\ child'.st = child.st
    BY <1>0, <1>4, ChildStays DEF SourceReadsBridge, SourceRechecksBridge,
       SourceRechecksParent, SourceInterruptsChild, docs
  <2>3. source' = "create" => child.st = "absent"
    BY <1>0, <1>4 DEF SourceReadsBridge, SourceRechecksBridge,
       SourceRechecksParent, SourceInterruptsChild
  <2>4. OthersMove
    BY <1>0, <1>1, <2>2, <2>3 DEF OthersMove, seen
  <2> QED
    BY <2>1, <2>2, <2>4 DEF Step
<1> QED
  BY <1>2, <1>3, <1>4 DEF SourceStep

LEMMA ChildSteps ==
    ASSUME BridgeInv, ChildStep
    PROVE  Step
<1>0. /\ Shapes /\ parent \in Requests
      /\ sweep \in [st : {"idle", "cancelled", "failed"}, remote : BOOLEAN]
  BY DEF BridgeInv, Shapes
<1>1. PICK st \in {"pending", "processing"} \cup RequestTerminal :
         Live(child) /\ child' = [child EXCEPT !.st = st]
  BY DEF ChildStep, ChildClaimed, ChildEnds, ChildRequeued, Live, RequestTerminal
<1>2. ChildMoves /\ child.st # "absent"
  BY <1>0, <1>1, LiveChildMoves
<1>3. UNCHANGED <<parent, bridge, seen, source, remote, phase, sweep>>
  BY DEF ChildStep, ChildClaimed, ChildEnds, ChildRequeued, src, sweepers, env
<1>4. BridgeMoves
  BY <1>0, <1>3, BridgeStays
<1>5. OthersMove
  BY <1>0, <1>2, <1>3, Framed
<1> QED
  BY <1>2, <1>4, <1>5 DEF Step

LEMMA SweepSteps ==
    ASSUME BridgeInv, SweepStep
    PROVE  Step
<1>0. /\ Shapes /\ parent \in Requests /\ bridge \in Bridges
      /\ sweep \in [st : {"idle", "cancelled", "failed"}, remote : BOOLEAN]
  BY DEF BridgeInv, Shapes
<1>e. {"failed", "timedOut", "cancelled"} \subseteq BridgeTerminal \ {"completed"}
  BY DEF BridgeTerminal
<1>f. UNCHANGED <<parent, seen, source, remote, phase>>
  BY DEF SweepStep, SweepExpiredChild, SweepQueuedChild, SweepTerminalParent, SweepWrites,
     ObserverProjects, ReapReads, ReapWrites, ObserveAck, MirrorCancel, src, env
<1>1. CASE SweepExpiredChild
  <2>1. ChildMoves /\ child.st # "absent"
    BY <1>0, <1>1, LiveChildMoves DEF SweepExpiredChild, RequestTerminal
  <2>2. BridgeMoves
    BY <1>0, <1>e, <1>1, CloseBadly, BridgeStays DEF SweepExpiredChild
  <2>3. OthersMove
    BY <1>0, <1>f, <1>1, <2>1, Framed DEF SweepExpiredChild, sweepers
  <2> QED
    BY <2>1, <2>2, <2>3 DEF Step
<1>2. CASE SweepQueuedChild
  <2>1. ChildMoves /\ child.st # "absent"
    BY <1>0, <1>2, LiveChildMoves DEF SweepQueuedChild, RequestTerminal, Live
  <2>2. BridgeMoves
    BY <1>0, <1>2, BridgeStays DEF SweepQueuedChild
  <2>3. OthersMove
    BY <1>0, <1>f, <1>2, <2>1, Framed DEF SweepQueuedChild, sweepers
  <2> QED
    BY <2>1, <2>2, <2>3 DEF Step
<1>3. CASE SweepTerminalParent
  <2>1. ChildMoves /\ child'.st = child.st
    BY <1>0, <1>3, ChildStays DEF SweepTerminalParent
  <2>2. BridgeMoves
    BY <1>0, <1>3, CloseProjected, BridgeStays DEF SweepTerminalParent
  <2>3. sweep' \in [st : {"idle", "cancelled", "failed"}, remote : BOOLEAN]
    <3>1. (~ChildIsLocal) \in BOOLEAN
      OBVIOUS
    <3>2. \/ sweep' = sweep
          \/ sweep' = [st |-> IF parent.st = "interrupted" THEN "cancelled" ELSE "failed",
                       remote |-> ~ChildIsLocal]
      BY <1>3 DEF SweepTerminalParent
    <3>3. ASSUME NEW b \in BOOLEAN, NEW st \in {"cancelled", "failed"},
                 sweep' = [st |-> st, remote |-> b]
          PROVE  sweep' \in [st : {"idle", "cancelled", "failed"}, remote : BOOLEAN]
      BY <3>3
    <3>4. (IF parent.st = "interrupted" THEN "cancelled" ELSE "failed") \in {"cancelled", "failed"}
      OBVIOUS
    <3> QED
      BY <1>0, <3>1, <3>2, <3>3, <3>4, Zenon
  <2>4. OthersMove
    BY <1>0, <1>f, <2>1, <2>3, Framed
  <2> QED
    BY <2>1, <2>2, <2>4 DEF Step
<1>4. CASE SweepWrites
  <2>1. sweep.st \in {"cancelled", "failed"}
    BY <1>0, <1>4 DEF SweepWrites
  <2>2. BridgeMoves
    <3>1. sweep.st \in BridgeTerminal \ {"completed"}
      BY <1>e, <2>1
    <3>2. \/ CompareAndClose(ClosedWithIntent(sweep.st))
          \/ CompareAndClose(Closed(sweep.st))
      BY <1>4 DEF SweepWrites
    <3> QED
      BY <1>0, <3>1, <3>2, CloseBadly
  <2>3. ChildMoves /\ child'.st = child.st
    BY <1>0, <1>4, ChildStays DEF SweepWrites
  <2>4. sweep' \in [st : {"idle", "cancelled", "failed"}, remote : BOOLEAN]
    BY <1>4 DEF SweepWrites, NoSweep
  <2>5. OthersMove
    BY <1>0, <1>f, <2>3, <2>4, Framed
  <2> QED
    BY <2>2, <2>3, <2>5 DEF Step
<1>5. CASE ObserverProjects \/ ReapReads \/ ReapWrites \/ ObserveAck \/ MirrorCancel
  <2>1. BridgeMoves
    <3>1. CASE ObserverProjects
      BY <1>0, <3>1, CloseProjected DEF ObserverProjects
    <3>2. CASE ReapReads
      <4>1. CASE ChildView.st # "absent" /\ bridge' = [bridge EXCEPT !.unclaimed = FALSE]
        BY <1>0, <4>1 DEF BridgeMoves, Bridges
      <4>2. CASE bridge' = bridge
        BY <1>0, <4>2, BridgeStays
      <4> QED
        BY <3>2, <4>1, <4>2 DEF ReapReads
    <3>3. CASE ReapWrites
      BY <1>0, <1>e, <3>3, CloseBadly DEF ReapWrites
    <3>4. CASE ObserveAck
      BY <1>0, <3>4 DEF ObserveAck, BridgeMoves, Bridges
    <3>5. CASE MirrorCancel
      BY <1>0, <3>5, BridgeStays DEF MirrorCancel
    <3> QED
      BY <1>5, <3>1, <3>2, <3>3, <3>4, <3>5
  <2>2. ChildMoves /\ child'.st = child.st
    BY <1>0, <1>5, ChildStays
       DEF ObserverProjects, ReapReads, ReapWrites, ObserveAck, MirrorCancel
  <2>3. sweep' = sweep
    BY <1>5 DEF ObserverProjects, ReapReads, ReapWrites, ObserveAck, MirrorCancel, sweepers
  <2>4. OthersMove
    BY <1>0, <1>f, <2>2, <2>3, Framed
  <2> QED
    BY <2>1, <2>2, <2>4 DEF Step
<1> QED
  BY <1>1, <1>2, <1>3, <1>4, <1>5 DEF SweepStep

(* A restart, and the two recoveries that follow it. *)
LEMMA RecoverySteps ==
    ASSUME BridgeInv, Crash \/ RecoverOrphan \/ RecoverStuck
    PROVE  Step
<1>0. /\ Shapes /\ parent \in Requests /\ bridge \in Bridges /\ child \in Requests
      /\ remote \in BOOLEAN /\ OneChild /\ ViewAgrees
      /\ sweep \in [st : {"idle", "cancelled", "failed"}, remote : BOOLEAN]
  BY DEF BridgeInv, Shapes
<1>e. {"failed", "timedOut", "cancelled"} \subseteq BridgeTerminal \ {"completed"}
  BY DEF BridgeTerminal
<1>1. CASE Crash
  <2>1. BridgeMoves /\ ChildMoves
    BY <1>0, <1>1, BridgeStays, ChildStays DEF Crash, docs
  <2>2. OthersMove
    BY <1>0, <1>1 DEF Crash, docs, seen, NoSweep, OthersMove, OneChild
  <2> QED
    BY <2>1, <2>2 DEF Step
<1>2. CASE RecoverOrphan
  <2>1. UNCHANGED <<parent, seen, source, sweep, remote>> /\ phase = "orphans"
    BY <1>2 DEF RecoverOrphan, src, sweepers
  <2>2. CASE bridge.st = "running" /\ ChildView.st = "absent" /\ ~bridge.unclaimed
             /\ child' = [st |-> "pending", latch |-> FALSE] /\ bridge' = bridge
    <3>1. ~remote /\ child.st = "absent"
      BY <1>0, <2>2 DEF OneChild, ChildView
    <3>2. source = "idle"
      BY <1>0, <2>1, <3>1 DEF OneChild
    <3>3. ChildMoves
      BY <2>2, <3>1 DEF ChildMoves, Requests
    <3>4. BridgeMoves
      BY <1>0, <2>2, BridgeStays
    <3>5. OthersMove
      BY <1>0, <2>1, <3>2 DEF OthersMove, seen
    <3> QED
      BY <3>3, <3>4, <3>5 DEF Step
  <2>3. CASE child' = child /\ (bridge' = bridge
                                \/ (bridge.st = "running" /\ bridge' = Closed("failed")))
    <3>1. BridgeMoves
      BY <1>0, <1>e, <2>3, CloseBadly, BridgeStays
    <3>2. ChildMoves
      BY <1>0, <2>3, ChildStays
    <3>3. OthersMove
      BY <1>0, <2>1, <2>3 DEF OthersMove, OneChild, seen
    <3> QED
      BY <3>1, <3>2, <3>3 DEF Step
  <2> QED
    BY <1>2, <2>2, <2>3 DEF RecoverOrphan
<1>3. CASE RecoverStuck
  <2> DEFINE expired == bridge.st = "running" /\ ~remote /\ Live(child) /\ due.child
             current == IF expired THEN [child EXCEPT !.st = "dead"] ELSE child
             view == IF remote THEN seenChild ELSE current
  <2>1. UNCHANGED <<parent, seen, source, sweep, remote>> /\ phase' = "up"
    BY <1>3 DEF RecoverStuck, src, sweepers
  <2>2. \/ bridge' = bridge /\ child' = child
        \/ /\ bridge.st = "running" /\ view.st \in RequestTerminal
           /\ bridge' = Closed(Projected(view)) /\ child' = current
        \/ /\ bridge.st = "running" /\ RecoveryOutcome # "none"
           /\ bridge' = RecoverClosed(RecoveryOutcome)
           /\ child' = child \/ child' = [child EXCEPT !.latch = TRUE]
    BY <1>3 DEF RecoverStuck
  <2>3. CASE bridge' = bridge /\ child' = child
    <3>1. BridgeMoves /\ ChildMoves
      BY <1>0, <2>3, BridgeStays, ChildStays
    <3>2. OthersMove
      BY <1>0, <2>1, <2>3 DEF OthersMove, OneChild, seen
    <3> QED
      BY <3>1, <3>2 DEF Step
  <2>4. CASE /\ bridge.st = "running" /\ view.st \in RequestTerminal
             /\ bridge' = Closed(Projected(view)) /\ child' = current
    <3>1. ChildMoves /\ (child'.st = child.st \/ child.st # "absent")
      <4>1. CASE expired
        BY <1>0, <2>4, <4>1, LiveChildMoves DEF RequestTerminal
      <4>2. CASE ~expired
        BY <1>0, <2>4, <4>2, ChildStays
      <4> QED
        BY <4>1, <4>2
    <3>2. view.st = "completed" => ChildView.st = "completed"
      <4>1. CASE remote
        BY <4>1 DEF ChildView
      <4>2. CASE ~remote /\ expired
        BY <1>0, <4>2 DEF Requests
      <4>3. CASE ~remote /\ ~expired
        BY <4>3 DEF ChildView
      <4> QED
        BY <4>1, <4>2, <4>3
    <3> HIDE DEF view, current, expired
    <3>3. /\ Projected(view) \in BridgeTerminal
          /\ Projected(view) = "completed" => view.st = "completed"
      BY <2>4, ProjectedFacts
    <3>4. Closed(Projected(view)) \in Bridges /\ Closed(Projected(view)).st = Projected(view)
      BY <1>0, <3>3, ClosedFacts
    <3>5. BridgeMoves
      BY <1>0, <2>4, <3>2, <3>3, <3>4, CloseMoves
    <3>6. OthersMove
      BY <1>0, <2>1, <3>1 DEF OthersMove, OneChild, seen
    <3> QED
      BY <3>1, <3>5, <3>6 DEF Step
  <2>5. CASE /\ bridge.st = "running" /\ RecoveryOutcome # "none"
             /\ bridge' = RecoverClosed(RecoveryOutcome)
             /\ child' = child \/ child' = [child EXCEPT !.latch = TRUE]
    <3>1. RecoveryOutcome \in {"timedOut", "unclaimed", "cancelled", "failed"}
      BY <2>5 DEF RecoveryOutcome
    <3>2. BridgeMoves
      <4>1. CASE RecoveryOutcome = "unclaimed"
        BY <1>0, <1>e, <2>5, <4>1, CloseBadly DEF RecoverClosed
      <4>2. CASE RecoveryOutcome # "unclaimed"
        <5>1. /\ RecoveryOutcome \in BridgeTerminal \ {"completed"}
              /\ bridge' \in {Closed(RecoveryOutcome), ClosedWithIntent(RecoveryOutcome)}
          BY <1>e, <2>5, <3>1, <4>2 DEF RecoverClosed
        <5> QED
          BY <1>0, <2>5, <5>1, CloseBadly
      <4> QED
        BY <4>1, <4>2
    <3>3. ChildMoves /\ child'.st = child.st
      BY <1>0, <2>5, ChildStays
    <3>4. OthersMove
      BY <1>0, <2>1, <3>3 DEF OthersMove, OneChild, seen
    <3> QED
      BY <3>2, <3>3, <3>4 DEF Step
  <2> QED
    BY <2>2, <2>3, <2>4, <2>5
<1> QED
  BY <1>1, <1>2, <1>3

LEMMA QuietSteps ==
    ASSUME BridgeInv,
           \/ ReplicateBridge \/ ReplicateChild \/ UNCHANGED vars
           \/ \E d \in {"unclaimed", "child", "parent"} : DeadlinePasses(d)
    PROVE  Step
<1>0. /\ Shapes /\ parent \in Requests /\ OneChild
      /\ sweep \in [st : {"idle", "cancelled", "failed"}, remote : BOOLEAN]
  BY DEF BridgeInv, Shapes
<1>1. /\ UNCHANGED <<parent, bridge, child, source, sweep, remote, phase>>
      /\ seenBridge' \in {seenBridge, bridge} /\ seenChild' \in {seenChild, child}
  BY DEF ReplicateBridge, ReplicateChild, DeadlinePasses, vars, docs, seen, src, sweepers, env
<1>2. BridgeMoves /\ ChildMoves
  BY <1>0, <1>1, BridgeStays, ChildStays
<1>3. OthersMove
  BY <1>0, <1>1 DEF OthersMove, OneChild
<1> QED
  BY <1>2, <1>3 DEF Step

-----------------------------------------------------------------------------
LEMMA BridgeStart == Init => BridgeInv
  BY DEF Init, BridgeInv, Shapes, OneChild, ViewAgrees, SuccessIsTheChilds,
     NoBridge, NoRequest, NoSweep, Requests, Bridges, RequestTerminal

LEMMA EveryStep ==
    ASSUME BridgeInv, [Next]_vars
    PROVE  Step
  BY HookSteps, SourceSteps, ChildSteps, SweepSteps, RecoverySteps, QuietSteps DEF Next

(* A bridge reports success only of a child that completed, wherever the    *)
(* child runs and however often the parent's process restarts.              *)
THEOREM SuccessIsEarned == Spec => []SuccessIsTheChilds
<1>1. BridgeInv /\ [Next]_vars => BridgeInv'
  BY EveryStep, StepKeeps
<1>2. BridgeInv => SuccessIsTheChilds
  BY DEF BridgeInv
<1> QED
  BY <1>1, <1>2, BridgeStart, PTL DEF Spec

(* However the hook, the sweeps, the observer, the source and the recovery  *)
(* race, the first end of a bridge is its last and its cancel intent stays. *)
THEOREM FirstEndOfBridgeStays == Spec => FirstTerminalWins
<1>1. BridgeInv /\ [Next]_vars => BridgeInv'
  BY EveryStep, StepKeeps
<1>2. BridgeInv /\ [Next]_vars =>
          [bridge.st \in BridgeTerminal =>
              bridge'.st = bridge.st /\ bridge'.intent = bridge.intent]_vars
  <2> SUFFICES ASSUME BridgeInv, [Next]_vars, bridge.st \in BridgeTerminal
               PROVE  bridge'.st = bridge.st /\ bridge'.intent = bridge.intent
    OBVIOUS
  <2>1. BridgeMoves
    BY EveryStep DEF Step
  <2> QED
    BY <2>1 DEF BridgeMoves, BridgeTerminal
<1> QED
  BY <1>1, <1>2, BridgeStart, PTL DEF Spec, FirstTerminalWins

-----------------------------------------------------------------------------
(* The types of what is in the memory of the processes.                    *)
Registers ==
    /\ held \in BOOLEAN /\ processed \in BOOLEAN /\ reap \in BOOLEAN /\ running \in BOOLEAN
    /\ cancel \in {"idle", "local", "remote", "interrupt"}
    /\ source \in {"idle", "create", "recheck", "parent", "interrupt"}
    /\ due \in [unclaimed : BOOLEAN, child : BOOLEAN, parent : BOOLEAN]
    /\ phase \in {"up", "orphans", "stuck"} /\ crashes \in 0..MaxCrashes[remote]

LEMMA RegistersStart == Init => Registers
<1> SUFFICES ASSUME Init PROVE Registers
  OBVIOUS
<1>1. remote \in BOOLEAN /\ crashes = 0
  BY DEF Init
<1>2. MaxCrashes[remote] \in Nat
  BY <1>1, CrashesAssumption
<1>3. crashes \in 0..MaxCrashes[remote]
  BY <1>1, <1>2
<1> QED
  BY <1>3 DEF Init, Registers

LEMMA RegistersStep ==
    ASSUME BridgeInv, Registers, [Next]_vars
    PROVE  Registers'
<1>0. remote' = remote /\ remote \in BOOLEAN
  BY EveryStep DEF Step, OthersMove, BridgeInv, Shapes
<1>1. CASE HookStep \/ InterruptParent
  <2>1. /\ processed' = processed /\ reap' = reap /\ running' = running /\ source' = source
        /\ due' = due /\ phase' = phase /\ crashes' = crashes
    BY <1>1 DEF HookStep, InterruptParent, Spawn, Foreground, AwaitEnds, ParentEnds,
       ParentDeadline, ParentLeaseLost, CancelReadsOwner, CancelWrites, CancelInterruptsChild,
       ParentInterrupted, src, sweepers, env
  <2>2. held' = held \/ held' \in BOOLEAN
    BY <1>1 DEF HookStep, InterruptParent, Spawn, Foreground, AwaitEnds, ParentEnds,
       ParentDeadline, ParentLeaseLost, CancelReadsOwner, CancelWrites, CancelInterruptsChild,
       ParentInterrupted, hook
  <2>3. cancel' = cancel \/ cancel' \in {"idle", "local", "remote", "interrupt"}
    BY <1>1 DEF HookStep, InterruptParent, Spawn, Foreground, AwaitEnds, ParentEnds,
       ParentDeadline, ParentLeaseLost, CancelReadsOwner, CancelWrites, CancelInterruptsChild,
       ParentInterrupted, hook
  <2> QED
    <3>1. held' \in BOOLEAN
      BY <2>2 DEF Registers
    <3>2. cancel' \in {"idle", "local", "remote", "interrupt"}
      BY <2>3 DEF Registers
    <3> QED
      BY <1>0, <2>1, <3>1, <3>2 DEF Registers
<1>2. CASE SourceStep
  <2>1. /\ reap' = reap /\ held' = held /\ running' = running /\ cancel' = cancel
        /\ due' = due /\ phase' = phase /\ crashes' = crashes
    BY <1>2 DEF SourceStep, SourceReadsBridge, SourceRejects, SourceCreatesChild,
       SourceRechecksBridge, SourceRechecksParent, SourceInterruptsChild, hook, sweepers, env
  <2>2. processed' = processed \/ processed' = TRUE
    BY <1>2 DEF SourceStep, SourceReadsBridge, SourceRejects, SourceCreatesChild,
       SourceRechecksBridge, SourceRechecksParent, SourceInterruptsChild
  <2>3. source' = source \/ source' \in {"idle", "create", "recheck", "parent", "interrupt"}
    BY <1>2 DEF SourceStep, SourceReadsBridge, SourceRejects, SourceCreatesChild,
       SourceRechecksBridge, SourceRechecksParent, SourceInterruptsChild
  <2> QED
    <3>1. processed' \in BOOLEAN
      BY <2>2 DEF Registers
    <3>2. source' \in {"idle", "create", "recheck", "parent", "interrupt"}
      BY <2>3 DEF Registers
    <3> QED
      BY <1>0, <2>1, <3>1, <3>2 DEF Registers
<1>3. CASE ChildStep
  <2>1. /\ processed' = processed /\ reap' = reap /\ held' = held /\ source' = source
        /\ cancel' = cancel /\ due' = due /\ phase' = phase /\ crashes' = crashes
        /\ running' = running \/ running' \in BOOLEAN
    BY <1>3 DEF ChildStep, ChildClaimed, ChildEnds, ChildRequeued, hook, src, sweepers, env
  <2> QED
    <3>1. running' \in BOOLEAN
      BY <2>1 DEF Registers
    <3> QED
      BY <1>0, <2>1, <3>1 DEF Registers
<1>4. CASE SweepStep
  <2>1. /\ processed' = processed /\ held' = held /\ source' = source
        /\ cancel' = cancel /\ due' = due /\ phase' = phase /\ crashes' = crashes
    BY <1>4 DEF SweepStep, SweepExpiredChild, SweepQueuedChild, SweepTerminalParent,
       SweepWrites, ObserverProjects, ReapReads, ReapWrites, ObserveAck, MirrorCancel,
       hook, src, env
  <2>2. (running' = running \/ running' \in BOOLEAN) /\ (reap' = reap \/ reap' \in BOOLEAN)
    BY <1>4 DEF SweepStep, SweepExpiredChild, SweepQueuedChild, SweepTerminalParent,
       SweepWrites, ObserverProjects, ReapReads, ReapWrites, ObserveAck, MirrorCancel, sweepers
  <2> QED
    <3>1. running' \in BOOLEAN /\ reap' \in BOOLEAN
      BY <2>2 DEF Registers
    <3> QED
      BY <1>0, <2>1, <3>1 DEF Registers
<1>5. CASE Crash
  <2>1. crashes' \in 0..MaxCrashes[remote]
    BY <1>0, <1>5, CrashesAssumption DEF Crash, Registers
  <2> QED
    BY <1>0, <1>5, <2>1 DEF Crash, Registers
<1>6. CASE RecoverOrphan \/ RecoverStuck
  BY <1>6 DEF RecoverOrphan, RecoverStuck, Registers, hook, src, sweepers
<1>7. CASE ReplicateBridge \/ ReplicateChild \/ UNCHANGED vars
  BY <1>7 DEF ReplicateBridge, ReplicateChild, Registers, vars, hook, src, sweepers, env
<1>8. ASSUME NEW d \in {"unclaimed", "child", "parent"}, DeadlinePasses(d) PROVE Registers'
  <2>1. due' \in [unclaimed : BOOLEAN, child : BOOLEAN, parent : BOOLEAN]
    BY <1>8 DEF DeadlinePasses, Registers
  <2> QED
    BY <1>8, <2>1 DEF DeadlinePasses, Registers, hook, src, sweepers
<1> QED
  BY <1>1, <1>2, <1>3, <1>4, <1>5, <1>6, <1>7, <1>8 DEF Next

(* The variables keep their types, for any number of restarts.             *)
THEOREM BridgeTypeCorrect == Spec => []TypeOK
<1>1. Init => Registers
  BY RegistersStart
<1>2. BridgeInv /\ [Next]_vars => BridgeInv'
  BY EveryStep, StepKeeps
<1>3. BridgeInv /\ Registers /\ [Next]_vars => Registers'
  BY RegistersStep
<1>4. BridgeInv /\ Registers => TypeOK
  BY DEF BridgeInv, Shapes, Registers, TypeOK
<1> QED
  BY <1>1, <1>2, <1>3, <1>4, BridgeStart, PTL DEF Spec

-----------------------------------------------------------------------------
(* Who owes a cancel to the child.                                         *)

(* What holds whatever restarts there were: who is about to interrupt the  *)
(* child has one, a child is not latched before it exists, and a remote    *)
(* child is cancelled through the intent on the bridge and in no other way. *)
Standing ==
    /\ cancel \in {"local", "interrupt"} => child.st # "absent"
    /\ source \in {"recheck", "parent", "interrupt"} => child.st # "absent"
    /\ child.st = "absent" => ~child.latch
    /\ remote => /\ cancel \notin {"local", "interrupt"}
                 /\ sweep.st # "idle" => sweep.remote
                 /\ bridge.st = "cancelled" /\ child.st \notin RequestTerminal => bridge.intent

(* A live child that its source has created and not yet let go. *)
Watched == Live(child) /\ ~child.latch => source \in {"recheck", "parent", "interrupt"}

(* Before a restart, of a local child: a canceller that found no child runs *)
(* for an interrupted parent, and a child created since is still watched;   *)
(* a sweep runs for a parent that ended badly, and has latched the child it *)
(* found or left to the source the one it did not find.                     *)
Pursuit ==
    ~remote /\ crashes = 0 =>
       /\ phase = "up"
       /\ cancel = "remote" => parent.latch /\ Watched
       /\ sweep.st # "idle" => CancelWorthy(parent) /\ IF sweep.remote THEN Watched ELSE child.latch

OwedInv == Standing /\ Pursuit /\ CancelIsOwed

(* A step that no debt depends on: nobody starts or ends a cancel, the     *)
(* child is not created, a latch or a bad end stays, and the bridge is not *)
(* cancelled unless the child has ended.                                   *)
ChildCalm ==
    /\ child.st = "absent" => child' = child
    /\ child'.latch = child.latch \/ child'.latch
BridgeCalm ==
    \/ bridge'.st = bridge.st /\ bridge'.intent = bridge.intent
    \/ bridge'.st # "cancelled"
    \/ child'.st \in RequestTerminal
ParentCalm ==
    /\ parent.latch => parent'.latch
    /\ CancelWorthy(parent) => CancelWorthy(parent')
Calm ==
    /\ remote' = remote /\ crashes' = crashes /\ phase' = phase
    /\ cancel' = cancel /\ sweep' = sweep
    /\ source' = source \/ (source \in {"idle", "create"} /\ source' \in {"idle", "create"})
    /\ ChildCalm /\ BridgeCalm /\ ParentCalm

LEMMA CalmKeeps ==
    ASSUME OwedInv, ChildMoves, Calm
    PROVE  OwedInv'
<1> USE DEF OwedInv
<1>1. /\ child.st # "absent" => child'.st # "absent"
      /\ child.st \in RequestTerminal => child'.st \in RequestTerminal
      /\ Live(child') => Live(child)
  BY DEF ChildMoves, Calm, ChildCalm, Live, RequestTerminal
<1>2. child.latch => child'.latch
  BY DEF Calm, ChildCalm
<1>3. Watched => Watched'
  BY <1>1, <1>2 DEF Calm, Watched
<1>4. Standing'
  BY <1>1 DEF Calm, ChildCalm, BridgeCalm, Standing
<1>5. Pursuit'
  BY <1>2, <1>3 DEF Calm, ParentCalm, Pursuit
<1>6. CancelIsOwed'
  BY <1>1, <1>2 DEF Calm, ParentCalm, BridgeCalm, CancelIsOwed, Live, RequestTerminal
<1> QED
  BY <1>4, <1>5, <1>6

(* What a cancel does: the hook's. *)
LEMMA CancelKeeps ==
    ASSUME BridgeInv, OwedInv, crashes \in Nat,
           CancelReadsOwner \/ CancelWrites \/ CancelInterruptsChild
    PROVE  OwedInv'
<1> USE DEF OwedInv
<1>0. Shapes
  BY DEF BridgeInv
<1>1. CASE CancelReadsOwner
  <2>1. /\ remote' = remote /\ crashes' = crashes /\ phase' = phase /\ sweep' = sweep
        /\ source' = source /\ child' = child /\ bridge' = bridge /\ parent' = parent
        /\ cancel = "idle" /\ bridge.st = "running"
    BY <1>1 DEF CancelReadsOwner, docs, src, sweepers, env
  <2>2. \/ cancel' = "local" /\ ~remote /\ child.st # "absent"
        \/ cancel' = "remote" /\ (remote \/ (child.st = "absent" /\ parent.latch))
    BY <1>1 DEF CancelReadsOwner, ChildIsLocal, ChildView
  <2>3. Standing' /\ CancelIsOwed'
    BY <2>1, <2>2 DEF Standing, CancelIsOwed
  <2>4. Pursuit'
    BY <2>1, <2>2 DEF Pursuit, Watched, Live
  <2> QED
    BY <2>3, <2>4
<1>2. CASE CancelWrites
  <2>1. /\ remote' = remote /\ crashes' = crashes /\ phase' = phase /\ sweep' = sweep
        /\ source' = source /\ child' = child /\ parent' = parent
        /\ cancel \in {"local", "remote"} /\ cancel' # "remote"
        /\ cancel' \in {"local", "interrupt"} => cancel = "local"
    BY <1>2 DEF CancelWrites, src, sweepers, env
  <2>2. CASE bridge.st # "running"
    <3>1. bridge' = bridge
      BY <1>2, <2>2 DEF CancelWrites, CompareAndClose
    <3> QED
      BY <2>1, <3>1 DEF Standing, Pursuit, Watched, CancelIsOwed
  <2>3. CASE bridge.st = "running" /\ cancel = "remote"
    <3>1. bridge'.intent
      BY <1>0, <1>2, <2>3 DEF CancelWrites, CompareAndClose, ClosedWithIntent, Closed,
         Shapes, Bridges
    <3> QED
      BY <2>1, <2>3, <3>1 DEF Standing, Pursuit, Watched, CancelIsOwed
  <2>4. CASE bridge.st = "running" /\ cancel = "local"
    <3>1. cancel' = "interrupt"
      BY <1>2, <2>4 DEF CancelWrites
    <3> QED
      BY <2>1, <2>4, <3>1 DEF Standing, Pursuit, Watched, CancelIsOwed
  <2> QED
    BY <2>1, <2>2, <2>3, <2>4
<1>3. CASE CancelInterruptsChild
  <2>1. /\ remote' = remote /\ crashes' = crashes /\ phase' = phase /\ sweep' = sweep
        /\ source' = source /\ bridge' = bridge /\ parent' = parent
        /\ cancel = "interrupt" /\ cancel' = "idle"
    BY <1>3 DEF CancelInterruptsChild, src, sweepers, env
  <2>2. child'.st = child.st /\ child'.latch
    BY <1>0, <1>3 DEF CancelInterruptsChild, Shapes, Requests
  <2> QED
    BY <2>1, <2>2 DEF Standing, Pursuit, Watched, CancelIsOwed
<1> QED
  BY <1>1, <1>2, <1>3

(* What the source does: it leaves a child it created only to a parent and *)
(* a bridge that were not cancelled.                                       *)
LEMMA SourceKeeps ==
    ASSUME BridgeInv, OwedInv, crashes \in Nat, SourceStep
    PROVE  OwedInv'
<1> USE DEF OwedInv
<1>0. Shapes /\ (source = "create" => child.st = "absent")
  BY DEF BridgeInv, OneChild
<1>1. /\ remote' = remote /\ crashes' = crashes /\ phase' = phase /\ sweep' = sweep
      /\ cancel' = cancel /\ parent' = parent
  BY DEF SourceStep, SourceReadsBridge, SourceRejects, SourceCreatesChild,
     SourceRechecksBridge, SourceRechecksParent, SourceInterruptsChild, docs, hook, sweepers, env
<1>2. ChildMoves
  BY SourceSteps DEF Step
<1>3. CASE SourceReadsBridge \/ SourceRejects
  <2>1. child' = child /\ (source' = source \/ (source \in {"idle", "create"} /\ source' \in {"idle", "create"}))
    BY <1>3 DEF SourceReadsBridge, SourceRejects, docs
  <2>2. BridgeCalm
    BY <1>0, <1>3 DEF SourceReadsBridge, SourceRejects, BridgeCalm, docs, CompareAndClose,
       Closed, Shapes, Bridges
  <2> QED
    BY <1>1, <1>2, <2>1, <2>2, CalmKeeps DEF Calm, ChildCalm, ParentCalm
<1>4. CASE SourceCreatesChild
  <2>1. /\ source = "create" /\ source' = "recheck" /\ bridge' = bridge
        /\ child.st = "absent" /\ child'.st = "pending" /\ ~child'.latch
    BY <1>0, <1>4 DEF SourceCreatesChild
  <2>2. child.st \notin RequestTerminal /\ ~child.latch
    BY <2>1 DEF RequestTerminal, Standing
  <2>3. Standing'
    BY <1>1, <2>1, <2>2 DEF Standing
  <2>4. Pursuit'
    BY <1>1, <2>1, <2>2 DEF Pursuit, Watched
  <2>5. CancelIsOwed'
    BY <1>1, <2>1, <2>2 DEF CancelIsOwed, Standing
  <2> QED
    BY <2>3, <2>4, <2>5
<1>5. CASE SourceRechecksBridge
  <2>1. /\ source = "recheck" /\ bridge' = bridge /\ child' = child
        /\ source' \in {"interrupt", "parent"}
        /\ ~remote /\ bridge.st = "cancelled" => source' = "interrupt"
    BY <1>5 DEF SourceRechecksBridge, docs, BridgeView
  <2>2. Standing' /\ Pursuit'
    BY <1>1, <2>1 DEF Standing, Pursuit, Watched
  <2>3. CancelIsOwed'
    BY <1>1, <2>1 DEF CancelIsOwed
  <2> QED
    BY <2>2, <2>3
<1>6. CASE SourceRechecksParent
  <2>1. /\ source = "parent" /\ bridge' = bridge /\ child' = child
        /\ source' \in {"interrupt", "idle"}
        /\ ~remote /\ (parent.latch \/ CancelWorthy(parent)) => source' = "interrupt"
    BY <1>6 DEF SourceRechecksParent, docs
  <2>2. Standing'
    BY <1>1, <2>1 DEF Standing
  <2>3. Pursuit'
    BY <1>1, <2>1 DEF Pursuit, Watched
  <2>4. CancelIsOwed'
    BY <1>1, <2>1 DEF CancelIsOwed
  <2> QED
    BY <2>2, <2>3, <2>4
<1>7. CASE SourceInterruptsChild
  <2>1. source = "interrupt" /\ source' = "idle" /\ bridge' = bridge
    BY <1>7 DEF SourceInterruptsChild
  <2>2. child'.st = child.st /\ child'.latch
    BY <1>0, <1>7 DEF SourceInterruptsChild, Shapes, Requests
  <2> QED
    BY <1>1, <2>1, <2>2 DEF Standing, Pursuit, Watched, CancelIsOwed
<1> QED
  BY <1>3, <1>4, <1>5, <1>6, <1>7 DEF SourceStep

(* What the sweep of a terminal parent does, in its two steps. *)
LEMMA TerminalSweepKeeps ==
    ASSUME BridgeInv, OwedInv, crashes \in Nat, SweepTerminalParent \/ SweepWrites
    PROVE  OwedInv'
<1> USE DEF OwedInv
<1>0. Shapes /\ ChildMoves
  BY SweepSteps DEF BridgeInv, Step, SweepStep
<1>1. /\ remote' = remote /\ crashes' = crashes /\ phase' = phase /\ source' = source
      /\ cancel' = cancel /\ parent' = parent
  BY DEF SweepTerminalParent, SweepWrites, hook, src, env
<1>2. CASE SweepTerminalParent /\ ChildView.st \in RequestTerminal
  <2>1. child' = child /\ sweep' = sweep
    BY <1>2 DEF SweepTerminalParent
  <2>2. child.st \in RequestTerminal
    BY <1>2 DEF ChildView, BridgeInv, ViewAgrees
  <2> QED
    BY <1>0, <1>1, <2>1, <2>2, CalmKeeps DEF Calm, ChildCalm, BridgeCalm, ParentCalm
<1>3. CASE SweepTerminalParent /\ ChildView.st \notin RequestTerminal
  <2>1. /\ bridge' = bridge /\ CancelWorthy(parent) /\ bridge.st = "running"
        /\ sweep' = [st |-> IF parent.st = "interrupted" THEN "cancelled" ELSE "failed",
                     remote |-> ~ChildIsLocal]
        /\ child' = IF ChildIsLocal THEN [child EXCEPT !.latch = TRUE] ELSE child
    BY <1>3 DEF SweepTerminalParent
  <2>2. CASE ChildIsLocal
    <3>1. child'.st = child.st /\ child'.latch /\ ~remote /\ child.st # "absent"
      BY <1>0, <2>1, <2>2 DEF ChildIsLocal, Shapes, Requests
    <3>2. sweep'.st # "idle" /\ ~sweep'.remote
      BY <2>1, <2>2
    <3> QED
      BY <1>1, <2>1, <3>1, <3>2 DEF Standing, Pursuit, Watched, CancelIsOwed
  <2>3. CASE ~ChildIsLocal
    <3>1. child' = child /\ (~remote => child.st = "absent")
      BY <2>1, <2>3 DEF ChildIsLocal
    <3>2. sweep'.st # "idle" /\ sweep'.remote
      BY <2>1, <2>3
    <3>3. ~remote => Watched'
      BY <3>1 DEF Watched, Live
    <3>4. Watched => Watched'
      BY <1>1, <3>1 DEF Watched
    <3>5. Standing' /\ CancelIsOwed'
      BY <1>1, <2>1, <3>1, <3>2 DEF Standing, CancelIsOwed
    <3>6. Pursuit'
      BY <1>1, <2>1, <3>1, <3>2, <3>3, <3>4 DEF Pursuit
    <3> QED
      BY <3>5, <3>6
  <2> QED
    BY <2>2, <2>3
<1>4. CASE SweepWrites
  <2>1. child' = child /\ sweep.st # "idle" /\ sweep'.st = "idle"
    BY <1>4 DEF SweepWrites, NoSweep
  <2>2. CASE bridge.st # "running"
    <3>1. bridge' = bridge
      BY <1>4, <2>2 DEF SweepWrites, CompareAndClose
    <3> QED
      BY <1>1, <2>1, <3>1 DEF Standing, Pursuit, Watched, CancelIsOwed
  <2>3. CASE bridge.st = "running" /\ sweep.remote
    <3>1. bridge'.intent
      BY <1>0, <1>4, <2>3 DEF SweepWrites, CompareAndClose, ClosedWithIntent, Closed,
         Shapes, Bridges
    <3> QED
      BY <1>1, <2>1, <2>3, <3>1 DEF Standing, Pursuit, Watched, CancelIsOwed
  <2>4. CASE bridge.st = "running" /\ ~sweep.remote
    BY <1>1, <2>1, <2>4 DEF Standing, Pursuit, Watched, CancelIsOwed
  <2> QED
    BY <2>2, <2>3, <2>4
<1> QED
  BY <1>2, <1>3, <1>4

(* The other steps of the parent's hook, of the child and of the sweeps.   *)
LEMMA OthersAreCalm ==
    ASSUME BridgeInv, OwedInv,
           \/ HookStep \/ InterruptParent \/ ChildStep \/ SweepStep
           \/ ReplicateBridge \/ ReplicateChild
           \/ \E d \in {"unclaimed", "child", "parent"} : DeadlinePasses(d)
           \/ UNCHANGED vars,
           ~(CancelReadsOwner \/ CancelWrites \/ CancelInterruptsChild),
           ~(SweepTerminalParent \/ SweepWrites)
    PROVE  Calm
<1>0. Shapes
  BY DEF BridgeInv
<1>v. ChildView.st \in RequestTerminal => child.st \in RequestTerminal
  BY DEF ChildView, BridgeInv, ViewAgrees
<1>1. CASE HookStep \/ InterruptParent
  <2>1. /\ remote' = remote /\ crashes' = crashes /\ phase' = phase
        /\ cancel' = cancel /\ sweep' = sweep /\ source' = source /\ child' = child
    BY <1>1 DEF HookStep, Spawn, Foreground, AwaitEnds, ParentEnds, ParentDeadline,
       ParentLeaseLost, ParentInterrupted, InterruptParent, hook, src, sweepers, env
  <2>2. parent' = parent \/ (parent.st = "processing" /\ parent'.latch = parent.latch)
        \/ (parent.st = "processing" /\ parent'.latch)
    BY <1>0, <1>1 DEF HookStep, Spawn, Foreground, AwaitEnds, ParentEnds, ParentDeadline,
       ParentLeaseLost, ParentInterrupted, InterruptParent, Shapes, Requests
  <2>3. ParentCalm
    BY <2>2 DEF ParentCalm, CancelWorthy, RequestTerminal
  <2>4. BridgeCalm
    <3>1. ASSUME NEW mode \in {"foreground", "background"}, Spawn(mode) PROVE BridgeCalm
      BY <3>1 DEF Spawn, BridgeCalm, NoBridge
    <3>2. CASE Foreground
      BY <1>0, <3>2 DEF Foreground, BridgeCalm, Shapes, Bridges
    <3>3. CASE AwaitEnds
      BY <1>v, <2>1, <3>3 DEF AwaitEnds, BridgeCalm
    <3>4. CASE ParentDeadline \/ ParentLeaseLost
      BY <1>0, <3>4 DEF ParentDeadline, ParentLeaseLost, BridgeCalm, CompareAndClose, Closed,
         Shapes, Bridges
    <3>5. CASE bridge' = bridge
      BY <3>5 DEF BridgeCalm
    <3> QED
      BY <1>1, <3>1, <3>2, <3>3, <3>4, <3>5 DEF HookStep, ParentEnds, ParentInterrupted,
         InterruptParent
  <2> QED
    BY <2>1, <2>3, <2>4 DEF Calm, ChildCalm
<1>2. CASE ChildStep
  <2>1. /\ remote' = remote /\ crashes' = crashes /\ phase' = phase /\ cancel' = cancel
        /\ sweep' = sweep /\ source' = source /\ bridge' = bridge /\ parent' = parent
    BY <1>2 DEF ChildStep, ChildClaimed, ChildEnds, ChildRequeued, hook, src, sweepers, env
  <2>2. child.st # "absent" /\ child'.latch = child.latch
    BY <1>0, <1>2 DEF ChildStep, ChildClaimed, ChildEnds, ChildRequeued, Shapes, Requests
  <2> QED
    BY <2>1, <2>2 DEF Calm, ChildCalm, BridgeCalm, ParentCalm
<1>3. CASE SweepStep
  <2>1. /\ remote' = remote /\ crashes' = crashes /\ phase' = phase /\ cancel' = cancel
        /\ sweep' = sweep /\ source' = source /\ parent' = parent
    BY <1>3 DEF SweepStep, SweepExpiredChild, SweepQueuedChild, ObserverProjects, ReapReads,
       ReapWrites, ObserveAck, MirrorCancel, hook, src, sweepers, env
  <2>2. ChildCalm
    <3>1. CASE child' = child
      BY <3>1 DEF ChildCalm
    <3>2. CASE SweepExpiredChild \/ SweepQueuedChild \/ MirrorCancel
      <4>1. child.st # "absent" /\ (child'.latch = child.latch \/ child'.latch)
        BY <1>0, <3>2 DEF SweepExpiredChild, SweepQueuedChild, MirrorCancel, Live, Shapes, Requests
      <4> QED
        BY <4>1 DEF ChildCalm
    <3> QED
      BY <1>3, <3>1, <3>2 DEF SweepStep, ObserverProjects, ReapReads, ReapWrites, ObserveAck
  <2>3. BridgeCalm
    <3>1. CASE SweepExpiredChild \/ ReapReads \/ ReapWrites \/ ObserveAck
      BY <1>0, <3>1 DEF SweepExpiredChild, ReapReads, ReapWrites, ObserveAck, BridgeCalm,
         CompareAndClose, Closed, Shapes, Bridges
    <3>2. CASE ObserverProjects
      BY <1>v, <3>2 DEF ObserverProjects, BridgeCalm
    <3>3. CASE bridge' = bridge
      BY <3>3 DEF BridgeCalm
    <3> QED
      BY <1>3, <3>1, <3>2, <3>3 DEF SweepStep, SweepQueuedChild, MirrorCancel
  <2> QED
    BY <2>1, <2>2, <2>3 DEF Calm, ParentCalm
<1>4. CASE \/ ReplicateBridge \/ ReplicateChild
           \/ \E d \in {"unclaimed", "child", "parent"} : DeadlinePasses(d)
           \/ UNCHANGED vars
  <2>1. /\ remote' = remote /\ crashes' = crashes /\ phase' = phase /\ cancel' = cancel
        /\ sweep' = sweep /\ source' = source /\ parent' = parent /\ bridge' = bridge
        /\ child' = child
    BY <1>4 DEF ReplicateBridge, ReplicateChild, DeadlinePasses, vars, docs, hook, src,
       sweepers, env
  <2> QED
    BY <2>1 DEF Calm, ChildCalm, BridgeCalm, ParentCalm
<1> QED
  BY <1>1, <1>2, <1>3, <1>4

(* A restart forgets what was in memory: nothing is claimed of a local     *)
(* child afterwards, and the recovery of a remote one keeps the intent.    *)
LEMMA RestartKeeps ==
    ASSUME BridgeInv, OwedInv, crashes \in Nat, Crash \/ RecoverOrphan \/ RecoverStuck
    PROVE  OwedInv'
<1> USE DEF OwedInv
<1>0. Shapes
  BY DEF BridgeInv
<1>1. CASE Crash
  <2>1. /\ remote' = remote /\ crashes' > 0 /\ crashes' \in Nat
        /\ child' = child /\ bridge' = bridge /\ parent' = parent
        /\ cancel' = "idle" /\ sweep'.st = "idle" /\ (source' = source \/ source' = "idle")
    BY <1>1 DEF Crash, docs, NoSweep
  <2> QED
    BY <2>1 DEF Standing, Pursuit, Watched, CancelIsOwed
<1>2. CASE RecoverOrphan \/ RecoverStuck
  <2>1. /\ remote' = remote /\ crashes' = crashes /\ parent' = parent
        /\ cancel' = cancel /\ sweep' = sweep /\ source' = source /\ phase # "up"
    BY <1>2 DEF RecoverOrphan, RecoverStuck, hook, src, sweepers
  <2>2. ~remote => crashes > 0
    BY <2>1 DEF Pursuit
  <2>3. /\ child.st # "absent" => child'.st # "absent"
        /\ child.st \in RequestTerminal => child'.st \in RequestTerminal
    BY <1>2, RecoverySteps DEF Step, ChildMoves, Live, RequestTerminal
  <2>4. child'.st = "absent" => ~child'.latch
    <3>1. CASE RecoverOrphan
      BY <3>1 DEF RecoverOrphan, Standing
    <3>2. CASE RecoverStuck
      BY <1>0, <3>2 DEF RecoverStuck, ChildIsLocal, Live, Standing, Shapes, Requests
    <3> QED
      BY <1>2, <3>1, <3>2
  <2>5. remote /\ bridge'.st = "cancelled" /\ child'.st \notin RequestTerminal => bridge'.intent
    <3> SUFFICES ASSUME remote, bridge'.st = "cancelled", child'.st \notin RequestTerminal
                 PROVE  bridge'.intent
      OBVIOUS
    <3>1. child.st \notin RequestTerminal /\ seenChild.st \notin RequestTerminal
      BY <2>3 DEF BridgeInv, ViewAgrees
    <3>2. CASE bridge' = bridge
      BY <3>1, <3>2 DEF Standing
    <3>3. CASE RecoverOrphan /\ bridge' # bridge
      BY <1>0, <3>3 DEF RecoverOrphan, Closed, Shapes, Bridges
    <3>4. CASE RecoverStuck /\ bridge' # bridge
      <4>1. bridge' = RecoverClosed(RecoveryOutcome)
        BY <3>1, <3>4 DEF RecoverStuck
      <4>2. CASE RecoveryOutcome = "unclaimed"
        BY <1>0, <4>1, <4>2 DEF RecoverClosed, Closed, Shapes, Bridges
      <4>3. CASE parent.st = "completed" /\ RecoveryOutcome # "unclaimed"
        <5>1. RecoveryOutcome \in {"timedOut", "none"}
          BY <4>3 DEF RecoveryOutcome, CancelWorthy
        <5> QED
          BY <1>0, <4>1, <4>3, <5>1 DEF RecoverClosed, Closed, Shapes, Bridges
      <4>4. CASE parent.st # "completed" /\ RecoveryOutcome # "unclaimed"
        BY <1>0, <4>1, <4>4 DEF RecoverClosed, ChildIsLocal, ClosedWithIntent, Closed,
           Shapes, Bridges
      <4> QED
        BY <4>2, <4>3, <4>4
    <3> QED
      BY <1>2, <3>2, <3>3, <3>4
  <2>6. Standing'
    BY <2>1, <2>3, <2>4, <2>5 DEF Standing
  <2>7. Pursuit'
    BY <2>1, <2>2 DEF Pursuit
  <2>8. CancelIsOwed'
    BY <2>1, <2>2, <2>5 DEF CancelIsOwed, Live, RequestTerminal
  <2> QED
    BY <2>6, <2>7, <2>8
<1> QED
  BY <1>1, <1>2

(* A cancel is never dropped: while the live child of a cancelled bridge is *)
(* not latched, the intent on the bridge (remote child), or the canceller   *)
(* or the source in memory (local child, until a restart), still owes it.   *)
THEOREM CancelIsNeverDropped == Spec => []CancelIsOwed
<1>1. Init => OwedInv
  BY DEF Init, OwedInv, Standing, Pursuit, CancelIsOwed, NoSweep, NoBridge, NoRequest
<1>2. BridgeInv /\ Registers /\ OwedInv /\ [Next]_vars => OwedInv'
  <2> SUFFICES ASSUME BridgeInv, Registers, OwedInv, [Next]_vars
               PROVE  OwedInv'
    OBVIOUS
  <2>1. crashes \in Nat
    <3>1. MaxCrashes[remote] \in Nat
      BY CrashesAssumption DEF BridgeInv, Shapes
    <3> QED
      BY <3>1 DEF Registers
  <2>2. ChildMoves
    BY EveryStep DEF Step
  <2>3. CASE \/ CancelReadsOwner \/ CancelWrites \/ CancelInterruptsChild
    BY <2>1, <2>3, CancelKeeps
  <2>4. CASE SourceStep
    BY <2>1, <2>4, SourceKeeps
  <2>5. CASE SweepTerminalParent \/ SweepWrites
    BY <2>1, <2>5, TerminalSweepKeeps
  <2>6. CASE Crash \/ RecoverOrphan \/ RecoverStuck
    BY <2>1, <2>6, RestartKeeps
  <2> QED
    BY <2>2, <2>3, <2>4, <2>5, <2>6, OthersAreCalm, CalmKeeps DEF Next
<1>3. BridgeInv /\ [Next]_vars => BridgeInv'
  BY EveryStep, StepKeeps
<1>4. BridgeInv /\ Registers /\ [Next]_vars => Registers'
  BY RegistersStep
<1>5. OwedInv => CancelIsOwed
  BY DEF OwedInv
<1> QED
  BY <1>1, <1>2, <1>3, <1>4, <1>5, BridgeStart, RegistersStart, PTL DEF Spec

=============================================================================
