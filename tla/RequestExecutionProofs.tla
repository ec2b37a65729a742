----------------------- MODULE RequestExecutionProofs -----------------------
(***************************************************************************)
(* Proofs about RequestExecution, for every set of owners and sweepers,    *)
(* every lease, retry bound and clock horizon.                             *)
(***************************************************************************)
EXTENDS RequestExecution, TLAPS

(* A terminal write is only prepared once its outcome is decided. *)
Decided ==
    \A o \in Owners : op[o] \in {"finalFlush", "final"} => goal[o] # "Undecided"

LocalTypes ==
    /\ lstate \in [Owners -> LocalState]
    /\ op \in [Owners -> Op]
    /\ tries \in [Owners -> Nat]
    /\ goal \in [Owners -> Goal]
    /\ due \in [Owners -> Times]
    /\ buf \in [Owners -> Nat]
    /\ saved \in [Owners -> Nat]
    /\ relinquish \subseteq Owners
    /\ Decided

SharedTypes ==
    /\ now \in Nat
    /\ req \in Requests
    /\ resp \in Responses
    /\ scan \in [Sweepers -> Scans]
    /\ winners \subseteq Owners \cup Sweepers

TypeInv == SharedTypes /\ LocalTypes

-----------------------------------------------------------------------------
(* What the shared operators return *)

(* The outcome a party writes is a terminal state, whatever the latch. *)
LEMMA EffectiveIsTerminal ==
    ASSUME NEW outcome \in Terminal
    PROVE  EffectiveOutcome(outcome) \in Terminal
BY DEF EffectiveOutcome, Terminal

LEMMA DecidedIsTerminal ==
    ASSUME NEW g \in Goal, g # "Undecided"
    PROVE  Outcome(g) \in Terminal
BY DEF Outcome, Goal, Terminal

(* An owner about to write its terminal row has a terminal outcome. *)
LEMMA OwnerOutcomeIsTerminal ==
    ASSUME LocalTypes, NEW o \in Owners, op[o] = "final"
    PROVE  OwnerOutcome(o) \in Terminal
<1>1. goal[o] \in Goal /\ goal[o] # "Undecided"
  BY DEF LocalTypes, Decided
<1>2. Outcome(goal[o]) \in Terminal
  BY <1>1, DecidedIsTerminal
<1>3. QED
  BY <1>2, EffectiveIsTerminal DEF OwnerOutcome

(* The terminal write stores well-typed rows. *)
LEMMA TerminalWriteType ==
    ASSUME SharedTypes, NEW outcome \in Terminal,
           NEW gen \in Owners \cup Sweepers,
           TerminalWrite(outcome, gen)
    PROVE  req' \in Requests /\ resp' \in Responses
<1>1. req' \in Requests
  <2>1. /\ outcome \in RequestState
        /\ gen \in Generations
        /\ now \in Times
    BY DEF SharedTypes, RequestState, Generations, Times
  <2>2. QED
    BY <2>1 DEF SharedTypes, TerminalWrite, Requests
<1>2. resp' \in Responses
  <2>1. StatusOf(outcome) \in ResponseStatus
    BY DEF StatusOf, ResponseStatus
  <2>2. CASE outcome = "Interrupted"
    BY <2>1, <2>2 DEF SharedTypes, TerminalWrite, Responses
  <2>3. CASE outcome # "Interrupted"
    BY <2>1, <2>3 DEF SharedTypes, TerminalWrite, Responses
  <2>4. QED
    BY <2>2, <2>3
<1>3. QED
  BY <1>1, <1>2

(* So does the write that ends a pending request. *)
LEMMA PendingWriteType ==
    ASSUME SharedTypes, NEW outcome \in Terminal, PendingWrite(outcome)
    PROVE  req' \in Requests /\ resp' \in Responses
<1>1. outcome \in RequestState
  BY DEF RequestState
<1>2. QED
  BY <1>1 DEF SharedTypes, PendingWrite, Requests

LEMMA NewDeadlineType ==
    ASSUME SharedTypes
    PROVE  NewDeadline \in Times
BY TimeAssumption DEF SharedTypes, NewDeadline, Requests, Times

-----------------------------------------------------------------------------
(* The local steps of a lifecycle keep its types *)

LEMMA DepartType ==
    ASSUME LocalTypes, NEW o \in Owners, Depart(o)
    PROVE  LocalTypes'
BY DEF LocalTypes, Decided, Depart, Become, SetOp, Aim, buffers,
       LocalState, Op, Goal, Times

LEMMA AgainType ==
    ASSUME LocalTypes, NEW o \in Owners, Again(o)
    PROVE  LocalTypes'
BY DEF LocalTypes, Decided, Again

LEMMA GiveUpType ==
    ASSUME LocalTypes, NEW o \in Owners, GiveUp(o)
    PROVE  LocalTypes'
BY DepartType DEF GiveUp

LEMMA StartTerminalizeType ==
    ASSUME LocalTypes, NEW o \in Owners,
           NEW g \in {"Completed", "Failed", "Interrupted"},
           StartTerminalize(o, g)
    PROVE  LocalTypes'
BY DEF LocalTypes, Decided, StartTerminalize, SetOp, Aim, Op, Goal

LEMMA EndPendingType ==
    ASSUME LocalTypes, NEW o \in Owners,
           op[o] \in {"interruptPending", "expirePending", "reject"},
           EndPending(o, PendingTarget(op[o]))
    PROVE  LocalTypes'
<1>1. PendingTarget(op[o]) \in LocalState
  BY DEF PendingTarget, LocalState
<1>2. QED
  BY <1>1 DEF LocalTypes, Decided, EndPending, Become, SetOp, Op

LEMMA SettleType ==
    ASSUME LocalTypes, NEW o \in Owners, op[o] = "final", Settle(o)
    PROVE  LocalTypes'
<1>1. Outcome(goal[o]) \in LocalState
  BY DEF LocalTypes, Decided, Outcome, Goal, LocalState
<1>2. QED
  BY <1>1 DEF LocalTypes, Decided, Settle, Become, SetOp, Aim, Op, Goal

LEMMA AcknowledgedType ==
    ASSUME LocalTypes, NEW o \in Owners,
           op[o] \in {"begin", "flush", "advance", "reset", "finalFlush"},
           Acknowledged(o)
    PROVE  LocalTypes'
BY DEF LocalTypes, Decided, Acknowledged, SetOp, Op, LocalState

LEMMA ExhaustedType ==
    ASSUME LocalTypes, NEW o \in Owners,
           op[o] \in {"begin", "flush", "advance", "reset", "finalFlush"},
           Exhausted(o)
    PROVE  LocalTypes'
BY DEF LocalTypes, Decided, Exhausted, SetOp, Aim, Op, Goal

-----------------------------------------------------------------------------
(* Every step writes the two documents in one of a few ways.  The          *)
(* invariants about them are proved over these cases.                      *)

OwnerTerminalWrite(o) ==
    /\ op[o] = "final"
    /\ OwnerMayFinalize(o)
    /\ TerminalWrite(OwnerOutcome(o), o)

LatchWrite ==
    /\ ~req.interrupt
    /\ req' = [req EXCEPT !.interrupt = TRUE]
    /\ UNCHANGED resp

OwnerWrite(o) ==
    \/ UNCHANGED durable
    \/ ClaimWrite(o)
    \/ RejectWrite
    \/ \E outcome \in Terminal \ {"Completed"} : PendingWrite(outcome)
    \/ WriteResponse(o) /\ ResponseWrite(o)
    \/ OwnerTerminalWrite(o)
    \/ Relinquish(o) /\ RelinquishWrite(o)

DurableStep ==
    \/ UNCHANGED durable
    \/ \E o \in Owners : ClaimWrite(o)
    \/ RejectWrite
    \/ \E outcome \in Terminal \ {"Completed"} : PendingWrite(outcome)
    \/ \E o \in Owners : ResponseWrite(o)
    \/ \E o \in Owners : OwnerTerminalWrite(o)
    \/ \E o \in Owners : RelinquishWrite(o)
    \/ \E s \in Sweepers : SweepWrite(s)
    \/ LatchWrite

LEMMA PendingOwnerWriteIsOwnerWrite ==
    ASSUME NEW o \in Owners,
           op[o] \in {"interruptPending", "expirePending", "reject"},
           PendingOwnerWrite(o)
    PROVE  OwnerWrite(o)
<1>1. CASE op[o] = "reject"
  BY <1>1 DEF PendingOwnerWrite, OwnerWrite
<1>2. CASE op[o] # "reject"
  <2>1. PendingTarget(op[o]) \in Terminal \ {"Completed"}
    BY <1>2 DEF PendingTarget, Terminal
  <2>2. PendingWrite(PendingTarget(op[o]))
    BY <1>2 DEF PendingOwnerWrite
  <2>3. QED
    BY <2>1, <2>2 DEF OwnerWrite
<1>3. QED
  BY <1>1, <1>2

LEMMA OwnerStepIsOwnerWrite ==
    ASSUME NEW o \in Owners, OwnerNext(o)
    PROVE  OwnerWrite(o)
<1>1. CASE ReadBeforeClaim(o)
  BY <1>1 DEF ReadBeforeClaim, OwnerWrite, durable
<1>2. CASE Claim(o)
  BY <1>2 DEF Claim, OwnerWrite
<1>3. CASE TerminalizePending(o)
  BY <1>3, PendingOwnerWriteIsOwnerWrite DEF TerminalizePending, OwnerWrite
<1>4. CASE BeginExecution(o)
  BY <1>4 DEF BeginExecution, OwnerWrite, durable
<1>5. CASE WriteTokens(o)
  BY <1>5 DEF WriteTokens, OwnerWrite, durable
<1>6. CASE ProcessStreamItem(o)
  BY <1>6 DEF ProcessStreamItem, OwnerWrite, durable
<1>7. CASE WriteResponse(o)
  BY <1>7 DEF WriteResponse, OwnerWrite
<1>8. CASE ConcludeInference(o)
  BY <1>8 DEF ConcludeInference, OwnerWrite, durable
<1>9. CASE FinishWorkspace(o)
  BY <1>9 DEF FinishWorkspace, OwnerWrite, durable
<1>10. CASE FinalizeOwned(o)
  BY <1>10 DEF FinalizeOwned, OwnerTerminalWrite, OwnerWrite
<1>11. CASE Abort(o)
  BY <1>11 DEF Abort, OwnerWrite, durable
<1>12. CASE Relinquish(o)
  BY <1>12 DEF Relinquish, OwnerWrite
<1>13. QED
  BY <1>1, <1>2, <1>3, <1>4, <1>5, <1>6, <1>7, <1>8, <1>9, <1>10, <1>11, <1>12
     DEF OwnerNext

LEMMA SweeperStepIsDurableStep ==
    ASSUME NEW s \in Sweepers, SweeperNext(s)
    PROVE  DurableStep
BY DEF SweeperNext, RecoveryScan, RecoveryLoadResponse, RevocationScan,
       SweepWins, SweepFails, DurableStep, durable

LEMMA StepIsDurableStep ==
    ASSUME [Next]_vars
    PROVE  DurableStep
<1>1. CASE \E o \in Owners : OwnerNext(o)
  BY <1>1, OwnerStepIsOwnerWrite DEF OwnerWrite, DurableStep
<1>2. CASE \E s \in Sweepers : SweeperNext(s)
  BY <1>2, SweeperStepIsDurableStep
<1>3. CASE LatchInterrupt
  BY <1>3 DEF LatchInterrupt, LatchWrite, DurableStep
<1>4. CASE WithdrawPending
  BY <1>4 DEF WithdrawPending, DurableStep, Terminal
<1>5. CASE Crash
  BY <1>5 DEF Crash, DurableStep, durable
<1>6. CASE Tick
  BY <1>6 DEF Tick, DurableStep, durable
<1>7. CASE UNCHANGED vars
  BY <1>7 DEF vars, DurableStep, durable
<1>8. QED
  BY <1>1, <1>2, <1>3, <1>4, <1>5, <1>6, <1>7 DEF Next

(* The documents keep their types. *)
LEMMA DurableType ==
    ASSUME SharedTypes, LocalTypes, DurableStep
    PROVE  req' \in Requests /\ resp' \in Responses
<1>1. CASE UNCHANGED durable
  BY <1>1 DEF durable, SharedTypes
<1>2. CASE \E o \in Owners : ClaimWrite(o)
  <2>1. PICK o \in Owners : ClaimWrite(o)
    BY <1>2
  <2>2. o \in Generations /\ due[o] \in Times /\ "Claimed" \in RequestState
    BY DEF LocalTypes, Generations, RequestState, Active
  <2>3. QED
    BY <2>1, <2>2 DEF ClaimWrite, SharedTypes, Requests
<1>3. CASE RejectWrite
  BY <1>3 DEF RejectWrite, SharedTypes, Requests, Responses, RequestState,
              Terminal, ResponseStatus
<1>4. CASE \E outcome \in Terminal \ {"Completed"} : PendingWrite(outcome)
  BY <1>4, PendingWriteType
<1>5. CASE \E o \in Owners : ResponseWrite(o)
  <2>1. PICK o \in Owners : ResponseWrite(o)
    BY <1>5
  <2>2. /\ NewDeadline \in Times /\ buf[o] \in Nat
        /\ "Processing" \in RequestState /\ "streaming" \in ResponseStatus
    BY NewDeadlineType DEF LocalTypes, RequestState, Active, ResponseStatus
  <2>3. Renewed \in Requests
    <3>1. req.seq + 1 \in Nat
      BY DEF SharedTypes, Requests
    <3>2. QED
      BY <2>2, <3>1 DEF Renewed, SharedTypes, Requests
  <2>4. CASE op[o] = "begin"
    <3>1. /\ req' = [req EXCEPT !.state = "Processing"]
          /\ resp' = [resp EXCEPT !.status = "streaming", !.content = 0]
      BY <2>1, <2>4 DEF ResponseWrite
    <3>2. QED
      BY <2>2, <3>1 DEF SharedTypes, Requests, Responses
  <2>5. CASE op[o] # "begin"
    <3>1. req' \in Requests
      BY <2>1, <2>3, <2>5 DEF ResponseWrite, SharedTypes
    <3>2. \/ resp' = [resp EXCEPT !.content = buf[o]]
          \/ resp' = resp
          \/ resp' = [resp EXCEPT !.content = 0]
      BY <2>1, <2>5 DEF ResponseWrite
    <3>3. resp' \in Responses
      BY <2>2, <3>2 DEF SharedTypes, Responses
    <3>4. QED
      BY <3>1, <3>3
  <2>6. QED
    BY <2>4, <2>5
<1>6. CASE \E o \in Owners : OwnerTerminalWrite(o)
  BY <1>6, OwnerOutcomeIsTerminal, TerminalWriteType DEF OwnerTerminalWrite
<1>7. CASE \E o \in Owners : RelinquishWrite(o)
  <2>1. now - TicksPerMs \in Times
    BY TimeAssumption DEF SharedTypes, Times
  <2>2. QED
    BY <1>7, <2>1 DEF RelinquishWrite, SharedTypes, Requests
<1>8. CASE \E s \in Sweepers : SweepWrite(s)
  <2>1. PICK s \in Sweepers : SweepWrite(s)
    BY <1>8
  <2>2. scan[s].outcome \in Terminal
    BY DEF SharedTypes, Scans
  <2>3. EffectiveOutcome(scan[s].outcome) \in Terminal
    BY <2>2, EffectiveIsTerminal
  <2>4. QED
    BY <2>1, <2>3, TerminalWriteType DEF SweepWrite
<1>9. CASE LatchWrite
  BY <1>9 DEF LatchWrite, SharedTypes, Requests
<1>10. QED
  BY <1>1, <1>2, <1>3, <1>4, <1>5, <1>6, <1>7, <1>8, <1>9 DEF DurableStep

-----------------------------------------------------------------------------
(* Type correctness *)

LEMMA TypeInit == Init => TypeInv
<1>1. Init => SharedTypes
  BY TimeAssumption, PartiesAssumption
     DEF Init, SharedTypes, Requests, Responses, Scans, NoScan, RequestState,
         ResponseStatus, Generations, Times, Terminal
<1>2. Init => LocalTypes
  BY DEF Init, LocalTypes, Decided, LocalState, Op, Goal, Times
<1>3. QED
  BY <1>1, <1>2 DEF TypeInv

(* Each step of an owner keeps the types of its lifecycle. *)
LEMMA OwnerLocalType ==
    ASSUME TypeInv, NEW o \in Owners, OwnerNext(o)
    PROVE  LocalTypes'
<1> USE DEF TypeInv
<1>1. CASE ReadBeforeClaim(o)
  <2>1. CASE Depart(o)
    BY <2>1, DepartType
  <2>2. CASE \E p \in {"interruptPending", "expirePending", "claim", "reject"} :
                Enter(o, p) /\ (UNCHANGED due \/ due' = [due EXCEPT ![o] = now + Lease])
    <3>1. now + Lease \in Times
      BY TimeAssumption DEF SharedTypes, Times
    <3>2. QED
      BY <2>2, <3>1 DEF Enter, Become, SetOp, LocalTypes, Decided, LocalState, Op
  <2>3. QED
    BY <1>1, <2>1, <2>2 DEF ReadBeforeClaim
<1>2. CASE Claim(o)
  <2>1. CASE Depart(o)
    BY <2>1, DepartType
  <2>2. CASE ~Depart(o)
    BY <1>2, <2>2 DEF Claim, Become, SetOp, LocalTypes, Decided, LocalState, Op,
                      Times
  <2>3. QED
    BY <2>1, <2>2
<1>3. CASE TerminalizePending(o)
  BY <1>3, AgainType, GiveUpType, DepartType, EndPendingType
     DEF TerminalizePending
<1>4. CASE BeginExecution(o)
  <2>1. CASE StartTerminalize(o, "Failed")
    BY <2>1, StartTerminalizeType
  <2>2. CASE ~StartTerminalize(o, "Failed")
    BY <1>4, <2>2 DEF BeginExecution, Aim, SetOp, LocalTypes, Decided, Op, Goal
  <2>3. QED
    BY <2>1, <2>2
<1>5. CASE WriteTokens(o)
  BY <1>5 DEF WriteTokens, SetOp, LocalTypes, Decided, Op
<1>6. CASE ProcessStreamItem(o)
  BY <1>6 DEF ProcessStreamItem, SetOp, LocalTypes, Decided, Op
<1>7. CASE WriteResponse(o)
  BY <1>7, AcknowledgedType, ExhaustedType, AgainType DEF WriteResponse
<1>8. CASE ConcludeInference(o)
  <2>1. CASE StartTerminalize(o, "Failed") \/ StartTerminalize(o, "Interrupted")
    BY <2>1, StartTerminalizeType
  <2>2. CASE ~(StartTerminalize(o, "Failed") \/ StartTerminalize(o, "Interrupted"))
    BY <1>8, <2>2 DEF ConcludeInference, Aim, SetOp, LocalTypes, Decided, Op, Goal
  <2>3. QED
    BY <2>1, <2>2
<1>9. CASE FinishWorkspace(o)
  BY <1>9, StartTerminalizeType, DepartType DEF FinishWorkspace
<1>10. CASE FinalizeOwned(o)
  BY <1>10, SettleType, AgainType, GiveUpType, DepartType DEF FinalizeOwned
<1>11. CASE Abort(o)
  BY <1>11, DepartType DEF Abort
<1>12. CASE Relinquish(o)
  BY <1>12 DEF Relinquish, LocalTypes, Decided
<1>13. QED
  BY <1>1, <1>2, <1>3, <1>4, <1>5, <1>6, <1>7, <1>8, <1>9, <1>10, <1>11, <1>12
     DEF OwnerNext

(* What a sweeper remembers between its reads and its write stays typed. *)
LEMMA ScanType ==
    ASSUME TypeInv, NEW s \in Sweepers, SweeperNext(s)
    PROVE  scan' \in [Sweepers -> Scans]
<1> USE DEF TypeInv
<1>1. NoScan \in Scans
  BY DEF NoScan, Scans, Generations, Times, Terminal
<1>2. CASE RecoveryScan(s)
  <2>1. Observed("row", "recovery", "Failed") \in Scans
    BY DEF Observed, Scans, SharedTypes, Requests, Terminal
  <2>2. QED
    BY <1>2, <2>1 DEF RecoveryScan, SetScan, SharedTypes
<1>3. CASE RecoveryLoadResponse(s)
  <2>1. RecoveryOutcome(scan[s].interrupt) \in Terminal
    BY DEF RecoveryOutcome, Terminal
  <2>2. [scan[s] EXCEPT !.phase = "ready",
                        !.outcome = RecoveryOutcome(scan[s].interrupt)] \in Scans
    BY <2>1 DEF SharedTypes, Scans
  <2>3. QED
    BY <1>3, <2>2 DEF RecoveryLoadResponse, SetScan, SharedTypes
<1>4. CASE RevocationScan(s)
  <2>1. \A outcome \in {"Dead", "Superseded"} :
           Observed("ready", "revocation", outcome) \in Scans
    BY DEF Observed, Scans, SharedTypes, Requests, Terminal
  <2>2. QED
    BY <1>4, <2>1 DEF RevocationScan, SetScan, SharedTypes
<1>5. CASE SweepWins(s)
  BY <1>1, <1>5 DEF SweepWins, SetScan, SharedTypes
<1>6. CASE SweepFails(s)
  <2>1. scan[s].tries + 1 \in Nat
    BY DEF SharedTypes, Scans
  <2>2. [scan[s] EXCEPT !.tries = @ + 1] \in Scans
    BY <2>1 DEF SharedTypes, Scans
  <2>3. QED
    BY <1>1, <1>6, <2>2 DEF SweepFails, SweepRetry, SetScan, SharedTypes
<1>7. QED
  BY <1>2, <1>3, <1>4, <1>5, <1>6 DEF SweeperNext

LEMMA TypeStep ==
    ASSUME TypeInv, [Next]_vars
    PROVE  TypeInv'
<1> USE DEF TypeInv
<1>1. req' \in Requests /\ resp' \in Responses
  BY DurableType, StepIsDurableStep
<1>2. CASE \E o \in Owners : OwnerNext(o)
  <2>1. PICK o \in Owners : OwnerNext(o)
    BY <1>2
  <2>2. now' = now /\ scan' = scan /\ winners' \subseteq winners \cup {o}
    BY <2>1 DEF OwnerNext, ReadBeforeClaim, Claim, TerminalizePending,
       BeginExecution, WriteTokens, ProcessStreamItem, WriteResponse,
       ConcludeInference, FinishWorkspace, FinalizeOwned, Abort, Relinquish
  <2>3. QED
    BY <1>1, <2>1, <2>2, OwnerLocalType DEF SharedTypes
<1>3. CASE \E s \in Sweepers : SweeperNext(s)
  <2>1. PICK s \in Sweepers : SweeperNext(s)
    BY <1>3
  <2>2. now' = now /\ UNCHANGED local /\ winners' \subseteq winners \cup {s}
    BY <2>1 DEF SweeperNext, RecoveryScan, RecoveryLoadResponse,
       RevocationScan, SweepWins, SweepFails
  <2>3. LocalTypes'
    BY <2>2 DEF local, LocalTypes, Decided
  <2>4. QED
    BY <1>1, <2>1, <2>2, <2>3, ScanType DEF SharedTypes
<1>4. CASE LatchInterrupt \/ WithdrawPending
  BY <1>1, <1>4 DEF LatchInterrupt, WithdrawPending, SharedTypes, local,
                    LocalTypes, Decided
<1>5. CASE Crash
  <2>1. NoScan \in Scans
    BY DEF NoScan, Scans, Generations, Times, Terminal
  <2>2. QED
    BY <1>1, <1>5, <2>1 DEF Crash, SharedTypes, LocalTypes, Decided,
                            LocalState, Op, Goal, Times
<1>6. CASE Tick
  BY <1>1, <1>6 DEF Tick, SharedTypes, local, LocalTypes, Decided
<1>7. CASE UNCHANGED vars
  BY <1>7 DEF vars, SharedTypes, LocalTypes, Decided
<1>8. QED
  BY <1>2, <1>3, <1>4, <1>5, <1>6, <1>7 DEF Next

(* Every reachable state is well typed, and a terminal write always has a  *)
(* decided outcome.                                                        *)
THEOREM TypeCorrect == Spec => [](TypeOK /\ Decided)
<1>1. TypeInv => TypeOK /\ Decided
  BY DEF TypeInv, SharedTypes, LocalTypes, TypeOK
<1>2. QED
  BY <1>1, TypeInit, TypeStep, PTL DEF Spec

-----------------------------------------------------------------------------
(* A terminal request stays as it is *)

(* The states a write leaves behind: every write but the latch starts from *)
(* a request that has not ended.                                           *)
LEMMA WritesNeedUnended ==
    ASSUME TypeInv, DurableStep, req.state \in Terminal
    PROVE  UNCHANGED durable \/ LatchWrite
<1>1. req.state \notin {"Pending", "Claimed", "Processing"}
  BY DEF Terminal
<1>2. ASSUME NEW o \in Owners, ResponseWrite(o) PROVE FALSE
  BY <1>1, <1>2 DEF ResponseWrite, AuthorizeLive, ClaimedPair, ProcessingPair
<1>3. QED
  BY <1>1, <1>2 DEF DurableStep, ClaimWrite, RejectWrite, PendingWrite,
     OwnerTerminalWrite, OwnerMayFinalize, RelinquishWrite, RelinquishMatches,
     Active, SweepWrite, SweepMayFinalize

(* Late flushes, retried terminal writes, relinquished leases and sweeps   *)
(* change nothing of a request that has ended but its interrupt latch.     *)
THEOREM TerminalStaysFinal == Spec => TerminalIsFinal
<1>1. ASSUME TypeInv, [Next]_vars, req.state \in Terminal
      PROVE  /\ req' = [req EXCEPT !.interrupt = req'.interrupt]
             /\ resp' = resp
  <2>1. UNCHANGED durable \/ LatchWrite
    BY <1>1, StepIsDurableStep, WritesNeedUnended
  <2>2. CASE UNCHANGED durable
    BY <1>1, <2>2 DEF durable, TypeInv, SharedTypes, Requests
  <2>3. CASE LatchWrite
    BY <1>1, <2>3 DEF LatchWrite, TypeInv, SharedTypes, Requests
  <2>4. QED
    BY <2>1, <2>2, <2>3
<1>2. QED
  BY <1>1, TypeInit, TypeStep, PTL DEF Spec, TerminalIsFinal

-----------------------------------------------------------------------------
(* Request and response agree *)

(* A terminal write of an active request leaves an agreeing pair. *)
LEMMA TerminalWriteCoherent ==
    ASSUME SharedTypes, NEW outcome \in Terminal,
           NEW gen \in Owners \cup Sweepers, TerminalWrite(outcome, gen)
    PROVE  PairCoherent'
<1>1. req'.state = outcome /\ req'.gen = gen /\ resp'.status = StatusOf(outcome)
  BY DEF SharedTypes, TerminalWrite, Requests, Responses
<1>2. QED
  BY <1>1 DEF PairCoherent, StatusOf, Terminal, Active

LEMMA CoherentStep ==
    ASSUME TypeInv, PairCoherent, DurableStep
    PROVE  PairCoherent'
<1> USE DEF TypeInv
<1>1. CASE UNCHANGED durable
  BY <1>1 DEF durable, PairCoherent
<1>2. CASE \E o \in Owners : ClaimWrite(o)
  <2>1. PICK o \in Owners : ClaimWrite(o)
    BY <1>2
  <2>2. /\ req.state = "Pending" /\ req'.state = "Claimed"
        /\ req'.gen = o /\ resp'.status = resp.status
    BY <2>1 DEF ClaimWrite, SharedTypes, Requests
  <2>3. QED
    BY <2>2 DEF PairCoherent, Terminal, Active
<1>3. CASE RejectWrite
  <2>1. req'.state = "Failed" /\ resp'.status = "error"
    BY <1>3 DEF RejectWrite, SharedTypes, Requests, Responses
  <2>2. QED
    BY <2>1 DEF PairCoherent, Terminal, Active
<1>4. CASE \E outcome \in Terminal \ {"Completed"} : PendingWrite(outcome)
  <2>1. PICK outcome \in Terminal \ {"Completed"} : PendingWrite(outcome)
    BY <1>4
  <2>2. /\ req.state = "Pending" /\ req'.state = outcome
        /\ req'.gen = req.gen /\ resp'.status = resp.status
    BY <2>1 DEF PendingWrite, SharedTypes, Requests
  <2>3. QED
    BY <2>2 DEF PairCoherent, Terminal, Active
<1>5. CASE \E o \in Owners : ResponseWrite(o)
  <2>1. PICK o \in Owners : ResponseWrite(o)
    BY <1>5
  <2>2. req.gen = o
    BY <2>1 DEF ResponseWrite, AuthorizeLive, LiveGeneration
  <2>3. CASE op[o] = "begin"
    <3>1. req'.state = "Processing" /\ req'.gen = o /\ resp'.status = "streaming"
      BY <2>1, <2>2, <2>3 DEF ResponseWrite, SharedTypes, Requests, Responses
    <3>2. QED
      BY <3>1 DEF PairCoherent, Terminal, Active
  <2>4. CASE op[o] # "begin"
    <3>1. /\ req'.state = req.state /\ req'.gen = req.gen
          /\ resp'.status = resp.status
      BY <2>1, <2>4 DEF ResponseWrite, Renewed, SharedTypes, Requests, Responses
    <3>2. QED
      BY <3>1 DEF PairCoherent
  <2>5. QED
    BY <2>3, <2>4
<1>6. CASE \E o \in Owners : OwnerTerminalWrite(o)
  BY <1>6, OwnerOutcomeIsTerminal, TerminalWriteCoherent DEF OwnerTerminalWrite
<1>7. CASE \E o \in Owners : RelinquishWrite(o)
  <2>1. /\ req'.state = req.state /\ req'.gen = req.gen
        /\ resp'.status = resp.status
    BY <1>7 DEF RelinquishWrite, SharedTypes, Requests
  <2>2. QED
    BY <2>1 DEF PairCoherent
<1>8. CASE \E s \in Sweepers : SweepWrite(s)
  <2>1. PICK s \in Sweepers : SweepWrite(s)
    BY <1>8
  <2>2. scan[s].outcome \in Terminal
    BY DEF SharedTypes, Scans
  <2>3. QED
    BY <2>1, <2>2, EffectiveIsTerminal, TerminalWriteCoherent DEF SweepWrite
<1>9. CASE LatchWrite
  <2>1. /\ req'.state = req.state /\ req'.gen = req.gen
        /\ resp'.status = resp.status
    BY <1>9 DEF LatchWrite, SharedTypes, Requests
  <2>2. QED
    BY <2>1 DEF PairCoherent
<1>10. QED
  BY <1>1, <1>2, <1>3, <1>4, <1>5, <1>6, <1>7, <1>8, <1>9 DEF DurableStep

LEMMA CoherentInit == Init => PairCoherent
BY DEF Init, PairCoherent, Terminal, Active

(* A request and its response never disagree. *)
THEOREM PairStaysCoherent == Spec => []PairCoherent
<1>1. TypeInv /\ PairCoherent /\ [Next]_vars => (TypeInv /\ PairCoherent)'
  BY TypeStep, StepIsDurableStep, CoherentStep
<1>2. QED
  BY <1>1, TypeInit, CoherentInit, PTL DEF Spec

-----------------------------------------------------------------------------
(* Follow-up effects are authorized once *)

LEMMA TerminalWriteStores ==
    ASSUME SharedTypes, NEW outcome \in Terminal,
           NEW gen \in Owners \cup Sweepers, TerminalWrite(outcome, gen)
    PROVE  req'.state \in Terminal /\ req'.gen = gen
BY DEF SharedTypes, TerminalWrite, Requests

LEMMA WinnerStep ==
    ASSUME TypeInv, OneWinner, [Next]_vars
    PROVE  OneWinner'
<1> USE DEF TypeInv
<1>1. CASE winners' = winners
  <2>1. SUFFICES ASSUME NEW w \in winners
                 PROVE  req'.state \in Terminal /\ req'.gen = w
    BY <1>1 DEF OneWinner
  <2>2. req.state \in Terminal /\ req.gen = w
    BY DEF OneWinner
  <2>3. UNCHANGED durable \/ LatchWrite
    BY <2>2, StepIsDurableStep, WritesNeedUnended
  <2>4. req'.state = req.state /\ req'.gen = req.gen
    BY <2>3 DEF durable, LatchWrite, SharedTypes, Requests
  <2>5. QED
    BY <2>2, <2>4
<1>2. ASSUME NEW o \in Owners, FinalizeOwned(o), winners' # winners
      PROVE  OneWinner'
  <2>1. /\ op[o] = "final" /\ OwnerMayFinalize(o)
        /\ TerminalWrite(OwnerOutcome(o), o) /\ winners' \subseteq winners \cup {o}
    BY <1>2 DEF FinalizeOwned
  <2>2. winners = {}
    BY <2>1 DEF OwnerMayFinalize, OneWinner
  <2>3. req'.state \in Terminal /\ req'.gen = o
    BY <2>1, OwnerOutcomeIsTerminal, TerminalWriteStores
  <2>4. QED
    BY <2>1, <2>2, <2>3 DEF OneWinner
<1>3. ASSUME NEW s \in Sweepers, SweepWins(s)
      PROVE  OneWinner'
  <2>1. winners = {}
    BY <1>3 DEF SweepWins, SweepWrite, SweepMayFinalize, OneWinner
  <2>2. scan[s].outcome \in Terminal
    BY DEF SharedTypes, Scans
  <2>3. req'.state \in Terminal /\ req'.gen = s
    BY <1>3, <2>2, EffectiveIsTerminal, TerminalWriteStores
       DEF SweepWins, SweepWrite
  <2>4. QED
    BY <1>3, <2>1, <2>3 DEF SweepWins, OneWinner
<1>4. \/ winners' = winners
      \/ \E o \in Owners : FinalizeOwned(o)
      \/ \E s \in Sweepers : SweepWins(s)
  BY DEF Next, vars, OwnerNext, ReadBeforeClaim, Claim, TerminalizePending,
     BeginExecution, WriteTokens, ProcessStreamItem, WriteResponse,
     ConcludeInference, FinishWorkspace, Abort, Relinquish, SweeperNext,
     RecoveryScan, RecoveryLoadResponse, RevocationScan, SweepFails,
     LatchInterrupt, WithdrawPending, Crash, Tick
<1>5. QED
  BY <1>1, <1>2, <1>3, <1>4

(* At most one party is ever told that it won, and the terminal row        *)
(* carries that party's generation.                                        *)
THEOREM WinnerIsUnique == Spec => []OneWinner
<1>1. Init => OneWinner
  BY DEF Init, OneWinner
<1>2. QED
  BY <1>1, TypeInit, TypeStep, WinnerStep, PTL DEF Spec

-----------------------------------------------------------------------------
(* Interrupts and live leases *)

LEMMA TerminalWriteState ==
    ASSUME SharedTypes, NEW outcome, NEW gen, TerminalWrite(outcome, gen)
    PROVE  req'.state = outcome /\ req'.gen = gen
BY DEF SharedTypes, TerminalWrite, Requests

(* The writes that can change the state of an active request. *)
LEMMA ActiveWrites ==
    ASSUME TypeInv, DurableStep, req.state \in Active
    PROVE  \/ req'.state = req.state /\ req'.gen = req.gen
           \/ req'.state = "Processing" /\ req'.gen = req.gen
           \/ \E o \in Owners : OwnerTerminalWrite(o)
           \/ \E s \in Sweepers : SweepWrite(s)
<1> USE DEF TypeInv
<1>1. req.state # "Pending"
  BY DEF Active
<1>2. CASE \E o \in Owners : ResponseWrite(o)
  BY <1>2 DEF ResponseWrite, Renewed, SharedTypes, Requests
<1>3. CASE \E o \in Owners : RelinquishWrite(o)
  BY <1>3 DEF RelinquishWrite, SharedTypes, Requests
<1>4. CASE LatchWrite
  BY <1>4 DEF LatchWrite, SharedTypes, Requests
<1>5. CASE UNCHANGED durable
  BY <1>5 DEF durable
<1>6. QED
  BY <1>1, <1>2, <1>3, <1>4, <1>5
     DEF DurableStep, ClaimWrite, RejectWrite, PendingWrite

(* No latched interrupt is lost to a failure, whoever ends the request. *)
THEOREM InterruptIsNotLost == Spec => InterruptOutranksFailure
<1>1. ASSUME TypeInv, [Next]_vars, req.state \in Active, req.interrupt
      PROVE  req'.state # "Failed"
  <2> USE DEF TypeInv
  <2>1. ASSUME NEW outcome PROVE EffectiveOutcome(outcome) # "Failed"
    BY <1>1 DEF EffectiveOutcome
  <2>2. CASE \E o \in Owners : OwnerTerminalWrite(o)
    BY <1>1, <2>1, <2>2, TerminalWriteState DEF OwnerTerminalWrite, OwnerOutcome
  <2>3. CASE \E s \in Sweepers : SweepWrite(s)
    BY <1>1, <2>1, <2>3, TerminalWriteState DEF SweepWrite
  <2>4. QED
    BY <1>1, <2>2, <2>3, ActiveWrites, StepIsDurableStep DEF Active
<1>2. QED
  BY <1>1, TypeInit, TypeStep, PTL DEF Spec, InterruptOutranksFailure

(* A recovery ends only a request whose stored lease has expired: a lease  *)
(* renewed after the sweep's read is never taken.                          *)
THEOREM LiveLeaseIsSafe == Spec => LiveLeaseIsNotRecovered
<1>1. ASSUME TypeInv, PairCoherent, [Next]_vars, req.state \in Active,
             req'.gen \in Sweepers,
             req'.state \in {"Completed", "Failed", "Interrupted"}
      PROVE  req.expiry < now
  <2> USE DEF TypeInv
  <2>1. req.gen \notin Sweepers
    BY <1>1, PartiesAssumption DEF PairCoherent
  <2>2. ~ \E o \in Owners : OwnerTerminalWrite(o)
    BY <1>1, TerminalWriteState, PartiesAssumption DEF OwnerTerminalWrite
  <2>3. PICK s \in Sweepers : SweepWrite(s)
    BY <1>1, <2>1, <2>2, ActiveWrites, StepIsDurableStep
  <2>4. req'.state = EffectiveOutcome(scan[s].outcome)
    BY <1>1, <2>3, TerminalWriteState DEF SweepWrite
  <2>5. ~AuthorizeRevocation(scan[s])
    BY <1>1, <2>4 DEF AuthorizeRevocation
  <2>6. QED
    BY <2>3, <2>5 DEF SweepWrite, SweepMayFinalize, AuthorizeRecovery
<1>2. TypeInv /\ PairCoherent /\ [Next]_vars => (TypeInv /\ PairCoherent)'
  BY TypeStep, StepIsDurableStep, CoherentStep
<1>3. QED
  BY <1>1, <1>2, TypeInit, CoherentInit, PTL DEF Spec, LiveLeaseIsNotRecovered

-----------------------------------------------------------------------------
(* The protocol implements the contract *)

(* A sweep that read a complete response read it from a completed request, *)
(* which it can no longer change.                                          *)
CompletionsAreRead ==
    \A s \in Sweepers : scan[s].outcome = "Completed" => req.state = "Completed"

LEMMA CompletionsStep ==
    ASSUME TypeInv, PairCoherent, CompletionsAreRead, [Next]_vars
    PROVE  CompletionsAreRead'
<1> USE DEF TypeInv
<1>1. req.state = "Completed" => req'.state = "Completed"
  <2>1. SUFFICES ASSUME req.state = "Completed" PROVE req'.state = "Completed"
    OBVIOUS
  <2>2. UNCHANGED durable \/ LatchWrite
    BY <2>1, StepIsDurableStep, WritesNeedUnended DEF Terminal
  <2>3. QED
    BY <2>1, <2>2 DEF durable, LatchWrite, SharedTypes, Requests
<1>2. CASE scan' = scan
  BY <1>1, <1>2 DEF CompletionsAreRead
<1>3. CASE Crash
  BY <1>3 DEF Crash, CompletionsAreRead, NoScan
<1>4. ASSUME NEW s \in Sweepers, SweeperNext(s)
      PROVE  CompletionsAreRead'
  <2>1. CASE RecoveryLoadResponse(s)
    <3>1. RecoveryOutcome(scan[s].interrupt) = "Completed" =>
             req.state = "Completed"
      BY DEF RecoveryOutcome, PairCoherent
    <3>2. scan' = [scan EXCEPT ![s] =
                     [scan[s] EXCEPT !.phase = "ready",
                        !.outcome = RecoveryOutcome(scan[s].interrupt)]]
      BY <2>1 DEF RecoveryLoadResponse, SetScan
    <3>3. scan'[s].outcome = RecoveryOutcome(scan[s].interrupt)
      BY <3>2 DEF SharedTypes, Scans
    <3>4. \A t \in Sweepers \ {s} : scan'[t] = scan[t]
      BY <3>2 DEF SharedTypes
    <3>5. QED
      BY <1>1, <3>1, <3>3, <3>4 DEF CompletionsAreRead
  <2>2. CASE ~RecoveryLoadResponse(s)
    <3>1. /\ scan'[s].outcome = scan[s].outcome \/ scan'[s].outcome # "Completed"
          /\ \A t \in Sweepers \ {s} : scan'[t] = scan[t]
      BY <1>4, <2>2 DEF SweeperNext, RecoveryScan, RevocationScan, SweepWins,
         SweepFails, SweepRetry, SetScan, Observed, NoScan, SharedTypes, Scans
    <3>2. QED
      BY <1>1, <3>1 DEF CompletionsAreRead
  <2>3. QED
    BY <2>1, <2>2
<1>5. scan' = scan \/ Crash \/ \E s \in Sweepers : SweeperNext(s)
  BY DEF Next, vars, OwnerNext, ReadBeforeClaim, Claim, TerminalizePending,
     BeginExecution, WriteTokens, ProcessStreamItem, WriteResponse,
     ConcludeInference, FinishWorkspace, FinalizeOwned, Abort, Relinquish,
     LatchInterrupt, WithdrawPending, Tick
<1>6. QED
  BY <1>2, <1>3, <1>4, <1>5

LEMMA ContractStep ==
    ASSUME TypeInv, PairCoherent, CompletionsAreRead, DurableStep
    PROVE  [Contract!Next]_(Contract!contract)
<1> USE DEF TypeInv, Contract!Next, Contract!contract
<1>1. CASE UNCHANGED durable
  BY <1>1 DEF durable
<1>2. CASE \E o \in Owners : ClaimWrite(o)
  BY <1>2 DEF ClaimWrite, SharedTypes, Requests, Contract!Accept
<1>3. CASE RejectWrite
  BY <1>3 DEF RejectWrite, SharedTypes, Requests, Responses,
              Contract!Withdraw, Contract!Failures
<1>4. CASE \E outcome \in Terminal \ {"Completed"} : PendingWrite(outcome)
  <2>1. resp.status = "none"
    BY <1>4 DEF PendingWrite, PairCoherent
  <2>2. QED
    BY <1>4, <2>1 DEF PendingWrite, SharedTypes, Requests, Terminal,
                      Contract!Withdraw, Contract!Failures
<1>5. CASE \E o \in Owners : ResponseWrite(o)
  <2>1. PICK o \in Owners : ResponseWrite(o)
    BY <1>5
  <2>2. CASE op[o] = "begin"
    <3>1. req.state = "Claimed"
      BY <2>1, <2>2 DEF ResponseWrite, AuthorizeLive, FenceOf, ClaimedPair
    <3>2. /\ req' = [req EXCEPT !.state = "Processing"]
          /\ resp' = [resp EXCEPT !.status = "streaming", !.content = 0]
      BY <2>1, <2>2 DEF ResponseWrite
    <3>3. /\ req'.state = "Processing" /\ req'.interrupt = req.interrupt
          /\ resp'.status = "streaming" /\ resp'.content \in Nat
      BY <3>2 DEF SharedTypes, Requests, Responses
    <3>4. QED
      BY <3>1, <3>3 DEF Contract!Start
  <2>3. CASE op[o] # "begin"
    <3>1. req.state = "Processing"
      BY <2>1, <2>3 DEF ResponseWrite, AuthorizeLive, FenceOf, ProcessingPair
    <3>2. req' = Renewed \/ req' = req
      BY <2>1, <2>3 DEF ResponseWrite
    <3>3. req'.state = req.state /\ req'.interrupt = req.interrupt
      BY <3>2 DEF Renewed, SharedTypes, Requests
    <3>4. \/ resp' = [resp EXCEPT !.content = buf[o]]
          \/ resp' = resp
          \/ resp' = [resp EXCEPT !.content = 0]
      BY <2>1, <2>3 DEF ResponseWrite
    <3>5. resp'.status = resp.status /\ resp'.content \in Nat
      BY <3>4 DEF SharedTypes, Responses, LocalTypes
    <3>6. QED
      BY <3>1, <3>3, <3>5 DEF Contract!Stream
  <2>4. QED
    BY <2>2, <2>3
<1>6. ASSUME NEW outcome \in Terminal, NEW gen,
             TerminalWrite(EffectiveOutcome(outcome), gen),
             req.state \in Active,
             EffectiveOutcome(outcome) = "Completed" => req.state = "Processing"
      PROVE  Contract!Complete \/ Contract!Fail
  <2>1. /\ req'.state = EffectiveOutcome(outcome)
        /\ req'.interrupt = req.interrupt /\ resp'.content = resp.content
        /\ resp'.status = StatusOf(EffectiveOutcome(outcome))
    BY <1>6 DEF TerminalWrite, SharedTypes, Requests, Responses
  <2>2. req.interrupt => EffectiveOutcome(outcome) # "Failed"
    BY DEF EffectiveOutcome
  <2>3. EffectiveOutcome(outcome) \in Terminal
    BY <1>6, EffectiveIsTerminal
  <2>4. CASE EffectiveOutcome(outcome) = "Completed"
    BY <1>6, <2>1, <2>4 DEF Contract!Complete, StatusOf
  <2>5. CASE EffectiveOutcome(outcome) # "Completed"
    BY <1>6, <2>1, <2>2, <2>3, <2>5 DEF Contract!Fail, Contract!Running,
       Contract!Failures, StatusOf, Terminal, Active
  <2>6. QED
    BY <2>4, <2>5
<1>7. CASE \E o \in Owners : OwnerTerminalWrite(o)
  <2>1. PICK o \in Owners : OwnerTerminalWrite(o)
    BY <1>7
  <2>2. Outcome(goal[o]) \in Terminal
    BY <2>1, DecidedIsTerminal DEF OwnerTerminalWrite, LocalTypes, Decided
  <2>3. /\ req.state \in Active
        /\ OwnerOutcome(o) = "Completed" => req.state = "Processing"
    BY <2>1 DEF OwnerTerminalWrite, OwnerMayFinalize, AuthorizeLive, FinalFence,
                ClaimedPair, ProcessingPair, Active
  <2>4. QED
    BY <1>6, <2>1, <2>2, <2>3 DEF OwnerTerminalWrite, OwnerOutcome
<1>8. CASE \E o \in Owners : RelinquishWrite(o)
  BY <1>8 DEF RelinquishWrite, SharedTypes, Requests
<1>9. CASE \E s \in Sweepers : SweepWrite(s)
  <2>1. PICK s \in Sweepers : SweepWrite(s)
    BY <1>9
  <2>2. scan[s].outcome \in Terminal
    BY DEF SharedTypes, Scans
  <2>3. req.state \in Active
    BY <2>1 DEF SweepWrite, SweepMayFinalize, AuthorizeRecovery,
                AuthorizeRevocation, ClaimedPair, ProcessingPair, Active
  <2>4. EffectiveOutcome(scan[s].outcome) # "Completed"
    BY <2>3 DEF EffectiveOutcome, CompletionsAreRead, Active
  <2>5. QED
    BY <1>6, <2>1, <2>2, <2>3, <2>4 DEF SweepWrite
<1>10. CASE LatchWrite
  BY <1>10 DEF LatchWrite, SharedTypes, Requests, Contract!Interrupt
<1>11. QED
  BY <1>1, <1>2, <1>3, <1>4, <1>5, <1>7, <1>8, <1>9, <1>10 DEF DurableStep

(* Watchers of the two documents see exactly what the contract allows. *)
THEOREM ExecutionImplementsContract == Spec => ImplementsContract
<1> DEFINE IInv == TypeInv /\ PairCoherent /\ CompletionsAreRead
<1>1. Init => IInv
  <2>1. Init => CompletionsAreRead
    BY DEF Init, CompletionsAreRead, NoScan
  <2>2. QED
    BY <2>1, TypeInit, CoherentInit
<1>2. IInv /\ [Next]_vars => IInv'
  BY TypeStep, StepIsDurableStep, CoherentStep, CompletionsStep
<1>3. Init => Contract!Init
  BY DEF Init, Contract!Init
<1>4. IInv /\ [Next]_vars => [Contract!Next]_(Contract!contract)
  BY StepIsDurableStep, ContractStep
<1>5. QED
  BY <1>1, <1>2, <1>3, <1>4, PTL DEF Spec, ImplementsContract, Contract!Spec

-----------------------------------------------------------------------------
(* A completed response holds the whole tail *)

(* Which operations a lifecycle can be in the middle of, and that nothing  *)
(* is streamed before the response exists.                                 *)
ControlInv ==
    \A o \in Owners :
       /\ op[o] \in {"claim", "interruptPending", "expirePending", "reject"} =>
             lstate[o] = "Pending"
       /\ op[o] = "begin" => lstate[o] = "Claimed"
       /\ op[o] \in {"flush", "advance", "reset", "broken", "workspace",
                     "finalFlush"} => lstate[o] = "Streaming"
       /\ op[o] = "final" =>
             \/ lstate[o] = "Streaming"
             \/ lstate[o] = "Claimed" /\ goal[o] = "Failed"
       /\ lstate[o] \in {"New", "Pending", "Claimed"} =>
             buf[o] = 0 /\ saved[o] = 0

(* While an owner streams and no tail write of its own is unsettled, the   *)
(* stored tail is what the owner last saved; a completion is only written  *)
(* when that is the whole buffer.                                          *)
TailMatches(o) ==
    /\ op[o] \in {"idle", "advance", "workspace"} => resp.content = saved[o]
    /\ op[o] = "final" /\ goal[o] = "Completed" => resp.content = buf[o]

TailInv ==
    /\ \A o \in Owners :
          req.gen = o /\ req.state = "Processing" /\ lstate[o] = "Streaming" =>
             TailMatches(o)
    /\ req.state = "Completed" =>
          /\ req.gen \in Owners
          /\ resp.content = buf[req.gen]
          /\ lstate[req.gen] = "Streaming" => op[req.gen] = "final"

(* Leaving, retrying and settling keep the control invariant. *)
LEMMA LeaveControl ==
    ASSUME LocalTypes, ControlInv, NEW o \in Owners,
           Depart(o) \/ Again(o) \/ GiveUp(o) \/ Settle(o)
    PROVE  ControlInv'
<1>1. CASE Depart(o) \/ GiveUp(o)
  <2>1. lstate'[o] = "Gone" /\ op'[o] = "idle"
    BY <1>1 DEF LocalTypes, Depart, GiveUp, Become, SetOp
  <2>2. \A p \in Owners : p # o =>
           lstate'[p] = lstate[p] /\ op'[p] = op[p] /\ goal'[p] = goal[p]
    BY <1>1 DEF LocalTypes, Depart, GiveUp, Become, SetOp, Aim
  <2>3. buf' = buf /\ saved' = saved
    BY <1>1 DEF Depart, GiveUp, buffers
  <2>4. QED
    BY <2>1, <2>2, <2>3 DEF ControlInv
<1>2. CASE Again(o)
  BY <1>2 DEF LocalTypes, ControlInv, Again
<1>3. CASE Settle(o)
  <2>1. Outcome(goal[o]) \notin {"New", "Pending", "Claimed"}
    BY DEF LocalTypes, Outcome, Goal
  <2>2. QED
    BY <1>3, <2>1 DEF LocalTypes, ControlInv, Settle, Become, SetOp, Aim
<1>4. QED
  BY <1>1, <1>2, <1>3

LEMMA StartTerminalizeControl ==
    ASSUME LocalTypes, ControlInv, NEW o \in Owners, NEW g,
           \/ lstate[o] = "Streaming"
           \/ lstate[o] = "Claimed" /\ g = "Failed",
           StartTerminalize(o, g)
    PROVE  ControlInv'
BY DEF LocalTypes, ControlInv, StartTerminalize, SetOp, Aim

LEMMA EndPendingControl ==
    ASSUME LocalTypes, ControlInv, NEW o \in Owners,
           op[o] \in {"interruptPending", "expirePending", "reject"},
           EndPending(o, PendingTarget(op[o]))
    PROVE  ControlInv'
<1>1. PendingTarget(op[o]) \notin {"New", "Pending", "Claimed"}
  BY DEF PendingTarget
<1>2. QED
  BY <1>1 DEF LocalTypes, ControlInv, EndPending, Become, SetOp

LEMMA OwnerControl ==
    ASSUME LocalTypes, ControlInv, NEW o \in Owners, OwnerNext(o)
    PROVE  ControlInv'
<1>1. CASE ReadBeforeClaim(o)
  <2>1. CASE Depart(o)
    BY <2>1, LeaveControl
  <2>2. CASE \E p \in {"interruptPending", "expirePending", "claim", "reject"} :
                Enter(o, p)
    <3>1. PICK p \in {"interruptPending", "expirePending", "claim", "reject"} :
             Enter(o, p)
      BY <2>2
    <3>2. lstate'[o] = "Pending" /\ op'[o] = p
      BY <3>1 DEF Enter, Become, SetOp, LocalTypes
    <3>3. \A q \in Owners : q # o => lstate'[q] = lstate[q] /\ op'[q] = op[q]
      BY <3>1 DEF Enter, Become, SetOp, LocalTypes
    <3>4. goal' = goal /\ buf' = buf /\ saved' = saved
      BY <3>1 DEF Enter
    <3>5. buf[o] = 0 /\ saved[o] = 0
      BY <1>1 DEF ReadBeforeClaim, ControlInv
    <3>6. QED
      BY <3>2, <3>3, <3>4, <3>5 DEF ControlInv
  <2>3. QED
    BY <1>1, <2>1, <2>2 DEF ReadBeforeClaim
<1>2. CASE Claim(o)
  <2>1. CASE Depart(o)
    BY <2>1, LeaveControl
  <2>2. CASE ~Depart(o)
    BY <1>2, <2>2 DEF Claim, Become, SetOp, LocalTypes, ControlInv
  <2>3. QED
    BY <2>1, <2>2
<1>3. CASE TerminalizePending(o)
  BY <1>3, LeaveControl, EndPendingControl DEF TerminalizePending
<1>4. CASE BeginExecution(o)
  <2>1. CASE StartTerminalize(o, "Failed")
    BY <1>4, <2>1, StartTerminalizeControl DEF BeginExecution
  <2>2. CASE ~StartTerminalize(o, "Failed")
    BY <1>4, <2>2 DEF BeginExecution, Aim, SetOp, LocalTypes, ControlInv
  <2>3. QED
    BY <2>1, <2>2
<1>5. CASE WriteTokens(o)
  BY <1>5 DEF WriteTokens, SetOp, LocalTypes, ControlInv
<1>6. CASE ProcessStreamItem(o)
  BY <1>6 DEF ProcessStreamItem, SetOp, LocalTypes, ControlInv
<1>7. CASE WriteResponse(o)
  <2>1. CASE Again(o)
    BY <2>1, LeaveControl
  <2>2. CASE Acknowledged(o)
    BY <1>7, <2>2 DEF WriteResponse, Acknowledged, SetOp, LocalTypes, ControlInv
  <2>3. CASE Exhausted(o)
    BY <1>7, <2>3 DEF WriteResponse, Exhausted, SetOp, Aim, LocalTypes, ControlInv
  <2>4. QED
    BY <1>7, <2>1, <2>2, <2>3 DEF WriteResponse
<1>8. CASE ConcludeInference(o)
  <2>1. CASE StartTerminalize(o, "Failed") \/ StartTerminalize(o, "Interrupted")
    BY <1>8, <2>1, StartTerminalizeControl DEF ConcludeInference
  <2>2. CASE ~(StartTerminalize(o, "Failed") \/ StartTerminalize(o, "Interrupted"))
    BY <1>8, <2>2, SMTT(20) DEF ConcludeInference, Aim, SetOp, LocalTypes, ControlInv
  <2>3. QED
    BY <2>1, <2>2
<1>9. CASE FinishWorkspace(o)
  <2>1. lstate[o] = "Streaming"
    BY <1>9 DEF FinishWorkspace, ControlInv
  <2>2. QED
    BY <1>9, <2>1, StartTerminalizeControl, LeaveControl DEF FinishWorkspace
<1>10. CASE FinalizeOwned(o)
  BY <1>10, LeaveControl DEF FinalizeOwned
<1>11. CASE Abort(o)
  BY <1>11, LeaveControl DEF Abort
<1>12. CASE Relinquish(o)
  BY <1>12 DEF Relinquish, ControlInv
<1>13. QED
  BY <1>1, <1>2, <1>3, <1>4, <1>5, <1>6, <1>7, <1>8, <1>9, <1>10, <1>11, <1>12
     DEF OwnerNext

LEMMA ControlStep ==
    ASSUME TypeInv, ControlInv, [Next]_vars
    PROVE  ControlInv'
<1> USE DEF TypeInv
<1>1. CASE \E o \in Owners : OwnerNext(o)
  BY <1>1, OwnerControl
<1>2. CASE Crash
  BY <1>2 DEF Crash, ControlInv, LocalTypes
<1>3. CASE UNCHANGED local
  BY <1>3 DEF local, ControlInv
<1>4. QED
  BY <1>1, <1>2, <1>3 DEF Next, vars, local, SweeperNext, RecoveryScan,
     RecoveryLoadResponse, RevocationScan, SweepWins, SweepFails,
     LatchInterrupt, WithdrawPending, Tick

SameLocal(p) ==
    /\ lstate'[p] = lstate[p] /\ op'[p] = op[p] /\ goal'[p] = goal[p]
    /\ buf'[p] = buf[p] /\ saved'[p] = saved[p]

(* An owner's step touches no other owner's lifecycle. *)
LEMMA OwnerFrame ==
    ASSUME LocalTypes, NEW o \in Owners, OwnerNext(o), NEW p \in Owners, p # o
    PROVE  SameLocal(p)
<1> USE DEF SameLocal, LocalTypes, Become, SetOp, Aim, buffers
<1>1. Depart(o) => SameLocal(p)
  BY DEF Depart
<1>2. Again(o) => SameLocal(p)
  BY DEF Again
<1>3. \A g : StartTerminalize(o, g) => SameLocal(p)
  BY DEF StartTerminalize
<1>4. CASE ReadBeforeClaim(o)
  BY <1>1, <1>4 DEF ReadBeforeClaim, Enter
<1>5. CASE Claim(o)
  BY <1>1, <1>5 DEF Claim
<1>6. CASE TerminalizePending(o)
  BY <1>1, <1>2, <1>6 DEF TerminalizePending, EndPending, GiveUp
<1>7. CASE BeginExecution(o)
  BY <1>3, <1>7 DEF BeginExecution
<1>8. CASE WriteTokens(o) \/ ProcessStreamItem(o)
  BY <1>8 DEF WriteTokens, ProcessStreamItem
<1>9. CASE WriteResponse(o)
  <2>1. Acknowledged(o) \/ Exhausted(o) => SameLocal(p)
    BY DEF Acknowledged, Exhausted
  <2>2. QED
    BY <1>2, <1>9, <2>1 DEF WriteResponse
<1>10. CASE ConcludeInference(o) \/ FinishWorkspace(o)
  BY <1>1, <1>3, <1>10 DEF ConcludeInference, FinishWorkspace
<1>11. CASE FinalizeOwned(o)
  BY <1>1, <1>2, <1>11 DEF FinalizeOwned, Settle, GiveUp
<1>12. CASE Abort(o) \/ Relinquish(o)
  BY <1>1, <1>12 DEF Abort, Relinquish
<1>13. QED
  BY <1>4, <1>5, <1>6, <1>7, <1>8, <1>9, <1>10, <1>11, <1>12 DEF OwnerNext

(* What TailInv reads of the two rows. *)
KeepsTail ==
    /\ req'.state \in {"Processing", "Completed"} => req'.state = req.state
    /\ req'.state \in {"Processing", "Completed"} =>
          req'.gen = req.gen /\ resp'.content = resp.content

(* No step of a sweeper, of the environment or of a pending writer writes  *)
(* a tail, starts an execution or completes one.                           *)
LEMMA OtherWritesKeepTail ==
    ASSUME TypeInv, CompletionsAreRead,
           \/ UNCHANGED durable
           \/ LatchWrite
           \/ RejectWrite
           \/ \E outcome \in Terminal \ {"Completed"} : PendingWrite(outcome)
           \/ \E o \in Owners : ClaimWrite(o) \/ RelinquishWrite(o)
           \/ \E s \in Sweepers : SweepWrite(s)
    PROVE  KeepsTail
<1> USE DEF TypeInv, KeepsTail
<1>1. CASE UNCHANGED durable
  BY <1>1 DEF durable
<1>2. CASE LatchWrite
  BY <1>2 DEF LatchWrite, SharedTypes, Requests
<1>3. CASE RejectWrite
  BY <1>3 DEF RejectWrite, SharedTypes, Requests
<1>4. CASE \E outcome \in Terminal \ {"Completed"} : PendingWrite(outcome)
  BY <1>4 DEF PendingWrite, SharedTypes, Requests, Terminal
<1>5. CASE \E o \in Owners : ClaimWrite(o) \/ RelinquishWrite(o)
  BY <1>5 DEF ClaimWrite, RelinquishWrite, SharedTypes, Requests
<1>6. ASSUME NEW s \in Sweepers, SweepWrite(s)
      PROVE  KeepsTail
  <2>1. req'.state = EffectiveOutcome(scan[s].outcome)
    BY <1>6, TerminalWriteState DEF SweepWrite
  <2>2. scan[s].outcome # "Completed"
    BY <1>6 DEF SweepWrite, SweepMayFinalize, CompletionsAreRead, Terminal
  <2>3. scan[s].outcome \in Terminal
    BY DEF SharedTypes, Scans
  <2>4. req'.state \notin {"Processing", "Completed"}
    BY <2>1, <2>2, <2>3 DEF EffectiveOutcome, Terminal
  <2>5. QED
    BY <2>4
<1>7. QED
  BY <1>1, <1>2, <1>3, <1>4, <1>5, <1>6

LEMMA OtherStepsKeepTail ==
    ASSUME TypeInv, CompletionsAreRead, TailInv, KeepsTail,
           UNCHANGED local \/ Crash
    PROVE  TailInv'
<1>1. CASE UNCHANGED local
  BY <1>1 DEF local, TailInv, TailMatches, KeepsTail
<1>2. CASE Crash
  BY <1>2 DEF Crash, TailInv, TailMatches, KeepsTail, TypeInv, LocalTypes
<1>3. QED
  BY <1>1, <1>2

(* An owner's fenced write leaves the row with that owner. *)
LEMMA FencedWriteKeepsOwner ==
    ASSUME TypeInv, NEW o \in Owners, ResponseWrite(o) \/ OwnerTerminalWrite(o)
    PROVE  req.gen = o /\ req'.gen = o
<1> USE DEF TypeInv
<1>1. CASE ResponseWrite(o)
  BY <1>1 DEF ResponseWrite, AuthorizeLive, LiveGeneration, Renewed,
     SharedTypes, Requests
<1>2. CASE OwnerTerminalWrite(o)
  BY <1>2, TerminalWriteState DEF OwnerTerminalWrite, OwnerMayFinalize,
     AuthorizeLive, LiveGeneration
<1>3. QED
  BY <1>1, <1>2

(* The lifecycle of the owner that is not executing is left alone. *)
LEMMA OtherOwnersTail ==
    ASSUME TypeInv, CompletionsAreRead, TailInv, NEW o \in Owners,
           OwnerNext(o), req'.gen # o
    PROVE  TailInv'
<1> USE DEF TypeInv
<1>1. OwnerWrite(o)
  BY OwnerStepIsOwnerWrite
<1>2. KeepsTail
  BY <1>1, OtherWritesKeepTail, FencedWriteKeepsOwner DEF OwnerWrite
<1>3. \A p \in Owners : p # o => SameLocal(p)
  BY OwnerFrame
<1>4. ASSUME NEW p \in Owners, req'.gen = p, req'.state = "Processing",
             lstate'[p] = "Streaming"
      PROVE  TailMatches(p)'
  <2>1. SameLocal(p)
    BY <1>3, <1>4
  <2>2. req.gen = p /\ req.state = "Processing" /\ resp'.content = resp.content
    BY <1>2, <1>4 DEF KeepsTail
  <2>3. TailMatches(p)
    BY <1>4, <2>1, <2>2 DEF SameLocal, TailInv
  <2>4. QED
    BY <2>1, <2>2, <2>3 DEF SameLocal, TailMatches
<1>5. ASSUME req'.state = "Completed"
      PROVE  /\ req'.gen \in Owners
             /\ resp'.content = buf'[req'.gen]
             /\ lstate'[req'.gen] = "Streaming" => op'[req'.gen] = "final"
  <2>1. /\ req.state = "Completed" /\ req'.gen = req.gen
        /\ resp'.content = resp.content
    BY <1>2, <1>5 DEF KeepsTail
  <2>2. req.gen \in Owners
    BY <2>1 DEF TailInv
  <2>3. SameLocal(req.gen)
    BY <1>3, <2>1, <2>2
  <2>4. QED
    BY <2>1, <2>2, <2>3 DEF SameLocal, TailInv
<1>6. QED
  BY <1>4, <1>5 DEF TailInv

(* What an owner may do to its own buffers without an acknowledged write. *)
QuietStep(o) ==
    /\ lstate'[o] = "Streaming" =>
          /\ lstate[o] = "Streaming"
          /\ saved'[o] = saved[o]
          /\ op[o] = "final" => op'[o] = "final"
          /\ op'[o] \in {"idle", "advance", "workspace"} =>
                op[o] \in {"idle", "advance", "workspace"}
          /\ op'[o] = "final" /\ goal'[o] = "Completed" =>
                \/ op[o] = "final" /\ goal[o] = "Completed"
                \/ op[o] = "workspace" /\ buf[o] = saved[o]
          /\ op'[o] = "final" => buf'[o] = buf[o]
    /\ \/ buf'[o] = buf[o]
       \/ lstate[o] = "Streaming" /\ op[o] # "final"

LEMMA LeavingIsQuiet ==
    ASSUME TypeInv, NEW o \in Owners,
           Depart(o) \/ Again(o) \/ GiveUp(o) \/ (op[o] = "final" /\ Settle(o))
    PROVE  QuietStep(o)
<1> USE DEF TypeInv, LocalTypes, QuietStep, Become, SetOp, Aim, buffers
<1>1. CASE Depart(o) \/ GiveUp(o)
  BY <1>1 DEF Depart, GiveUp
<1>2. CASE Again(o)
  BY <1>2 DEF Again
<1>3. CASE Settle(o)
  <2>1. Outcome(goal[o]) # "Streaming"
    BY DEF Outcome, Goal
  <2>2. QED
    BY <1>3, <2>1 DEF Settle
<1>4. QED
  BY <1>1, <1>2, <1>3

LEMMA StartTerminalizeIsQuiet ==
    ASSUME TypeInv, NEW o \in Owners, NEW g, StartTerminalize(o, g),
           op[o] # "final", g = "Completed" => op[o] = "workspace"
    PROVE  QuietStep(o)
BY DEF TypeInv, LocalTypes, QuietStep, StartTerminalize, SetOp, Aim

LEMMA OwnerIsQuiet ==
    ASSUME TypeInv, ControlInv, NEW o \in Owners, OwnerNext(o),
           ~(WriteResponse(o) /\ ResponseWrite(o))
    PROVE  QuietStep(o)
<1> USE DEF TypeInv
<1>1. CASE ReadBeforeClaim(o)
  <2>1. CASE Depart(o)
    BY <2>1, LeavingIsQuiet
  <2>2. CASE \E p \in {"interruptPending", "expirePending", "claim", "reject"} :
                Enter(o, p)
    BY <2>2 DEF Enter, Become, LocalTypes, QuietStep
  <2>3. QED
    BY <1>1, <2>1, <2>2 DEF ReadBeforeClaim
<1>2. CASE Claim(o)
  <2>1. CASE Depart(o)
    BY <2>1, LeavingIsQuiet
  <2>2. lstate[o] = "Pending"
    BY <1>2 DEF Claim, ControlInv
  <2>3. CASE ~Depart(o)
    BY <1>2, <2>2, <2>3 DEF Claim, Become, LocalTypes, QuietStep
  <2>4. QED
    BY <2>1, <2>3
<1>3. CASE TerminalizePending(o)
  <2>1. CASE EndPending(o, PendingTarget(op[o]))
    <3>1. PendingTarget(op[o]) # "Streaming"
      BY <1>3 DEF TerminalizePending, PendingTarget
    <3>2. QED
      BY <2>1, <3>1 DEF EndPending, Become, LocalTypes, QuietStep
  <2>2. QED
    BY <1>3, <2>1, LeavingIsQuiet DEF TerminalizePending
<1>4. CASE BeginExecution(o)
  BY <1>4 DEF BeginExecution, StartTerminalize, LocalTypes, QuietStep
<1>5. CASE WriteTokens(o)
  BY <1>5 DEF WriteTokens, SetOp, LocalTypes, QuietStep
<1>6. CASE ProcessStreamItem(o)
  BY <1>6 DEF ProcessStreamItem, SetOp, LocalTypes, QuietStep
<1>7. CASE WriteResponse(o)
  <2>1. CASE Again(o)
    BY <2>1, LeavingIsQuiet
  <2>2. CASE Exhausted(o)
    BY <1>7, <2>2 DEF WriteResponse, Exhausted, SetOp, Aim, LocalTypes, QuietStep
  <2>3. QED
    BY <1>7, <2>1, <2>2 DEF WriteResponse
<1>8. CASE ConcludeInference(o)
  <2>1. CASE StartTerminalize(o, "Failed") \/ StartTerminalize(o, "Interrupted")
    BY <1>8, <2>1, StartTerminalizeIsQuiet DEF ConcludeInference
  <2>2. CASE ~(StartTerminalize(o, "Failed") \/ StartTerminalize(o, "Interrupted"))
    BY <1>8, <2>2 DEF ConcludeInference, Aim, SetOp, LocalTypes, QuietStep
  <2>3. QED
    BY <2>1, <2>2
<1>9. CASE FinishWorkspace(o)
  BY <1>9, LeavingIsQuiet, StartTerminalizeIsQuiet DEF FinishWorkspace
<1>10. CASE FinalizeOwned(o)
  BY <1>10, LeavingIsQuiet DEF FinalizeOwned
<1>11. CASE Abort(o)
  BY <1>11, LeavingIsQuiet DEF Abort
<1>12. CASE Relinquish(o)
  BY <1>12 DEF Relinquish, QuietStep
<1>13. QED
  BY <1>1, <1>2, <1>3, <1>4, <1>5, <1>6, <1>7, <1>8, <1>9, <1>10, <1>11, <1>12
     DEF OwnerNext

(* A tail write leaves the row processing, with the content it carries. *)
LEMMA ResponseWriteTail ==
    ASSUME TypeInv, NEW o \in Owners, ResponseWrite(o)
    PROVE  /\ req'.state = "Processing"
           /\ op[o] # "begin" => req.state = "Processing"
           /\ op[o] = "advance" => resp'.content = resp.content
           /\ op[o] \in {"begin", "reset"} => resp'.content = 0
           /\ op[o] \in {"flush", "finalFlush"} => resp'.content = buf[o]
<1> USE DEF TypeInv
<1>1. /\ op[o] # "begin" => req.state = "Processing"
      /\ op[o] \in {"begin", "flush", "finalFlush", "advance", "reset"}
  BY DEF ResponseWrite, AuthorizeLive, FenceOf, ProcessingPair
<1>2. req'.state = "Processing"
  BY <1>1 DEF ResponseWrite, Renewed, SharedTypes, Requests
<1>3. op[o] = "advance" => resp'.content = resp.content
  BY DEF ResponseWrite
<1>4. op[o] \in {"begin", "reset"} => resp'.content = 0
  BY DEF ResponseWrite, SharedTypes, Responses
<1>5. op[o] \in {"flush", "finalFlush"} => resp'.content = buf[o]
  BY DEF ResponseWrite, SharedTypes, Responses
<1>6. QED
  BY <1>1, <1>2, <1>3, <1>4, <1>5

(* An owner that completes its request had everything saved. *)
LEMMA OwnerCompletionTail ==
    ASSUME TypeInv, ControlInv, TailInv, NEW o \in Owners, OwnerTerminalWrite(o),
           op[o] = "final", req'.state = "Completed"
    PROVE  resp'.content = buf[o]
<1> USE DEF TypeInv
<1>1. OwnerOutcome(o) = "Completed"
  BY TerminalWriteState DEF OwnerTerminalWrite
<1>2. goal[o] = "Completed"
  BY <1>1 DEF OwnerOutcome, EffectiveOutcome, Outcome
<1>3. lstate[o] = "Streaming"
  BY <1>2 DEF ControlInv
<1>4. req.gen = o /\ req.state = "Processing"
  BY <1>1 DEF OwnerTerminalWrite, OwnerMayFinalize, FinalFence, AuthorizeLive,
     LiveGeneration, ProcessingPair
<1>5. resp.content = buf[o]
  BY <1>2, <1>3, <1>4 DEF TailInv, TailMatches
<1>6. QED
  BY <1>5 DEF OwnerTerminalWrite, TerminalWrite, SharedTypes, Responses

LEMMA OwnTail ==
    ASSUME TypeInv, ControlInv, CompletionsAreRead, TailInv, NEW o \in Owners,
           OwnerNext(o), req'.gen = o
    PROVE  TailInv'
<1> DEFINE Matches == req'.state = "Processing" /\ lstate'[o] = "Streaming" =>
                         TailMatches(o)'
           Whole == req'.state = "Completed" =>
                       /\ resp'.content = buf'[o]
                       /\ lstate'[o] = "Streaming" => op'[o] = "final"
<1> USE DEF TypeInv
<1>1. SUFFICES Matches /\ Whole
  BY DEF TailInv
<1>2. CASE WriteResponse(o) /\ ResponseWrite(o)
  <2>1. Whole
    BY <1>2, ResponseWriteTail
  <2>2. CASE Acknowledged(o)
    <3>1. op[o] = "begin" => buf[o] = 0 /\ saved[o] = 0
      BY DEF ControlInv
    <3>2. req.state = "Processing" /\ lstate[o] = "Streaming" /\ op[o] = "advance"
             => resp.content = saved[o]
      BY <1>2, FencedWriteKeepsOwner DEF TailInv, TailMatches
    <3>3. op[o] # "begin" => lstate[o] = "Streaming"
      BY <1>2 DEF ControlInv, WriteResponse
    <3>4. Matches
      BY <1>2, <2>2, <3>1, <3>2, <3>3, ResponseWriteTail
         DEF WriteResponse, Acknowledged, SetOp, LocalTypes, TailMatches
    <3>5. QED
      BY <2>1, <3>4
  <2>3. CASE Again(o)
    <3>1. op[o] = "begin" => lstate[o] # "Streaming"
      BY DEF ControlInv
    <3>2. Matches
      BY <1>2, <2>3, <3>1, ResponseWriteTail, FencedWriteKeepsOwner
         DEF WriteResponse, Again, TailInv, TailMatches
    <3>3. QED
      BY <2>1, <3>2
  <2>4. CASE Exhausted(o)
    <3>1. op'[o] \in {"final", "broken"} /\ (op'[o] = "final" => goal'[o] # "Completed")
      BY <1>2, <2>4 DEF WriteResponse, Exhausted, SetOp, Aim, LocalTypes
    <3>2. QED
      BY <2>1, <3>1 DEF TailMatches
  <2>5. QED
    BY <1>2, <2>2, <2>3, <2>4 DEF WriteResponse
<1>3. CASE ~(WriteResponse(o) /\ ResponseWrite(o))
  <2>1. QuietStep(o)
    BY <1>3, OwnerIsQuiet
  <2>2. CASE OwnerTerminalWrite(o)
    <3>1. req'.state # "Processing"
      BY <2>2, TerminalWriteState, OwnerOutcomeIsTerminal
         DEF OwnerTerminalWrite, Terminal
    <3>2. Whole
      BY <2>1, <2>2, OwnerCompletionTail DEF OwnerTerminalWrite, QuietStep
    <3>3. QED
      BY <3>1, <3>2
  <2>3. CASE ~OwnerTerminalWrite(o)
    <3>1. KeepsTail
      BY <1>3, <2>3, OwnerStepIsOwnerWrite, OtherWritesKeepTail DEF OwnerWrite
    <3>2. Matches
      BY <2>1, <3>1 DEF QuietStep, KeepsTail, TailInv, TailMatches
    <3>3. Whole
      BY <2>1, <3>1 DEF QuietStep, KeepsTail, TailInv
    <3>4. QED
      BY <3>2, <3>3
  <2>4. QED
    BY <2>2, <2>3
<1>4. QED
  BY <1>2, <1>3

LEMMA TailStep ==
    ASSUME TypeInv, ControlInv, CompletionsAreRead, TailInv, [Next]_vars
    PROVE  TailInv'
<1> USE DEF TypeInv
<1>1. CASE \E o \in Owners : OwnerNext(o)
  BY <1>1, OwnTail, OtherOwnersTail
<1>2. CASE ~\E o \in Owners : OwnerNext(o)
  <2>1. UNCHANGED local \/ Crash
    BY <1>2 DEF Next, vars, local, SweeperNext, RecoveryScan,
       RecoveryLoadResponse, RevocationScan, SweepWins, SweepFails,
       LatchInterrupt, WithdrawPending, Tick
  <2>2. KeepsTail
    <3>1. CASE \E s \in Sweepers : SweeperNext(s)
      <4>1. UNCHANGED durable \/ \E s \in Sweepers : SweepWrite(s)
        BY <3>1 DEF SweeperNext, RecoveryScan, RecoveryLoadResponse,
           RevocationScan, SweepWins, SweepFails, durable
      <4>2. QED
        BY <4>1, OtherWritesKeepTail
    <3>2. CASE LatchInterrupt
      BY <3>2, OtherWritesKeepTail DEF LatchInterrupt, LatchWrite
    <3>3. CASE WithdrawPending
      BY <3>3, OtherWritesKeepTail DEF WithdrawPending, Terminal
    <3>4. CASE Crash \/ Tick \/ UNCHANGED vars
      BY <3>4, OtherWritesKeepTail DEF Crash, Tick, vars, durable
    <3>5. QED
      BY <1>2, <3>1, <3>2, <3>3, <3>4 DEF Next
  <2>3. QED
    BY <2>1, <2>2, OtherStepsKeepTail
<1>3. QED
  BY <1>1, <1>2

(* A completed request stores everything its owner streamed: the final     *)
(* flush of terminalize_owned is never skipped, overtaken or undone.       *)
THEOREM CompletedTailIsStored == Spec => []CompletedTailIsDurable
<1> DEFINE IInv == /\ TypeInv /\ PairCoherent /\ CompletionsAreRead
                   /\ ControlInv /\ TailInv
<1>1. Init => IInv
  <2>1. Init => CompletionsAreRead
    BY DEF Init, CompletionsAreRead, NoScan
  <2>2. Init => ControlInv
    BY DEF Init, ControlInv
  <2>3. Init => TailInv
    <3>1. Init => req.state = "Pending"
      BY SMTT(20) DEF Init
    <3>2. QED
      BY <3>1 DEF TailInv
  <2>4. QED
    BY <2>1, <2>2, <2>3, TypeInit, CoherentInit
<1>2. IInv /\ [Next]_vars => IInv'
  BY TypeStep, StepIsDurableStep, CoherentStep, CompletionsStep, ControlStep,
     TailStep
<1>3. IInv => CompletedTailIsDurable
  BY DEF TailInv, CompletedTailIsDurable
<1>4. QED
  BY <1>1, <1>2, <1>3, PTL DEF Spec

-----------------------------------------------------------------------------
(* What a lifecycle believes *)

(* The outcome owner o holds locally is the one that is stored. *)
Believes(o) ==
    /\ lstate[o] = "Completed" => req.state = "Completed" /\ req.gen = o
    /\ lstate[o] = "Failed" => req.state \in {"Failed", "Interrupted"}
    /\ lstate[o] = "Interrupted" => req.state = "Interrupted"
    /\ lstate[o] = "Dead" => req.state = "Dead"

EndedLocally == {"Completed", "Failed", "Interrupted", "Dead"}

(* A lifecycle settles on what it wrote, or found written under its own    *)
(* generation.                                                             *)
LEMMA SettleBelieves ==
    ASSUME TypeInv, NEW o \in Owners, op[o] = "final", Settle(o),
           \/ TerminalWrite(OwnerOutcome(o), o)
           \/ UNCHANGED durable /\ AlreadySame(o)
    PROVE  Believes(o)'
<1> USE DEF TypeInv
<1>1. goal[o] \in {"Completed", "Failed", "Interrupted", "Unflushed"}
  BY DEF LocalTypes, Decided, Goal
<1>2. lstate'[o] = Outcome(goal[o])
  BY DEF Settle, Become, LocalTypes
<1>3. req'.state = OwnerOutcome(o) /\ req'.gen = o
  BY TerminalWriteState DEF AlreadySame, durable
<1>4. QED
  BY <1>1, <1>2, <1>3 DEF Believes, OwnerOutcome, EffectiveOutcome, Outcome

(* A request that ends before its claim ends in the state its owner        *)
(* wanted, or already found there.                                         *)
LEMMA EndPendingBelieves ==
    ASSUME TypeInv, NEW o \in Owners,
           op[o] \in {"interruptPending", "expirePending", "reject"},
           EndPending(o, PendingTarget(op[o])),
           PendingOwnerWrite(o) \/ (UNCHANGED durable /\ AlreadyThere(o))
    PROVE  Believes(o)'
<1> USE DEF TypeInv
<1>1. lstate'[o] = PendingTarget(op[o])
  BY DEF EndPending, Become, LocalTypes
<1>2. req'.state = PendingTarget(op[o])
  BY DEF PendingOwnerWrite, RejectWrite, PendingWrite, PendingTarget, AlreadyThere,
     durable, SharedTypes, Requests
<1>3. QED
  BY <1>1, <1>2 DEF Believes, PendingTarget

(* Any other step of an owner leaves its local state, or takes it to one   *)
(* that claims no outcome.                                                 *)
LEMMA OwnerBelieves ==
    ASSUME TypeInv, NEW o \in Owners, OwnerNext(o)
    PROVE  \/ lstate'[o] = lstate[o]
           \/ lstate'[o] \notin EndedLocally
           \/ Believes(o)'
<1> USE DEF TypeInv
<1> DEFINE Kept == lstate'[o] = lstate[o] \/ lstate'[o] \notin EndedLocally
<1>1. Depart(o) \/ Again(o) \/ GiveUp(o) => Kept
  BY DEF Depart, Again, GiveUp, Become, LocalTypes, EndedLocally
<1>2. ASSUME NEW g, StartTerminalize(o, g) PROVE Kept
  BY <1>2 DEF StartTerminalize
<1>3. CASE ReadBeforeClaim(o)
  BY <1>1, <1>3 DEF ReadBeforeClaim, Enter, Become, LocalTypes, EndedLocally
<1>4. CASE Claim(o)
  BY <1>1, <1>4 DEF Claim, Become, LocalTypes, EndedLocally
<1>5. CASE TerminalizePending(o)
  BY <1>1, <1>5, EndPendingBelieves DEF TerminalizePending
<1>6. CASE BeginExecution(o) \/ WriteTokens(o) \/ ProcessStreamItem(o)
  BY <1>2, <1>6 DEF BeginExecution, WriteTokens, ProcessStreamItem
<1>7. CASE WriteResponse(o)
  <2>1. Acknowledged(o) \/ Exhausted(o) => Kept
    BY DEF Acknowledged, Exhausted, LocalTypes, EndedLocally
  <2>2. QED
    BY <1>1, <1>7, <2>1 DEF WriteResponse
<1>8. CASE ConcludeInference(o)
  BY <1>2, <1>8 DEF ConcludeInference
<1>9. CASE FinishWorkspace(o)
  BY <1>1, <1>2, <1>9 DEF FinishWorkspace
<1>10. CASE FinalizeOwned(o)
  <2>1. Again(o) \/ GiveUp(o) \/ Depart(o) \/ Settle(o)
    BY <1>10 DEF FinalizeOwned
  <2>2. CASE Settle(o) /\ ~(Again(o) \/ GiveUp(o) \/ Depart(o))
    BY <1>10, <2>2, SettleBelieves DEF FinalizeOwned
  <2>3. QED
    BY <1>1, <2>1, <2>2
<1>11. CASE Abort(o) \/ Relinquish(o)
  BY <1>1, <1>11 DEF Abort, Relinquish
<1>12. QED
  BY <1>3, <1>4, <1>5, <1>6, <1>7, <1>8, <1>9, <1>10, <1>11 DEF OwnerNext

(* What an owner believes stays true: the request it is about has ended.   *)
LEMMA BeliefStays ==
    ASSUME TypeInv, [Next]_vars, NEW o \in Owners, Believes(o),
           lstate'[o] = lstate[o] \/ lstate'[o] \notin EndedLocally
    PROVE  Believes(o)'
<1>1. CASE lstate'[o] \notin EndedLocally
  BY <1>1 DEF Believes, EndedLocally
<1>2. CASE lstate'[o] = lstate[o] /\ lstate[o] \in EndedLocally
  <2>1. req.state \in Terminal
    BY <1>2 DEF Believes, EndedLocally, Terminal
  <2>2. req'.state = req.state /\ req'.gen = req.gen
    BY <2>1, StepIsDurableStep, WritesNeedUnended
       DEF durable, LatchWrite, TypeInv, SharedTypes, Requests
  <2>3. QED
    BY <1>2, <2>2 DEF Believes
<1>3. QED
  BY <1>1, <1>2

LEMMA BeliefStep ==
    ASSUME TypeInv, [Next]_vars, \A o \in Owners : Believes(o)
    PROVE  \A o \in Owners : Believes(o)'
<1> SUFFICES ASSUME NEW p \in Owners PROVE Believes(p)'
  OBVIOUS
<1>1. CASE \E o \in Owners : OwnerNext(o)
  <2>1. PICK o \in Owners : OwnerNext(o)
    BY <1>1
  <2>2. CASE p = o
    BY <2>1, <2>2, OwnerBelieves, BeliefStays
  <2>3. CASE p # o
    <3>1. lstate'[p] = lstate[p]
      BY <2>1, <2>3, OwnerFrame DEF TypeInv, SameLocal
    <3>2. QED
      BY <3>1, BeliefStays
  <2>4. QED
    BY <2>2, <2>3
<1>2. CASE UNCHANGED local \/ Crash
  <2>1. lstate'[p] = lstate[p] \/ lstate'[p] \notin EndedLocally
    BY <1>2 DEF local, Crash, EndedLocally
  <2>2. QED
    BY <2>1, BeliefStays
<1>3. QED
  BY <1>1, <1>2 DEF Next, vars, local, SweeperNext, RecoveryScan,
     RecoveryLoadResponse, RevocationScan, SweepWins, SweepFails,
     LatchInterrupt, WithdrawPending, Tick

(* What a lifecycle believes when it stops is what is stored, for any      *)
(* number of owners and sweepers, through ambiguous commits and retries.   *)
THEOREM BeliefIsStored == Spec => []LocalOutcomeIsDurable
<1> DEFINE IInv == TypeInv /\ \A o \in Owners : Believes(o)
<1>1. Init => IInv
  BY TypeInit DEF Init, Believes
<1>2. IInv /\ [Next]_vars => IInv'
  BY TypeStep, BeliefStep
<1>3. IInv => LocalOutcomeIsDurable
  BY DEF Believes, LocalOutcomeIsDurable
<1>4. QED
  BY <1>1, <1>2, <1>3, PTL DEF Spec

-----------------------------------------------------------------------------
(* A renewed lease looks different *)

(* What a write may do to the lease of an active request. *)
LeaseMoves ==
    /\ req'.gen = req.gen
    /\ req'.seq >= req.seq
    /\ req'.seq > req.seq => Millis(req'.expiry) > Millis(req.expiry)
    /\ req'.expiry < req.expiry => relinquish' # relinquish

(* A fenced write under the owner's live generation: only the progress     *)
(* writes touch the lease, and the fence demands a later millisecond.      *)
LEMMA FencedWriteMovesLease ==
    ASSUME TypeInv, NEW o \in Owners, ResponseWrite(o)
    PROVE  LeaseMoves
<1> USE DEF TypeInv
<1>0. /\ now \in Nat /\ req.expiry \in Int /\ req.seq \in Nat
      /\ TicksPerMs \in Nat \ {0} /\ Lease \in Nat \ {0}
  BY TimeAssumption DEF SharedTypes, Requests, Times
<1>1. CASE op[o] \in {"flush", "finalFlush", "advance"}
  <2>1. req' = [req EXCEPT !.expiry = NewDeadline, !.seq = req.seq + 1]
    BY <1>1 DEF ResponseWrite, Renewed
  <2>2. Millis(req.expiry) < Millis(NewDeadline)
    BY <1>1 DEF ResponseWrite, AuthorizeLive, FenceOf
  <2>3. NewDeadline >= req.expiry + TicksPerMs /\ NewDeadline \in Int
    BY <1>0 DEF NewDeadline
  <2>4. req'.gen = req.gen /\ req'.seq = req.seq + 1 /\ req'.expiry = NewDeadline
    BY <2>1 DEF SharedTypes, Requests
  <2>5. Millis(req.expiry) \in Int /\ Millis(NewDeadline) \in Int
    BY <1>0, <2>3 DEF Millis
  <2>6. Millis(req'.expiry) = Millis(NewDeadline)
    BY <2>4 DEF Millis
  <2>7. ~(req'.expiry < req.expiry)
    BY <1>0, <2>3, <2>4
  <2>8. req'.seq >= req.seq
    BY <1>0, <2>4
  <2>9. QED
    BY <2>2, <2>4, <2>5, <2>6, <2>7, <2>8 DEF LeaseMoves
<1>2. CASE op[o] \in {"begin", "reset"}
  <2>1. req'.gen = req.gen /\ req'.seq = req.seq /\ req'.expiry = req.expiry
    BY <1>2 DEF ResponseWrite, SharedTypes, Requests
  <2>2. QED
    BY <1>0, <2>1 DEF LeaseMoves
<1>3. QED
  BY <1>1, <1>2 DEF ResponseWrite

LEMMA LeaseStep ==
    ASSUME TypeInv, [Next]_vars, req.state \in Active, req'.state \in Active
    PROVE  LeaseMoves
<1> USE DEF TypeInv
<1>0. req.expiry \in Int /\ req.seq \in Nat
  BY DEF SharedTypes, Requests, Times
<1>1. CASE req'.gen = req.gen /\ req'.seq = req.seq /\ req'.expiry = req.expiry
  BY <1>0, <1>1 DEF LeaseMoves
<1>2. CASE UNCHANGED durable \/ LatchWrite
  BY <1>1, <1>2 DEF durable, LatchWrite, SharedTypes, Requests
<1>3. CASE \E o \in Owners : ResponseWrite(o)
  BY <1>3, FencedWriteMovesLease
<1>4. ASSUME NEW o \in Owners, Relinquish(o), RelinquishWrite(o)
      PROVE  LeaseMoves
  <2>1. relinquish' # relinquish
    BY <1>4 DEF Relinquish
  <2>2. req'.gen = req.gen /\ req'.seq = req.seq
    BY <1>4 DEF RelinquishWrite, SharedTypes, Requests
  <2>3. QED
    BY <1>0, <2>1, <2>2 DEF LeaseMoves
<1>5. req.state # "Pending"
  BY DEF Active
<1>6. ASSUME NEW o \in Owners, OwnerTerminalWrite(o) PROVE FALSE
  BY <1>6, OwnerOutcomeIsTerminal, TerminalWriteState DEF OwnerTerminalWrite, Terminal, Active
<1>7. ASSUME NEW s \in Sweepers, SweepWrite(s) PROVE FALSE
  <2>1. EffectiveOutcome(scan[s].outcome) \in Terminal
    BY EffectiveIsTerminal DEF SharedTypes, Scans
  <2>2. QED
    BY <1>7, <2>1, TerminalWriteState DEF SweepWrite, Terminal, Active
<1>8. CASE \E o \in Owners : OwnerNext(o)
  <2>1. PICK o \in Owners : OwnerNext(o)
    BY <1>8
  <2>2. OwnerWrite(o)
    BY <2>1, OwnerStepIsOwnerWrite
  <2>3. QED
    BY <1>2, <1>3, <1>4, <1>5, <1>6, <2>2
       DEF OwnerWrite, ClaimWrite, RejectWrite, PendingWrite
<1>9. CASE \E s \in Sweepers : SweeperNext(s)
  <2>1. UNCHANGED durable \/ \E s \in Sweepers : SweepWrite(s)
    BY <1>9 DEF SweeperNext, RecoveryScan, RecoveryLoadResponse, RevocationScan,
       SweepWins, SweepFails, durable
  <2>2. QED
    BY <1>2, <1>7, <2>1
<1>10. CASE LatchInterrupt
  BY <1>2, <1>10 DEF LatchInterrupt, LatchWrite
<1>11. CASE WithdrawPending
  BY <1>5, <1>11 DEF WithdrawPending, PendingWrite
<1>12. CASE Crash \/ Tick \/ UNCHANGED vars
  BY <1>2, <1>12 DEF Crash, Tick, vars, durable
<1>13. QED
  BY <1>8, <1>9, <1>10, <1>11, <1>12 DEF Next

(* A lease moves forward under one owner, by a visible millisecond with    *)
(* each renewal, unless the owner gave it up: what recovery and revocation *)
(* compare never takes an earlier value again.                             *)
THEOREM RenewalsShow == Spec => RenewalIsVisible
<1>1. TypeInv /\ [Next]_vars =>
          [(req.state \in Active /\ req'.state \in Active) =>
              /\ req'.gen = req.gen
              /\ req'.seq >= req.seq
              /\ req'.seq > req.seq => Millis(req'.expiry) > Millis(req.expiry)
              /\ req'.expiry < req.expiry => relinquish' # relinquish]_vars
  BY LeaseStep DEF LeaseMoves
<1>2. QED
  BY <1>1, TypeInit, TypeStep, PTL DEF Spec, RenewalIsVisible

=============================================================================
