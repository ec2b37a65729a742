-------------------------- MODULE AdmissionProofs --------------------------
(***************************************************************************)
(* Backend admission, for any calls, configurations and reconciles: the    *)
(* accounting of slots and queue places holds at every controller, one     *)
(* controller at a time has calls at the provider and never more than its  *)
(* limit, the active one has the configuration asked for last, and neither *)
(* a waiter nor a pending configuration is forgotten.  The rows: every     *)
(* behaviour of InferenceCallRows is one of BackendAdmission, published    *)
(* usage is durable, an ended row stays as it ended, and a call is only    *)
(* dispatched on a running row.                                            *)
(***************************************************************************)
EXTENDS AdmissionLemmas, InferenceCallRows, TLAPS

-----------------------------------------------------------------------------
(* The inductive invariant.                                                *)

LEMMA CountInvAccounted ==
    /\ AdmissionInv <=> Types /\ Accounted /\ Governed
    /\ AdmissionInv' <=> Types' /\ Accounted' /\ Governed'
  BY DEF AdmissionInv, CountInv, Accounted, Governed

(* Installations keep the registry's types. *)
LEMMA RegistryTypes ==
    ASSUME Types, UNCHANGED asked, gen' = gen, UNCHANGED <<on, holds>>,
           active' \in {active, None, gen, pending},
           pending' \in {pending, None, gen},
           draining' \subseteq draining \cup ({active} \ {None}),
           step' \in {"idle", "shut", "decide", "fill", "install"},
           ctl' \in [Gens -> IntControllers], phase' \in [Calls -> Phases]
    PROVE  Types'
  BY ConfigAssumption DEF Types, Gens, None

LEMMA NoticesUnchanged == Types /\ UNCHANGED phase => Notices
  BY DEF Types, Notices

LEMMA AdmissionStep == Counting /\ AdmissionInv /\ [Next]_vars => AdmissionInv'
<1> SUFFICES ASSUME Counting, AdmissionInv, [Next]_vars PROVE AdmissionInv'
  OBVIOUS
<1>0. /\ Types /\ Accounted /\ Governed
      /\ Ownership /\ ParkedAccounted /\ CallsAccounted /\ SlotsAccounted
  BY CountInvAccounted DEF Accounted
<1>a. active # None => active \in Gens /\ Installed(active)
  BY <1>0 DEF Types, Gens, None, Governed, Generations
<1>1. ASSUME NEW k \in Configs \cup {Removed}, Reconcile(k) PROVE AdmissionInv'
  <2>1. Governed'
    BY <1>0, <1>1, GovernedReconcile
  <2>2. Accounted' /\ ctl' \in [Gens -> IntControllers]
    <3>1. CASE UNCHANGED ctl
      <4>1. Installs /\ Notices /\ UNCHANGED <<on, holds>>
        BY <1>0, <1>1, <3>1, NoticesUnchanged DEF Installs, Reconcile
      <4> QED
        BY <1>0, <4>1, InstallsAccounted
    <3>2. CASE active # None /\ ctl' = [ctl EXCEPT ![active].closed = TRUE]
      <4>1. active \in Gens /\ UNCHANGED <<phase, on, holds>>
        BY <1>1, <1>a, <3>2 DEF Reconcile
      <4> QED
        BY <1>0, <3>2, <4>1, CloseAccounted
    <3> QED
      BY <1>1, <3>1, <3>2 DEF Reconcile
  <2>3. Types'
    BY <1>0, <1>1, <2>2, ConfigAssumption DEF Types, Reconcile, Gens, Undrained
  <2> QED
    BY <2>1, <2>2, <2>3, CountInvAccounted
<1>2. CASE ShutSemaphore
  <2>1. /\ active \in Gens /\ step = "shut" /\ step' = "decide"
        /\ UNCHANGED <<gen, asked, active, draining, pending, on, holds>>
        /\ ctl' = [ctl EXCEPT ![active].shut = TRUE, ![active].parked = <<>>]
        /\ phase' = [c \in Calls |-> IF c \in Range(ctl[active].parked)
                                     THEN "evicted" ELSE phase[c]]
    BY <1>0, <1>2, <1>a DEF ShutSemaphore, Governed, Generations
  <2>2. /\ Accounted' /\ ctl' \in [Gens -> IntControllers]
        /\ phase' \in [Calls -> Phases]
        /\ \A c \in Calls : phase'[c] \in {phase[c], "evicted"}
        /\ \A g \in Gens : ctl'[g].config = ctl[g].config /\ ctl'[g].closed = ctl[g].closed
    BY <1>0, <2>1, ShutAccounted
  <2>3. Governed'
    BY <1>0, <2>1, <2>2, GovernedShut
  <2>4. Types'
    BY <1>0, <2>1, <2>2 DEF Types
  <2> QED
    BY <2>2, <2>3, <2>4, CountInvAccounted
<1>3. CASE Replace
  <2>1. Governed' /\ Installs
    BY <1>0, <1>3, GovernedReplace
  <2>2. /\ UNCHANGED <<gen, asked, phase, on, holds>> /\ active' \in {None, gen}
        /\ pending' \in {pending, None, gen} /\ step' = "fill"
        /\ draining' \subseteq draining \cup ({active} \ {None})
    BY <1>0, <1>3 DEF Replace, Install, Undrained, Governed, Generations
  <2>3. Accounted' /\ ctl' \in [Gens -> IntControllers]
    BY <1>0, <2>1, <2>2, NoticesUnchanged, InstallsAccounted
  <2>4. Types'
    BY <1>0, <2>2, <2>3, RegistryTypes DEF Types
  <2> QED
    BY <2>1, <2>3, <2>4, CountInvAccounted
<1>4. CASE Fill
  <2>1. Governed' /\ Installs
    BY <1>0, <1>4, GovernedFill
  <2>2. /\ UNCHANGED <<gen, asked, phase, on, holds>> /\ active' \in {active, gen}
        /\ pending' \in {pending, None, gen} /\ step' = "install"
        /\ draining' \subseteq draining
    BY <1>4 DEF Fill, Install, Undrained
  <2>3. Accounted' /\ ctl' \in [Gens -> IntControllers]
    BY <1>0, <2>1, <2>2, NoticesUnchanged, InstallsAccounted
  <2>4. Types'
    BY <1>0, <2>2, <2>3, RegistryTypes DEF Types
  <2> QED
    BY <2>1, <2>3, <2>4, CountInvAccounted
<1>5. CASE FinishReconcile
  <2>1. CASE pending = None
    <3>1. /\ UNCHANGED <<gen, asked, active, draining, pending, ctl, phase, on, holds>>
          /\ step = "install" /\ step' = "idle"
      BY <1>5, <2>1 DEF FinishReconcile
    <3>2. Installs /\ Notices
      BY <1>0, <3>1, NoticesUnchanged DEF Installs
    <3>3. Accounted' /\ Types'
      BY <1>0, <3>1, <3>2, InstallsAccounted DEF Types
    <3>4. Governed'
      BY <1>0, <3>1 DEF Governed, Generations, Handover, Latest, Installed, Available
    <3> QED
      BY <3>3, <3>4, CountInvAccounted
  <2>2. CASE pending # None
    <3>1. /\ InstallPendingIfReady /\ step = "install" /\ step' = "idle"
          /\ UNCHANGED <<gen, phase, on, holds>>
      BY <1>5, <2>2 DEF FinishReconcile
    <3>2. Governed' /\ Installs
      BY <1>0, <3>1, GovernedPending
    <3>3. Accounted' /\ ctl' \in [Gens -> IntControllers]
      BY <1>0, <3>1, <3>2, NoticesUnchanged, InstallsAccounted
    <3>4. Types'
      <4>1. /\ asked' = asked /\ active' \in {active, pending}
            /\ pending' \in {pending, None} /\ draining' \subseteq draining
        BY <3>1 DEF InstallPendingIfReady, Install, Undrained
      <4> QED
        BY <1>0, <3>1, <3>3, <4>1, RegistryTypes DEF Types
    <3> QED
      BY <3>2, <3>3, <3>4, CountInvAccounted
  <2> QED
    BY <2>1, <2>2
<1>6. ASSUME NEW c \in Calls, Notify(c) PROVE AdmissionInv'
  <2>1. /\ InstallPendingIfReady /\ step = "idle" /\ step' = "idle"
        /\ UNCHANGED <<gen, on, holds>> /\ phase[c] = "notifying"
        /\ Go(c, Left(c))
    BY <1>6 DEF Notify
  <2>2. Notices /\ \A d \in Calls : phase'[d] \in Admissible => phase[d] \in Admissible
    BY <1>0, <2>1 DEF Go, Left, Notices, Types, Phases, Admissible
  <2>3. Governed' /\ Installs
    BY <1>0, <2>1, <2>2, GovernedPending
  <2>4. Accounted' /\ ctl' \in [Gens -> IntControllers]
    BY <1>0, <2>1, <2>2, <2>3, InstallsAccounted
  <2>5. Types'
    <3>1. /\ asked' = asked /\ active' \in {active, pending}
          /\ pending' \in {pending, None} /\ draining' \subseteq draining
      BY <2>1 DEF InstallPendingIfReady, Install, Undrained
    <3> QED
      BY <1>0, <2>1, <2>2, <2>4, <3>1, RegistryTypes DEF Notices
  <2> QED
    BY <2>3, <2>4, <2>5, CountInvAccounted
<1>7. ASSUME NEW c \in Calls, Lookup(c) PROVE AdmissionInv'
  <2>1. Governed'
    BY <1>0, <1>7, GovernedLookup
  <2>2. Accounted' /\ phase' \in [Calls -> Phases] /\ on' \in [Calls -> 0 .. MaxGen]
    BY <1>0, <1>7, <1>a, LookupAccounted
  <2>3. Types'
    BY <1>0, <1>7, <2>2 DEF Types, Lookup, registry
  <2> QED
    BY <2>1, <2>2, <2>3, CountInvAccounted
<1>8. ASSUME NEW c \in Calls, Proceeds(c) PROVE AdmissionInv'
  <2>1. CallStep(c)
    BY <1>0, <1>8, ProceedsIsCallStep
  <2>2. Accounted'
    BY <1>0, <2>1, OwnershipStep, ParkedAccountedStep, SlotsAccountedStep,
       CallsAccountedStep DEF Accounted, CallStep
  <2>3. Governed'
    BY <1>0, <2>1, GovernedCallStep
  <2>4. Types'
    BY <1>0, <2>1 DEF Types, CallStep, Steady, registry
  <2> QED
    BY <2>2, <2>3, <2>4, CountInvAccounted
<1>9. CASE Crash
  <2>1. Started'
    BY <1>9 DEF Crash, Started, Unused
  <2>2. Counting'
    BY DEF Counting
  <2> QED
    BY <2>1, <2>2, StartedInv, PTL
<1>10. CASE UNCHANGED vars
  <2>1. Installs /\ Notices /\ UNCHANGED <<on, holds>>
    BY <1>0, <1>10, NoticesUnchanged DEF vars, Installs
  <2>2. Accounted' /\ Types'
    BY <1>0, <1>10, <2>1, InstallsAccounted DEF Types, vars
  <2>3. Governed'
    BY <1>0, <1>10 DEF Governed, Generations, Handover, Latest, Installed, Available, vars
  <2> QED
    BY <2>2, <2>3, CountInvAccounted
<1> QED
  BY <1>1, <1>2, <1>3, <1>4, <1>5, <1>6, <1>7, <1>8, <1>9, <1>10
  DEF Next, ReconcileStep, Silent, Proceeds

LEMMA InitInv == Counting /\ Init => AdmissionInv
<1>1. Init => Started
  BY DEF Init, Started, Unused
<1> QED
  BY <1>1, StartedInv

-----------------------------------------------------------------------------
(* What the invariant says.                                                *)

LEMMA CountersNatural == Counting /\ AdmissionInv => TypeOK
<1> SUFFICES ASSUME Counting, AdmissionInv PROVE TypeOK
  OBVIOUS
<1>1. \A g \in Gens : ctl[g].waiters \in Nat /\ ctl[g].inFlight \in Nat
  BY DEF Counting, AdmissionInv, CountInv, CallsAccounted, At
<1>2. ctl \in [Gens -> Controllers]
  BY <1>1 DEF AdmissionInv, CountInv, Types, IntControllers, Controllers
<1> QED
  BY <1>2 DEF AdmissionInv, CountInv, Types, TypeOK

LEMMA OneProvider == Counting /\ AdmissionInv => ProviderWithinLimit
<1> SUFFICES ASSUME Counting, AdmissionInv PROVE ProviderWithinLimit
  OBVIOUS
<1> DEFINE busy == {c \in Calls : phase[c] = "running"}
<1>0. Types /\ Ownership /\ SlotsAccounted /\ Handover
  BY DEF AdmissionInv, CountInv
<1>1. \A c, d \in busy : on[c] = on[d]
  <2>1. \A c \in busy : on[c] # None /\ (on[c] = active \/ on[c] \in draining)
    BY <1>0 DEF Ownership, Handover, Admissible
  <2>2. active # None => draining = {}
    BY <1>0 DEF Handover
  <2>3. \A g, h \in draining : g = h
    BY <1>0 DEF Handover
  <2> QED
    BY <2>1, <2>2, <2>3
<1>2. ASSUME NEW c \in busy PROVE Cardinality(busy) <= Capacity(on[c])
  <2>1. on[c] \in Gens
    BY <1>0 DEF Types, Ownership, Gens, None
  <2>2. busy \subseteq Owners(on[c])
    BY <1>0, <1>1 DEF Ownership, Owners, MustHold
  <2>3. Owners(on[c]) \in SUBSET Calls /\ busy \in SUBSET Calls
    BY DEF Owners
  <2>4. /\ Cardinality(busy) <= Cardinality(Owners(on[c]))
        /\ Cardinality(busy) \in Nat /\ Cardinality(Owners(on[c])) \in Nat
    BY <2>2, <2>3 DEF Counting
  <2>5. /\ ctl[on[c]].free + Cardinality(Owners(on[c])) = Capacity(on[c])
        /\ ctl[on[c]].free \in Nat
    BY <1>0, <2>1 DEF SlotsAccounted, Types, IntControllers
  <2> QED
    BY <2>4, <2>5
<1> QED
  BY <1>1, <1>2 DEF ProviderWithinLimit

-----------------------------------------------------------------------------
(* Who still owes a waiter its permit, and a pending configuration its     *)
(* installation.                                                           *)

(* A permit is free only where nobody waits for it. *)
NoIdlePermit == \A g \in Gens : ctl[g].parked # <<>> => ctl[g].free = 0

(* The last call out of a controller that drains has not yet given notice. *)
Drains ==
    \A g \in draining :
        /\ ctl[g].closed
        /\ \/ ctl[g].inFlight > 0
           \/ \E c \in Calls : on[c] = g /\ phase[c] \in {"checking", "notifying"}

PendingWaits == step = "idle" /\ active = None /\ pending # None => draining # {}

LEMMA ReturnIdles ==
    ASSUME NEW c \in Calls, NEW next, Types, on[c] \in Gens, NoIdlePermit, ReturnPermit(c, next)
    PROVE  NoIdlePermit'
<1>1. ctl[on[c]] \in IntControllers
  BY DEF Types
<1>2. CASE ctl[on[c]].parked = <<>>
  <2>1. ctl' = [ctl EXCEPT ![on[c]].free = @ + 1]
    BY <1>2 DEF ReturnPermit
  <2> QED
    BY <1>1, <1>2, <2>1 DEF NoIdlePermit, Types, IntControllers
<1>3. CASE ctl[on[c]].parked # <<>>
  <2>1. ctl' = [ctl EXCEPT ![on[c]].parked = Tail(@)]
    BY <1>3 DEF ReturnPermit
  <2> QED
    BY <1>1, <1>3, <2>1 DEF NoIdlePermit, Types, IntControllers
<1> QED
  BY <1>2, <1>3

LEMMA TakeIdles ==
    ASSUME NEW c \in Calls, NEW next, Types, on[c] \in Gens, NoIdlePermit,
           ctl[on[c]].free > 0, TakePermit(c, next)
    PROVE  NoIdlePermit'
<1>1. ctl[on[c]] \in IntControllers /\ ctl[on[c]].parked = <<>>
  BY DEF Types, IntControllers, NoIdlePermit
<1> QED
  BY <1>1 DEF NoIdlePermit, Types, IntControllers, TakePermit

LEMMA UntouchedIdles ==
    ASSUME NoIdlePermit,
           \A g \in Gens : ctl'[g].parked = ctl[g].parked /\ ctl'[g].free = ctl[g].free
    PROVE  NoIdlePermit'
  BY DEF NoIdlePermit

LEMMA CallIdles ==
    ASSUME NEW c \in Calls, AdmissionInv, NoIdlePermit, Proceeds(c)
    PROVE  NoIdlePermit'
<1>0. Types /\ Ownership /\ ParkedAccounted
  BY DEF AdmissionInv, CountInv
<1>a. phase[c] \notin {"new", "gone", "done"} => on[c] \in Gens /\ ctl[on[c]] \in IntControllers
  BY <1>0 DEF Ownership, Types, Gens, None
<1>1. CASE UNCHANGED ctl
  BY <1>1, UntouchedIdles
<1>2. CASE CountIn(c) \/ EnterQueue(c) \/ LeaveQueue(c) \/ Leave(c)
  <2>1. \A g \in Gens : ctl'[g].parked = ctl[g].parked /\ ctl'[g].free = ctl[g].free
    <3>1. phase[c] \in {"arrived", "entering", "granted", "evicted", "unqueue", "leaving"}
      BY <1>2 DEF CountIn, EnterQueue, LeaveQueue, Leave
    <3>2. \/ ctl' = [ctl EXCEPT ![on[c]].inFlight = ctl[on[c]].inFlight + 1]
          \/ ctl' = [ctl EXCEPT ![on[c]].inFlight = ctl[on[c]].inFlight - 1]
          \/ ctl' = [ctl EXCEPT ![on[c]].waiters = ctl[on[c]].waiters + 1]
          \/ ctl' = [ctl EXCEPT ![on[c]].waiters = ctl[on[c]].waiters - 1]
          \/ ctl' = ctl
      BY <1>2 DEF CountIn, EnterQueue, LeaveQueue, Leave
    <3>3. ASSUME NEW n, ctl' = [ctl EXCEPT ![on[c]].inFlight = n]
          PROVE  \A g \in Gens : ctl'[g].parked = ctl[g].parked /\ ctl'[g].free = ctl[g].free
      BY <1>0, <1>a, <3>1, <3>3 DEF Types, IntControllers
    <3>4. ASSUME NEW n, ctl' = [ctl EXCEPT ![on[c]].waiters = n]
          PROVE  \A g \in Gens : ctl'[g].parked = ctl[g].parked /\ ctl'[g].free = ctl[g].free
      BY <1>0, <1>a, <3>1, <3>4 DEF Types, IntControllers
    <3> QED
      BY <3>2, <3>3, <3>4
  <2> QED
    BY <2>1, UntouchedIdles
<1>3. CASE FirstTry(c) \/ LastTry(c)
  <2>1. phase[c] \in {"trying", "lastTry"}
    BY <1>3 DEF FirstTry, LastTry
  <2>2. PICK next : TryAcquire(c, next)
    BY <1>3 DEF FirstTry, LastTry
  <2>3. CASE ctl[on[c]].free > 0 /\ TakePermit(c, "starting")
    BY <1>0, <1>a, <2>1, <2>3, TakeIdles
  <2> QED
    BY <1>1, <2>2, <2>3 DEF TryAcquire
<1>4. CASE Park(c)
  <2>1. phase[c] = "parking" /\ on[c] \in Gens
    BY <1>4, <1>a DEF Park
  <2>2. CASE ctl[on[c]].free > 0 /\ TakePermit(c, "granted")
    BY <1>0, <2>1, <2>2, TakeIdles
  <2>3. CASE ctl[on[c]].free = 0 /\ ctl' = [ctl EXCEPT ![on[c]].parked = Append(@, c)]
    BY <1>0, <2>1, <2>3 DEF NoIdlePermit, Types, IntControllers
  <2> QED
    BY <1>1, <1>4, <2>2, <2>3 DEF Park
<1>5. CASE Resume(c) \/ Release(c) \/ ReturnLast(c)
  <2>1. phase[c] \in {"assigned", "releasing", "returning"}
    BY <1>5 DEF Resume, Release, ReturnLast
  <2>2. ASSUME NEW next, ReturnPermit(c, next) PROVE NoIdlePermit'
    BY <1>0, <1>a, <2>1, <2>2, ReturnIdles
  <2> QED
    BY <1>1, <1>5, <2>2 DEF Resume, Release, ReturnLast
<1>6. CASE AbandonWait(c)
  <2>1. CASE phase[c] = "parked" /\ ctl' = [ctl EXCEPT ![on[c]].parked = Unpark(@, c)]
    <3>1. on[c] \in Gens /\ c \in Range(ctl[on[c]].parked)
      BY <1>0, <1>a, <2>1 DEF ParkedAccounted, At
    <3>2. ctl[on[c]].parked # <<>>
      BY <3>1, EmptyFacts DEF Range
    <3> QED
      BY <1>0, <2>1, <3>1, <3>2 DEF NoIdlePermit, Types, IntControllers
  <2>2. CASE phase[c] = "assigned" /\ ReturnPermit(c, "unqueue")
    BY <1>0, <1>a, <2>2, ReturnIdles
  <2> QED
    BY <1>6, <2>1, <2>2 DEF AbandonWait
<1> QED
  BY <1>1, <1>2, <1>3, <1>4, <1>5, <1>6
  DEF Proceeds, CheckOpen, CheckDrained, Recording, TurnAway, Settle, EndCall,
      Start, PersistQueued, Upgrade, DropStart

LEMMA IdleStep == AdmissionInv /\ NoIdlePermit /\ [Next]_vars => NoIdlePermit'
<1> SUFFICES ASSUME AdmissionInv, NoIdlePermit, [Next]_vars PROVE NoIdlePermit'
  OBVIOUS
<1>0. Types /\ Generations
  BY DEF AdmissionInv, CountInv
<1>1. CASE UNCHANGED ctl
  BY <1>1, UntouchedIdles
<1>2. ASSUME NEW k \in Configs \cup {Removed}, Reconcile(k) PROVE NoIdlePermit'
  <2>1. CASE ctl' = [ctl EXCEPT ![active].closed = TRUE]
    <3>1. \A g \in Gens : ctl'[g].parked = ctl[g].parked /\ ctl'[g].free = ctl[g].free
      BY <1>0, <2>1 DEF Types, IntControllers
    <3> QED
      BY <3>1, UntouchedIdles
  <2> QED
    BY <1>1, <1>2, <2>1 DEF Reconcile
<1>3. CASE ShutSemaphore
  <2>1. \A g \in Gens : \/ ctl'[g] = ctl[g]
                        \/ ctl'[g].parked = <<>>
    BY <1>0, <1>3 DEF ShutSemaphore, Types, IntControllers
  <2> QED
    BY <2>1 DEF NoIdlePermit
<1>4. ASSUME NEW g, Install(g) PROVE NoIdlePermit'
  <2>1. \A h \in Gens : \/ ctl'[h] = ctl[h]
                        \/ ctl'[h].parked = <<>>
    BY <1>0, <1>4 DEF Install, NewController, Types
  <2> QED
    BY <2>1 DEF NoIdlePermit
<1>5. CASE Replace \/ Fill
  BY <1>1, <1>4, <1>5 DEF Replace, Fill
<1>6. CASE FinishReconcile \/ \E c \in Calls : Notify(c)
  <2>1. CASE InstallPendingIfReady
    BY <1>1, <1>4, <2>1 DEF InstallPendingIfReady
  <2> QED
    BY <1>1, <1>6, <2>1 DEF FinishReconcile, Notify
<1>7. ASSUME NEW c \in Calls, Proceeds(c) PROVE NoIdlePermit'
  BY <1>7, CallIdles
<1>8. CASE Crash
  BY <1>8 DEF Crash, Unused, NewController, NoIdlePermit
<1>9. ASSUME NEW c \in Calls, Lookup(c) PROVE NoIdlePermit'
  BY <1>1, <1>9 DEF Lookup
<1>10. CASE UNCHANGED vars
  BY <1>1, <1>10 DEF vars
<1> QED
  BY <1>2, <1>3, <1>5, <1>6, <1>7, <1>8, <1>9, <1>10
  DEF Next, ReconcileStep, Silent, Proceeds

LEMMA IdleImplies ==
    ASSUME Counting, AdmissionInv, NoIdlePermit
    PROVE  WaitersHaveOwner
<1>0. Types /\ Ownership /\ ParkedAccounted /\ SlotsAccounted
  BY DEF AdmissionInv, CountInv
<1> SUFFICES ASSUME NEW c \in Calls, phase[c] = "parked"
             PROVE  \E d \in Calls : holds[d] /\ on[d] = on[c]
  BY DEF WaitersHaveOwner
<1>1. on[c] \in Gens /\ Installed(on[c])
  BY <1>0 DEF Ownership, Types, Gens, None
<1>2. ctl[on[c]].free = 0
  <2>1. c \in Range(ctl[on[c]].parked)
    BY <1>0, <1>1 DEF ParkedAccounted, At
  <2>2. ctl[on[c]].parked # <<>>
    BY <2>1, EmptyFacts DEF Range
  <2> QED
    BY <1>1, <2>2 DEF NoIdlePermit
<1>3. Capacity(on[c]) \in Nat \ {0}
  <2>1. ctl[on[c]].config \in Configs
    BY <1>0, <1>1 DEF Installed, Types, IntControllers
  <2> QED
    BY <1>1, <2>1, ConfigAssumption DEF Capacity, Installed
<1>4. Owners(on[c]) \in SUBSET Calls
  BY DEF Owners
<1>5. Cardinality(Owners(on[c])) \in Nat /\ Cardinality(Owners(on[c])) # 0
  BY <1>0, <1>1, <1>2, <1>3, <1>4 DEF SlotsAccounted, Counting
<1>6. Owners(on[c]) # {}
  BY <1>4, <1>5 DEF Counting
<1> QED
  BY <1>6 DEF Owners

(* Only the last step out takes a call out of the count of its controller. *)
LEMMA LeavesCount ==
    ASSUME NEW c \in Calls, Types, on[c] # None, Proceeds(c)
    PROVE  /\ phase[c] # "notifying"
           /\ phase[c] = "checking" => CheckDrained(c)
           /\ phase[c] \in Counted /\ phase'[c] \notin Counted => Leave(c)
<1>0. phase \in [Calls -> Phases]
  BY DEF Types
<1>1. CASE phase[c] \in {"checking", "notifying"}
  <2>1. ~(CountIn(c) \/ CheckOpen(c) \/ FirstTry(c) \/ EnterQueue(c) \/ LastTry(c) \/ Park(c))
    BY <1>1 DEF CountIn, CheckOpen, FirstTry, EnterQueue, LastTry, Park
  <2>2. ~(Resume(c) \/ LeaveQueue(c) \/ Release(c) \/ Leave(c) \/ ReturnLast(c))
    BY <1>1 DEF Resume, LeaveQueue, Release, Leave, ReturnLast
  <2>3. ~(Recording(c) \/ DropStart(c) \/ AbandonWait(c))
    BY <1>1 DEF Recording, TurnAway, Settle, EndCall, Start, PersistQueued, Upgrade,
                DropStart, AbandonWait
  <2>4. CheckDrained(c)
    BY <2>1, <2>2, <2>3 DEF Proceeds
  <2>5. phase[c] = "checking"
    BY <2>4 DEF CheckDrained
  <2> QED
    BY <2>4, <2>5 DEF Counted, Waiting
<1> SUFFICES ASSUME phase[c] \notin {"checking", "notifying"}
             PROVE  phase'[c] \in Counted \/ Leave(c) \/ phase[c] \notin Counted
  BY <1>1
<1>2. CASE Leave(c) \/ CheckDrained(c) \/ ReturnLast(c)
  BY <1>2 DEF CheckDrained, ReturnLast, Counted, Waiting
<1>3. CASE CountIn(c) \/ CheckOpen(c) \/ EnterQueue(c) \/ LeaveQueue(c) \/ DropStart(c)
  BY <1>0, <1>3 DEF CountIn, CheckOpen, EnterQueue, LeaveQueue, DropStart, Go, Counted, Waiting
<1>4. CASE FirstTry(c) \/ LastTry(c)
  BY <1>0, <1>4 DEF FirstTry, LastTry, TryAcquire, TakePermit, Go, Counted, Waiting
<1>5. CASE Park(c)
  BY <1>0, <1>5 DEF Park, TakePermit, Go, Counted, Waiting
<1>6. ASSUME NEW next \in Counted, ReturnPermit(c, next) PROVE phase'[c] \in Counted
  <2>1. CASE phase' = [phase EXCEPT ![c] = next]
    BY <1>0, <1>6, <2>1
  <2>2. CASE phase' = [phase EXCEPT ![c] = next, ![Head(ctl[on[c]].parked)] = "assigned"]
    BY <1>0, <1>6, <2>2 DEF Counted, Waiting
  <2> QED
    BY <1>6, <2>1, <2>2 DEF ReturnPermit
<1>7. CASE Resume(c)
  <2>1. CASE phase' = [phase EXCEPT ![c] = "granted"]
    BY <1>0, <2>1 DEF Counted, Waiting
  <2>2. CASE ReturnPermit(c, "evicted")
    BY <1>6, <2>2 DEF Counted, Waiting
  <2> QED
    BY <1>7, <2>1, <2>2 DEF Resume, Go
<1>8. CASE Release(c)
  BY <1>6, <1>8 DEF Release, Counted, Waiting
<1>9. CASE AbandonWait(c)
  <2>1. CASE phase' = [phase EXCEPT ![c] = "unqueue"]
    BY <1>0, <2>1 DEF Counted, Waiting
  <2>2. CASE ReturnPermit(c, "unqueue")
    BY <1>6, <2>2 DEF Counted, Waiting
  <2> QED
    BY <1>9, <2>1, <2>2 DEF AbandonWait, Go
<1>10. CASE Recording(c)
  <2>1. CASE TurnAway(c)
    BY <1>0, <2>1 DEF TurnAway, Go, Counted, Waiting
  <2>2. CASE Settle(c) \/ EndCall(c)
    BY <1>0, <2>2 DEF Settle, EndCall, Go, Counted, Waiting
  <2>3. ASSUME NEW acked \in BOOLEAN,
               Start(c, acked) \/ PersistQueued(c, acked) \/ Upgrade(c, acked)
        PROVE  phase'[c] \in Counted
    BY <1>0, <2>3 DEF Start, PersistQueued, Upgrade, Go, Counted, Waiting
  <2> QED
    BY <1>10, <2>1, <2>2, <2>3 DEF Recording
<1> QED
  BY <1>2, <1>3, <1>4, <1>5, <1>7, <1>8, <1>9, <1>10 DEF Proceeds

LEMMA CallDrains ==
    ASSUME NEW c \in Calls, AdmissionInv, Drains, Proceeds(c)
    PROVE  Drains'
<1>0. Types /\ Ownership /\ ParkedAccounted /\ CallStep(c)
  BY ProceedsIsCallStep DEF AdmissionInv, CountInv
<1>1. /\ draining' = draining /\ on' = on /\ draining \subseteq Gens
      /\ \A g \in Gens : ctl'[g].closed = ctl[g].closed /\ (g # on[c] => ctl'[g] = ctl[g])
      /\ \A d \in Calls \ {c} : phase[d] \in {"checking", "notifying"} => phase'[d] = phase[d]
  BY <1>0 DEF CallStep, Steady, Counts, registry, Types
<1> SUFFICES ASSUME NEW g \in draining
             PROVE  \/ ctl'[g].inFlight > 0
                    \/ \E d \in Calls : on[d] = g /\ phase'[d] \in {"checking", "notifying"}
  BY <1>1 DEF Drains
<1>2. /\ g \in Gens /\ g # None /\ ctl[g].closed /\ ctl[g].inFlight \in Int
      /\ \/ ctl[g].inFlight > 0
         \/ \E d \in Calls : on[d] = g /\ phase[d] \in {"checking", "notifying"}
  <2>1. g \in Gens /\ ctl \in [Gens -> IntControllers]
    BY <1>0, <1>1 DEF Types
  <2>2. g # None
    BY <2>1 DEF Gens, None
  <2>3. ctl[g].inFlight \in Int
    BY <2>1 DEF IntControllers
  <2> QED
    BY <2>1, <2>2, <2>3 DEF Drains
<1>3. CASE on[c] # g
  BY <1>1, <1>2, <1>3
<1>4. CASE on[c] = g
  <2>1. /\ phase[c] # "notifying"
        /\ phase[c] = "checking" => CheckDrained(c)
        /\ phase[c] \in Counted /\ phase'[c] \notin Counted => Leave(c)
    BY <1>0, <1>2, <1>4, LeavesCount
  <2>2. /\ ctl'[g].inFlight = ctl[g].inFlight
               + One(phase'[c] \in Counted) - One(phase[c] \in Counted)
    BY <1>0, <1>2, <1>4 DEF CallStep, Counts
  <2>3. CASE phase[c] = "checking"
    <3>1. phase'[c] = "notifying"
      BY <1>0, <1>2, <1>4, <2>1, <2>3 DEF CheckDrained, Go, Types
    <3> QED
      BY <1>4, <3>1
  <2>4. CASE Leave(c)
    <3>1. /\ phase[c] = "leaving" /\ ctl'[g].inFlight = ctl[g].inFlight - 1
          /\ ctl[g].inFlight = 1 => phase'[c] = "checking"
      BY <1>0, <1>2, <1>4, <2>4 DEF Leave, Go, Types, IntControllers
    <3>2. CASE ctl[g].inFlight > 0
      BY <1>2, <1>4, <3>1, <3>2
    <3>3. CASE ~(ctl[g].inFlight > 0)
      BY <1>1, <1>2, <3>1, <3>3
    <3> QED
      BY <3>2, <3>3
  <2>5. CASE phase[c] # "checking" /\ ~Leave(c)
    <3>1. ctl'[g].inFlight >= ctl[g].inFlight
      BY <1>2, <2>1, <2>2, <2>5 DEF One
    <3>2. ctl'[g].inFlight \in Int
      BY <1>2, <2>2 DEF One
    <3> QED
      BY <1>1, <1>2, <2>1, <2>5, <3>1, <3>2
  <2> QED
    BY <2>3, <2>4, <2>5
<1> QED
  BY <1>3, <1>4

LEMMA DrainStep ==
    AdmissionInv /\ Drains /\ PendingWaits /\ [Next]_vars => Drains' /\ PendingWaits'
<1> SUFFICES ASSUME AdmissionInv, Drains, PendingWaits, [Next]_vars
             PROVE  Drains' /\ PendingWaits'
  OBVIOUS
<1>0. Types /\ Generations /\ Handover
  BY DEF AdmissionInv, CountInv
<1>a. draining \subseteq Gens /\ (active # None => active \in Gens /\ draining = {})
  BY <1>0 DEF Types, Gens, None, Handover
<1>b. ASSUME draining' = Undrained(draining), UNCHANGED <<ctl, on>> PROVE Drains'
  BY <1>b DEF Drains, Undrained
<1>c. ASSUME draining' = {} PROVE Drains'
  BY <1>c DEF Drains
<1>1. ASSUME NEW k \in Configs \cup {Removed}, Reconcile(k) PROVE Drains' /\ PendingWaits'
  <2>1. step' # "idle"
    BY <1>1 DEF Reconcile
  <2>2. CASE active = None
    BY <1>1, <1>b, <2>1, <2>2 DEF Reconcile, PendingWaits
  <2>3. CASE active # None
    BY <1>1, <1>a, <1>c, <2>1, <2>3 DEF Reconcile, PendingWaits, Undrained
  <2> QED
    BY <2>2, <2>3
<1>2. CASE ShutSemaphore
  BY <1>0, <1>2, <1>a, <1>c DEF ShutSemaphore, Generations, PendingWaits
<1>3. CASE Replace
  <2>1. active \in Gens /\ draining = {} /\ ctl[active].closed
    BY <1>0, <1>3, <1>a DEF Replace, Generations
  <2>2. CASE ctl[active].inFlight = 0
    BY <1>3, <1>c, <2>1, <2>2 DEF Replace, Undrained, PendingWaits
  <2>3. CASE ctl[active].inFlight # 0
    <3>1. ctl' = ctl /\ draining' = Undrained({active}) /\ step' = "fill"
      BY <1>3, <2>1, <2>3 DEF Replace
    <3> QED
      BY <2>1, <3>1 DEF Drains, Undrained, PendingWaits
  <2> QED
    BY <2>2, <2>3
<1>4. CASE Fill
  <2>1. step' = "install" /\ on' = on /\ phase' = phase
    BY <1>4 DEF Fill
  <2>2. CASE draining' = draining /\ ctl' = ctl
    BY <2>1, <2>2 DEF Drains, PendingWaits
  <2>3. CASE draining' = Undrained(draining) /\ (ctl' = ctl \/ draining' = {})
    BY <1>b, <1>c, <2>1, <2>3 DEF PendingWaits
  <2> QED
    BY <1>4, <2>2, <2>3 DEF Fill
<1>5. ASSUME InstallPendingIfReady, UNCHANGED on PROVE Drains' /\ PendingWaits'
  <2>1. Drains'
    <3>1. draining' = Undrained(draining) /\ (ctl' = ctl \/ draining' = {})
      BY <1>5 DEF InstallPendingIfReady
    <3> QED
      BY <1>5, <1>b, <1>c, <3>1
  <2>2. PendingWaits'
    BY <1>5 DEF InstallPendingIfReady, PendingWaits
  <2> QED
    BY <2>1, <2>2
<1>6. CASE FinishReconcile
  <2>1. CASE pending = None
    BY <1>6, <2>1 DEF FinishReconcile, Drains, PendingWaits
  <2> QED
    BY <1>5, <1>6, <2>1 DEF FinishReconcile
<1>7. ASSUME NEW c \in Calls, Notify(c) PROVE Drains' /\ PendingWaits'
  BY <1>5, <1>7 DEF Notify
<1>8. ASSUME NEW c \in Calls, Lookup(c) PROVE Drains' /\ PendingWaits'
  <2>1. UNCHANGED <<ctl, draining, step, active, pending>>
    BY <1>8 DEF Lookup, registry
  <2>2. \A d \in Calls : phase[d] \in {"checking", "notifying"} =>
            phase'[d] = phase[d] /\ on'[d] = on[d]
    BY <1>0, <1>8 DEF Lookup, Go, Types
  <2> QED
    BY <2>1, <2>2 DEF Drains, PendingWaits
<1>9. ASSUME NEW c \in Calls, Proceeds(c) PROVE Drains' /\ PendingWaits'
  <2>1. UNCHANGED registry
    BY <1>9, ProceedsIsCallStep DEF AdmissionInv, CountInv, CallStep, Steady
  <2> QED
    BY <1>9, <2>1, CallDrains DEF PendingWaits, registry
<1>10. CASE Crash
  BY <1>10, <1>c DEF Crash, PendingWaits
<1>11. CASE UNCHANGED vars
  BY <1>11 DEF vars, Drains, PendingWaits
<1> QED
  BY <1>1, <1>2, <1>3, <1>4, <1>6, <1>7, <1>8, <1>9, <1>10, <1>11
  DEF Next, ReconcileStep, Silent, Proceeds

LEMMA DrainImplies ==
    ASSUME Counting, AdmissionInv, Drains, PendingWaits
    PROVE  PendingHasDrainer
<1> SUFFICES ASSUME step = "idle", active = None, pending # None
             PROVE  \E c \in Calls : /\ on[c] \in draining
                                     /\ phase[c] \in Counted \cup {"checking", "notifying"}
  BY DEF PendingHasDrainer
<1>1. PICK g \in draining : TRUE
  BY DEF PendingWaits
<1>2. g \in Gens /\ ctl[g].inFlight = Cardinality(At(g, Counted))
  BY DEF AdmissionInv, CountInv, Types, CallsAccounted
<1>3. CASE ctl[g].inFlight > 0
  <2>1. At(g, Counted) \in SUBSET Calls
    BY DEF At
  <2>2. Cardinality(At(g, Counted)) # 0
    BY <1>2, <1>3
  <2>3. At(g, Counted) # {}
    BY <2>1, <2>2 DEF Counting
  <2> QED
    BY <2>3 DEF At
<1>4. CASE \E c \in Calls : on[c] = g /\ phase[c] \in {"checking", "notifying"}
  BY <1>4
<1> QED
  BY <1>3, <1>4 DEF Drains

-----------------------------------------------------------------------------
(* The rows.                                                               *)

(* Phases before the first write of a call's row.                          *)
Unwritten ==
    {"new", "arrived", "counted", "trying", "entering", "lastTry", "gone",
     "full", "starting", "queueing"}

(* The row and the call: none before its first write, running or ended     *)
(* while the provider answers, ended with its usage once that was handed   *)
(* over.                                                                   *)
RowsAgree ==
    /\ \A c \in Traced : /\ phase[c] \in Unwritten => row[c].state = "none"
                         /\ phase[c] = "running" => row[c].state \in Ended \cup {"running"}
    /\ \A c \in told : row[c].state \in Ended /\ row[c].usage

RowsInv == RowsTypeOK /\ phase \in [Calls -> Phases] /\ RowsAgree

-----------------------------------------------------------------------------
(* The phases of a call under the steps that do not write its row.         *)

Bystands(c) ==
    \/ phase'[c] = phase[c]
    \/ phase'[c] \notin Unwritten \cup {"running"}
    \/ phase'[c] \in Unwritten /\ phase[c] \in Unwritten

LEMMA ReturnBystands ==
    ASSUME phase \in [Calls -> Phases], NEW d \in Calls, NEW q \in Phases, ReturnPermit(d, q)
    PROVE  /\ phase' \in [Calls -> Phases]
           /\ \A c \in Calls \ {d} : phase'[c] \in {phase[c], "assigned"}
           /\ phase'[d] \in {q, "assigned"}
<1>1. CASE phase' = [phase EXCEPT ![d] = q]
  BY <1>1
<1>2. ASSUME NEW w, phase' = [phase EXCEPT ![d] = q, ![w] = "assigned"]
      PROVE  /\ phase' \in [Calls -> Phases]
             /\ \A c \in Calls \ {d} : phase'[c] \in {phase[c], "assigned"}
             /\ phase'[d] \in {q, "assigned"}
  BY <1>2 DEF Phases
<1> QED
  BY <1>1, <1>2 DEF ReturnPermit

LEMMA GoBystands ==
    ASSUME phase \in [Calls -> Phases], NEW d \in Calls, NEW q \in Phases, Go(d, q)
    PROVE  /\ phase' \in [Calls -> Phases] /\ phase'[d] = q
           /\ \A c \in Calls \ {d} : phase'[c] = phase[c]
  BY DEF Go

(* Whatever call d does, another call stays, or is assigned a permit. *)
LEMMA OthersBystand ==
    ASSUME phase \in [Calls -> Phases], NEW d \in Calls,
           Silent(d) \/ Recording(d) \/ DropStart(d) \/ AbandonWait(d)
    PROVE  /\ phase' \in [Calls -> Phases]
           /\ \A c \in Calls \ {d} : phase'[c] \in {phase[c], "assigned"}
<1>1. CASE \E q \in Phases : Go(d, q)
  BY <1>1, GoBystands
<1>2. CASE \E q \in Phases : TakePermit(d, q)
  BY <1>2 DEF TakePermit
<1>3. CASE \E q \in Phases : ReturnPermit(d, q)
  BY <1>3, ReturnBystands
<1>4. CASE Silent(d)
  <2>1. CASE Lookup(d) \/ CountIn(d) \/ CheckOpen(d) \/ EnterQueue(d)
    BY <1>1, <2>1 DEF Lookup, CountIn, CheckOpen, EnterQueue, Phases
  <2>2. CASE FirstTry(d) \/ LastTry(d) \/ Park(d)
    BY <1>1, <1>2, <2>2 DEF FirstTry, LastTry, TryAcquire, Park, Phases
  <2>3. CASE Resume(d) \/ Release(d) \/ ReturnLast(d)
    BY <1>1, <1>3, <2>3 DEF Resume, Release, ReturnLast, Phases
  <2>4. CASE LeaveQueue(d)
    <3>1. \E q \in {"upgrading", "settling", "leaving"} : Go(d, q)
      BY <2>4 DEF LeaveQueue
    <3> QED
      BY <1>1, <3>1 DEF Phases
  <2>5. CASE Leave(d) \/ CheckDrained(d) \/ Notify(d)
    BY <1>1, <2>5 DEF Leave, CheckDrained, Notify, Left, Phases
  <2> QED
    BY <1>4, <2>1, <2>2, <2>3, <2>4, <2>5 DEF Silent
<1>5. CASE Recording(d) \/ DropStart(d)
  BY <1>1, <1>5
  DEF Recording, TurnAway, Settle, EndCall, Start, PersistQueued, Upgrade, DropStart, Phases
<1>6. CASE AbandonWait(d)
  BY <1>1, <1>3, <1>6 DEF AbandonWait, Phases
<1> QED
  BY <1>4, <1>5, <1>6

(* A step of a call that writes no row does not dispatch it either. *)
LEMMA SilentBystands ==
    ASSUME phase \in [Calls -> Phases], NEW c \in Calls, Silent(c)
    PROVE  Bystands(c)
<1>1. CASE Lookup(c) \/ CountIn(c) \/ CheckOpen(c) \/ EnterQueue(c)
  BY <1>1 DEF Lookup, CountIn, CheckOpen, EnterQueue, Go, Bystands, Unwritten
<1>2. CASE FirstTry(c) \/ LastTry(c) \/ Park(c)
  BY <1>2 DEF FirstTry, LastTry, TryAcquire, TakePermit, Park, Go, Bystands, Unwritten
<1>3. CASE Resume(c) \/ Release(c) \/ ReturnLast(c)
  <2>1. CASE Go(c, "granted")
    BY <2>1 DEF Go, Bystands, Unwritten
  <2>2. CASE \E q \in {"evicted", "leaving", "done"} : ReturnPermit(c, q)
    <3>1. phase'[c] \in {"evicted", "leaving", "done", "assigned"}
      BY <2>2, ReturnBystands DEF Phases
    <3> QED
      BY <3>1 DEF Bystands, Unwritten
  <2> QED
    BY <1>3, <2>1, <2>2 DEF Resume, Release, ReturnLast
<1>4. CASE LeaveQueue(c)
  <2>1. \E q \in {"upgrading", "settling", "leaving"} : Go(c, q)
    BY <1>4 DEF LeaveQueue
  <2> QED
    BY <2>1 DEF Go, Bystands, Unwritten
<1>5. CASE Leave(c) \/ CheckDrained(c) \/ Notify(c)
  BY <1>5 DEF Leave, CheckDrained, Notify, Left, Go, Bystands, Unwritten
<1> QED
  BY <1>1, <1>2, <1>3, <1>4, <1>5 DEF Silent

LEMMA AdmissionBystands ==
    ASSUME phase \in [Calls -> Phases], Admission
    PROVE  phase' \in [Calls -> Phases] /\ \A c \in Traced : Bystands(c)
<1>0. Traced \subseteq Calls
  BY TracedAssumption
<1>1. CASE \E k \in Configs \cup {Removed} : Reconcile(k)
  BY <1>1 DEF Reconcile, Bystands
<1>2. CASE ShutSemaphore
  BY <1>0, <1>2 DEF ShutSemaphore, Bystands, Phases, Unwritten
<1>3. CASE Replace \/ Fill \/ FinishReconcile
  BY <1>3 DEF Replace, Fill, FinishReconcile, Bystands
<1>4. ASSUME NEW d \in Calls, Silent(d)
      PROVE  phase' \in [Calls -> Phases] /\ \A c \in Traced : Bystands(c)
  <2>1. /\ phase' \in [Calls -> Phases]
        /\ \A c \in Calls \ {d} : phase'[c] \in {phase[c], "assigned"}
    BY <1>4, OthersBystand
  <2>2. Bystands(d)
    BY <1>4, SilentBystands
  <2> QED
    BY <1>0, <2>1, <2>2 DEF Bystands, Unwritten
<1>5. ASSUME NEW d \in Calls \ Traced, Recording(d) \/ DropStart(d) \/ AbandonWait(d)
      PROVE  phase' \in [Calls -> Phases] /\ \A c \in Traced : Bystands(c)
  <2>1. /\ phase' \in [Calls -> Phases]
        /\ \A c \in Calls \ {d} : phase'[c] \in {phase[c], "assigned"}
    BY <1>5, OthersBystand
  <2> QED
    BY <1>0, <2>1 DEF Bystands, Unwritten
<1> QED
  BY <1>1, <1>2, <1>3, <1>4, <1>5 DEF Admission, ReconcileStep

-----------------------------------------------------------------------------
(* A step that writes at most one row.                                     *)

Rows == [state : Live \cup Ended \cup {"none"}, usage : BOOLEAN]

Final(c) == row[c].state \in Ended =>
                /\ row'[c].state = row[c].state
                /\ row[c].usage => row'[c].usage

Dispatched(c) == phase[c] # "running" /\ phase'[c] = "running" => row'[c].state = "running"

(* What holds of the call whose row is written. *)
Settled(c) ==
    /\ phase'[c] \in Unwritten => row'[c].state = "none"
    /\ phase'[c] = "running" => row'[c].state \in Ended \cup {"running"}
    /\ c \in told' => row'[c].state \in Ended /\ row'[c].usage
    /\ Final(c) /\ Dispatched(c)

LEMMA OneRow ==
    ASSUME RowsInv, NEW c \in Traced, NEW new \in Rows,
           row' \in {row, [row EXCEPT ![c] = new]},
           phase' \in [Calls -> Phases],
           \A d \in Traced \ {c} : phase'[d] \in {phase[d], "assigned"},
           told' \in {told, told \cup {c}},
           late' \in [Traced -> {NoOutcome, Cancelled} \cup Outcomes],
           parent' \in [Traced -> {"open", "ended", "interrupted"}],
           seen' \in [Traced -> Live \cup {"none"}],
           Settled(c)
    PROVE  RowsInv' /\ \A d \in Traced : Final(d) /\ Dispatched(d)
<1>1. row' \in [Traced -> Rows] /\ \A d \in Traced \ {c} : row'[d] = row[d]
  BY DEF RowsInv, RowsTypeOK, Rows
<1>2. told' \subseteq Traced
  BY DEF RowsInv, RowsTypeOK
<1>3. RowsTypeOK'
  BY <1>1, <1>2 DEF RowsTypeOK, Rows
<1>4. RowsAgree'
  <2>1. ASSUME NEW d \in Traced
        PROVE  /\ phase'[d] \in Unwritten => row'[d].state = "none"
               /\ phase'[d] = "running" => row'[d].state \in Ended \cup {"running"}
    <3>1. CASE d = c
      BY <3>1 DEF Settled
    <3>2. CASE d # c
      <4>1. /\ phase[d] \in Unwritten => row[d].state = "none"
            /\ phase[d] = "running" => row[d].state \in Ended \cup {"running"}
            /\ row'[d] = row[d] /\ phase'[d] \in {phase[d], "assigned"}
        BY <1>1, <3>2 DEF RowsInv, RowsAgree
      <4> QED
        BY <4>1 DEF Unwritten
    <3> QED
      BY <3>1, <3>2
  <2>2. ASSUME NEW d \in told' PROVE row'[d].state \in Ended /\ row'[d].usage
    BY <1>1, <1>2 DEF RowsInv, RowsAgree, Settled
  <2> QED
    BY <2>1, <2>2 DEF RowsAgree
<1>5. \A d \in Traced : Final(d) /\ Dispatched(d)
  BY <1>1 DEF Settled, Final, Dispatched
<1> QED
  BY <1>3, <1>4, <1>5 DEF RowsInv

LEMMA TerminalRowFacts ==
    ASSUME NEW r \in Rows, NEW t \in {Cancelled} \cup Outcomes
    PROVE  /\ TerminalRow(r, t) \in Rows
           /\ r.state \in Ended =>
                 /\ TerminalRow(r, t).state = r.state
                 /\ r.usage \/ t.usage => TerminalRow(r, t).usage
           /\ r.state = "running" =>
                 /\ TerminalRow(r, t).state \in Ended
                 /\ t.usage => TerminalRow(r, t).usage
           /\ r.state = "none" => TerminalRow(r, t).state = "none"
<1>1. t.state \in Ended /\ t.usage \in BOOLEAN
  <2>1. CASE t = [state |-> "completed", usage |-> TRUE]
    BY <2>1 DEF Ended
  <2>2. CASE \E q \in Ended : t = [state |-> q, usage |-> FALSE]
    BY <2>2
  <2> QED
    BY <2>1, <2>2 DEF Cancelled, Outcomes, Row, Ended
<1>2. r.state \in Live \cup Ended \cup {"none"} /\ r.usage \in BOOLEAN
  BY DEF Rows
<1>3. CASE r.state = "running" \/ (r.state = "queued" /\ t.state = "cancelled")
  <2>1. TerminalRow(r, t) = [state |-> t.state, usage |-> r.usage \/ t.usage]
    BY <1>3 DEF TerminalRow, Ended
  <2> QED
    BY <1>1, <1>2, <1>3, <2>1 DEF Rows, Ended
<1>4. CASE r.state \in Ended
  <2>1. TerminalRow(r, t) = [r EXCEPT !.usage = r.usage \/ t.usage]
    BY <1>4 DEF TerminalRow, Ended
  <2> QED
    BY <1>1, <1>2, <1>4, <2>1 DEF Rows, Ended
<1>5. CASE /\ r.state \notin Ended
           /\ ~(r.state = "running" \/ (r.state = "queued" /\ t.state = "cancelled"))
  <2>1. TerminalRow(r, t) = r
    BY <1>5 DEF TerminalRow
  <2> QED
    BY <1>5, <2>1
<1> QED
  BY <1>3, <1>4, <1>5

-----------------------------------------------------------------------------
(* The inductive step.                                                     *)

RowsGuarantee == \A c \in Traced : Final(c) /\ Dispatched(c)

(* A call that moves on by itself leaves the others where they are. *)
LEMMA GoRow ==
    ASSUME RowsInv, NEW c \in Traced, NEW q \in Phases, Go(c, q)
    PROVE  /\ phase' \in [Calls -> Phases] /\ phase'[c] = q
           /\ \A d \in Traced \ {c} : phase'[d] \in {phase[d], "assigned"}
  BY TracedAssumption, GoBystands DEF RowsInv

LEMMA RowFacts ==
    ASSUME RowsInv, NEW c \in Traced
    PROVE  /\ row[c] \in Rows /\ row[c].usage \in BOOLEAN
           /\ phase[c] \in Unwritten => row[c].state = "none"
           /\ phase[c] = "running" => row[c].state \in Ended \cup {"running"}
           /\ c \in told => row[c].state \in Ended /\ row[c].usage
           /\ row[c].state = "none" => c \notin told
           /\ late[c] \in {NoOutcome, Cancelled} \cup Outcomes
           /\ "none" \notin Ended /\ "running" \notin Ended /\ "queued" \notin Ended
<1>1. row[c] \in Rows /\ row[c].usage \in BOOLEAN
  BY DEF RowsInv, RowsTypeOK, Rows
<1> QED
  BY <1>1 DEF RowsInv, RowsTypeOK, RowsAgree, Ended

(* The first write of a row, before which there is none. *)
LEMMA FirstWrite ==
    ASSUME RowsInv, NEW c \in Traced, NEW q \in Phases, phase[c] \in Unwritten,
           Go(c, q), q \notin Unwritten,
           NEW state \in Live \cup Ended, NEW acked \in BOOLEAN,
           Write(c, Row(state), acked),
           q = "running" => acked /\ state = "running",
           UNCHANGED <<late, told, parent, seen>>
    PROVE  RowsInv' /\ RowsGuarantee
<1>1. Row(state) \in Rows
  BY DEF Row, Rows
<1>2. row[c].state = "none" /\ c \notin told /\ "none" \notin Ended /\ row \in [Traced -> Rows]
  BY RowFacts DEF RowsInv, RowsTypeOK, Rows
<1>3. /\ row' \in {row, [row EXCEPT ![c] = Row(state)]}
      /\ acked => row'[c] = Row(state)
  BY <1>2 DEF Write
<1>4. /\ phase' \in [Calls -> Phases] /\ phase'[c] = q
      /\ \A d \in Traced \ {c} : phase'[d] \in {phase[d], "assigned"}
  BY GoRow
<1>a. row'[c] \in {row[c], Row(state)} /\ Row(state).state = state
  BY <1>2, <1>3 DEF Row
<1>5. Settled(c)
  <2>1. Final(c)
    BY <1>2 DEF Final
  <2>2. Dispatched(c)
    BY <1>3, <1>4, <1>a DEF Dispatched
  <2>3. /\ phase'[c] \in Unwritten => row'[c].state = "none"
        /\ phase'[c] = "running" => row'[c].state \in Ended \cup {"running"}
    BY <1>3, <1>4, <1>a
  <2> QED
    BY <1>2, <2>1, <2>2, <2>3 DEF Settled
<1>6. /\ told' = told /\ late' \in [Traced -> {NoOutcome, Cancelled} \cup Outcomes]
      /\ parent' \in [Traced -> {"open", "ended", "interrupted"}]
      /\ seen' \in [Traced -> Live \cup {"none"}]
  BY DEF RowsInv, RowsTypeOK
<1> QED
  BY <1>1, <1>3, <1>4, <1>5, <1>6, OneRow DEF RowsGuarantee

(* A write of an outcome to a row that was written before. *)
LEMMA OutcomeWrite ==
    ASSUME RowsInv, NEW c \in Traced, phase' \in [Calls -> Phases],
           \A d \in Traced \ {c} : phase'[d] \in {phase[d], "assigned"},
           phase'[c] = phase[c] \/ phase'[c] \notin Unwritten \cup {"running"},
           NEW t \in {Cancelled} \cup Outcomes, NEW acked \in BOOLEAN,
           Write(c, TerminalRow(row[c], t), acked),
           \/ told' = told
           \/ /\ told' = told \cup {c} /\ acked /\ t.usage
              /\ phase[c] = "running",
           late' \in [Traced -> {NoOutcome, Cancelled} \cup Outcomes],
           UNCHANGED <<parent, seen>>
    PROVE  RowsInv' /\ RowsGuarantee
<1>1. /\ row[c] \in Rows
      /\ phase[c] \in Unwritten => row[c].state = "none"
      /\ phase[c] = "running" => row[c].state \in Ended \cup {"running"}
      /\ c \in told => row[c].state \in Ended /\ row[c].usage
      /\ row \in [Traced -> Rows]
  BY RowFacts DEF RowsInv, RowsTypeOK, Rows
<1> DEFINE new == TerminalRow(row[c], t)
<1>2. /\ new \in Rows
      /\ row[c].state \in Ended =>
            new.state = row[c].state /\ (row[c].usage \/ t.usage => new.usage)
      /\ row[c].state = "running" => new.state \in Ended /\ (t.usage => new.usage)
      /\ row[c].state = "none" => new.state = "none"
  BY <1>1, TerminalRowFacts
<1>3. row' \in {row, [row EXCEPT ![c] = new]} /\ row'[c] \in {row[c], new}
      /\ (acked => row'[c] = new)
  BY <1>1 DEF Write
<1> HIDE DEF new
<1>4. Settled(c)
  <2>1. phase'[c] \in Unwritten => row'[c].state = "none"
    BY <1>1, <1>2, <1>3
  <2>2. phase'[c] = "running" => row'[c].state \in Ended \cup {"running"}
    BY <1>1, <1>2, <1>3
  <2>3. c \in told' => row'[c].state \in Ended /\ row'[c].usage
    BY <1>1, <1>2, <1>3
  <2>4. Final(c) /\ Dispatched(c)
    BY <1>1, <1>2, <1>3 DEF Final, Dispatched
  <2> QED
    BY <2>1, <2>2, <2>3, <2>4 DEF Settled
<1>5. /\ told' \in {told, told \cup {c}}
      /\ parent' \in [Traced -> {"open", "ended", "interrupted"}]
      /\ seen' \in [Traced -> Live \cup {"none"}]
  BY DEF RowsInv, RowsTypeOK
<1> QED
  BY <1>2, <1>3, <1>4, <1>5, OneRow DEF RowsGuarantee

(* A step that writes no row. *)
LEMMA NoWrite ==
    ASSUME RowsInv, UNCHANGED <<row, told>>, phase' \in [Calls -> Phases],
           \A c \in Traced : Bystands(c),
           late' \in [Traced -> {NoOutcome, Cancelled} \cup Outcomes],
           parent' \in [Traced -> {"open", "ended", "interrupted"}],
           seen' \in [Traced -> Live \cup {"none"}]
    PROVE  RowsInv' /\ RowsGuarantee
<1>1. RowsTypeOK'
  BY DEF RowsInv, RowsTypeOK
<1>2. RowsAgree'
  BY DEF RowsInv, RowsAgree, Bystands, Unwritten
<1>3. RowsGuarantee
  BY DEF RowsGuarantee, Final, Dispatched, Bystands, Unwritten
<1> QED
  BY <1>1, <1>2, <1>3 DEF RowsInv

LEMMA RowsStep == RowsInv /\ [RowsNext]_allVars => RowsInv' /\ RowsGuarantee
<1> SUFFICES ASSUME RowsInv, [RowsNext]_allVars PROVE RowsInv' /\ RowsGuarantee
  OBVIOUS
<1>0. /\ phase \in [Calls -> Phases] /\ row \in [Traced -> Rows] /\ Traced \subseteq Calls
      /\ late \in [Traced -> {NoOutcome, Cancelled} \cup Outcomes]
      /\ parent \in [Traced -> {"open", "ended", "interrupted"}]
      /\ seen \in [Traced -> Live \cup {"none"}]
  BY TracedAssumption DEF RowsInv, RowsTypeOK, Rows
<1>1. CASE Admission
  <2>1. UNCHANGED <<late, row, told, parent, seen>>
    BY <1>1 DEF Admission, rowVars
  <2> QED
    BY <1>0, <1>1, <2>1, AdmissionBystands, NoWrite
<1>2. ASSUME NEW c \in Traced, RecordTurnAway(c) PROVE RowsInv' /\ RowsGuarantee
  <2>1. PICK q \in {"done", "leaving"}, state \in {"cancelled", "failed"} :
            /\ phase[c] \in {"gone", "full"} /\ Go(c, q) /\ Write(c, Row(state), FALSE)
            /\ UNCHANGED <<late, told, parent, seen>>
    BY <1>2 DEF RecordTurnAway, TurnAway, Others
  <2> QED
    BY <2>1, FirstWrite DEF Unwritten, Phases, Ended
<1>3. ASSUME NEW c \in Traced, RecordStart(c) PROVE RowsInv' /\ RowsGuarantee
  <2>1. PICK q \in {"running", "releasing", "leaving"}, acked \in BOOLEAN :
            /\ phase[c] = "starting" /\ Go(c, q) /\ Write(c, Row("running"), acked)
            /\ q = "running" => acked
            /\ UNCHANGED <<late, told, parent, seen>>
    BY <1>3 DEF RecordStart, Start, DropStart, Others
  <2> QED
    BY <2>1, FirstWrite DEF Unwritten, Phases, Live
<1>4. ASSUME NEW c \in Traced, RecordQueued(c) PROVE RowsInv' /\ RowsGuarantee
  <2>1. PICK q \in {"parking", "unqueue"}, acked \in BOOLEAN :
            /\ phase[c] = "queueing" /\ Go(c, q) /\ Write(c, Row("queued"), acked)
            /\ UNCHANGED <<late, told, parent, seen>>
    BY <1>4 DEF RecordQueued, PersistQueued, Others
  <2> QED
    BY <2>1, FirstWrite DEF Unwritten, Phases, Live
<1>5. ASSUME NEW c \in Traced, RecordUpgrade(c) PROVE RowsInv' /\ RowsGuarantee
  <2>1. PICK acked \in BOOLEAN :
            /\ acked => row[c].state = "queued"
            /\ Upgrade(c, acked)
            /\ IF row[c].state = "queued" THEN Write(c, Row("running"), acked)
                                          ELSE UNCHANGED row
            /\ UNCHANGED <<late, told, parent, seen>>
    BY <1>5 DEF RecordUpgrade, Others
  <2>2. /\ phase[c] = "upgrading"
        /\ Go(c, IF acked THEN "running" ELSE "releasing")
    BY <2>1 DEF Upgrade
  <2>3. /\ phase' \in [Calls -> Phases]
        /\ phase'[c] = IF acked THEN "running" ELSE "releasing"
        /\ \A d \in Traced \ {c} : phase'[d] \in {phase[d], "assigned"}
    BY <2>2, GoRow DEF Phases
  <2>4. /\ Row("running") \in Rows /\ Row("running").state = "running"
        /\ row' \in {row, [row EXCEPT ![c] = Row("running")]}
        /\ acked => row'[c].state = "running"
        /\ row[c].state # "queued" => row' = row
    BY <1>0, <2>1 DEF Write, Row, Rows, Live
  <2>5. Settled(c)
    <3>1. /\ c \in told => row[c].state \in Ended /\ row[c].usage
          /\ "queued" \notin Ended
      BY RowFacts
    <3> QED
      BY <2>1, <2>2, <2>3, <2>4, <3>1 DEF Settled, Final, Dispatched, Unwritten
  <2>6. /\ told' \in {told, told \cup {c}}
        /\ late' \in [Traced -> {NoOutcome, Cancelled} \cup Outcomes]
        /\ parent' \in [Traced -> {"open", "ended", "interrupted"}]
        /\ seen' \in [Traced -> Live \cup {"none"}]
    BY <1>0, <2>1
  <2> QED
    BY <2>3, <2>4, <2>5, <2>6, OneRow DEF RowsGuarantee
<1>6. ASSUME NEW c \in Traced, RecordEviction(c) PROVE RowsInv' /\ RowsGuarantee
  <2>1. /\ Go(c, "leaving") /\ Write(c, TerminalRow(row[c], Cancelled), FALSE)
        /\ UNCHANGED <<late, told, parent, seen>>
    BY <1>6 DEF RecordEviction, Settle, Others
  <2>2. /\ phase' \in [Calls -> Phases] /\ phase'[c] = "leaving"
        /\ \A d \in Traced \ {c} : phase'[d] \in {phase[d], "assigned"}
    BY <2>1, GoRow DEF Phases
  <2>3. phase'[c] \notin Unwritten \cup {"running"}
    BY <2>2 DEF Unwritten
  <2> QED
    BY <1>0, <2>1, <2>2, <2>3, OutcomeWrite
<1>7. ASSUME NEW c \in Traced, DropWait(c) PROVE RowsInv' /\ RowsGuarantee
  <2>1. /\ AbandonWait(c) /\ UNCHANGED <<row, told, parent, seen>>
        /\ late' \in [Traced -> {NoOutcome, Cancelled} \cup Outcomes]
    BY <1>0, <1>7 DEF DropWait, Others
  <2>2. /\ phase' \in [Calls -> Phases]
        /\ \A d \in Calls \ {c} : phase'[d] \in {phase[d], "assigned"}
    BY <1>0, <2>1, OthersBystand
  <2>3. phase'[c] \in {"unqueue", "assigned"}
    <3>1. CASE Go(c, "unqueue")
      BY <3>1, GoRow DEF Phases
    <3>2. CASE ReturnPermit(c, "unqueue")
      BY <1>0, <3>2, ReturnBystands DEF Phases
    <3> QED
      BY <2>1, <3>1, <3>2 DEF AbandonWait
  <2>4. \A d \in Traced : Bystands(d)
    BY <1>0, <2>2, <2>3 DEF Bystands, Unwritten
  <2> QED
    BY <1>0, <2>1, <2>2, <2>4, NoWrite
<1>8. ASSUME NEW c \in Traced, EndCall(c)
      PROVE  /\ phase[c] = "running" /\ phase' \in [Calls -> Phases]
             /\ phase'[c] \notin Unwritten \cup {"running"}
             /\ \A d \in Traced \ {c} : phase'[d] \in {phase[d], "assigned"}
  BY <1>8, GoRow DEF EndCall, Phases, Unwritten
<1>9. ASSUME NEW c \in Traced, NEW t \in Outcomes, Finish(c, t)
      PROVE  RowsInv' /\ RowsGuarantee
  <2>1. PICK acked \in BOOLEAN :
            /\ EndCall(c) /\ Write(c, TerminalRow(row[c], t), acked)
            /\ late' = IF ~acked /\ t.usage THEN [late EXCEPT ![c] = t] ELSE late
            /\ told' = IF acked /\ t.usage THEN told \cup {c} ELSE told
            /\ UNCHANGED <<parent, seen>>
    BY <1>9 DEF Finish
  <2>2. late' \in [Traced -> {NoOutcome, Cancelled} \cup Outcomes]
    BY <1>0, <2>1
  <2> QED
    BY <1>8, <2>1, <2>2, OutcomeWrite
<1>10. ASSUME NEW c \in Traced, DropCall(c) PROVE RowsInv' /\ RowsGuarantee
  <2>1. EndCall(c) /\ UNCHANGED <<told, parent, seen>>
    BY <1>10 DEF DropCall, Others
  <2>2. ASSUME NEW t \in Outcomes, Write(c, TerminalRow(row[c], t), FALSE),
               late' = [late EXCEPT ![c] = t]
        PROVE  RowsInv' /\ RowsGuarantee
    <3>1. late' \in [Traced -> {NoOutcome, Cancelled} \cup Outcomes]
      BY <1>0, <2>2
    <3> QED
      BY <1>8, <2>1, <2>2, <3>1, OutcomeWrite
  <2>3. CASE late' = [late EXCEPT ![c] = Cancelled] /\ UNCHANGED row
    <3>1. late' \in [Traced -> {NoOutcome, Cancelled} \cup Outcomes]
      BY <1>0, <2>3
    <3>2. phase' \in [Calls -> Phases] /\ \A d \in Traced : Bystands(d)
      BY <1>8, <2>1 DEF Bystands, Unwritten
    <3> QED
      BY <1>0, <2>1, <2>3, <3>1, <3>2, NoWrite
  <2> QED
    BY <1>10, <2>2, <2>3 DEF DropCall
<1>11. ASSUME NEW c \in Traced, LateWrite(c) PROVE RowsInv' /\ RowsGuarantee
  <2>1. /\ late[c] \in {Cancelled} \cup Outcomes
        /\ Write(c, TerminalRow(row[c], late[c]), FALSE)
        /\ late' \in [Traced -> {NoOutcome, Cancelled} \cup Outcomes]
        /\ phase' = phase /\ UNCHANGED <<told, parent, seen>>
    BY <1>0, <1>11 DEF LateWrite, vars, Others
  <2> QED
    BY <1>0, <2>1, OutcomeWrite
<1>12. ASSUME NEW c \in Traced, SweepEnds(c) PROVE RowsInv' /\ RowsGuarantee
  <2>1. /\ phase' = phase /\ UNCHANGED <<late, told, parent>>
        /\ seen[c] \in Live /\ RecoveryOutcome(c) \in Ended
        /\ row' = IF row[c].state = seen[c]
                  THEN [row EXCEPT ![c].state = RecoveryOutcome(c)] ELSE row
        /\ seen' \in [Traced -> Live \cup {"none"}]
    BY <1>0, <1>12 DEF SweepEnds, vars, RecoveryOutcome, Ended
  <2> DEFINE new == [row[c] EXCEPT !.state = RecoveryOutcome(c)]
  <2>2. new \in Rows /\ new.state \in Ended /\ row' \in {row, [row EXCEPT ![c] = new]}
    BY <1>0, <2>1 DEF Rows
  <2>3. /\ row'[c] = row[c] \/ (row[c].state \in Live /\ row'[c] = new)
        /\ c \in told' => c \in told
    BY <1>0, <2>1
  <2>4. /\ phase[c] \in Unwritten => row[c].state = "none"
        /\ phase[c] = "running" => row[c].state \in Ended \cup {"running"}
        /\ c \in told => row[c].state \in Ended /\ row[c].usage
    BY RowFacts
  <2>5. \A q \in Live : q \notin Ended /\ q # "none"
    BY DEF Live, Ended
  <2> HIDE DEF new
  <2>6. Settled(c)
    BY <2>1, <2>2, <2>3, <2>4, <2>5 DEF Settled, Final, Dispatched
  <2> QED
    BY <1>0, <2>1, <2>2, <2>6, OneRow DEF RowsGuarantee
<1>13. ASSUME NEW c \in Traced, SweepSkips(c) \/ ParentEnds(c)
       PROVE  RowsInv' /\ RowsGuarantee
  <2>1. /\ phase' = phase /\ UNCHANGED <<late, row, told>>
        /\ parent' \in [Traced -> {"open", "ended", "interrupted"}]
        /\ seen' \in [Traced -> Live \cup {"none"}]
    BY <1>0, <1>13 DEF SweepSkips, ParentEnds, vars
  <2> QED
    BY <1>0, <2>1, NoWrite DEF Bystands
<1>14. CASE SweepRead
  <2>1. /\ phase' = phase /\ UNCHANGED <<late, row, told, parent>>
        /\ seen' \in [Traced -> Live \cup {"none"}]
    BY <1>0, <1>14 DEF SweepRead, vars
  <2> QED
    BY <1>0, <2>1, NoWrite DEF Bystands
<1>15. CASE CrashRows
  <2>1. /\ phase' = [c \in Calls |-> IF phase[c] = "new" THEN "new" ELSE "done"]
        /\ UNCHANGED <<row, told, parent>>
        /\ late' \in [Traced -> {NoOutcome, Cancelled} \cup Outcomes]
        /\ seen' \in [Traced -> Live \cup {"none"}]
    BY <1>0, <1>15 DEF CrashRows, Crash
  <2>2. phase' \in [Calls -> Phases] /\ \A c \in Traced : Bystands(c)
    BY <1>0, <2>1 DEF Phases, Bystands, Unwritten
  <2> QED
    BY <1>0, <2>1, <2>2, NoWrite
<1>16. CASE UNCHANGED allVars
  <2>1. phase' = phase /\ UNCHANGED <<late, row, told, parent, seen>>
    BY <1>16 DEF allVars, vars, rowVars
  <2> QED
    BY <1>0, <2>1, NoWrite DEF Bystands
<1> QED
  BY <1>1, <1>2, <1>3, <1>4, <1>5, <1>6, <1>7, <1>9, <1>10, <1>11, <1>12, <1>13,
     <1>14, <1>15, <1>16 DEF RowsNext

-----------------------------------------------------------------------------
(* The theorems, the calls being finitely many.                            *)

INSTANCE FiniteSetTheorems

(* The calls are finitely many, so their sets can be counted.              *)
LEMMA CallsCount == Counting
<1> SUFFICES ASSUME NEW S \in SUBSET Calls
             PROVE  /\ Cardinality(S) \in Nat
                    /\ Cardinality(S) = 0 <=> S = {}
                    /\ \A T \in SUBSET S : Cardinality(T) <= Cardinality(S)
                    /\ \A c \in Calls \ S : Cardinality(S \cup {c}) = Cardinality(S) + 1
  BY DEF Counting
<1>1. IsFiniteSet(S)
  BY ConfigAssumption, FS_Subset
<1>2. Cardinality(S) \in Nat
  BY <1>1, FS_CardinalityType
<1>3. Cardinality(S) = 0 <=> S = {}
  BY <1>1, FS_EmptySet
<1>4. \A T \in SUBSET S : Cardinality(T) <= Cardinality(S)
  BY <1>1, FS_Subset
<1>5. ASSUME NEW c \in Calls \ S PROVE Cardinality(S \cup {c}) = Cardinality(S) + 1
  BY <1>1, FS_AddElement
<1> QED
  BY <1>2, <1>3, <1>4, <1>5

LEMMA AdmissionInductive == Spec => []AdmissionInv
<1>1. Init => AdmissionInv
  BY CallsCount, InitInv
<1>2. AdmissionInv /\ [Next]_vars => AdmissionInv'
  BY CallsCount, AdmissionStep
<1> QED
  BY <1>1, <1>2, PTL DEF Spec

(* The unsigned counters of a controller never go below zero, on any path  *)
(* of acquisition, release, eviction, drop and restart.                    *)
THEOREM CountersNeverWrap == Spec => []TypeOK
<1>1. AdmissionInv => TypeOK
  BY CallsCount, CountersNatural
<1> QED
  BY <1>1, AdmissionInductive, PTL

(* Slots are never leaked nor duplicated: at every controller the free     *)
(* permits and the owned ones add up to the limit.                         *)
THEOREM SlotsNeverLeak == Spec => []SlotsAccounted
<1>1. AdmissionInv => SlotsAccounted
  BY DEF AdmissionInv, CountInv
<1> QED
  BY <1>1, AdmissionInductive, PTL

(* waiters counts the calls in the queue, never more than max_queue_depth, *)
(* however a wait ends.                                                    *)
THEOREM QueueNeverLeaks == Spec => []QueueAccounted
<1>1. AdmissionInv => QueueAccounted
  BY DEF AdmissionInv, CountInv, CallsAccounted, QueueAccounted, Installed
<1> QED
  BY <1>1, AdmissionInductive, PTL

(* Calls at the provider belong to one controller and respect its limit,   *)
(* through every replacement of the configuration.                         *)
THEOREM LimitHoldsAcrossReplacement == Spec => []ProviderWithinLimit
<1>1. AdmissionInv => ProviderWithinLimit
  BY CallsCount, OneProvider
<1> QED
  BY <1>1, AdmissionInductive, PTL

(* Between reconciles the active controller is open and has the            *)
(* configuration that the last reconcile naming the backend asked for.     *)
THEOREM LatestConfigurationWins == Spec => []ActiveIsLatest
<1>1. AdmissionInv => ActiveIsLatest
  BY DEF AdmissionInv, Latest, ActiveIsLatest
<1> QED
  BY <1>1, AdmissionInductive, PTL

(* A call that waits for a permit is never left behind: some call owns a   *)
(* permit of the semaphore it waits at, whatever the others did before.    *)
THEOREM NoWaiterIsForgotten == Spec => []WaitersHaveOwner
<1>1. Init => NoIdlePermit
  <2> SUFFICES ASSUME Init PROVE NoIdlePermit
    OBVIOUS
  <2>1. Unused.parked = <<>>
    BY DEF Unused, NewController
  <2>2. \A g \in Gens : ctl[g] = Unused
    BY DEF Init
  <2> QED
    BY <2>1, <2>2 DEF NoIdlePermit
<1>2. AdmissionInv /\ NoIdlePermit => WaitersHaveOwner
  BY CallsCount, IdleImplies
<1> QED
  BY <1>1, <1>2, IdleStep, AdmissionInductive, PTL DEF Spec

(* The notice that installs a pending configuration is never lost: outside *)
(* the mutex, while one waits and nothing is active, a call of a draining  *)
(* controller is still to leave, to check or to give it.                   *)
THEOREM NoNoticeIsLost == Spec => []PendingHasDrainer
<1>1. Init => Drains /\ PendingWaits
  BY DEF Init, Drains, PendingWaits
<1>2. AdmissionInv /\ Drains /\ PendingWaits => PendingHasDrainer
  BY CallsCount, DrainImplies
<1> QED
  BY <1>1, <1>2, DrainStep, AdmissionInductive, PTL DEF Spec

LEMMA RowsInductive == RowsSpec => []RowsInv
<1>1. RowsInit => RowsInv
  <2> SUFFICES ASSUME RowsInit PROVE RowsInv
    OBVIOUS
  <2>1. phase \in [Calls -> Phases]
    BY DEF RowsInit, Init, Phases
  <2>2. RowsTypeOK
    BY DEF RowsInit, RowsTypeOK, Row
  <2>3. RowsAgree
    BY TracedAssumption DEF RowsInit, Init, RowsAgree, Row
  <2> QED
    BY <2>1, <2>2, <2>3 DEF RowsInv
<1>2. RowsInv /\ [RowsNext]_allVars => RowsInv'
  BY RowsStep
<1> QED
  BY <1>1, <1>2, PTL DEF RowsSpec

-----------------------------------------------------------------------------
(* What follows.                                                           *)

(* A completion handed to the caller has its usage in the row, even when   *)
(* recovery ended that row before, and after any number of crashes.        *)
THEOREM UsageIsDurable == RowsSpec => []PublishedUsageIsDurable
<1>1. RowsInv => PublishedUsageIsDurable
  BY DEF RowsInv, RowsAgree, PublishedUsageIsDurable
<1> QED
  BY <1>1, RowsInductive, PTL

(* The first terminal outcome of a row is its last: no owner, spawned      *)
(* write or delayed recovery sweep changes it.                             *)
THEOREM EndedRowsStay == RowsSpec => TerminalRowIsFinal
<1>1. RowsInv /\ [RowsNext]_allVars =>
          [\A c \in Traced : row[c].state \in Ended =>
              /\ row'[c].state = row[c].state
              /\ row[c].usage => row'[c].usage]_allVars
  BY RowsStep DEF RowsGuarantee, Final
<1> QED
  BY <1>1, RowsInductive, PTL DEF RowsSpec, TerminalRowIsFinal

(* A provider call is only dispatched on a running row: one that recovery  *)
(* ended while the call was queued is not.                                 *)
THEOREM DispatchOnRunningRow == RowsSpec => DispatchIsRecorded
<1>1. RowsInv /\ [RowsNext]_allVars =>
          [\A c \in Traced : phase[c] # "running" /\ phase'[c] = "running"
              => row'[c].state = "running"]_allVars
  BY RowsStep DEF RowsGuarantee, Dispatched
<1> QED
  BY <1>1, RowsInductive, PTL DEF RowsSpec, DispatchIsRecorded

(* Recording the rows, losing their writes and recovering them changes     *)
(* nothing about admission: with the rows hidden, every behaviour is one   *)
(* of BackendAdmission.                                                    *)
THEOREM RowsImplementAdmission == RowsSpec => Spec
<1>1. RowsInit => Init
  BY DEF RowsInit
<1>2. [RowsNext]_allVars => [Next]_vars
  <2> SUFFICES ASSUME RowsNext PROVE Next \/ UNCHANGED vars
    BY DEF allVars
  <2>0. Traced \subseteq Calls
    BY TracedAssumption
  <2>1. CASE Admission
    BY <2>1 DEF Admission, Next
  <2>2. ASSUME NEW c \in Traced, RecordTurnAway(c) \/ RecordEviction(c)
        PROVE  Next
    BY <2>0, <2>2 DEF RecordTurnAway, RecordEviction, Next, Recording
  <2>3. ASSUME NEW c \in Traced, RecordStart(c) \/ RecordQueued(c) \/ RecordUpgrade(c)
        PROVE  Next
    BY <2>0, <2>3 DEF RecordStart, RecordQueued, RecordUpgrade, Next, Recording
  <2>4. ASSUME NEW c \in Traced, DropWait(c) PROVE Next
    BY <2>0, <2>4 DEF DropWait, Next
  <2>5. ASSUME NEW c \in Traced, DropCall(c) \/ \E t \in Outcomes : Finish(c, t) PROVE Next
    BY <2>0, <2>5 DEF DropCall, Finish, Next, Recording
  <2>6. ASSUME NEW c \in Traced,
               LateWrite(c) \/ SweepEnds(c) \/ SweepSkips(c) \/ ParentEnds(c)
        PROVE  UNCHANGED vars
    BY <2>6 DEF LateWrite, SweepEnds, SweepSkips, ParentEnds
  <2>7. CASE SweepRead
    BY <2>7 DEF SweepRead
  <2>8. CASE CrashRows
    BY <2>8 DEF CrashRows, Next
  <2> QED
    BY <2>1, <2>2, <2>3, <2>4, <2>5, <2>6, <2>7, <2>8 DEF RowsNext
<1> QED
  BY <1>1, <1>2, PTL DEF RowsSpec, Spec

(* So in every behaviour of the rows as well, whichever of their writes    *)
(* fail, the slots and the queue are accounted for, the calls at the       *)
(* provider respect the limit, the last configuration wins, and neither a  *)
(* waiter nor a pending configuration is forgotten.                        *)
THEOREM RowsKeepAdmission ==
    RowsSpec => []( /\ SlotsAccounted /\ QueueAccounted
                    /\ ProviderWithinLimit /\ ActiveIsLatest
                    /\ WaitersHaveOwner /\ PendingHasDrainer )
  BY RowsImplementAdmission, SlotsNeverLeak, QueueNeverLeaks, LimitHoldsAcrossReplacement,
     LatestConfigurationWins, NoWaiterIsForgotten, NoNoticeIsLost, PTL

=============================================================================
