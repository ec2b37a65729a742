--------------------------- MODULE AdmissionLemmas ---------------------------
(***************************************************************************)
(* What the steps of backend admission preserve, for any calls,            *)
(* configurations and reconciles.  First the calls' side: every step of a  *)
(* call has one of a few effects on the permits, the wait list and the     *)
(* counters of its controller, and the accounting survives each of them.   *)
(* Then the registry's side, the handover between controllers.  The        *)
(* inductive invariant is put together in AdmissionProofs.                 *)
(***************************************************************************)
EXTENDS BackendAdmission

(* What is used of finite sets, the calls being one (ConfigAssumption);    *)
(* AdmissionProofs derives it from the theorems about them.                *)
Counting ==
    \A S \in SUBSET Calls :
        /\ Cardinality(S) \in Nat
        /\ Cardinality(S) = 0 <=> S = {}
        /\ \A T \in SUBSET S : Cardinality(T) <= Cardinality(S)
        /\ \A c \in Calls \ S : Cardinality(S \cup {c}) = Cardinality(S) + 1

(* Calls that own a permit, and calls that may own one on their way out.   *)
MustHold == {"starting", "assigned", "granted", "upgrading", "running",
             "releasing", "returning"}
MayHold  == MustHold \cup {"leaving", "checking", "notifying"}

(* Calls that found their controller open and may still be admitted.       *)
Admissible ==
    {"trying", "entering", "lastTry", "starting", "queueing", "parking", "parked",
     "assigned", "granted", "upgrading", "running"}

Installed(g) == ctl[g].config # Removed

(* The types; that the counters stay natural follows from the accounting.  *)
IntControllers ==
    [config : Configs \cup {Removed}, closed : BOOLEAN, shut : BOOLEAN,
     free : Nat, parked : Seq(Calls), waiters : Int, inFlight : Int]

Types ==
    /\ gen \in 0 .. MaxGen
    /\ asked \in [Gens -> Configs \cup {Removed}]
    /\ active \in 0 .. MaxGen /\ pending \in 0 .. MaxGen
    /\ draining \subseteq Gens
    /\ step \in {"idle", "shut", "decide", "fill", "install"}
    /\ ctl \in [Gens -> IntControllers]
    /\ phase \in [Calls -> Phases]
    /\ on \in [Calls -> 0 .. MaxGen]
    /\ holds \in [Calls -> BOOLEAN]

(* Who owns a permit, and that a call under way has a controller.          *)
Ownership ==
    \A c \in Calls :
        /\ phase[c] \in MustHold => holds[c]
        /\ holds[c] => phase[c] \in MayHold
        /\ phase[c] \notin {"new", "gone", "done"} => on[c] # None
        /\ on[c] # None => Installed(on[c])

Distinct(s) == \A i, j \in DOMAIN s : s[i] = s[j] => i = j

(* The acquirers parked at a semaphore are the calls that wait there.      *)
ParkedAccounted ==
    \A g \in Gens : /\ Distinct(ctl[g].parked)
                    /\ Range(ctl[g].parked) = At(g, {"parked"})

CallsAccounted ==
    \A g \in Gens : /\ ctl[g].waiters = Cardinality(At(g, Waiting))
                    /\ ctl[g].inFlight = Cardinality(At(g, Counted))
                    /\ Installed(g) => ctl[g].waiters <= ctl[g].config.depth

(* Which controllers exist: none of a later generation, the active one,    *)
(* not the one a replacement would be installed for.                       *)
Generations ==
    /\ \A g \in Gens : g > gen => ctl[g].config = Removed
    /\ active # None => active <= gen /\ Installed(active)
    /\ pending <= gen
    /\ step # "idle" => gen # 0
    /\ step \in {"shut", "decide"} => /\ active # None /\ active # gen
                                      /\ ctl[active].closed /\ ~Installed(gen)
    /\ step = "fill" /\ active = None => ~Installed(gen)
    /\ active = None /\ pending # None => ~Installed(pending)

(* One controller at a time has calls that may still be admitted: the      *)
(* active one or the one that drains.                                      *)
Handover ==
    /\ \A g \in Gens : Installed(g) /\ ~ctl[g].closed => g = active
    /\ active # None => draining = {}
    /\ \A g, h \in draining : g = h
    /\ \A c \in Calls : phase[c] \in Admissible => on[c] = active \/ on[c] \in draining

(* What waits or is active is what was asked for last.                     *)
Latest ==
    /\ step \in {"idle", "fill", "install"} /\ active # None => ~ctl[active].closed
    /\ step = "fill" /\ active # None =>
          Available(asked[gen]) /\ ctl[active].config = asked[gen]
    /\ step \in {"idle", "install"} /\ active # None /\ asked[gen] # Removed =>
          Available(asked[gen]) /\ ctl[active].config = asked[gen]
    /\ step \in {"idle", "install"} /\ active = None /\ pending # None
             /\ asked[gen] # Removed =>
          asked[pending] = asked[gen]

CountInv == Types /\ Ownership /\ ParkedAccounted /\ CallsAccounted /\ SlotsAccounted
AdmissionInv == CountInv /\ Generations /\ Handover /\ Latest

-----------------------------------------------------------------------------
(* Queues: sequences without repetition.                                   *)

LEMMA SeqFacts ==
    ASSUME NEW S, NEW s \in Seq(S)
    PROVE  /\ Len(s) \in Nat /\ DOMAIN s = 1 .. Len(s) /\ s \in [1 .. Len(s) -> S]
           /\ s # <<>> => Len(s) # 0 /\ Head(s) = s[1]
  OBVIOUS

LEMMA ConcatFacts ==
    ASSUME NEW S, NEW s \in Seq(S), NEW t \in Seq(S)
    PROVE  /\ s \o t \in Seq(S) /\ Len(s \o t) = Len(s) + Len(t)
           /\ \A i \in 1 .. Len(s) + Len(t) :
                 (s \o t)[i] = IF i <= Len(s) THEN s[i] ELSE t[i - Len(s)]
  OBVIOUS

LEMMA EmptyFacts ==
    ASSUME NEW S
    PROVE  <<>> \in Seq(S) /\ DOMAIN <<>> = {}
  OBVIOUS

LEMMA QueueAppend ==
    ASSUME NEW S, NEW s \in Seq(S), Distinct(s), NEW e \in S, e \notin Range(s)
    PROVE  /\ Append(s, e) \in Seq(S) /\ Distinct(Append(s, e))
           /\ Range(Append(s, e)) = Range(s) \cup {e}
<1>1. /\ Append(s, e) \in Seq(S) /\ Len(s) \in Nat
      /\ DOMAIN s = 1 .. Len(s) /\ DOMAIN Append(s, e) = 1 .. Len(s) + 1
      /\ \A i \in 1 .. Len(s) : Append(s, e)[i] = s[i]
      /\ Append(s, e)[Len(s) + 1] = e
  BY SeqFacts
<1>2. Distinct(Append(s, e))
  BY <1>1 DEF Distinct, Range
<1>3. Range(Append(s, e)) = Range(s) \cup {e}
  BY <1>1 DEF Range
<1> QED
  BY <1>1, <1>2, <1>3

LEMMA QueueTail ==
    ASSUME NEW S, NEW s \in Seq(S), Distinct(s), s # <<>>
    PROVE  /\ Head(s) \in S /\ Head(s) \in Range(s)
           /\ Tail(s) \in Seq(S) /\ Distinct(Tail(s))
           /\ Range(Tail(s)) = Range(s) \ {Head(s)}
<1>1. /\ Len(s) \in Nat \ {0} /\ DOMAIN s = 1 .. Len(s)
      /\ Head(s) = s[1]
  BY SeqFacts
<1>2. /\ Head(s) \in S /\ Tail(s) \in Seq(S) /\ DOMAIN Tail(s) = 1 .. Len(s) - 1
      /\ \A i \in 1 .. Len(s) - 1 : Tail(s)[i] = s[i + 1]
  BY <1>1
<1>3. Distinct(Tail(s))
  <2> SUFFICES ASSUME NEW i \in 1 .. Len(s) - 1, NEW j \in 1 .. Len(s) - 1,
                      Tail(s)[i] = Tail(s)[j]
               PROVE  i = j
    BY <1>2 DEF Distinct
  <2>1. s[i + 1] = s[j + 1] /\ i + 1 \in DOMAIN s /\ j + 1 \in DOMAIN s
    BY <1>1, <1>2
  <2> QED
    BY <2>1 DEF Distinct
<1>4. ASSUME NEW x PROVE x \in Range(Tail(s)) <=> x \in Range(s) /\ x # Head(s)
  <2>1. x \in Range(Tail(s)) => x \in Range(s) /\ x # Head(s)
    <3> SUFFICES ASSUME NEW i \in 1 .. Len(s) - 1, x = s[i + 1]
                 PROVE  x \in Range(s) /\ x # Head(s)
      BY <1>2 DEF Range
    <3>1. i + 1 \in DOMAIN s /\ 1 \in DOMAIN s /\ i + 1 # 1
      BY <1>1
    <3> QED
      BY <1>1, <3>1 DEF Distinct, Range
  <2>2. x \in Range(s) /\ x # Head(s) => x \in Range(Tail(s))
    <3> SUFFICES ASSUME NEW i \in 1 .. Len(s), x = s[i], i # 1
                 PROVE  x \in Range(Tail(s))
      BY <1>1 DEF Range
    <3>1. i - 1 \in 1 .. Len(s) - 1 /\ Tail(s)[i - 1] = s[i]
      BY <1>1, <1>2
    <3> QED
      BY <1>2, <3>1 DEF Range
  <2> QED
    BY <2>1, <2>2
<1>5. Head(s) \in Range(s)
  BY <1>1 DEF Range
<1> QED
  BY <1>2, <1>3, <1>4, <1>5

LEMMA QueueRemove ==
    ASSUME NEW S, NEW s \in Seq(S), Distinct(s), NEW e \in Range(s)
    PROVE  LET t == Unpark(s, e)
           IN  t \in Seq(S) /\ Distinct(t) /\ Range(t) = Range(s) \ {e}
<1> DEFINE t == Unpark(s, e)
<1>1. PICK n \in Nat : n = Len(s) /\ DOMAIN s = 1 .. n
  BY SeqFacts
<1>2. PICK k \in 1 .. n : k = Place(s, e) /\ s[k] = e
  <2>1. \E i \in DOMAIN s : s[i] = e
    BY DEF Range
  <2> QED
    BY <1>1, <2>1 DEF Place
<1>0. \A i, j \in 1 .. n : s[i] = s[j] => i = j
  BY <1>1 DEF Distinct
<1> DEFINE u == SubSeq(s, 1, k - 1)
           v == SubSeq(s, k + 1, n)
<1>3. u \in Seq(S) /\ Len(u) = k - 1 /\ \A i \in 1 .. k - 1 : u[i] = s[i]
  <2>1. \A i \in 1 .. k - 1 : s[i] \in S
    BY <1>1, <1>2, SeqFacts
  <2>2. /\ u \in Seq(S) /\ Len(u) = IF 1 <= k - 1 THEN (k - 1) - 1 + 1 ELSE 0
        /\ \A i \in 1 .. (k - 1) - 1 + 1 : u[i] = s[1 + i - 1]
    BY <1>2, <2>1
  <2> QED
    BY <1>2, <2>2
<1>4. v \in Seq(S) /\ Len(v) = n - k /\ \A i \in 1 .. n - k : v[i] = s[k + i]
  <2>1. \A i \in k + 1 .. n : s[i] \in S
    BY <1>1, <1>2, SeqFacts
  <2>2. /\ v \in Seq(S) /\ Len(v) = IF k + 1 <= n THEN n - (k + 1) + 1 ELSE 0
        /\ \A i \in 1 .. n - (k + 1) + 1 : v[i] = s[(k + 1) + i - 1]
    BY <1>1, <1>2, <2>1
  <2> QED
    BY <1>1, <1>2, <2>2
<1>5. /\ t \in Seq(S) /\ DOMAIN t = 1 .. n - 1
      /\ \A i \in 1 .. n - 1 : t[i] = IF i < k THEN s[i] ELSE s[i + 1]
  <2>1. t = u \o v
    BY <1>1, <1>2 DEF Unpark
  <2> HIDE DEF u, v, t
  <2>2. /\ t \in Seq(S) /\ Len(t) = Len(u) + Len(v)
        /\ \A i \in 1 .. Len(u) + Len(v) : t[i] = IF i <= Len(u) THEN u[i] ELSE v[i - Len(u)]
    BY <1>3, <1>4, <2>1, ConcatFacts
  <2>3. DOMAIN t = 1 .. n - 1
    BY <1>1, <1>2, <1>3, <1>4, <2>2, SeqFacts
  <2>4. ASSUME NEW i \in 1 .. n - 1 PROVE t[i] = IF i < k THEN s[i] ELSE s[i + 1]
    <3>0. i \in 1 .. (k - 1) + (n - k)
      OBVIOUS
    <3>1. t[i] = IF i <= k - 1 THEN u[i] ELSE v[i - (k - 1)]
      BY <1>3, <1>4, <2>2, <3>0
    <3>2. CASE i < k
      <4>1. i <= k - 1 /\ i \in 1 .. k - 1
        BY <3>2
      <4> QED
        BY <1>3, <3>1, <3>2, <4>1
    <3>3. CASE ~(i < k)
      <4>1. i - (k - 1) \in 1 .. n - k /\ k + (i - (k - 1)) = i + 1 /\ ~(i <= k - 1)
        BY <3>3
      <4>2. v[i - (k - 1)] = s[k + (i - (k - 1))]
        BY <1>4, <4>1
      <4> QED
        BY <3>1, <3>3, <4>1, <4>2
    <3> QED
      BY <3>2, <3>3
  <2> QED
    BY <2>2, <2>3, <2>4
<1> HIDE DEF t, u, v
<1>6. Distinct(t)
  <2> SUFFICES ASSUME NEW i \in 1 .. n - 1, NEW j \in 1 .. n - 1, t[i] = t[j]
               PROVE  i = j
    BY <1>5 DEF Distinct
  <2>1. i \in 1 .. n /\ j \in 1 .. n /\ i + 1 \in 1 .. n /\ j + 1 \in 1 .. n
    OBVIOUS
  <2>2. /\ t[i] = IF i < k THEN s[i] ELSE s[i + 1]
        /\ t[j] = IF j < k THEN s[j] ELSE s[j + 1]
    BY <1>5
  <2>3. CASE i < k /\ j < k
    BY <1>0, <2>1, <2>2, <2>3
  <2>4. CASE i < k /\ ~(j < k)
    <3>1. i = j + 1
      BY <1>0, <2>1, <2>2, <2>4
    <3> QED
      BY <2>4, <3>1
  <2>5. CASE ~(i < k) /\ j < k
    <3>1. i + 1 = j
      BY <1>0, <2>1, <2>2, <2>5
    <3> QED
      BY <2>5, <3>1
  <2>6. CASE ~(i < k) /\ ~(j < k)
    <3>1. i + 1 = j + 1
      BY <1>0, <2>1, <2>2, <2>6
    <3> QED
      BY <3>1
  <2> QED
    BY <2>3, <2>4, <2>5, <2>6
<1>7. ASSUME NEW x PROVE x \in Range(t) <=> x \in Range(s) /\ x # e
  <2>1. ASSUME NEW i \in 1 .. n - 1 PROVE t[i] \in Range(s) /\ t[i] # e
    <3>1. \E j \in 1 .. n : t[i] = s[j] /\ j # k
      <4>1. CASE i < k
        BY <1>5, <4>1
      <4>2. CASE ~(i < k)
        <5>1. i + 1 \in 1 .. n /\ i + 1 # k
          BY <4>2
        <5> QED
          BY <1>5, <4>2, <5>1
      <4> QED
        BY <4>1, <4>2
    <3>2. PICK j \in 1 .. n : t[i] = s[j] /\ j # k
      BY <3>1
    <3>3. s[j] \in Range(s)
      BY <1>1 DEF Range
    <3> QED
      BY <1>0, <1>2, <3>2, <3>3
  <2>2. ASSUME NEW i \in 1 .. n, s[i] # e PROVE s[i] \in Range(t)
    <3>1. CASE i < k
      <4>1. i \in 1 .. n - 1
        BY <3>1
      <4>2. t[i] = s[i]
        BY <1>5, <3>1, <4>1
      <4> QED
        BY <1>5, <4>1, <4>2 DEF Range
    <3>2. CASE i > k
      <4>1. i - 1 \in 1 .. n - 1 /\ ~(i - 1 < k) /\ (i - 1) + 1 = i
        BY <3>2
      <4>2. t[i - 1] = s[i]
        BY <1>5, <4>1
      <4> QED
        BY <1>5, <4>1, <4>2 DEF Range
    <3> QED
      BY <1>1, <1>2, <2>2, <3>1, <3>2
  <2> QED
    BY <1>1, <1>5, <2>1, <2>2 DEF Range
<1> QED
  BY <1>5, <1>6, <1>7 DEF t

-----------------------------------------------------------------------------
(* Counting.                                                               *)

One(b) == IF b THEN 1 ELSE 0

(* How the size of a set of calls changes when one call moves.             *)
LEMMA CountMove ==
    ASSUME Counting, NEW S \in SUBSET Calls, NEW T \in SUBSET Calls, NEW c \in Calls,
           \A d \in Calls \ {c} : d \in T <=> d \in S
    PROVE  Cardinality(T) = Cardinality(S) + One(c \in T) - One(c \in S)
<1>1. Cardinality(S) \in Nat /\ Cardinality(T) \in Nat
  BY DEF Counting
<1>2. CASE c \in T /\ c \notin S
  <2>1. T = S \cup {c}
    BY <1>2
  <2> QED
    BY <1>1, <1>2, <2>1 DEF One, Counting
<1>3. CASE c \notin T /\ c \in S
  <2>1. S = T \cup {c}
    BY <1>3
  <2> QED
    BY <1>1, <1>3, <2>1 DEF One, Counting
<1>4. CASE c \in T <=> c \in S
  <2>1. T = S
    BY <1>4
  <2> QED
    BY <1>1, <2>1 DEF One
<1> QED
  BY <1>2, <1>3, <1>4

-----------------------------------------------------------------------------
(* The steps of a call.  Each leaves the registry and the configurations   *)
(* alone, counts the call in and out as its phase says, and does one of    *)
(* five things to permits and waiters.                                     *)

Steady(c) ==
    /\ UNCHANGED <<registry, on>>
    /\ ctl' \in [Gens -> IntControllers]
    /\ phase' \in [Calls -> Phases] /\ holds' \in [Calls -> BOOLEAN]
    /\ \A g \in Gens : /\ ctl'[g].config = ctl[g].config
                       /\ ctl'[g].closed = ctl[g].closed
                       /\ g # on[c] => ctl'[g] = ctl[g]

Counts(c) ==
    /\ \A d \in Calls \ {c} :
          phase'[d] = phase[d] \/ (phase[d] = "parked" /\ phase'[d] = "assigned")
    /\ on[c] # None =>
          /\ ctl'[on[c]].waiters =
                ctl[on[c]].waiters + One(phase'[c] \in Waiting) - One(phase[c] \in Waiting)
          /\ ctl'[on[c]].inFlight =
                ctl[on[c]].inFlight + One(phase'[c] \in Counted) - One(phase[c] \in Counted)
          /\ \/ ctl'[on[c]].waiters <= ctl[on[c]].waiters
             \/ ctl'[on[c]].waiters <= ctl[on[c]].config.depth

(* Only an open controller lets a call go on towards admission. *)
Enters(c) ==
    phase'[c] \in Admissible =>
        phase[c] \in Admissible \/ (phase[c] = "counted" /\ ~ctl[on[c]].closed)

Placed(c) ==
    /\ phase'[c] \in MustHold => holds'[c]
    /\ holds'[c] => phase'[c] \in MayHold
    /\ phase'[c] \notin {"new", "gone", "done"} => on[c] # None

SameParked == \A g \in Gens : ctl'[g].parked = ctl[g].parked

Plain(c) ==
    /\ holds' = holds /\ SameParked
    /\ \A d \in Calls \ {c} : phase'[d] = phase[d]
    /\ phase[c] # "parked" /\ phase'[c] # "parked"
    /\ \A g \in Gens : ctl'[g].free = ctl[g].free

Takes(c) ==
    /\ ~holds[c] /\ on[c] # None /\ SameParked
    /\ holds' = [holds EXCEPT ![c] = TRUE]
    /\ \A d \in Calls \ {c} : phase'[d] = phase[d]
    /\ phase[c] # "parked" /\ phase'[c] # "parked"
    /\ ctl'[on[c]].free = ctl[on[c]].free - 1

GivesBack(c) ==
    /\ holds[c] /\ on[c] # None /\ SameParked
    /\ holds' = [holds EXCEPT ![c] = FALSE]
    /\ \A d \in Calls \ {c} : phase'[d] = phase[d]
    /\ phase[c] # "parked" /\ phase'[c] # "parked"
    /\ ctl'[on[c]].free = ctl[on[c]].free + 1

HandsOn(c, w) ==
    /\ holds[c] /\ on[c] # None /\ phase[c] # "parked" /\ phase'[c] # "parked"
    /\ ctl[on[c]].parked # <<>> /\ w = Head(ctl[on[c]].parked)
    /\ ctl'[on[c]].parked = Tail(ctl[on[c]].parked)
    /\ holds' = [holds EXCEPT ![c] = FALSE, ![w] = TRUE]
    /\ phase'[w] = "assigned"
    /\ \A d \in Calls \ {c, w} : phase'[d] = phase[d]
    /\ ctl'[on[c]].free = ctl[on[c]].free

Requeues(c) ==
    /\ on[c] # None /\ holds' = holds
    /\ \A d \in Calls \ {c} : phase'[d] = phase[d]
    /\ ctl'[on[c]].free = ctl[on[c]].free
    /\ \/ /\ phase[c] # "parked" /\ phase'[c] = "parked"
          /\ ctl'[on[c]].parked = Append(ctl[on[c]].parked, c)
       \/ /\ phase[c] = "parked" /\ phase'[c] # "parked"
          /\ ctl'[on[c]].parked = Unpark(ctl[on[c]].parked, c)

CallStep(c) ==
    /\ Steady(c) /\ Counts(c) /\ Enters(c) /\ Placed(c)
    /\ \/ Plain(c) \/ Takes(c) \/ GivesBack(c) \/ Requeues(c)
       \/ \E w \in Calls : w # c /\ HandsOn(c, w)

-----------------------------------------------------------------------------
(* The counters of a controller follow its calls.                          *)
LEMMA AtMoves ==
    ASSUME Counting, NEW c \in Calls, NEW g \in Gens, NEW S, on' = on,
           "parked" \in S <=> "assigned" \in S,
           \A d \in Calls \ {c} :
               phase'[d] = phase[d] \/ (phase[d] = "parked" /\ phase'[d] = "assigned")
    PROVE  Cardinality(At(g, S)') = Cardinality(At(g, S))
               + One(on[c] = g /\ phase'[c] \in S) - One(on[c] = g /\ phase[c] \in S)
<1>1. At(g, S) \in SUBSET Calls /\ At(g, S)' \in SUBSET Calls
  BY DEF At
<1>2. \A d \in Calls \ {c} : d \in At(g, S)' <=> d \in At(g, S)
  BY DEF At
<1>3. /\ (c \in At(g, S)') <=> (on[c] = g /\ phase'[c] \in S)
      /\ (c \in At(g, S)) <=> (on[c] = g /\ phase[c] \in S)
  BY DEF At
<1>4. Cardinality(At(g, S)') = Cardinality(At(g, S)) + One(c \in At(g, S)')
                               - One(c \in At(g, S))
  BY <1>1, <1>2, CountMove
<1> QED
  BY <1>3, <1>4 DEF One

LEMMA CallsAccountedStep ==
    ASSUME Counting, NEW c \in Calls, Types, CallsAccounted, Steady(c), Counts(c)
    PROVE  CallsAccounted'
<1> SUFFICES ASSUME NEW g \in Gens
             PROVE  /\ ctl'[g].waiters = Cardinality(At(g, Waiting)')
                    /\ ctl'[g].inFlight = Cardinality(At(g, Counted)')
                    /\ ctl'[g].config # Removed => ctl'[g].waiters <= ctl'[g].config.depth
  BY DEF CallsAccounted, Installed
<1>1. /\ ctl[g].waiters = Cardinality(At(g, Waiting))
      /\ ctl[g].inFlight = Cardinality(At(g, Counted))
      /\ ctl[g].config # Removed => ctl[g].waiters <= ctl[g].config.depth
  BY DEF CallsAccounted, Installed
<1>2. on' = on /\ ctl'[g].config = ctl[g].config /\ (g # on[c] => ctl'[g] = ctl[g])
  BY DEF Steady
<1>3. /\ Cardinality(At(g, Waiting)') = Cardinality(At(g, Waiting))
            + One(on[c] = g /\ phase'[c] \in Waiting) - One(on[c] = g /\ phase[c] \in Waiting)
      /\ Cardinality(At(g, Counted)') = Cardinality(At(g, Counted))
            + One(on[c] = g /\ phase'[c] \in Counted) - One(on[c] = g /\ phase[c] \in Counted)
  <2>1. /\ "parked" \in Waiting <=> "assigned" \in Waiting
        /\ "parked" \in Counted <=> "assigned" \in Counted
    BY DEF Waiting, Counted
  <2> QED
    BY <1>2, <2>1, AtMoves DEF Counts
<1>4. CASE g = on[c]
  <2>1. on[c] # None
    BY <1>4 DEF Gens, None
  <2>2. ctl[g].waiters \in Int /\ ctl'[g].waiters \in Int
    BY DEF Types, Steady, IntControllers
  <2>3. ctl[g].config # Removed => ctl[g].config.depth \in Int
    BY ConfigAssumption DEF Types, IntControllers
  <2> QED
    BY <1>1, <1>2, <1>3, <1>4, <2>1, <2>2, <2>3 DEF Counts, One
<1>5. CASE g # on[c]
  <2>1. Cardinality(At(g, Waiting)) \in Nat /\ Cardinality(At(g, Counted)) \in Nat
    BY DEF At, Counting
  <2> QED
    BY <1>1, <1>2, <1>3, <1>5, <2>1 DEF One
<1> QED
  BY <1>4, <1>5

(* The waiter a returned permit goes to is another call, parked at the     *)
(* same controller and without a permit.                                   *)
LEMMA NextWaiter ==
    ASSUME NEW c \in Calls, NEW w \in Calls, Types, Ownership, ParkedAccounted,
           HandsOn(c, w)
    PROVE  /\ on[c] \in Gens /\ on[w] = on[c] /\ phase[w] = "parked" /\ ~holds[w]
           /\ w # c
           /\ ctl'[on[c]].parked \in Seq(Calls) /\ Distinct(ctl'[on[c]].parked)
           /\ Range(ctl'[on[c]].parked) = At(on[c], {"parked"}) \ {w}
<1>1. on[c] \in Gens /\ ctl[on[c]].parked \in Seq(Calls)
  BY DEF HandsOn, Types, Gens, None, IntControllers
<1>2. Distinct(ctl[on[c]].parked) /\ Range(ctl[on[c]].parked) = At(on[c], {"parked"})
  BY <1>1 DEF ParkedAccounted
<1>3. /\ w \in At(on[c], {"parked"})
      /\ ctl'[on[c]].parked \in Seq(Calls) /\ Distinct(ctl'[on[c]].parked)
      /\ Range(ctl'[on[c]].parked) = At(on[c], {"parked"}) \ {w}
  BY <1>1, <1>2, QueueTail DEF HandsOn
<1>4. on[w] = on[c] /\ phase[w] = "parked"
  BY <1>3 DEF At
<1>5. ~holds[w]
  BY <1>4 DEF Ownership, MayHold, MustHold
<1> QED
  BY <1>1, <1>3, <1>4, <1>5 DEF HandsOn

LEMMA OwnershipStep ==
    ASSUME NEW c \in Calls, Types, Ownership, ParkedAccounted, CallStep(c)
    PROVE  Ownership'
<1>0. /\ \A d \in Calls : on[d] # None => on[d] \in Gens
      /\ on' = on /\ \A g \in Gens : ctl'[g].config = ctl[g].config
  BY DEF CallStep, Steady, Types, Gens, None
<1> SUFFICES ASSUME NEW d \in Calls
             PROVE  /\ phase'[d] \in MustHold => holds'[d]
                    /\ holds'[d] => phase'[d] \in MayHold
                    /\ phase'[d] \notin {"new", "gone", "done"} => on[d] # None
                    /\ on[d] # None => Installed(on[d])
  BY <1>0 DEF Ownership, Installed
<1>1. on[d] # None => Installed(on[d])
  BY DEF Ownership
<1>2. CASE d = c
  BY <1>1, <1>2 DEF CallStep, Placed
<1>3. ASSUME d # c, phase'[d] = phase[d], holds'[d] = holds[d]
      PROVE  /\ phase'[d] \in MustHold => holds'[d]
             /\ holds'[d] => phase'[d] \in MayHold
             /\ phase'[d] \notin {"new", "gone", "done"} => on[d] # None
  BY <1>3 DEF Ownership
<1>4. CASE d # c /\ (Plain(c) \/ Takes(c) \/ GivesBack(c) \/ Requeues(c))
  <2>1. phase'[d] = phase[d] /\ holds'[d] = holds[d]
    BY <1>4 DEF Plain, Takes, GivesBack, Requeues, Types
  <2> QED
    BY <1>1, <1>3, <1>4, <2>1
<1>5. ASSUME d # c, NEW w \in Calls, HandsOn(c, w)
      PROVE  /\ phase'[d] \in MustHold => holds'[d]
             /\ holds'[d] => phase'[d] \in MayHold
             /\ phase'[d] \notin {"new", "gone", "done"} => on[d] # None
  <2>1. CASE d = w
    <3>1. phase'[d] = "assigned" /\ holds'[d] /\ on[d] = on[c] /\ on[c] # None
      BY <1>5, <2>1, NextWaiter DEF HandsOn, Types
    <3> QED
      BY <3>1 DEF MustHold, MayHold
  <2>2. CASE d # w
    <3>1. phase'[d] = phase[d] /\ holds'[d] = holds[d]
      BY <1>5, <2>2 DEF HandsOn, Types
    <3> QED
      BY <1>3, <1>5, <3>1
  <2> QED
    BY <2>1, <2>2
<1> QED
  BY <1>1, <1>2, <1>4, <1>5 DEF CallStep

LEMMA ParkedAccountedStep ==
    ASSUME NEW c \in Calls, Types, Ownership, ParkedAccounted, CallStep(c)
    PROVE  ParkedAccounted'
<1>0. on' = on /\ \A g \in Gens : g # on[c] => ctl'[g] = ctl[g]
  BY DEF CallStep, Steady
<1> SUFFICES ASSUME NEW g \in Gens
             PROVE  /\ Distinct(ctl'[g].parked)
                    /\ Range(ctl'[g].parked) = At(g, {"parked"})'
  BY DEF ParkedAccounted, Distinct
<1>1. /\ Distinct(ctl[g].parked) /\ Range(ctl[g].parked) = At(g, {"parked"})
      /\ ctl[g].parked \in Seq(Calls)
  BY DEF ParkedAccounted, Types, IntControllers
<1>2. CASE Plain(c) \/ Takes(c) \/ GivesBack(c)
  <2>1. ctl'[g].parked = ctl[g].parked
    BY <1>2 DEF Plain, Takes, GivesBack, SameParked
  <2>2. At(g, {"parked"})' = At(g, {"parked"})
    BY <1>0, <1>2 DEF Plain, Takes, GivesBack, At
  <2> QED
    BY <1>1, <2>1, <2>2
<1>3. CASE Requeues(c) /\ g # on[c]
  <2>1. ctl'[g].parked = ctl[g].parked /\ At(g, {"parked"})' = At(g, {"parked"})
    BY <1>0, <1>3 DEF Requeues, At
  <2> QED
    BY <1>1, <2>1
<1>4. CASE Requeues(c) /\ g = on[c] /\ phase[c] # "parked"
  <2>1. c \notin Range(ctl[g].parked)
    BY <1>1, <1>4 DEF At
  <2>2. ctl'[g].parked = Append(ctl[g].parked, c)
    BY <1>4 DEF Requeues
  <2>3. At(g, {"parked"})' = At(g, {"parked"}) \cup {c}
    BY <1>0, <1>4 DEF Requeues, At
  <2>4. LET t == Append(ctl[g].parked, c)
        IN  Distinct(t) /\ Range(t) = Range(ctl[g].parked) \cup {c}
    BY <1>1, <2>1, QueueAppend
  <2> QED
    BY <1>1, <2>2, <2>3, <2>4
<1>5. CASE Requeues(c) /\ g = on[c] /\ phase[c] = "parked"
  <2>1. c \in Range(ctl[g].parked)
    BY <1>1, <1>5 DEF At
  <2>2. ctl'[g].parked = Unpark(ctl[g].parked, c)
    BY <1>5 DEF Requeues
  <2>3. At(g, {"parked"})' = At(g, {"parked"}) \ {c}
    BY <1>0, <1>5 DEF Requeues, At
  <2>4. LET t == Unpark(ctl[g].parked, c)
        IN  Distinct(t) /\ Range(t) = Range(ctl[g].parked) \ {c}
    BY <1>1, <2>1, QueueRemove
  <2> QED
    BY <1>1, <2>2, <2>3, <2>4
<1>6. ASSUME NEW w \in Calls, HandsOn(c, w)
      PROVE  /\ Distinct(ctl'[g].parked)
             /\ Range(ctl'[g].parked) = At(g, {"parked"})'
  <2>1. /\ on[w] = on[c] /\ phase[w] = "parked" /\ phase'[w] = "assigned"
        /\ phase[c] # "parked" /\ phase'[c] # "parked"
        /\ \A d \in Calls \ {c, w} : phase'[d] = phase[d]
    BY <1>6, NextWaiter DEF HandsOn
  <2>2. At(g, {"parked"})' = IF g = on[c] THEN At(g, {"parked"}) \ {w} ELSE At(g, {"parked"})
    BY <1>0, <2>1 DEF At
  <2>3. CASE g = on[c]
    BY <1>6, <2>2, <2>3, NextWaiter
  <2>4. CASE g # on[c]
    BY <1>0, <1>1, <2>2, <2>4
  <2> QED
    BY <2>3, <2>4
<1> QED
  BY <1>2, <1>3, <1>4, <1>5, <1>6 DEF CallStep

LEMMA SlotsAccountedStep ==
    ASSUME Counting, NEW c \in Calls, Types, Ownership, ParkedAccounted, SlotsAccounted, CallStep(c)
    PROVE  SlotsAccounted'
<1>0. /\ on' = on
      /\ \A g \in Gens : (g # on[c] => ctl'[g] = ctl[g]) /\ ctl'[g].config = ctl[g].config
  BY DEF CallStep, Steady
<1> SUFFICES ASSUME NEW g \in Gens
             PROVE  ctl'[g].free + Cardinality(Owners(g)') = Capacity(g)'
  BY DEF SlotsAccounted
<1>1. /\ ctl[g].free + Cardinality(Owners(g)) = Capacity(g) /\ Capacity(g)' = Capacity(g)
      /\ ctl[g].free \in Int /\ ctl'[g].free \in Int
  BY <1>0 DEF SlotsAccounted, Capacity, Types, IntControllers, CallStep, Steady
<1>2. Owners(g) \in SUBSET Calls /\ Owners(g)' \in SUBSET Calls
  BY DEF Owners
<1>3. Cardinality(Owners(g)) \in Nat /\ Cardinality(Owners(g)') \in Nat
  BY <1>2 DEF Counting
<1>4. CASE Plain(c) \/ Requeues(c)
  <2>1. Owners(g)' = Owners(g) /\ ctl'[g].free = ctl[g].free
    BY <1>0, <1>4 DEF Plain, Requeues, Owners
  <2> QED
    BY <1>1, <2>1
<1>5. CASE Takes(c) \/ GivesBack(c)
  <2>1. \A d \in Calls \ {c} : d \in Owners(g)' <=> d \in Owners(g)
    BY <1>0, <1>5 DEF Takes, GivesBack, Owners, Types
  <2>2. Cardinality(Owners(g)') = Cardinality(Owners(g)) + One(c \in Owners(g)')
                                  - One(c \in Owners(g))
    BY <1>2, <2>1, CountMove
  <2>3. CASE g # on[c]
    <3>1. c \notin Owners(g) /\ c \notin Owners(g)' /\ ctl'[g] = ctl[g]
      BY <1>0, <2>3 DEF Owners
    <3> QED
      BY <1>1, <1>3, <2>2, <3>1 DEF One
  <2>4. CASE g = on[c] /\ Takes(c)
    <3>1. c \notin Owners(g) /\ c \in Owners(g)' /\ ctl'[g].free = ctl[g].free - 1
      BY <1>0, <2>4 DEF Owners, Takes, Types
    <3> QED
      BY <1>1, <1>3, <2>2, <3>1 DEF One
  <2>5. CASE g = on[c] /\ GivesBack(c)
    <3>1. c \in Owners(g) /\ c \notin Owners(g)' /\ ctl'[g].free = ctl[g].free + 1
      BY <1>0, <2>5 DEF Owners, GivesBack, Types
    <3> QED
      BY <1>1, <1>3, <2>2, <3>1 DEF One
  <2> QED
    BY <1>5, <2>3, <2>4, <2>5
<1>6. ASSUME NEW w \in Calls, HandsOn(c, w)
      PROVE  ctl'[g].free + Cardinality(Owners(g)') = Capacity(g)'
  <2>1. /\ on[w] = on[c] /\ ~holds[w] /\ w # c /\ holds[c]
        /\ holds' = [holds EXCEPT ![c] = FALSE, ![w] = TRUE]
    BY <1>6, NextWaiter DEF HandsOn
  <2>2. CASE g # on[c]
    <3>1. Owners(g)' = Owners(g) /\ ctl'[g] = ctl[g]
      BY <1>0, <2>1, <2>2 DEF Owners, Types
    <3> QED
      BY <1>1, <3>1
  <2>3. CASE g = on[c]
    <3> DEFINE U == Owners(g) \ {c}
    <3>1. /\ U \in SUBSET Calls /\ c \in Owners(g) /\ c \notin U /\ w \notin U
          /\ \A d \in Calls \ {c} : d \in U <=> d \in Owners(g)
      BY <1>2, <2>1, <2>3 DEF Owners
    <3>2. w \in Owners(g)' /\ \A d \in Calls \ {w} : d \in Owners(g)' <=> d \in U
      BY <1>0, <2>1, <2>3 DEF Owners, Types
    <3>3. /\ Cardinality(U) = Cardinality(Owners(g)) + One(c \in U) - One(c \in Owners(g))
          /\ Cardinality(Owners(g)') = Cardinality(U) + One(w \in Owners(g)') - One(w \in U)
      BY <1>2, <3>1, <3>2, CountMove
    <3>4. ctl'[g].free = ctl[g].free
      BY <1>6, <2>3 DEF HandsOn
    <3> HIDE DEF U
    <3> QED
      BY <1>1, <1>3, <3>1, <3>2, <3>3, <3>4 DEF One
  <2> QED
    BY <2>2, <2>3
<1> QED
  BY <1>4, <1>5, <1>6 DEF CallStep

-----------------------------------------------------------------------------
(* The actions of a call take such steps.                                  *)

LEMMA Fields ==
    ASSUME NEW r \in IntControllers
    PROVE  /\ \A n \in Nat : [r EXCEPT !.free = n] \in IntControllers
           /\ \A n \in Int : [r EXCEPT !.waiters = n] \in IntControllers
           /\ \A n \in Int : [r EXCEPT !.inFlight = n] \in IntControllers
           /\ \A s \in Seq(Calls) : [r EXCEPT !.parked = s] \in IntControllers
  BY DEF IntControllers

LEMMA HasController ==
    ASSUME NEW c \in Calls, Types, Ownership, phase[c] \notin {"new", "gone", "done"}
    PROVE  /\ on[c] # None /\ on[c] \in Gens /\ ctl[on[c]] \in IntControllers
           /\ ctl[on[c]].config \in Configs
<1>1. on[c] # None /\ on[c] \in Gens /\ Installed(on[c])
  BY DEF Ownership, Types, Gens, None
<1>2. ctl[on[c]] \in IntControllers
  BY <1>1 DEF Types
<1> QED
  BY <1>1, <1>2 DEF Installed, IntControllers

(* A step that only moves the call on. *)
LEMMA GoStep ==
    ASSUME NEW c \in Calls, NEW q \in Phases \ {"parked"}, Types,
           phase[c] # "parked", Go(c, q), UNCHANGED <<registry, ctl, on, holds>>,
           on[c] # None => /\ q \in Waiting <=> phase[c] \in Waiting
                           /\ q \in Counted <=> phase[c] \in Counted,
           q \in MustHold => holds[c], holds[c] => q \in MayHold,
           q \notin {"new", "gone", "done"} => on[c] # None,
           q \in Admissible =>
               phase[c] \in Admissible \/ (phase[c] = "counted" /\ ~ctl[on[c]].closed)
    PROVE  CallStep(c)
<1>1. /\ phase' \in [Calls -> Phases] /\ phase'[c] = q
      /\ \A d \in Calls \ {c} : phase'[d] = phase[d]
  BY DEF Go, Types
<1>2. Steady(c)
  BY <1>1 DEF Steady, Types
<1>3. Counts(c)
  <2>1. on[c] # None => ctl[on[c]].waiters \in Int /\ ctl[on[c]].inFlight \in Int
    BY DEF Types, IntControllers, Gens, None
  <2> QED
    BY <1>1, <2>1 DEF Counts, One
<1>4. Enters(c) /\ Placed(c) /\ Plain(c)
  BY <1>1 DEF Enters, Placed, Plain, SameParked
<1> QED
  BY <1>2, <1>3, <1>4 DEF CallStep

(* A step that moves the call on and one of the two counters with it. *)
LEMMA CountStep ==
    ASSUME NEW c \in Calls, NEW q \in Phases \ {"parked"}, Types, Ownership,
           phase[c] \notin {"new", "gone", "done", "parked"},
           Go(c, q), UNCHANGED <<registry, on, holds>>,
           NEW w \in Int, NEW n \in Int,
           w = ctl[on[c]].waiters + One(q \in Waiting) - One(phase[c] \in Waiting),
           n = ctl[on[c]].inFlight + One(q \in Counted) - One(phase[c] \in Counted),
           w <= ctl[on[c]].waiters \/ w <= ctl[on[c]].config.depth,
           \/ w = ctl[on[c]].waiters /\ ctl' = [ctl EXCEPT ![on[c]].inFlight = n]
           \/ n = ctl[on[c]].inFlight /\ ctl' = [ctl EXCEPT ![on[c]].waiters = w],
           q \in MustHold => holds[c], holds[c] => q \in MayHold,
           q \in Admissible => phase[c] \in Admissible
    PROVE  CallStep(c)
<1>1. /\ phase' \in [Calls -> Phases] /\ phase'[c] = q
      /\ \A d \in Calls \ {c} : phase'[d] = phase[d]
  BY DEF Go, Types
<1>2. on[c] # None /\ on[c] \in Gens /\ ctl[on[c]] \in IntControllers
  BY HasController
<1>3. /\ ctl' \in [Gens -> IntControllers]
      /\ \A g \in Gens : /\ g # on[c] => ctl'[g] = ctl[g]
                         /\ ctl'[g].config = ctl[g].config
                         /\ ctl'[g].closed = ctl[g].closed
                         /\ ctl'[g].parked = ctl[g].parked
                         /\ ctl'[g].free = ctl[g].free
      /\ ctl'[on[c]].waiters = w /\ ctl'[on[c]].inFlight = n
  <2>1. /\ [ctl[on[c]] EXCEPT !.inFlight = n] \in IntControllers
        /\ [ctl[on[c]] EXCEPT !.waiters = w] \in IntControllers
    BY <1>2, Fields
  <2>2. CASE w = ctl[on[c]].waiters /\ ctl' = [ctl EXCEPT ![on[c]].inFlight = n]
    BY <1>2, <2>1, <2>2 DEF Types, IntControllers
  <2>3. CASE n = ctl[on[c]].inFlight /\ ctl' = [ctl EXCEPT ![on[c]].waiters = w]
    BY <1>2, <2>1, <2>3 DEF Types, IntControllers
  <2> QED
    BY <2>2, <2>3
<1>4. Steady(c)
  BY <1>1, <1>3 DEF Steady, Types
<1>5. Counts(c)
  BY <1>1, <1>2, <1>3 DEF Counts
<1>6. Enters(c) /\ Placed(c) /\ Plain(c)
  BY <1>1, <1>2, <1>3 DEF Enters, Placed, Plain, SameParked
<1> QED
  BY <1>4, <1>5, <1>6 DEF CallStep

(* A step that takes a free permit. *)
LEMMA TakeStep ==
    ASSUME NEW c \in Calls, NEW q \in {"starting", "granted"}, Types, Ownership,
           \/ phase[c] \in {"trying", "lastTry"} /\ q = "starting"
           \/ phase[c] = "parking" /\ q = "granted",
           ctl[on[c]].free > 0, TakePermit(c, q), UNCHANGED <<registry, on>>
    PROVE  CallStep(c)
<1>1. /\ phase' \in [Calls -> Phases] /\ phase'[c] = q /\ holds' \in [Calls -> BOOLEAN]
      /\ \A d \in Calls \ {c} : phase'[d] = phase[d]
      /\ holds' = [holds EXCEPT ![c] = TRUE] /\ holds'[c]
  BY DEF TakePermit, Types, Phases
<1>2. on[c] # None /\ on[c] \in Gens /\ ctl[on[c]] \in IntControllers
  BY HasController
<1>3. ~holds[c]
  BY DEF Ownership, MayHold, MustHold
<1>4. /\ ctl' \in [Gens -> IntControllers]
      /\ \A g \in Gens : /\ g # on[c] => ctl'[g] = ctl[g]
                         /\ ctl'[g].config = ctl[g].config
                         /\ ctl'[g].closed = ctl[g].closed
                         /\ ctl'[g].parked = ctl[g].parked
                         /\ ctl'[g].waiters = ctl[g].waiters
                         /\ ctl'[g].inFlight = ctl[g].inFlight
      /\ ctl'[on[c]].free = ctl[on[c]].free - 1
  <2>1. ctl[on[c]].free - 1 \in Nat
    BY <1>2 DEF IntControllers
  <2>2. [ctl[on[c]] EXCEPT !.free = ctl[on[c]].free - 1] \in IntControllers
    BY <1>2, <2>1, Fields
  <2> QED
    BY <1>2, <2>1, <2>2 DEF TakePermit, Types, IntControllers
<1>5. Steady(c)
  BY <1>1, <1>4 DEF Steady
<1>6. Counts(c)
  <2>1. ctl[on[c]].waiters \in Int /\ ctl[on[c]].inFlight \in Int
    BY <1>2 DEF IntControllers
  <2>2. /\ q \in Waiting <=> phase[c] \in Waiting
        /\ q \in Counted <=> phase[c] \in Counted
    BY DEF Waiting, Counted
  <2> QED
    BY <1>1, <1>2, <1>4, <2>1, <2>2 DEF Counts, One
<1>7. Enters(c) /\ Placed(c)
  BY <1>1, <1>2 DEF Enters, Placed, Admissible, MustHold, MayHold
<1>8. Takes(c)
  BY <1>1, <1>2, <1>3, <1>4 DEF Takes, SameParked
<1> QED
  BY <1>5, <1>6, <1>7, <1>8 DEF CallStep

(* A step that returns a permit, to the semaphore or to the next waiter. *)
LEMMA ReturnStep ==
    ASSUME NEW c \in Calls, NEW q \in {"evicted", "unqueue", "leaving", "done"},
           Types, Ownership, ParkedAccounted,
           \/ phase[c] = "assigned" /\ q \in {"evicted", "unqueue"}
           \/ phase[c] = "releasing" /\ q = "leaving"
           \/ phase[c] = "returning" /\ q = "done",
           ReturnPermit(c, q), UNCHANGED <<registry, on>>
    PROVE  CallStep(c)
<1>1. /\ on[c] # None /\ on[c] \in Gens /\ ctl[on[c]] \in IntControllers
      /\ ctl[on[c]].parked \in Seq(Calls)
  BY HasController DEF IntControllers
<1>2. holds[c] /\ phase[c] # "parked" /\ q # "parked"
  BY DEF Ownership, MustHold
<1>3. ctl[on[c]].waiters \in Int /\ ctl[on[c]].inFlight \in Int /\ ctl[on[c]].free \in Nat
  BY <1>1 DEF IntControllers
<1>4. /\ q \in Waiting <=> phase[c] \in Waiting
      /\ q \in Counted <=> phase[c] \in Counted
      /\ q \in Phases \ (Admissible \cup MustHold)
  BY DEF Waiting, Counted, Phases, Admissible, MustHold
<1>5. CASE ctl[on[c]].parked = <<>>
  <2>1. /\ phase' \in [Calls -> Phases] /\ phase'[c] = q /\ holds' \in [Calls -> BOOLEAN]
        /\ \A d \in Calls \ {c} : phase'[d] = phase[d]
        /\ holds' = [holds EXCEPT ![c] = FALSE] /\ ~holds'[c]
    BY <1>4, <1>5 DEF ReturnPermit, Types
  <2>2. /\ ctl' \in [Gens -> IntControllers]
        /\ \A g \in Gens : /\ g # on[c] => ctl'[g] = ctl[g]
                           /\ ctl'[g].config = ctl[g].config
                           /\ ctl'[g].closed = ctl[g].closed
                           /\ ctl'[g].parked = ctl[g].parked
                           /\ ctl'[g].waiters = ctl[g].waiters
                           /\ ctl'[g].inFlight = ctl[g].inFlight
        /\ ctl'[on[c]].free = ctl[on[c]].free + 1
    <3>1. ctl[on[c]].free + 1 \in Nat
      BY <1>3
    <3>2. [ctl[on[c]] EXCEPT !.free = ctl[on[c]].free + 1] \in IntControllers
      BY <1>1, <3>1, Fields
    <3>3. ctl' = [ctl EXCEPT ![on[c]].free = @ + 1]
      BY <1>5 DEF ReturnPermit
    <3> QED
      BY <1>1, <3>1, <3>2, <3>3 DEF Types, IntControllers
  <2>3. Steady(c) /\ Counts(c)
    BY <1>1, <1>3, <1>4, <2>1, <2>2 DEF Steady, Counts, One
  <2>4. Enters(c) /\ Placed(c) /\ GivesBack(c)
    BY <1>1, <1>2, <1>4, <2>1, <2>2 DEF Enters, Placed, GivesBack, SameParked
  <2> QED
    BY <2>3, <2>4 DEF CallStep
<1>6. CASE ctl[on[c]].parked # <<>>
  <2> DEFINE w == Head(ctl[on[c]].parked)
  <2>0. Distinct(ctl[on[c]].parked) /\ Range(ctl[on[c]].parked) = At(on[c], {"parked"})
    BY <1>1 DEF ParkedAccounted
  <2>1. w \in Calls /\ w \in At(on[c], {"parked"}) /\ Tail(ctl[on[c]].parked) \in Seq(Calls)
    BY <1>1, <1>6, <2>0, QueueTail
  <2>2. phase[w] = "parked" /\ w # c
    BY <1>2, <2>1 DEF At
  <2>3. /\ ctl' = [ctl EXCEPT ![on[c]].parked = Tail(@)]
        /\ holds' = [holds EXCEPT ![c] = FALSE, ![w] = TRUE]
        /\ phase' = [phase EXCEPT ![c] = q, ![w] = "assigned"]
    BY <1>6 DEF ReturnPermit
  <2> HIDE DEF w
  <2>4. /\ phase' \in [Calls -> Phases] /\ phase'[c] = q /\ holds' \in [Calls -> BOOLEAN]
        /\ phase'[w] = "assigned" /\ ~holds'[c]
        /\ \A d \in Calls \ {c, w} : phase'[d] = phase[d]
    BY <1>4, <2>1, <2>2, <2>3 DEF Types, Phases
  <2>5. /\ ctl' \in [Gens -> IntControllers]
        /\ \A g \in Gens : /\ g # on[c] => ctl'[g] = ctl[g]
                           /\ ctl'[g].config = ctl[g].config
                           /\ ctl'[g].closed = ctl[g].closed
                           /\ ctl'[g].free = ctl[g].free
                           /\ ctl'[g].waiters = ctl[g].waiters
                           /\ ctl'[g].inFlight = ctl[g].inFlight
        /\ ctl'[on[c]].parked = Tail(ctl[on[c]].parked)
    <3>1. [ctl[on[c]] EXCEPT !.parked = Tail(ctl[on[c]].parked)] \in IntControllers
      BY <1>1, <2>1, Fields
    <3> QED
      BY <1>1, <2>3, <3>1 DEF Types, IntControllers
  <2>6. Steady(c) /\ Counts(c)
    <3>1. Steady(c)
      BY <2>4, <2>5 DEF Steady
    <3>2. \A d \in Calls \ {c} :
             phase'[d] = phase[d] \/ (phase[d] = "parked" /\ phase'[d] = "assigned")
      BY <2>2, <2>4
    <3>3. /\ ctl'[on[c]].waiters = ctl[on[c]].waiters /\ ctl[on[c]].waiters \in Int
          /\ ctl'[on[c]].inFlight = ctl[on[c]].inFlight /\ ctl[on[c]].inFlight \in Int
      BY <1>1, <1>3, <2>5
    <3>4. Counts(c)
      BY <1>4, <2>4, <3>2, <3>3 DEF Counts, One
    <3> QED
      BY <3>1, <3>4
  <2>7. Enters(c) /\ Placed(c)
    BY <1>1, <1>4, <2>4 DEF Enters, Placed
  <2>8. HandsOn(c, w)
    BY <1>1, <1>2, <1>6, <2>3, <2>4, <2>5 DEF HandsOn, w
  <2> QED
    BY <2>1, <2>2, <2>6, <2>7, <2>8 DEF CallStep
<1> QED
  BY <1>5, <1>6

(* A step by which the call joins or leaves the parked acquirers. *)
LEMMA QueueStep ==
    ASSUME NEW c \in Calls, NEW q \in {"parked", "unqueue"}, NEW s \in Seq(Calls),
           Types, Ownership,
           \/ /\ phase[c] = "parking" /\ q = "parked"
              /\ s = Append(ctl[on[c]].parked, c)
           \/ /\ phase[c] = "parked" /\ q = "unqueue"
              /\ s = Unpark(ctl[on[c]].parked, c),
           ctl' = [ctl EXCEPT ![on[c]].parked = s], Go(c, q),
           UNCHANGED <<registry, on, holds>>
    PROVE  CallStep(c)
<1>1. on[c] # None /\ on[c] \in Gens /\ ctl[on[c]] \in IntControllers
  BY HasController
<1>2. ctl[on[c]].waiters \in Int /\ ctl[on[c]].inFlight \in Int
  BY <1>1 DEF IntControllers
<1>3. /\ q \in Waiting <=> phase[c] \in Waiting
      /\ q \in Counted <=> phase[c] \in Counted
      /\ q \in Phases \ MustHold /\ ~holds[c]
      /\ q \in Admissible => phase[c] \in Admissible
  BY DEF Waiting, Counted, Phases, Admissible, MustHold, MayHold, Ownership
<1>4. /\ phase' \in [Calls -> Phases] /\ phase'[c] = q
      /\ \A d \in Calls \ {c} : phase'[d] = phase[d]
  BY <1>3 DEF Go, Types
<1>5. /\ ctl' \in [Gens -> IntControllers]
      /\ \A g \in Gens : /\ g # on[c] => ctl'[g] = ctl[g]
                         /\ ctl'[g].config = ctl[g].config
                         /\ ctl'[g].closed = ctl[g].closed
                         /\ ctl'[g].free = ctl[g].free
                         /\ ctl'[g].waiters = ctl[g].waiters
                         /\ ctl'[g].inFlight = ctl[g].inFlight
      /\ ctl'[on[c]].parked = s
  <2>1. [ctl[on[c]] EXCEPT !.parked = s] \in IntControllers
    BY <1>1, Fields
  <2> QED
    BY <1>1, <2>1 DEF Types, IntControllers
<1>6. Steady(c)
  BY <1>4, <1>5 DEF Steady, Types
<1>7. Counts(c)
  BY <1>1, <1>2, <1>3, <1>4, <1>5 DEF Counts, One
<1>8. Enters(c) /\ Placed(c)
  BY <1>1, <1>3, <1>4 DEF Enters, Placed
<1>9. Requeues(c)
  BY <1>1, <1>4, <1>5 DEF Requeues
<1> QED
  BY <1>6, <1>7, <1>8, <1>9 DEF CallStep

(* What a call does by itself: everything but looking its controller up    *)
(* and reporting that it drained.                                          *)
Proceeds(c) ==
    \/ CountIn(c) \/ CheckOpen(c) \/ FirstTry(c) \/ EnterQueue(c) \/ LastTry(c)
    \/ Park(c) \/ Resume(c) \/ LeaveQueue(c) \/ Release(c) \/ Leave(c)
    \/ CheckDrained(c) \/ ReturnLast(c) \/ Recording(c) \/ DropStart(c)
    \/ AbandonWait(c)

LEMMA ProceedsIsCallStep ==
    ASSUME NEW c \in Calls, Types, Ownership, ParkedAccounted, Proceeds(c)
    PROVE  CallStep(c)
<1>0. /\ phase[c] \in MustHold => holds[c]
      /\ holds[c] => phase[c] \in MayHold
      /\ phase[c] \notin {"new", "gone", "done"} => on[c] # None
  BY DEF Ownership
<1>a. phase[c] \notin {"new", "gone", "done"} =>
          /\ ctl[on[c]].waiters \in Int /\ ctl[on[c]].inFlight \in Int
          /\ ctl[on[c]].free \in Nat /\ ctl[on[c]].config.depth \in Nat
          /\ ctl[on[c]].parked \in Seq(Calls) /\ on[c] \in Gens
  BY HasController, ConfigAssumption DEF IntControllers
<1>1. CASE CountIn(c)
  <2>w. PICK w \in Int : w = ctl[on[c]].waiters
    BY <1>1, <1>a DEF CountIn
  <2>1. PICK n \in Int : w = ctl[on[c]].waiters /\ n = ctl[on[c]].inFlight + 1
    BY <2>w, <1>1, <1>a DEF CountIn
  <2>2. /\ w = ctl[on[c]].waiters + One("counted" \in Waiting) - One(phase[c] \in Waiting)
        /\ n = ctl[on[c]].inFlight + One("counted" \in Counted) - One(phase[c] \in Counted)
        /\ w <= ctl[on[c]].waiters
    <3>1. "counted" \notin Waiting /\ phase[c] \notin Waiting
      BY <1>1 DEF CountIn, Waiting
    <3>2. "counted" \in Counted /\ phase[c] \notin Counted
      BY <1>1 DEF CountIn, Counted, Waiting
    <3>3. ctl[on[c]].waiters \in Int /\ ctl[on[c]].inFlight \in Int
      BY <1>1, <1>a DEF CountIn
    <3> QED
      BY <2>1, <3>1, <3>2, <3>3 DEF One
  <2>3. /\ "counted" \in Phases \ {"parked"} /\ "counted" \notin MustHold /\ ~holds[c]
        /\ "counted" \notin Admissible
    BY <1>0, <1>1 DEF CountIn, Phases, MustHold, MayHold, Admissible
  <2> QED
    BY <1>1, <2>1, <2>2, <2>3, CountStep DEF CountIn
<1>2. CASE CheckOpen(c)
  BY <1>0, <1>2, GoStep DEF CheckOpen, Phases, Waiting, Counted, MustHold, MayHold, Admissible
<1>3. ASSUME NEW q \in {"entering", "full"}, TryAcquire(c, q), UNCHANGED <<registry, on>>,
             phase[c] \in {"trying", "lastTry"}
      PROVE  CallStep(c)
  <2>1. CASE Go(c, "gone") /\ UNCHANGED <<ctl, holds>>
    BY <1>0, <1>3, <2>1, GoStep DEF Phases, Waiting, Counted, MustHold, MayHold, Admissible
  <2>2. CASE ctl[on[c]].free > 0 /\ TakePermit(c, "starting")
    BY <1>3, <2>2, TakeStep
  <2>3. CASE Go(c, q) /\ UNCHANGED <<ctl, holds>>
    BY <1>0, <1>3, <2>3, GoStep DEF Phases, Waiting, Counted, MustHold, MayHold, Admissible
  <2> QED
    BY <1>3, <2>1, <2>2, <2>3 DEF TryAcquire
<1>4. CASE FirstTry(c)
  BY <1>3, <1>4 DEF FirstTry
<1>5. CASE LastTry(c)
  BY <1>3, <1>5 DEF LastTry
<1>6. CASE EnterQueue(c)
  <2>1. CASE ctl[on[c]].waiters < ctl[on[c]].config.depth
    <3>w. PICK w \in Int : w = ctl[on[c]].waiters + 1
      BY <1>6, <1>a DEF EnterQueue
    <3>1. PICK n \in Int : w = ctl[on[c]].waiters + 1 /\ n = ctl[on[c]].inFlight
      BY <3>w, <1>6, <1>a DEF EnterQueue
    <3>2. /\ w = ctl[on[c]].waiters + One("queueing" \in Waiting) - One(phase[c] \in Waiting)
          /\ n = ctl[on[c]].inFlight + One("queueing" \in Counted) - One(phase[c] \in Counted)
          /\ w <= ctl[on[c]].config.depth
      <4>1. "queueing" \in Waiting /\ phase[c] \notin Waiting
        BY <1>6 DEF EnterQueue, Waiting
      <4>2. "queueing" \in Counted /\ phase[c] \in Counted
        BY <1>6 DEF EnterQueue, Counted, Waiting
      <4>3. /\ ctl[on[c]].waiters \in Int /\ ctl[on[c]].inFlight \in Int
            /\ ctl[on[c]].config.depth \in Nat
        BY <1>6, <1>a DEF EnterQueue
      <4> QED
        BY <2>1, <3>1, <4>1, <4>2, <4>3 DEF One
    <3>3. /\ "queueing" \in Phases \ {"parked"} /\ "queueing" \notin MustHold /\ ~holds[c]
          /\ phase[c] \in Admissible
      BY <1>0, <1>6 DEF EnterQueue, Phases, MustHold, MayHold, Admissible
    <3> QED
      BY <1>6, <2>1, <3>1, <3>2, <3>3, CountStep DEF EnterQueue
  <2>2. CASE ~(ctl[on[c]].waiters < ctl[on[c]].config.depth)
    BY <1>0, <1>6, <2>2, GoStep DEF EnterQueue, Phases, Waiting, Counted, MustHold, MayHold, Admissible
  <2> QED
    BY <2>1, <2>2
<1>7. CASE Park(c)
  <2>1. CASE Go(c, "evicted") /\ UNCHANGED <<ctl, holds>>
    BY <1>0, <1>7, <2>1, GoStep DEF Park, Phases, Waiting, Counted, MustHold, MayHold, Admissible
  <2>2. CASE ctl[on[c]].free > 0 /\ TakePermit(c, "granted")
    BY <1>7, <2>2, TakeStep DEF Park
  <2>3. CASE /\ ctl' = [ctl EXCEPT ![on[c]].parked = Append(@, c)]
             /\ Go(c, "parked") /\ UNCHANGED holds
    <3>1. Append(ctl[on[c]].parked, c) \in Seq(Calls)
      BY <1>7, <1>a DEF Park
    <3> QED
      BY <1>7, <2>3, <3>1, QueueStep DEF Park
  <2> QED
    BY <1>7, <2>1, <2>2, <2>3 DEF Park
<1>8. CASE Resume(c)
  <2>1. CASE ctl[on[c]].shut
    BY <1>8, <2>1, ReturnStep DEF Resume
  <2>2. CASE ~ctl[on[c]].shut
    BY <1>0, <1>8, <2>2, GoStep DEF Resume, Phases, Waiting, Counted, MustHold, MayHold, Admissible
  <2> QED
    BY <2>1, <2>2
<1>9. CASE LeaveQueue(c)
  <2>w. PICK w \in Int : w = ctl[on[c]].waiters - 1
    BY <1>9, <1>a DEF LeaveQueue
  <2>1. PICK n \in Int : w = ctl[on[c]].waiters - 1 /\ n = ctl[on[c]].inFlight
    BY <2>w, <1>9, <1>a DEF LeaveQueue
  <2>2. PICK q \in {"upgrading", "settling", "leaving"} :
            /\ Go(c, q)
            /\ \/ phase[c] = "granted" /\ q = "upgrading"
               \/ phase[c] = "evicted" /\ q = "settling"
               \/ phase[c] = "unqueue" /\ q = "leaving"
    BY <1>9 DEF LeaveQueue
  <2>3. /\ w = ctl[on[c]].waiters + One(q \in Waiting) - One(phase[c] \in Waiting)
        /\ n = ctl[on[c]].inFlight + One(q \in Counted) - One(phase[c] \in Counted)
        /\ w <= ctl[on[c]].waiters
    <3>1. q \notin Waiting /\ phase[c] \in Waiting
      BY <2>2 DEF Waiting
    <3>2. q \in Counted /\ phase[c] \in Counted
      BY <2>2 DEF Counted, Waiting
    <3>3. ctl[on[c]].waiters \in Int /\ ctl[on[c]].inFlight \in Int
      BY <1>9, <1>a DEF LeaveQueue
    <3> QED
      BY <2>1, <3>1, <3>2, <3>3 DEF One
  <2>4. /\ q \in Phases \ {"parked"}
        /\ q \in MustHold => holds[c]
        /\ holds[c] => q \in MayHold
        /\ q \in Admissible => phase[c] \in Admissible
    BY <1>0, <2>2 DEF Phases, Waiting, Counted, MustHold, MayHold, Admissible
  <2> QED
    BY <1>9, <2>1, <2>2, <2>3, <2>4, CountStep DEF LeaveQueue
<1>10. CASE Release(c)
  BY <1>10, ReturnStep DEF Release
<1>11. CASE Leave(c)
  <2>w. PICK w \in Int : w = ctl[on[c]].waiters
    BY <1>11, <1>a DEF Leave
  <2>1. PICK n \in Int : w = ctl[on[c]].waiters /\ n = ctl[on[c]].inFlight - 1
    BY <2>w, <1>11, <1>a DEF Leave
  <2>2. PICK q \in {"checking", "returning", "done"} :
            Go(c, q) /\ (q = "returning" => holds[c]) /\ (q = "done" => ~holds[c])
    BY <1>11 DEF Leave, Left
  <2>3. /\ w = ctl[on[c]].waiters + One(q \in Waiting) - One(phase[c] \in Waiting)
        /\ n = ctl[on[c]].inFlight + One(q \in Counted) - One(phase[c] \in Counted)
        /\ w <= ctl[on[c]].waiters
    <3>1. /\ q \notin Counted /\ q \notin Waiting
          /\ phase[c] \in Counted /\ phase[c] \notin Waiting
      BY <1>11, <2>2 DEF Leave, Waiting, Counted
    <3>2. ctl[on[c]].waiters \in Int /\ ctl[on[c]].inFlight \in Int
      BY <1>11, <1>a DEF Leave
    <3> QED
      BY <2>1, <3>1, <3>2 DEF One
  <2>4. /\ q \in Phases \ {"parked"}
        /\ q \in MustHold => holds[c]
        /\ holds[c] => q \in MayHold
        /\ q \notin Admissible
    BY <2>2 DEF Phases, Waiting, Counted, MustHold, MayHold, Admissible
  <2> QED
    BY <1>11, <2>1, <2>2, <2>3, <2>4, CountStep DEF Leave
<1>12. CASE CheckDrained(c)
  <2>1. PICK q \in {"notifying", "returning", "done"} :
            Go(c, q) /\ (q = "returning" => holds[c]) /\ (q = "done" => ~holds[c])
    BY <1>12 DEF CheckDrained, Left
  <2> QED
    BY <1>0, <1>12, <2>1, GoStep DEF CheckDrained, Phases, Waiting, Counted, MustHold, MayHold, Admissible
<1>13. CASE ReturnLast(c)
  BY <1>13, ReturnStep DEF ReturnLast
<1>14. CASE TurnAway(c)
  BY <1>0, <1>14, GoStep DEF TurnAway, Phases, Waiting, Counted, MustHold, MayHold, Admissible
<1>15. CASE Settle(c)
  BY <1>0, <1>15, GoStep DEF Settle, Phases, Waiting, Counted, MustHold, MayHold, Admissible
<1>16. CASE EndCall(c)
  BY <1>0, <1>16, GoStep DEF EndCall, Phases, Waiting, Counted, MustHold, MayHold, Admissible
<1>17. ASSUME NEW acked \in BOOLEAN,
              Start(c, acked) \/ PersistQueued(c, acked) \/ Upgrade(c, acked)
       PROVE  CallStep(c)
  <2>1. PICK q \in {"running", "releasing", "parking", "unqueue"} :
            /\ Go(c, q)
            /\ \/ phase[c] \in {"starting", "upgrading"} /\ q \in {"running", "releasing"}
               \/ phase[c] = "queueing" /\ q \in {"parking", "unqueue"}
    BY <1>17 DEF Start, PersistQueued, Upgrade
  <2>2. UNCHANGED <<registry, ctl, on, holds>>
    BY <1>17 DEF Start, PersistQueued, Upgrade
  <2> QED
    BY <1>0, <2>1, <2>2, GoStep DEF Phases, Waiting, Counted, MustHold, MayHold, Admissible
<1>18. CASE DropStart(c)
  BY <1>0, <1>18, GoStep DEF DropStart, Phases, Waiting, Counted, MustHold, MayHold, Admissible
<1>19. CASE AbandonWait(c)
  <2>1. CASE phase[c] = "parked"
    <3>0. /\ on[c] \in Gens /\ ctl[on[c]].parked \in Seq(Calls)
          /\ Distinct(ctl[on[c]].parked) /\ c \in Range(ctl[on[c]].parked)
      BY <1>a, <2>1 DEF ParkedAccounted, At
    <3>1. Unpark(ctl[on[c]].parked, c) \in Seq(Calls)
      BY <3>0, QueueRemove
    <3> QED
      BY <1>19, <2>1, <3>1, QueueStep DEF AbandonWait
  <2>2. CASE phase[c] = "assigned"
    BY <1>19, <2>2, ReturnStep DEF AbandonWait
  <2> QED
    BY <1>19, <2>1, <2>2 DEF AbandonWait
<1> QED
  BY <1>1, <1>2, <1>4, <1>5, <1>6, <1>7, <1>8, <1>9, <1>10, <1>11, <1>12, <1>13,
     <1>14, <1>15, <1>16, <1>17, <1>18, <1>19 DEF Proceeds, Recording

-----------------------------------------------------------------------------
(* The accounting under the steps of the registry.                         *)

(* No call is at a controller that is not installed. *)
LEMMA Deserted ==
    ASSUME Ownership, NEW g \in Gens, ~Installed(g), NEW S
    PROVE  Owners(g) = {} /\ At(g, S) = {}
<1>1. \A c \in Calls : on[c] # g
  BY DEF Ownership, Gens, None
<1> QED
  BY <1>1 DEF Owners, At

Accounted == Ownership /\ ParkedAccounted /\ CallsAccounted /\ SlotsAccounted

(* What an installation does, also when a drained notice causes it. *)
Installs ==
    \/ UNCHANGED ctl
    \/ \E g \in Gens, k \in Configs :
          ~Installed(g) /\ ctl' = [ctl EXCEPT ![g] = NewController(k)]

Notices ==
    /\ phase' \in [Calls -> Phases]
    /\ \A c \in Calls : \/ phase'[c] = phase[c]
                        \/ phase[c] = "notifying" /\ phase'[c] = Left(c)

LEMMA NewControllerType ==
    ASSUME NEW k \in Configs
    PROVE  /\ NewController(k) \in IntControllers
           /\ NewController(k).config = k /\ ~NewController(k).closed
           /\ NewController(k).free = k.limit /\ NewController(k).parked = <<>>
           /\ NewController(k).waiters = 0 /\ NewController(k).inFlight = 0
<1>1. k # Removed /\ k.limit \in Nat /\ <<>> \in Seq(Calls)
  BY ConfigAssumption, EmptyFacts
<1> QED
  BY <1>1 DEF NewController, IntControllers

LEMMA InstallsAccounted ==
    ASSUME Counting, Types, Accounted, Installs, Notices, UNCHANGED <<on, holds>>
    PROVE  Accounted' /\ ctl' \in [Gens -> IntControllers]
<1>1. ASSUME NEW g \in Gens
      PROVE  /\ At(g, Waiting)' = At(g, Waiting) /\ At(g, Counted)' = At(g, Counted)
             /\ At(g, {"parked"})' = At(g, {"parked"}) /\ Owners(g)' = Owners(g)
  <2>1. \A c \in Calls : \A S \in {Waiting, Counted, {"parked"}} :
            phase'[c] \in S <=> phase[c] \in S
    BY DEF Notices, Left, Waiting, Counted
  <2> QED
    BY <2>1 DEF At, Owners
<1>2. ASSUME NEW c \in Calls
      PROVE  /\ phase'[c] \in MustHold => holds[c]
             /\ holds[c] => phase'[c] \in MayHold
             /\ phase'[c] \notin {"new", "gone", "done"} => on[c] # None
  BY DEF Accounted, Ownership, Notices, Left, MustHold, MayHold
<1>3. CASE UNCHANGED ctl
  <2>1. Ownership'
    BY <1>2, <1>3 DEF Accounted, Ownership, Installed
  <2>2. ParkedAccounted'
    BY <1>1, <1>3 DEF Accounted, ParkedAccounted, Distinct
  <2>3. CallsAccounted' /\ SlotsAccounted'
    BY <1>1, <1>3 DEF Accounted, CallsAccounted, SlotsAccounted, Installed, Capacity
  <2> QED
    BY <1>3, <2>1, <2>2, <2>3 DEF Accounted, Types
<1>4. ASSUME NEW g \in Gens, NEW k \in Configs, ~Installed(g),
             ctl' = [ctl EXCEPT ![g] = NewController(k)]
      PROVE  Accounted' /\ ctl' \in [Gens -> IntControllers]
  <2>1. /\ ctl'[g] = NewController(k) /\ ctl' \in [Gens -> IntControllers]
        /\ \A h \in Gens \ {g} : ctl'[h] = ctl[h]
    BY <1>4, NewControllerType DEF Types
  <2>2. /\ Owners(g) = {} /\ At(g, Waiting) = {} /\ At(g, Counted) = {}
        /\ At(g, {"parked"}) = {} /\ Cardinality({}) = 0
    BY <1>4, Deserted DEF Accounted, Counting
  <2>3. Ownership'
    <3>1. \A c \in Calls : on[c] # None => on[c] \in Gens /\ ctl'[on[c]].config # Removed
      <4>1. k # Removed
        BY ConfigAssumption
      <4>2. \A c \in Calls : on[c] # None => on[c] \in Gens /\ ctl[on[c]].config # Removed
        BY DEF Accounted, Ownership, Installed, Types, Gens, None
      <4> QED
        BY <2>1, <4>1, <4>2, NewControllerType
    <3> QED
      BY <1>2, <3>1 DEF Ownership, Installed
  <2>4. ParkedAccounted'
    <3> SUFFICES ASSUME NEW h \in Gens
                 PROVE  Distinct(ctl'[h].parked) /\ Range(ctl'[h].parked) = At(h, {"parked"})
      BY <1>1 DEF ParkedAccounted, Distinct
    <3>1. CASE h = g
      <4>1. ctl'[h].parked = <<>> /\ DOMAIN <<>> = {}
        BY <2>1, <3>1, NewControllerType
      <4> QED
        BY <2>2, <3>1, <4>1 DEF Distinct, Range
    <3>2. CASE h # g
      BY <2>1, <3>2 DEF Accounted, ParkedAccounted
    <3> QED
      BY <3>1, <3>2
  <2>5. CallsAccounted' /\ SlotsAccounted'
    <3>1. \A h \in Gens :
              /\ ctl'[h].waiters = Cardinality(At(h, Waiting))
              /\ ctl'[h].inFlight = Cardinality(At(h, Counted))
              /\ ctl'[h].config # Removed => ctl'[h].waiters <= ctl'[h].config.depth
              /\ ctl'[h].free + Cardinality(Owners(h)) =
                    IF ctl'[h].config = Removed THEN 0 ELSE ctl'[h].config.limit
      <4> SUFFICES ASSUME NEW h \in Gens
                   PROVE  /\ ctl'[h].waiters = Cardinality(At(h, Waiting))
                          /\ ctl'[h].inFlight = Cardinality(At(h, Counted))
                          /\ ctl'[h].config # Removed =>
                                ctl'[h].waiters <= ctl'[h].config.depth
                          /\ ctl'[h].free + Cardinality(Owners(h)) =
                                IF ctl'[h].config = Removed THEN 0 ELSE ctl'[h].config.limit
        OBVIOUS
      <4>1. CASE h = g
        <5>1. k # Removed /\ k.limit \in Nat /\ k.depth \in Nat
          BY ConfigAssumption
        <5>2. /\ ctl'[h].config = k /\ ctl'[h].free = k.limit
              /\ ctl'[h].waiters = 0 /\ ctl'[h].inFlight = 0
          BY <2>1, <4>1, NewControllerType
        <5>3. /\ Cardinality(At(h, Waiting)) = 0 /\ Cardinality(At(h, Counted)) = 0
              /\ Cardinality(Owners(h)) = 0
          BY <2>2, <4>1
        <5>4. ctl'[h].config # Removed => ctl'[h].waiters <= ctl'[h].config.depth
          BY <5>1, <5>2
        <5>5. ctl'[h].free + Cardinality(Owners(h)) = ctl'[h].config.limit
          BY <5>1, <5>2, <5>3
        <5> QED
          BY <5>1, <5>2, <5>3, <5>4, <5>5
      <4>2. CASE h # g
        BY <2>1, <4>2 DEF Accounted, CallsAccounted, SlotsAccounted, Installed, Capacity
      <4> QED
        BY <4>1, <4>2
    <3> QED
      BY <1>1, <3>1 DEF CallsAccounted, SlotsAccounted, Installed, Capacity
  <2> QED
    BY <2>1, <2>3, <2>4, <2>5 DEF Accounted
<1> QED
  BY <1>3, <1>4 DEF Installs

LEMMA CloseAccounted ==
    ASSUME Types, Accounted, active \in Gens,
           ctl' = [ctl EXCEPT ![active].closed = TRUE], UNCHANGED <<phase, on, holds>>
    PROVE  Accounted' /\ ctl' \in [Gens -> IntControllers]
<1>1. ctl[active] \in IntControllers /\ [ctl[active] EXCEPT !.closed = TRUE] \in IntControllers
  BY DEF Types, IntControllers
<1>2. /\ ctl' \in [Gens -> IntControllers]
      /\ \A g \in Gens : /\ ctl'[g].config = ctl[g].config /\ ctl'[g].free = ctl[g].free
                         /\ ctl'[g].parked = ctl[g].parked
                         /\ ctl'[g].waiters = ctl[g].waiters
                         /\ ctl'[g].inFlight = ctl[g].inFlight
  BY <1>1 DEF Types, IntControllers
<1>3. \A g, S : At(g, S)' = At(g, S)
  BY DEF At
<1>4. \A g : Owners(g)' = Owners(g)
  BY DEF Owners
<1>5. \A c \in Calls : on[c] # None => on[c] \in Gens
  BY DEF Types, Gens, None
<1>6. Ownership'
  BY <1>2, <1>5 DEF Accounted, Ownership, Installed
<1>7. ParkedAccounted'
  BY <1>2, <1>3 DEF Accounted, ParkedAccounted, Distinct
<1>8. CallsAccounted'
  BY <1>2, <1>3 DEF Accounted, CallsAccounted, Installed
<1>9. SlotsAccounted'
  BY <1>2, <1>4 DEF Accounted, SlotsAccounted, Capacity
<1> QED
  BY <1>2, <1>6, <1>7, <1>8, <1>9 DEF Accounted

LEMMA ShutAccounted ==
    ASSUME Types, Accounted, active \in Gens,
           ctl' = [ctl EXCEPT ![active].shut = TRUE, ![active].parked = <<>>],
           phase' = [c \in Calls |-> IF c \in Range(ctl[active].parked)
                                     THEN "evicted" ELSE phase[c]],
           UNCHANGED <<on, holds>>
    PROVE  /\ Accounted' /\ ctl' \in [Gens -> IntControllers]
           /\ phase' \in [Calls -> Phases]
           /\ \A c \in Calls : phase'[c] \in {phase[c], "evicted"}
           /\ \A g \in Gens : ctl'[g].config = ctl[g].config /\ ctl'[g].closed = ctl[g].closed
<1>0. <<>> \in Seq(Calls) /\ DOMAIN <<>> = {}
  BY EmptyFacts
<1>1. /\ ctl[active] \in IntControllers
      /\ [ctl[active] EXCEPT !.shut = TRUE, !.parked = <<>>] \in IntControllers
  BY <1>0 DEF Types, IntControllers
<1>2. /\ ctl' \in [Gens -> IntControllers]
      /\ \A g \in Gens : /\ ctl'[g].config = ctl[g].config /\ ctl'[g].free = ctl[g].free
                         /\ ctl'[g].closed = ctl[g].closed
                         /\ ctl'[g].waiters = ctl[g].waiters
                         /\ ctl'[g].inFlight = ctl[g].inFlight
      /\ ctl'[active].parked = <<>>
      /\ \A g \in Gens \ {active} : ctl'[g].parked = ctl[g].parked
  BY <1>1 DEF Types, IntControllers
<1>3. /\ phase' \in [Calls -> Phases]
      /\ \A c \in Calls : \/ phase'[c] = phase[c] /\ ~(on[c] = active /\ phase[c] = "parked")
                          \/ /\ phase'[c] = "evicted" /\ phase[c] = "parked"
                             /\ on[c] = active /\ ~holds[c]
  <2>1. Range(ctl[active].parked) = At(active, {"parked"})
    BY DEF Accounted, ParkedAccounted
  <2>2. \A c \in Calls : phase[c] = "parked" => ~holds[c]
    BY DEF Accounted, Ownership, MayHold, MustHold
  <2> QED
    BY <2>1, <2>2 DEF At, Types, Phases
<1>4. ASSUME NEW g \in Gens
      PROVE  /\ At(g, Waiting)' = At(g, Waiting) /\ At(g, Counted)' = At(g, Counted)
             /\ Owners(g)' = Owners(g)
             /\ At(g, {"parked"})' = IF g = active THEN {} ELSE At(g, {"parked"})
  <2>1. At(g, {"parked"})' = IF g = active THEN {} ELSE At(g, {"parked"})
    BY <1>3 DEF At
  <2>2. \A c \in Calls : \A S \in {Waiting, Counted} : phase'[c] \in S <=> phase[c] \in S
    BY <1>3 DEF Waiting, Counted
  <2> QED
    BY <2>1, <2>2 DEF At, Owners
<1>5. \A c \in Calls : on[c] # None => on[c] \in Gens
  BY DEF Types, Gens, None
<1>6. Ownership'
  BY <1>2, <1>3, <1>5 DEF Accounted, Ownership, Installed, MustHold, MayHold
<1>7. ParkedAccounted'
  <2> SUFFICES ASSUME NEW g \in Gens
               PROVE  /\ Distinct(ctl'[g].parked)
                      /\ Range(ctl'[g].parked) = At(g, {"parked"})'
    BY DEF ParkedAccounted, Distinct
  <2>1. CASE g = active
    BY <1>0, <1>2, <1>4, <2>1 DEF Distinct, Range
  <2>2. CASE g # active
    BY <1>2, <1>4, <2>2 DEF Accounted, ParkedAccounted
  <2> QED
    BY <2>1, <2>2
<1>8. CallsAccounted'
  BY <1>2, <1>4 DEF Accounted, CallsAccounted, Installed
<1>9. SlotsAccounted'
  BY <1>2, <1>4 DEF Accounted, SlotsAccounted, Capacity
<1> QED
  BY <1>2, <1>3, <1>6, <1>7, <1>8, <1>9 DEF Accounted

LEMMA LookupAccounted ==
    ASSUME NEW c \in Calls, Types, Accounted, active # None => Installed(active), Lookup(c)
    PROVE  Accounted' /\ phase' \in [Calls -> Phases] /\ on' \in [Calls -> 0 .. MaxGen]
<1>1. /\ phase[c] = "new" /\ ctl' = ctl /\ holds' = holds
      /\ phase' \in [Calls -> Phases] /\ on' \in [Calls -> 0 .. MaxGen]
      /\ on'[c] = active
      /\ phase'[c] = IF active = None THEN "gone" ELSE "arrived"
      /\ \A d \in Calls \ {c} : phase'[d] = phase[d] /\ on'[d] = on[d]
  BY DEF Lookup, Go, Types, Phases
<1>2. ~holds[c]
  BY <1>1 DEF Accounted, Ownership, MayHold, MustHold
<1>3. ASSUME NEW g \in Gens
      PROVE  /\ At(g, Waiting)' = At(g, Waiting) /\ At(g, Counted)' = At(g, Counted)
             /\ At(g, {"parked"})' = At(g, {"parked"}) /\ Owners(g)' = Owners(g)
  BY <1>1, <1>2 DEF At, Owners, Waiting, Counted, Gens, None
<1>4. Ownership'
  BY <1>1, <1>2 DEF Accounted, Ownership, Installed, MustHold, MayHold
<1>5. ParkedAccounted'
  BY <1>1, <1>3 DEF Accounted, ParkedAccounted, Distinct
<1>6. CallsAccounted' /\ SlotsAccounted'
  BY <1>1, <1>3 DEF Accounted, CallsAccounted, SlotsAccounted, Installed, Capacity
<1> QED
  BY <1>1, <1>4, <1>5, <1>6 DEF Accounted

(* A process that just started. *)
Started ==
    /\ gen = 0 /\ active = None /\ draining = {} /\ pending = None
    /\ step = "idle"
    /\ asked = [g \in Gens |-> Removed]
    /\ ctl = [g \in Gens |-> Unused]
    /\ phase \in [Calls -> {"new", "done"}]
    /\ on = [c \in Calls |-> None]
    /\ holds = [c \in Calls |-> FALSE]

LEMMA StartedInv == Counting /\ Started => AdmissionInv
<1> SUFFICES ASSUME Counting, Started PROVE AdmissionInv
  OBVIOUS
<1>0. <<>> \in Seq(Calls) /\ DOMAIN <<>> = {} /\ Cardinality({}) = 0 /\ MaxGen \in Nat
  BY EmptyFacts, ConfigAssumption DEF Counting
<1>1. /\ Unused \in IntControllers /\ Unused.config = Removed /\ Unused.free = 0
      /\ Unused.parked = <<>> /\ Unused.waiters = 0 /\ Unused.inFlight = 0
  BY <1>0 DEF Unused, NewController, IntControllers
<1>2. Types
  BY <1>0, <1>1 DEF Started, Types, Gens, None, Phases
<1>3. \A c \in Calls : on[c] = None /\ ~holds[c] /\ phase[c] \in {"new", "done"}
  BY DEF Started
<1>4. \A g \in Gens : Owners(g) = {} /\ \A S : At(g, S) = {}
  BY <1>3 DEF Owners, At, Gens, None
<1>5. \A g \in Gens : ctl[g] = Unused
  BY DEF Started
<1>6. Ownership
  BY <1>3 DEF Ownership, MustHold, MayHold
<1>7. ParkedAccounted
  BY <1>0, <1>1, <1>4, <1>5 DEF ParkedAccounted, Distinct, Range
<1>8. CallsAccounted
  BY <1>0, <1>1, <1>4, <1>5 DEF CallsAccounted, Installed
<1>9. SlotsAccounted
  <2> SUFFICES ASSUME NEW g \in Gens
               PROVE  ctl[g].free + Cardinality(Owners(g)) = Capacity(g)
    BY DEF SlotsAccounted
  <2>1. ctl[g].free = 0 /\ Capacity(g) = 0 /\ Cardinality(Owners(g)) = 0
    BY <1>0, <1>1, <1>4, <1>5 DEF Capacity
  <2> QED
    BY <2>1
<1>10. Generations /\ Handover /\ Latest
  <2>1. Generations
    BY <1>1, <1>5 DEF Generations, Started, None
  <2>2. Handover
    BY <1>1, <1>3, <1>5 DEF Handover, Started, Installed, Admissible
  <2>3. Latest
    BY DEF Latest, Started
  <2> QED
    BY <2>1, <2>2, <2>3
<1> QED
  BY <1>2, <1>6, <1>7, <1>8, <1>9, <1>10 DEF AdmissionInv, CountInv

-----------------------------------------------------------------------------
(* The handover between controllers.                                       *)

Governed == Generations /\ Handover /\ Latest

LEMMA GovernedCallStep ==
    ASSUME NEW c \in Calls, Types, Ownership, Governed, CallStep(c)
    PROVE  Governed'
<1>1. /\ UNCHANGED registry /\ on' = on
      /\ \A g \in Gens : ctl'[g].config = ctl[g].config /\ ctl'[g].closed = ctl[g].closed
  BY DEF CallStep, Steady
<1>2. /\ gen' = gen /\ asked' = asked /\ active' = active /\ draining' = draining
      /\ pending' = pending /\ step' = step
  BY <1>1 DEF registry
<1>3. /\ active # None => active \in Gens
      /\ pending # None => pending \in Gens
      /\ gen # 0 => gen \in Gens
      /\ \A d \in Calls : on[d] # None => on[d] \in Gens
  BY DEF Types, Gens, None
<1>4. Generations'
  <2>1. Generations /\ Types
    BY DEF Governed
  <2> QED
    BY <1>1, <1>2, <1>3, <2>1 DEF Generations, Installed
<1>5. Handover'
  <2>1. \A d \in Calls : phase'[d] \in Admissible => on[d] = active \/ on[d] \in draining
    <3> SUFFICES ASSUME NEW d \in Calls, phase'[d] \in Admissible
                 PROVE  on[d] = active \/ on[d] \in draining
      OBVIOUS
    <3>1. CASE phase[d] \in Admissible
      BY <3>1 DEF Governed, Handover
    <3>2. CASE phase[d] \notin Admissible
      <4>1. d = c /\ phase[c] = "counted" /\ ~ctl[on[c]].closed
        BY <3>2 DEF CallStep, Counts, Enters, Admissible
      <4>2. on[c] \in Gens /\ Installed(on[c])
        BY <1>3, <4>1 DEF Ownership
      <4> QED
        BY <4>1, <4>2 DEF Governed, Handover
    <3> QED
      BY <3>1, <3>2
  <2> QED
    BY <1>1, <1>2, <2>1 DEF Governed, Handover, Installed
<1>6. Latest'
  BY <1>1, <1>2, <1>3 DEF Governed, Latest, Available
<1> QED
  BY <1>4, <1>5, <1>6 DEF Governed

LEMMA GovernedLookup ==
    ASSUME NEW c \in Calls, Types, Governed, Lookup(c)
    PROVE  Governed'
<1>1. /\ gen' = gen /\ asked' = asked /\ active' = active /\ draining' = draining
      /\ pending' = pending /\ step' = step /\ ctl' = ctl
  BY DEF Lookup, registry
<1>2. \A d \in Calls : phase'[d] \in Admissible => phase[d] \in Admissible /\ on'[d] = on[d]
  BY DEF Lookup, Go, Types, Admissible
<1>3. Generations' /\ Latest'
  BY <1>1 DEF Governed, Generations, Latest, Installed, Available
<1>4. Handover'
  BY <1>1, <1>2 DEF Governed, Handover, Installed
<1> QED
  BY <1>3, <1>4 DEF Governed

(* A controller with calls that may be admitted is not drained. *)
LEMMA BusyIsUndrained ==
    ASSUME Counting, CallsAccounted, NEW c \in Calls, on[c] \in Gens, phase[c] \in Admissible
    PROVE  ctl[on[c]].inFlight \in Nat /\ ctl[on[c]].inFlight > 0
<1>1. c \in At(on[c], Counted)
  BY DEF At, Admissible, Counted, Waiting
<1>2. Cardinality(At(on[c], Counted)) \in Nat /\ Cardinality(At(on[c], Counted)) # 0
  BY <1>1 DEF At, Counting
<1> QED
  BY <1>2 DEF CallsAccounted

(* Pruning the drained controllers leaves those of calls under way. *)
LEMMA Prune ==
    ASSUME Counting, Types, CallsAccounted, Handover
    PROVE  /\ Undrained(draining) \subseteq draining
           /\ \A c \in Calls : phase[c] \in Admissible =>
                 on[c] = active \/ on[c] \in Undrained(draining)
<1> SUFFICES ASSUME NEW c \in Calls, phase[c] \in Admissible, on[c] \in draining
             PROVE  ctl[on[c]].inFlight > 0
  BY DEF Undrained, Handover
<1>1. on[c] \in Gens
  BY DEF Types
<1> QED
  BY <1>1, BusyIsUndrained

LEMMA InstallEffect ==
    ASSUME Types, NEW g \in Gens, Available(asked[g]), asked' = asked, Install(g)
    PROVE  /\ active' = g /\ asked[g] \in Configs /\ asked[g] # Removed
           /\ ctl' = [ctl EXCEPT ![g] = NewController(asked[g])]
           /\ ctl'[g].config = asked[g] /\ ~ctl'[g].closed
           /\ \A h \in Gens \ {g} : ctl'[h] = ctl[h]
<1>1. asked[g] \in Configs /\ asked[g] # Removed
  BY DEF Types, Available
<1>2. active' = g /\ ctl' = [ctl EXCEPT ![g] = NewController(asked[g])]
  BY DEF Install
<1>3. ctl'[g] = NewController(asked[g]) /\ \A h \in Gens \ {g} : ctl'[h] = ctl[h]
  BY <1>2 DEF Types
<1> QED
  BY <1>1, <1>2, <1>3, NewControllerType

LEMMA GovernedReconcile ==
    ASSUME Counting, NEW k \in Configs \cup {Removed}, Types, CallsAccounted, Governed, Reconcile(k)
    PROVE  Governed'
<1>1. /\ step = "idle" /\ gen' = gen + 1 /\ gen' \in Gens /\ gen \in Nat
      /\ asked'[gen'] = k /\ active' = active /\ pending' = pending
      /\ draining' = Undrained(draining) /\ UNCHANGED <<phase, on>>
  BY ConfigAssumption DEF Reconcile, Types, Gens
<1>2. /\ active \in Nat /\ pending \in Nat
      /\ active # None => active \in Gens
      /\ pending # None => pending \in Gens
  BY ConfigAssumption DEF Types, Gens, None
<1>3. /\ draining' \subseteq draining
      /\ \A c \in Calls : phase[c] \in Admissible => on[c] = active \/ on[c] \in draining'
  BY <1>1, Prune DEF Governed
<1>4. /\ \A g \in Gens : g > gen => ctl[g].config = Removed
      /\ active # None => active <= gen /\ ctl[active].config # Removed
      /\ pending <= gen
      /\ active = None /\ pending # None => ctl[pending].config = Removed
  BY DEF Governed, Generations, Installed
<1>5. ctl[gen'].config = Removed
  BY <1>1, <1>4
<1>a. /\ gen' \in Nat /\ gen' # 0 /\ Gens \subseteq Nat
      /\ \A n \in Nat : (n <= gen => n <= gen' /\ n # gen') /\ (n > gen' => n > gen)
  <2>1. gen' = gen + 1 /\ gen \in Nat
    BY <1>1
  <2> QED
    BY <2>1 DEF Gens
<1>6. CASE active = None \/ (Available(k) /\ ctl[active].config = k)
  <2>1. step' = "fill" /\ ctl' = ctl
    BY <1>6 DEF Reconcile
  <2>2. Generations'
    <3>1. \A g \in Gens : g > gen' => ctl'[g].config = Removed
      BY <1>4, <1>a, <2>1
    <3>2. active # None => active <= gen' /\ ctl'[active].config # Removed
      BY <1>2, <1>4, <1>a, <2>1
    <3>3. pending <= gen' /\ gen' # 0
      BY <1>2, <1>4, <1>a
    <3> QED
      BY <1>1, <1>4, <1>5, <2>1, <3>1, <3>2, <3>3 DEF Generations, Installed
  <2>3. Handover'
    BY <1>1, <1>3, <2>1 DEF Governed, Handover, Installed
  <2>4. Latest'
    BY <1>1, <1>6, <2>1 DEF Governed, Latest, Available
  <2> QED
    BY <2>2, <2>3, <2>4 DEF Governed
<1>7. CASE ~(active = None \/ (Available(k) /\ ctl[active].config = k))
  <2>1. /\ step' = "shut" /\ active \in Gens
        /\ ctl' = [ctl EXCEPT ![active].closed = TRUE]
    BY <1>2, <1>7 DEF Reconcile
  <2>2. /\ \A g \in Gens : ctl'[g].config = ctl[g].config
        /\ \A g \in Gens \ {active} : ctl'[g].closed = ctl[g].closed
        /\ ctl'[active].closed
    BY <2>1 DEF Types, IntControllers
  <2>3. Generations'
    <3>1. \A g \in Gens : g > gen' => ctl'[g].config = Removed
      BY <1>4, <1>a, <2>2
    <3>2. /\ active # None /\ active # gen' /\ active <= gen'
          /\ ctl'[active].config # Removed /\ ctl'[gen'].config = Removed
      <4>1. active # None /\ active <= gen /\ gen' \in Gens
        BY <1>1, <1>4, <1>7
      <4> QED
        BY <1>2, <1>4, <1>5, <1>a, <2>2, <4>1
    <3>3. pending <= gen' /\ gen' # 0
      BY <1>2, <1>4, <1>a
    <3> QED
      BY <1>1, <2>1, <2>2, <3>1, <3>2, <3>3 DEF Generations, Installed
  <2>4. Handover'
    BY <1>1, <1>3, <2>1, <2>2 DEF Governed, Handover, Installed
  <2>5. Latest'
    BY <2>1 DEF Latest
  <2> QED
    BY <2>3, <2>4, <2>5 DEF Governed
<1> QED
  BY <1>6, <1>7

LEMMA GovernedShut ==
    ASSUME Types, Governed, step = "shut", step' = "decide",
           UNCHANGED <<gen, asked, active, draining, pending, on>>,
           \A c \in Calls : phase'[c] \in {phase[c], "evicted"},
           \A g \in Gens : ctl'[g].config = ctl[g].config /\ ctl'[g].closed = ctl[g].closed
    PROVE  Governed'
<1>1. /\ active # None => active \in Gens
      /\ pending # None => pending \in Gens
      /\ gen # 0 => gen \in Gens
  BY DEF Types, Gens, None
<1>2. Generations'
  BY <1>1 DEF Governed, Generations, Installed
<1>3. Handover'
  BY DEF Governed, Handover, Installed, Admissible
<1>4. Latest'
  BY DEF Latest
<1> QED
  BY <1>2, <1>3, <1>4 DEF Governed

(* A generation that is installed as the active one, with nothing pending  *)
(* or drained behind it, keeps the generations in order.                   *)
LEMMA InstalledGeneration ==
    ASSUME Types, NEW g \in Gens, g <= gen, gen' = gen, gen # 0, active' = g,
           pending' <= gen, step' \in {"fill", "install", "idle"},
           ctl'[g].config # Removed, \A h \in Gens \ {g} : ctl'[h] = ctl[h],
           \A h \in Gens : h > gen => ctl[h].config = Removed
    PROVE  Generations'
<1>1. g # None
  BY DEF Gens, None
<1>2. ASSUME NEW h \in Gens, h > gen PROVE ctl'[h].config = Removed
  <2>1. h # g
    BY <1>2 DEF Types, Gens
  <2> QED
    BY <1>2, <2>1
<1> QED
  BY <1>1, <1>2 DEF Generations, Installed

LEMMA GovernedReplace ==
    ASSUME Counting, Types, CallsAccounted, Governed, Replace
    PROVE  Governed' /\ Installs
<1>1. /\ step = "decide" /\ step' = "fill" /\ gen' = gen /\ asked' = asked
      /\ draining' = draining \cup Undrained({active}) /\ UNCHANGED <<phase, on>>
  BY DEF Replace
<1>2. /\ active # None /\ active # gen /\ ctl[active].closed /\ ~Installed(gen)
      /\ gen # 0 /\ pending <= gen /\ draining = {}
      /\ \A g \in Gens : g > gen => ctl[g].config = Removed
  BY <1>1 DEF Governed, Generations, Handover
<1>3. active \in Gens /\ gen \in Gens /\ ctl[active].inFlight \in Int
  <2>1. active \in Gens /\ gen \in Gens
    BY <1>2 DEF Types, Gens, None
  <2> QED
    BY <2>1 DEF Types, IntControllers
<1>4. \A g \in Gens : Installed(g) => ctl[g].closed
  BY <1>2 DEF Governed, Handover
<1>5. \A c \in Calls : phase[c] \in Admissible => on[c] = active /\ ctl[active].inFlight > 0
  <2> SUFFICES ASSUME NEW c \in Calls, phase[c] \in Admissible
               PROVE  on[c] = active /\ ctl[active].inFlight > 0
    OBVIOUS
  <2>1. on[c] = active
    BY <1>2 DEF Governed, Handover
  <2> QED
    BY <1>3, <2>1, BusyIsUndrained
<1>6. CASE ctl[active].inFlight = 0 /\ Available(asked[gen])
  <2>1. Install(gen) /\ pending' = pending
    BY <1>3, <1>6 DEF Replace
  <2>2. /\ active' = gen /\ asked[gen] \in Configs /\ asked[gen] # Removed
        /\ ctl' = [ctl EXCEPT ![gen] = NewController(asked[gen])]
        /\ ctl'[gen].config = asked[gen] /\ ~ctl'[gen].closed
        /\ \A h \in Gens \ {gen} : ctl'[h] = ctl[h]
    BY <1>1, <1>3, <1>6, <2>1, InstallEffect
  <2>3. draining' = {}
    BY <1>1, <1>2, <1>6 DEF Undrained
  <2>4. Generations'
    <3>1. gen <= gen
      BY <1>3 DEF Gens
    <3> QED
      BY <1>1, <1>2, <1>3, <2>1, <2>2, <3>1, InstalledGeneration
  <2>5. Handover'
    <3>1. \A c \in Calls : phase[c] \notin Admissible
      BY <1>5, <1>6
    <3> QED
      BY <1>1, <1>4, <2>2, <2>3, <3>1 DEF Handover, Installed
  <2>6. Latest'
    BY <1>1, <1>6, <2>2 DEF Latest, Available
  <2>7. Installs
    BY <1>2, <1>3, <2>2 DEF Installs
  <2> QED
    BY <2>4, <2>5, <2>6, <2>7 DEF Governed
<1>7. CASE ~(ctl[active].inFlight = 0 /\ Available(asked[gen]))
  <2>1. active' = None /\ ctl' = ctl /\ pending' \in {None, gen}
    <3>1. CASE ~Available(asked[gen])
      BY <1>7, <3>1 DEF Replace
    <3>2. CASE Available(asked[gen])
      <4>1. ctl[active].inFlight > 0
        <5>1. At(active, Counted) \subseteq Calls
          BY DEF At
        <5>2. ctl[active].inFlight \in Nat
          BY <1>3, <5>1 DEF CallsAccounted, Counting
        <5> QED
          BY <1>7, <3>2, <5>2
      <4> QED
        BY <1>7, <3>2, <4>1 DEF Replace
    <3> QED
      BY <3>1, <3>2
  <2>2. draining' \subseteq {active} /\ (ctl[active].inFlight > 0 => active \in draining')
    BY <1>1, <1>2 DEF Undrained
  <2>3. Generations'
    <3>1. None <= gen /\ gen <= gen
      BY <1>3 DEF Gens, None
    <3> QED
      BY <1>1, <1>2, <2>1, <3>1 DEF Generations, Installed
  <2>4. Handover'
    BY <1>1, <1>4, <1>5, <2>1, <2>2 DEF Handover, Installed
  <2>5. Latest'
    BY <1>1, <2>1 DEF Latest
  <2> QED
    BY <2>1, <2>3, <2>4, <2>5 DEF Governed, Installs
<1> QED
  BY <1>6, <1>7

LEMMA GovernedFill ==
    ASSUME Counting, Types, Ownership, CallsAccounted, Governed, Fill
    PROVE  Governed' /\ Installs
<1>1. /\ step = "fill" /\ step' = "install" /\ gen' = gen /\ asked' = asked
      /\ UNCHANGED <<phase, on>>
  BY DEF Fill
<1>2. /\ gen # 0 /\ pending <= gen
      /\ active # None => active <= gen /\ Installed(active) /\ ~ctl[active].closed
      /\ active # None => Available(asked[gen]) /\ ctl[active].config = asked[gen]
      /\ active = None => ~Installed(gen)
      /\ active = None /\ pending # None => ~Installed(pending)
      /\ \A g \in Gens : g > gen => ctl[g].config = Removed
  BY <1>1 DEF Governed, Generations, Latest
<1>3. gen \in Gens /\ gen <= gen /\ None <= gen
  BY <1>2 DEF Types, Gens, None
<1>4. CASE /\ asked[gen] = Removed \/ (Available(asked[gen]) /\ active # None)
           /\ UNCHANGED <<active, draining, pending, ctl>>
  <2>1. Generations'
    BY <1>1, <1>2, <1>4 DEF Generations, Installed
  <2>2. Handover'
    BY <1>1, <1>4 DEF Governed, Handover, Installed
  <2>3. Latest'
    BY <1>1, <1>2, <1>4 DEF Latest, Available
  <2> QED
    BY <1>4, <2>1, <2>2, <2>3 DEF Governed, Installs
<1>5. CASE /\ asked[gen] # Removed /\ ~Available(asked[gen]) /\ pending' = None
           /\ UNCHANGED <<active, draining, ctl>>
  <2>0. active = None
    BY <1>2, <1>5
  <2>1. Generations'
    BY <1>1, <1>2, <1>3, <1>5, <2>0 DEF Generations, Installed
  <2>2. Handover'
    BY <1>1, <1>5 DEF Governed, Handover, Installed
  <2>3. Latest'
    BY <1>1, <1>5, <2>0 DEF Latest
  <2> QED
    BY <1>5, <2>1, <2>2, <2>3 DEF Governed, Installs
<1>6. CASE /\ Available(asked[gen]) /\ active = None /\ draining' = Undrained(draining)
           /\ draining' # {} /\ pending' = gen /\ UNCHANGED <<active, ctl>>
  <2>0. /\ draining' \subseteq draining
        /\ \A c \in Calls : phase[c] \in Admissible => on[c] = active \/ on[c] \in draining'
    BY <1>6, Prune DEF Governed
  <2>1. Generations'
    BY <1>1, <1>2, <1>3, <1>6 DEF Generations, Installed
  <2>2. Handover'
    BY <1>1, <1>6, <2>0 DEF Governed, Handover, Installed
  <2>3. Latest'
    BY <1>1, <1>6 DEF Latest
  <2> QED
    BY <1>6, <2>1, <2>2, <2>3 DEF Governed, Installs
<1>7. CASE /\ Available(asked[gen]) /\ active = None /\ draining' = Undrained(draining)
           /\ draining' = {} /\ Install(gen) /\ UNCHANGED pending
  <2>0. /\ draining' \subseteq draining
        /\ \A c \in Calls : phase[c] \notin Admissible
    <3>1. \A c \in Calls : phase[c] \in Admissible => on[c] = None
      BY <1>7, Prune DEF Governed
    <3> QED
      BY <1>7, <3>1, Prune DEF Governed, Ownership, Admissible
  <2>1. /\ active' = gen /\ asked[gen] \in Configs /\ asked[gen] # Removed
        /\ ctl' = [ctl EXCEPT ![gen] = NewController(asked[gen])]
        /\ ctl'[gen].config = asked[gen] /\ ~ctl'[gen].closed
        /\ \A h \in Gens \ {gen} : ctl'[h] = ctl[h]
    BY <1>1, <1>3, <1>7, InstallEffect
  <2>2. Generations'
    <3>1. gen <= gen
      BY <1>3 DEF Gens
    <3> QED
      BY <1>1, <1>2, <1>3, <1>7, <2>1, <3>1, InstalledGeneration
  <2>3. Handover'
    <3>1. \A g \in Gens : Installed(g) => ctl[g].closed
      <4>1. None \notin Gens
        BY DEF Gens, None
      <4> QED
        BY <1>7, <4>1 DEF Governed, Handover
    <3> QED
      BY <1>1, <1>7, <2>0, <2>1, <3>1 DEF Handover, Installed
  <2>4. Latest'
    <3>1. gen # None
      BY <1>2 DEF None
    <3> QED
      BY <1>1, <1>7, <2>1, <3>1 DEF Latest, Available
  <2>5. Installs
    BY <1>2, <1>3, <1>7, <2>1 DEF Installs
  <2> QED
    BY <2>2, <2>3, <2>4, <2>5 DEF Governed
<1> QED
  BY <1>4, <1>5, <1>6, <1>7 DEF Fill

LEMMA GovernedPending ==
    ASSUME Counting, Types, Ownership, CallsAccounted, Governed,
           step \in {"install", "idle"}, step' = "idle", UNCHANGED <<gen, on>>,
           \A c \in Calls : phase'[c] \in Admissible => phase[c] \in Admissible,
           InstallPendingIfReady
    PROVE  Governed' /\ Installs
<1>1. draining' = Undrained(draining) /\ asked' = asked
  BY DEF InstallPendingIfReady
<1>2. /\ draining' \subseteq draining
      /\ \A c \in Calls : phase[c] \in Admissible => on[c] = active \/ on[c] \in draining'
  BY <1>1, Prune DEF Governed
<1>3. /\ pending <= gen /\ (step = "install" => gen # 0)
      /\ active # None => active <= gen /\ Installed(active) /\ ~ctl[active].closed
      /\ active = None /\ pending # None => ~Installed(pending)
      /\ \A g \in Gens : g > gen => ctl[g].config = Removed
  BY DEF Governed, Generations, Latest
<1>4. gen \in Nat /\ None <= gen
  BY ConfigAssumption DEF Types, None
<1>5. CASE UNCHANGED <<active, ctl>> /\ pending' \in {pending, None}
  <2>1. Generations'
    BY <1>3, <1>4, <1>5 DEF Generations, Installed
  <2>2. Handover'
    BY <1>2, <1>5 DEF Governed, Handover, Installed
  <2>3. Latest'
    BY <1>1, <1>5 DEF Governed, Latest, Available
  <2> QED
    BY <1>5, <2>1, <2>2, <2>3 DEF Governed, Installs
<1>6. CASE /\ active = None /\ draining' = {} /\ pending # None /\ pending' = None
           /\ Available(asked[pending]) /\ Install(pending)
  <2>0. pending \in Gens
    BY <1>6 DEF Types, Gens, None
  <2>1. /\ active' = pending /\ asked[pending] \in Configs /\ asked[pending] # Removed
        /\ ctl' = [ctl EXCEPT ![pending] = NewController(asked[pending])]
        /\ ctl'[pending].config = asked[pending] /\ ~ctl'[pending].closed
        /\ \A h \in Gens \ {pending} : ctl'[h] = ctl[h]
    BY <1>1, <1>6, <2>0, InstallEffect
  <2>2. \A c \in Calls : phase[c] \notin Admissible
    BY <1>2, <1>6 DEF Ownership, Admissible
  <2>3. Generations'
    <3>1. pending <= gen /\ pending' <= gen /\ gen # 0
      BY <1>3, <1>4, <1>6, <2>0 DEF Gens, None
    <3> QED
      BY <1>3, <1>6, <2>0, <2>1, <3>1, InstalledGeneration
  <2>4. Handover'
    <3>1. \A g \in Gens : Installed(g) => ctl[g].closed
      <4>1. None \notin Gens
        BY DEF Gens, None
      <4> QED
        BY <1>6, <4>1 DEF Governed, Handover
    <3> QED
      BY <1>6, <2>1, <2>2, <3>1 DEF Handover, Installed
  <2>5. Latest'
    <3>1. asked[gen] # Removed => asked[pending] = asked[gen]
      BY <1>6 DEF Governed, Latest
    <3> QED
      BY <1>1, <1>6, <2>1, <3>1 DEF Latest, Available
  <2>6. Installs
    BY <1>3, <1>6, <2>0, <2>1 DEF Installs
  <2> QED
    BY <2>3, <2>4, <2>5, <2>6 DEF Governed
<1> QED
  BY <1>5, <1>6 DEF InstallPendingIfReady

=============================================================================
