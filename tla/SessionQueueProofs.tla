------------------------- MODULE SessionQueueProofs -------------------------
(***************************************************************************)
(* When requests are created in the queue's order, the rows of a session   *)
(* follow SessionContract, for any number of requests and workers.         *)
(***************************************************************************)
EXTENDS SessionQueue, TLAPS

States == {"absent", "pending", "active", "ended"}

(* A worker that has passed the check and whose request is still pending   *)
(* has nothing active and nothing pending before it; this is what the      *)
(* claim relies on although it reads only its own row.                     *)
Cleared ==
    \A w \in Workers :
        worker[w].pc = "claim" /\ Pending(worker[w].req) =>
            \A q \in Own : ~Active(q) /\ (q < worker[w].req => ~Pending(q))

Held ==
    \A w \in Workers : worker[w].pc # "idle" =>
                            worker[w].req \in Own /\ row[worker[w].req] # "absent"

QueueInv ==
    /\ row \in [Requests -> States]
    /\ worker \in [Workers -> [pc : {"idle", "inspect", "interrupt", "expire",
                                     "check", "claim"}, req : Nat]]
    /\ drain \subseteq Own
    /\ Held
    /\ Cleared

(* The empty queue satisfies the invariant. *)
LEMMA QueueInvInit == Init => QueueInv
  BY DEF Init, QueueInv, Held, Cleared, Idle, States, Own, Pending

(* Nothing but the rows and the workers matters to the invariant. *)
LEMMA QueueInvSame ==
    ASSUME QueueInv, UNCHANGED <<row, worker>>, drain' \subseteq Own
    PROVE  QueueInv'
  BY DEF QueueInv, Held, Cleared, Pending, Active

(* A step that only ends pending or active rows preserves the invariant,   *)
(* if no worker gets past the check.                                       *)
LEMMA QueueInvEnds ==
    ASSUME QueueInv,
           row' \in [Requests -> States],
           \A q \in Own : row'[q] # row[q] => row'[q] = "ended",
           drain' \subseteq Own,
           worker' \in [Workers -> [pc : {"idle", "inspect", "interrupt", "expire",
                                          "check", "claim"}, req : Nat]],
           \A w \in Workers : worker'[w] = worker[w] \/ worker'[w].pc = "idle"
                              \/ (/\ worker'[w].pc # "claim"
                                  /\ worker'[w].req \in Own
                                  /\ row[worker'[w].req] # "absent")
    PROVE  QueueInv'
<1>1. Held'
  <2> SUFFICES ASSUME NEW w \in Workers, worker'[w].pc # "idle"
               PROVE  worker'[w].req \in Own /\ row'[worker'[w].req] # "absent"
    BY DEF Held
  <2>1. worker'[w].req \in Own /\ row[worker'[w].req] # "absent"
    BY DEF QueueInv, Held
  <2> QED BY <2>1
<1>2. Cleared'
  <2> SUFFICES ASSUME NEW w \in Workers, worker'[w].pc = "claim",
                      row'[worker'[w].req] = "pending", NEW q \in Own
               PROVE  row'[q] # "active" /\ (q < worker'[w].req => row'[q] # "pending")
    BY DEF Cleared, Pending, Active
  <2>1. worker'[w] = worker[w] /\ worker[w].req \in Own
    BY DEF QueueInv, Held
  <2>2. row[worker[w].req] = "pending"
    BY <2>1
  <2>3. row[q] # "active" /\ (q < worker[w].req => row[q] # "pending")
    BY <2>1, <2>2 DEF QueueInv, Cleared, Pending, Active
  <2> QED BY <2>1, <2>3
<1> QED BY <1>1, <1>2 DEF QueueInv

(* A row update whose filter asks for a pending row. *)
LEMMA IfPendingRow ==
    ASSUME NEW r \in Requests, NEW s \in States, row \in [Requests -> States],
           IfPending(r, s)
    PROVE  /\ row' \in [Requests -> States]
           /\ \A q \in Requests : row'[q] # row[q] => q = r /\ row[r] = "pending" /\ row'[q] = s
           /\ row[r] = "pending" => row'[r] = s
  BY DEF IfPending, Pending

(* What the scan does to the rows it cannot read. *)
LEMMA QuarantineRow ==
    ASSUME row \in [Requests -> States], Quarantine
    PROVE  /\ row' \in [Requests -> States]
           /\ \A q \in Requests : row'[q] # row[q] => row[q] = "pending" /\ row'[q] = "ended"
  BY DEF Quarantine, Pending, States

(* Every step preserves the invariant when requests arrive in order. *)
LEMMA QueueInvNext == Ordered /\ QueueInv /\ [Next]_vars => QueueInv'
<1> SUFFICES ASSUME Ordered, QueueInv, [Next]_vars PROVE QueueInv'
  OBVIOUS
<1> USE QueueAssumption
<1>0. /\ row \in [Requests -> States]
      /\ worker \in [Workers -> [pc : {"idle", "inspect", "interrupt", "expire",
                                       "check", "claim"}, req : Nat]]
      /\ drain \subseteq Own
      /\ Own \subseteq Requests
  BY DEF QueueInv, Own
<1>1. CASE UNCHANGED vars
  BY <1>0, <1>1, QueueInvSame DEF vars
<1>2. ASSUME NEW w \in Workers, NEW r \in Requests, NextRequest(w, r) PROVE QueueInv'
  <2>1. r \in Own /\ row[r] # "absent"
    BY <1>2 DEF NextRequest, Claimable, Pending
  <2>2. worker' = [worker EXCEPT ![w] = [pc |-> "inspect", req |-> r]]
    BY <1>2 DEF NextRequest, At
  <2> QED BY <1>0, <1>2, <2>1, <2>2, QuarantineRow, QueueInvEnds DEF NextRequest
<1>3. ASSUME NEW w \in Workers, Inspect(w) PROVE QueueInv'
  <2>1. worker[w].req \in Own /\ row[worker[w].req] # "absent" /\ worker[w].req \in Nat
    BY <1>0, <1>3 DEF Inspect, QueueInv, Held
  <2> DEFINE r == worker[w].req
             n == IF r \in latched THEN "interrupt"
                  ELSE IF r \in stale THEN "expire"
                  ELSE IF r \in Malformed THEN "idle" ELSE "check"
  <2>2. n \in {"idle", "interrupt", "expire", "check"}
    OBVIOUS
  <2>3. row' = row /\ drain' = drain
    BY <1>3 DEF Inspect
  <2>4. worker' = [worker EXCEPT ![w] = [pc |-> n, req |-> IF n = "idle" THEN 0 ELSE r]]
    BY <1>3 DEF Inspect, At, Idle
  <2> HIDE DEF n
  <2>5. worker' \in [Workers -> [pc : {"idle", "inspect", "interrupt", "expire",
                                       "check", "claim"}, req : Nat]]
    BY <1>0, <2>1, <2>2, <2>4
  <2>6. \A v \in Workers : worker'[v] = worker[v] \/ worker'[v].pc = "idle"
                            \/ (/\ worker'[v].pc # "claim"
                                /\ worker'[v].req \in Own
                                /\ row[worker'[v].req] # "absent")
    BY <1>0, <2>1, <2>2, <2>4
  <2> QED BY <1>0, <2>3, <2>5, <2>6, QueueInvEnds
<1>4. ASSUME NEW w \in Workers, EndBeforeClaim(w) PROVE QueueInv'
  <2>1. worker[w].req \in Own
    BY <1>4 DEF EndBeforeClaim, QueueInv, Held
  <2>2. worker' = [worker EXCEPT ![w] = [pc |-> "idle", req |-> 0]]
    BY <1>4 DEF EndBeforeClaim, Idle
  <2>3. "ended" \in States
    BY DEF States
  <2> QED BY <1>0, <1>4, <2>1, <2>2, <2>3, IfPendingRow, QueueInvEnds DEF EndBeforeClaim
<1>5. ASSUME NEW w \in Workers, CheckDeduplication(w) PROVE QueueInv'
  <2> DEFINE r == worker[w].req
  <2>1. r \in Own /\ r \in Nat /\ row[r] # "absent" /\ row' = row /\ drain' = drain
    BY <1>0, <1>5 DEF CheckDeduplication, QueueInv, Held
  <2>2. CASE ~IsEarliest(r)
    <3>1. worker' = [worker EXCEPT ![w] = [pc |-> "idle", req |-> 0]]
      BY <1>5, <2>2 DEF CheckDeduplication, Idle
    <3> QED BY <1>0, <2>1, <3>1, QueueInvEnds
  <2>3. CASE IsEarliest(r)
    <3>1. worker' = [worker EXCEPT ![w] = [pc |-> "claim", req |-> r]]
      BY <1>5, <2>3 DEF CheckDeduplication, At
    <3>2. \A q \in Own : row[q] # "active" /\ (q < r => row[q] # "pending")
      BY <2>1, <2>3, <1>0 DEF IsEarliest, Pending, Active
    <3>3. Held'
      BY <1>0, <2>1, <3>1 DEF QueueInv, Held
    <3>4. Cleared'
      BY <1>0, <2>1, <3>1, <3>2 DEF QueueInv, Cleared, Pending, Active
    <3>5. worker' \in [Workers -> [pc : {"idle", "inspect", "interrupt", "expire",
                                         "check", "claim"}, req : Nat]]
      BY <1>0, <2>1, <3>1
    <3> QED BY <1>0, <2>1, <3>3, <3>4, <3>5 DEF QueueInv
  <2> QED BY <2>2, <2>3
<1>6. ASSUME NEW w \in Workers, Claim(w) PROVE QueueInv'
  <2> DEFINE r == worker[w].req
  <2>1. r \in Own /\ r \in Nat /\ worker[w].pc = "claim" /\ drain' = drain
    BY <1>0, <1>6 DEF Claim, QueueInv, Held
  <2>2. worker' = [worker EXCEPT ![w] = [pc |-> "idle", req |-> 0]]
    BY <1>6 DEF Claim, Idle
  <2>3. "active" \in States
    BY DEF States
  <2>4. /\ row' \in [Requests -> States]
        /\ \A q \in Requests : row'[q] # row[q] =>
              q = r /\ row[r] = "pending" /\ row'[q] = "active"
    BY <1>0, <1>6, <2>1, <2>3, IfPendingRow DEF Claim
  <2>5. Held'
    BY <1>0, <2>1, <2>2, <2>4 DEF QueueInv, Held
  <2>6. Cleared'
    <3> SUFFICES ASSUME NEW v \in Workers, worker'[v].pc = "claim",
                        row'[worker'[v].req] = "pending", NEW q \in Own
                 PROVE  row'[q] # "active" /\ (q < worker'[v].req => row'[q] # "pending")
      BY DEF Cleared, Pending, Active
    <3>1. v # w /\ worker'[v] = worker[v] /\ worker[v].req \in Own /\ worker[v].req \in Nat
      BY <1>0, <2>2 DEF QueueInv, Held
    <3>2. row[worker[v].req] = "pending"
      BY <1>0, <2>4, <3>1
    <3>3. \A p \in Own : row[p] # "active" /\ (p < worker[v].req => row[p] # "pending")
      BY <3>1, <3>2 DEF QueueInv, Cleared, Pending, Active
    <3>4. CASE row[r] = "pending"
      <4>1. \A p \in Own : p < r => row[p] # "pending"
        BY <2>1, <3>4 DEF QueueInv, Cleared, Pending
      <4>2. worker[v].req = r
        BY <2>1, <3>1, <3>2, <3>3, <3>4, <4>1
      <4>3. row'[r] = "active"
        BY <1>0, <1>6, <2>1, <2>3, <3>4, IfPendingRow DEF Claim
      <4> QED BY <3>1, <4>2, <4>3
    <3>5. CASE row[r] # "pending"
      BY <1>0, <2>4, <3>1, <3>3, <3>5
    <3> QED BY <3>4, <3>5
  <2>7. worker' \in [Workers -> [pc : {"idle", "inspect", "interrupt", "expire",
                                       "check", "claim"}, req : Nat]]
    BY <1>0, <2>2
  <2> QED BY <1>0, <2>1, <2>4, <2>5, <2>6, <2>7 DEF QueueInv
<1>7. ASSUME NEW r \in Requests, Submit(r) PROVE QueueInv'
  <2>1. /\ r \in Own /\ r \in Nat /\ row[r] = "absent"
        /\ \A q \in Own : row[q] # "absent" => q < r
        /\ row' = [row EXCEPT ![r] = "pending"]
        /\ worker' = worker /\ drain' = drain
    BY <1>7 DEF Submit
  <2>2. row' \in [Requests -> States]
    BY <1>0, <2>1 DEF States
  <2>3. Held'
    BY <1>0, <2>1 DEF QueueInv, Held
  <2>4. Cleared'
    <3> SUFFICES ASSUME NEW w \in Workers, worker[w].pc = "claim",
                        row'[worker[w].req] = "pending", NEW q \in Own
                 PROVE  row'[q] # "active" /\ (q < worker[w].req => row'[q] # "pending")
      BY <2>1 DEF Cleared, Pending, Active
    <3>1. worker[w].req \in Own /\ worker[w].req \in Nat
      BY <1>0 DEF QueueInv, Held
    <3>2. CASE worker[w].req = r
      BY <2>1, <3>2 DEF QueueInv, Held
    <3>3. CASE worker[w].req # r
      <4>1. row[worker[w].req] = "pending"
        BY <1>0, <2>1, <3>1, <3>3
      <4>2. worker[w].req < r
        BY <2>1, <3>1, <4>1
      <4>3. row[q] # "active" /\ (q < worker[w].req => row[q] # "pending")
        BY <4>1 DEF QueueInv, Cleared, Pending, Active
      <4>4. q \in Nat /\ (q < worker[w].req => q # r)
        BY <1>0, <2>1, <3>1, <4>2
      <4> QED BY <1>0, <2>1, <4>3, <4>4
    <3> QED BY <3>2, <3>3
  <2> QED BY <1>0, <2>1, <2>2, <2>3, <2>4 DEF QueueInv
<1>8. ASSUME NEW r \in Requests, End(r) PROVE QueueInv'
  <2>1. row' = [row EXCEPT ![r] = "ended"] /\ worker' = worker /\ drain' = drain
    BY <1>8 DEF End
  <2>2. row' \in [Requests -> States]
    BY <1>0, <2>1 DEF States
  <2> QED BY <1>0, <2>1, <2>2, QueueInvEnds
<1>9. ASSUME NEW r \in Requests, NEW s \in {"pending", "active", "ended"}, Replicate(r, s)
      PROVE QueueInv'
  <2>1. r \notin Own /\ row' = [row EXCEPT ![r] = s] /\ worker' = worker /\ drain' = drain
    BY <1>9 DEF Replicate, Own
  <2>2. row' \in [Requests -> States]
    BY <1>0, <2>1 DEF States
  <2> QED BY <1>0, <2>1, <2>2, QueueInvEnds
<1>10. ASSUME NEW q \in Requests, DrainWake(q) PROVE QueueInv'
  <2>1. "ended" \in States
    BY DEF States
  <2> QED BY <1>0, <1>10, <2>1, IfPendingRow, QueueInvEnds DEF DrainWake
<1>11. ASSUME EmptyScan PROVE QueueInv'
  BY <1>0, <1>11, QuarantineRow, QueueInvEnds DEF EmptyScan
<1>12. ASSUME Crash PROVE QueueInv'
  <2>1. worker' = [w \in Workers |-> [pc |-> "idle", req |-> 0]] /\ row' = row /\ drain' = {}
    BY <1>12 DEF Crash, Idle
  <2> QED BY <1>0, <2>1, QueueInvEnds
<1>13. ASSUME NEW r \in Requests, Interrupt(r) PROVE QueueInv'
  BY <1>0, <1>13, QueueInvSame DEF Interrupt
<1>14. ASSUME NEW r \in Requests, CoolDown(r) \/ Expire(r) PROVE QueueInv'
  BY <1>0, <1>14, QueueInvSame DEF CoolDown, Expire
<1>15. ASSUME DrainFails PROVE QueueInv'
  BY <1>0, <1>15, QueueInvSame DEF DrainFails
<1> QED
  BY <1>1, <1>2, <1>3, <1>4, <1>5, <1>6, <1>7, <1>8, <1>9, <1>10, <1>11, <1>12,
     <1>13, <1>14, <1>15 DEF Next, Step

(* The rows of the agent follow the contract: initial states are initial,  *)
(* and every step is a step of the contract or changes none of its rows.   *)
LEMMA StepFollowsContract ==
    Ordered /\ QueueInv /\ [Next]_vars =>
        [Contract!Next]_([r \in Own |-> row[r]])
<1> SUFFICES ASSUME Ordered, QueueInv, [Next]_vars
             PROVE  Contract!Next \/ [r \in Own |-> row[r]]' = [r \in Own |-> row[r]]
  OBVIOUS
<1> USE QueueAssumption
<1>0. row \in [Requests -> States] /\ Own \subseteq Requests
  BY DEF QueueInv, Own
<1>1. ASSUME row' = row PROVE [r \in Own |-> row[r]]' = [r \in Own |-> row[r]]
  BY <1>1
<1>2. ASSUME row' \in [Requests -> States],
             \A q \in Own : row'[q] # row[q] => row[q] = "pending" /\ row'[q] = "ended"
      PROVE  Contract!Next
  <2>0. PICK E \in SUBSET Own : E = {q \in Own : row'[q] # row[q]}
    OBVIOUS
  <2>1. [r \in Own |-> row'[r]] =
           [r \in Own |-> IF r \in E THEN "ended" ELSE [q \in Own |-> row[q]][r]]
    BY <1>2, <2>0
  <2>2. \A r \in E : [q \in Own |-> row[q]][r] = "pending"
    BY <1>2, <2>0
  <2>3. Contract!Withdraw(E)
    BY <2>1, <2>2 DEF Contract!Withdraw
  <2> QED BY <2>3 DEF Contract!Next
<1>3. ASSUME NEW w \in Workers, Claim(w)
      PROVE  Contract!Next \/ [r \in Own |-> row[r]]' = [r \in Own |-> row[r]]
  <2>1. PICK r \in Own : r = worker[w].req /\ worker[w].pc = "claim"
    BY <1>3 DEF Claim, QueueInv, Held
  <2>2. CASE row[r] # "pending"
    BY <1>1, <1>3, <2>1, <2>2 DEF Claim, IfPending, Pending
  <2>3. CASE row[r] = "pending"
    <3>1. row' = [row EXCEPT ![r] = "active"]
      BY <1>3, <2>1, <2>3 DEF Claim, IfPending, Pending
    <3>2. \A q \in Own : row[q] # "active" /\ (q < r => row[q] # "pending")
      BY <2>1, <2>3 DEF QueueInv, Cleared, Pending, Active
    <3>3. [q \in Own |-> row'[q]] = [[q \in Own |-> row[q]] EXCEPT ![r] = "active"]
      BY <1>0, <2>1, <3>1
    <3>4. Contract!ClaimHead(r)
      BY <2>1, <2>3, <3>2, <3>3 DEF Contract!ClaimHead
    <3> QED BY <3>4 DEF Contract!Next
  <2> QED BY <2>2, <2>3
<1>4. ASSUME NEW r \in Requests, Submit(r) PROVE Contract!Next
  <2>1. /\ r \in Own /\ row[r] = "absent"
        /\ \A q \in Own : row[q] # "absent" => q < r
        /\ row' = [row EXCEPT ![r] = "pending"]
    BY <1>4 DEF Submit
  <2>2. [q \in Own |-> row'[q]] = [[q \in Own |-> row[q]] EXCEPT ![r] = "pending"]
    BY <1>0, <2>1
  <2>3. Contract!Append(r)
    BY <2>1, <2>2 DEF Contract!Append
  <2> QED BY <2>1, <2>3 DEF Contract!Next
<1>5. ASSUME NEW r \in Requests, End(r) PROVE Contract!Next
  <2>1. r \in Own /\ row[r] = "active" /\ row' = [row EXCEPT ![r] = "ended"]
    BY <1>5 DEF End, Active
  <2>2. [q \in Own |-> row'[q]] = [[q \in Own |-> row[q]] EXCEPT ![r] = "ended"]
    BY <1>0, <2>1
  <2>3. Contract!FinishActive(r)
    BY <2>1, <2>2 DEF Contract!FinishActive
  <2> QED BY <2>1, <2>3 DEF Contract!Next
<1>6. ASSUME NEW r \in Requests, NEW s \in {"pending", "active", "ended"}, Replicate(r, s)
      PROVE  [q \in Own |-> row[q]]' = [q \in Own |-> row[q]]
  <2>1. r \notin Own /\ row' = [row EXCEPT ![r] = s]
    BY <1>6 DEF Replicate, Own
  <2> QED BY <1>0, <2>1
<1>7. ASSUME NEW w \in Workers, EndBeforeClaim(w) PROVE Contract!Next
  <2>0. worker[w].pc # "idle" /\ "ended" \in States
    BY <1>7 DEF EndBeforeClaim, States
  <2>1. worker[w].req \in Own /\ "ended" \in States
    BY <2>0 DEF QueueInv, Held
  <2>2. IfPending(worker[w].req, "ended")
    BY <1>7 DEF EndBeforeClaim
  <2>3. /\ row' \in [Requests -> States]
        /\ \A q \in Own : row'[q] # row[q] => row[q] = "pending" /\ row'[q] = "ended"
    <3>1. PICK r \in Own : r = worker[w].req
      BY <2>1
    <3>2. r \in Requests /\ IfPending(r, "ended")
      BY <1>0, <2>2, <3>1
    <3>3. /\ row' \in [Requests -> States]
          /\ \A q \in Requests :
                row'[q] # row[q] => q = r /\ row[r] = "pending" /\ row'[q] = "ended"
      BY <1>0, <2>1, <3>2, IfPendingRow
    <3> QED BY <1>0, <3>3
  <2> QED BY <1>2, <2>3
<1>8. ASSUME NEW q \in Requests, DrainWake(q) PROVE Contract!Next
  <2>1. "ended" \in States
    BY DEF States
  <2> QED BY <1>0, <1>2, <1>8, <2>1, IfPendingRow DEF DrainWake
<1>9. ASSUME Quarantine PROVE Contract!Next
  BY <1>0, <1>2, <1>9, QuarantineRow
<1>10. ASSUME NEW w \in Workers, Inspect(w) \/ CheckDeduplication(w) PROVE row' = row
  BY <1>10 DEF Inspect, CheckDeduplication
<1>11. ASSUME NEW r \in Requests, CoolDown(r) \/ Expire(r) \/ Interrupt(r)
       PROVE  row' = row
  BY <1>11 DEF CoolDown, Expire, Interrupt
<1>12. ASSUME DrainFails \/ Crash \/ UNCHANGED vars PROVE row' = row
  BY <1>12 DEF DrainFails, Crash, vars
<1> QED
  BY <1>1, <1>3, <1>4, <1>5, <1>6, <1>7, <1>8, <1>9, <1>10, <1>11, <1>12
     DEF Next, Step, NextRequest, EmptyScan

(* With requests created in the queue's order, a session runs its requests *)
(* one at a time and in order, however many workers race for them: the     *)
(* check and the claim of claim_inner need not be one transaction.         *)
THEOREM QueueFollowsContract == Ordered /\ Spec => FollowsContract
<1> SUFFICES ASSUME Ordered PROVE Spec => FollowsContract
  OBVIOUS
<1>1. Init => Contract!Init
  BY DEF Init, Contract!Init, Own
<1> QED
  BY <1>1, QueueInvInit, QueueInvNext, StepFollowsContract, PTL
     DEF Spec, FollowsContract, Contract!Spec

(* With requests created in the queue's order, no two requests of the      *)
(* agent's session are ever active at once, however checks, claims, drains *)
(* and restarts of any number of workers interleave (claim_inner).         *)
THEOREM OneRequestAtATime == Ordered /\ Spec => []OneActive
<1> SUFFICES ASSUME Ordered PROVE Spec => []OneActive
  OBVIOUS
<1>1. Init => OneActive
  BY DEF Init, OneActive, Active, Own
<1>2. QueueInv /\ OneActive /\ [Next]_vars => OneActive'
  <2> SUFFICES ASSUME QueueInv, OneActive, [Next]_vars PROVE OneActive'
    OBVIOUS
  <2> DEFINE s == [r \in Own |-> row[r]]
             t == [r \in Own |-> row'[r]]
  <2>0. s = [r \in Own |-> s[r]]
    OBVIOUS
  <2>1. Contract!Next \/ t = s
    BY StepFollowsContract
  <2>2. (\A r, q \in Own : s[r] = "active" /\ s[q] = "active" => r = q)
          => (\A r, q \in Own : t[r] = "active" /\ t[q] = "active" => r = q)
    <3>1. CASE \E r \in Own : Contract!Append(r)
      <4>1. PICK r \in Own : t = [s EXCEPT ![r] = "pending"]
        BY <3>1 DEF Contract!Append
      <4> HIDE DEF s, t
      <4> QED  BY <2>0, <4>1
    <3>2. CASE \E r \in Own : Contract!ClaimHead(r)
      <4>1. PICK r \in Own : /\ t = [s EXCEPT ![r] = "active"]
                             /\ \A q \in Own : s[q] # "active"
        BY <3>2 DEF Contract!ClaimHead
      <4> HIDE DEF s, t
      <4> QED  BY <2>0, <4>1
    <3>3. CASE \E r \in Own : Contract!FinishActive(r)
      <4>1. PICK r \in Own : t = [s EXCEPT ![r] = "ended"]
        BY <3>3 DEF Contract!FinishActive
      <4> HIDE DEF s, t
      <4> QED  BY <2>0, <4>1
    <3>4. CASE \E e \in SUBSET Own : Contract!Withdraw(e)
      <4>1. PICK e \in SUBSET Own : t = [r \in Own |-> IF r \in e THEN "ended" ELSE s[r]]
        BY <3>4 DEF Contract!Withdraw
      <4> HIDE DEF s, t
      <4> QED  BY <4>1
    <3>5. CASE t = s
      BY <3>5
    <3> QED  BY <2>1, <3>1, <3>2, <3>3, <3>4, <3>5 DEF Contract!Next
  <2> QED  BY <2>2 DEF OneActive, Active
<1> QED  BY <1>1, <1>2, QueueInvInit, QueueInvNext, PTL DEF Spec

(* For any requests and workers, in any order of creation: a drain leaves  *)
(* alone a wake-up that was claimed after the drain had read it as pending *)
(* (drain_automated_wakeups filters every update on a pending row).        *)
THEOREM DrainSparesClaimed == Spec => DrainSparesActive
<1>1. [Next]_vars => [\A q \in drain : q \notin drain' /\ Active(q) => Active(q)']_vars
  <2> SUFFICES ASSUME Next, NEW q \in drain, q \notin drain', Active(q) PROVE Active(q)'
    OBVIOUS
  <2>1. CASE \E r \in Requests : DrainWake(r)
    <3>1. PICK r \in Requests : DrainWake(r)
      BY <2>1
    <3>2. r = q
      BY <3>1 DEF DrainWake
    <3>3. row' = row
      BY <3>1, <3>2 DEF DrainWake, IfPending, Pending, Active
    <3> QED  BY <3>3 DEF Active
  <2>2. CASE DrainFails \/ Crash
    BY <2>2 DEF DrainFails, Crash, Active
  <2>3. CASE \E r \in Requests : Interrupt(r)
    BY <2>3 DEF Interrupt
  <2> QED
    BY <2>1, <2>2, <2>3 DEF Next, Step, NextRequest, Inspect, EndBeforeClaim,
       CheckDeduplication, Claim, CoolDown, End, Submit, Expire, Replicate, EmptyScan
<1> QED  BY <1>1, PTL DEF Spec, DrainSparesActive

-----------------------------------------------------------------------------
(* Type correctness needs no order of creation.                            *)

Pcs == {"inspect", "interrupt", "expire", "check", "claim"}
AtWork(v) == v = Idle \/ v \in [pc : Pcs, req : Own]
Typed == TypeOK /\ DOMAIN worker = Workers /\ worker = [w \in Workers |-> worker[w]]

LEMMA TypedRow ==
    ASSUME Typed, [Next]_vars
    PROVE  row' \in [Requests -> States]
<1> USE QueueAssumption
<1>0. /\ row \in [Requests -> States] /\ Own \subseteq Requests
      /\ \A w \in Workers : AtWork(worker[w])
  BY DEF Typed, TypeOK, AtWork, Pcs, States, Own
<1>1. ASSUME NEW r \in Requests, NEW s \in {"pending", "active", "ended"},
             row' = [row EXCEPT ![r] = s]
      PROVE  row' \in [Requests -> States]
  BY <1>0, <1>1 DEF States
<1>2. ASSUME NEW r \in Requests, NEW s \in {"pending", "active", "ended"}, IfPending(r, s)
      PROVE  row' \in [Requests -> States]
  BY <1>0, <1>2 DEF States, IfPending
<1>3. ASSUME NEW w \in Workers, EndBeforeClaim(w) \/ Claim(w)
      PROVE  row' \in [Requests -> States]
  <2>1. worker[w].req \in Own
    BY <1>0, <1>3 DEF EndBeforeClaim, Claim, Idle, AtWork
  <2>2. worker[w].req \in Requests
    BY <1>0, <2>1
  <2> QED
    BY <1>2, <1>3, <2>2 DEF EndBeforeClaim, Claim
<1>4. CASE Quarantine
  BY <1>0, <1>4 DEF Quarantine, States
<1>5. CASE row' = row
  BY <1>0, <1>5
<1>6. ASSUME NEW r \in Requests, End(r) \/ Submit(r) \/ DrainWake(r)
      PROVE  row' \in [Requests -> States]
  BY <1>1, <1>2, <1>6 DEF End, Submit, DrainWake
<1>7. ASSUME NEW r \in Requests, NEW s \in {"pending", "active", "ended"}, Replicate(r, s)
      PROVE  row' \in [Requests -> States]
  BY <1>1, <1>7 DEF Replicate
<1> QED
  BY <1>3, <1>4, <1>5, <1>6, <1>7 DEF Next, Step, Inspect, CheckDeduplication, NextRequest,
     CoolDown, Expire, Interrupt, EmptyScan, DrainFails, Crash, vars

(* Every worker is idle or at a step of the claim of one of the agent's     *)
(* requests, after the step too.                                           *)
WorkersStay ==
    /\ DOMAIN worker' = Workers /\ worker' = [w \in Workers |-> worker'[w]]
    /\ \A w \in Workers : AtWork(worker'[w])

LEMMA TypedWorker ==
    ASSUME Typed, [Next]_vars
    PROVE  WorkersStay
<1>0. \A w \in Workers : AtWork(worker[w])
  BY DEF Typed, TypeOK, AtWork, Pcs
<1>1. ASSUME NEW w \in Workers, NEW v, AtWork(v), worker' = [worker EXCEPT ![w] = v]
      PROVE  WorkersStay
  BY <1>0, <1>1 DEF Typed, WorkersStay
<1>2. CASE worker' = worker
  BY <1>0, <1>2 DEF Typed, WorkersStay
<1>3. ASSUME NEW w \in Workers, NEW r \in Requests, NextRequest(w, r)
      PROVE  WorkersStay
  BY <1>1, <1>3 DEF NextRequest, Claimable, At, AtWork, Pcs
<1>4. ASSUME NEW w \in Workers, Step(w)
      PROVE  WorkersStay
  <2>1. AtWork(Idle)
    BY DEF AtWork
  <2>2. worker[w] # Idle /\ worker[w].req \in Own
    <3>1. worker[w].pc # "idle"
      BY <1>4 DEF Step, Inspect, EndBeforeClaim, CheckDeduplication, Claim
    <3>2. worker[w] # Idle
      BY <3>1 DEF Idle
    <3> QED
      BY <1>0, <3>2 DEF AtWork
  <2>3. \A pc \in Pcs : AtWork(At(pc, worker[w].req))
    BY <2>2 DEF AtWork, At
  <2>4. CASE Inspect(w)
    BY <1>1, <2>1, <2>3, <2>4 DEF Inspect, Pcs
  <2>5. CASE EndBeforeClaim(w) \/ Claim(w)
    BY <1>1, <2>1, <2>5 DEF EndBeforeClaim, Claim
  <2>6. CASE CheckDeduplication(w)
    BY <1>1, <2>1, <2>3, <2>6 DEF CheckDeduplication, Pcs
  <2> QED
    BY <1>4, <2>4, <2>5, <2>6 DEF Step
<1>5. CASE Crash
  BY <1>5 DEF Crash, AtWork, WorkersStay
<1>6. \/ worker' = worker \/ Crash
      \/ \E w \in Workers : Step(w) \/ \E r \in Requests : NextRequest(w, r)
  BY DEF Next, CoolDown, End, Submit, Replicate, Expire, Interrupt, DrainWake, DrainFails,
     EmptyScan, vars
<1> QED
  BY <1>2, <1>3, <1>4, <1>5, <1>6

(* The variables keep their types, in whatever order requests are created. *)
THEOREM QueueTypeCorrect == Spec => []TypeOK
<1>1. Init => Typed
  <2> SUFFICES ASSUME Init PROVE Typed
    OBVIOUS
  <2>1. worker = [w \in Workers |-> Idle]
    BY DEF Init
  <2>2. row \in [Requests -> States] /\ 0 \in 0..MaxCrashes
    BY QueueAssumption DEF Init, States
  <2> QED
    BY <2>1, <2>2 DEF Init, Typed, TypeOK, States
<1>2. Typed /\ [Next]_vars => Typed'
  <2> SUFFICES ASSUME Typed, [Next]_vars PROVE Typed'
    OBVIOUS
  <2> USE QueueAssumption
  <2>1. latched' \subseteq Requests /\ stale' \subseteq Requests
    BY DEF Typed, TypeOK, Next, Step, Inspect, EndBeforeClaim, CheckDeduplication, Claim,
       NextRequest, CoolDown, End, Submit, Replicate, Expire, Interrupt, DrainWake, DrainFails,
       EmptyScan, Crash, vars
  <2>2. cooling' \subseteq Own
    BY DEF Typed, TypeOK, Next, Step, Inspect, EndBeforeClaim, CheckDeduplication, Claim,
       NextRequest, CoolDown, End, Submit, Replicate, Expire, Interrupt, DrainWake, DrainFails,
       EmptyScan, Crash, vars, Claimable
  <2>3. drain' \subseteq Wakes \cap Own
    BY DEF Typed, TypeOK, Next, Step, Inspect, EndBeforeClaim, CheckDeduplication, Claim,
       NextRequest, CoolDown, End, Submit, Replicate, Expire, Interrupt, DrainWake, DrainFails,
       EmptyScan, Crash, vars
  <2>4. crashes' \in 0..MaxCrashes
    <3>1. crashes \in 0..MaxCrashes /\ MaxCrashes \in Nat
      BY DEF Typed, TypeOK
    <3>2. crashes' = crashes \/ (crashes < MaxCrashes /\ crashes' = crashes + 1)
      BY DEF Next, Step, Inspect, EndBeforeClaim, CheckDeduplication, Claim, NextRequest,
         CoolDown, End, Submit, Replicate, Expire, Interrupt, DrainWake, DrainFails, EmptyScan,
         Crash, vars
    <3> QED
      BY <3>1, <3>2
  <2> QED
    BY <2>1, <2>2, <2>3, <2>4, TypedRow, TypedWorker
       DEF Typed, TypeOK, States, WorkersStay, AtWork, Pcs
<1>3. Typed => TypeOK
  BY DEF Typed
<1> QED
  BY <1>1, <1>2, <1>3, PTL DEF Spec

=============================================================================
