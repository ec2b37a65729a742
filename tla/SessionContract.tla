--------------------------- MODULE SessionContract ---------------------------
(***************************************************************************)
(* What a session promises its requests: they run one at a time, in the    *)
(* order of their creation, unless they end before their turn.             *)
(***************************************************************************)
EXTENDS Naturals

CONSTANT Entries  \* positions in the order of creation

VARIABLE state

Append(r) ==
    /\ state[r] = "absent"
    /\ \A q \in Entries : state[q] # "absent" => q < r
    /\ state' = [state EXCEPT ![r] = "pending"]

ClaimHead(r) ==
    /\ state[r] = "pending"
    /\ \A q \in Entries : state[q] # "active" /\ (q < r => state[q] # "pending")
    /\ state' = [state EXCEPT ![r] = "active"]

FinishActive(r) ==
    /\ state[r] = "active"
    /\ state' = [state EXCEPT ![r] = "ended"]

(* Interrupted, expired, drained or quarantined before their turn. *)
Withdraw(ended) ==
    /\ \A r \in ended : state[r] = "pending"
    /\ state' = [r \in Entries |-> IF r \in ended THEN "ended" ELSE state[r]]

Init == state = [r \in Entries |-> "absent"]

Next ==
    \/ \E r \in Entries : Append(r) \/ ClaimHead(r) \/ FinishActive(r)
    \/ \E ended \in SUBSET Entries : Withdraw(ended)

Spec == Init /\ [][Next]_state

=============================================================================
