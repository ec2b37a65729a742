-------------------------- MODULE RequestContract ---------------------------
(***************************************************************************)
(* What the runtime promises to whoever watches an AgentRequest and its    *)
(* AgentResponse: the two documents move together, a request ends once,    *)
(* its text is frozen when it ends, and an accepted request does end.      *)
(***************************************************************************)

CONSTANT Texts  \* what the live tail of the response may hold

VARIABLES
    state,      \* lifecycle_state
    reply,      \* status of the response, "none" when there is none
    text,       \* the live tail
    interrupted \* interrupt_requested_at is set

contract == <<state, reply, text, interrupted>>

Running == {"Claimed", "Processing"}
Failures == {"Failed", "Interrupted", "Dead", "Superseded"}
Ended == Failures \cup {"Completed"}

Init ==
    /\ state = "Pending" /\ reply = "none"
    /\ text \in Texts /\ interrupted = FALSE

Accept ==
    /\ state = "Pending" /\ state' = "Claimed"
    /\ UNCHANGED <<reply, text, interrupted>>

(* A request may end before it is accepted; only a rejection replies. *)
Withdraw ==
    /\ state = "Pending" /\ state' \in Failures
    /\ reply' \in {"none"} \cup (IF state' = "Failed" THEN {"error"} ELSE {})
    /\ UNCHANGED <<text, interrupted>>

Start ==
    /\ state = "Claimed" /\ state' = "Processing"
    /\ reply' = "streaming" /\ text' \in Texts
    /\ UNCHANGED interrupted

Stream ==
    /\ state = "Processing" /\ text' \in Texts
    /\ UNCHANGED <<state, reply, interrupted>>

Complete ==
    /\ state = "Processing" /\ state' = "Completed"
    /\ reply' = "complete"
    /\ UNCHANGED <<text, interrupted>>

(* An interrupted request does not end as a failure. *)
Fail ==
    /\ state \in Running /\ state' \in Failures
    /\ interrupted => state' # "Failed"
    /\ reply' = "error"
    /\ UNCHANGED <<text, interrupted>>

Interrupt ==
    /\ ~interrupted /\ interrupted' = TRUE
    /\ UNCHANGED <<state, reply, text>>

Next == Accept \/ Withdraw \/ Start \/ Stream \/ Complete \/ Fail \/ Interrupt

Spec == Init /\ [][Next]_contract

(* An accepted request does not run for ever. *)
FairSpec == Spec /\ WF_contract(Complete \/ Fail)

=============================================================================
