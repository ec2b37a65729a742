-------------------------- MODULE MCSubagentBridge --------------------------
(***************************************************************************)
(* SubagentBridge with restarts of the parent's process, for a child of    *)
(* the same deployment and for a remote one.                               *)
(***************************************************************************)
EXTENDS SubagentBridge

Restarts == [r \in BOOLEAN |-> IF r THEN 0 ELSE 2]

=============================================================================
