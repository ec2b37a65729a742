------------------------ MODULE MCInferenceCallRows ------------------------
(***************************************************************************)
(* InferenceCallRows with one slot and a queue of one.                     *)
(***************************************************************************)
EXTENDS InferenceCallRows

Queued == [limit |-> 1, depth |-> 1, available |-> TRUE]

Fixed == {Queued}

=============================================================================
