------------------------ MODULE MCRuntimeReconcile -------------------------
(***************************************************************************)
(* RuntimeReconcile for one behavior with one worker and one request:      *)
(* failing builds while the configuration changes, a failing readiness     *)
(* write while it changes, and failures of every other kind while it does  *)
(* not.                                                                    *)
(***************************************************************************)
EXTENDS RuntimeReconcile

CONSTANTS b1

Limit(e, f, p, w) == [edits |-> e, fails |-> f, panics |-> p, faults |-> w]

ThreeLimits == {Limit(1, 2, 1, 0), Limit(1, 0, 0, 1), Limit(0, 2, 1, 1)}

TargetB1 == [r \in Request |-> b1]
FirstPrint == [b \in Behavior |-> 1]

=============================================================================
