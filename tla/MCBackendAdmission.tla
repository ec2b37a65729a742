------------------------- MODULE MCBackendAdmission -------------------------
(***************************************************************************)
(* Instances of BackendAdmission: one slot with a queue of one, two slots  *)
(* without a queue, and a backend that is not available.                   *)
(***************************************************************************)
EXTENDS BackendAdmission, TLC

One == [limit |-> 1, depth |-> 1, available |-> TRUE]
Two == [limit |-> 2, depth |-> 0, available |-> TRUE]
Off == [limit |-> 1, depth |-> 1, available |-> FALSE]

Fixed == {One}
Resized == {One, Two}
AllKinds == {One, Two, Off}

CallSymmetry == Permutations(Calls)

=============================================================================
