------------------------- MODULE MCRequestExecution -------------------------
(* Instances of RequestExecution for TLC. *)
EXTENDS RequestExecution, TLC

(* Owners are interchangeable, and so are sweepers: no property names one. *)
PartySymmetry == Permutations(Owners) \cup Permutations(Sweepers)

=============================================================================
