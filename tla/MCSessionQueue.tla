--------------------------- MODULE MCSessionQueue ---------------------------
(***************************************************************************)
(* Instances of SessionQueue: one session with a row of every kind.        *)
(***************************************************************************)
EXTENDS SessionQueue

Four == 1..4
Fourth == {4}
Second == {2}
First == {1}
Third == {3}

=============================================================================
