---------------------------- MODULE MCToolCalls ----------------------------
(***************************************************************************)
(* ToolCalls for four loads: a held call with competing decisions, two     *)
(* calls of one turn, a background process with failing writes and two     *)
(* restarts, and a call beside a process.                                  *)
(***************************************************************************)
EXTENDS ToolCalls

CONSTANTS n1, n2, b1

Load(cs, d, f, k) == [calls |-> cs, decisions |-> d, fails |-> f, crashes |-> k]

FourLoads == {Load({n1}, 2, 1, 1), Load({n1, n2}, 1, 0, 1),
              Load({b1}, 0, 2, 2), Load({n1, b1}, 0, 0, 0)}

=============================================================================
