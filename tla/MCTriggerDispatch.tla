------------------------- MODULE MCTriggerDispatch -------------------------
(***************************************************************************)
(* TriggerDispatch for triggers of either source, of every concurrency     *)
(* mode, with and without workspace bindings.                              *)
(***************************************************************************)
EXTENDS TriggerDispatch

Kind(s, m, w) == [source |-> s, mode |-> m, workspace |-> w]

FourKinds ==
    {Kind("schedule", "serial", FALSE), Kind("event", "serial", FALSE),
     Kind("event", "latestOnly", FALSE), Kind("event", "parallel", TRUE)}

=============================================================================
