--------------------------- MODULE MCTaskDispatch ---------------------------
(***************************************************************************)
(* Small instances of TaskDispatch: two executors, two attempts at each.   *)
(***************************************************************************)
EXTENDS TaskDispatch

CONSTANTS e1, e2

MCExecutors == {e1, e2}
=============================================================================
