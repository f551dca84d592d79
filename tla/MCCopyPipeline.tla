--------------------------- MODULE MCCopyPipeline ---------------------------
(***************************************************************************)
(* A small instance of CopyPipeline.                                       *)
(***************************************************************************)
EXTENDS CopyPipeline, TLC

CONSTANTS t1, t2

MCTasks == {t1, t2}
=============================================================================
