------------------------------ MODULE LoadPromise ------------------------------
(***************************************************************************)
(* What move() promises to its caller, without threads, queues and COPY:   *)
(* the task borrows one of PoolMax connections, the partition gets into    *)
(* the table in one step or not at all, the connection goes back, and the  *)
(* caller is told.  A task told "done" is loaded; one told "failed" may be *)
(* loaded as well, but will not be any more.                               *)
(***************************************************************************)
EXTENDS Integers, FiniteSets

CONSTANTS Tasks, PoolMax

VARIABLES
  size,     \* number of batches in each source
  table,    \* the batches of each task that are in the table
  told,     \* what the caller of each task has been told, "none" at first
  borrowed  \* the tasks that hold a connection, or the right to open one

lvars == <<size, table, told, borrowed>>

All(t) == [i \in 1..size[t] |-> i]

LInit ==
  /\ size \in [Tasks -> Nat]
  /\ table = [t \in Tasks |-> <<>>]
  /\ told = [t \in Tasks |-> "none"]
  /\ borrowed = {}

Borrow(t) ==
  /\ told[t] = "none" /\ t \notin borrowed
  /\ Cardinality(borrowed) < PoolMax
  /\ borrowed' = borrowed \union {t}
  /\ UNCHANGED <<size, table, told>>

Load(t) ==
  /\ t \in borrowed
  /\ table[t] = <<>>
  /\ table' = [table EXCEPT ![t] = All(t)]
  /\ UNCHANGED <<size, told, borrowed>>

\* The connection, if the task has one, goes back before the caller is told.
Tell(t) ==
  /\ told[t] = "none"
  /\ \/ told' = [told EXCEPT ![t] = "done"] /\ t \in borrowed /\ table[t] = All(t)
     \/ told' = [told EXCEPT ![t] = "failed"]
  /\ borrowed' = borrowed \ {t}
  /\ UNCHANGED <<size, table>>

LNext == \E t \in Tasks : Borrow(t) \/ Load(t) \/ Tell(t)

LSpec == LInit /\ [][LNext]_lvars
================================================================================
