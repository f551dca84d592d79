------------------------------ MODULE RowPromise ------------------------------
(***************************************************************************)
(* What a client who polls a job may rely on, without copies, locks,       *)
(* queues and coordinators.  Each job is shown as accepted, then only ever *)
(* further on; the run that was accepted is not over before a final status *)
(* with all of its tasks is shown; and nobody else touches the job while   *)
(* it runs.  Where a run has ended without, somebody declares it failed.   *)
(*                                                                         *)
(* The promise is given job by job.  It does not bind a job that is void;  *)
(* the last word on a job that is lost may be missing.                     *)
(***************************************************************************)
EXTENDS Integers

CONSTANTS Jobs, NTasks

VARIABLES
  shown,  \* the status and the number of ended tasks that a client sees
  life,   \* whether a job's run has yet to begin, goes on, is over, or has died
  void,   \* the jobs that the promise does not bind any more
  lost    \* the jobs whose last word may never be shown

rvars == <<shown, life, void, lost>>

Outcomes == {"DONE", "PARTIAL", "FAILED"}

\* How far a job has got, by its status.
Rank(s) ==
  CASE s = "none" -> 0 [] s = "SPLITTING" -> 1 [] s = "PENDING" -> 2 [] s = "RUNNING" -> 3
    [] OTHER -> 4

Fresh == [status |-> "SPLITTING", over |-> 0]
Gone  == [status |-> "FAILED", over |-> NTasks]

RInit ==
  /\ shown = [j \in Jobs |-> [status |-> "none", over |-> 0]]
  /\ life = [j \in Jobs |-> "none"]
  /\ void = {} /\ lost = {}

Keep(j) == shown'[j] = shown[j] /\ life'[j] = life[j]

Accept(j) ==
  /\ life[j] = "none" /\ life'[j] = "runs"
  /\ shown'[j] = Fresh

Tell(j) ==
  /\ life[j] = "runs" /\ life'[j] = "runs"
  /\ shown[j].status \notin Outcomes
  /\ Rank(shown[j].status) <= Rank(shown'[j].status)
  /\ shown[j].over <= shown'[j].over
  /\ \/ shown'[j].status \in {"SPLITTING", "PENDING", "RUNNING"}
     \/ shown'[j].status \in Outcomes /\ shown'[j].over = NTasks

Return(j) ==
  /\ life[j] = "runs" /\ life'[j] = "over"
  /\ shown[j].status \in Outcomes \/ j \in lost
  /\ shown'[j] = shown[j]

Die(j) ==
  /\ life[j] = "runs" /\ life'[j] = "dead"
  /\ shown'[j] = shown[j]

\* Somebody finds that the run has ended without a last word.
Declare(j) ==
  /\ life[j] \in {"over", "dead"} /\ life'[j] = life[j]
  /\ shown[j].status \notin Outcomes
  /\ shown'[j] = Gone

Bound(j) == Keep(j) \/ Accept(j) \/ Tell(j) \/ Return(j) \/ Die(j) \/ Declare(j)

RNext ==
  /\ void \subseteq void' /\ lost \subseteq lost'
  /\ \A j \in Jobs \ void' : Bound(j)

RSpec == RInit /\ [][RNext]_rvars
===============================================================================
