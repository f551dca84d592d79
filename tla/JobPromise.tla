------------------------------ MODULE JobPromise ------------------------------
(***************************************************************************)
(* What the admission of jobs promises, without counters, threads, queues  *)
(* or wake-ups.  Every request is answered once.  One that is accepted     *)
(* becomes a job, the only one with its key; the others are answered with  *)
(* the job that is there.  Every job runs once, never more than limit of   *)
(* them at a time, and none begins to while the version is being switched. *)
(***************************************************************************)
EXTENDS Integers, FiniteSets

CONSTANTS Requests, Key, Body, NoKey

VARIABLES
  limit,   \* max_concurrent_jobs; 0 is "unlimited"
  told,    \* the answer to each request, "none" at first
  jobs,    \* the requests that have become a job
  inside,  \* the jobs that run
  over,    \* the jobs that have run
  switch   \* the state of the version switch, "idle" between two of them

pvars == <<limit, told, jobs, inside, over, switch>>

PInit ==
  /\ limit \in Nat
  /\ told = [r \in Requests |-> "none"]
  /\ jobs = {} /\ inside = {} /\ over = {}
  /\ switch = "idle"

Twins(r) == {w \in jobs : Key[r] # NoKey /\ Key[w] = Key[r]}

Accept(r) ==
  /\ told[r] = "none"
  /\ Twins(r) = {}
  /\ told' = [told EXCEPT ![r] = "accepted"]
  /\ jobs' = jobs \union {r}
  /\ UNCHANGED <<limit, inside, over, switch>>

Refuse(r) ==
  /\ told[r] = "none"
  /\ \E a \in {"rejected", "error", "replayed", "conflict"} :
       /\ a = "replayed" => \E w \in Twins(r) : Body[w] = Body[r]
       /\ a = "conflict" => \E w \in Twins(r) : Body[w] # Body[r]
       /\ told' = [told EXCEPT ![r] = a]
  /\ UNCHANGED <<limit, jobs, inside, over, switch>>

Start(r) ==
  /\ r \in jobs \ (inside \union over)
  /\ switch = "idle"
  /\ limit > 0 => Cardinality(inside) < limit
  /\ inside' = inside \union {r}
  /\ UNCHANGED <<limit, told, jobs, over, switch>>

End(r) ==
  /\ r \in inside
  /\ inside' = inside \ {r}
  /\ over' = over \union {r}
  /\ UNCHANGED <<limit, told, jobs, switch>>

\* A drained switch has the executors to itself; one that has waited too long has not.
SwitchStep ==
  /\ \/ switch = "idle"     /\ switch' = "draining" /\ inside # {}
     \/ switch = "idle"     /\ switch' = "switchDrained" /\ inside = {}
     \/ switch = "draining" /\ switch' = "switchDrained" /\ inside = {}
     \/ switch = "draining" /\ switch' = "switchBusy" /\ inside # {}
     \/ switch \in {"switchDrained", "switchBusy"} /\ switch' = "idle"
  /\ UNCHANGED <<limit, told, jobs, inside, over>>

PNext == (\E r \in Requests : Accept(r) \/ Refuse(r) \/ Start(r) \/ End(r)) \/ SwitchStep

PSpec == PInit /\ [][PNext]_pvars
===============================================================================
