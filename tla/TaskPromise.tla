----------------------------- MODULE TaskPromise -----------------------------
(***************************************************************************)
(* What dispatching a task promises, without the protocol: one executor at *)
(* most ever owns the task, it loads the partition at most once in each    *)
(* life of its process, and DONE is only told of a task that was loaded.   *)
(* That a settled task may still be loaded later is part of the promise:   *)
(* an executor is never stopped.                                           *)
(***************************************************************************)
EXTENDS Naturals

CONSTANTS Executors, NoOne

VARIABLES
  owner,   \* the executor that has accepted the task, or NoOne
  lives,   \* 1 + number of crashes so far
  loads,   \* number of times the partition has been loaded
  outcome  \* what the coordinator says of the task; "open" at first

pvars == <<owner, lives, loads, outcome>>

PInit == owner = NoOne /\ lives = 1 /\ loads = 0 /\ outcome = "open"

Take ==
  /\ owner = NoOne
  /\ owner' \in Executors
  /\ UNCHANGED <<lives, loads, outcome>>

Load ==
  /\ owner # NoOne /\ loads < lives
  /\ loads' = loads + 1
  /\ UNCHANGED <<owner, lives, outcome>>

\* A COMMIT that was under way may take effect as its process dies.
Die ==
  /\ lives' = lives + 1
  /\ loads' = loads \/ (loads' = loads + 1 /\ owner # NoOne /\ loads < lives)
  /\ UNCHANGED <<owner, outcome>>

Tell ==
  /\ \/ outcome = "open" /\ outcome' \in {"FAILED", "CANCELLED"}
     \/ outcome = "open" /\ loads > 0 /\ outcome' = "DONE"
     \/ outcome # "open" /\ outcome' = "CANCELLED"
  /\ UNCHANGED <<owner, lives, loads>>

PNext == Take \/ Load \/ Die \/ Tell

PSpec == PInit /\ [][PNext]_pvars
=============================================================================
