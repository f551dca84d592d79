---------------------------- MODULE SharedStore ----------------------------
(***************************************************************************)
(* Several coordinators over one job table (SqlJobStore), each with copies *)
(* of the jobs in memory.                                                  *)
(*                                                                         *)
(* The coordinator that has accepted a job runs it and saves snapshots of  *)
(* it; any coordinator may cancel it; a coordinator that starts, and every *)
(* one periodically, fails the jobs that it takes for interrupted.  A save *)
(* overwrites the row, whoever has written it before.  How a task ends is  *)
(* the subject of TaskDispatch; here a job counts which of its tasks have  *)
(* ended, and may end in any status that fits.                             *)
(***************************************************************************)
EXTENDS Naturals, Sequences

CONSTANTS
  Coordinators,
  Jobs,
  NTasks,      \* the number of tasks of every job
  None,
  MaxCancels,  \* bound: cancel requests
  MaxFaults    \* bound: ended processes, failed writes and queries, late heartbeats

ASSUME SizesAssumption ==
  /\ NTasks \in Nat
  /\ MaxCancels \in Nat /\ MaxFaults \in Nat

VARIABLES
  stage,      \* whether a coordinator is down, in its start-up, or serving
  row,        \* the table: row[j].owner, .cancel, .data (the snapshot)
  mem,        \* the Job that run() works with, in its coordinator's memory
  pc,         \* where run() of a job stands
  queue,      \* queue[c][j]: the saves of asave that wait for the lock of j
  cancel,     \* the cancel handler at work: its coordinator, job, step and copy
  round,      \* where the HA loop of a coordinator stands
  suspects,   \* the jobs that the loop has listed, then its orphans
  hand,       \* the failed copies that a coordinator is about to save
  fresh,      \* the coordinators whose heartbeat is recent enough
  late,       \* history: coordinators that served jobs without being fresh
  excused,    \* history: jobs under a cancel, a blind query, another's start-up
  abandoned,  \* history: jobs whose last save failed, or that a start-up did not find
  cancels, faults

coordVars == <<stage, round, suspects, hand>>
runVars   == <<mem, pc>>
pastVars  == <<late, excused, abandoned>>
counts    == <<cancels, faults>>
vars == <<row, runVars, queue, cancel, coordVars, fresh, pastVars, counts>>

\* Mutant of NonTerminal: only a job that executes its tasks counts as unfinished.
OnlyRunning == {"RUNNING"}
NonTerminal == {"SPLITTING", "PENDING", "RUNNING"}
Terminal    == {"DONE", "PARTIAL", "FAILED", "CANCELLED"}

Snapshots == [status : {"SPLITTING", "PENDING", "RUNNING"} \union Terminal,
              cancel : BOOLEAN, over : 0..NTasks]
Rows      == [owner : Coordinators, cancel : BOOLEAN, data : Snapshots]
Saves     == [by : {"run", "task", "cancel"}, data : Snapshots]

ASSUME NoneAssumption == None \notin Snapshots /\ None \notin Rows

Stored(j) == row[j] # None
Ended(j)  == Stored(j) /\ row[j].data.status \in Terminal

\* The loop of j goes on, or is about to begin, in the process of its owner.
Alive(j) == pc[j] \notin {"none", "over", "dead"}

\* What a process was doing ends with it.
Placed ==
  /\ \A j \in Jobs : Alive(j) => Stored(j) /\ mem[j] # None /\ stage[row[j].owner] = "serving"
  /\ \A c \in Coordinators : stage[c] # "serving" => \A j \in Jobs : queue[c][j] = << >>
  /\ cancel # None => stage[cancel.at] = "serving" /\ Stored(cancel.job)

TypeOK ==
  /\ stage \in [Coordinators -> {"down", "starting", "serving"}]
  /\ row \in [Jobs -> Rows \union {None}]
  /\ mem \in [Jobs -> Snapshots \union {None}]
  /\ pc \in [Jobs -> {"none", "accepted", "pending", "tasks", "last", "over", "dead"}]
  /\ queue \in [Coordinators -> [Jobs -> Seq(Saves)]]
  /\ cancel \in [at : Coordinators, job : Jobs, step : {"flag", "send"}, copy : Snapshots]
                \union {None}
  /\ round \in [Coordinators -> {"idle", "query", "each"}]
  /\ suspects \in [Coordinators -> SUBSET Jobs]
  /\ hand \in [Coordinators -> [Jobs -> Snapshots \union {None}]]
  /\ fresh \subseteq Coordinators /\ late \subseteq Coordinators
  /\ excused \subseteq Jobs /\ abandoned \subseteq Jobs
  /\ cancels \in 0..MaxCancels /\ faults \in 0..MaxFaults
  /\ Placed

NoJobs == [j \in Jobs |-> None]

\* All coordinators serve, and have sent a first heartbeat.
Init ==
  /\ stage = [c \in Coordinators |-> "serving"]
  /\ row = NoJobs
  /\ mem = NoJobs
  /\ pc = [j \in Jobs |-> "none"]
  /\ queue = [c \in Coordinators |-> [j \in Jobs |-> << >>]]
  /\ cancel = None
  /\ round = [c \in Coordinators |-> "idle"]
  /\ suspects = [c \in Coordinators |-> {}]
  /\ hand = [c \in Coordinators |-> NoJobs]
  /\ fresh = Coordinators
  /\ late = {} /\ excused = {} /\ abandoned = {}
  /\ cancels = 0 /\ faults = 0

-----------------------------------------------------------------------------
(***************************************************************************)
(* The store.                                                              *)
(***************************************************************************)

\* _upsert over an existing row: everything but the owner comes from the snapshot.
Upserted(j, s) == [row EXCEPT ![j].cancel = s.cancel, ![j].data = s]

\* asave: the snapshot is taken at the call; the write waits for the lock of the job.
Queued(c, j, by, s) == [queue EXCEPT ![c][j] = Append(@, [by |-> by, data |-> s])]

\* Mutant of Turn: without the lock, any of the writes may come first.
AnyTurn(q) == DOMAIN q
\* asyncio.Lock lets the waiting saves in one by one, in the order of their calls.
Turn(q) == {i \in DOMAIN q : i = 1}

Without(q, i) == [k \in 1..(Len(q) - 1) |-> IF k < i THEN q[k] ELSE q[k + 1]]

Write(c, j) ==
  \E i \in Turn(queue[c][j]) :
    /\ row' = Upserted(j, queue[c][j][i].data)
    /\ queue' = [queue EXCEPT ![c][j] = Without(@, i)]
    /\ UNCHANGED <<runVars, cancel, coordVars, fresh, pastVars, counts>>

\* The write raises an error, which _save logs: the loop goes on as if it had been saved.
WriteFails(c, j) ==
  /\ queue[c][j] # << >>
  /\ faults < MaxFaults
  /\ faults' = faults + 1
  /\ queue' = [queue EXCEPT ![c][j] = Tail(@)]
  /\ abandoned' = IF pc[j] = "last" /\ Head(queue[c][j]).by = "run"
                  THEN abandoned \union {j} ELSE abandoned
  /\ UNCHANGED <<row, runVars, cancel, coordVars, fresh, late, excused, cancels>>

\* Whoever called asave waits for its own save.
Awaits(c, j, by) == \E i \in DOMAIN queue[c][j] : queue[c][j][i].by = by

-----------------------------------------------------------------------------
(***************************************************************************)
(* A job in its coordinator.                                               *)
(***************************************************************************)
Owner(j) == row[j].owner

\* Mutant of Accepts: the start-up's reconciliation is left to the background.
AcceptsEarly(c) == stage[c] # "down"
\* Requests are taken when the start-up is over (lifespan).
Accepts(c) == stage[c] = "serving"

\* create_job and retry_job: the row is inserted with the coordinator's id, for good.
Create(c, j) ==
  /\ Accepts(c)
  /\ pc[j] = "none"
  /\ LET s == [status |-> "SPLITTING", cancel |-> FALSE, over |-> 0]
     IN  /\ mem' = [mem EXCEPT ![j] = s]
         /\ row' = [row EXCEPT ![j] = [owner |-> c, cancel |-> FALSE, data |-> s]]
  /\ pc' = [pc EXCEPT ![j] = "accepted"]
  /\ late' = IF c \in fresh THEN late ELSE late \union {c}
  /\ UNCHANGED <<queue, cancel, coordVars, fresh, excused, abandoned, counts>>

\* run() changes its Job and saves it.
Saving(j, by, s, next) ==
  /\ mem' = [mem EXCEPT ![j] = s]
  /\ queue' = Queued(Owner(j), j, by, s)
  /\ pc' = [pc EXCEPT ![j] = next]
  /\ UNCHANGED <<row, cancel, coordVars, fresh, pastVars, counts>>

RunBegin(j) ==
  /\ pc[j] = "accepted"
  /\ Saving(j, "run", [mem[j] EXCEPT !.status = "PENDING"], "pending")

\* It has a slot.  A job that was cancelled while it waited ends without being executed.
RunSkipped(j) ==
  /\ pc[j] = "pending"
  /\ ~Awaits(Owner(j), j, "run")
  /\ row[j].cancel
  /\ Saving(j, "run", [mem[j] EXCEPT !.status = "CANCELLED", !.cancel = TRUE], "last")

\* No cancel is seen, or the query for it fails.
RunStarts(j) ==
  /\ pc[j] = "pending"
  /\ ~Awaits(Owner(j), j, "run")
  /\ IF row[j].cancel THEN faults < MaxFaults /\ faults' = faults + 1 ELSE UNCHANGED faults
  /\ LET s == [mem[j] EXCEPT !.status = "RUNNING"]
     IN  mem' = [mem EXCEPT ![j] = s] /\ queue' = Queued(Owner(j), j, "run", s)
  /\ pc' = [pc EXCEPT ![j] = "tasks"]
  /\ UNCHANGED <<row, cancel, coordVars, fresh, pastVars, cancels>>

\* _cancel_observed in one of the loops, some time after the flag has been set.
Notice(j) ==
  /\ pc[j] = "tasks"
  /\ ~Awaits(Owner(j), j, "run")
  /\ row[j].cancel /\ ~mem[j].cancel
  /\ mem' = [mem EXCEPT ![j].cancel = TRUE]
  /\ UNCHANGED <<row, pc, queue, cancel, coordVars, fresh, pastVars, counts>>

\* A task reaches its final status; the other tasks may be saving theirs.
TaskEnds(j) ==
  /\ pc[j] = "tasks"
  /\ ~Awaits(Owner(j), j, "run")
  /\ mem[j].over < NTasks
  /\ Saving(j, "task", [mem[j] EXCEPT !.over = @ + 1], "tasks")

\* finalize_job, when all tasks have returned: a cancel comes first.
RunEnds(j) ==
  /\ pc[j] = "tasks"
  /\ mem[j].over = NTasks
  /\ ~Awaits(Owner(j), j, "run") /\ ~Awaits(Owner(j), j, "task")
  /\ \E s \in IF mem[j].cancel THEN {"CANCELLED"} ELSE {"DONE", "PARTIAL", "FAILED"} :
       Saving(j, "run", [mem[j] EXCEPT !.status = s], "last")

\* Mutant of RunReturns: the last save is not waited for.
ReturnsAtOnce(j) ==
  /\ pc[j] = "last"
  /\ pc' = [pc EXCEPT ![j] = "over"]
  /\ UNCHANGED <<row, mem, queue, cancel, coordVars, fresh, pastVars, counts>>

RunReturns(j) ==
  /\ pc[j] = "last"
  /\ ~Awaits(Owner(j), j, "run")
  /\ pc' = [pc EXCEPT ![j] = "over"]
  /\ UNCHANGED <<row, mem, queue, cancel, coordVars, fresh, pastVars, counts>>

-----------------------------------------------------------------------------
(***************************************************************************)
(* cancel_job, at any coordinator: it works on a copy, also at the owner.  *)
(***************************************************************************)
CancelGet(c, j) ==
  /\ Accepts(c) /\ cancel = None
  /\ cancels < MaxCancels
  /\ cancels' = cancels + 1
  /\ Stored(j)
  /\ row[j].data.status \notin {"DONE", "FAILED", "CANCELLED"}
  /\ cancel' = [at |-> c, job |-> j, step |-> "flag",
                copy |-> [row[j].data EXCEPT !.cancel = row[j].cancel]]
  /\ UNCHANGED <<row, runVars, queue, coordVars, fresh, pastVars, faults>>

\* request_cancel: the flag's column, and nothing else.
CancelFlag ==
  /\ cancel # None /\ cancel.step = "flag"
  /\ row' = [row EXCEPT ![cancel.job].cancel = TRUE]
  /\ cancel' = [cancel EXCEPT !.step = "send"]
  /\ excused' = excused \union {cancel.job}
  /\ UNCHANGED <<runVars, queue, coordVars, fresh, late, abandoned, counts>>

\* The executors have been told, and the copy's tasks that have one count as cancelled; the
\* copy is saved as CANCELLED, with the tasks as they were that wait for an executor.
CancelSave ==
  /\ cancel # None /\ cancel.step = "send"
  /\ \E over \in cancel.copy.over .. NTasks :
       queue' = Queued(cancel.at, cancel.job, "cancel",
                       [status |-> "CANCELLED", cancel |-> TRUE, over |-> over])
  /\ cancel' = None
  /\ UNCHANGED <<row, runVars, coordVars, fresh, pastVars, counts>>

-----------------------------------------------------------------------------
(***************************************************************************)
(* Recovery: at a coordinator's start, and periodically.                   *)
(***************************************************************************)
Unfinished == {j \in Jobs : Stored(j) /\ row[j].data.status \in NonTerminal}

\* A job and its tasks set to FAILED, in a copy.
Failed(s) == [s EXCEPT !.status = "FAILED", !.over = NTasks]

\* reconcile_interrupted_jobs lists all jobs of the table, whoever runs them; list() does
\* not look at the flag's column.
Start(c) ==
  /\ stage[c] = "down"
  /\ stage' = [stage EXCEPT ![c] = "starting"]
  /\ hand' = [hand EXCEPT ![c] = [j \in Jobs |->
                IF j \in Unfinished THEN Failed(row[j].data) ELSE None]]
  /\ excused' = excused \union {j \in Unfinished : Alive(j)}
  /\ UNCHANGED <<row, runVars, queue, cancel, round, suspects, fresh, late, abandoned, counts>>

\* The list cannot be read: the start goes on without it.
StartBlind(c) ==
  /\ stage[c] = "down"
  /\ stage' = [stage EXCEPT ![c] = "starting"]
  /\ abandoned' = abandoned \union {j \in Unfinished : Owner(j) = c}
  /\ UNCHANGED <<row, runVars, queue, cancel, round, suspects, hand, fresh, late, excused,
                 counts>>

\* save() of a failed copy, by the start or by the periodic loop: without the job's lock.
SaveFailed(c, j) ==
  /\ hand[c][j] # None
  /\ row' = Upserted(j, hand[c][j])
  /\ hand' = [hand EXCEPT ![c][j] = None]
  /\ UNCHANGED <<runVars, queue, cancel, stage, round, suspects, fresh, pastVars, counts>>

Serve(c) ==
  /\ stage[c] = "starting"
  /\ hand[c] = NoJobs
  /\ stage' = [stage EXCEPT ![c] = "serving"]
  /\ UNCHANGED <<row, runVars, queue, cancel, round, suspects, hand, fresh, pastVars, counts>>

\* _ha_loop: a heartbeat, and the first step of reconcile_orphaned_jobs, which lists the
\* jobs.  What happens between the two concerns this coordinator's own jobs only.
BeatAndList(c) ==
  /\ stage[c] = "serving" /\ round[c] = "idle"
  /\ fresh' = fresh \union {c}
  /\ suspects' = [suspects EXCEPT ![c] = Unfinished]
  /\ round' = [round EXCEPT ![c] = "query"]
  /\ UNCHANGED <<row, runVars, queue, cancel, stage, hand, pastVars, counts>>

\* Mutant of Living: a coordinator does not count itself.
LivingOthers(c, S) == S
Living(c, S) == S \union {c}

Orphans(c, S) == {j \in suspects[c] : Owner(j) \notin Living(c, S)}

\* The orphans are looked at one by one; without any, the round is over.
Suspect(c, S) ==
  /\ suspects' = [suspects EXCEPT ![c] = Orphans(c, S)]
  /\ round' = [round EXCEPT ![c] = IF Orphans(c, S) = {} THEN "idle" ELSE "each"]

FreshIds(c) ==
  /\ round[c] = "query"
  /\ Suspect(c, fresh)
  /\ UNCHANGED <<row, runVars, queue, cancel, stage, hand, fresh, pastVars, counts>>

\* The query for the living fails, and counts as an empty answer.
FreshIdsFail(c) ==
  /\ round[c] = "query"
  /\ faults < MaxFaults
  /\ faults' = faults + 1
  /\ Suspect(c, {})
  /\ excused' = excused \union {j \in Jobs : Alive(j) /\ Owner(j) # c}
  /\ UNCHANGED <<row, runVars, queue, cancel, stage, hand, fresh, late, abandoned, cancels>>

\* Mutant of StillOpen: the job is not looked at again.
Unlooked(j) == TRUE
\* The job has not ended since it was listed.
StillOpen(j) == row[j].data.status \in NonTerminal

ReadOrphan(c, j) ==
  /\ round[c] = "each"
  /\ j \in suspects[c]
  /\ hand[c] = NoJobs
  /\ suspects' = [suspects EXCEPT ![c] = @ \ {j}]
  /\ IF StillOpen(j)
     THEN hand' = [hand EXCEPT ![c][j] = Failed([row[j].data EXCEPT !.cancel = row[j].cancel])]
     ELSE UNCHANGED hand
  /\ UNCHANGED <<row, runVars, queue, cancel, stage, round, fresh, pastVars, counts>>

RoundEnds(c) ==
  /\ round[c] = "each"
  /\ suspects[c] = {} /\ hand[c] = NoJobs
  /\ round' = [round EXCEPT ![c] = "idle"]
  /\ UNCHANGED <<row, runVars, queue, cancel, stage, suspects, hand, fresh, pastVars, counts>>

-----------------------------------------------------------------------------
(***************************************************************************)
(* The surroundings.                                                       *)
(***************************************************************************)

\* The saves that wait are lost with their process.
Forgotten(c) == [queue EXCEPT ![c] = [j \in Jobs |-> << >>]]

\* A coordinator's process ends; another one goes on.
Crash(c) ==
  /\ stage[c] # "down"
  /\ \E d \in Coordinators \ {c} : stage[d] = "serving"
  /\ faults < MaxFaults
  /\ faults' = faults + 1
  /\ stage' = [stage EXCEPT ![c] = "down"]
  /\ pc' = [j \in Jobs |-> IF Alive(j) /\ Owner(j) = c THEN "dead" ELSE pc[j]]
  /\ queue' = Forgotten(c)
  /\ cancel' = IF cancel # None /\ cancel.at = c THEN None ELSE cancel
  /\ round' = [round EXCEPT ![c] = "idle"]
  /\ suspects' = [suspects EXCEPT ![c] = {}]
  /\ hand' = [hand EXCEPT ![c] = NoJobs]
  /\ UNCHANGED <<row, mem, fresh, pastVars, cancels>>

\* A heartbeat gets old: that of a process that has ended, or one that is late.
Expire(c) ==
  /\ c \in fresh
  /\ fresh' = fresh \ {c}
  /\ IF stage[c] = "down"
     THEN UNCHANGED <<late, faults>>
     ELSE late' = late \union {c} /\ faults < MaxFaults /\ faults' = faults + 1
  /\ UNCHANGED <<row, runVars, queue, cancel, coordVars, excused, abandoned, cancels>>

-----------------------------------------------------------------------------

Run(j) ==
  \/ RunBegin(j) \/ RunSkipped(j) \/ RunStarts(j) \/ TaskEnds(j) \/ RunEnds(j) \/ RunReturns(j)

Recovery(c) ==
  \/ Serve(c) \/ BeatAndList(c) \/ FreshIds(c) \/ RoundEnds(c)
  \/ \E j \in Jobs : ReadOrphan(c, j) \/ SaveFailed(c, j)

Next ==
  \/ \E j \in Jobs : Run(j) \/ Notice(j)
  \/ CancelFlag \/ CancelSave
  \/ \E c \in Coordinators :
       \/ Recovery(c) \/ Start(c) \/ StartBlind(c) \/ FreshIdsFail(c) \/ Crash(c) \/ Expire(c)
       \/ \E j \in Jobs : Create(c, j) \/ CancelGet(c, j) \/ Write(c, j) \/ WriteFails(c, j)

(***************************************************************************)
(* The event loop and the pools of a coordinator that lives go on, and the *)
(* heartbeat of one that does not gets old.  None need start again.        *)
(***************************************************************************)
Fairness ==
  /\ \A j \in Jobs : WF_vars(Run(j))
  /\ WF_vars(CancelFlag \/ CancelSave)
  /\ \A c \in Coordinators :
       /\ WF_vars(Recovery(c))
       /\ WF_vars(stage[c] = "down" /\ Expire(c))
       /\ \A j \in Jobs : WF_vars(Write(c, j))

Spec == Init /\ [][Next]_vars /\ Fairness

-----------------------------------------------------------------------------

\* A job that the table shows as ended is not being executed any more, so that it may be
\* retried, unless somebody asked for its cancellation, another coordinator started or was
\* blind, or its own coordinator's heartbeat was late: the periodic reconciliation by itself
\* never fails a job that is alive (list_owned before fresh_ids, select_orphans).
EndedMeansOver ==
  \A j \in Jobs : Ended(j) /\ pc[j] # "last" => ~Alive(j) \/ j \in excused \/ Owner(j) \in late

\* With the same exceptions, the status in which a job has ended stays, whatever copies of
\* the job are still around (the second look of reconcile_orphaned_jobs).
FinalKept ==
  [][\A j \in Jobs :
       Ended(j) /\ row'[j].data.status # row[j].data.status
       => j \in excused \/ Owner(j) \in late]_vars

\* The saves of a job's own coordinator reach the row in the order of their calls: no task
\* that has ended is shown as unfinished again (asave's lock).
NoRegress ==
  [][\A j \in Jobs :
       Stored(j) /\ row'[j].data.over < row[j].data.over
       => j \in excused \/ Owner(j) \in late]_vars

\* Every job comes to rest in a final status, also when its coordinator ends, as long as
\* another one lives; except for a job whose last save failed under a living coordinator, or
\* whose coordinator could not read the table when it started again.
Settles == <>[](\A j \in Jobs : Stored(j) => Ended(j) \/ j \in abandoned)

\* What a client sees of a job: the snapshot in the row.
Shown(j) == IF Stored(j) THEN [status |-> row[j].data.status, over |-> row[j].data.over]
                         ELSE [status |-> "none", over |-> 0]
Life(j)  == IF Alive(j) THEN "runs" ELSE pc[j]

\* The promise of RowPromise.  It does not bind a job in the situations that the properties
\* above except.
Promise == INSTANCE RowPromise WITH
  shown <- [j \in Jobs |-> Shown(j)],
  life  <- [j \in Jobs |-> Life(j)],
  void  <- {j \in Jobs : Stored(j) /\ (j \in excused \/ Owner(j) \in late)},
  lost  <- abandoned

\* Locks, copies, crashes and reconciliation keep the promise.
KeepsPromise == Promise!RSpec

\* A job that has reached one of the four final statuses never changes again.
FinalStays ==
  [][\A j \in Jobs : Ended(j) => row'[j].data.status = row[j].data.status]_vars

=============================================================================
