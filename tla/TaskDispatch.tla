---------------------------- MODULE TaskDispatch ----------------------------
(***************************************************************************)
(* One task of a job on its way through HttpDispatcher: the POST that      *)
(* starts it on an executor, with retries and failover, the polling that   *)
(* follows, the cancel request of a client, and the job's final status.    *)
(* On the other side, the executors' table of tasks, which makes POST      *)
(* /tasks idempotent within one process, and the runs it starts.           *)
(*                                                                         *)
(* A request or its answer may be lost, or come late: the coordinator may  *)
(* give up on a request at any time, and the request still arrives.  An    *)
(* executor may crash and restart at any time, with an empty table.  The   *)
(* job store is in memory or in a file, so that handlers and run() share   *)
(* one Job object.  The tasks of a job meet only in the cancel flag and in *)
(* the final status, so one of them is modelled.                           *)
(***************************************************************************)
EXTENDS Integers, Sequences, FiniteSets

CONSTANTS
  Executors,   \* the executors of the configuration
  NoOne,
  Retries,     \* task_max_retries
  SyncOn,      \* TRUE: file synchronisation is on; every POST carries a bundle version
  MaxVersion,  \* bound: number of the last bundle version
  MaxCrashes,  \* bound: number of executor crashes in a behaviour
  DirectCancel \* TRUE: an operator may also call an executor's cancel endpoint

ASSUME ExecutorsAssumption == IsFiniteSet(Executors) /\ NoOne \notin Executors
ASSUME RetriesAssumption   == Retries \in Nat
ASSUME BoundsAssumption    == MaxVersion \in Nat /\ MaxCrashes \in Nat
ASSUME ModesAssumption     == SyncOn \in BOOLEAN /\ DirectCancel \in BOOLEAN

VARIABLES
  \* _run_task, _dispatch_with_failover and _poll_loop
  pc,        \* where they stand
  order,     \* the candidates that are left; the first one is being tried
  tries,     \* attempt: failed attempts at the first candidate
  ambiguous, \* some attempt at it may have been accepted
  sent,      \* task.attempt: number of the last POST
  reply,     \* what has come back for the last POST
  seen,      \* the status in the answer to the GET under way
  transient, \* failed GETs in a row
  status,    \* task.status
  url,       \* task.executor_url
  why,       \* the kind of task.error
  \* the cancel handler and the job
  xpc, flag, \* where cancel_job stands; job.cancel_requested
  xmsg,      \* the executor to which a POST .../cancel is under way, or NoOne
  job,       \* job.status
  \* the POSTs, by number, and the Task objects of the executors they created
  net, to, body,
  table,     \* tasks[task_id] of each executor: number of the POST, or 0
  run,       \* Task.status
  asked,     \* the runs with Task.cancel_requested
  loaded,    \* the runs whose load has been committed
  \* file synchronisation
  active, mine, \* the coordinator's version, and each executor's
  crashes    \* history: number of crashes

dispVars == <<pc, order, tries, ambiguous, sent, reply, seen, transient>>
taskVars == <<status, url, why>>
jobVars  == <<xpc, flag, xmsg, job>>
netVars  == <<net, to, body>>
execVars == <<table, run, asked, loaded>>
syncVars == <<active, mine, crashes>>
vars     == <<dispVars, taskVars, jobVars, netVars, execVars, syncVars>>

Sends    == 1 .. (Cardinality(Executors) * (Retries + 1))
Versions == 0..MaxVersion

Terminal == {"DONE", "FAILED", "CANCELLED"}
Statuses == {"QUEUED", "WRITING"} \union Terminal  \* WRITING stands for READING, too

\* The orders in which candidates can be tried (_failover_order): the assigned executor
\* alone, all of them, or those that the bundle gate leaves over.
Orders == {o \in UNION {[1..k -> Executors] : k \in 0..Cardinality(Executors)} :
             \A i, j \in DOMAIN o : o[i] = o[j] => i = j}

TypeOK ==
  /\ pc \in {"queued", "ready", "posting", "poll", "getting", "over", "final"}
  /\ order \in Seq(Executors)
  /\ tries \in 0..Retries /\ transient \in 0..Retries
  /\ ambiguous \in BOOLEAN /\ flag \in BOOLEAN
  /\ sent \in Sends \union {0}
  /\ reply \in {"none", "ok", "busy", "mismatch", "conflict"}
  /\ seen \in Statuses \union {"none", "missing"}
  /\ status \in Statuses
  /\ url \in Executors /\ xmsg \in Executors \union {NoOne}
  /\ why \in {"none", "noCandidate", "conflict", "unclear", "exhausted", "pollLost", "reported",
             "broken"}
  /\ xpc \in {"none", "asked", "flagged", "sent", "done"}
  /\ job \in {"RUNNING", "PARTIAL"} \union Terminal
  /\ net \in [Sends -> {"unsent", "wire", "checking", "gone"}]
  /\ to \in [Sends -> Executors \union {NoOne}] /\ body \in [Sends -> Versions]
  /\ table \in [Executors -> Sends \union {0}]
  /\ run \in [Sends -> Statuses \union {"none", "lost"}]
  /\ asked \subseteq Sends /\ loaded \subseteq Sends
  /\ active \in Versions /\ mine \in [Executors -> Versions]
  /\ crashes \in 0..MaxCrashes

Init ==
  /\ pc = "queued" /\ order = <<>> /\ tries = 0 /\ ambiguous = FALSE
  /\ sent = 0 /\ reply = "none" /\ seen = "none" /\ transient = 0
  /\ status = "QUEUED" /\ url \in Executors /\ why = "none"
  /\ xpc = "none" /\ flag = FALSE /\ xmsg = NoOne /\ job = "RUNNING"
  /\ net = [n \in Sends |-> "unsent"]
  /\ to = [n \in Sends |-> NoOne]
  /\ body = [n \in Sends |-> 0]
  /\ table = [e \in Executors |-> 0]
  /\ run = [n \in Sends |-> "none"]
  /\ asked = {} /\ loaded = {}
  /\ active = 0 /\ mine = [e \in Executors |-> 0] /\ crashes = 0

-----------------------------------------------------------------------------
(***************************************************************************)
(* The coordinator.                                                        *)
(***************************************************************************)

\* The candidate loop is left, and its variables are gone.
LeaveLoop == order' = <<>> /\ tries' = 0 /\ ambiguous' = FALSE

\* The task ends with status s and error w.
Settle(s, w) ==
  /\ pc' = "over"
  /\ status' = s
  /\ why' = w
  /\ LeaveLoop

\* _run_task has a dispatch slot; the candidates are chosen.
Begin ==
  /\ pc = "queued"
  /\ \/ flag /\ Settle("CANCELLED", why)
     \/ /\ ~flag
        /\ order' \in Orders \ {<<>>}
        /\ pc' = "ready"
        /\ UNCHANGED <<tries, ambiguous, status, why>>
     \/ \* The bundle gate left none.
        ~flag /\ SyncOn /\ Settle("FAILED", "noCandidate")
  /\ UNCHANGED <<sent, reply, seen, transient, url, jobVars, netVars, execVars, syncVars>>

\* Mutant of NextCandidate: with the last candidate, only the error is set.
NextCandidateOpen ==
  \/ /\ Len(order) > 1
     /\ order' = Tail(order)
     /\ tries' = 0 /\ ambiguous' = FALSE
     /\ pc' = "ready"
     /\ UNCHANGED <<status, why>>
  \/ Len(order) = 1 /\ Settle(status, "exhausted")

\* The first candidate is used up with no doubt left: the next one is tried.
NextCandidate ==
  \/ /\ Len(order) > 1
     /\ order' = Tail(order)
     /\ tries' = 0 /\ ambiguous' = FALSE
     /\ pc' = "ready"
     /\ UNCHANGED <<status, why>>
  \/ Len(order) = 1 /\ Settle("FAILED", "exhausted")

\* The attempts at the first candidate are over; doubt is the final value of ambiguous.
GiveUpOn(doubt) ==
  \/ doubt /\ Settle("FAILED", "unclear")
  \/ ~doubt /\ NextCandidate

\* Mutant of AttemptFails: only the last attempt counts.
AttemptFailsForgetful(definite) ==
  \/ /\ tries < Retries
     /\ tries' = tries + 1
     /\ ambiguous' = ~definite
     /\ pc' = "ready"
     /\ UNCHANGED <<order, status, why>>
  \/ tries = Retries /\ GiveUpOn(~definite)

\* An attempt ends without the task being started; definite: it was surely not accepted.
AttemptFails(definite) ==
  \/ /\ tries < Retries
     /\ tries' = tries + 1
     /\ ambiguous' = (ambiguous \/ ~definite)
     /\ pc' = "ready"
     /\ UNCHANGED <<order, status, why>>
  \/ tries = Retries /\ GiveUpOn(ambiguous \/ ~definite)

\* The head of the retry loop: leave it if a cancel is seen.
Withdraw ==
  /\ pc = "ready"
  /\ flag
  /\ Settle("CANCELLED", why)
  /\ UNCHANGED <<sent, reply, seen, transient, url, jobVars, netVars, execVars, syncVars>>

\* _start_task sends the POST, with the version that is active now.
Post ==
  /\ pc = "ready"
  /\ ~flag
  /\ sent' = sent + 1
  /\ url' = Head(order)
  /\ net' = [net EXCEPT ![sent'] = "wire"]
  /\ to' = [to EXCEPT ![sent'] = url']
  /\ body' = [body EXCEPT ![sent'] = active]
  /\ pc' = "posting"
  /\ UNCHANGED <<order, tries, ambiguous, reply, seen, transient, status, why,
                 jobVars, execVars, syncVars>>

\* No connection comes about (ConnectError, ConnectTimeout, PoolTimeout).
PostUnconnected ==
  /\ pc = "ready"
  /\ ~flag
  /\ sent' = sent + 1
  /\ url' = Head(order)
  /\ AttemptFails(TRUE)
  /\ UNCHANGED <<reply, seen, transient, jobVars, netVars, execVars, syncVars>>

\* The executor's answer.
PostAnswered ==
  /\ pc = "posting"
  /\ \/ reply = "ok" /\ pc' = "poll" /\ LeaveLoop /\ UNCHANGED <<status, why>>
     \/ reply = "busy" /\ AttemptFails(TRUE)
     \/ reply = "mismatch" /\ GiveUpOn(ambiguous)
     \/ reply = "conflict" /\ Settle("FAILED", "conflict")
  /\ reply' = "none"
  /\ UNCHANGED <<sent, seen, transient, url, jobVars, netVars, execVars, syncVars>>

\* No usable answer: a lost connection, a timeout, a 5xx other than 503.
PostUnanswered ==
  /\ pc = "posting"
  /\ AttemptFails(FALSE)
  /\ reply' = "none"
  /\ UNCHANGED <<sent, seen, transient, url, jobVars, netVars, execVars, syncVars>>

\* The head of the polling loop: leave it, or send the next GET.
PollNext ==
  /\ pc = "poll"
  /\ \/ status \in Terminal /\ Settle(status, why) /\ transient' = 0
     \/ status \notin Terminal /\ flag /\ Settle("CANCELLED", why) /\ transient' = 0
     \/ /\ status \notin Terminal /\ ~flag
        /\ pc' = "getting"
        /\ UNCHANGED <<order, tries, ambiguous, transient, status, why>>
  /\ UNCHANGED <<sent, reply, seen, url, jobVars, netVars, execVars, syncVars>>

\* The answer replaces task.status, whatever that is by now.
PollAnswered ==
  /\ pc = "getting"
  /\ seen \in Statuses
  /\ status' = seen
  /\ why' = IF seen = "FAILED" THEN "reported" ELSE "none"
  /\ transient' = 0 /\ seen' = "none"
  /\ pc' = "poll"
  /\ UNCHANGED <<order, tries, ambiguous, sent, reply, url,
                 jobVars, netVars, execVars, syncVars>>

\* Mutant of PollFails: failures are not counted.
PollFailsUncounted ==
  /\ pc = "getting"
  /\ pc' = "poll" /\ seen' = "none"
  /\ UNCHANGED <<order, tries, ambiguous, sent, reply, transient, taskVars,
                 jobVars, netVars, execVars, syncVars>>

\* Mutant of PollFails: one failure too many is borne.
PollFailsOneMore ==
  /\ pc = "getting"
  /\ \/ transient > Retries /\ transient' = 0 /\ Settle("FAILED", "pollLost")
     \/ /\ transient <= Retries
        /\ transient' = transient + 1
        /\ pc' = "poll"
        /\ UNCHANGED <<order, tries, ambiguous, status, why>>
  /\ seen' = "none"
  /\ UNCHANGED <<sent, reply, url, jobVars, netVars, execVars, syncVars>>

\* No answer, or a 404 of an executor that has restarted.
PollFails ==
  /\ pc = "getting"
  /\ \/ transient = Retries /\ transient' = 0 /\ Settle("FAILED", "pollLost")
     \/ /\ transient < Retries
        /\ transient' = transient + 1
        /\ pc' = "poll"
        /\ UNCHANGED <<order, tries, ambiguous, status, why>>
  /\ seen' = "none"
  /\ UNCHANGED <<sent, reply, url, jobVars, netVars, execVars, syncVars>>

\* An error that is neither a lost connection nor an HTTP status, such as an answer that cannot
\* be decoded or parsed: _run_task fails the task at once, whatever its executor does.
Breaks ==
  /\ \/ pc = "queued" /\ ~flag /\ UNCHANGED <<sent, url>>
     \/ pc = "ready" /\ ~flag /\ sent' = sent + 1 /\ url' = Head(order)
     \/ pc \in {"posting", "getting"} /\ UNCHANGED <<sent, url>>
  /\ Settle("FAILED", "broken")
  /\ reply' = "none" /\ seen' = "none" /\ transient' = 0
  /\ UNCHANGED <<jobVars, netVars, execVars, syncVars>>

\* Mutant of Finalize: the cancel does not come first.
FinalizeUncancelled ==
  /\ pc = "over"
  /\ job' \in IF status # "FAILED" THEN {"DONE"} ELSE {"PARTIAL", "FAILED"}
  /\ pc' = "final"
  /\ UNCHANGED <<order, tries, ambiguous, sent, reply, seen, transient, taskVars,
                 xpc, flag, xmsg, netVars, execVars, syncVars>>

\* finalize_job, with either failure policy.
Finalize ==
  /\ pc = "over"
  /\ job' \in IF flag THEN {"CANCELLED"}
              ELSE IF status # "FAILED" THEN {"DONE"} ELSE {"PARTIAL", "FAILED"}
  /\ pc' = "final"
  /\ UNCHANGED <<order, tries, ambiguous, sent, reply, seen, transient, taskVars,
                 xpc, flag, xmsg, netVars, execVars, syncVars>>

-----------------------------------------------------------------------------
(***************************************************************************)
(* cancel_job and HttpDispatcher.cancel.                                   *)
(***************************************************************************)

\* The handler finds the job unfinished; a PARTIAL job passes, too.
CancelAsk ==
  /\ xpc = "none"
  /\ job \notin Terminal
  /\ xpc' = "asked"
  /\ UNCHANGED <<flag, xmsg, job, dispVars, taskVars, netVars, execVars, syncVars>>

\* request_cancel sets the flag, in a thread.
CancelFlag ==
  /\ xpc = "asked"
  /\ xpc' = "flagged"
  /\ flag' = TRUE
  /\ UNCHANGED <<xmsg, job, dispVars, taskVars, netVars, execVars, syncVars>>

\* Back on the event loop: a task that is not finished by now is cancelled remotely.
CancelSend ==
  /\ xpc = "flagged"
  /\ \/ /\ status \notin Terminal
        /\ xpc' = "sent" /\ xmsg' = url
        /\ UNCHANGED job
     \/ /\ status \in Terminal
        /\ xpc' = "done" /\ job' = "CANCELLED"
        /\ UNCHANGED xmsg
  /\ UNCHANGED <<flag, dispVars, taskVars, netVars, execVars, syncVars>>

\* Whatever came of it, the task and the job are marked.
CancelReturns ==
  /\ xpc = "sent"
  /\ xpc' = "done"
  /\ status' = "CANCELLED"
  /\ job' = "CANCELLED"
  /\ UNCHANGED <<flag, xmsg, dispVars, url, why, netVars, execVars, syncVars>>

-----------------------------------------------------------------------------
(***************************************************************************)
(* The executors.                                                          *)
(***************************************************************************)

\* The answer to POST n reaches the coordinator if it still waits for it.
Answer(n, a) ==
  reply' = IF pc = "posting" /\ n = sent THEN a ELSE reply

\* A new Task object, QUEUED, and the coroutine that will run it.
Accept(n) ==
  /\ table' = [table EXCEPT ![to[n]] = n]
  /\ run' = [run EXCEPT ![n] = "QUEUED"]
  /\ net' = [net EXCEPT ![n] = "gone"]
  /\ Answer(n, "ok")

\* It does not accept: draining (503), or another version (409).
Decline(n, a) ==
  /\ net' = [net EXCEPT ![n] = "gone"]
  /\ Answer(n, a)
  /\ UNCHANGED <<table, run>>

\* Mutant of PostArrives: a task that is known is accepted again.
PostArrivesAgain(n) ==
  /\ net[n] = "wire"
  /\ Accept(n) \/ Decline(n, "busy")
  /\ UNCHANGED <<pc, order, tries, ambiguous, sent, seen, transient, taskVars, jobVars,
                 to, body, asked, loaded, syncVars>>

\* create_task, up to its await: a known task is answered at once, and with no version
\* to compare the rest follows at once, too.
PostArrives(n) ==
  /\ net[n] = "wire"
  /\ \/ /\ table[to[n]] # 0
        /\ Decline(n, IF body[n] = body[table[to[n]]] THEN "ok" ELSE "conflict")
     \/ /\ table[to[n]] = 0 /\ ~SyncOn
        /\ Accept(n) \/ Decline(n, "busy")
     \/ /\ table[to[n]] = 0 /\ SyncOn
        /\ net' = [net EXCEPT ![n] = "checking"]
        /\ UNCHANGED <<table, run, reply>>
  /\ UNCHANGED <<pc, order, tries, ambiguous, sent, seen, transient, taskVars, jobVars,
                 to, body, asked, loaded, syncVars>>

\* The version has been read in a thread; the table is not looked at again.
PostChecked(n) ==
  /\ net[n] = "checking"
  /\ \/ mine[to[n]] # body[n] /\ Decline(n, "mismatch")
     \/ mine[to[n]] = body[n] /\ (Accept(n) \/ Decline(n, "busy"))
  /\ UNCHANGED <<pc, order, tries, ambiguous, sent, seen, transient, taskVars, jobVars,
                 to, body, asked, loaded, syncVars>>

\* GET /tasks/{id} is served.
GetArrives ==
  /\ pc = "getting"
  /\ seen = "none"
  /\ seen' = IF table[url] = 0 THEN "missing" ELSE run[table[url]]
  /\ UNCHANGED <<pc, order, tries, ambiguous, sent, reply, transient, taskVars,
                 jobVars, netVars, execVars, syncVars>>

\* cancel_task: a QUEUED task is cancelled at once, a running one gets the flag.
CancelAt(e) ==
  LET n == table[e] IN
  IF n = 0 \/ run[n] \in Terminal
  THEN UNCHANGED <<run, asked>>
  ELSE /\ asked' = asked \union {n}
       /\ run' = IF run[n] = "QUEUED" THEN [run EXCEPT ![n] = "CANCELLED"] ELSE run

CancelArrives ==
  /\ xmsg # NoOne
  /\ CancelAt(xmsg)
  /\ xmsg' = NoOne
  /\ UNCHANGED <<dispVars, taskVars, xpc, flag, job, netVars, table, loaded, syncVars>>

\* An operator calls the executor's endpoint.
OperatorCancels(e) ==
  /\ DirectCancel
  /\ CancelAt(e)
  /\ UNCHANGED <<dispVars, taskVars, jobVars, netVars, table, loaded, syncVars>>

\* _run: the slot is free and nobody has cancelled.
RunStarts(n) ==
  /\ run[n] = "QUEUED"
  /\ run' = [run EXCEPT ![n] = "WRITING"]
  /\ UNCHANGED <<dispVars, taskVars, jobVars, netVars, table, asked, loaded, syncVars>>

\* The backend's transaction commits.
RunLoads(n) ==
  /\ run[n] = "WRITING" /\ n \notin loaded
  /\ loaded' = loaded \union {n}
  /\ UNCHANGED <<dispVars, taskVars, jobVars, netVars, table, run, asked, syncVars>>

\* The backend raises: before its COMMIT, or when the COMMIT has taken effect, be it that its
\* answer is lost or that closing the source fails.
RunFails(n) ==
  /\ run[n] = "WRITING"
  /\ run' = [run EXCEPT ![n] = "FAILED"]
  /\ UNCHANGED <<dispVars, taskVars, jobVars, netVars, table, asked, loaded, syncVars>>

\* Back from the backend: DONE, or CANCELLED if that was asked for in the meantime.
RunEnds(n) ==
  /\ run[n] = "WRITING" /\ n \in loaded
  /\ run' = [run EXCEPT ![n] = IF n \in asked THEN "CANCELLED" ELSE "DONE"]
  /\ UNCHANGED <<dispVars, taskVars, jobVars, netVars, table, asked, loaded, syncVars>>

\* The executor dies and comes back with an empty table.  A transaction under way is
\* lost, unless its COMMIT had reached the database.
Crash(e) ==
  /\ crashes < MaxCrashes
  /\ crashes' = crashes + 1
  /\ LET dying == {n \in Sends : to[n] = e /\ run[n] \in {"QUEUED", "WRITING"}} IN
     /\ run' = [n \in Sends |-> IF n \in dying THEN "lost" ELSE run[n]]
     /\ \E C \in SUBSET {n \in dying : run[n] = "WRITING"} : loaded' = loaded \union C
  /\ net' = [n \in Sends |-> IF to[n] = e /\ net[n] = "checking" THEN "gone" ELSE net[n]]
  /\ table' = [table EXCEPT ![e] = 0]
  /\ UNCHANGED <<dispVars, taskVars, jobVars, to, body, asked, active, mine>>

\* BundleSyncer switches the version; some executors may miss the commit, and catch up.
Switch ==
  /\ SyncOn
  /\ active < MaxVersion
  /\ active' = active + 1
  /\ \E E \in SUBSET Executors :
       mine' = [e \in Executors |-> IF e \in E THEN active' ELSE mine[e]]
  /\ UNCHANGED <<dispVars, taskVars, jobVars, netVars, execVars, crashes>>

CatchUp(e) ==
  /\ mine[e] # active
  /\ mine' = [mine EXCEPT ![e] = active]
  /\ UNCHANGED <<dispVars, taskVars, jobVars, netVars, execVars, active, crashes>>

-----------------------------------------------------------------------------

Dispatch ==
  \/ Begin \/ Withdraw \/ Post \/ PostUnconnected \/ PostAnswered \/ PostUnanswered
  \/ PollNext \/ PollAnswered \/ PollFails \/ Breaks \/ Finalize

CancelJob == CancelAsk \/ CancelFlag \/ CancelSend \/ CancelReturns

Request(n) == PostArrives(n) \/ PostChecked(n)
Run(n)     == RunStarts(n) \/ RunLoads(n) \/ RunFails(n) \/ RunEnds(n)

\* The job is over, and so is everything it has set in motion.
Idle ==
  /\ pc = "final"
  /\ \A n \in Sends : net[n] \in {"unsent", "gone"} /\ run[n] \notin {"QUEUED", "WRITING"}
  /\ UNCHANGED vars

Next ==
  \/ Dispatch
  \/ CancelJob \/ CancelArrives
  \/ \E n \in Sends : Request(n) \/ Run(n)
  \/ GetArrives
  \/ \E e \in Executors : Crash(e) \/ OperatorCancels(e) \/ CatchUp(e)
  \/ Switch
  \/ Idle

(***************************************************************************)
(* The coordinator's coroutines are scheduled, and every one of its calls  *)
(* ends at its timeout; an executor runs what it has accepted, and its     *)
(* database answers.  Nothing else is promised: no message need arrive.    *)
(***************************************************************************)
Fairness ==
  /\ WF_vars(Dispatch)
  /\ WF_vars(CancelFlag \/ CancelSend \/ CancelReturns)
  /\ \A n \in Sends : WF_vars(Run(n))

Spec == Init /\ [][Next]_vars /\ Fairness

-----------------------------------------------------------------------------

Accepted == {n \in Sends : run[n] # "none"}
Owners   == {to[n] : n \in Accepted}

\* At most one executor ever accepts the task: a candidate that may have accepted it is
\* never given up for another one, however its answers are lost or delayed, POSTs are
\* repeated, executors restart and bundle versions change (_dispatch_with_failover).
OneOwner == \A m, n \in Accepted : to[m] = to[n]

\* No executor has accepted the task, and none can.
Declined ==
  /\ loaded = {}
  /\ \A n \in Sends : run[n] = "none" /\ net[n] \notin {"wire", "checking"}

\* No run of the task goes on, and no POST on its way starts another one.
Ended ==
  \A n \in Sends :
    /\ run[n] \notin {"QUEUED", "WRITING"}
    /\ net[n] \in {"wire", "checking"} => table[to[n]] # 0

\* What the error of a failed task lets its reader conclude about the executors.  All
\* candidates have declined it, or none was left: nobody has it.  Its executor reported the
\* failure: the run is over (as long as no executor has restarted, and without the repeated
\* runs that file synchronisation makes possible), but a COMMIT in doubt may have loaded the
\* partition.  A conflict is that of the task with itself: an executor has accepted it, and
\* may be running it.  Nothing follows from the other errors, of which "broken" asks for no
\* check, either.
HonestFailure ==
  status = "FAILED" =>
    /\ why \in {"exhausted", "noCandidate"} => Declined
    /\ why = "reported" /\ crashes = 0 /\ ~SyncOn => Ended
    /\ why = "conflict" => SyncOn /\ Accepted # {}

\* The promise of TaskPromise, with the task's outcome read off the coordinator.
Promise == INSTANCE TaskPromise WITH
  owner   <- IF Accepted = {} THEN NoOne ELSE CHOOSE e \in Owners : TRUE,
  lives   <- 1 + crashes,
  loads   <- Cardinality(loaded),
  outcome <- IF pc \in {"over", "final"} THEN status ELSE "open"

\* The detailed protocol keeps the promise.
KeepsPromise == Promise!PSpec

\* A job that is DONE has its partition loaded, unless an operator has cancelled the task at
\* the executor: finalize_job looks for FAILED tasks only, and counts such a task with the
\* successful ones.  A task that nobody started, or whose end nobody saw, is never among them.
DoneIsLoaded ==
  job = "DONE" =>
    loaded # {} \/ (DirectCancel /\ \E n \in asked : run[n] = "CANCELLED")

\* The status of a finished job changes once more at most, to CANCELLED and by a cancel that
\* was accepted: finalize_job, which runs when the handler may have marked the job before,
\* takes nothing back, nor does the handler when the job has finished during its calls.
\* (The job is RUNNING from the start here; a cancel that precedes its run is SharedStore's.)
SettledOnce == [][job # "RUNNING" => job' = job \/ (flag /\ job' = "CANCELLED")]_vars

\* Every task is settled and every job ends, whatever is lost and whoever crashes.
Settles == <>[](pc = "final" /\ job # "RUNNING")

\* A cancel that was accepted has the last word: the job ends CANCELLED, also when it
\* finished, or found another status, while the cancel was on its way.
CancelWins == flag ~> [](job = "CANCELLED")

\* What the retry handler says of a failed task: nothing was committed, so running its
\* query again cannot load the partition twice.
FailedNotLoaded == pc = "final" /\ status = "FAILED" => loaded = {}

\* What the design says of a repeated POST: within one process it gets the status of the
\* task that is there, and starts nothing.
OneRunPerProcess ==
  crashes = 0 => \A m, n \in Accepted : to[m] = to[n] => m = n

=============================================================================
