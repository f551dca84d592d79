------------------------------ MODULE Admission ------------------------------
(***************************************************************************)
(* Admission of jobs on one coordinator: the request handlers that create  *)
(* or retry a job (POST /jobs, POST /jobs/{id}/retry), the counters,       *)
(* semaphore and gate of JobAdmission, the life of an accepted job in      *)
(* _DispatcherBase.run, and the drain with which BundleSyncer switches the *)
(* bundle version.                                                         *)
(*                                                                         *)
(* The handlers are plain "def" endpoints, so the web framework runs each  *)
(* of them in a thread of its pool, while run(), the syncer and asyncio's  *)
(* semaphore live on the event loop.  Both sides update _inflight, without *)
(* a lock.                                                                 *)
(***************************************************************************)
EXTENDS Integers, Sequences, FiniteSets

CONSTANTS
  Requests,    \* the requests that pass validation; an accepted one is a job
  Key,         \* Idempotency-Key of each request, or NoKey
  Body,        \* fingerprint of the request's body
  NoKey,
  NoOne,
  Limits,      \* values of max_concurrent_jobs to explore; 0 is "unlimited"
  MaxPending,  \* max_pending_jobs
  Preemptible, \* TRUE: the interpreter may switch threads between the bytecodes of
               \* an unlocked update (CPython 3.9); FALSE: it does so only at calls
  MaxSwitches  \* bound: number of version switches in a behaviour

ASSUME RequestsAssumption == IsFiniteSet(Requests) /\ NoOne \notin Requests
ASSUME LimitsAssumption   == Limits \subseteq Nat /\ MaxPending \in Nat
ASSUME ModeAssumption     == Preemptible \in BOOLEAN /\ MaxSwitches \in Nat

VARIABLES
  max_running, \* self.max_running, read from the settings once
  pc,          \* where each request, later its job, stands
  answer,      \* what the client was told
  reg,         \* the value of _inflight a thread has read and not yet written back
  stored,      \* the requests whose job is in the job store
  inflight,    \* self._inflight
  running,     \* self._running
  value,       \* self._sem._value
  waiters,     \* self._sem._waiters
  gate,        \* self._gate.is_set()
  loop,        \* the job whose release() keeps the event loop busy, or NoOne
  phase,       \* what BundleSyncer._transition is doing
  switches     \* history: number of switches begun (bounds the model)

admitVars == <<answer, reg, stored>>
slotVars  == <<running, value, waiters>>
syncVars  == <<gate, phase, switches>>
vars      == <<max_running, pc, answer, reg, stored, inflight, running, value,
               waiters, gate, loop, phase, switches>>

Limited  == max_running > 0
Capacity == max_running + MaxPending
\* Mutant of Full: one request too many is let in.
FullTooLate == Limited /\ inflight > Capacity
Full     == Limited /\ inflight >= Capacity

\* The handler thread is inside _create_job or retry_job, before run() is scheduled.
HandlerPC == {"new", "checked", "adding", "addWrite", "admitted"}
\* The job is on its way to a slot or in it.
JobPC     == {"scheduled", "gateWait", "gateWoken", "semWait", "semWoken", "running"}
\* release() is being executed, by a handler thread or by the event loop.
ReleasePC == {"releasing", "subRead", "subWrite"}
PCs       == HandlerPC \union JobPC \union ReleasePC \union {"closed"}

Answers == {"none", "accepted", "replayed", "conflict", "rejected", "error"}
Phases  == {"idle", "draining", "switchDrained", "switchBusy"}

TypeOK ==
  /\ max_running \in Limits
  /\ pc \in [Requests -> PCs]
  /\ answer \in [Requests -> Answers]
  /\ reg \in [Requests -> Int]
  /\ stored \subseteq Requests
  /\ inflight \in Int
  /\ running \in Nat
  /\ value \in 0..max_running
  /\ waiters \in Seq(Requests)
  /\ gate \in BOOLEAN
  /\ loop \in Requests \union {NoOne}
  /\ phase \in Phases
  /\ switches \in 0..MaxSwitches

Init ==
  /\ max_running \in Limits
  /\ pc = [r \in Requests |-> "new"]
  /\ answer = [r \in Requests |-> "none"]
  /\ reg = [r \in Requests |-> 0]
  /\ stored = {}
  /\ inflight = 0
  /\ running = 0
  /\ value = max_running
  /\ waiters = <<>>
  /\ gate = TRUE
  /\ loop = NoOne
  /\ phase = "idle"
  /\ switches = 0

(***************************************************************************)
(* The handler, in a thread of the pool.                                   *)
(***************************************************************************)

\* The stored jobs with the key of r (get_by_idempotency_key, claim_and_add).
SameKey(r) == IF Key[r] = NoKey THEN {} ELSE {w \in stored : Key[w] = Key[r]}

\* The answer to a request that finds a job with its key.
Replay(r, w) == IF Body[w] = Body[r] THEN "replayed" ELSE "conflict"

\* Step (0) of _create_job: a job with this key exists already, or go on.
Precheck(r) ==
  /\ pc[r] = "new"
  /\ \/ /\ SameKey(r) = {}
        /\ pc' = [pc EXCEPT ![r] = "checked"]
        /\ UNCHANGED answer
     \/ \E w \in SameKey(r) :
          /\ pc' = [pc EXCEPT ![r] = "closed"]
          /\ answer' = [answer EXCEPT ![r] = Replay(r, w)]
  /\ UNCHANGED <<max_running, reg, stored, inflight, slotVars, syncVars, loop>>

\* try_admit refuses: 429.
Reject(r) ==
  /\ pc[r] = "checked"
  /\ Full
  /\ pc' = [pc EXCEPT ![r] = "closed"]
  /\ answer' = [answer EXCEPT ![r] = "rejected"]
  /\ UNCHANGED <<max_running, reg, stored, inflight, slotVars, syncVars, loop>>

\* try_admit accepts, its test and its increment in one piece.
Admit(r) ==
  /\ pc[r] = "checked"
  /\ ~Preemptible
  /\ ~Full
  /\ pc' = [pc EXCEPT ![r] = "admitted"]
  /\ inflight' = inflight + 1
  /\ UNCHANGED <<max_running, admitVars, slotVars, syncVars, loop>>

\* The same, one bytecode boundary at a time: test, read, write back.
AdmitTest(r) ==
  /\ pc[r] = "checked"
  /\ Preemptible
  /\ ~Full
  /\ pc' = [pc EXCEPT ![r] = "adding"]
  /\ UNCHANGED <<max_running, admitVars, inflight, slotVars, syncVars, loop>>

AdmitRead(r) ==
  /\ pc[r] = "adding"
  /\ pc' = [pc EXCEPT ![r] = "addWrite"]
  /\ reg' = [reg EXCEPT ![r] = inflight]
  /\ UNCHANGED <<max_running, answer, stored, inflight, slotVars, syncVars, loop>>

AdmitWrite(r) ==
  /\ pc[r] = "addWrite"
  /\ pc' = [pc EXCEPT ![r] = "admitted"]
  /\ inflight' = reg[r] + 1
  /\ UNCHANGED <<max_running, admitVars, slotVars, syncVars, loop>>

\* Mutant of Claim: the key is looked up in Precheck only.
ClaimBlind(r) ==
  /\ pc[r] = "admitted"
  /\ stored' = stored \union {r}
  /\ answer' = [answer EXCEPT ![r] = "accepted"]
  /\ pc' = [pc EXCEPT ![r] = "scheduled"]
  /\ UNCHANGED <<max_running, reg, inflight, slotVars, syncVars, loop>>

\* claim_and_add or add stores the job, and run() is scheduled on the event loop.
Claim(r) ==
  /\ pc[r] = "admitted"
  /\ SameKey(r) = {}
  /\ stored' = stored \union {r}
  /\ answer' = [answer EXCEPT ![r] = "accepted"]
  /\ pc' = [pc EXCEPT ![r] = "scheduled"]
  /\ UNCHANGED <<max_running, reg, inflight, slotVars, syncVars, loop>>

\* Mutant of ClaimLost: the branch releases, and so does the except around it.
ClaimLostTwice(r) ==
  /\ pc[r] = "admitted"
  /\ \E w \in SameKey(r) : answer' = [answer EXCEPT ![r] = Replay(r, w)]
  /\ pc' = [pc EXCEPT ![r] = "releasing"]
  /\ inflight' = IF inflight > 0 THEN inflight - 1 ELSE inflight
  /\ UNCHANGED <<max_running, reg, stored, slotVars, syncVars, loop>>

\* Another request with the key won the race: its job is returned (or 409), and the
\* admission is given back.
ClaimLost(r) ==
  /\ pc[r] = "admitted"
  /\ \E w \in SameKey(r) : answer' = [answer EXCEPT ![r] = Replay(r, w)]
  /\ pc' = [pc EXCEPT ![r] = "releasing"]
  /\ UNCHANGED <<max_running, reg, stored, inflight, slotVars, syncVars, loop>>

\* Building or storing the job raises: the except branch gives the admission back.
CreateFails(r) ==
  /\ pc[r] = "admitted"
  /\ answer' = [answer EXCEPT ![r] = "error"]
  /\ pc' = [pc EXCEPT ![r] = "releasing"]
  /\ UNCHANGED <<max_running, reg, stored, inflight, slotVars, syncVars, loop>>

(***************************************************************************)
(* release().  After a run it is the event loop that executes it, and no   *)
(* other callback of the loop runs until it is over.                       *)
(***************************************************************************)
Closed(r) ==
  /\ pc' = [pc EXCEPT ![r] = "closed"]
  /\ loop' = IF loop = r THEN NoOne ELSE loop

Release(r) ==
  /\ pc[r] = "releasing"
  /\ ~Preemptible \/ inflight <= 0
  /\ inflight' = IF inflight > 0 THEN inflight - 1 ELSE inflight
  /\ Closed(r)
  /\ UNCHANGED <<max_running, admitVars, slotVars, syncVars>>

ReleaseTest(r) ==
  /\ pc[r] = "releasing"
  /\ Preemptible
  /\ inflight > 0
  /\ pc' = [pc EXCEPT ![r] = "subRead"]
  /\ UNCHANGED <<max_running, admitVars, inflight, slotVars, syncVars, loop>>

ReleaseRead(r) ==
  /\ pc[r] = "subRead"
  /\ pc' = [pc EXCEPT ![r] = "subWrite"]
  /\ reg' = [reg EXCEPT ![r] = inflight]
  /\ UNCHANGED <<max_running, answer, stored, inflight, slotVars, syncVars, loop>>

ReleaseWrite(r) ==
  /\ pc[r] = "subWrite"
  /\ inflight' = reg[r] - 1
  /\ Closed(r)
  /\ UNCHANGED <<max_running, admitVars, slotVars, syncVars>>

(***************************************************************************)
(* The event loop: run() of an accepted job, through JobAdmission.slot().  *)
(***************************************************************************)

\* asyncio.Semaphore wakes the first waiter, which tries again when it is resumed.
Woken(p, ws)   == IF ws = <<>> THEN p ELSE [p EXCEPT ![Head(ws)] = "semWoken"]
Remaining(ws)  == IF ws = <<>> THEN ws ELSE Tail(ws)

\* The job gets a slot: _running is incremented with no await in between.
Enter(r) ==
  /\ running' = running + 1
  /\ pc' = [pc EXCEPT ![r] = "running"]

\* Mutant of Acquire: the gate is not looked at again after the wait for the slot.
AcquireStale(r) ==
  \/ /\ ~Limited
     /\ Enter(r)
     /\ UNCHANGED <<value, waiters>>
  \/ /\ Limited /\ value > 0
     /\ Enter(r)
     /\ value' = value - 1
     /\ UNCHANGED waiters
  \/ /\ Limited /\ value = 0
     /\ pc' = [pc EXCEPT ![r] = "semWait"]
     /\ waiters' = Append(waiters, r)
     /\ UNCHANGED <<running, value>>

\* Mutant of Acquire: with the gate closed, a slot is returned that was not taken.
AcquireOverReturn(r) ==
  \/ /\ ~Limited
     /\ Enter(r)
     /\ UNCHANGED <<value, waiters>>
  \/ /\ Limited /\ value > 0 /\ gate
     /\ Enter(r)
     /\ value' = value - 1
     /\ UNCHANGED waiters
  \/ /\ Limited /\ ~gate
     /\ pc' = Woken([pc EXCEPT ![r] = "gateWait"], waiters)
     /\ waiters' = Remaining(waiters)
     /\ value' = value + 1
     /\ UNCHANGED running
  \/ /\ Limited /\ value = 0 /\ gate
     /\ pc' = [pc EXCEPT ![r] = "semWait"]
     /\ waiters' = Append(waiters, r)
     /\ UNCHANGED <<running, value>>

\* sem.acquire() of a job that has come through the gate, up to its next await.
Acquire(r) ==
  \/ /\ ~Limited
     /\ Enter(r)
     /\ UNCHANGED <<value, waiters>>
  \/ /\ Limited /\ value > 0 /\ gate
     /\ Enter(r)
     /\ value' = value - 1
     /\ UNCHANGED waiters
  \/ \* The gate was closed while the job waited: it returns the slot and waits again.
     /\ Limited /\ value > 0 /\ ~gate
     /\ pc' = Woken([pc EXCEPT ![r] = "gateWait"], waiters)
     /\ waiters' = Remaining(waiters)
     /\ UNCHANGED <<running, value>>
  \/ /\ Limited /\ value = 0
     /\ pc' = [pc EXCEPT ![r] = "semWait"]
     /\ waiters' = Append(waiters, r)
     /\ UNCHANGED <<running, value>>

\* run() reaches slot() after saving the job as PENDING.
Arrive(r) ==
  /\ loop = NoOne
  /\ pc[r] = "scheduled"
  /\ IF gate
     THEN Acquire(r)
     ELSE pc' = [pc EXCEPT ![r] = "gateWait"] /\ UNCHANGED slotVars
  /\ UNCHANGED <<max_running, admitVars, inflight, syncVars, loop>>

\* A job woken from gate.wait() or from sem.acquire() is resumed; the gate may have
\* been closed again in between.
Resume(r) ==
  /\ loop = NoOne
  /\ pc[r] \in {"gateWoken", "semWoken"}
  /\ Acquire(r)
  /\ UNCHANGED <<max_running, admitVars, inflight, syncVars, loop>>

\* Mutant of Finish: the slot is returned, and nobody is told.
FinishSilent(r) ==
  /\ loop = NoOne
  /\ pc[r] = "running"
  /\ running' = running - 1
  /\ value' = IF Limited THEN value + 1 ELSE value
  /\ pc' = [pc EXCEPT ![r] = "releasing"]
  /\ loop' = r
  /\ UNCHANGED <<max_running, admitVars, inflight, waiters, syncVars>>

\* The body of the slot is over (finished, failed, or cancelled while waiting): the
\* slot is returned, and the outer finally goes on to release().
Finish(r) ==
  /\ loop = NoOne
  /\ pc[r] = "running"
  /\ running' = running - 1
  /\ IF Limited
     THEN /\ value' = value + 1
          /\ pc' = Woken([pc EXCEPT ![r] = "releasing"], waiters)
          /\ waiters' = Remaining(waiters)
     ELSE /\ pc' = [pc EXCEPT ![r] = "releasing"]
          /\ UNCHANGED <<value, waiters>>
  /\ loop' = r
  /\ UNCHANGED <<max_running, admitVars, inflight, syncVars>>

(***************************************************************************)
(* The event loop: the last part of BundleSyncer._transition, once every   *)
(* executor has prepared the new version.                                  *)
(***************************************************************************)

\* pause() and the first test of wait_idle().  Between the resume() of one switch and
\* this pause() lie a scan in a thread and the HTTP calls of the next cycle; the ready
\* queue of the event loop is first in, first out, so the jobs that resume() woke have
\* been resumed by then.
BeginSwitch ==
  /\ loop = NoOne
  /\ phase = "idle"
  /\ \A r \in Requests : pc[r] # "gateWoken"
  /\ switches < MaxSwitches
  /\ switches' = switches + 1
  /\ gate' = FALSE
  /\ phase' = IF running = 0 THEN "switchDrained" ELSE "draining"
  /\ UNCHANGED <<max_running, pc, admitVars, inflight, slotVars, loop>>

\* wait_idle() looks again: nothing runs any more, or drain_timeout_s has passed.
DrainEnds ==
  /\ loop = NoOne
  /\ phase = "draining"
  /\ phase' = IF running = 0 THEN "switchDrained" ELSE "switchBusy"
  /\ UNCHANGED <<max_running, pc, admitVars, inflight, slotVars, gate, switches, loop>>

\* Mutant of EndSwitch: resume() is left out when the drain timed out.
EndSwitchUnopened ==
  /\ loop = NoOne
  /\ phase \in {"switchDrained", "switchBusy"}
  /\ phase' = "idle"
  /\ gate' = (phase = "switchDrained")
  /\ pc' = [r \in Requests |-> IF pc[r] = "gateWait" /\ gate' THEN "gateWoken" ELSE pc[r]]
  /\ UNCHANGED <<max_running, admitVars, inflight, slotVars, switches, loop>>

\* Every executor has answered the commit: resume() in the finally branch.
EndSwitch ==
  /\ loop = NoOne
  /\ phase \in {"switchDrained", "switchBusy"}
  /\ phase' = "idle"
  /\ gate' = TRUE
  /\ pc' = [r \in Requests |-> IF pc[r] = "gateWait" THEN "gateWoken" ELSE pc[r]]
  /\ UNCHANGED <<max_running, admitVars, inflight, slotVars, switches, loop>>

-----------------------------------------------------------------------------

Handler(r) ==
  \/ Precheck(r) \/ Reject(r)
  \/ Admit(r) \/ AdmitTest(r) \/ AdmitRead(r) \/ AdmitWrite(r)
  \/ Claim(r) \/ ClaimLost(r) \/ CreateFails(r)

GiveBack(r) == Release(r) \/ ReleaseTest(r) \/ ReleaseRead(r) \/ ReleaseWrite(r)

Job(r) == Arrive(r) \/ Resume(r) \/ Finish(r)

Syncer == BeginSwitch \/ DrainEnds \/ EndSwitch

Done == \A r \in Requests : pc[r] = "closed"

\* Everything has been answered and finished: the coordinator waits for more.
Idle ==
  /\ Done
  /\ phase = "idle"
  /\ switches = MaxSwitches
  /\ UNCHANGED vars

Next ==
  \/ \E r \in Requests : Handler(r) \/ GiveBack(r) \/ Job(r)
  \/ Syncer
  \/ Idle

(***************************************************************************)
(* Threads and the event loop are scheduled fairly, a job ends (its HTTP   *)
(* calls and its polling have timeouts), and a drain ends at the latest at *)
(* its timeout.  That a switch begins is up to the operator's files.       *)
(***************************************************************************)
Fairness ==
  /\ \A r \in Requests : WF_vars(Handler(r)) /\ WF_vars(GiveBack(r)) /\ WF_vars(Job(r))
  /\ WF_vars(DrainEnds)
  /\ WF_vars(EndSwitch)

Spec == Init /\ [][Next]_vars /\ Fairness

-----------------------------------------------------------------------------

InSlot  == {r \in Requests : pc[r] = "running"}

\* The requests that own one unit of _inflight.
Holding == {r \in Requests : pc[r] \in JobPC \union ReleasePC \union {"admitted"}}

\* At most max_concurrent_jobs jobs run, however the gate, the semaphore's queue and
\* the returns of a job that found the gate closed interleave (JobAdmission.slot).
SlotBound == Limited => Cardinality(InSlot) <= max_running

\* While the executors commit a version after a drain that did not time out, no job
\* runs: neither one the drain overlooked nor one that slipped through the gate with a
\* slot it was still waiting for when pause() was called (wait_idle, slot).
SwitchAlone == phase = "switchDrained" => InSlot = {}

\* The jobs that have been woken by the semaphore and have not tried it again yet.
SemWoken == {r \in Requests : pc[r] = "semWoken"}

\* No wake-up is lost: while a job waits for a slot, every slot is used or has a job
\* woken for it, whichever jobs overtake the woken one or hand the slot on at a closed
\* gate; and a job waits at the gate only while a switch will open it (slot, resume).
NoneStranded ==
  /\ (\E r \in Requests : pc[r] = "semWait") =>
       Cardinality(InSlot \union SemWoken) >= max_running
  /\ (\E r \in Requests : pc[r] = "gateWait") => phase # "idle"

\* Requests with the same Idempotency-Key never create two jobs, even when all of them
\* have passed the lookup of _create_job before the first one is stored.
OneJobPerKey ==
  \A r, s \in stored : Key[r] = Key[s] /\ Key[r] # NoKey => r = s

\* Where an update of _inflight is not interrupted, it counts exactly the requests that
\* were admitted and have not given their admission back: every way out of a handler
\* or of run() releases once, and only once.
InflightExact == inflight = Cardinality(Holding)

\* The jobs taken in, running or waiting, stay within max_concurrent_jobs plus
\* max_pending_jobs (try_admit).
CapacityBound == Limited => Cardinality(Holding) <= Capacity

\* The jobs that have left their slot for good.
Left == {r \in stored : pc[r] \in ReleasePC \union {"closed"}}

Promise == INSTANCE JobPromise WITH
  limit <- max_running, told <- answer, jobs <- stored,
  inside <- InSlot, over <- Left, switch <- phase

\* The threads, the counter, the semaphore and the gate together do no more than
\* JobPromise allows: one answer to each request, one run of each job, and no start
\* beyond the limit or during a switch, whoever was woken before it (_create_job, slot).
KeepsPromise == Promise!PSpec

\* Every accepted job gets its slot and gives its admission back in the end: no wake-up
\* of the gate or of the semaphore is lost, and every drain opens the gate again.
AcceptedFinishes == \A r \in Requests : pc[r] = "scheduled" ~> pc[r] = "closed"

\* What run() promises of its finally branch ("exactly 1, no leak"): when nothing is in
\* progress any more, nothing is counted any more.
NothingLeaks == Done => inflight = 0

=============================================================================
