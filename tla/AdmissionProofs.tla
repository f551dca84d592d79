--------------------------- MODULE AdmissionProofs ---------------------------
(***************************************************************************)
(* Theorems about Admission, for every set of requests, every limit and    *)
(* both granularities of the counter's updates.                            *)
(***************************************************************************)
EXTENDS Admission, FiniteSetTheorems, TLAPS

-----------------------------------------------------------------------------
(***************************************************************************)
(* Cardinality of a set that gains or loses one element.                   *)
(***************************************************************************)
LEMMA CardGain ==
  ASSUME NEW S, NEW T, NEW x, IsFiniteSet(S), x \notin S, T = S \union {x}
  PROVE  Cardinality(T) = Cardinality(S) + 1
BY FS_AddElement

LEMMA CardLoss ==
  ASSUME NEW S, NEW T, NEW x, IsFiniteSet(S), x \in S, T = S \ {x}
  PROVE  Cardinality(T) = Cardinality(S) - 1
BY FS_RemoveElement

LEMMA SubsetsFinite ==
  ASSUME NEW S \in SUBSET Requests
  PROVE  IsFiniteSet(S) /\ Cardinality(S) \in Nat
BY RequestsAssumption, FS_Subset, FS_CardinalityType

-----------------------------------------------------------------------------
(***************************************************************************)
(* The waiters of the semaphore: a job is queued once, and only while its  *)
(* pc says so.                                                             *)
(***************************************************************************)
WaitersOK(p, ws) ==
  /\ \A i \in 1..Len(ws) : p[ws[i]] = "semWait"
  /\ \A i, j \in 1..Len(ws) : ws[i] = ws[j] => i = j

\* The jobs in a slot according to p.
Running(p) == {r \in Requests : p[r] = "running"}

\* Waking the first waiter keeps the queue consistent and starts no job.
LEMMA WakeKeeps ==
  ASSUME NEW p \in [Requests -> PCs], NEW ws \in Seq(Requests), WaitersOK(p, ws)
  PROVE  /\ Woken(p, ws) \in [Requests -> PCs]
         /\ Remaining(ws) \in Seq(Requests)
         /\ WaitersOK(Woken(p, ws), Remaining(ws))
         /\ Running(Woken(p, ws)) = Running(p)
<1>1. CASE ws = <<>>
  BY <1>1 DEF Woken, Remaining
<1>2. CASE ws # <<>>
  <2> DEFINE h == Head(ws)
             t == Tail(ws)
             q == [p EXCEPT ![h] = "semWoken"]
  <2>1. /\ h \in Requests /\ t \in Seq(Requests) /\ h = ws[1]
        /\ Len(ws) \in Nat /\ Len(ws) > 0
        /\ Len(t) = Len(ws) - 1
        /\ \A i \in 1..Len(t) : t[i] = ws[i + 1]
    BY <1>2
  <2>2. Woken(p, ws) = q /\ Remaining(ws) = t
    BY <1>2 DEF Woken, Remaining
  <2>3. p[h] = "semWait"
    BY <2>1 DEF WaitersOK
  <2>4. q \in [Requests -> PCs]
    BY <2>1 DEF PCs, JobPC
  <2>5. \A i \in 1..Len(t) : t[i] # h /\ t[i] \in Requests
    BY <2>1 DEF WaitersOK
  <2>6. WaitersOK(q, t)
    <3>1. \A i \in 1..Len(t) : q[t[i]] = "semWait"
      BY <2>1, <2>5 DEF WaitersOK
    <3>2. ASSUME NEW i \in 1..Len(t), NEW j \in 1..Len(t), t[i] = t[j]
          PROVE  i = j
      <4>1. i + 1 \in 1..Len(ws) /\ j + 1 \in 1..Len(ws) /\ ws[i + 1] = ws[j + 1]
        BY <2>1, <3>2
      <4>2. QED BY <4>1 DEF WaitersOK
    <3>3. QED BY <3>1, <3>2 DEF WaitersOK
  <2>7. Running(q) = Running(p)
    BY <2>1, <2>3 DEF Running
  <2>8. QED BY <2>1, <2>2, <2>4, <2>6, <2>7
<1>3. QED BY <1>1, <1>2

\* A job that is in no queue can change its pc without disturbing the queue.
LEMMA MoveKeeps ==
  ASSUME NEW p \in [Requests -> PCs], NEW ws \in Seq(Requests), WaitersOK(p, ws),
         NEW r \in Requests, p[r] # "semWait", NEW c \in PCs
  PROVE  /\ [p EXCEPT ![r] = c] \in [Requests -> PCs]
         /\ WaitersOK([p EXCEPT ![r] = c], ws)
BY DEF WaitersOK

-----------------------------------------------------------------------------
(***************************************************************************)
(* The inductive invariant.  The jobs in a slot are the units missing from *)
(* the semaphore and what _running counts; the gate is closed exactly      *)
(* while a switch is in progress, and then nobody holds a wake-up of it.   *)
(***************************************************************************)
SlotInv ==
  /\ running = Cardinality(InSlot)
  /\ value = IF Limited THEN max_running - running ELSE 0
  /\ WaitersOK(pc, waiters)

GateInv ==
  /\ gate <=> phase = "idle"
  /\ phase = "switchDrained" => running = 0
  /\ ~gate => \A r \in Requests : pc[r] # "gateWoken"
  /\ ~Limited => \A r \in Requests : pc[r] # "semWoken"

IInv == TypeOK /\ SlotInv /\ GateInv

\* A step of one request that stays outside the slot and its queue.
PlainMove(r, c) ==
  /\ pc[r] \notin {"running", "semWait"}
  /\ pc' = [pc EXCEPT ![r] = c]
  /\ UNCHANGED <<max_running, slotVars, syncVars>>

LEMMA PlainKeeps ==
  ASSUME IInv, NEW r \in Requests,
         NEW c \in PCs \ {"running", "semWait", "semWoken", "gateWoken"}, PlainMove(r, c)
  PROVE  pc' \in [Requests -> PCs] /\ SlotInv' /\ GateInv'
<1> USE DEF IInv, TypeOK, PlainMove, slotVars, syncVars
<1>1. pc' \in [Requests -> PCs]
  OBVIOUS
<1>2. InSlot' = InSlot
  BY DEF InSlot
<1>3. WaitersOK(pc', waiters)
  BY MoveKeeps DEF SlotInv
<1>4. SlotInv'
  BY <1>2, <1>3 DEF SlotInv, Limited
<1>5. GateInv'
  BY DEF GateInv, Limited
<1>6. QED BY <1>1, <1>4, <1>5

\* A step that only takes a job in or out of the slot through Acquire.
LEMMA AcquireKeeps ==
  ASSUME IInv, NEW r \in Requests, Acquire(r),
         pc[r] \in {"scheduled", "gateWoken", "semWoken"},
         pc[r] = "scheduled" => gate,
         UNCHANGED <<max_running, syncVars>>
  PROVE  /\ pc' \in [Requests -> PCs] /\ running' \in Nat
         /\ value' \in 0..max_running /\ waiters' \in Seq(Requests)
         /\ SlotInv' /\ GateInv'
<1> USE DEF IInv, TypeOK, syncVars
<1>0. /\ max_running \in Nat
      /\ IsFiniteSet(InSlot) /\ IsFiniteSet(InSlot')
      /\ r \notin InSlot
      /\ "running" \in PCs /\ "semWait" \in PCs /\ "gateWait" \in PCs
  <2>1. InSlot \in SUBSET Requests /\ InSlot' \in SUBSET Requests
    BY DEF InSlot
  <2>2. QED BY <2>1, SubsetsFinite, LimitsAssumption DEF InSlot, PCs, JobPC
<1>1. ASSUME Enter(r)
      PROVE  /\ InSlot' = InSlot \union {r} /\ running' = Cardinality(InSlot')
             /\ pc' \in [Requests -> PCs] /\ WaitersOK(pc', waiters)
  <2>1. pc' = [pc EXCEPT ![r] = "running"] /\ running' = running + 1
    BY <1>1 DEF Enter
  <2>2. InSlot' = InSlot \union {r}
    BY <2>1 DEF InSlot
  <2>3. Cardinality(InSlot') = Cardinality(InSlot) + 1
    BY <1>0, <2>2, CardGain
  <2>4. QED BY <1>0, <2>1, <2>2, <2>3, MoveKeeps DEF SlotInv
<1>2. CASE ~Limited /\ Enter(r) /\ UNCHANGED <<value, waiters>>
  <2>1. gate
    BY <1>2 DEF GateInv
  <2>2. SlotInv'
    BY <1>1, <1>2 DEF SlotInv, Limited
  <2>3. GateInv'
    BY <1>2, <2>1 DEF GateInv, Limited, Enter
  <2>4. QED BY <1>1, <1>2, <2>2, <2>3 DEF Enter
<1>3. CASE Limited /\ value > 0 /\ gate /\ Enter(r) /\ value' = value - 1 /\ UNCHANGED waiters
  <2>1. running' = running + 1 /\ value' = value - 1 /\ value = max_running - running
    BY <1>3 DEF Enter, SlotInv
  <2>2. value' = max_running' - running'
    BY <1>0, <2>1
  <2>3. WaitersOK(pc', waiters')
    BY <1>1, <1>3
  <2>4. SlotInv'
    BY <1>1, <1>3, <2>2, <2>3 DEF SlotInv, Limited
  <2>5. GateInv'
    BY <1>3 DEF GateInv, Limited, Enter
  <2>6. QED BY <1>0, <1>1, <1>3, <2>1, <2>4, <2>5
<1>4. CASE /\ Limited /\ value > 0 /\ ~gate
           /\ pc' = Woken([pc EXCEPT ![r] = "gateWait"], waiters)
           /\ waiters' = Remaining(waiters)
           /\ UNCHANGED <<running, value>>
  <2> DEFINE p == [pc EXCEPT ![r] = "gateWait"]
  <2>1. p \in [Requests -> PCs] /\ WaitersOK(p, waiters)
    BY <1>0, MoveKeeps DEF SlotInv
  <2>2. /\ pc' \in [Requests -> PCs] /\ waiters' \in Seq(Requests)
        /\ WaitersOK(pc', waiters') /\ Running(pc') = Running(p)
    BY <1>4, <2>1, WakeKeeps
  <2>3. InSlot' = InSlot
    BY <2>2 DEF InSlot, Running
  <2>4. SlotInv'
    BY <1>4, <2>2, <2>3 DEF SlotInv, Limited
  <2>5. \A s \in Requests : pc'[s] # "gateWoken"
    BY <1>4 DEF GateInv, Woken
  <2>6. GateInv'
    BY <1>4, <2>5 DEF GateInv, Limited
  <2>7. QED BY <1>4, <2>2, <2>4, <2>6
<1>5. CASE /\ Limited /\ value = 0
           /\ pc' = [pc EXCEPT ![r] = "semWait"]
           /\ waiters' = Append(waiters, r)
           /\ UNCHANGED <<running, value>>
  <2>1. InSlot' = InSlot
    BY <1>5 DEF InSlot
  <2>2. pc' \in [Requests -> PCs] /\ waiters' \in Seq(Requests)
    BY <1>0, <1>5
  <2>3. \A i \in 1..Len(waiters) : waiters[i] # r
    BY DEF SlotInv, WaitersOK
  <2>4. /\ Len(waiters') = Len(waiters) + 1 /\ Len(waiters) \in Nat
        /\ \A i \in 1..Len(waiters) : waiters'[i] = waiters[i] /\ waiters[i] \in Requests
        /\ waiters'[Len(waiters) + 1] = r
    BY <1>5
  <2>5. WaitersOK(pc', waiters')
    BY <1>5, <2>3, <2>4, SMTT(60) DEF SlotInv, WaitersOK
  <2>6. SlotInv'
    BY <1>5, <2>1, <2>5 DEF SlotInv, Limited
  <2>7. GateInv'
    BY <1>5 DEF GateInv, Limited
  <2>8. QED BY <1>5, <2>2, <2>6, <2>7
<1>6. QED BY <1>2, <1>3, <1>4, <1>5 DEF Acquire

-----------------------------------------------------------------------------

LEMMA InitInv == Init => IInv
<1> SUFFICES ASSUME Init PROVE IInv
  OBVIOUS
<1> USE DEF Init
<1>1. TypeOK
  BY LimitsAssumption, ModeAssumption
     DEF TypeOK, PCs, HandlerPC, Answers, Phases
<1>2. InSlot = {} /\ Cardinality({}) = 0
  BY FS_EmptySet DEF InSlot
<1>3. SlotInv
  BY <1>1, <1>2 DEF SlotInv, TypeOK, Limited, WaitersOK
<1>4. GateInv
  BY DEF GateInv
<1>5. QED BY <1>1, <1>3, <1>4 DEF IInv

\* Every step of a handler, and every step of release(), is a plain move.
LEMMA HandlerKeeps ==
  ASSUME IInv, NEW r \in Requests, Handler(r)
  PROVE  IInv'
<1> USE DEF IInv, TypeOK
<1>0. \A w \in stored : Replay(r, w) \in Answers
  BY DEF Replay, Answers
<1>1. CASE Precheck(r)
  <2>1. CASE pc' = [pc EXCEPT ![r] = "checked"] /\ UNCHANGED answer
    <3>1. PlainMove(r, "checked") /\ "checked" \in PCs
      BY <1>1, <2>1 DEF Precheck, PlainMove, PCs, HandlerPC
    <3>2. pc' \in [Requests -> PCs] /\ SlotInv' /\ GateInv'
      BY <3>1, PlainKeeps
    <3>3. QED BY <1>1, <2>1, <3>2 DEF Precheck, slotVars, syncVars
  <2>2. CASE \E w \in SameKey(r) :
               /\ pc' = [pc EXCEPT ![r] = "closed"]
               /\ answer' = [answer EXCEPT ![r] = Replay(r, w)]
    <3>1. PlainMove(r, "closed") /\ "closed" \in PCs
      BY <1>1, <2>2 DEF Precheck, PlainMove, PCs
    <3>2. pc' \in [Requests -> PCs] /\ SlotInv' /\ GateInv'
      BY <3>1, PlainKeeps
    <3>3. answer' \in [Requests -> Answers]
      BY <1>0, <2>2 DEF SameKey
    <3>4. QED BY <1>1, <3>2, <3>3 DEF Precheck, slotVars, syncVars
  <2>3. QED BY <1>1, <2>1, <2>2 DEF Precheck
<1>2. CASE Reject(r)
  <2>1. PlainMove(r, "closed") /\ "closed" \in PCs
    BY <1>2 DEF Reject, PlainMove, PCs
  <2>2. pc' \in [Requests -> PCs] /\ SlotInv' /\ GateInv'
    BY <2>1, PlainKeeps
  <2>3. QED BY <1>2, <2>2 DEF Reject, slotVars, syncVars, Answers
<1>3. CASE Admit(r)
  <2>1. PlainMove(r, "admitted") /\ "admitted" \in PCs
    BY <1>3 DEF Admit, PlainMove, PCs, HandlerPC
  <2>2. pc' \in [Requests -> PCs] /\ SlotInv' /\ GateInv'
    BY <2>1, PlainKeeps
  <2>3. QED BY <1>3, <2>2 DEF Admit, admitVars, slotVars, syncVars
<1>4. CASE AdmitTest(r)
  <2>1. PlainMove(r, "adding") /\ "adding" \in PCs
    BY <1>4 DEF AdmitTest, PlainMove, PCs, HandlerPC
  <2>2. pc' \in [Requests -> PCs] /\ SlotInv' /\ GateInv'
    BY <2>1, PlainKeeps
  <2>3. QED BY <1>4, <2>2 DEF AdmitTest, admitVars, slotVars, syncVars
<1>5. CASE AdmitRead(r)
  <2>1. PlainMove(r, "addWrite") /\ "addWrite" \in PCs
    BY <1>5 DEF AdmitRead, PlainMove, PCs, HandlerPC
  <2>2. pc' \in [Requests -> PCs] /\ SlotInv' /\ GateInv'
    BY <2>1, PlainKeeps
  <2>3. QED BY <1>5, <2>2 DEF AdmitRead, slotVars, syncVars
<1>6. CASE AdmitWrite(r)
  <2>1. PlainMove(r, "admitted") /\ "admitted" \in PCs
    BY <1>6 DEF AdmitWrite, PlainMove, PCs, HandlerPC
  <2>2. pc' \in [Requests -> PCs] /\ SlotInv' /\ GateInv'
    BY <2>1, PlainKeeps
  <2>3. QED BY <1>6, <2>2 DEF AdmitWrite, admitVars, slotVars, syncVars
<1>7. CASE Claim(r)
  <2>1. PlainMove(r, "scheduled") /\ "scheduled" \in PCs
    BY <1>7 DEF Claim, PlainMove, PCs, JobPC
  <2>2. pc' \in [Requests -> PCs] /\ SlotInv' /\ GateInv'
    BY <2>1, PlainKeeps
  <2>3. QED BY <1>7, <2>2 DEF Claim, slotVars, syncVars, Answers
<1>8. CASE ClaimLost(r)
  <2>1. PlainMove(r, "releasing") /\ "releasing" \in PCs
    BY <1>8 DEF ClaimLost, PlainMove, PCs, ReleasePC
  <2>2. pc' \in [Requests -> PCs] /\ SlotInv' /\ GateInv'
    BY <2>1, PlainKeeps
  <2>3. answer' \in [Requests -> Answers]
    BY <1>0, <1>8 DEF ClaimLost, SameKey
  <2>4. QED BY <1>8, <2>2, <2>3 DEF ClaimLost, slotVars, syncVars
<1>9. CASE CreateFails(r)
  <2>1. PlainMove(r, "releasing") /\ "releasing" \in PCs
    BY <1>9 DEF CreateFails, PlainMove, PCs, ReleasePC
  <2>2. pc' \in [Requests -> PCs] /\ SlotInv' /\ GateInv'
    BY <2>1, PlainKeeps
  <2>3. QED BY <1>9, <2>2 DEF CreateFails, slotVars, syncVars, Answers
<1>10. QED
  BY <1>1, <1>2, <1>3, <1>4, <1>5, <1>6, <1>7, <1>8, <1>9 DEF Handler

LEMMA GiveBackKeeps ==
  ASSUME IInv, NEW r \in Requests, GiveBack(r)
  PROVE  IInv'
<1> USE DEF IInv, TypeOK
<1>1. CASE Release(r) \/ ReleaseWrite(r)
  <2>1. PlainMove(r, "closed") /\ "closed" \in PCs
    BY <1>1 DEF Release, ReleaseWrite, Closed, PlainMove, PCs
  <2>2. pc' \in [Requests -> PCs] /\ SlotInv' /\ GateInv'
    BY <2>1, PlainKeeps
  <2>3. inflight' \in Int /\ loop' \in Requests \union {NoOne}
    BY <1>1 DEF Release, ReleaseWrite, Closed
  <2>4. QED
    BY <1>1, <2>2, <2>3 DEF Release, ReleaseWrite, admitVars, slotVars, syncVars
<1>2. CASE ReleaseTest(r)
  <2>1. PlainMove(r, "subRead") /\ "subRead" \in PCs
    BY <1>2 DEF ReleaseTest, PlainMove, PCs, ReleasePC
  <2>2. pc' \in [Requests -> PCs] /\ SlotInv' /\ GateInv'
    BY <2>1, PlainKeeps
  <2>3. QED BY <1>2, <2>2 DEF ReleaseTest, admitVars, slotVars, syncVars
<1>3. CASE ReleaseRead(r)
  <2>1. PlainMove(r, "subWrite") /\ "subWrite" \in PCs
    BY <1>3 DEF ReleaseRead, PlainMove, PCs, ReleasePC
  <2>2. pc' \in [Requests -> PCs] /\ SlotInv' /\ GateInv'
    BY <2>1, PlainKeeps
  <2>3. QED BY <1>3, <2>2 DEF ReleaseRead, slotVars, syncVars
<1>4. QED BY <1>1, <1>2, <1>3 DEF GiveBack

\* A job that arrives, is resumed or leaves its slot.
LEMMA JobKeeps ==
  ASSUME IInv, NEW r \in Requests, Job(r)
  PROVE  IInv'
<1> USE DEF IInv, TypeOK
<1>1. ASSUME /\ pc' \in [Requests -> PCs] /\ running' \in Nat
             /\ value' \in 0..max_running /\ waiters' \in Seq(Requests)
             /\ loop' \in Requests \union {NoOne}
             /\ SlotInv' /\ GateInv'
             /\ UNCHANGED <<max_running, admitVars, inflight, syncVars>>
      PROVE  IInv'
  BY <1>1 DEF admitVars, syncVars
<1>2. CASE Arrive(r) /\ ~gate
  <2>1. PlainMove(r, "gateWait") /\ "gateWait" \in PCs
    BY <1>2 DEF Arrive, PlainMove, PCs, JobPC
  <2>2. pc' \in [Requests -> PCs] /\ SlotInv' /\ GateInv'
    BY <2>1, PlainKeeps
  <2>3. UNCHANGED slotVars
    BY <1>2 DEF Arrive
  <2>4. QED BY <1>1, <1>2, <2>2, <2>3 DEF Arrive, slotVars
<1>3. CASE Arrive(r) /\ gate
  <2>1. Acquire(r) /\ pc[r] = "scheduled" /\ UNCHANGED <<max_running, syncVars>>
    BY <1>3 DEF Arrive
  <2>2. QED BY <1>1, <1>3, <2>1, AcquireKeeps DEF Arrive
<1>4. CASE Resume(r)
  <2>1. /\ Acquire(r) /\ pc[r] \in {"gateWoken", "semWoken"}
        /\ UNCHANGED <<max_running, syncVars>>
    BY <1>4 DEF Resume
  <2>2. QED BY <1>1, <1>4, <2>1, AcquireKeeps DEF Resume
<1>5. CASE Finish(r)
  <2> DEFINE p == [pc EXCEPT ![r] = "releasing"]
  <2>0. /\ max_running \in Nat
        /\ IsFiniteSet(InSlot) /\ Cardinality(InSlot) \in Nat
        /\ r \in InSlot /\ "releasing" \in PCs
        /\ UNCHANGED <<max_running, admitVars, inflight, syncVars>>
        /\ loop' \in Requests \union {NoOne}
        /\ running' = running - 1
    <3>1. InSlot \in SUBSET Requests
      BY DEF InSlot
    <3>2. QED
      BY <1>5, <3>1, SubsetsFinite, LimitsAssumption DEF Finish, InSlot, PCs, ReleasePC
  <2>1. p \in [Requests -> PCs] /\ WaitersOK(p, waiters)
    BY <1>5, <2>0, MoveKeeps DEF SlotInv, Finish
  <2>2. Running(p) = InSlot \ {r}
    BY DEF Running, InSlot
  <2>3. Cardinality(Running(p)) = running - 1 /\ running > 0
    <3>1. Cardinality(Running(p)) = Cardinality(InSlot) - 1
      BY <2>0, <2>2, CardLoss
    <3>2. Cardinality(Running(p)) \in Nat
      BY SubsetsFinite DEF Running
    <3>3. QED BY <2>0, <3>1, <3>2 DEF SlotInv
  <2>4. /\ pc' \in [Requests -> PCs] /\ waiters' \in Seq(Requests)
        /\ WaitersOK(pc', waiters') /\ Running(pc') = Running(p)
    <3>1. CASE Limited
      <4>1. pc' = Woken(p, waiters) /\ waiters' = Remaining(waiters)
        BY <1>5, <3>1 DEF Finish
      <4>2. QED BY <2>1, <4>1, WakeKeeps
    <3>2. CASE ~Limited
      BY <1>5, <2>1, <3>2 DEF Finish
    <3>3. QED BY <3>1, <3>2
  <2>5. InSlot' = Running(p)
    BY <2>4 DEF InSlot, Running
  <2>6. running' \in Nat /\ running' = Cardinality(InSlot')
    BY <2>0, <2>3, <2>5
  <2>7. /\ value' \in 0..max_running
        /\ value' = IF Limited THEN max_running - running' ELSE 0
    BY <1>5, <2>0, <2>3 DEF Finish, SlotInv, Limited
  <2>8. SlotInv'
    BY <2>0, <2>4, <2>6, <2>7 DEF SlotInv, Limited
  <2>9. phase # "switchDrained" /\ UNCHANGED <<gate, phase>>
    BY <2>0, <2>3 DEF GateInv, syncVars
  <2>10. /\ ~gate => \A s \in Requests : pc'[s] # "gateWoken"
         /\ ~Limited => \A s \in Requests : pc'[s] # "semWoken"
    BY <1>5 DEF GateInv, Finish, Woken
  <2>11. GateInv'
    BY <2>0, <2>9, <2>10 DEF GateInv, Limited
  <2>12. QED BY <1>1, <2>0, <2>4, <2>6, <2>7, <2>8, <2>11
<1>6. QED BY <1>2, <1>3, <1>4, <1>5 DEF Job

\* The steps of a switch move nobody into the slot; the last one wakes the gate.
LEMMA SyncerKeeps ==
  ASSUME IInv, Syncer
  PROVE  IInv'
<1> USE DEF IInv, TypeOK, admitVars, slotVars
<1>1. CASE BeginSwitch
  <2>0. switches' \in 0..MaxSwitches
    BY <1>1, ModeAssumption DEF BeginSwitch
  <2>1. TypeOK'
    BY <1>1, <2>0 DEF BeginSwitch, Phases
  <2>2. InSlot' = InSlot /\ SlotInv'
    BY <1>1 DEF BeginSwitch, InSlot, SlotInv, Limited
  <2>3. GateInv'
    BY <1>1 DEF BeginSwitch, GateInv, Limited
  <2>4. QED BY <2>1, <2>2, <2>3
<1>2. CASE DrainEnds
  <2>1. TypeOK'
    BY <1>2 DEF DrainEnds, Phases
  <2>2. InSlot' = InSlot /\ SlotInv'
    BY <1>2 DEF DrainEnds, InSlot, SlotInv, Limited
  <2>3. GateInv'
    BY <1>2 DEF DrainEnds, GateInv, Limited
  <2>4. QED BY <2>1, <2>2, <2>3
<1>3. CASE EndSwitch
  <2>1. pc' \in [Requests -> PCs]
    BY <1>3 DEF EndSwitch, PCs, JobPC
  <2>2. TypeOK'
    BY <1>3, <2>1 DEF EndSwitch, Phases
  <2>3. InSlot' = InSlot
    BY <1>3 DEF EndSwitch, InSlot
  <2>4. WaitersOK(pc', waiters)
    BY <1>3 DEF EndSwitch, SlotInv, WaitersOK
  <2>5. SlotInv'
    BY <1>3, <2>3, <2>4 DEF EndSwitch, SlotInv, Limited
  <2>6. GateInv'
    BY <1>3 DEF EndSwitch, GateInv, Limited
  <2>7. QED BY <2>2, <2>5, <2>6
<1>4. QED BY <1>1, <1>2, <1>3 DEF Syncer

LEMMA StutterKeeps == IInv /\ UNCHANGED vars => IInv'
BY DEF IInv, TypeOK, SlotInv, GateInv, InSlot, Limited, vars

LEMMA NextKeeps == IInv /\ [Next]_vars => IInv'
<1> SUFFICES ASSUME IInv, [Next]_vars PROVE IInv'
  OBVIOUS
<1>1. ASSUME NEW r \in Requests, Handler(r) \/ GiveBack(r) \/ Job(r) PROVE IInv'
  BY <1>1, HandlerKeeps, GiveBackKeeps, JobKeeps
<1>2. CASE Syncer
  BY <1>2, SyncerKeeps
<1>3. CASE Idle \/ UNCHANGED vars
  BY <1>3, StutterKeeps DEF Idle
<1>4. QED BY <1>1, <1>2, <1>3 DEF Next

\* The inductive invariant holds in every reachable state.
THEOREM Inductive == Spec => []IInv
BY InitInv, NextKeeps, PTL DEF Spec

\* The variables of JobAdmission keep their types; in particular the semaphore never
\* holds more units than max_concurrent_jobs, nor fewer than none.
THEOREM Types == Spec => []TypeOK
BY Inductive, PTL DEF IInv

\* At most max_concurrent_jobs jobs are in a slot (JobAdmission.slot).
THEOREM SlotsBounded == Spec => []SlotBound
<1>1. IInv => SlotBound
  <2> SUFFICES ASSUME IInv, Limited PROVE Cardinality(InSlot) <= max_running
    BY DEF SlotBound
  <2>1. running = Cardinality(InSlot) /\ value = max_running - running
    BY DEF IInv, SlotInv
  <2>2. max_running \in Nat /\ value \in 0..max_running /\ running \in Nat
    BY LimitsAssumption DEF IInv, TypeOK
  <2>3. QED BY <2>1, <2>2
<1>2. QED BY Inductive, <1>1, PTL

\* While a drained switch is in progress, no job is in a slot (wait_idle, slot).
THEOREM SwitchesAlone == Spec => []SwitchAlone
<1>1. IInv => SwitchAlone
  <2> SUFFICES ASSUME IInv, phase = "switchDrained" PROVE InSlot = {}
    BY DEF SwitchAlone
  <2>1. Cardinality(InSlot) = 0
    BY DEF IInv, SlotInv, GateInv
  <2>2. IsFiniteSet(InSlot)
    BY SubsetsFinite DEF InSlot
  <2>3. QED BY <2>1, <2>2, FS_EmptySet
<1>2. QED BY Inductive, <1>1, PTL

\* Requests with one Idempotency-Key create at most one job (claim_and_add).
THEOREM KeysUnique == Spec => []OneJobPerKey
<1>1. Init => OneJobPerKey
  BY DEF Init, OneJobPerKey
<1>2. OneJobPerKey /\ [Next]_vars => OneJobPerKey'
  <2> SUFFICES ASSUME OneJobPerKey, [Next]_vars PROVE OneJobPerKey'
    OBVIOUS
  <2>1. CASE \E r \in Requests : Claim(r)
    BY <2>1 DEF Claim, SameKey, OneJobPerKey
  <2>2. CASE ~\E r \in Requests : Claim(r)
    <3>1. UNCHANGED stored
      BY <2>2 DEF Next, vars, admitVars, Handler, GiveBack, Job, Syncer, Idle,
           Precheck, Reject, Admit, AdmitTest, AdmitRead, AdmitWrite, ClaimLost,
           CreateFails, Release, ReleaseTest, ReleaseRead, ReleaseWrite,
           Arrive, Resume, Finish, BeginSwitch, DrainEnds, EndSwitch
    <3>2. QED BY <3>1 DEF OneJobPerKey
  <2>3. QED BY <2>1, <2>2
<1>3. QED BY <1>1, <1>2, PTL DEF Spec

-----------------------------------------------------------------------------
(***************************************************************************)
(* The counter _inflight, where its updates are not interrupted.           *)
(***************************************************************************)
HoldingPC == JobPC \union ReleasePC \union {"admitted"}

CountInv ==
  /\ \A r \in Requests : pc[r] \notin {"adding", "addWrite", "subRead", "subWrite"}
  /\ inflight = Cardinality(Holding)
  /\ Limited => inflight <= Capacity

\* A step that moves no request in or out of HoldingPC and leaves the counter alone.
LEMMA HoldingKept ==
  ASSUME IInv, CountInv, UNCHANGED <<inflight, max_running>>,
         \A s \in Requests : pc'[s] \in HoldingPC <=> pc[s] \in HoldingPC,
         \A s \in Requests : pc'[s] \notin {"adding", "addWrite", "subRead", "subWrite"}
  PROVE  CountInv'
<1>1. Holding' = Holding
  BY DEF Holding, HoldingPC
<1>2. QED BY <1>1 DEF CountInv, Limited, Capacity

LEMMA InflightIsNat ==
  ASSUME IInv, CountInv
  PROVE  /\ IsFiniteSet(Holding) /\ inflight \in Nat /\ max_running \in Nat
         /\ Capacity \in Nat
<1>1. Holding \in SUBSET Requests
  BY DEF Holding
<1>2. QED
  BY <1>1, SubsetsFinite, LimitsAssumption DEF IInv, TypeOK, CountInv, Capacity

LEMMA HandlerCounts ==
  ASSUME ~Preemptible, IInv, CountInv, NEW r \in Requests, Handler(r)
  PROVE  CountInv'
<1> USE DEF IInv, TypeOK
<1>1. CASE Precheck(r) \/ Reject(r) \/ Claim(r) \/ ClaimLost(r) \/ CreateFails(r)
  BY <1>1, HoldingKept
     DEF Precheck, Reject, Claim, ClaimLost, CreateFails, HoldingPC, JobPC, ReleasePC, CountInv
<1>2. CASE Admit(r)
  <2>1. /\ inflight' = inflight + 1 /\ ~Full /\ pc[r] = "checked"
        /\ pc' = [pc EXCEPT ![r] = "admitted"] /\ max_running' = max_running
    BY <1>2 DEF Admit
  <2>2. Holding' = Holding \union {r} /\ r \notin Holding
    BY <2>1 DEF Holding, JobPC, ReleasePC
  <2>3. inflight' = Cardinality(Holding')
    BY <2>1, <2>2, InflightIsNat, CardGain DEF CountInv
  <2>4. Limited' => inflight' <= Capacity'
    BY <2>1, InflightIsNat DEF Full, Limited, Capacity
  <2>5. QED BY <2>1, <2>3, <2>4 DEF CountInv
<1>3. CASE AdmitTest(r) \/ AdmitRead(r) \/ AdmitWrite(r)
  BY <1>3 DEF AdmitTest, AdmitRead, AdmitWrite, CountInv
<1>4. QED BY <1>1, <1>2, <1>3 DEF Handler

\* Every admission is given back once: the request leaves HoldingPC as it decrements.
LEMMA GiveBackCounts ==
  ASSUME ~Preemptible, IInv, CountInv, NEW r \in Requests, GiveBack(r)
  PROVE  CountInv'
<1> USE DEF IInv, TypeOK
<1>1. CASE Release(r)
  <2>1. /\ pc[r] = "releasing" /\ pc' = [pc EXCEPT ![r] = "closed"]
        /\ inflight' = IF inflight > 0 THEN inflight - 1 ELSE inflight
        /\ max_running' = max_running
    BY <1>1 DEF Release, Closed
  <2>2. Holding' = Holding \ {r} /\ r \in Holding
    BY <2>1 DEF Holding, JobPC, ReleasePC
  <2>3. Cardinality(Holding') = Cardinality(Holding) - 1
    BY <2>2, InflightIsNat, CardLoss
  <2>4. Cardinality(Holding') \in Nat
    BY SubsetsFinite DEF Holding
  <2>5. inflight' = inflight - 1 /\ inflight' = Cardinality(Holding')
    BY <2>1, <2>3, <2>4, InflightIsNat DEF CountInv
  <2>6. Limited' => inflight' <= Capacity'
    BY <2>1, <2>5, InflightIsNat DEF CountInv, Limited, Capacity
  <2>7. QED BY <2>1, <2>5, <2>6 DEF CountInv
<1>2. CASE ReleaseTest(r) \/ ReleaseRead(r) \/ ReleaseWrite(r)
  BY <1>2 DEF ReleaseTest, ReleaseRead, ReleaseWrite, CountInv
<1>3. QED BY <1>1, <1>2 DEF GiveBack

\* On the event loop a job moves within HoldingPC, and so does the one it wakes.
LEMMA JobCounts ==
  ASSUME IInv, CountInv, NEW r \in Requests, Job(r)
  PROVE  CountInv'
<1> USE DEF IInv, TypeOK
<1>0. waiters # <<>> => /\ Head(waiters) \in Requests
                        /\ pc[Head(waiters)] = "semWait"
  BY DEF SlotInv, WaitersOK
<1>1. /\ pc[r] \in HoldingPC
      /\ UNCHANGED <<inflight, max_running>>
      /\ \E c \in JobPC \union {"releasing"} :
           \/ pc' = [pc EXCEPT ![r] = c]
           \/ pc' = Woken([pc EXCEPT ![r] = c], waiters)
  BY DEF Job, Arrive, Resume, Finish, Acquire, Enter, HoldingPC, JobPC
<1>2. PICK c \in JobPC \union {"releasing"} :
           \/ pc' = [pc EXCEPT ![r] = c]
           \/ pc' = Woken([pc EXCEPT ![r] = c], waiters)
  BY <1>1
<1>3. \A s \in Requests : /\ pc'[s] \in HoldingPC <=> pc[s] \in HoldingPC
                          /\ pc'[s] \notin {"adding", "addWrite", "subRead", "subWrite"}
  <2>1. CASE pc' = [pc EXCEPT ![r] = c]
    BY <1>1, <2>1 DEF HoldingPC, JobPC, ReleasePC, CountInv
  <2>2. CASE waiters # <<>> /\ pc' = [[pc EXCEPT ![r] = c] EXCEPT ![Head(waiters)] = "semWoken"]
    BY <1>0, <1>1, <2>2 DEF HoldingPC, JobPC, ReleasePC, CountInv
  <2>3. QED BY <1>2, <2>1, <2>2 DEF Woken
<1>4. QED BY <1>1, <1>3, HoldingKept

LEMMA NextCounts ==
  ~Preemptible /\ IInv /\ CountInv /\ [Next]_vars => CountInv'
<1> SUFFICES ASSUME ~Preemptible, IInv, CountInv, [Next]_vars PROVE CountInv'
  OBVIOUS
<1>1. ASSUME NEW r \in Requests, Handler(r) \/ GiveBack(r) \/ Job(r) PROVE CountInv'
  BY <1>1, HandlerCounts, GiveBackCounts, JobCounts
<1>2. CASE Syncer \/ Idle \/ UNCHANGED vars
  BY <1>2, HoldingKept
     DEF Syncer, BeginSwitch, DrainEnds, EndSwitch, Idle, vars, IInv, TypeOK,
         HoldingPC, JobPC, ReleasePC, CountInv
<1>3. QED BY <1>1, <1>2 DEF Next

\* Where an update of _inflight is not interrupted, the counter and the jobs it stands
\* for never part, and the jobs taken in stay within the coordinator's capacity.
THEOREM CountsExactly == ~Preemptible /\ Spec => []CountInv
<1>1. Init => CountInv
  <2> SUFFICES ASSUME Init PROVE CountInv
    OBVIOUS
  <2>1. Holding = {} /\ Cardinality({}) = 0
    BY FS_EmptySet DEF Init, Holding, JobPC, ReleasePC
  <2>2. max_running \in Nat /\ Capacity \in Nat
    BY LimitsAssumption DEF Init, Capacity
  <2>3. QED BY <2>1, <2>2 DEF Init, CountInv
<1>2. CASE ~Preemptible
  BY <1>1, <1>2, NextCounts, Inductive, PTL DEF Spec
<1>3. QED BY <1>2

\* The counter equals the number of requests that own an admission (release once,
\* and only once, on every way out of the handlers and of run()).
THEOREM InflightIsExact == ~Preemptible /\ Spec => []InflightExact
<1>1. CountInv => InflightExact
  BY DEF CountInv, InflightExact
<1>2. QED BY CountsExactly, <1>1, PTL

\* No more jobs are taken in than max_concurrent_jobs + max_pending_jobs (try_admit).
THEOREM CapacityHolds == ~Preemptible /\ Spec => []CapacityBound
<1>1. CountInv => CapacityBound
  BY DEF CountInv, CapacityBound
<1>2. QED BY CountsExactly, <1>1, PTL

\* Without interrupted updates nothing stays counted when nothing is in progress any
\* more: the "exactly 1, no leak" of run() holds where the counter is updated whole.
THEOREM NothingIsLeaked == ~Preemptible /\ Spec => []NothingLeaks
<1>1. CountInv => NothingLeaks
  <2> SUFFICES ASSUME CountInv, Done PROVE inflight = 0
    BY DEF NothingLeaks
  <2>1. Holding = {}
    BY DEF Done, Holding, JobPC, ReleasePC
  <2>2. QED BY <2>1, FS_EmptySet DEF CountInv
<1>2. QED BY CountsExactly, <1>1, PTL

-----------------------------------------------------------------------------
(***************************************************************************)
(* The wake-ups.  Whenever somebody is queued at the semaphore, as many    *)
(* jobs have been woken as it has units: a unit that a woken job finds     *)
(* taken, or hands on because the gate is closed, is still owed to the     *)
(* queue.  NoneStranded alone is not inductive: it does not say that the   *)
(* queue knows everybody who waits, nor how many have been woken.          *)
(***************************************************************************)
WokenIn(p)  == {r \in Requests : p[r] = "semWoken"}
Queued(ws)  == {ws[i] : i \in 1..Len(ws)}

WaitInv ==
  /\ \A r \in Requests : pc[r] = "semWait" => r \in Queued(waiters)
  /\ waiters # <<>> => Cardinality(SemWoken) >= value
  /\ \A r \in Requests : pc[r] = "gateWait" => ~gate

\* Waking the first waiter takes it from the queue, and counts as one wake-up.
LEMMA WakeCounts ==
  ASSUME NEW p \in [Requests -> PCs], NEW ws \in Seq(Requests), WaitersOK(p, ws), ws # <<>>
  PROVE  /\ Cardinality(WokenIn(Woken(p, ws))) = Cardinality(WokenIn(p)) + 1
         /\ \A s \in Requests :
              Woken(p, ws)[s] = "semWait" => s # Head(ws) /\ p[s] = "semWait"
         /\ \A s \in Queued(ws) : s # Head(ws) => s \in Queued(Remaining(ws))
         /\ \A s \in Requests : Woken(p, ws)[s] = "gateWait" => p[s] = "gateWait"
<1> DEFINE h == Head(ws)
<1>1. /\ h \in Requests /\ h = ws[1] /\ p[h] = "semWait"
      /\ Woken(p, ws) = [p EXCEPT ![h] = "semWoken"]
      /\ Remaining(ws) = Tail(ws)
  BY DEF Woken, Remaining, WaitersOK
<1>2. WokenIn(Woken(p, ws)) = WokenIn(p) \union {h} /\ h \notin WokenIn(p)
  BY <1>1 DEF WokenIn
<1>3. IsFiniteSet(WokenIn(p))
  BY SubsetsFinite DEF WokenIn
<1>4. Cardinality(WokenIn(Woken(p, ws))) = Cardinality(WokenIn(p)) + 1
  BY <1>2, <1>3, CardGain
<1>5. ASSUME NEW s \in Queued(ws), s # h PROVE s \in Queued(Tail(ws))
  <2>1. PICK i \in 1..Len(ws) : s = ws[i]
    BY DEF Queued
  <2>2. i # 1 /\ i - 1 \in 1..Len(Tail(ws)) /\ Tail(ws)[i - 1] = ws[i]
    BY <1>1, <1>5, <2>1
  <2>3. QED BY <2>1, <2>2 DEF Queued
<1>6. QED BY <1>1, <1>4, <1>5

\* A step outside the waits of the slot.
LEMMA OutsideKeepsWaits ==
  ASSUME IInv, WaitInv, NEW r \in Requests,
         NEW c \in PCs \ {"semWait", "semWoken", "gateWait"},
         pc[r] # "semWoken", pc' = [pc EXCEPT ![r] = c],
         UNCHANGED <<max_running, slotVars, syncVars>>
  PROVE  WaitInv'
<1>1. SemWoken' = SemWoken
  BY DEF IInv, TypeOK, SemWoken
<1>2. QED BY <1>1 DEF IInv, TypeOK, WaitInv, slotVars, syncVars

LEMMA HandlerKeepsWaits ==
  ASSUME IInv, WaitInv, NEW r \in Requests, Handler(r) \/ GiveBack(r)
  PROVE  WaitInv'
<1>1. /\ UNCHANGED <<max_running, slotVars, syncVars>>
      /\ pc[r] # "semWoken"
      /\ \E c \in {"checked", "closed", "adding", "addWrite", "admitted", "scheduled",
                   "releasing", "subRead", "subWrite"} : pc' = [pc EXCEPT ![r] = c]
  BY DEF Handler, GiveBack, Precheck, Reject, Admit, AdmitTest, AdmitRead, AdmitWrite,
         Claim, ClaimLost, CreateFails, Release, ReleaseTest, ReleaseRead, ReleaseWrite, Closed
<1>2. {"checked", "closed", "adding", "addWrite", "admitted", "scheduled", "releasing",
       "subRead", "subWrite"} \subseteq PCs \ {"semWait", "semWoken", "gateWait"}
  BY DEF PCs, HandlerPC, JobPC, ReleasePC
<1>3. QED BY <1>1, <1>2, OutsideKeepsWaits

\* The first waiter is woken as the job r goes to c and hands k units on.
LEMMA HandOnKeepsWaits ==
  ASSUME IInv, WaitInv, NEW r \in Requests, NEW c \in PCs \ {"semWait", "semWoken"},
         pc[r] # "semWait",
         pc[r] = "semWoken" => value' = value, pc[r] # "semWoken" => value' <= value + 1,
         c = "gateWait" => ~gate,
         value' \in Nat, gate' = gate,
         pc' = Woken([pc EXCEPT ![r] = c], waiters), waiters' = Remaining(waiters)
  PROVE  WaitInv'
<1> DEFINE p == [pc EXCEPT ![r] = c]
<1>1. /\ p \in [Requests -> PCs] /\ WaitersOK(p, waiters)
      /\ waiters \in Seq(Requests) /\ value \in Nat
  <2>1. /\ pc \in [Requests -> PCs] /\ waiters \in Seq(Requests)
        /\ WaitersOK(pc, waiters) /\ value \in Nat
    BY LimitsAssumption DEF IInv, TypeOK, SlotInv
  <2>2. QED BY <2>1, MoveKeeps
<1>2. WokenIn(p) = SemWoken \ {r} /\ WokenIn(pc') = SemWoken'
  BY DEF IInv, TypeOK, WokenIn, SemWoken
<1>3. IsFiniteSet(SemWoken) /\ Cardinality(SemWoken) \in Nat /\ Cardinality(WokenIn(p)) \in Nat
  BY SubsetsFinite DEF SemWoken, WokenIn
<1>4. CASE waiters = <<>>
  <2>1. pc' = p /\ waiters' = <<>> /\ Queued(<<>>) = {}
    BY <1>4 DEF Woken, Remaining, Queued
  <2>2. \A s \in Requests : pc[s] # "semWait"
    BY <1>4, <2>1 DEF WaitInv
  <2>3. QED BY <2>1, <2>2 DEF WaitInv, IInv, TypeOK
<1>5. CASE waiters # <<>>
  <2>0. pc' = Woken(p, waiters) /\ waiters' = Remaining(waiters)
    OBVIOUS
  <2> HIDE DEF p
  <2>1. /\ Cardinality(WokenIn(pc')) = Cardinality(WokenIn(p)) + 1
        /\ \A s \in Requests : pc'[s] = "semWait" => s # Head(waiters) /\ p[s] = "semWait"
        /\ \A s \in Queued(waiters) : s # Head(waiters) => s \in Queued(waiters')
        /\ \A s \in Requests : pc'[s] = "gateWait" => p[s] = "gateWait"
    BY ONLY <1>1, <1>5, <2>0, WakeCounts
  <2>2. Cardinality(SemWoken) >= value
    BY <1>5 DEF WaitInv
  <2>3. Cardinality(SemWoken') >= value'
    <3>1. CASE pc[r] = "semWoken"
      <4>1. r \in SemWoken
        BY <3>1 DEF SemWoken
      <4>2. Cardinality(WokenIn(p)) = Cardinality(SemWoken) - 1
        BY <1>2, <1>3, <4>1, CardLoss
      <4>3. QED BY <1>1, <1>2, <1>3, <2>1, <2>2, <3>1, <4>2
    <3>2. CASE pc[r] # "semWoken"
      <4>1. WokenIn(p) = SemWoken
        BY <1>2, <3>2 DEF SemWoken
      <4>2. Cardinality(SemWoken') = Cardinality(SemWoken) + 1
        BY <1>2, <2>1, <4>1
      <4>3. value' <= value + 1 /\ value' \in Nat
        BY <3>2
      <4>4. QED BY <1>1, <1>3, <2>2, <4>2, <4>3
    <3>3. QED BY <3>1, <3>2
  <2>4. \A s \in Requests : pc'[s] = "semWait" => s \in Queued(waiters')
    BY <2>1 DEF p, WaitInv, IInv, TypeOK
  <2>5. \A s \in Requests : pc'[s] = "gateWait" => ~gate'
    BY <2>1 DEF p, WaitInv, IInv, TypeOK
  <2>6. QED BY <2>3, <2>4, <2>5 DEF WaitInv
<1>6. QED BY <1>4, <1>5

\* A job that tries the semaphore uses up one wake-up at most, and the unit with it.
LEMMA AcquireKeepsWaits ==
  ASSUME IInv, WaitInv, NEW r \in Requests, Acquire(r),
         pc[r] \in {"scheduled", "gateWoken", "semWoken"},
         UNCHANGED <<max_running, syncVars>>
  PROVE  WaitInv'
<1> USE DEF IInv, TypeOK
<1>0. /\ max_running \in Nat /\ value \in Nat /\ gate' = gate
      /\ IsFiniteSet(SemWoken) /\ Cardinality(SemWoken) \in Nat
      /\ Cardinality(SemWoken') \in Nat
      /\ {"gateWait", "running", "semWait"} \subseteq PCs
  BY SubsetsFinite, LimitsAssumption DEF SemWoken, syncVars, PCs, JobPC
<1>1. CASE Enter(r) /\ (Limited => value > 0 /\ value' = value - 1)
           /\ (~Limited => value' = value) /\ UNCHANGED waiters
  <2>1. pc' = [pc EXCEPT ![r] = "running"]
    BY <1>1 DEF Enter
  <2>2. SemWoken' = SemWoken \ {r}
    BY <2>1 DEF SemWoken
  <2>3. Cardinality(SemWoken') >= Cardinality(SemWoken) - 1
    <3>1. CASE r \in SemWoken
      <4>1. Cardinality(SemWoken') = Cardinality(SemWoken) - 1
        BY <1>0, <2>2, <3>1, CardLoss
      <4>2. QED BY <1>0, <4>1
    <3>2. CASE r \notin SemWoken
      <4>1. SemWoken' = SemWoken
        BY <2>2, <3>2
      <4>2. QED BY <1>0, <4>1
    <3>3. QED BY <3>1, <3>2
  <2>4. value' = value - 1 \/ value' = 0
    BY <1>1 DEF SlotInv
  <2>5. waiters' # <<>> => Cardinality(SemWoken') >= value'
    BY <1>0, <1>1, <2>3, <2>4 DEF WaitInv
  <2>6. QED BY <1>0, <1>1, <2>1, <2>5 DEF WaitInv
<1>2. CASE /\ Limited /\ value > 0 /\ ~gate
           /\ pc' = Woken([pc EXCEPT ![r] = "gateWait"], waiters)
           /\ waiters' = Remaining(waiters)
           /\ UNCHANGED <<running, value>>
  <2>1. /\ pc[r] # "semWait" /\ value' \in Nat /\ value' <= value + 1
        /\ value' = value /\ ~gate
        /\ "gateWait" \in PCs \ {"semWait", "semWoken"}
    BY <1>0, <1>2
  <2>2. QED BY <1>0, <1>2, <2>1, HandOnKeepsWaits
<1>3. CASE /\ Limited /\ value = 0
           /\ pc' = [pc EXCEPT ![r] = "semWait"]
           /\ waiters' = Append(waiters, r)
           /\ UNCHANGED <<running, value>>
  <2>1. /\ waiters'[Len(waiters) + 1] = r /\ Len(waiters) \in Nat
        /\ Len(waiters') = Len(waiters) + 1
        /\ \A i \in 1..Len(waiters) : waiters'[i] = waiters[i]
    BY <1>3
  <2>2. Queued(waiters) \union {r} \subseteq Queued(waiters')
    <3>1. ASSUME NEW i \in 1..Len(waiters) PROVE waiters[i] \in Queued(waiters')
      <4>1. i \in 1..Len(waiters') /\ waiters'[i] = waiters[i]
        BY <2>1
      <4>2. QED BY <4>1 DEF Queued
    <3>2. r \in Queued(waiters')
      <4>1. Len(waiters) + 1 \in 1..Len(waiters')
        BY <2>1
      <4>2. QED BY <2>1, <4>1 DEF Queued
    <3>3. QED BY <3>1, <3>2 DEF Queued
  <2>3. \A s \in Requests : pc'[s] = "semWait" => s \in Queued(waiters')
    BY <1>3, <2>2 DEF WaitInv
  <2>4. QED BY <1>0, <1>3, <2>3 DEF WaitInv
<1>4. QED BY <1>1, <1>2, <1>3 DEF Acquire

LEMMA JobKeepsWaits ==
  ASSUME IInv, WaitInv, NEW r \in Requests, Job(r)
  PROVE  WaitInv'
<1> USE DEF IInv, TypeOK
<1>1. CASE Arrive(r) /\ gate
  BY <1>1, AcquireKeepsWaits DEF Arrive
<1>2. CASE Resume(r)
  BY <1>2, AcquireKeepsWaits DEF Resume
<1>3. CASE Arrive(r) /\ ~gate
  <2>1. pc' = [pc EXCEPT ![r] = "gateWait"] /\ pc[r] = "scheduled"
        /\ UNCHANGED <<max_running, slotVars, syncVars>>
    BY <1>3 DEF Arrive
  <2>2. SemWoken' = SemWoken
    BY <2>1 DEF SemWoken
  <2>3. QED BY <1>3, <2>1, <2>2 DEF WaitInv, slotVars, syncVars
<1>4. CASE Finish(r)
  <2>1. pc[r] = "running" /\ UNCHANGED <<max_running, syncVars>>
        /\ "releasing" \in PCs \ {"semWait", "semWoken", "gateWait"}
    BY <1>4 DEF Finish, PCs, ReleasePC
  <2>2. CASE Limited
    <3>1. value' = value + 1 /\ value \in Nat /\ gate' = gate
      BY <1>4, <2>1, <2>2, LimitsAssumption DEF Finish, syncVars
    <3>2. pc' = Woken([pc EXCEPT ![r] = "releasing"], waiters) /\ waiters' = Remaining(waiters)
      BY <1>4, <2>2 DEF Finish
    <3>3. value' \in Nat /\ value' <= value + 1 /\ pc[r] # "semWait" /\ pc[r] # "semWoken"
      BY <2>1, <3>1
    <3>4. QED BY <2>1, <3>1, <3>2, <3>3, HandOnKeepsWaits
  <2>3. CASE ~Limited
    <3>1. pc' = [pc EXCEPT ![r] = "releasing"] /\ UNCHANGED <<value, waiters>> /\ gate' = gate
      BY <1>4, <2>1, <2>3 DEF Finish, syncVars
    <3>2. SemWoken' = SemWoken
      BY <2>1, <3>1 DEF SemWoken
    <3>3. QED BY <2>1, <3>1, <3>2 DEF WaitInv
  <2>4. QED BY <2>2, <2>3
<1>5. QED BY <1>1, <1>2, <1>3, <1>4 DEF Job

\* A switch leaves the queue alone, and its end leaves nobody at the gate.
LEMMA SyncerKeepsWaits ==
  ASSUME IInv, WaitInv, Syncer \/ UNCHANGED vars
  PROVE  WaitInv'
<1> USE DEF IInv, TypeOK, slotVars
<1>1. CASE BeginSwitch \/ DrainEnds \/ UNCHANGED vars
  <2>1. UNCHANGED <<pc, waiters, value>> /\ (~gate => ~gate')
    BY <1>1 DEF BeginSwitch, DrainEnds, vars
  <2>2. QED BY <2>1 DEF WaitInv, SemWoken
<1>2. CASE EndSwitch
  <2>1. /\ UNCHANGED <<waiters, value>>
        /\ pc' = [r \in Requests |-> IF pc[r] = "gateWait" THEN "gateWoken" ELSE pc[r]]
    BY <1>2 DEF EndSwitch
  <2>2. SemWoken' = SemWoken
    BY <2>1 DEF SemWoken
  <2>3. QED BY <2>1, <2>2 DEF WaitInv
<1>3. QED BY <1>1, <1>2 DEF Syncer

LEMMA NextKeepsWaits == IInv /\ WaitInv /\ [Next]_vars => WaitInv'
<1> SUFFICES ASSUME IInv, WaitInv, [Next]_vars PROVE WaitInv'
  OBVIOUS
<1>1. ASSUME NEW r \in Requests, Handler(r) \/ GiveBack(r) \/ Job(r) PROVE WaitInv'
  BY <1>1, HandlerKeepsWaits, JobKeepsWaits
<1>2. CASE Syncer \/ Idle \/ UNCHANGED vars
  BY <1>2, SyncerKeepsWaits DEF Idle
<1>3. QED BY <1>1, <1>2 DEF Next

\* No wake-up of the semaphore or of the gate is lost: a free slot is never left to a
\* queue of sleeping jobs, and no job sleeps at an open gate (slot, resume).
THEOREM NobodyStranded == Spec => []NoneStranded
<1>1. Init => WaitInv
  BY DEF Init, WaitInv
<1>2. IInv /\ WaitInv => NoneStranded
  <2> SUFFICES ASSUME IInv, WaitInv PROVE NoneStranded
    OBVIOUS
  <2>1. ASSUME NEW r \in Requests, pc[r] = "semWait"
        PROVE  Cardinality(InSlot \union SemWoken) >= max_running
    <3>1. waiters # <<>>
      BY <2>1 DEF WaitInv, Queued
    <3>2. Cardinality(SemWoken) >= value
      BY <3>1 DEF WaitInv
    <3>3. /\ IsFiniteSet(InSlot) /\ IsFiniteSet(SemWoken)
          /\ Cardinality(InSlot) \in Nat /\ Cardinality(SemWoken) \in Nat
          /\ InSlot \intersect SemWoken = {}
      BY SubsetsFinite DEF InSlot, SemWoken
    <3>4. Cardinality(InSlot \union SemWoken) = Cardinality(InSlot) + Cardinality(SemWoken)
      <4>1. /\ Cardinality(InSlot \union SemWoken)
                 = Cardinality(InSlot) + Cardinality(SemWoken)
                     - Cardinality(InSlot \intersect SemWoken)
        BY <3>3, FS_Union
      <4>2. Cardinality(InSlot \intersect SemWoken) = 0
        BY <3>3, FS_EmptySet
      <4>3. QED BY <3>3, <4>1, <4>2
    <3>5. max_running \in Nat /\ running \in Nat /\ value \in Nat
          /\ (~Limited => max_running = 0)
      BY LimitsAssumption DEF IInv, TypeOK, Limited
    <3>6. QED BY <3>2, <3>3, <3>4, <3>5 DEF IInv, SlotInv
  <2>2. ASSUME NEW r \in Requests, pc[r] = "gateWait" PROVE phase # "idle"
    BY <2>2 DEF IInv, GateInv, WaitInv
  <2>3. QED BY <2>1, <2>2 DEF NoneStranded
<1>3. QED BY <1>1, <1>2, Inductive, NextKeepsWaits, PTL DEF Spec

-----------------------------------------------------------------------------
(***************************************************************************)
(* Admission implements JobPromise: a step of a handler answers a request, *)
(* a step on the event loop starts or ends one job at most, and all the    *)
(* rest cannot be seen.  It takes one more invariant: who has a job.       *)
(***************************************************************************)
AnswerInv ==
  \A r \in Requests : /\ r \in stored <=> answer[r] = "accepted"
                      /\ pc[r] \in JobPC => r \in stored
                      /\ pc[r] \in HandlerPC => answer[r] = "none"

LeftPC == ReleasePC \union {"closed"}

\* JobPromise counts as Admission does.
LEMMA CardinalityIsOne ==
  ASSUME NEW S
  PROVE  Promise!Cardinality(S) = Cardinality(S)
BY DEF Promise!Cardinality, Cardinality

\* What JobPromise sees of a step of one request outside the slot.
LEMMA SeenOfAnswer ==
  ASSUME IInv, AnswerInv, NEW r \in Requests, NEW c \in PCs, c # "running", pc[r] # "running",
         pc' = [pc EXCEPT ![r] = c],
         stored' \in {stored, stored \union {r}},
         r \in stored' => (c \in LeftPC <=> (pc[r] \in LeftPC /\ r \in stored))
  PROVE  InSlot' = InSlot /\ Left' = Left
BY DEF IInv, TypeOK, InSlot, Left, LeftPC

LEMMA TwinsAreSameKey ==
  ASSUME NEW r \in Requests
  PROVE  Promise!Twins(r) = SameKey(r)
BY DEF Promise!Twins, SameKey

LEMMA HandlerIsPromised ==
  ASSUME IInv, AnswerInv, NEW r \in Requests, Handler(r)
  PROVE  AnswerInv' /\ [Promise!PNext]_(Promise!pvars)
<1> USE DEF IInv, TypeOK
<1>0. /\ {"checked", "closed", "adding", "addWrite", "admitted", "scheduled", "releasing"}
           \subseteq PCs
      /\ {"none", "accepted", "replayed", "conflict", "rejected", "error"} \subseteq Answers
  BY DEF PCs, HandlerPC, JobPC, ReleasePC, Answers
<1>1. answer[r] = "none" /\ r \notin stored /\ pc[r] \in HandlerPC
  BY DEF AnswerInv, Handler, Precheck, Reject, Admit, AdmitTest, AdmitRead, AdmitWrite,
         Claim, ClaimLost, CreateFails, HandlerPC
<1>2. ASSUME NEW c \in {"checked", "adding", "addWrite", "admitted"},
             pc' = [pc EXCEPT ![r] = c], UNCHANGED <<max_running, answer, stored, phase>>
      PROVE  AnswerInv' /\ [Promise!PNext]_(Promise!pvars)
  <2>1. AnswerInv'
    BY <1>1, <1>2 DEF AnswerInv, JobPC, HandlerPC
  <2>2. InSlot' = InSlot /\ Left' = Left
    BY <1>0, <1>1, <1>2, SeenOfAnswer DEF HandlerPC
  <2>3. QED BY <1>2, <2>1, <2>2 DEF Promise!pvars
<1>3. ASSUME NEW a \in {"rejected", "error", "replayed", "conflict"},
             NEW c \in {"closed", "releasing"},
             a = "replayed" => \E w \in SameKey(r) : Body[w] = Body[r],
             a = "conflict" => \E w \in SameKey(r) : Body[w] # Body[r],
             pc' = [pc EXCEPT ![r] = c], answer' = [answer EXCEPT ![r] = a],
             UNCHANGED <<max_running, stored, phase>>
      PROVE  AnswerInv' /\ [Promise!PNext]_(Promise!pvars)
  <2>1. AnswerInv'
    BY <1>1, <1>3 DEF AnswerInv, JobPC, HandlerPC
  <2>2. InSlot' = InSlot /\ Left' = Left
    BY <1>0, <1>1, <1>3, SeenOfAnswer DEF HandlerPC
  <2>3. Promise!Refuse(r)
    BY <1>1, <1>3, <2>2, TwinsAreSameKey DEF Promise!Refuse
  <2>4. QED BY <2>1, <2>3 DEF Promise!PNext
<1>4. ASSUME NEW w \in SameKey(r)
      PROVE  /\ Replay(r, w) \in {"replayed", "conflict"}
             /\ Replay(r, w) = "replayed" => Body[w] = Body[r]
             /\ Replay(r, w) = "conflict" => Body[w] # Body[r]
  BY DEF Replay
<1>5. CASE Precheck(r)
  <2>1. CASE pc' = [pc EXCEPT ![r] = "checked"] /\ UNCHANGED answer
    BY <1>2, <1>5, <2>1 DEF Precheck, syncVars
  <2>2. CASE \E w \in SameKey(r) : /\ pc' = [pc EXCEPT ![r] = "closed"]
                                   /\ answer' = [answer EXCEPT ![r] = Replay(r, w)]
    BY <1>3, <1>4, <1>5, <2>2 DEF Precheck, syncVars
  <2>3. QED BY <1>5, <2>1, <2>2 DEF Precheck
<1>6. CASE Reject(r)
  BY <1>3, <1>6 DEF Reject, syncVars
<1>7. CASE Admit(r) \/ AdmitTest(r) \/ AdmitRead(r) \/ AdmitWrite(r)
  BY <1>2, <1>7 DEF Admit, AdmitTest, AdmitRead, AdmitWrite, admitVars, syncVars
<1>8. CASE Claim(r)
  <2>1. /\ pc' = [pc EXCEPT ![r] = "scheduled"] /\ answer' = [answer EXCEPT ![r] = "accepted"]
        /\ stored' = stored \union {r} /\ SameKey(r) = {} /\ UNCHANGED <<max_running, phase>>
    BY <1>8 DEF Claim, syncVars
  <2>2. AnswerInv'
    BY <1>1, <2>1 DEF AnswerInv, JobPC, HandlerPC
  <2>3. InSlot' = InSlot /\ Left' = Left
    BY <1>0, <1>1, <2>1, SeenOfAnswer DEF HandlerPC, LeftPC, ReleasePC
  <2>4. Promise!Accept(r)
    BY <1>1, <2>1, <2>3, TwinsAreSameKey DEF Promise!Accept
  <2>5. QED BY <2>2, <2>4 DEF Promise!PNext
<1>9. CASE ClaimLost(r)
  BY <1>3, <1>4, <1>9 DEF ClaimLost, syncVars
<1>10. CASE CreateFails(r)
  BY <1>3, <1>10 DEF CreateFails, syncVars
<1>11. QED
  BY <1>5, <1>6, <1>7, <1>8, <1>9, <1>10 DEF Handler

LEMMA GiveBackIsUnseen ==
  ASSUME IInv, AnswerInv, NEW r \in Requests, GiveBack(r)
  PROVE  AnswerInv' /\ [Promise!PNext]_(Promise!pvars)
<1> USE DEF IInv, TypeOK
<1>1. /\ pc[r] \in ReleasePC
      /\ UNCHANGED <<max_running, answer, stored, phase>>
      /\ \E c \in {"closed", "subRead", "subWrite"} : pc' = [pc EXCEPT ![r] = c]
  BY DEF GiveBack, Release, ReleaseTest, ReleaseRead, ReleaseWrite, Closed, ReleasePC,
         admitVars, syncVars
<1>2. PICK c \in {"closed", "subRead", "subWrite"} : pc' = [pc EXCEPT ![r] = c]
  BY <1>1
<1>3. AnswerInv'
  BY <1>1, <1>2 DEF AnswerInv, JobPC, HandlerPC
<1>4. InSlot' = InSlot /\ Left' = Left
  BY <1>1, <1>2, SeenOfAnswer DEF ReleasePC, LeftPC, PCs
<1>5. QED BY <1>1, <1>3, <1>4 DEF Promise!pvars

\* The other jobs may be woken by the step, which changes neither where they run nor
\* whether they have left.
LEMMA JobMoves ==
  ASSUME IInv, AnswerInv, NEW r \in Requests, pc[r] \in JobPC,
         NEW c \in JobPC \union {"releasing"},
         pc' = [pc EXCEPT ![r] = c] \/ pc' = Woken([pc EXCEPT ![r] = c], waiters),
         UNCHANGED <<answer, stored>>
  PROVE  /\ AnswerInv'
         /\ pc[r] # "running" /\ c = "running" => InSlot' = InSlot \union {r} /\ Left' = Left
         /\ pc[r] # "running" /\ c \in JobPC \ {"running"} => InSlot' = InSlot /\ Left' = Left
         /\ c = "releasing" => InSlot' = InSlot \ {r} /\ Left' = Left \union {r}
<1> USE DEF IInv, TypeOK
<1>1. /\ pc'[r] = c \/ (c = "semWait" /\ pc'[r] = "semWoken")
      /\ \A s \in Requests : s # r => \/ pc'[s] = pc[s]
                                      \/ pc[s] = "semWait" /\ pc'[s] = "semWoken"
      /\ DOMAIN pc' = Requests
  <2>1. CASE pc' = [pc EXCEPT ![r] = c]
    BY <2>1
  <2>2. CASE pc' = Woken([pc EXCEPT ![r] = c], waiters)
    <3>1. waiters # <<>> => Head(waiters) \in Requests /\ pc[Head(waiters)] = "semWait"
      BY DEF SlotInv, WaitersOK
    <3>2. CASE waiters = <<>>
      BY <2>2, <3>2 DEF Woken
    <3>3. CASE waiters # <<>>
      <4>1. pc' = [[pc EXCEPT ![r] = c] EXCEPT ![Head(waiters)] = "semWoken"]
        BY <2>2, <3>3 DEF Woken
      <4>2. QED BY <3>1, <3>3, <4>1
    <3>4. QED BY <3>2, <3>3
  <2>3. QED BY <2>1, <2>2
<1>2. r \in stored /\ stored \subseteq Requests
  BY DEF AnswerInv
<1>3. AnswerInv'
  BY <1>1, <1>2 DEF AnswerInv, JobPC, HandlerPC
<1>4. QED BY <1>1, <1>2, <1>3 DEF InSlot, Left, JobPC, ReleasePC

LEMMA EnterIsStart ==
  ASSUME IInv, AnswerInv, NEW r \in Requests, Acquire(r),
         pc[r] \in {"scheduled", "gateWoken", "semWoken"},
         pc[r] = "scheduled" => gate,
         UNCHANGED <<max_running, answer, stored, phase>>
  PROVE  AnswerInv' /\ [Promise!PNext]_(Promise!pvars)
<1> USE DEF IInv, TypeOK
<1>1. pc[r] \in JobPC /\ pc[r] # "running" /\ pc[r] \notin LeftPC
  BY DEF JobPC, LeftPC, ReleasePC
<1>2. CASE Enter(r) /\ (Limited => value > 0 /\ gate)
  <2>1. pc' = [pc EXCEPT ![r] = "running"] /\ "running" \in JobPC
    BY <1>2 DEF Enter, JobPC
  <2>2. AnswerInv' /\ InSlot' = InSlot \union {r} /\ Left' = Left
    BY <1>1, <2>1, JobMoves
  <2>3. phase = "idle"
    BY <1>2 DEF GateInv
  <2>4. max_running > 0 => Cardinality(InSlot) < max_running
    <3>1. max_running \in Nat /\ running \in Nat
      BY LimitsAssumption
    <3>2. QED BY <1>2, <3>1 DEF SlotInv, Limited
  <2>5. r \in stored \ (InSlot \union Left)
    BY <1>1 DEF AnswerInv, InSlot, Left, LeftPC
  <2>6. Promise!Start(r)
    BY <2>2, <2>3, <2>4, <2>5, CardinalityIsOne DEF Promise!Start
  <2>7. QED BY <2>2, <2>6 DEF Promise!PNext
<1>3. CASE \E c \in {"gateWait", "semWait"} :
             pc' = [pc EXCEPT ![r] = c] \/ pc' = Woken([pc EXCEPT ![r] = c], waiters)
  <2>1. AnswerInv' /\ InSlot' = InSlot /\ Left' = Left
    BY <1>1, <1>3, JobMoves DEF JobPC
  <2>2. QED BY <2>1 DEF Promise!pvars
<1>4. QED BY <1>2, <1>3 DEF Acquire

LEMMA JobIsPromised ==
  ASSUME IInv, AnswerInv, NEW r \in Requests, Job(r)
  PROVE  AnswerInv' /\ [Promise!PNext]_(Promise!pvars)
<1>0. UNCHANGED <<max_running, answer, stored, phase>>
  BY DEF Job, Arrive, Resume, Finish, admitVars, syncVars
<1>1. CASE Arrive(r) /\ gate
  BY <1>0, <1>1, EnterIsStart DEF Arrive
<1>2. CASE Resume(r)
  BY <1>0, <1>2, EnterIsStart DEF Resume
<1>3. CASE Arrive(r) /\ ~gate
  <2>1. pc[r] \in JobPC /\ pc[r] # "running" /\ "gateWait" \in JobPC
        /\ pc' = [pc EXCEPT ![r] = "gateWait"]
    BY <1>3 DEF Arrive, JobPC
  <2>2. AnswerInv' /\ InSlot' = InSlot /\ Left' = Left
    BY <1>0, <2>1, JobMoves
  <2>3. QED BY <1>0, <2>2 DEF Promise!pvars
<1>4. CASE Finish(r)
  <2>1. /\ pc[r] = "running" /\ pc[r] \in JobPC
        /\ \/ pc' = [pc EXCEPT ![r] = "releasing"]
           \/ pc' = Woken([pc EXCEPT ![r] = "releasing"], waiters)
    BY <1>4 DEF Finish, JobPC
  <2>2. AnswerInv' /\ InSlot' = InSlot \ {r} /\ Left' = Left \union {r}
    BY <1>0, <2>1, JobMoves
  <2>3. Promise!End(r)
    BY <1>0, <2>1, <2>2 DEF Promise!End, InSlot
  <2>4. QED BY <2>2, <2>3 DEF Promise!PNext
<1>5. QED BY <1>1, <1>2, <1>3, <1>4 DEF Job

\* _running is zero exactly when nobody is inside.
LEMMA SyncerIsPromised ==
  ASSUME IInv, AnswerInv, Syncer
  PROVE  AnswerInv' /\ [Promise!PNext]_(Promise!pvars)
<1>1. running = 0 <=> InSlot = {}
  <2>1. running = Cardinality(InSlot) /\ IsFiniteSet(InSlot)
    BY SubsetsFinite DEF IInv, SlotInv, InSlot
  <2>2. QED BY <2>1, FS_EmptySet
<1>2. /\ UNCHANGED <<max_running, answer, stored>>
      /\ \A s \in Requests : pc'[s] = pc[s] \/ (pc[s] = "gateWait" /\ pc'[s] = "gateWoken")
  BY DEF Syncer, BeginSwitch, DrainEnds, EndSwitch, admitVars, IInv, TypeOK
<1>3. AnswerInv' /\ InSlot' = InSlot /\ Left' = Left
  BY <1>2 DEF IInv, TypeOK, AnswerInv, InSlot, Left, JobPC, HandlerPC, ReleasePC
<1>4. \/ phase = "idle" /\ phase' = (IF running = 0 THEN "switchDrained" ELSE "draining")
      \/ phase = "draining" /\ phase' = (IF running = 0 THEN "switchDrained" ELSE "switchBusy")
      \/ phase \in {"switchDrained", "switchBusy"} /\ phase' = "idle"
  BY DEF Syncer, BeginSwitch, DrainEnds, EndSwitch
<1>5. Promise!SwitchStep
  BY <1>1, <1>2, <1>3, <1>4 DEF Promise!SwitchStep
<1>6. QED BY <1>3, <1>5 DEF Promise!PNext

LEMMA NextIsPromised ==
  IInv /\ AnswerInv /\ [Next]_vars => AnswerInv' /\ [Promise!PNext]_(Promise!pvars)
<1> SUFFICES ASSUME IInv, AnswerInv, [Next]_vars
             PROVE  AnswerInv' /\ [Promise!PNext]_(Promise!pvars)
  OBVIOUS
<1>1. ASSUME NEW r \in Requests, Handler(r) \/ GiveBack(r) \/ Job(r)
      PROVE  AnswerInv' /\ [Promise!PNext]_(Promise!pvars)
  BY <1>1, HandlerIsPromised, GiveBackIsUnseen, JobIsPromised
<1>2. CASE Idle \/ UNCHANGED vars
  BY <1>2 DEF Idle, vars, admitVars, AnswerInv, InSlot, Left, Promise!pvars
<1>3. QED BY <1>1, <1>2, SyncerIsPromised DEF Next

\* The admission implements JobPromise, for every set of requests and every limit, and
\* although its counter may lose updates: what the counter decides is only who is
\* rejected.
THEOREM PromiseIsKept == Spec => KeepsPromise
<1>1. Init => AnswerInv /\ Promise!PInit
  <2> SUFFICES ASSUME Init PROVE AnswerInv /\ Promise!PInit
    OBVIOUS
  <2>1. AnswerInv
    BY DEF Init, AnswerInv, JobPC
  <2>2. InSlot = {} /\ Left = {}
    BY DEF Init, InSlot, Left
  <2>3. Promise!PInit
    BY <2>2, LimitsAssumption DEF Init, Promise!PInit
  <2>4. QED BY <2>1, <2>3
<1>2. QED
  BY <1>1, Inductive, NextIsPromised, PTL DEF Spec, KeepsPromise, Promise!PSpec

=============================================================================
