------------------------- MODULE SharedStoreProofs -------------------------
(***************************************************************************)
(* Proofs about SharedStore, for every set of coordinators and jobs and    *)
(* every number of tasks, cancels and faults.                              *)
(***************************************************************************)
EXTENDS SharedStore, TLAPS

-----------------------------------------------------------------------------
(***************************************************************************)
(* The inductive invariant.                                                *)
(***************************************************************************)

\* The situations that the properties except: a job under a cancel, a blind query or another
\* coordinator's start, or one whose coordinator's heartbeat was late.
Excepted(j) == j \in excused \/ Owner(j) \in late

Mine(j) == queue[Owner(j)][j]

\* What waits, q, fits where the loop stands, p: a final status waits only at the end.
QueueFits(p, q) ==
  /\ p \in {"accepted", "over", "dead"} => q = << >>
  /\ p \in {"pending", "last"} => Len(q) <= 1
  /\ \A i \in 1..Len(q) :
       /\ q[i].by # "cancel"
       /\ q[i].by = "task" => p = "tasks"
       /\ q[i].by = "run" => Len(q) = 1
       /\ q[i].data.status \in Terminal <=> p = "last"

\* The row, with n ended tasks, is behind what waits, which is in order and behind the
\* loop's own copy, with m ended tasks.
Ordered(n, q, m) ==
  \A i \in 1..Len(q) :
    /\ n <= q[i].data.over /\ q[i].data.over <= m
    /\ \A k \in i..Len(q) : q[i].data.over <= q[k].data.over

\* Only a job's own coordinator saves it, and in order.
QueueInv(j) ==
  /\ \A c \in Coordinators : c # Owner(j) => queue[c][j] = << >>
  /\ QueueFits(pc[j], Mine(j))
  /\ Ordered(row[j].data.over, Mine(j), mem[j].over)

\* The loop's own copy.
LoopInv(j) ==
  /\ Alive(j) => row[j].data.over <= mem[j].over
  /\ pc[j] \in {"accepted", "pending", "tasks"} => mem[j].status \notin Terminal

\* A row that is final waits for nothing.
FinalFits(j) ==
  Ended(j) => pc[j] \in {"last", "over", "dead"} /\ Mine(j) = << >>

\* Whoever is about to fail the job, or looks at it, does so after its loop has gone.
HandsFit(j) ==
  \A c \in Coordinators :
    /\ hand[c][j] # None =>
         /\ ~Alive(j)
         /\ hand[c][j].status = "FAILED" /\ hand[c][j].over = NTasks
         /\ Ended(j) => row[j].data.status = "FAILED"
    /\ round[c] = "each" /\ j \in suspects[c] => ~Alive(j)

JobInv(j) == QueueInv(j) /\ LoopInv(j) /\ FinalFits(j) /\ HandsFit(j)

\* A job is stored when it is accepted; before that nobody has heard of it.
Known ==
  \A j \in Jobs :
    /\ Stored(j) <=> pc[j] # "none"
    /\ ~Stored(j) => \A c \in Coordinators :
         queue[c][j] = << >> /\ hand[c][j] = None /\ j \notin suspects[c]

\* The coordinator of a job that is alive has a fresh heartbeat, or had a late one.
OwnerBeats == \A j \in Jobs : Alive(j) => Owner(j) \in fresh \union late

\* A cancel that has set its flag is an exception.
CancelKnown == cancel # None /\ cancel.step = "send" => cancel.job \in excused

JobsInv == \A j \in Jobs : Stored(j) /\ ~Excepted(j) => JobInv(j)

IInv == TypeOK /\ Known /\ OwnerBeats /\ CancelKnown /\ JobsInv
-----------------------------------------------------------------------------
(***************************************************************************)
(* Types.                                                                  *)
(***************************************************************************)

Base == TypeOK /\ Known

\* The first of the waiting saves is taken out.
LEMMA TurnIsHead ==
  ASSUME NEW S, NEW q \in Seq(S), NEW i \in Turn(q)
  PROVE  i = 1 /\ q # << >> /\ Without(q, i) = Tail(q)
<1>1. i = 1 /\ q # << >> /\ Len(q) >= 1
  BY DEF Turn
<1>2. Without(q, 1) = [k \in 1..(Len(q) - 1) |-> q[k + 1]]
  BY <1>1 DEF Without
<1> QED
  BY <1>1, <1>2

LEMMA UpsertedRow ==
  ASSUME TypeOK, NEW j \in Jobs, Stored(j), NEW s \in Snapshots
  PROVE  /\ Upserted(j, s) \in [Jobs -> Rows \union {None}]
         /\ Upserted(j, s)[j] = [owner |-> Owner(j), cancel |-> s.cancel, data |-> s]
         /\ \A k \in Jobs : k # j => Upserted(j, s)[k] = row[k]
         /\ \A k \in Jobs : Upserted(j, s)[k] # None <=> Stored(k)
         /\ \A k \in Jobs : Stored(k) => Upserted(j, s)[k].owner = Owner(k)
<1>1. row[j] \in Rows /\ row \in [Jobs -> Rows \union {None}]
  BY DEF TypeOK, Stored
<1>2. s.cancel \in BOOLEAN
  BY DEF Snapshots
<1>3. Upserted(j, s)[j] = [row[j] EXCEPT !.cancel = s.cancel, !.data = s]
  BY <1>1 DEF Upserted
<1>4. /\ Upserted(j, s)[j] = [owner |-> Owner(j), cancel |-> s.cancel, data |-> s]
      /\ Upserted(j, s)[j] \in Rows
  BY <1>1, <1>2, <1>3 DEF Owner, Rows
<1>5. /\ \A k \in Jobs : k # j => Upserted(j, s)[k] = row[k]
      /\ Upserted(j, s) \in [Jobs -> Rows \union {None}]
  BY <1>1, <1>4 DEF Upserted
<1> QED
  BY <1>1, <1>4, <1>5, NoneAssumption DEF Stored, Owner

LEMMA InitBase == ASSUME Init PROVE Base
BY SizesAssumption DEF Init, Base, TypeOK, Placed, Known, Stored, Alive, NoJobs

-----------------------------------------------------------------------------
(***************************************************************************)
(* Every step keeps the types, and nobody hears of a job before it is      *)
(* stored.                                                                 *)
(***************************************************************************)

LEMMA WriteBase ==
  ASSUME Base, NEW c \in Coordinators, NEW j \in Jobs, Write(c, j)
  PROVE  Base'
<1>1. PICK i \in Turn(queue[c][j]) :
        /\ row' = Upserted(j, queue[c][j][i].data)
        /\ queue' = [queue EXCEPT ![c][j] = Without(@, i)]
        /\ UNCHANGED <<runVars, cancel, coordVars, fresh, pastVars, counts>>
  BY DEF Write
<1>2. queue[c][j] \in Seq(Saves) /\ queue \in [Coordinators -> [Jobs -> Seq(Saves)]]
  BY DEF Base, TypeOK
<1>3. i = 1 /\ queue[c][j] # << >> /\ Without(queue[c][j], i) = Tail(queue[c][j])
  BY <1>2, TurnIsHead
<1> DEFINE s == queue[c][j][1].data
<1>4. s \in Snapshots /\ Tail(queue[c][j]) \in Seq(Saves)
  <2>1. queue[c][j][1] \in Saves /\ Tail(queue[c][j]) \in Seq(Saves)
    BY <1>2, <1>3
  <2> QED
    BY <2>1 DEF Saves
<1>5. Stored(j) /\ stage[c] = "serving"
  BY <1>3 DEF Base, Known, TypeOK, Placed
<1>6. /\ queue' \in [Coordinators -> [Jobs -> Seq(Saves)]]
      /\ \A d \in Coordinators, k \in Jobs : queue[d][k] = << >> => queue'[d][k] = << >>
  BY <1>1, <1>2, <1>3, <1>4
<1> HIDE DEF s
<1>7. row' = Upserted(j, s) /\ TypeOK
  BY <1>1, <1>3 DEF s, Base
<1>8. /\ Upserted(j, s) \in [Jobs -> Rows \union {None}]
      /\ \A k \in Jobs : Upserted(j, s)[k] # None <=> Stored(k)
      /\ \A k \in Jobs : Stored(k) => Upserted(j, s)[k].owner = Owner(k)
  <2>1. s \in Snapshots /\ Stored(j) /\ TypeOK
    BY <1>4, <1>5, <1>7
  <2>2. /\ Upserted(j, s) \in [Jobs -> Rows \union {None}]
        /\ \A k \in Jobs : Upserted(j, s)[k] # None <=> Stored(k)
    BY ONLY <2>1, UpsertedRow, j \in Jobs, ZenonT(60)
  <2>3. \A k \in Jobs : Stored(k) => Upserted(j, s)[k].owner = Owner(k)
    BY ONLY <2>1, UpsertedRow, j \in Jobs, ZenonT(60)
  <2> QED
    BY ONLY <2>2, <2>3
<1>9. /\ row' \in [Jobs -> Rows \union {None}]
      /\ \A k \in Jobs : Stored(k)' <=> Stored(k)
      /\ \A k \in Jobs : Stored(k) => row'[k].owner = row[k].owner
  BY <1>7, <1>8 DEF Stored, Owner
<1>10. Placed'
  <2>1. \A k \in Jobs : Alive(k)' <=> Alive(k)
    BY <1>1 DEF Alive, runVars
  <2>2. Placed /\ UNCHANGED <<mem, stage, cancel>>
    BY <1>1 DEF Base, TypeOK, runVars, coordVars
  <2>3. cancel # None => cancel.job \in Jobs
    BY DEF Base, TypeOK
  <2> QED
    BY <1>6, <1>9, <2>1, <2>2, <2>3 DEF Placed
<1>11. TypeOK'
  BY <1>1, <1>6, <1>9, <1>10 DEF Base, TypeOK, runVars, coordVars, pastVars, counts
<1>12. Known'
  BY <1>1, <1>6, <1>9 DEF Base, Known, runVars, coordVars
<1> QED
  BY <1>11, <1>12 DEF Base

LEMMA WriteFailsBase ==
  ASSUME Base, NEW c \in Coordinators, NEW j \in Jobs, WriteFails(c, j)
  PROVE  Base'
<1> USE DEF Base
<1>1. /\ queue[c][j] \in Seq(Saves) /\ queue[c][j] # << >>
      /\ queue \in [Coordinators -> [Jobs -> Seq(Saves)]]
  BY DEF TypeOK, WriteFails
<1>2. Tail(queue[c][j]) \in Seq(Saves)
  BY <1>1
<1>3. /\ queue' \in [Coordinators -> [Jobs -> Seq(Saves)]]
      /\ \A d \in Coordinators, k \in Jobs : queue[d][k] = << >> => queue'[d][k] = << >>
  BY <1>1, <1>2 DEF WriteFails
<1>4. faults' \in 0..MaxFaults /\ abandoned' \subseteq Jobs
  BY SizesAssumption DEF WriteFails, TypeOK
<1> QED
  BY <1>3, <1>4
     DEF WriteFails, TypeOK, Placed, Known, Alive, Stored, runVars, coordVars, pastVars, counts

LEMMA CreateBase ==
  ASSUME Base, NEW c \in Coordinators, NEW j \in Jobs, Create(c, j)
  PROVE  Base'
<1> USE DEF Base
<1> DEFINE s == [status |-> "SPLITTING", cancel |-> FALSE, over |-> 0]
           r == [owner |-> c, cancel |-> FALSE, data |-> s]
<1>1. s \in Snapshots
  BY SizesAssumption DEF Snapshots
<1>2. r \in Rows /\ r.owner = c
  BY <1>1 DEF Rows
<1>3. /\ mem' = [mem EXCEPT ![j] = s] /\ row' = [row EXCEPT ![j] = r]
      /\ mem \in [Jobs -> Snapshots \union {None}] /\ row \in [Jobs -> Rows \union {None}]
  BY DEF Create, Accepts, TypeOK
<1> HIDE DEF s, r
<1>4. s # None /\ r # None
  BY <1>1, <1>2, NoneAssumption
<1>5. /\ row'[j] = r /\ mem'[j] = s
      /\ row' \in [Jobs -> Rows \union {None}]
      /\ mem' \in [Jobs -> Snapshots \union {None}]
      /\ \A k \in Jobs : k # j => row'[k] = row[k] /\ mem'[k] = mem[k]
  BY <1>1, <1>2, <1>3
<1>6. /\ stage[c] = "serving" /\ ~Stored(j) /\ pc[j] = "none"
      /\ pc' \in [Jobs -> {"none", "accepted", "pending", "tasks", "last", "over", "dead"}]
      /\ pc'[j] = "accepted"
      /\ \A k \in Jobs : k # j => pc'[k] = pc[k]
      /\ late' \subseteq Coordinators
  BY DEF Create, Accepts, TypeOK, Known
<1>7. Placed'
  <2>1. /\ Stored(j)' /\ mem'[j] # None /\ row'[j].owner = c
    BY <1>2, <1>4, <1>5 DEF Stored
  <2>2. \A k \in Jobs : k # j => (Alive(k)' <=> Alive(k)) /\ (Stored(k)' <=> Stored(k))
    BY <1>5, <1>6 DEF Alive, Stored
  <2>3. cancel # None => cancel.job \in Jobs
    BY DEF TypeOK
  <2> QED
    BY <1>5, <1>6, <2>1, <2>2, <2>3 DEF Create, Accepts, TypeOK, Placed, coordVars
<1>8. TypeOK'
  BY <1>5, <1>6, <1>7 DEF Create, Accepts, TypeOK, coordVars, counts
<1>9. Known'
  <2>1. \A k \in Jobs : Stored(k)' <=> k = j \/ Stored(k)
    BY <1>4, <1>5 DEF Stored
  <2> QED
    BY <1>6, <2>1 DEF Create, Accepts, Known, coordVars
<1> QED
  BY <1>8, <1>9

\* A save of run(): it is alive, and so is its coordinator.
LEMMA SavingBase ==
  ASSUME Base, NEW j \in Jobs, Alive(j), NEW s \in Snapshots,
         NEW next \in {"pending", "tasks", "last"}, NEW by \in {"run", "task"},
         mem' = [mem EXCEPT ![j] = s],
         queue' = Queued(Owner(j), j, by, s),
         pc' = [pc EXCEPT ![j] = next],
         faults' \in 0..MaxFaults,
         UNCHANGED <<row, cancel, coordVars, fresh, pastVars, cancels>>
  PROVE  Base'
<1>1. /\ Owner(j) \in Coordinators /\ stage[Owner(j)] = "serving" /\ Stored(j)
  BY DEF Base, TypeOK, Placed, Rows, Stored, Owner
<1>2. TypeOK
  BY DEF Base
<1>3. /\ queue' \in [Coordinators -> [Jobs -> Seq(Saves)]]
      /\ \A d \in Coordinators, k \in Jobs :
           d # Owner(j) \/ k # j => queue'[d][k] = queue[d][k]
  <2> DEFINE v == [by |-> by, data |-> s]
  <2>1. v \in Saves /\ queue' = [queue EXCEPT ![Owner(j)][j] = Append(@, v)]
    BY DEF Saves, Queued
  <2> HIDE DEF v
  <2>2. queue \in [Coordinators -> [Jobs -> Seq(Saves)]]
    BY <1>2 DEF TypeOK
  <2>3. Append(queue[Owner(j)][j], v) \in Seq(Saves)
    BY <1>1, <2>1, <2>2
  <2> QED
    BY <1>1, <2>1, <2>2, <2>3
<1>4. s # None
  BY NoneAssumption
<1>5. /\ mem' \in [Jobs -> Snapshots \union {None}]
      /\ \A k \in Jobs : Alive(k)' => Alive(k)
      /\ \A k \in Jobs : Alive(k) => mem'[k] # None
      /\ \A k \in Jobs : pc'[k] = "none" <=> pc[k] = "none"
      /\ pc' \in [Jobs -> {"none", "accepted", "pending", "tasks", "last", "over", "dead"}]
  BY <1>2, <1>4 DEF TypeOK, Placed, Alive
<1>6. UNCHANGED <<row, stage, cancel, hand, suspects>>
  BY DEF coordVars
<1>7. Placed'
  <2>1. Placed /\ (cancel # None => cancel.job \in Jobs)
    BY <1>2 DEF TypeOK
  <2>2. \A c \in Coordinators, k \in Jobs :
          stage[c] # "serving" => queue'[c][k] = queue[c][k]
    BY <1>1, <1>3
  <2> QED
    BY <1>5, <1>6, <2>1, <2>2 DEF Placed, Stored
<1>8. TypeOK'
  BY <1>2, <1>3, <1>5, <1>7 DEF TypeOK, coordVars, pastVars
<1>9. Known'
  <2>1. \A c \in Coordinators, k \in Jobs : ~Stored(k) => queue'[c][k] = queue[c][k]
    BY <1>1, <1>3
  <2>2. Known
    BY DEF Base
  <2> QED
    BY <1>5, <1>6, <2>1, <2>2 DEF Known, Stored
<1> QED
  BY <1>8, <1>9 DEF Base

\* What run() works with while it is alive.
LEMMA AliveMem ==
  ASSUME TypeOK, NEW j \in Jobs, Alive(j)
  PROVE  mem[j] \in Snapshots /\ Stored(j) /\ row[j] \in Rows /\ Owner(j) \in Coordinators
BY DEF TypeOK, Placed, Stored, Rows, Owner

LEMMA RunBase ==
  ASSUME Base, NEW j \in Jobs, Run(j) \/ Notice(j)
  PROVE  Base'
<1> USE DEF Base
<1>1. CASE RunBegin(j)
  <2>1. Alive(j)
    BY <1>1 DEF RunBegin, Alive
  <2>2. [mem[j] EXCEPT !.status = "PENDING"] \in Snapshots
    BY <2>1, AliveMem DEF Snapshots
  <2> QED
    BY <1>1, <2>1, <2>2, SavingBase DEF RunBegin, Saving, counts, TypeOK
<1>2. CASE RunSkipped(j)
  <2>1. Alive(j)
    BY <1>2 DEF RunSkipped, Alive
  <2>2. [mem[j] EXCEPT !.status = "CANCELLED", !.cancel = TRUE] \in Snapshots
    BY <2>1, AliveMem DEF Snapshots, Terminal
  <2> QED
    BY <1>2, <2>1, <2>2, SavingBase DEF RunSkipped, Saving, counts, TypeOK
<1>3. CASE RunStarts(j)
  <2>1. Alive(j)
    BY <1>3 DEF RunStarts, Alive
  <2>2. [mem[j] EXCEPT !.status = "RUNNING"] \in Snapshots
    BY <2>1, AliveMem DEF Snapshots
  <2>3. faults' \in 0..MaxFaults
    BY <1>3, SizesAssumption DEF RunStarts, TypeOK
  <2> QED
    BY <1>3, <2>1, <2>2, <2>3, SavingBase DEF RunStarts
<1>4. CASE TaskEnds(j)
  <2>1. Alive(j)
    BY <1>4 DEF TaskEnds, Alive
  <2>2. [mem[j] EXCEPT !.over = @ + 1] \in Snapshots
    BY <1>4, <2>1, AliveMem, SizesAssumption DEF Snapshots, TaskEnds
  <2> QED
    BY <1>4, <2>1, <2>2, SavingBase DEF TaskEnds, Saving, counts, TypeOK
<1>5. CASE RunEnds(j)
  <2>1. Alive(j)
    BY <1>5 DEF RunEnds, Alive
  <2>2. PICK s \in Terminal : Saving(j, "run", [mem[j] EXCEPT !.status = s], "last")
    BY <1>5 DEF RunEnds, Terminal
  <2>3. [mem[j] EXCEPT !.status = s] \in Snapshots
    BY <2>1, AliveMem DEF Snapshots
  <2> QED
    BY <1>5, <2>1, <2>2, <2>3, SavingBase DEF Saving, counts, TypeOK
<1>6. CASE RunReturns(j)
  BY <1>6 DEF RunReturns, TypeOK, Placed, Known, Alive, Stored, coordVars, pastVars, counts
<1>7. CASE Notice(j)
  <2>1. Alive(j)
    BY <1>7 DEF Notice, Alive
  <2>2. mem' = [mem EXCEPT ![j] = [mem[j] EXCEPT !.cancel = TRUE]]
    BY <1>7 DEF Notice
  <2>3. /\ [mem[j] EXCEPT !.cancel = TRUE] \in Snapshots
        /\ [mem[j] EXCEPT !.cancel = TRUE] # None
    BY <2>1, AliveMem, NoneAssumption DEF Snapshots
  <2> HIDE DEF Base
  <2> QED
    BY <1>7, <2>1, <2>2, <2>3
       DEF Base, Notice, TypeOK, Placed, Known, Alive, Stored, coordVars, pastVars, counts
<1> QED
  BY <1>1, <1>2, <1>3, <1>4, <1>5, <1>6, <1>7 DEF Run

\* An unfinished job, failed in a copy.
LEMMA FailedCopy ==
  ASSUME TypeOK, NEW j \in Jobs, Stored(j)
  PROVE  /\ Failed(row[j].data) \in Snapshots
         /\ Failed([row[j].data EXCEPT !.cancel = row[j].cancel]) \in Snapshots
<1>1. row[j] \in Rows
  BY DEF TypeOK, Stored
<1>2. row[j].data \in Snapshots /\ row[j].cancel \in BOOLEAN
  BY <1>1 DEF Rows
<1>3. [row[j].data EXCEPT !.cancel = row[j].cancel] \in Snapshots
  BY <1>2 DEF Snapshots
<1>4. ASSUME NEW s \in Snapshots PROVE Failed(s) \in Snapshots
  <2>1. [s EXCEPT !.status = "FAILED"] \in Snapshots
    BY DEF Snapshots, Terminal
  <2>2. \A t \in Snapshots : [t EXCEPT !.over = NTasks] \in Snapshots
    BY SizesAssumption DEF Snapshots
  <2>3. Failed(s) = [[s EXCEPT !.status = "FAILED"] EXCEPT !.over = NTasks]
    BY DEF Failed
  <2> QED
    BY <2>1, <2>2, <2>3
<1> QED
  BY <1>2, <1>3, <1>4

LEMMA CancelBase ==
  ASSUME Base, NEW c \in Coordinators, NEW j \in Jobs,
         CancelGet(c, j) \/ CancelFlag \/ CancelSave
  PROVE  Base'
<1> USE DEF Base
<1>1. CASE CancelGet(c, j)
  <2>1. row[j] \in Rows
    BY <1>1 DEF CancelGet, Accepts, TypeOK, Stored
  <2>2. [row[j].data EXCEPT !.cancel = row[j].cancel] \in Snapshots
    BY <2>1 DEF Rows, Snapshots
  <2>3. cancels' \in 0..MaxCancels
    BY <1>1, SizesAssumption DEF CancelGet, Accepts, TypeOK
  <2>4. /\ cancel' \in [at : Coordinators, job : Jobs, step : {"flag", "send"}, copy : Snapshots]
        /\ cancel'.at = c /\ cancel'.job = j /\ stage[c] = "serving" /\ Stored(j)
    BY <1>1, <2>2 DEF CancelGet, Accepts
  <2>5. /\ UNCHANGED <<row, mem, pc, queue, stage, round, suspects, hand, fresh>>
        /\ UNCHANGED <<late, excused, abandoned, faults>>
    BY <1>1 DEF CancelGet, Accepts, runVars, coordVars, pastVars
  <2> QED
    BY <2>3, <2>4, <2>5 DEF TypeOK, Placed, Known, Alive, Stored
<1>2. CASE CancelFlag
  <2>1. /\ cancel \in [at : Coordinators, job : Jobs, step : {"flag", "send"}, copy : Snapshots]
        /\ stage[cancel.at] = "serving" /\ Stored(cancel.job)
    BY <1>2 DEF CancelFlag, TypeOK, Placed
  <2> DEFINE k == cancel.job
  <2>2. row[k] \in Rows /\ k \in Jobs /\ row \in [Jobs -> Rows \union {None}]
    BY <2>1 DEF TypeOK, Stored
  <2>3. [row[k] EXCEPT !.cancel = TRUE] \in Rows /\ [row[k] EXCEPT !.cancel = TRUE] # None
    BY <2>2, NoneAssumption DEF Rows
  <2>4. row' = [row EXCEPT ![k] = [row[k] EXCEPT !.cancel = TRUE]]
    BY <1>2 DEF CancelFlag
  <2>5. /\ row' \in [Jobs -> Rows \union {None}]
        /\ \A i \in Jobs : Stored(i)' <=> Stored(i)
        /\ \A i \in Jobs : Stored(i) => row'[i].owner = row[i].owner
    BY <2>1, <2>2, <2>3, <2>4 DEF Stored, Rows
  <2>6. /\ cancel' \in [at : Coordinators, job : Jobs, step : {"flag", "send"}, copy : Snapshots]
        /\ cancel'.at = cancel.at /\ cancel'.job = cancel.job
    BY <1>2, <2>1 DEF CancelFlag
  <2>7. UNCHANGED <<mem, pc, queue, stage, round, suspects, hand, fresh, late, abandoned,
                    cancels, faults>>
    BY <1>2 DEF CancelFlag, runVars, coordVars, counts
  <2>8. excused' \subseteq Jobs
    BY <1>2, <2>2 DEF CancelFlag, TypeOK
  <2>9. Placed'
    <3>1. Placed
      BY DEF TypeOK
    <3>2. \A i \in Jobs : Alive(i)' <=> Alive(i)
      BY <2>7 DEF Alive
    <3> QED
      BY <2>1, <2>2, <2>5, <2>6, <2>7, <3>1, <3>2 DEF Placed
  <2>10. Known'
    BY <2>5, <2>7 DEF Known
  <2> QED
    BY <2>5, <2>6, <2>7, <2>8, <2>9, <2>10 DEF TypeOK
<1>3. CASE CancelSave
  <2>0. PICK over \in cancel.copy.over .. NTasks :
          queue' = Queued(cancel.at, cancel.job, "cancel",
                          [status |-> "CANCELLED", cancel |-> TRUE, over |-> over])
    BY <1>3 DEF CancelSave
  <2> DEFINE v == [by |-> "cancel",
                   data |-> [status |-> "CANCELLED", cancel |-> TRUE, over |-> over]]
             a == cancel.at
             k == cancel.job
  <2>1. /\ a \in Coordinators /\ k \in Jobs /\ stage[a] = "serving" /\ Stored(k)
    BY <1>3 DEF CancelSave, TypeOK, Placed
  <2>2. v \in Saves
    <3>1. cancel.copy.over \in 0..NTasks
      BY <1>3 DEF CancelSave, TypeOK, Snapshots
    <3>2. over \in 0..NTasks
      BY <3>1, SizesAssumption
    <3> QED
      BY <3>2 DEF Saves, Snapshots, Terminal
  <2>3. queue' = [queue EXCEPT ![a][k] = Append(@, v)]
    BY <2>0 DEF Queued
  <2> HIDE DEF v, a, k
  <2>4. queue \in [Coordinators -> [Jobs -> Seq(Saves)]]
    BY DEF TypeOK
  <2>5. Append(queue[a][k], v) \in Seq(Saves)
    BY <2>1, <2>2, <2>4
  <2>6. /\ queue' \in [Coordinators -> [Jobs -> Seq(Saves)]]
        /\ \A d \in Coordinators, i \in Jobs : d # a \/ i # k => queue'[d][i] = queue[d][i]
    BY <2>1, <2>3, <2>4, <2>5
  <2>7. \A d \in Coordinators, i \in Jobs :
          stage[d] # "serving" \/ ~Stored(i) => queue'[d][i] = queue[d][i]
    BY <2>1, <2>6
  <2>8. /\ UNCHANGED <<row, mem, pc, stage, round, suspects, hand, fresh>>
        /\ UNCHANGED <<late, excused, abandoned, cancels, faults>> /\ cancel' = None
    BY <1>3 DEF CancelSave, runVars, coordVars, pastVars, counts
  <2>9. Placed'
    BY <2>7, <2>8 DEF TypeOK, Placed, Alive, Stored
  <2>10. Known'
    BY <2>7, <2>8 DEF Known, Stored
  <2> QED
    BY <2>6, <2>8, <2>9, <2>10 DEF TypeOK
<1> QED
  BY <1>1, <1>2, <1>3

LEMMA StartBase ==
  ASSUME Base, NEW c \in Coordinators, Start(c) \/ StartBlind(c) \/ Serve(c)
  PROVE  Base'
<1> USE DEF Base
<1>1. /\ stage' \in [Coordinators -> {"down", "starting", "serving"}]
      /\ \A d \in Coordinators : stage[d] = "serving" => stage'[d] = "serving"
      /\ \A d \in Coordinators : stage'[d] # "serving" => stage[d] # "serving"
      /\ UNCHANGED <<row, mem, pc, queue, cancel, round, suspects, fresh, late, cancels, faults>>
  BY DEF Start, StartBlind, Serve, TypeOK, runVars, pastVars, counts
<1>2. Placed'
  <2>1. cancel # None => cancel.at \in Coordinators
    BY DEF TypeOK
  <2>2. Placed /\ \A j \in Jobs : Alive(j) => row[j].owner \in Coordinators
    BY DEF TypeOK, Placed, Stored, Rows
  <2> QED
    BY <1>1, <2>1, <2>2 DEF Placed, Alive, Stored
<1>3. excused' \subseteq Jobs /\ abandoned' \subseteq Jobs
  BY DEF Start, StartBlind, Serve, TypeOK, Unfinished, pastVars
<1>4. /\ hand' \in [Coordinators -> [Jobs -> Snapshots \union {None}]]
      /\ \A d \in Coordinators, j \in Jobs : ~Stored(j) /\ hand[d][j] = None => hand'[d][j] = None
  <2>1. CASE Start(c)
    <3> DEFINE h == [j \in Jobs |-> IF j \in Unfinished THEN Failed(row[j].data) ELSE None]
    <3>1. h \in [Jobs -> Snapshots \union {None}]
      BY FailedCopy DEF Unfinished
    <3>2. \A j \in Jobs : ~Stored(j) => h[j] = None
      BY DEF Unfinished
    <3>3. hand' = [hand EXCEPT ![c] = h]
      BY <2>1 DEF Start
    <3> HIDE DEF h
    <3> QED
      BY <3>1, <3>2, <3>3 DEF TypeOK
  <2>2. CASE ~Start(c)
    BY <2>2 DEF StartBlind, Serve, TypeOK
  <2> QED
    BY <2>1, <2>2
<1>5. Known'
  BY <1>1, <1>4 DEF Known, Stored
<1> QED
  BY <1>1, <1>2, <1>3, <1>4, <1>5 DEF TypeOK

LEMMA SaveFailedBase ==
  ASSUME Base, NEW c \in Coordinators, NEW j \in Jobs, SaveFailed(c, j)
  PROVE  Base'
<1> DEFINE s == hand[c][j]
<1>1. s \in Snapshots /\ Stored(j) /\ TypeOK /\ row' = Upserted(j, s)
  BY DEF SaveFailed, Base, TypeOK, Known
<1>2. /\ hand' \in [Coordinators -> [Jobs -> Snapshots \union {None}]]
      /\ \A d \in Coordinators, k \in Jobs : hand[d][k] = None => hand'[d][k] = None
      /\ UNCHANGED <<mem, pc, queue, cancel, stage, round, suspects, fresh>>
      /\ UNCHANGED <<late, excused, abandoned, cancels, faults>>
  BY <1>1 DEF SaveFailed, TypeOK, runVars, pastVars, counts
<1> HIDE DEF s
<1>3. /\ Upserted(j, s) \in [Jobs -> Rows \union {None}]
      /\ \A k \in Jobs : Upserted(j, s)[k] # None <=> Stored(k)
      /\ \A k \in Jobs : Stored(k) => Upserted(j, s)[k].owner = Owner(k)
  <2>1. s \in Snapshots
    BY <1>1
  <2>2. Stored(j)
    BY <1>1
  <2>3. TypeOK
    BY <1>1
  <2> QED
    <3>1. /\ Upserted(j, s) \in [Jobs -> Rows \union {None}]
          /\ \A k \in Jobs : Upserted(j, s)[k] # None <=> Stored(k)
      BY ONLY <2>1, <2>2, <2>3, UpsertedRow, j \in Jobs, ZenonT(60)
    <3>2. \A k \in Jobs : Stored(k) => Upserted(j, s)[k].owner = Owner(k)
      BY ONLY <2>1, <2>2, <2>3, UpsertedRow, j \in Jobs, ZenonT(60)
    <3> QED
      BY <3>1, <3>2
<1>4. /\ row' \in [Jobs -> Rows \union {None}]
      /\ \A k \in Jobs : Stored(k)' <=> Stored(k)
      /\ \A k \in Jobs : Stored(k) => row'[k].owner = row[k].owner
  BY <1>1, <1>3 DEF Stored, Owner
<1>5. Placed'
  <2>1. Placed /\ (cancel # None => cancel.job \in Jobs)
    BY <1>1 DEF TypeOK
  <2> QED
    BY <1>2, <1>4, <2>1 DEF Placed, Alive
<1>6. TypeOK'
  BY <1>1, <1>2, <1>4, <1>5 DEF TypeOK
<1>7. Known'
  BY <1>2, <1>4 DEF Base, Known
<1> QED
  BY <1>6, <1>7 DEF Base

LEMMA ReconcileBase ==
  ASSUME Base, NEW c \in Coordinators,
         \/ BeatAndList(c) \/ FreshIds(c) \/ FreshIdsFail(c) \/ RoundEnds(c)
         \/ \E j \in Jobs : ReadOrphan(c, j)
  PROVE  Base'
<1> USE DEF Base
<1>1. /\ UNCHANGED <<row, mem, pc, queue, cancel, stage, late, abandoned, cancels>>
      /\ fresh' \subseteq Coordinators /\ excused' \subseteq Jobs
      /\ faults' \in 0..MaxFaults
      /\ round' \in [Coordinators -> {"idle", "query", "each"}]
  <2>1. CASE BeatAndList(c)
    BY <2>1 DEF BeatAndList, TypeOK, runVars, pastVars, counts
  <2>2. CASE FreshIds(c)
    BY <2>2 DEF FreshIds, Suspect, TypeOK, runVars, pastVars, counts
  <2>3. CASE FreshIdsFail(c)
    BY <2>3, SizesAssumption DEF FreshIdsFail, Suspect, TypeOK, runVars
  <2>4. CASE RoundEnds(c)
    BY <2>4 DEF RoundEnds, TypeOK, runVars, pastVars, counts
  <2>5. CASE \E j \in Jobs : ReadOrphan(c, j)
    BY <2>5 DEF ReadOrphan, TypeOK, runVars, pastVars, counts
  <2> QED
    BY <2>1, <2>2, <2>3, <2>4, <2>5
<1>2. /\ suspects' \in [Coordinators -> SUBSET Jobs]
      /\ \A d \in Coordinators : \A j \in suspects'[d] : Stored(j)
  <2>1. \A d \in Coordinators : \A j \in suspects[d] : Stored(j)
    BY DEF TypeOK, Known
  <2>2. CASE BeatAndList(c)
    BY <2>1, <2>2 DEF BeatAndList, TypeOK, Unfinished
  <2>3. CASE FreshIds(c) \/ FreshIdsFail(c)
    <3>1. PICK S : suspects' = [suspects EXCEPT ![c] = Orphans(c, S)]
      BY <2>3 DEF FreshIds, FreshIdsFail, Suspect
    <3>2. Orphans(c, S) \subseteq suspects[c]
      BY DEF Orphans
    <3> QED
      BY <2>1, <3>1, <3>2 DEF TypeOK
  <2>4. CASE RoundEnds(c)
    BY <2>1, <2>4 DEF RoundEnds, TypeOK
  <2>5. CASE \E j \in Jobs : ReadOrphan(c, j)
    BY <2>1, <2>5 DEF ReadOrphan, TypeOK
  <2> QED
    BY <2>2, <2>3, <2>4, <2>5
<1>3. /\ hand' \in [Coordinators -> [Jobs -> Snapshots \union {None}]]
      /\ \A d \in Coordinators, j \in Jobs : ~Stored(j) /\ hand[d][j] = None => hand'[d][j] = None
  <2>1. CASE \E j \in Jobs : ReadOrphan(c, j)
    <3>1. PICK j \in Jobs : ReadOrphan(c, j)
      BY <2>1
    <3> DEFINE s == Failed([row[j].data EXCEPT !.cancel = row[j].cancel])
    <3>2. Stored(j)
      BY <3>1 DEF ReadOrphan, Known
    <3>3. s \in Snapshots
      BY <3>2, FailedCopy
    <3>4. hand' = [hand EXCEPT ![c][j] = s] \/ hand' = hand
      BY <3>1 DEF ReadOrphan
    <3> HIDE DEF s
    <3>5. hand \in [Coordinators -> [Jobs -> Snapshots \union {None}]]
      BY DEF TypeOK
    <3>6. CASE hand' = [hand EXCEPT ![c][j] = s]
      BY <3>2, <3>3, <3>5, <3>6
    <3> QED
      BY <3>4, <3>5, <3>6
  <2>2. CASE ~\E j \in Jobs : ReadOrphan(c, j)
    BY <2>2 DEF BeatAndList, FreshIds, FreshIdsFail, RoundEnds, TypeOK
  <2> QED
    BY <2>1, <2>2
<1>4. Placed'
  BY <1>1 DEF TypeOK, Placed, Alive, Stored
<1>5. Known'
  BY <1>1, <1>2, <1>3 DEF Known, Stored
<1> QED
  BY <1>1, <1>2, <1>3, <1>4, <1>5 DEF TypeOK

LEMMA CrashBase ==
  ASSUME Base, NEW c \in Coordinators, Crash(c)
  PROVE  Base'
<1> USE DEF Base
<1>1. /\ stage' = [stage EXCEPT ![c] = "down"]
      /\ pc' = [j \in Jobs |-> IF Alive(j) /\ Owner(j) = c THEN "dead" ELSE pc[j]]
      /\ queue' = [queue EXCEPT ![c] = [j \in Jobs |-> << >>]]
      /\ cancel' = IF cancel # None /\ cancel.at = c THEN None ELSE cancel
      /\ round' = [round EXCEPT ![c] = "idle"]
      /\ suspects' = [suspects EXCEPT ![c] = {}]
      /\ hand' = [hand EXCEPT ![c] = NoJobs]
      /\ UNCHANGED <<row, mem, fresh, late, excused, abandoned, cancels>>
  BY DEF Crash, Forgotten, pastVars
<1>2. faults' \in 0..MaxFaults
  BY SizesAssumption DEF Crash, TypeOK
<1>3. queue' \in [Coordinators -> [Jobs -> Seq(Saves)]]
  <2>1. [j \in Jobs |-> << >>] \in [Jobs -> Seq(Saves)]
    OBVIOUS
  <2> QED
    BY <1>1, <2>1 DEF TypeOK
<1>4. hand' \in [Coordinators -> [Jobs -> Snapshots \union {None}]]
  <2>1. NoJobs \in [Jobs -> Snapshots \union {None}]
    BY DEF NoJobs
  <2> QED
    BY <1>1, <2>1 DEF TypeOK
<1>5. /\ \A j \in Jobs : Alive(j)' => Alive(j) /\ Owner(j) # c
      /\ \A j \in Jobs : pc'[j] = "none" <=> pc[j] = "none"
      /\ pc' \in [Jobs -> {"none", "accepted", "pending", "tasks", "last", "over", "dead"}]
  BY <1>1 DEF Alive, TypeOK
<1>6. Placed'
  <2>1. \A j \in Jobs : Alive(j)' => Stored(j)' /\ mem'[j] # None /\ stage'[row'[j].owner] = "serving"
    BY <1>1, <1>5 DEF TypeOK, Placed, Owner, Stored
  <2>2. \A d \in Coordinators : stage'[d] # "serving" => \A j \in Jobs : queue'[d][j] = << >>
    BY <1>1 DEF TypeOK, Placed
  <2>3. (cancel # None => stage[cancel.at] = "serving" /\ Stored(cancel.job))'
    <3>1. cancel # None => stage[cancel.at] = "serving" /\ Stored(cancel.job)
                           /\ cancel.at \in Coordinators
      BY DEF TypeOK, Placed
    <3>2. CASE cancel # None /\ cancel.at # c
      <4>1. cancel' = cancel /\ stage'[cancel.at] = stage[cancel.at]
        BY <1>1, <3>1, <3>2 DEF TypeOK
      <4> QED
        BY <1>1, <3>1, <3>2, <4>1 DEF Stored
    <3> QED
      BY <1>1, <3>2
  <2> HIDE DEF Base
  <2> QED
    BY <2>1, <2>2, <2>3, Zenon DEF Placed
<1>7. Known'
  BY <1>1, <1>5 DEF Known, Stored, TypeOK, NoJobs
<1>8. cancel' \in [at : Coordinators, job : Jobs, step : {"flag", "send"}, copy : Snapshots]
                   \union {None}
  BY <1>1 DEF TypeOK
<1> QED
  BY <1>1, <1>2, <1>3, <1>4, <1>5, <1>6, <1>7, <1>8 DEF TypeOK

LEMMA ExpireBase ==
  ASSUME Base, NEW c \in Coordinators, Expire(c)
  PROVE  Base'
<1>1. late' \subseteq Coordinators /\ faults' \in 0..MaxFaults /\ fresh' \subseteq Coordinators
  BY SizesAssumption DEF Base, TypeOK, Expire
<1> QED
  BY <1>1 DEF Base, TypeOK, Placed, Known, Alive, Stored, Expire, runVars, coordVars

LEMMA StutterBase == ASSUME Base, UNCHANGED vars PROVE Base'
BY DEF Base, TypeOK, Placed, Known, Alive, Stored, vars, runVars, coordVars, pastVars, counts

LEMMA StepBase == ASSUME Base, [Next]_vars PROVE Base'
<1>1. CASE \E j \in Jobs : Run(j) \/ Notice(j)
  BY <1>1, RunBase
<1>2. CASE CancelFlag \/ CancelSave
  <2>1. cancel.at \in Coordinators /\ cancel.job \in Jobs
    BY <1>2 DEF CancelFlag, CancelSave, Base, TypeOK
  <2> QED
    BY <1>2, <2>1, CancelBase, Zenon
<1>3. ASSUME NEW c \in Coordinators,
             Recovery(c) \/ Start(c) \/ StartBlind(c) \/ FreshIdsFail(c) \/ Crash(c) \/ Expire(c)
      PROVE  Base'
  BY <1>3, StartBase, SaveFailedBase, ReconcileBase, CrashBase, ExpireBase DEF Recovery
<1>4. ASSUME NEW c \in Coordinators, NEW j \in Jobs,
             Create(c, j) \/ CancelGet(c, j) \/ Write(c, j) \/ WriteFails(c, j)
      PROVE  Base'
  BY <1>4, CreateBase, CancelBase, WriteBase, WriteFailsBase
<1> QED
  BY <1>1, <1>2, <1>3, <1>4, StutterBase DEF Next

-----------------------------------------------------------------------------
(***************************************************************************)
(* What waits: the first one goes, or another one comes.                   *)
(***************************************************************************)

LEMMA SaveFields ==
  ASSUME NEW v \in Saves
  PROVE  v.data \in Snapshots /\ v.data.over \in Nat /\ v.data.over <= NTasks
BY SizesAssumption DEF Saves, Snapshots

LEMMA TailFits ==
  ASSUME NEW p, NEW q \in Seq(Saves), q # << >>, QueueFits(p, q)
  PROVE  QueueFits(p, Tail(q))
<1> DEFINE t == Tail(q)
<1>1. Len(q) \in Nat /\ Len(q) >= 1 /\ Len(t) = Len(q) - 1
  OBVIOUS
<1>2. \A i \in 1..Len(t) : t[i] = q[i + 1] /\ i + 1 \in 1..Len(q)
  BY <1>1
<1>3. Len(t) = 0 => t = << >>
  <2>1. t \in Seq(Saves)
    OBVIOUS
  <2> HIDE DEF t
  <2> QED
    BY <2>1
<1> HIDE DEF t
<1>4. \A i \in 1..Len(t) :
        /\ t[i].by # "cancel"
        /\ t[i].by = "task" => p = "tasks"
        /\ t[i].by # "run"
        /\ t[i].data.status \in Terminal <=> p = "last"
  BY <1>1, <1>2 DEF QueueFits
<1> QED
  BY <1>1, <1>3, <1>4 DEF QueueFits, t

LEMMA TailOrdered ==
  ASSUME NEW n \in Nat, NEW m \in Nat, NEW q \in Seq(Saves), q # << >>, Ordered(n, q, m)
  PROVE  /\ n <= q[1].data.over /\ q[1].data.over <= m
         /\ Ordered(n, Tail(q), m) /\ Ordered(q[1].data.over, Tail(q), m)
<1> DEFINE t == Tail(q)
<1>1. Len(q) \in Nat /\ Len(q) >= 1 /\ Len(t) = Len(q) - 1
  OBVIOUS
<1>2. \A i \in 1..Len(t) : t[i] = q[i + 1] /\ i + 1 \in 1..Len(q)
  BY <1>1
<1>3. \A i \in 1..Len(q) : q[i] \in Saves
  OBVIOUS
<1>4. \A i \in 1..Len(q) : q[i].data.over \in Nat
  BY <1>3, SaveFields
<1> HIDE DEF t
<1>5. n <= q[1].data.over /\ q[1].data.over <= m
  BY <1>1 DEF Ordered
<1>6. \A i \in 1..Len(t) :
        /\ n <= t[i].data.over /\ t[i].data.over <= m /\ q[1].data.over <= t[i].data.over
        /\ \A k \in i..Len(t) : t[i].data.over <= t[k].data.over
  <2> SUFFICES ASSUME NEW i \in 1..Len(t)
               PROVE  /\ n <= t[i].data.over /\ t[i].data.over <= m
                      /\ q[1].data.over <= t[i].data.over
                      /\ \A k \in i..Len(t) : t[i].data.over <= t[k].data.over
    OBVIOUS
  <2>1. t[i] = q[i + 1] /\ i + 1 \in 1..Len(q) /\ 1 \in 1..Len(q) /\ i + 1 \in 1..Len(q)
    BY <1>1, <1>2
  <2>2. /\ n <= t[i].data.over /\ t[i].data.over <= m
        /\ q[1].data.over <= t[i].data.over
    BY <2>1 DEF Ordered
  <2>3. ASSUME NEW k \in i..Len(t) PROVE t[i].data.over <= t[k].data.over
    <3>1. t[k] = q[k + 1] /\ k + 1 \in (i + 1)..Len(q)
      BY <1>1, <1>2
    <3> QED
      BY <2>1, <3>1 DEF Ordered
  <2> QED
    BY <2>2, <2>3
<1> QED
  BY <1>5, <1>6 DEF Ordered, t

LEMMA AppendOrdered ==
  ASSUME NEW n \in Nat, NEW m \in Nat, NEW q \in Seq(Saves), Ordered(n, q, m), n <= m,
         NEW v \in Saves, m <= v.data.over
  PROVE  Ordered(n, Append(q, v), v.data.over)
<1> DEFINE t == Append(q, v)
<1>1. Len(q) \in Nat /\ Len(t) = Len(q) + 1 /\ t[Len(q) + 1] = v
  OBVIOUS
<1>2. \A i \in 1..Len(q) : t[i] = q[i] /\ q[i] \in Saves
  OBVIOUS
<1>3. \A i \in 1..Len(q) : q[i].data.over \in Nat
  BY <1>2, SaveFields
<1>4. v.data.over \in Nat
  BY SaveFields
<1> HIDE DEF t
<1>5. \A i \in 1..Len(t) : i \in 1..Len(q) \/ i = Len(q) + 1
  BY <1>1
<1>6. \A i \in 1..Len(t) : n <= t[i].data.over /\ t[i].data.over <= v.data.over
  BY <1>1, <1>2, <1>3, <1>4, <1>5 DEF Ordered
<1>7. ASSUME NEW i \in 1..Len(t), NEW k \in i..Len(t)
      PROVE  t[i].data.over <= t[k].data.over
  <2>1. CASE k = Len(q) + 1
    BY <1>1, <1>6, <2>1
  <2>2. CASE k # Len(q) + 1
    <3>1. i \in 1..Len(q) /\ k \in i..Len(q) /\ k \in 1..Len(q)
      BY <1>1, <2>2
    <3> QED
      BY <1>2, <3>1 DEF Ordered
  <2> QED
    BY <2>1, <2>2
<1> QED
  BY <1>6, <1>7 DEF Ordered, t

-----------------------------------------------------------------------------
(***************************************************************************)
(* What a step leaves alone about a job.                                   *)
(***************************************************************************)

Same(j) ==
  /\ row'[j] = row[j] /\ mem'[j] = mem[j] /\ pc'[j] = pc[j]
  /\ \A c \in Coordinators : queue'[c][j] = queue[c][j]

\* Nobody else gets to look at it.
SameHands(j) ==
  \A c \in Coordinators :
    /\ hand'[c][j] = hand[c][j]
    /\ round'[c] = "each" /\ j \in suspects'[c] => round[c] = "each" /\ j \in suspects[c]

LEMMA HandsKeep ==
  ASSUME NEW j \in Jobs, HandsFit(j), SameHands(j), row'[j] = row[j], Alive(j)' => Alive(j)
  PROVE  HandsFit(j)'
BY DEF HandsFit, SameHands, Ended, Stored

\* A job that is alive is in nobody's hands.
LEMMA HandsOfLiving ==
  ASSUME NEW j \in Jobs, HandsFit(j), SameHands(j), Alive(j)
  PROVE  HandsFit(j)'
BY DEF HandsFit, SameHands

LEMMA SameKeeps ==
  ASSUME Base, NEW j \in Jobs, Stored(j), JobInv(j), Same(j), HandsFit(j)'
  PROVE  JobInv(j)'
<1>1. Owner(j)' = Owner(j) /\ Owner(j) \in Coordinators
  BY DEF Same, Owner, Base, TypeOK, Stored, Rows
<1>2. Mine(j)' = Mine(j)
  BY <1>1 DEF Same, Mine
<1>3. QueueInv(j)'
  BY <1>1, <1>2 DEF JobInv, QueueInv, Same
<1>4. LoopInv(j)' /\ FinalFits(j)'
  BY <1>2 DEF JobInv, LoopInv, FinalFits, Same, Alive, Ended, Stored
<1> QED
  BY <1>3, <1>4 DEF JobInv

-----------------------------------------------------------------------------
(***************************************************************************)
(* Every step keeps the invariant of a job that is stored and not          *)
(* excepted.                                                               *)
(***************************************************************************)

\* Only its coordinator has saves of a job, and then the loop is alive.
LEMMA OwnSaves ==
  ASSUME Base, NEW j \in Jobs, Stored(j), JobInv(j),
         NEW c \in Coordinators, queue[c][j] # << >>
  PROVE  /\ c = Owner(j) /\ Alive(j)
         /\ queue[c][j] \in Seq(Saves) /\ row[j] \in Rows /\ mem[j] \in Snapshots
         /\ row[j].data.over \in Nat /\ mem[j].over \in Nat
<1>1. c = Owner(j) /\ pc[j] \notin {"accepted", "over", "dead"}
  BY DEF JobInv, QueueInv, QueueFits, Mine
<1>2. Alive(j)
  BY <1>1 DEF Base, Known, Alive
<1>3. row[j] \in Rows /\ mem[j] \in Snapshots
  BY <1>2, AliveMem DEF Base
<1>4. row[j].data \in Snapshots
  BY <1>3 DEF Rows
<1>5. row[j].data.over \in Nat /\ mem[j].over \in Nat
  BY <1>3, <1>4, SizesAssumption DEF Snapshots
<1>6. queue[c][j] \in Seq(Saves)
  BY DEF Base, TypeOK
<1> QED
  BY <1>1, <1>2, <1>3, <1>5, <1>6

LEMMA WriteKeeps ==
  ASSUME Base, NEW c \in Coordinators, NEW k \in Jobs, Write(c, k),
         NEW j \in Jobs, Stored(j), JobInv(j)
  PROVE  JobInv(j)'
<1>1. PICK i \in Turn(queue[c][k]) :
        /\ row' = Upserted(k, queue[c][k][i].data)
        /\ queue' = [queue EXCEPT ![c][k] = Without(@, i)]
        /\ UNCHANGED <<runVars, cancel, coordVars, fresh, pastVars, counts>>
  BY DEF Write
<1>2. TypeOK /\ queue[c][k] \in Seq(Saves) /\ queue \in [Coordinators -> [Jobs -> Seq(Saves)]]
  BY DEF Base, TypeOK
<1>3. i = 1 /\ queue[c][k] # << >> /\ Without(queue[c][k], i) = Tail(queue[c][k])
  BY <1>2, TurnIsHead
<1>4. UNCHANGED <<mem, pc, hand, round, suspects>> /\ SameHands(j)
  BY <1>1 DEF runVars, coordVars, SameHands
<1>5. CASE k # j
  <2>1. row'[j] = row[j] /\ \A d \in Coordinators : queue'[d][j] = queue[d][j]
    BY <1>1, <1>2, <1>5 DEF Upserted, TypeOK
  <2>2. Same(j)
    BY <1>4, <2>1 DEF Same
  <2>3. HandsFit(j)'
    BY <1>4, <2>1, HandsKeep DEF JobInv, Alive
  <2> QED
    BY <2>2, <2>3, SameKeeps
<1>6. CASE k = j
  <2> DEFINE q == queue[c][j]
             s == q[1].data
  <2>1. /\ c = Owner(j) /\ Alive(j) /\ q \in Seq(Saves) /\ row[j] \in Rows
        /\ row[j].data.over \in Nat /\ mem[j].over \in Nat
    BY <1>3, <1>6, OwnSaves
  <2>2. q[1] \in Saves
    BY <1>3, <1>6, <2>1
  <2>3. s \in Snapshots
    BY <2>2, SaveFields
  <2>4. row' = Upserted(j, s) /\ Mine(j) = q /\ q # << >>
    BY <1>1, <1>3, <1>6, <2>1 DEF Mine
  <2>5. queue' = [queue EXCEPT ![c][j] = Tail(q)]
    BY <1>1, <1>3, <1>6
  <2> HIDE DEF s, q
  <2>6. Owner(j)' = c /\ row'[j].data = s
    <3>1. Upserted(j, s)[j] = [owner |-> Owner(j), cancel |-> s.cancel, data |-> s]
      BY ONLY <1>2, <2>3, Stored(j), UpsertedRow, j \in Jobs, ZenonT(60)
    <3> QED
      BY <2>1, <2>4, <3>1 DEF Owner
  <2>7. /\ Mine(j)' = Tail(q)
        /\ \A d \in Coordinators : d # c => queue'[d][j] = queue[d][j]
    BY <1>2, <2>5, <2>6 DEF Mine
  <2>8. QueueFits(pc[j], q) /\ Ordered(row[j].data.over, q, mem[j].over)
    BY <2>1, <2>4 DEF JobInv, QueueInv
  <2>9. QueueFits(pc[j], Tail(q))
    BY <2>1, <2>4, <2>8, TailFits
  <2>10. Ordered(s.over, Tail(q), mem[j].over) /\ s.over <= mem[j].over
    BY <2>1, <2>4, <2>8, TailOrdered DEF s
  <2>11. QueueInv(j)'
    BY <1>4, <2>1, <2>6, <2>7, <2>9, <2>10 DEF JobInv, QueueInv
  <2>12. LoopInv(j)'
    BY <1>4, <2>6, <2>10 DEF JobInv, LoopInv, Alive
  <2>13. FinalFits(j)'
    <3> DEFINE n == Len(q)
    <3>3. n \in Nat /\ n >= 1 /\ 1 \in 1..n
      BY <2>1, <2>4
    <3>4. s.status \in Terminal => pc[j] = "last"
      BY <2>8, <3>3 DEF QueueFits, s
    <3>5. pc[j] = "last" => n <= 1
      BY <2>8 DEF QueueFits
    <3> HIDE DEF n
    <3>6. n <= 1 => n = 1
      BY <3>3
    <3>1. s.status \in Terminal => pc[j] = "last" /\ Len(q) = 1
      BY <3>4, <3>5, <3>6 DEF n
    <3>2. Len(q) = 1 => Tail(q) = << >>
      <4> DEFINE t == Tail(q)
      <4>1. t \in Seq(Saves) /\ Len(t) = Len(q) - 1
        BY <2>1, <2>4
      <4> HIDE DEF t
      <4>2. Len(t) = 0 => t = << >>
        BY <4>1
      <4> QED
        BY <4>1, <4>2 DEF t
    <3> QED
      BY <1>4, <2>6, <2>7, <3>1, <3>2 DEF FinalFits, Ended
  <2>14. HandsFit(j)'
    BY <1>4, <2>1, HandsOfLiving DEF JobInv
  <2> QED
    BY <2>11, <2>12, <2>13, <2>14 DEF JobInv
<1> QED
  BY <1>5, <1>6

LEMMA WriteFailsKeeps ==
  ASSUME Base, NEW c \in Coordinators, NEW k \in Jobs, WriteFails(c, k),
         NEW j \in Jobs, Stored(j), JobInv(j)
  PROVE  JobInv(j)'
<1>1. /\ queue' = [queue EXCEPT ![c][k] = Tail(@)] /\ queue[c][k] # << >>
      /\ UNCHANGED <<row, mem, pc, hand, round, suspects>>
  BY DEF WriteFails, runVars, coordVars
<1>2. queue \in [Coordinators -> [Jobs -> Seq(Saves)]]
  BY DEF Base, TypeOK
<1>3. SameHands(j) /\ HandsFit(j)'
  BY <1>1, HandsKeep DEF SameHands, JobInv, Alive
<1>4. CASE k # j
  <2>1. Same(j)
    BY <1>1, <1>2, <1>4 DEF Same
  <2> QED
    BY <1>3, <2>1, SameKeeps
<1>5. CASE k = j
  <2> DEFINE q == queue[c][j]
  <2>1. /\ c = Owner(j) /\ q \in Seq(Saves) /\ q # << >>
        /\ row[j].data.over \in Nat /\ mem[j].over \in Nat
    BY <1>1, <1>5, OwnSaves
  <2>2. queue' = [queue EXCEPT ![c][j] = Tail(q)] /\ Mine(j) = q
    BY <1>1, <1>5, <2>1 DEF Mine
  <2> HIDE DEF q
  <2>3. /\ Owner(j)' = c /\ Mine(j)' = Tail(q)
        /\ \A d \in Coordinators : d # c => queue'[d][j] = queue[d][j]
    BY <1>1, <1>2, <2>1, <2>2 DEF Owner, Mine
  <2>4. QueueFits(pc[j], q) /\ Ordered(row[j].data.over, q, mem[j].over)
    BY <2>2 DEF JobInv, QueueInv
  <2>5. QueueFits(pc[j], Tail(q))
    BY <2>1, <2>4, TailFits
  <2>6. Ordered(row[j].data.over, Tail(q), mem[j].over)
    BY <2>1, <2>4, TailOrdered
  <2>7. QueueInv(j)'
    BY <1>1, <2>1, <2>3, <2>5, <2>6 DEF JobInv, QueueInv
  <2>8. LoopInv(j)' /\ FinalFits(j)'
    BY <1>1, <2>1, <2>2 DEF JobInv, LoopInv, FinalFits, Alive, Ended, Stored
  <2> QED
    BY <1>3, <2>7, <2>8 DEF JobInv
<1> QED
  BY <1>4, <1>5

\* A save waits with those of its own job.
LEMMA QueuedOther ==
  ASSUME TypeOK, NEW c, NEW k, NEW by, NEW s,
         NEW j \in Jobs, j # k, NEW d \in Coordinators
  PROVE  Queued(c, k, by, s)[d][j] = queue[d][j]
BY DEF Queued, TypeOK

\* A save of run(), or of one of its tasks.
LEMMA SavingKeeps ==
  ASSUME Base, NEW k \in Jobs, pc[k] \in {"accepted", "pending", "tasks"},
         NEW s \in Snapshots, NEW by \in {"run", "task"},
         NEW next \in {"pending", "tasks", "last"},
         mem' = [mem EXCEPT ![k] = s],
         queue' = Queued(Owner(k), k, by, s),
         pc' = [pc EXCEPT ![k] = next],
         UNCHANGED <<row, hand, round, suspects>>,
         mem[k].over <= s.over,
         s.status \in Terminal <=> next = "last",
         QueueFits(next, Append(Mine(k), [by |-> by, data |-> s])),
         NEW j \in Jobs, Stored(j), JobInv(j)
  PROVE  JobInv(j)'
<1>1. TypeOK /\ Alive(k)
  BY DEF Base, Alive
<1>2. mem[k] \in Snapshots /\ row[k] \in Rows /\ Owner(k) \in Coordinators
  BY <1>1, AliveMem
<1>3. row[k].data \in Snapshots
  BY <1>2 DEF Rows
<1>4. row[k].data.over \in Nat /\ mem[k].over \in Nat /\ s.over \in Nat
  BY <1>2, <1>3, SizesAssumption DEF Snapshots
<1> DEFINE v == [by |-> by, data |-> s]
           q == Mine(k)
<1>5. v \in Saves /\ v.data = s /\ QueueFits(next, Append(q, v))
  BY DEF Saves
<1>6. queue \in [Coordinators -> [Jobs -> Seq(Saves)]] /\ q \in Seq(Saves)
  BY <1>1, <1>2 DEF TypeOK, Mine
<1>7. queue' = [queue EXCEPT ![Owner(k)][k] = Append(q, v)]
  BY DEF Queued, Mine
<1>8. Append(q, v) \in Seq(Saves)
  BY <1>5, <1>6
<1> HIDE DEF v, q
<1>9. mem \in [Jobs -> Snapshots \union {None}] /\ DOMAIN pc = Jobs
  BY <1>1 DEF TypeOK
<1>10. SameHands(j)
  BY DEF SameHands
<1>11. CASE j # k
  <2>1. Same(j)
    BY <1>2, <1>6, <1>7, <1>9, <1>11 DEF Same
  <2>2. HandsFit(j)'
    BY <1>10, <2>1, HandsKeep DEF JobInv, Alive, Same
  <2> QED
    BY <2>1, <2>2, SameKeeps
<1>12. CASE j = k
  <2>1. pc'[j] = next /\ mem'[j] = s /\ row'[j] = row[j] /\ Owner(j)' = Owner(j)
    BY <1>9, <1>12 DEF Owner
  <2>2. /\ Mine(j)' = Append(q, v)
        /\ \A d \in Coordinators : d # Owner(j) => queue'[d][j] = queue[d][j]
    BY <1>2, <1>6, <1>7, <1>8, <1>12, <2>1 DEF Mine
  <2>3. Ordered(row[j].data.over, Append(q, v), s.over)
    <3>1. Ordered(row[j].data.over, q, mem[j].over)
      BY <1>12 DEF JobInv, QueueInv, q
    <3>2. row[j].data.over <= mem[j].over
      BY <1>1, <1>12 DEF JobInv, LoopInv
    <3> QED
      BY <1>4, <1>5, <1>6, <1>12, <3>1, <3>2, AppendOrdered
  <2>4. QueueInv(j)'
    BY <1>5, <2>1, <2>2, <2>3 DEF JobInv, QueueInv
  <2>5. LoopInv(j)'
    <3>1. row[j].data.over <= mem[j].over
      BY <1>1, <1>12 DEF JobInv, LoopInv
    <3> QED
      BY <1>4, <1>12, <2>1, <3>1 DEF LoopInv
  <2>6. FinalFits(j)'
    <3>1. ~Ended(j)
      BY <1>12 DEF JobInv, FinalFits
    <3> QED
      BY <2>1, <3>1 DEF FinalFits, Ended, Stored
  <2>7. HandsFit(j)'
    BY <1>1, <1>10, <1>12, HandsOfLiving DEF JobInv
  <2> QED
    BY <2>4, <2>5, <2>6, <2>7 DEF JobInv
<1> QED
  BY <1>11, <1>12

\* Nothing waits when a loop goes on after its own save, except for tasks' saves.
LEMMA NothingWaits ==
  ASSUME Base, NEW j \in Jobs, Alive(j), JobInv(j), ~Awaits(Owner(j), j, "run"),
         pc[j] = "tasks" => ~Awaits(Owner(j), j, "task")
  PROVE  Mine(j) = << >>
<1> DEFINE q == Mine(j)
<1>1. q \in Seq(Saves)
  BY AliveMem DEF Base, TypeOK, Mine
<1>2. \A i \in 1..Len(q) : q[i] \in Saves
  BY <1>1
<1>3. \A i \in 1..Len(q) : q[i].by \in {"run", "task", "cancel"}
  BY <1>2 DEF Saves
<1>4. \A i \in 1..Len(q) : q[i].by # "run" /\ (pc[j] = "tasks" => q[i].by # "task")
  BY <1>1 DEF Awaits, Mine
<1>5. QueueFits(pc[j], q)
  BY DEF JobInv, QueueInv
<1> HIDE DEF q
<1>6. \A i \in 1..Len(q) : FALSE
  BY <1>3, <1>4, <1>5 DEF QueueFits
<1>7. Len(q) \in Nat
  BY <1>1
<1>8. Len(q) = 0
  BY <1>6, <1>7
<1> QED
  BY <1>1, <1>8 DEF q

\* One save that waits alone.
LEMMA AloneFits ==
  ASSUME NEW s, NEW next \in {"pending", "tasks", "last"},
         s.status \in Terminal <=> next = "last"
  PROVE  QueueFits(next, Append(<< >>, [by |-> "run", data |-> s]))
BY DEF QueueFits

LEMMA RunKeeps ==
  ASSUME Base, NEW k \in Jobs, Run(k) \/ Notice(k),
         NEW j \in Jobs, Stored(j), JobInv(j)
  PROVE  JobInv(j)'
<1>1. CASE j # k
  <2>1. row' = row /\ hand' = hand /\ round' = round /\ suspects' = suspects
    BY DEF Run, RunBegin, RunSkipped, RunStarts, TaskEnds, RunEnds, RunReturns, Notice, Saving,
           coordVars
  <2>2. mem'[j] = mem[j] /\ pc'[j] = pc[j]
    BY <1>1 DEF Base, TypeOK, Run, RunBegin, RunSkipped, RunStarts, TaskEnds, RunEnds,
                RunReturns, Notice, Saving
  <2>3. \A c \in Coordinators : queue'[c][j] = queue[c][j]
    <3>1. queue' = queue \/ \E by, s : queue' = Queued(Owner(k), k, by, s)
      BY DEF Run, RunBegin, RunSkipped, RunStarts, TaskEnds, RunEnds, RunReturns, Notice, Saving
    <3> QED
      BY <1>1, <3>1, QueuedOther DEF Base
  <2>4. Same(j) /\ SameHands(j)
    BY <2>1, <2>2, <2>3 DEF Same, SameHands
  <2>5. HandsFit(j)'
    BY <2>4, HandsKeep DEF JobInv, Same, Alive
  <2> QED
    BY <2>4, <2>5, SameKeeps
<1>2. CASE j = k
  <2> USE <1>2
  <2>1. CASE RunBegin(j)
    <3> DEFINE s == [mem[j] EXCEPT !.status = "PENDING"]
    <3>1. Alive(j) /\ Mine(j) = << >>
      BY <2>1 DEF RunBegin, Alive, JobInv, QueueInv, QueueFits
    <3>2. mem[j] \in Snapshots
      BY <3>1, AliveMem DEF Base
    <3>3. /\ s \in Snapshots /\ s.status \notin Terminal /\ mem[j].over <= s.over
      BY <3>2, SizesAssumption DEF Snapshots, Terminal
    <3>4. /\ pc[j] = "accepted" /\ pc' = [pc EXCEPT ![j] = "pending"]
          /\ mem' = [mem EXCEPT ![j] = s]
          /\ queue' = Queued(Owner(j), j, "run", s)
          /\ UNCHANGED <<row, hand, round, suspects>>
      BY <2>1 DEF RunBegin, Saving, coordVars
    <3> HIDE DEF s
    <3>5. QueueFits("pending", Append(Mine(j), [by |-> "run", data |-> s]))
      BY <3>1, <3>3, AloneFits
    <3> QED
      BY <3>3, <3>4, <3>5, SavingKeeps
  <2>2. CASE RunSkipped(j)
    <3> DEFINE s == [mem[j] EXCEPT !.status = "CANCELLED", !.cancel = TRUE]
    <3>1. Alive(j) /\ Mine(j) = << >>
      BY <2>2, NothingWaits DEF RunSkipped, Alive
    <3>2. mem[j] \in Snapshots
      BY <3>1, AliveMem DEF Base
    <3>3. /\ s \in Snapshots /\ s.status \in Terminal /\ mem[j].over <= s.over
      <4>1. s.status = "CANCELLED" /\ s.over = mem[j].over
        BY <3>2 DEF Snapshots
      <4>2. s \in Snapshots
        BY <3>2 DEF Snapshots, Terminal
      <4>3. mem[j].over <= mem[j].over
        BY <3>2, SizesAssumption DEF Snapshots
      <4> QED
        BY <4>1, <4>2, <4>3 DEF Terminal
    <3>4. /\ pc[j] = "pending" /\ pc' = [pc EXCEPT ![j] = "last"]
          /\ mem' = [mem EXCEPT ![j] = s]
          /\ queue' = Queued(Owner(j), j, "run", s)
          /\ UNCHANGED <<row, hand, round, suspects>>
      BY <2>2 DEF RunSkipped, Saving, coordVars
    <3> HIDE DEF s
    <3>5. QueueFits("last", Append(Mine(j), [by |-> "run", data |-> s]))
      BY <3>1, <3>3, AloneFits
    <3> QED
      BY <3>3, <3>4, <3>5, SavingKeeps
  <2>3. CASE RunStarts(j)
    <3> DEFINE s == [mem[j] EXCEPT !.status = "RUNNING"]
    <3>1. Alive(j) /\ Mine(j) = << >>
      BY <2>3, NothingWaits DEF RunStarts, Alive
    <3>2. mem[j] \in Snapshots
      BY <3>1, AliveMem DEF Base
    <3>3. /\ s \in Snapshots /\ s.status \notin Terminal /\ mem[j].over <= s.over
      BY <3>2, SizesAssumption DEF Snapshots, Terminal
    <3>4. /\ pc[j] = "pending" /\ pc' = [pc EXCEPT ![j] = "tasks"]
          /\ mem' = [mem EXCEPT ![j] = s]
          /\ queue' = Queued(Owner(j), j, "run", s)
          /\ UNCHANGED <<row, hand, round, suspects>>
      BY <2>3 DEF RunStarts, coordVars
    <3> HIDE DEF s
    <3>5. QueueFits("tasks", Append(Mine(j), [by |-> "run", data |-> s]))
      BY <3>1, <3>3, AloneFits
    <3> QED
      BY <3>3, <3>4, <3>5, SavingKeeps
  <2>4. CASE TaskEnds(j)
    <3> DEFINE s == [mem[j] EXCEPT !.over = @ + 1]
               q == Mine(j)
               v == [by |-> "task", data |-> s]
    <3>1. Alive(j) /\ pc[j] = "tasks"
      BY <2>4 DEF TaskEnds, Alive
    <3>2. mem[j] \in Snapshots /\ mem[j].over < NTasks /\ mem[j].status \notin Terminal
      BY <2>4, <3>1, AliveMem DEF Base, TaskEnds, JobInv, LoopInv
    <3>3. /\ s \in Snapshots /\ s.status \notin Terminal /\ mem[j].over <= s.over
      BY <3>2, SizesAssumption DEF Snapshots
    <3>4. /\ pc' = [pc EXCEPT ![j] = "tasks"]
          /\ mem' = [mem EXCEPT ![j] = s]
          /\ queue' = Queued(Owner(j), j, "task", s)
          /\ UNCHANGED <<row, hand, round, suspects>>
      BY <2>4 DEF TaskEnds, Saving, coordVars
    <3>5. q \in Seq(Saves) /\ QueueFits("tasks", q)
      BY <3>1, AliveMem DEF Base, TypeOK, Mine, JobInv, QueueInv
    <3>6. \A i \in 1..Len(q) : q[i].by # "run"
      BY <2>4, <3>5 DEF TaskEnds, Awaits, Mine
    <3>7. v \in Saves /\ v.by = "task" /\ v.data.status \notin Terminal
      BY <3>3 DEF Saves
    <3> HIDE DEF s, q, v
    <3>8. QueueFits("tasks", Append(q, v))
      <4> DEFINE t == Append(q, v)
      <4>1. /\ Len(q) \in Nat /\ Len(t) = Len(q) + 1 /\ t[Len(q) + 1] = v
            /\ \A i \in 1..Len(q) : t[i] = q[i]
        BY <3>5
      <4> HIDE DEF t
      <4>2. \A i \in 1..Len(t) : i \in 1..Len(q) \/ i = Len(q) + 1
        BY <4>1
      <4>3. \A i \in 1..Len(t) :
              \/ t[i].by = "task" /\ t[i].data.status \notin Terminal
              \/ i \in 1..Len(q) /\ t[i] = q[i]
        BY <3>7, <4>1, <4>2
      <4> QED
        BY <3>5, <3>6, <4>3 DEF QueueFits, t
    <3>9. QueueFits("tasks", Append(Mine(j), [by |-> "task", data |-> s]))
      BY <3>8 DEF q, v
    <3> QED
      BY <3>1, <3>3, <3>4, <3>9, SavingKeeps
  <2>5. CASE RunEnds(j)
    <3>1. Alive(j) /\ Mine(j) = << >> /\ pc[j] = "tasks"
      BY <2>5, NothingWaits DEF RunEnds, Alive
    <3>2. PICK f \in Terminal : Saving(j, "run", [mem[j] EXCEPT !.status = f], "last")
      BY <2>5 DEF RunEnds, Terminal
    <3> DEFINE s == [mem[j] EXCEPT !.status = f]
    <3>3. mem[j] \in Snapshots
      BY <3>1, AliveMem DEF Base
    <3>4. /\ s \in Snapshots /\ s.status \in Terminal /\ mem[j].over <= s.over
      BY <3>3, SizesAssumption DEF Snapshots
    <3>5. /\ pc' = [pc EXCEPT ![j] = "last"]
          /\ mem' = [mem EXCEPT ![j] = s]
          /\ queue' = Queued(Owner(j), j, "run", s)
          /\ UNCHANGED <<row, hand, round, suspects>>
      BY <3>2 DEF Saving, coordVars
    <3> HIDE DEF s
    <3>6. QueueFits("last", Append(Mine(j), [by |-> "run", data |-> s]))
      BY <3>1, <3>4, AloneFits
    <3> QED
      BY <3>1, <3>4, <3>5, <3>6, SavingKeeps
  <2>6. CASE RunReturns(j)
    <3>1. Alive(j) /\ pc[j] = "last"
      BY <2>6 DEF RunReturns, Alive
    <3>2. Mine(j) = << >>
      BY <2>6, <3>1, NothingWaits DEF RunReturns
    <3>3. pc' = [pc EXCEPT ![j] = "over"] /\ UNCHANGED <<row, mem, queue, hand, round, suspects>>
      BY <2>6 DEF RunReturns, coordVars
    <3>4. pc'[j] = "over"
      BY <3>3 DEF Base, TypeOK
    <3>5. Mine(j)' = Mine(j) /\ Owner(j)' = Owner(j)
      BY <3>3 DEF Mine, Owner
    <3>6. QueueInv(j)'
      BY <3>2, <3>3, <3>4, <3>5 DEF JobInv, QueueInv, QueueFits
    <3>7. LoopInv(j)' /\ FinalFits(j)'
      BY <3>2, <3>4, <3>5 DEF LoopInv, FinalFits, Alive
    <3>8. HandsFit(j)'
      BY <3>1, <3>3, HandsOfLiving DEF JobInv, SameHands
    <3> QED
      BY <3>6, <3>7, <3>8 DEF JobInv
  <2>7. CASE Notice(j)
    <3>1. Alive(j)
      BY <2>7 DEF Notice, Alive
    <3>2. mem[j] \in Snapshots
      BY <3>1, AliveMem DEF Base
    <3>3. /\ mem' = [mem EXCEPT ![j].cancel = TRUE]
          /\ UNCHANGED <<row, pc, queue, hand, round, suspects>>
      BY <2>7 DEF Notice, coordVars
    <3>4. mem'[j].over = mem[j].over /\ mem'[j].status = mem[j].status
      BY <3>2, <3>3 DEF Base, TypeOK, Snapshots
    <3>5. Mine(j)' = Mine(j) /\ Owner(j)' = Owner(j)
      BY <3>3 DEF Mine, Owner
    <3>6. QueueInv(j)'
      BY <3>3, <3>4, <3>5 DEF JobInv, QueueInv
    <3>7. LoopInv(j)' /\ FinalFits(j)'
      BY <3>3, <3>4, <3>5 DEF JobInv, LoopInv, FinalFits, Alive, Ended, Stored
    <3>8. HandsFit(j)'
      BY <3>1, <3>3, HandsOfLiving DEF JobInv, SameHands
    <3> QED
      BY <3>6, <3>7, <3>8 DEF JobInv
  <2> QED
    BY <2>1, <2>2, <2>3, <2>4, <2>5, <2>6, <2>7 DEF Run
<1> QED
  BY <1>1, <1>2

\* A step that leaves the job and what others have of it alone.
LEMMA AloneKeeps ==
  ASSUME Base, NEW j \in Jobs, Stored(j), JobInv(j), Same(j), SameHands(j)
  PROVE  JobInv(j)'
<1>1. HandsFit(j)'
  BY HandsKeep DEF JobInv, Same, Alive
<1> QED
  BY <1>1, SameKeeps

LEMMA CreateKeeps ==
  ASSUME Base, NEW c \in Coordinators, NEW k \in Jobs, Create(c, k),
         NEW j \in Jobs, Stored(j), JobInv(j)
  PROVE  JobInv(j)'
<1>1. j # k
  BY DEF Create, Accepts, Base, Known
<1>2. Same(j) /\ SameHands(j)
  BY <1>1 DEF Create, Accepts, Base, TypeOK, Same, SameHands, coordVars
<1> QED
  BY <1>2, AloneKeeps

\* The job that is created.
LEMMA CreateBegins ==
  ASSUME Base, NEW c \in Coordinators, NEW j \in Jobs, Create(c, j)
  PROVE  JobInv(j)'
<1> DEFINE s == [status |-> "SPLITTING", cancel |-> FALSE, over |-> 0]
           r == [owner |-> c, cancel |-> FALSE, data |-> s]
<1>1. /\ row' = [row EXCEPT ![j] = r] /\ mem' = [mem EXCEPT ![j] = s]
      /\ pc' = [pc EXCEPT ![j] = "accepted"]
      /\ UNCHANGED <<queue, hand, round, suspects>>
  BY DEF Create, Accepts, coordVars
<1>2. s.status \notin Terminal /\ s.over = 0 /\ r.data = s /\ r.owner = c
  BY DEF Terminal
<1> HIDE DEF s, r
<1>3. row'[j] = r /\ mem'[j] = s /\ pc'[j] = "accepted"
  BY <1>1 DEF Base, TypeOK
<1>4. /\ ~Stored(j) /\ \A d \in Coordinators : queue[d][j] = << >> /\ hand[d][j] = None
      /\ \A d \in Coordinators : j \notin suspects[d]
  BY DEF Create, Accepts, Base, Known
<1>5. Owner(j)' = c /\ Mine(j)' = << >>
  BY <1>1, <1>2, <1>3, <1>4 DEF Owner, Mine
<1>6. QueueInv(j)'
  BY <1>1, <1>4, <1>5, <1>3 DEF QueueInv, QueueFits, Ordered
<1>7. LoopInv(j)'
  BY <1>2, <1>3 DEF LoopInv
<1>8. FinalFits(j)'
  BY <1>2, <1>3 DEF FinalFits, Ended
<1>9. HandsFit(j)'
  BY <1>1, <1>4 DEF HandsFit
<1> QED
  BY <1>6, <1>7, <1>8, <1>9 DEF JobInv

LEMMA CancelKeeps ==
  ASSUME Base, CancelKnown,
         CancelFlag \/ CancelSave \/ (\E c \in Coordinators, k \in Jobs : CancelGet(c, k)),
         NEW j \in Jobs, Stored(j), JobInv(j), ~Excepted(j)'
  PROVE  JobInv(j)'
<1>1. UNCHANGED <<mem, pc, hand, round, suspects>> /\ SameHands(j)
  BY DEF CancelFlag, CancelSave, CancelGet, runVars, coordVars, SameHands
<1>2. row'[j] = row[j]
  <2>1. CASE CancelFlag
    BY <2>1 DEF CancelFlag, Excepted, Base, TypeOK
  <2> QED
    BY <2>1 DEF CancelSave, CancelGet
<1>3. \A d \in Coordinators : queue'[d][j] = queue[d][j]
  <2>1. CASE CancelSave
    <3>1. j # cancel.job
      BY <2>1 DEF CancelSave, CancelKnown, Excepted, pastVars
    <3>2. PICK s : queue' = Queued(cancel.at, cancel.job, "cancel", s)
      BY <2>1 DEF CancelSave
    <3> QED
      BY <2>1, <3>1, <3>2, QueuedOther DEF CancelSave, Base
  <2> QED
    BY <2>1 DEF CancelFlag, CancelGet
<1> QED
  BY <1>1, <1>2, <1>3, AloneKeeps DEF Same

LEMMA StartKeeps ==
  ASSUME Base, NEW c \in Coordinators, Start(c) \/ StartBlind(c) \/ Serve(c),
         NEW j \in Jobs, Stored(j), JobInv(j), ~Excepted(j)'
  PROVE  JobInv(j)'
<1>1. Same(j) /\ UNCHANGED <<round, suspects, row, pc>>
  BY DEF Start, StartBlind, Serve, Same, runVars
<1>2. CASE Start(c)
  <2> DEFINE h == [k \in Jobs |-> IF k \in Unfinished THEN Failed(row[k].data) ELSE None]
  <2>1. hand' = [hand EXCEPT ![c] = h]
    BY <1>2 DEF Start
  <2>2. h[j] # None => ~Alive(j) /\ ~Ended(j) /\ h[j].status = "FAILED" /\ h[j].over = NTasks
    <3>1. j \notin Unfinished => h[j] = None
      OBVIOUS
    <3>2. CASE j \in Unfinished
      <4>1. h[j] = Failed(row[j].data) /\ row[j].data.status \in NonTerminal /\ ~Alive(j)
        BY <1>2, <3>2 DEF Start, Unfinished, Excepted
      <4>2. row[j].data \in Snapshots
        BY DEF Base, TypeOK, Stored, Rows
      <4>3. Failed(row[j].data).status = "FAILED" /\ Failed(row[j].data).over = NTasks
        BY <4>2 DEF Failed, Snapshots
      <4>4. ~Ended(j)
        BY <4>1 DEF Ended, NonTerminal, Terminal
      <4> HIDE DEF h
      <4> QED
        BY <4>1, <4>3, <4>4
    <3> QED
      BY <3>1, <3>2
  <2> HIDE DEF h
  <2>3. \A d \in Coordinators : hand'[d][j] = hand[d][j] \/ hand'[d][j] = h[j]
    BY <2>1 DEF Base, TypeOK
  <2>4. HandsFit(j)'
    BY <1>1, <2>2, <2>3 DEF JobInv, HandsFit, Alive, Ended, Stored
  <2> QED
    BY <1>1, <2>4, SameKeeps
<1>3. CASE ~Start(c)
  <2>1. SameHands(j)
    BY <1>3 DEF StartBlind, Serve, SameHands
  <2> QED
    BY <1>1, <2>1, AloneKeeps
<1> QED
  BY <1>2, <1>3

LEMMA SaveFailedKeeps ==
  ASSUME Base, NEW c \in Coordinators, NEW k \in Jobs, SaveFailed(c, k),
         NEW j \in Jobs, Stored(j), JobInv(j)
  PROVE  JobInv(j)'
<1> DEFINE s == hand[c][k]
<1>1. /\ s \in Snapshots /\ s # None /\ row' = Upserted(k, s) /\ TypeOK
      /\ hand' = [hand EXCEPT ![c][k] = None]
      /\ UNCHANGED <<mem, pc, queue, round, suspects>>
  BY DEF SaveFailed, Base, TypeOK, runVars
<1>2. \A d \in Coordinators : hand'[d][j] = hand[d][j] \/ hand'[d][j] = None
  BY <1>1 DEF TypeOK
<1>3. CASE k # j
  <2>1. Same(j) /\ SameHands(j)
    BY <1>1, <1>3 DEF Same, SameHands, Upserted, TypeOK
  <2> QED
    BY <2>1, AloneKeeps
<1>4. CASE k = j
  <2>1. ~Alive(j) /\ s.status = "FAILED" /\ s.over = NTasks
    BY <1>1, <1>4 DEF JobInv, HandsFit
  <2> HIDE DEF s
  <2>2. row'[j].data = s /\ Owner(j)' = Owner(j)
    <3>0. s \in Snapshots /\ TypeOK
      BY <1>1
    <3>1. Upserted(j, s)[j] = [owner |-> Owner(j), cancel |-> s.cancel, data |-> s]
      BY ONLY <3>0, Stored(j), UpsertedRow, j \in Jobs, ZenonT(60)
    <3> QED
      BY <1>1, <1>4, <3>1 DEF Owner
  <2>3. pc[j] \in {"over", "dead"}
    BY <2>1 DEF Base, Known, TypeOK, Alive
  <2>4. Mine(j) = << >> /\ Mine(j)' = Mine(j)
    BY <1>1, <2>2, <2>3 DEF JobInv, QueueInv, QueueFits, Mine
  <2>5. QueueInv(j)'
    BY <1>1, <2>2, <2>3, <2>4 DEF JobInv, QueueInv, QueueFits, Ordered
  <2>6. LoopInv(j)' /\ FinalFits(j)'
    BY <1>1, <2>3, <2>4 DEF LoopInv, FinalFits, Alive
  <2>7. HandsFit(j)'
    BY <1>1, <1>2, <2>1, <2>2 DEF JobInv, HandsFit, Alive, Ended
  <2> QED
    BY <2>5, <2>6, <2>7 DEF JobInv
<1> QED
  BY <1>3, <1>4

LEMMA ReconcileKeeps ==
  ASSUME Base, OwnerBeats, NEW c \in Coordinators,
         \/ BeatAndList(c) \/ FreshIds(c) \/ FreshIdsFail(c) \/ RoundEnds(c)
         \/ \E k \in Jobs : ReadOrphan(c, k),
         NEW j \in Jobs, Stored(j), JobInv(j), ~Excepted(j)'
  PROVE  JobInv(j)'
<1>1. Same(j) /\ UNCHANGED <<row, pc>>
  BY DEF BeatAndList, FreshIds, FreshIdsFail, RoundEnds, ReadOrphan, Same, runVars
<1>2. CASE BeatAndList(c) \/ RoundEnds(c)
  <2>1. SameHands(j)
    BY <1>2 DEF BeatAndList, RoundEnds, SameHands, Base, TypeOK
  <2> QED
    BY <1>1, <2>1, AloneKeeps
<1>3. CASE FreshIds(c) \/ FreshIdsFail(c)
  <2>1. hand' = hand /\ \A d \in Coordinators :
          d # c => round'[d] = round[d] /\ suspects'[d] = suspects[d]
    BY <1>3 DEF FreshIds, FreshIdsFail, Suspect, Base, TypeOK
  <2>2. j \in suspects'[c] => ~Alive(j)
    <3>1. CASE FreshIds(c)
      <4>1. suspects'[c] = Orphans(c, fresh) /\ late' = late
        BY <3>1 DEF FreshIds, Suspect, Base, TypeOK, pastVars
      <4>2. j \in suspects'[c] => Owner(j) \notin fresh
        BY <4>1 DEF Orphans, Living
      <4>3. Owner(j) \notin late
        BY <1>1, <4>1 DEF Excepted, Owner
      <4> QED
        BY <4>2, <4>3 DEF OwnerBeats
    <3>2. CASE FreshIdsFail(c)
      <4>1. suspects'[c] = Orphans(c, {})
        BY <3>2 DEF FreshIdsFail, Suspect, Base, TypeOK
      <4>2. j \in suspects'[c] => Owner(j) # c
        BY <4>1 DEF Orphans, Living
      <4>3. Alive(j) /\ Owner(j) # c => j \in excused'
        BY <3>2 DEF FreshIdsFail
      <4> QED
        BY <4>2, <4>3 DEF Excepted
    <3> QED
      BY <1>3, <3>1, <3>2
  <2>3. HandsFit(j)'
    BY <1>1, <2>1, <2>2 DEF JobInv, HandsFit, Alive, Ended, Stored
  <2> QED
    BY <1>1, <2>3, SameKeeps
<1>4. CASE \E k \in Jobs : ReadOrphan(c, k)
  <2>1. PICK k \in Jobs : ReadOrphan(c, k)
    BY <1>4
  <2>2. round' = round /\ \A d \in Coordinators : suspects'[d] \subseteq suspects[d]
    BY <2>1 DEF ReadOrphan, Base, TypeOK
  <2>3. CASE k # j \/ ~StillOpen(k)
    <3>1. \A d \in Coordinators : hand'[d][j] = hand[d][j]
      <4>1. CASE hand' = hand
        BY <4>1
      <4>2. CASE hand' # hand
        <5>1. PICK h : k # j /\ hand' = [hand EXCEPT ![c][k] = h]
          BY <2>1, <2>3, <4>2 DEF ReadOrphan
        <5> QED
          BY <5>1 DEF Base, TypeOK
      <4> QED
        BY <4>1, <4>2
    <3>2. SameHands(j)
      BY <2>2, <3>1 DEF SameHands
    <3> QED
      BY <1>1, <3>2, AloneKeeps
  <2>4. CASE k = j /\ StillOpen(k)
    <3> DEFINE r == [row[j].data EXCEPT !.cancel = row[j].cancel]
               h == Failed(r)
    <3>1. r \in Snapshots
      <4>1. row[j] \in Rows
        BY DEF Base, TypeOK, Stored
      <4> QED
        BY <4>1 DEF Rows, Snapshots
    <3> HIDE DEF r
    <3>2. h.status = "FAILED" /\ h.over = NTasks
      BY <3>1 DEF Failed, Snapshots
    <3>3. hand' = [hand EXCEPT ![c][j] = h]
      BY <2>1, <2>4 DEF ReadOrphan, r
    <3> HIDE DEF h
    <3>4. \A d \in Coordinators : hand'[d][j] = hand[d][j] \/ hand'[d][j] = h
      BY <3>3 DEF Base, TypeOK
    <3>5. ~Alive(j)
      BY <2>1, <2>4 DEF ReadOrphan, JobInv, HandsFit
    <3>6. ~Ended(j)
      BY <2>4 DEF StillOpen, Ended, NonTerminal, Terminal
    <3>7. HandsFit(j)'
      BY <1>1, <2>2, <3>2, <3>4, <3>5, <3>6 DEF JobInv, HandsFit, Alive, Ended, Stored
    <3> QED
      BY <1>1, <3>7, SameKeeps
  <2> QED
    BY <2>3, <2>4
<1> QED
  BY <1>2, <1>3, <1>4

LEMMA CrashKeeps ==
  ASSUME Base, NEW c \in Coordinators, Crash(c),
         NEW j \in Jobs, Stored(j), JobInv(j)
  PROVE  JobInv(j)'
<1>1. /\ UNCHANGED <<row, mem>>
      /\ pc'[j] = IF Alive(j) /\ Owner(j) = c THEN "dead" ELSE pc[j]
      /\ \A d \in Coordinators : queue'[d][j] = IF d = c THEN << >> ELSE queue[d][j]
      /\ \A d \in Coordinators : hand'[d][j] = IF d = c THEN None ELSE hand[d][j]
      /\ \A d \in Coordinators : d # c => round'[d] = round[d] /\ suspects'[d] = suspects[d]
      /\ round'[c] # "each"
  BY DEF Crash, Forgotten, NoJobs, Base, TypeOK
<1>2. Owner(j)' = Owner(j) /\ Owner(j) \in Coordinators
  BY <1>1 DEF Owner, Base, TypeOK, Stored, Rows
<1>3. Mine(j)' = IF Owner(j) = c THEN << >> ELSE Mine(j)
  BY <1>1, <1>2 DEF Mine
<1>4. Alive(j)' => Alive(j) /\ Owner(j) # c /\ pc'[j] = pc[j]
  BY <1>1 DEF Alive
<1>5. QueueInv(j)'
  <2>1. QueueFits(pc'[j], Mine(j)')
    <3>1. CASE Owner(j) = c
      BY <1>3, <3>1 DEF QueueFits
    <3>2. CASE Owner(j) # c
      BY <1>1, <1>3, <3>2 DEF JobInv, QueueInv
    <3> QED
      BY <3>1, <3>2
  <2>2. Ordered(row'[j].data.over, Mine(j)', mem'[j].over)
    <3>1. CASE Owner(j) = c
      BY <1>3, <3>1 DEF Ordered
    <3>2. CASE Owner(j) # c
      BY <1>1, <1>3, <3>2 DEF JobInv, QueueInv
    <3> QED
      BY <3>1, <3>2
  <2> QED
    BY <1>1, <1>2, <2>1, <2>2 DEF JobInv, QueueInv
<1>6. LoopInv(j)' /\ FinalFits(j)'
  BY <1>1, <1>3, <1>4 DEF JobInv, LoopInv, FinalFits, Ended, Stored
<1>7. HandsFit(j)'
  BY <1>1, <1>4 DEF JobInv, HandsFit, Ended, Stored
<1> QED
  BY <1>5, <1>6, <1>7 DEF JobInv

LEMMA ExpireKeeps ==
  ASSUME Base, NEW c \in Coordinators, Expire(c),
         NEW j \in Jobs, Stored(j), JobInv(j)
  PROVE  JobInv(j)'
<1>1. Same(j) /\ SameHands(j)
  BY DEF Expire, Same, SameHands, runVars, coordVars
<1> QED
  BY <1>1, AloneKeeps

-----------------------------------------------------------------------------
(***************************************************************************)
(* The invariant.                                                          *)
(***************************************************************************)

\* What no step undoes.
LEMMA StepFrame ==
  ASSUME Base, [Next]_vars, NEW j \in Jobs, Stored(j)
  PROVE  Owner(j)' = Owner(j) /\ (Excepted(j) => Excepted(j)')
<1>1. excused \subseteq excused' /\ late \subseteq late'
  <2>1. CASE CancelFlag
    BY <2>1 DEF CancelFlag
  <2>2. ASSUME NEW c \in Coordinators, Start(c) \/ FreshIdsFail(c) \/ Expire(c)
        PROVE  excused \subseteq excused' /\ late \subseteq late'
    BY <2>2 DEF Start, FreshIdsFail, Expire
  <2>3. ASSUME NEW c \in Coordinators, NEW k \in Jobs, Create(c, k)
        PROVE  excused \subseteq excused' /\ late \subseteq late'
    BY <2>3 DEF Create, Accepts
  <2>4. CASE UNCHANGED <<excused, late>>
    BY <2>4
  <2> QED
    BY <2>1, <2>2, <2>3, <2>4
       DEF Next, Run, Recovery, RunBegin, RunSkipped, RunStarts, TaskEnds, RunEnds, RunReturns,
           Saving, Notice, CancelSave, CancelGet, Serve, BeatAndList, FreshIds, RoundEnds,
           ReadOrphan, SaveFailed, StartBlind, Crash, Write, WriteFails, vars, pastVars
<1>2. Owner(j)' = Owner(j)
  <2>1. row' = row
        \/ (\E k \in Jobs : \E s : row' = Upserted(k, s))
        \/ (\E c \in Coordinators, k \in Jobs : Create(c, k))
        \/ CancelFlag
    <3>1. ASSUME NEW k \in Jobs, Run(k) \/ Notice(k) PROVE row' = row
      BY <3>1 DEF Run, RunBegin, RunSkipped, RunStarts, TaskEnds, RunEnds, RunReturns, Saving, Notice
    <3>2. CASE CancelSave
      BY <3>2 DEF CancelSave
    <3>3. ASSUME NEW c \in Coordinators,
                 \/ Serve(c) \/ BeatAndList(c) \/ FreshIds(c) \/ RoundEnds(c)
                 \/ (\E k \in Jobs : ReadOrphan(c, k))
          PROVE  row' = row
      BY <3>3 DEF Serve, BeatAndList, FreshIds, RoundEnds, ReadOrphan
    <3>4. ASSUME NEW c \in Coordinators, Start(c) \/ StartBlind(c) \/ FreshIdsFail(c) \/ Crash(c) \/ Expire(c)
          PROVE  row' = row
      BY <3>4 DEF Start, StartBlind, FreshIdsFail, Crash, Expire
    <3>5. ASSUME NEW c \in Coordinators, NEW k \in Jobs, CancelGet(c, k) \/ WriteFails(c, k)
          PROVE  row' = row
      BY <3>5 DEF CancelGet, Accepts, WriteFails
    <3>6. ASSUME NEW c \in Coordinators, NEW k \in Jobs, SaveFailed(c, k) \/ Write(c, k)
          PROVE  \E s : row' = Upserted(k, s)
      BY <3>6 DEF SaveFailed, Write
    <3>7. CASE UNCHANGED vars
      BY <3>7 DEF vars
    <3> QED
      BY <3>1, <3>2, <3>3, <3>4, <3>5, <3>6, <3>7 DEF Next, Recovery
  <2>2. row \in [Jobs -> Rows \union {None}] /\ row[j] \in Rows
    BY DEF Base, TypeOK, Stored
  <2>3. ASSUME NEW k \in Jobs, NEW s, row' = Upserted(k, s) PROVE Owner(j)' = Owner(j)
    BY <2>2, <2>3 DEF Upserted, Owner, Rows
  <2>4. ASSUME NEW c \in Coordinators, NEW k \in Jobs, Create(c, k) PROVE Owner(j)' = Owner(j)
    <3>1. k # j
      BY <2>4 DEF Create, Accepts, Base, Known
    <3> QED
      BY <2>2, <2>4, <3>1 DEF Create, Accepts, Owner
  <2>5. CASE CancelFlag
    BY <2>2, <2>5 DEF CancelFlag, Owner, Rows
  <2> QED
    BY <2>1, <2>3, <2>4, <2>5 DEF Owner
<1> QED
  BY <1>1, <1>2 DEF Excepted

LEMMA StepCancelKnown == ASSUME Base, CancelKnown, [Next]_vars PROVE CancelKnown'
<1>1. CASE CancelFlag \/ CancelSave
  BY <1>1 DEF Base, TypeOK, CancelKnown, CancelFlag, CancelSave
<1>2. CASE \E c \in Coordinators, j \in Jobs : CancelGet(c, j)
  BY <1>2 DEF CancelKnown, CancelGet
<1>3. CASE cancel' = cancel /\ excused \subseteq excused'
  BY <1>3 DEF CancelKnown
<1>4. CASE \E c \in Coordinators : Crash(c)
  BY <1>4 DEF CancelKnown, Crash, pastVars
<1>5. ASSUME NEW k \in Jobs, Run(k) \/ Notice(k) PROVE cancel' = cancel /\ excused' = excused
  BY <1>5 DEF Run, RunBegin, RunSkipped, RunStarts, TaskEnds, RunEnds, RunReturns, Saving, Notice,
              pastVars
<1>6. ASSUME NEW c \in Coordinators,
             \/ Serve(c) \/ BeatAndList(c) \/ FreshIds(c) \/ RoundEnds(c)
             \/ (\E k \in Jobs : ReadOrphan(c, k) \/ SaveFailed(c, k))
      PROVE  cancel' = cancel /\ excused' = excused
  BY <1>6 DEF Serve, BeatAndList, FreshIds, RoundEnds, ReadOrphan, SaveFailed, pastVars
<1>7. ASSUME NEW c \in Coordinators, Start(c) \/ StartBlind(c) \/ FreshIdsFail(c) \/ Expire(c)
      PROVE  cancel' = cancel /\ excused \subseteq excused'
  BY <1>7 DEF Start, StartBlind, FreshIdsFail, Expire, pastVars
<1>8. ASSUME NEW c \in Coordinators, NEW k \in Jobs, Create(c, k) \/ Write(c, k) \/ WriteFails(c, k)
      PROVE  cancel' = cancel /\ excused \subseteq excused'
  BY <1>8 DEF Create, Accepts, Write, WriteFails, pastVars
<1>9. CASE UNCHANGED vars
  BY <1>9 DEF vars, CancelKnown, pastVars
<1> QED
  BY <1>1, <1>2, <1>3, <1>4, <1>5, <1>6, <1>7, <1>8, <1>9 DEF Next, Recovery

LEMMA StepOwnerBeats == ASSUME Base, OwnerBeats, [Next]_vars PROVE OwnerBeats'
<1> SUFFICES ASSUME NEW j \in Jobs, Alive(j)'
             PROVE  (Owner(j) \in fresh \union late)'
  BY DEF OwnerBeats
<1>1. CASE \E c \in Coordinators : Create(c, j)
  <2>1. PICK c \in Coordinators : Create(c, j)
    BY <1>1
  <2>2. row'[j] = [owner |-> c, cancel |-> FALSE,
                   data |-> [status |-> "SPLITTING", cancel |-> FALSE, over |-> 0]]
    BY <2>1 DEF Create, Accepts, Base, TypeOK
  <2> QED
    BY <2>1, <2>2 DEF Create, Accepts, Owner
<1>2. CASE ~\E c \in Coordinators : Create(c, j)
  <2>1. Alive(j)
    <3>1. CASE \E k \in Jobs : Run(k) \/ Notice(k)
      BY <3>1 DEF Run, RunBegin, RunSkipped, RunStarts, TaskEnds, RunEnds, RunReturns,
                  Saving, Notice, Base, TypeOK, Alive
    <3>2. CASE \E c \in Coordinators, k \in Jobs : Create(c, k)
      BY <1>2, <3>2 DEF Create, Accepts, Base, TypeOK, Alive
    <3>3. CASE \E c \in Coordinators : Crash(c)
      BY <3>3 DEF Crash, Alive
    <3>4. CASE pc' = pc
      BY <3>4 DEF Alive
    <3> QED
      BY <3>1, <3>2, <3>3, <3>4
         DEF Next, Recovery, CancelFlag, CancelSave, CancelGet, Serve, BeatAndList, FreshIds,
             RoundEnds, ReadOrphan, SaveFailed, Start, StartBlind, FreshIdsFail, Expire, Write,
             WriteFails, vars, runVars
  <2>2. Stored(j) /\ stage[Owner(j)] = "serving" /\ Owner(j) \in fresh \union late
    BY <2>1 DEF Base, TypeOK, Placed, OwnerBeats, Owner
  <2>3. Owner(j)' = Owner(j)
    BY <2>2, StepFrame
  <2>4. CASE \E c \in Coordinators : Expire(c)
    BY <2>2, <2>3, <2>4 DEF Expire
  <2>5. CASE \E c \in Coordinators : BeatAndList(c)
    BY <2>2, <2>3, <2>5 DEF BeatAndList, pastVars
  <2>6. CASE \E c \in Coordinators, k \in Jobs : Create(c, k)
    BY <2>2, <2>3, <2>6 DEF Create, Accepts
  <2>7. CASE UNCHANGED <<fresh, late>>
    BY <2>2, <2>3, <2>7
  <2> QED
    BY <2>4, <2>5, <2>6, <2>7
       DEF Next, Run, Recovery, RunBegin, RunSkipped, RunStarts, TaskEnds, RunEnds, RunReturns,
           Saving, Notice, CancelFlag, CancelSave, CancelGet, Serve, FreshIds, RoundEnds,
           ReadOrphan, SaveFailed, Start, StartBlind, FreshIdsFail, Crash, Write, WriteFails,
           vars, pastVars
<1> QED
  BY <1>1, <1>2

LEMMA StepJobs == ASSUME IInv, [Next]_vars PROVE JobsInv'
<1> SUFFICES ASSUME NEW j \in Jobs, Stored(j)', ~Excepted(j)'
             PROVE  JobInv(j)'
  BY DEF JobsInv
<1>0. Base
  BY DEF IInv, Base
<1>1. CASE ~Stored(j)
  <2>1. \E c \in Coordinators : Create(c, j)
    <3>1. pc[j] = "none"
      BY <1>0, <1>1 DEF Base, Known
    <3>2. Base'
      BY <1>0, StepBase
    <3>3. pc'[j] # "none"
      BY <3>2 DEF Base, Known
    <3>4. CASE \E k \in Jobs : Run(k) \/ Notice(k)
      BY <1>0, <3>1, <3>3, <3>4
         DEF Run, RunBegin, RunSkipped, RunStarts, TaskEnds, RunEnds, RunReturns, Saving, Notice,
             Base, TypeOK
    <3>5. CASE \E c \in Coordinators, k \in Jobs : Create(c, k)
      BY <1>0, <3>1, <3>3, <3>5 DEF Create, Accepts, Base, TypeOK
    <3>6. CASE \E c \in Coordinators : Crash(c)
      BY <3>1, <3>3, <3>6 DEF Crash, Alive
    <3>7. CASE pc' = pc
      BY <3>1, <3>3, <3>7
    <3> QED
      BY <3>4, <3>5, <3>6, <3>7
         DEF Next, Recovery, CancelFlag, CancelSave, CancelGet, Serve, BeatAndList, FreshIds,
             RoundEnds, ReadOrphan, SaveFailed, Start, StartBlind, FreshIdsFail, Expire, Write,
             WriteFails, vars, runVars
  <2> QED
    BY <1>0, <2>1, CreateBegins
<1>2. CASE Stored(j)
  <2>1. JobInv(j)
    BY <1>0, <1>2, StepFrame DEF IInv, JobsInv
  <2> USE <1>0, <1>2, <2>1
  <2>2. CASE \E k \in Jobs : Run(k) \/ Notice(k)
    BY <2>2, RunKeeps
  <2>3. CASE CancelFlag \/ CancelSave
    BY <2>3, CancelKeeps DEF IInv
  <2>4. ASSUME NEW c \in Coordinators,
               Recovery(c) \/ Start(c) \/ StartBlind(c) \/ FreshIdsFail(c) \/ Crash(c) \/ Expire(c)
        PROVE  JobInv(j)'
    <3>1. OwnerBeats
      BY DEF IInv
    <3> QED
      BY <2>4, <3>1, StartKeeps, SaveFailedKeeps, ReconcileKeeps, CrashKeeps, ExpireKeeps
         DEF Recovery
  <2>5. ASSUME NEW c \in Coordinators, NEW k \in Jobs,
               Create(c, k) \/ CancelGet(c, k) \/ Write(c, k) \/ WriteFails(c, k)
        PROVE  JobInv(j)'
    <3>1. CancelKnown
      BY DEF IInv
    <3> QED
      BY <2>5, <3>1, CreateKeeps, CancelKeeps, WriteKeeps, WriteFailsKeeps
  <2>6. CASE UNCHANGED vars
    <3>1. Same(j) /\ SameHands(j)
      BY <2>6 DEF vars, runVars, coordVars, Same, SameHands
    <3> QED
      BY <3>1, AloneKeeps
  <2> QED
    BY <2>2, <2>3, <2>4, <2>5, <2>6 DEF Next
<1> QED
  BY <1>1, <1>2

THEOREM Invariance == Spec => []IInv
<1>1. Init => IInv
  <2> SUFFICES ASSUME Init PROVE IInv
    OBVIOUS
  <2>1. Base
    BY InitBase
  <2>2. \A j \in Jobs : ~Alive(j) /\ ~Stored(j)
    BY DEF Init, Alive, Stored, NoJobs
  <2>3. CancelKnown
    BY DEF Init, CancelKnown
  <2> QED
    BY <2>1, <2>2, <2>3 DEF IInv, Base, OwnerBeats, JobsInv
<1>2. IInv /\ [Next]_vars => IInv'
  <2> SUFFICES ASSUME IInv, [Next]_vars PROVE IInv'
    OBVIOUS
  <2>1. Base /\ OwnerBeats /\ CancelKnown
    BY DEF IInv, Base
  <2> QED
    BY <2>1, StepBase, StepOwnerBeats, StepCancelKnown, StepJobs DEF IInv, Base
<1> QED
  BY <1>1, <1>2, PTL DEF Spec

\* The types; and what a coordinator's process was doing ends with it: no save waits, no
\* cancel handler works and no job runs where the process has gone.
THEOREM Types == Spec => []TypeOK
<1>1. IInv => TypeOK
  BY DEF IInv
<1> QED
  BY <1>1, Invariance, PTL

\* The periodic reconciliation fails no job that is alive.
THEOREM EndedJobsAreOver == Spec => []EndedMeansOver
<1>1. IInv => EndedMeansOver
  BY DEF IInv, EndedMeansOver, JobsInv, JobInv, FinalFits, Excepted, Ended, Alive
<1> QED
  BY <1>1, Invariance, PTL

\* How the row of a job changes, if nobody is excepted.
LEMMA RowSteps ==
  ASSUME IInv, [Next]_vars, NEW j \in Jobs, Stored(j), ~Excepted(j)
  PROVE  /\ Ended(j) => row'[j].data.status = row[j].data.status
         /\ row[j].data.over \in Nat /\ row'[j].data.over \in Nat
         /\ row[j].data.over <= row'[j].data.over
<1>0. Base /\ JobInv(j) /\ TypeOK
  BY DEF IInv, Base, JobsInv
<1>1. row[j] \in Rows /\ row[j].data \in Snapshots /\ row \in [Jobs -> Rows \union {None}]
  BY <1>0 DEF TypeOK, Stored, Rows
<1>2. row[j].data.over \in 0..NTasks
  BY <1>1 DEF Snapshots
<1>3. ASSUME NEW c \in Coordinators, NEW k \in Jobs, Write(c, k), k = j
      PROVE  /\ ~Ended(j) /\ row'[j].data.over \in Nat
             /\ row[j].data.over <= row'[j].data.over
  <2> DEFINE q == queue[c][j]
  <2>1. q \in Seq(Saves)
    BY <1>0 DEF TypeOK
  <2>2. PICK i \in Turn(q) : row' = Upserted(j, q[i].data)
    BY <1>3 DEF Write
  <2>3. i = 1 /\ q # << >>
    BY <2>1, TurnIsHead
  <2>4. /\ c = Owner(j) /\ row[j].data.over \in Nat /\ mem[j].over \in Nat
    BY <1>0, <2>3, OwnSaves
  <2>5. row'[j].data = q[1].data
    <3>1. row' = Upserted(j, q[1].data)
      BY <2>2, <2>3
    <3> HIDE DEF q
    <3> QED
      BY <1>1, <3>1 DEF Upserted, Rows
  <2> HIDE DEF q
  <2>6. Ordered(row[j].data.over, q, mem[j].over)
    BY <1>0, <2>4 DEF JobInv, QueueInv, Mine, q
  <2>7. row[j].data.over <= q[1].data.over
    BY <2>1, <2>3, <2>4, <2>6, TailOrdered
  <2>8. ~Ended(j)
    BY <1>0, <2>3, <2>4 DEF JobInv, FinalFits, Mine, q
  <2>9. q[1].data.over \in Nat
    <3>1. q[1] \in Saves
      BY <2>1, <2>3
    <3> QED
      BY <3>1, SaveFields
  <2> QED
    BY <2>5, <2>7, <2>8, <2>9
<1>4. ASSUME NEW c \in Coordinators, NEW k \in Jobs, SaveFailed(c, k), k = j
      PROVE  /\ row[j].data.over <= row'[j].data.over /\ row'[j].data.over \in Nat
             /\ Ended(j) => row'[j].data.status = row[j].data.status
  <2>1. /\ hand[c][j].status = "FAILED" /\ hand[c][j].over = NTasks
        /\ Ended(j) => row[j].data.status = "FAILED"
    BY <1>0, <1>4 DEF SaveFailed, JobInv, HandsFit
  <2>2. row'[j].data = hand[c][j]
    BY <1>1, <1>4 DEF SaveFailed, Upserted, Rows
  <2> QED
    BY <1>2, <2>1, <2>2, SizesAssumption
<1>5. ASSUME NEW k \in Jobs, k # j, NEW s, row' = Upserted(k, s)
      PROVE  row'[j].data = row[j].data
  BY <1>1, <1>5 DEF Upserted
<1>6. ASSUME NEW c \in Coordinators, NEW k \in Jobs, Create(c, k)
      PROVE  row'[j].data = row[j].data
  <2>1. k # j
    BY <1>0, <1>6 DEF Create, Accepts, Base, Known
  <2> QED
    BY <1>1, <1>6, <2>1 DEF Create, Accepts
<1>7. ASSUME CancelFlag PROVE row'[j].data = row[j].data
  <2>1. row'[j] = IF j = cancel.job THEN [row[j] EXCEPT !.cancel = TRUE] ELSE row[j]
    BY <1>1, <1>7 DEF CancelFlag
  <2>2. [row[j] EXCEPT !.cancel = TRUE].data = row[j].data
    BY <1>1 DEF Rows
  <2>3. CASE j = cancel.job
    BY <2>1, <2>2, <2>3
  <2>4. CASE j # cancel.job
    BY <2>1, <2>4
  <2> QED
    BY <2>3, <2>4
<1>8. \/ row' = row
      \/ (\E c \in Coordinators, k \in Jobs : Create(c, k) \/ Write(c, k) \/ SaveFailed(c, k))
      \/ CancelFlag
  BY DEF Next, Run, Recovery, RunBegin, RunSkipped, RunStarts, TaskEnds, RunEnds, RunReturns,
         Saving, Notice, CancelSave, CancelGet, Serve, BeatAndList, FreshIds, RoundEnds,
         ReadOrphan, Start, StartBlind, FreshIdsFail, Crash, Expire, WriteFails, vars
<1>9. ASSUME NEW c \in Coordinators, NEW k \in Jobs, Write(c, k) \/ SaveFailed(c, k), k # j
      PROVE  row'[j].data = row[j].data
  BY <1>5, <1>9 DEF Write, SaveFailed
<1>10. row'[j].data = row[j].data \/ \E c \in Coordinators : Write(c, j) \/ SaveFailed(c, j)
  <2>1. row' = row => row'[j].data = row[j].data
    OBVIOUS
  <2>2. CASE \E c \in Coordinators, k \in Jobs : Create(c, k) \/ Write(c, k) \/ SaveFailed(c, k)
    <3>1. PICK c \in Coordinators, k \in Jobs : Create(c, k) \/ Write(c, k) \/ SaveFailed(c, k)
      BY <2>2
    <3>2. CASE k = j /\ ~Create(c, k)
      BY <3>1, <3>2, Zenon
    <3>3. CASE k # j \/ Create(c, k)
      BY <1>6, <1>9, <3>1, <3>3, Zenon
    <3> QED
      BY <3>2, <3>3
  <2> QED
    BY <1>7, <1>8, <2>1, <2>2, Zenon
<1>11. row[j].data.over \in Nat /\ row[j].data.over <= row[j].data.over
  BY <1>2, SizesAssumption
<1> QED
  BY <1>3, <1>4, <1>10, <1>11

\* A final status stays.
THEOREM FinalStatusKept == Spec => FinalKept
<1>1. IInv /\ [Next]_vars =>
        [\A j \in Jobs : Ended(j) /\ row'[j].data.status # row[j].data.status
                         => j \in excused \/ Owner(j) \in late]_vars
  <2> SUFFICES ASSUME IInv, [Next]_vars, NEW j \in Jobs, Ended(j), ~Excepted(j)
               PROVE  row'[j].data.status = row[j].data.status
    BY DEF Excepted
  <2>1. Stored(j)
    BY DEF Ended
  <2> QED
    BY <2>1, RowSteps
<1> QED
  BY <1>1, Invariance, PTL DEF Spec, FinalKept

\* No task that has ended is shown as unfinished again.
THEOREM NoTaskRegresses == Spec => NoRegress
<1>1. IInv /\ [Next]_vars =>
        [\A j \in Jobs : Stored(j) /\ row'[j].data.over < row[j].data.over
                         => j \in excused \/ Owner(j) \in late]_vars
  <2> SUFFICES ASSUME IInv, [Next]_vars, NEW j \in Jobs, Stored(j), ~Excepted(j)
               PROVE  ~(row'[j].data.over < row[j].data.over)
    BY DEF Excepted
  <2> DEFINE n == row[j].data.over
             m == row'[j].data.over
  <2>1. n \in Nat /\ m \in Nat /\ n <= m
    BY RowSteps
  <2> HIDE DEF n, m
  <2>2. ~(m < n)
    BY <2>1
  <2> QED
    BY <2>2 DEF n, m
<1> QED
  BY <1>1, Invariance, PTL DEF Spec, NoRegress

=============================================================================
