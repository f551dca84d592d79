------------------------------ MODULE RowProofs ------------------------------
(***************************************************************************)
(* What clients see of a job is as RowPromise says, for every set of       *)
(* coordinators and jobs and every number of tasks, cancels and faults.    *)
(***************************************************************************)
EXTENDS SharedStoreProofs

-----------------------------------------------------------------------------
(***************************************************************************)
(* The inductive invariant, on top of that of SharedStoreProofs.           *)
(***************************************************************************)

Outcomes == {"DONE", "PARTIAL", "FAILED"}
Rank(s)  == Promise!Rank(s)

\* The loop's own copy has the status that goes with where the loop stands, p.
CopyFits(p, s) ==
  /\ p = "accepted" => s.status = "SPLITTING"
  /\ p = "pending"  => s.status = "PENDING"
  /\ p = "tasks"    => s.status = "RUNNING"
  /\ p = "last"     => s.status \in Outcomes /\ s.over = NTasks

\* What waits, q, says the same as the loop's own copy, s.
QueueSays(p, q, s) ==
  \A i \in 1..Len(q) :
    /\ ~q[i].data.cancel
    /\ q[i].data.status = s.status
    /\ p = "last" => q[i].data.over = NTasks

\* Nobody has cancelled the job, and the row is behind the loop.
LoopWord(j) ==
  Alive(j) =>
    /\ ~row[j].cancel /\ ~mem[j].cancel
    /\ CopyFits(pc[j], mem[j])
    /\ QueueSays(pc[j], Mine(j), mem[j])
    /\ Rank(row[j].data.status) <= Rank(mem[j].status)

\* A final row tells of all tasks.
FinalWord(j) == Ended(j) => row[j].data.status \in Outcomes /\ row[j].data.over = NTasks

\* The last word waits, or has been written, or is lost.
LastWord(j) ==
  pc[j] = "over" \/ (pc[j] = "last" /\ Mine(j) = << >>) => Ended(j) \/ j \in abandoned

WordInv(j) == LoopWord(j) /\ FinalWord(j) /\ LastWord(j)

WordsInv == \A j \in Jobs : Stored(j) /\ ~Excepted(j) => WordInv(j)

-----------------------------------------------------------------------------
(***************************************************************************)
(* What a step leaves alone.                                               *)
(***************************************************************************)

\* A loop that has begun does not become one that has not, and what is lost stays lost.
LEMMA StepStays ==
  ASSUME Base, [Next]_vars
  PROVE  /\ \A j \in Jobs : Stored(j) => Stored(j)'
         /\ abandoned \subseteq abandoned'
<1>1. Base'
  BY StepBase
<1>2. \A j \in Jobs : pc[j] # "none" => pc'[j] # "none"
  <2>1. CASE \E k \in Jobs : Run(k) \/ Notice(k)
    BY <2>1 DEF Run, RunBegin, RunSkipped, RunStarts, TaskEnds, RunEnds, RunReturns,
                Saving, Notice, Base, TypeOK
  <2>2. CASE \E c \in Coordinators, k \in Jobs : Create(c, k)
    BY <2>2 DEF Create, Accepts, Base, TypeOK
  <2>3. CASE \E c \in Coordinators : Crash(c)
    BY <2>3 DEF Crash
  <2>4. CASE pc' = pc
    BY <2>4
  <2> QED
    BY <2>1, <2>2, <2>3, <2>4
       DEF Next, Recovery, CancelFlag, CancelSave, CancelGet, Serve, BeatAndList, FreshIds,
           RoundEnds, ReadOrphan, SaveFailed, Start, StartBlind, FreshIdsFail, Expire, Write,
           WriteFails, vars, runVars
<1>3. abandoned \subseteq abandoned'
  <2>1. ASSUME NEW c \in Coordinators, StartBlind(c) PROVE abandoned \subseteq abandoned'
    BY <2>1 DEF StartBlind
  <2>2. ASSUME NEW c \in Coordinators, NEW k \in Jobs, WriteFails(c, k)
        PROVE  abandoned \subseteq abandoned'
    BY <2>2 DEF WriteFails
  <2>3. CASE UNCHANGED abandoned
    BY <2>3
  <2> QED
    BY <2>1, <2>2, <2>3
       DEF Next, Run, Recovery, RunBegin, RunSkipped, RunStarts, TaskEnds, RunEnds, RunReturns,
           Saving, Notice, CancelFlag, CancelSave, CancelGet, Create, Serve, BeatAndList,
           FreshIds, FreshIdsFail, RoundEnds, ReadOrphan, SaveFailed, Start, Crash, Expire,
           Write, vars, pastVars
<1> QED
  BY <1>1, <1>2, <1>3 DEF Base, Known

\* A job that nobody knew is created, or stays unknown.
LEMMA Born ==
  ASSUME Base, [Next]_vars, NEW j \in Jobs, ~Stored(j), Stored(j)'
  PROVE  \E c \in Coordinators : Create(c, j)
<1>1. Base'
  BY StepBase
<1>2. pc[j] = "none" /\ pc'[j] # "none"
  BY <1>1 DEF Base, Known
<1>3. CASE \E k \in Jobs : Run(k) \/ Notice(k)
  BY <1>2, <1>3 DEF Run, RunBegin, RunSkipped, RunStarts, TaskEnds, RunEnds, RunReturns,
                    Saving, Notice, Base, TypeOK
<1>4. CASE \E c \in Coordinators, k \in Jobs : Create(c, k)
  BY <1>2, <1>4 DEF Create, Accepts, Base, TypeOK
<1>5. CASE \E c \in Coordinators : Crash(c)
  BY <1>2, <1>5 DEF Crash, Alive
<1>6. CASE pc' = pc
  BY <1>2, <1>6
<1> QED
  BY <1>3, <1>4, <1>5, <1>6
     DEF Next, Recovery, CancelFlag, CancelSave, CancelGet, Serve, BeatAndList, FreshIds,
         RoundEnds, ReadOrphan, SaveFailed, Start, StartBlind, FreshIdsFail, Expire, Write,
         WriteFails, vars, runVars

-----------------------------------------------------------------------------
(***************************************************************************)
(* What a step may do with a job that is stored and not excepted: keep the *)
(* invariant, and keep the promise.                                        *)
(***************************************************************************)

\* The steps of RowPromise, for one job.
Fine(j)   == WordInv(j)' /\ Promise!Bound(j)

LEMMA KeepIsBound ==
  ASSUME NEW j \in Jobs, Shown(j)' = Shown(j), Life(j)' = Life(j)
  PROVE  Promise!Bound(j)
BY DEF Promise!Bound, Promise!Keep

LEMMA SameIsFine ==
  ASSUME Base, NEW j \in Jobs, Stored(j), WordInv(j), Same(j), abandoned \subseteq abandoned'
  PROVE  Fine(j)
<1>1. Owner(j)' = Owner(j) /\ Owner(j) \in Coordinators
  BY DEF Same, Owner, Base, TypeOK, Stored, Rows
<1>2. Mine(j)' = Mine(j)
  BY <1>1 DEF Same, Mine
<1>3. (Alive(j)' <=> Alive(j)) /\ (Stored(j)' <=> Stored(j)) /\ (Ended(j)' <=> Ended(j))
  BY DEF Same, Alive, Stored, Ended
<1>4. WordInv(j)'
  BY <1>2, <1>3 DEF WordInv, LoopWord, FinalWord, LastWord, Same
<1>5. Shown(j)' = Shown(j) /\ Life(j)' = Life(j)
  BY <1>3 DEF Shown, Life, Same
<1> QED
  BY <1>4, <1>5, KeepIsBound DEF Fine
-----------------------------------------------------------------------------
(***************************************************************************)
(* Saves: one is queued, one is written, one is lost.                      *)
(***************************************************************************)

LEMMA RankValues ==
  /\ Rank("SPLITTING") = 1 /\ Rank("PENDING") = 2 /\ Rank("RUNNING") = 3
  /\ \A s \in Outcomes : Rank(s) = 4
  /\ \A s : Rank(s) \in Nat
BY DEF Rank, Promise!Rank, Outcomes

LEMMA TellIsBound ==
  ASSUME NEW j \in Jobs, Life(j) = "runs", Life(j)' = "runs",
         Shown(j).status \notin Outcomes,
         Rank(Shown(j).status) <= Rank(Shown(j)'.status),
         Shown(j).over <= Shown(j)'.over,
         \/ Shown(j)'.status \in {"SPLITTING", "PENDING", "RUNNING"}
         \/ Shown(j)'.status \in Outcomes /\ Shown(j)'.over = NTasks
  PROVE  Promise!Bound(j)
<1>1. Promise!Tell(j)
  BY DEF Promise!Tell, Promise!Outcomes, Outcomes, Rank
<1> QED
  BY <1>1 DEF Promise!Bound

LEMMA TailSays ==
  ASSUME NEW p, NEW s, NEW q \in Seq(Saves), q # << >>, QueueSays(p, q, s)
  PROVE  QueueSays(p, Tail(q), s)
<1> DEFINE t == Tail(q)
<1>1. Len(t) = Len(q) - 1 /\ Len(q) \in Nat
  OBVIOUS
<1>2. \A i \in 1..Len(t) : t[i] = q[i + 1] /\ i + 1 \in 1..Len(q)
  BY <1>1
<1> HIDE DEF t
<1>3. QueueSays(p, t, s)
  BY <1>2 DEF QueueSays
<1> QED
  BY <1>3 DEF t

LEMMA AppendSays ==
  ASSUME NEW p, NEW s, NEW q \in Seq(Saves), QueueSays(p, q, s),
         NEW v \in Saves, v.data = s, ~s.cancel, p = "last" => s.over = NTasks
  PROVE  QueueSays(p, Append(q, v), s) /\ Append(q, v) # << >>
<1> DEFINE t == Append(q, v)
<1>1. Len(q) \in Nat /\ Len(t) = Len(q) + 1 /\ t[Len(q) + 1] = v
  OBVIOUS
<1>2. \A i \in 1..Len(q) : t[i] = q[i]
  OBVIOUS
<1>3. t # << >>
  BY <1>1
<1> HIDE DEF t
<1>4. \A i \in 1..Len(t) : i \in 1..Len(q) \/ i = Len(q) + 1
  BY <1>1
<1>5. QueueSays(p, t, s)
  BY <1>1, <1>2, <1>4 DEF QueueSays
<1> QED
  BY <1>3, <1>5 DEF t

\* A save of run(), or of one of its tasks.
LEMMA SavingFine ==
  ASSUME Base, NEW j \in Jobs, pc[j] \in {"accepted", "pending", "tasks"},
         Stored(j), JobInv(j), WordInv(j),
         NEW s \in Snapshots, NEW by \in {"run", "task"},
         NEW next \in {"pending", "tasks", "last"},
         mem' = [mem EXCEPT ![j] = s],
         queue' = Queued(Owner(j), j, by, s),
         pc' = [pc EXCEPT ![j] = next],
         row' = row,
         ~s.cancel, CopyFits(next, s), Rank(mem[j].status) <= Rank(s.status),
         QueueSays(next, Mine(j), s)
  PROVE  Fine(j)
<1>1. TypeOK /\ Alive(j)
  BY DEF Base, Alive
<1>2. Owner(j) \in Coordinators /\ row[j] \in Rows
  BY <1>1, AliveMem
<1> DEFINE v == [by |-> by, data |-> s]
           q == Mine(j)
<1>3. v \in Saves /\ v.data = s
  BY DEF Saves
<1>4. queue \in [Coordinators -> [Jobs -> Seq(Saves)]] /\ q \in Seq(Saves)
  BY <1>1, <1>2 DEF TypeOK, Mine
<1>5. queue' = [queue EXCEPT ![Owner(j)][j] = Append(q, v)]
  BY DEF Queued, Mine
<1>6. QueueSays(next, q, s)
  OBVIOUS
<1> HIDE DEF v, q
<1>7. QueueSays(next, Append(q, v), s) /\ Append(q, v) # << >>
  BY <1>3, <1>4, <1>6, AppendSays DEF CopyFits
<1>8. pc'[j] = next /\ mem'[j] = s /\ row'[j] = row[j] /\ Owner(j)' = Owner(j)
  BY <1>1 DEF TypeOK, Owner
<1>9. Mine(j)' = Append(q, v)
  BY <1>2, <1>4, <1>5, <1>8 DEF Mine
<1>10. Alive(j)'
  BY <1>8 DEF Alive
<1>11. LoopWord(j)'
  <2>1. ~row[j].cancel /\ Rank(row[j].data.status) <= Rank(mem[j].status)
    BY <1>1 DEF WordInv, LoopWord
  <2>2. Rank(row[j].data.status) <= Rank(s.status)
    <3>1. \A t : Rank(t) \in Nat
      BY RankValues
    <3> QED
      BY <2>1, <3>1
  <2> QED
    BY <1>7, <1>8, <1>9, <2>1, <2>2 DEF LoopWord
<1>12. FinalWord(j)'
  BY <1>8 DEF WordInv, FinalWord, Ended, Stored
<1>13. LastWord(j)'
  BY <1>7, <1>8, <1>9 DEF LastWord
<1>14. Shown(j)' = Shown(j) /\ Life(j)' = Life(j)
  BY <1>1, <1>8, <1>10 DEF Shown, Life, Stored
<1> QED
  BY <1>11, <1>12, <1>13, <1>14, KeepIsBound DEF Fine, WordInv

LEMMA WriteFine ==
  ASSUME Base, NEW c \in Coordinators, NEW j \in Jobs, Write(c, j),
         Stored(j), JobInv(j), WordInv(j)
  PROVE  Fine(j)
<1> DEFINE q == queue[c][j]
           s == q[1].data
<1>1. PICK i \in Turn(q) :
        /\ row' = Upserted(j, q[i].data)
        /\ queue' = [queue EXCEPT ![c][j] = Without(q, i)]
        /\ UNCHANGED <<mem, pc>>
  BY DEF Write, runVars
<1>2. TypeOK /\ q \in Seq(Saves) /\ queue \in [Coordinators -> [Jobs -> Seq(Saves)]]
  BY DEF Base, TypeOK
<1>3. i = 1 /\ q # << >> /\ Without(q, i) = Tail(q)
  BY <1>2, TurnIsHead
<1>4. /\ c = Owner(j) /\ Alive(j) /\ row[j] \in Rows
      /\ row[j].data.over \in Nat /\ mem[j].over \in Nat /\ mem[j] \in Snapshots
  BY <1>3, OwnSaves
<1>5. q[1] \in Saves
  BY <1>2, <1>3
<1>6. s \in Snapshots
  BY <1>5, SaveFields
<1>7. /\ row' = Upserted(j, s) /\ Mine(j) = q
      /\ queue' = [queue EXCEPT ![c][j] = Tail(q)]
  BY <1>1, <1>3, <1>4 DEF Mine
<1>8. Len(q) \in Nat /\ 1 \in 1..Len(q)
  BY <1>2, <1>3
<1> HIDE DEF s, q
<1>9. Owner(j)' = c /\ row'[j].data = s /\ row'[j].cancel = s.cancel /\ Stored(j)'
  <2>1. Upserted(j, s)[j] = [owner |-> Owner(j), cancel |-> s.cancel, data |-> s]
    BY ONLY <1>2, <1>6, Stored(j), UpsertedRow, j \in Jobs, ZenonT(60)
  <2>2. Upserted(j, s)[j] # None
    <3>1. s \in Snapshots /\ TypeOK
      BY <1>2, <1>6
    <3> QED
      BY ONLY <3>1, Stored(j), UpsertedRow, j \in Jobs, ZenonT(60)
  <2> QED
    BY <1>4, <1>7, <2>1, <2>2 DEF Owner, Stored
<1>10. Mine(j)' = Tail(q)
  BY <1>2, <1>7, <1>9 DEF Mine
<1>11. /\ ~mem[j].cancel /\ CopyFits(pc[j], mem[j]) /\ QueueSays(pc[j], q, mem[j])
       /\ Rank(row[j].data.status) <= Rank(mem[j].status)
  BY <1>4, <1>7 DEF WordInv, LoopWord
<1>12. ~s.cancel /\ s.status = mem[j].status /\ (pc[j] = "last" => s.over = NTasks)
  BY <1>8, <1>11 DEF QueueSays, s
<1>13. row[j].data.over <= s.over
  <2>1. Ordered(row[j].data.over, q, mem[j].over)
    BY <1>7 DEF JobInv, QueueInv
  <2> QED
    BY <1>2, <1>3, <1>4, <2>1, TailOrdered DEF s
<1>14. pc[j] \in {"pending", "tasks", "last"}
  BY <1>3, <1>4, <1>7 DEF JobInv, QueueInv, QueueFits, Base, TypeOK, Alive
<1>15. \/ pc[j] # "last" /\ s.status \in {"PENDING", "RUNNING"}
       \/ pc[j] = "last" /\ s.status \in Outcomes /\ s.over = NTasks
  BY <1>11, <1>12, <1>14 DEF CopyFits
<1>16. Alive(j)' /\ ~Ended(j)
  BY <1>1, <1>3, <1>4, <1>7 DEF Alive, JobInv, FinalFits
<1>17. LoopWord(j)'
  <2>1. QueueSays(pc[j], Tail(q), mem[j])
    BY <1>2, <1>3, <1>11, TailSays
  <2>2. Rank(s.status) <= Rank(mem[j].status)
    <3>1. Rank(mem[j].status) \in Nat
      BY RankValues
    <3> QED
      BY <1>12, <3>1
  <2> QED
    BY <1>1, <1>9, <1>10, <1>11, <1>12, <2>1, <2>2 DEF LoopWord
<1>18. FinalWord(j)' /\ LastWord(j)'
  BY <1>1, <1>9, <1>14, <1>15 DEF FinalWord, LastWord, Ended, Terminal, Outcomes
<1>19. Promise!Bound(j)
  <2>1. Shown(j) = [status |-> row[j].data.status, over |-> row[j].data.over]
    BY DEF Shown
  <2>2. Shown(j)' = [status |-> s.status, over |-> s.over]
    BY <1>9 DEF Shown
  <2>3. Life(j) = "runs" /\ Life(j)' = "runs"
    BY <1>4, <1>16 DEF Life
  <2>4. row[j].data.status \notin Outcomes
    BY <1>16 DEF Ended, Terminal, Outcomes
  <2> QED
    BY <1>11, <1>12, <1>13, <1>15, <2>1, <2>2, <2>3, <2>4, TellIsBound
<1> QED
  BY <1>17, <1>18, <1>19 DEF Fine, WordInv

LEMMA WriteFailsFine ==
  ASSUME Base, NEW c \in Coordinators, NEW j \in Jobs, WriteFails(c, j),
         Stored(j), JobInv(j), WordInv(j)
  PROVE  Fine(j)
<1> DEFINE q == queue[c][j]
<1>1. /\ queue' = [queue EXCEPT ![c][j] = Tail(q)] /\ q # << >>
      /\ UNCHANGED <<row, mem, pc>>
      /\ abandoned' = IF pc[j] = "last" /\ Head(q).by = "run" THEN abandoned \union {j}
                                                              ELSE abandoned
  BY DEF WriteFails, runVars
<1>2. c = Owner(j) /\ Alive(j) /\ q \in Seq(Saves) /\ row[j] \in Rows
  BY <1>1, OwnSaves
<1>3. queue \in [Coordinators -> [Jobs -> Seq(Saves)]] /\ Mine(j) = q
  BY <1>2 DEF Base, TypeOK, Mine
<1>4. q[1] \in Saves /\ Head(q) = q[1] /\ 1 \in 1..Len(q)
  BY <1>1, <1>2
<1> HIDE DEF q
<1>5. Owner(j)' = c /\ Mine(j)' = Tail(q)
  BY <1>1, <1>2, <1>3 DEF Owner, Mine
<1>6. pc[j] = "last" => j \in abandoned'
  <2>1. q[1].by # "cancel" /\ (q[1].by = "task" => pc[j] = "tasks")
    BY <1>3, <1>4 DEF JobInv, QueueInv, QueueFits
  <2> QED
    BY <1>1, <1>4, <2>1 DEF Saves
<1>7. LoopWord(j)'
  <2>1. LoopWord(j) /\ QueueSays(pc[j], q, mem[j])
    BY <1>2, <1>3 DEF WordInv, LoopWord
  <2>2. QueueSays(pc[j], Tail(q), mem[j])
    BY <1>1, <1>2, <2>1, TailSays
  <2> QED
    BY <1>1, <1>2, <1>5, <2>1, <2>2 DEF LoopWord
<1>8. FinalWord(j)' /\ LastWord(j)'
  BY <1>1, <1>2, <1>6 DEF WordInv, FinalWord, LastWord, Ended, Stored, Alive
<1>9. Shown(j)' = Shown(j) /\ Life(j)' = Life(j)
  BY <1>1 DEF Shown, Life, Stored, Alive
<1> QED
  BY <1>7, <1>8, <1>9, KeepIsBound DEF Fine, WordInv
-----------------------------------------------------------------------------
(***************************************************************************)
(* The loop of the job.                                                    *)
(***************************************************************************)

LEMMA NothingSays == ASSUME NEW p, NEW s PROVE QueueSays(p, << >>, s)
BY DEF QueueSays

LEMMA ReturnFine ==
  ASSUME Base, NEW j \in Jobs, RunReturns(j), Stored(j), JobInv(j), WordInv(j)
  PROVE  Fine(j)
<1>1. /\ pc[j] = "last" /\ pc'[j] = "over"
      /\ UNCHANGED <<row, mem, queue, abandoned>>
  BY DEF RunReturns, Base, TypeOK, pastVars
<1>2. Alive(j) /\ ~Alive(j)'
  BY <1>1 DEF Alive
<1>3. Mine(j) = << >>
  BY <1>1, <1>2, NothingWaits DEF RunReturns
<1>4. Ended(j) \/ j \in abandoned
  BY <1>1, <1>3 DEF WordInv, LastWord
<1>5. WordInv(j)'
  BY <1>1, <1>2, <1>4 DEF WordInv, LoopWord, FinalWord, LastWord, Ended, Stored
<1>6. Shown(j)' = Shown(j) /\ Life(j) = "runs" /\ Life(j)' = "over"
  BY <1>1, <1>2 DEF Shown, Life, Stored
<1>7. Shown(j).status \in Outcomes \/ j \in abandoned
  <2>1. Ended(j) => row[j].data.status \in Outcomes
    BY DEF WordInv, FinalWord
  <2> QED
    BY <1>4, <2>1 DEF Shown
<1>8. Promise!Return(j)
  BY <1>6, <1>7 DEF Promise!Return, Promise!Outcomes, Outcomes
<1> QED
  BY <1>5, <1>8 DEF Fine, Promise!Bound

LEMMA RunFine ==
  ASSUME Base, NEW j \in Jobs, Run(j) \/ Notice(j), Stored(j), JobInv(j), WordInv(j)
  PROVE  Fine(j)
<1>1. pc[j] \in {"accepted", "pending", "tasks", "last"} /\ Alive(j)
  BY DEF Run, RunBegin, RunSkipped, RunStarts, TaskEnds, RunEnds, RunReturns, Notice, Alive
<1>2. mem[j] \in Snapshots
  BY <1>1, AliveMem DEF Base
<1>3. /\ ~row[j].cancel /\ ~mem[j].cancel
      /\ CopyFits(pc[j], mem[j]) /\ QueueSays(pc[j], Mine(j), mem[j])
  BY <1>1 DEF WordInv, LoopWord
<1>4. ~RunSkipped(j) /\ ~Notice(j)
  BY <1>3 DEF RunSkipped, Notice
<1>5. CASE RunBegin(j)
  <2> DEFINE s == [mem[j] EXCEPT !.status = "PENDING"]
  <2>1. s \in Snapshots /\ s.status = "PENDING" /\ ~s.cancel
    BY <1>2, <1>3 DEF Snapshots
  <2>2. /\ pc[j] = "accepted" /\ pc' = [pc EXCEPT ![j] = "pending"]
        /\ mem' = [mem EXCEPT ![j] = s] /\ row' = row
        /\ queue' = Queued(Owner(j), j, "run", s)
    BY <1>5 DEF RunBegin, Saving
  <2> HIDE DEF s
  <2>3. Mine(j) = << >>
    BY <2>2 DEF JobInv, QueueInv, QueueFits
  <2>4. QueueSays("pending", Mine(j), s)
    BY <2>3, NothingSays
  <2>5. CopyFits("pending", s) /\ mem[j].status = "SPLITTING"
    BY <1>3, <2>1, <2>2 DEF CopyFits
  <2>6. Rank(mem[j].status) <= Rank(s.status)
    BY <2>1, <2>5, RankValues
  <2> QED
    BY <2>1, <2>2, <2>4, <2>5, <2>6, SavingFine
<1>6. CASE RunStarts(j)
  <2> DEFINE s == [mem[j] EXCEPT !.status = "RUNNING"]
  <2>1. s \in Snapshots /\ s.status = "RUNNING" /\ ~s.cancel
    BY <1>2, <1>3 DEF Snapshots
  <2>2. /\ pc[j] = "pending" /\ pc' = [pc EXCEPT ![j] = "tasks"]
        /\ mem' = [mem EXCEPT ![j] = s] /\ row' = row
        /\ queue' = Queued(Owner(j), j, "run", s)
    BY <1>6 DEF RunStarts
  <2> HIDE DEF s
  <2>3. Mine(j) = << >>
    BY <1>1, <1>6, <2>2, NothingWaits DEF RunStarts
  <2>4. QueueSays("tasks", Mine(j), s)
    BY <2>3, NothingSays
  <2>5. CopyFits("tasks", s) /\ mem[j].status = "PENDING"
    BY <1>3, <2>1, <2>2 DEF CopyFits
  <2>6. Rank(mem[j].status) <= Rank(s.status)
    BY <2>1, <2>5, RankValues
  <2> QED
    BY <2>1, <2>2, <2>4, <2>5, <2>6, SavingFine
<1>7. CASE TaskEnds(j)
  <2> DEFINE s == [mem[j] EXCEPT !.over = @ + 1]
  <2>1. s \in Snapshots /\ s.status = mem[j].status /\ ~s.cancel
    BY <1>2, <1>3, <1>7, SizesAssumption DEF Snapshots, TaskEnds
  <2>2. /\ pc[j] = "tasks" /\ pc' = [pc EXCEPT ![j] = "tasks"]
        /\ mem' = [mem EXCEPT ![j] = s] /\ row' = row
        /\ queue' = Queued(Owner(j), j, "task", s)
    BY <1>7 DEF TaskEnds, Saving
  <2> HIDE DEF s
  <2>3. QueueSays("tasks", Mine(j), s) /\ CopyFits("tasks", s)
    BY <1>3, <2>1, <2>2 DEF QueueSays, CopyFits
  <2>4. Rank(mem[j].status) <= Rank(s.status)
    <3>1. Rank(s.status) \in Nat
      BY RankValues
    <3> QED
      BY <2>1, <3>1
  <2> QED
    BY <2>1, <2>2, <2>3, <2>4, SavingFine
<1>8. CASE RunEnds(j)
  <2>1. mem[j].over = NTasks /\ pc[j] = "tasks"
    BY <1>8 DEF RunEnds
  <2>2. PICK f \in Outcomes : Saving(j, "run", [mem[j] EXCEPT !.status = f], "last")
    BY <1>3, <1>8 DEF RunEnds, Outcomes
  <2> DEFINE s == [mem[j] EXCEPT !.status = f]
  <2>3. s \in Snapshots /\ s.status = f /\ ~s.cancel /\ s.over = NTasks
    BY <1>2, <1>3, <2>1 DEF Snapshots, Outcomes, Terminal
  <2>4. /\ pc' = [pc EXCEPT ![j] = "last"]
        /\ mem' = [mem EXCEPT ![j] = s] /\ row' = row
        /\ queue' = Queued(Owner(j), j, "run", s)
    BY <2>2 DEF Saving
  <2> HIDE DEF s
  <2>5. Mine(j) = << >>
    BY <1>1, <1>8, NothingWaits DEF RunEnds
  <2>6. QueueSays("last", Mine(j), s)
    BY <2>5, NothingSays
  <2>7. CopyFits("last", s) /\ mem[j].status = "RUNNING"
    BY <1>3, <2>1, <2>3 DEF CopyFits
  <2>8. Rank(mem[j].status) <= Rank(s.status)
    BY <2>3, <2>7, RankValues
  <2> QED
    BY <2>1, <2>3, <2>4, <2>6, <2>7, <2>8, SavingFine
<1>9. CASE RunReturns(j)
  BY <1>9, ReturnFine
<1> QED
  BY <1>4, <1>5, <1>6, <1>7, <1>8, <1>9 DEF Run

-----------------------------------------------------------------------------
(***************************************************************************)
(* Others: a start, the reconciliation, a crash, a new job.                *)
(***************************************************************************)

LEMMA SaveFailedFine ==
  ASSUME Base, NEW c \in Coordinators, NEW j \in Jobs, SaveFailed(c, j),
         Stored(j), JobInv(j), WordInv(j)
  PROVE  Fine(j)
<1> DEFINE s == hand[c][j]
<1>1. /\ s \in Snapshots /\ s # None /\ row' = Upserted(j, s) /\ TypeOK
      /\ UNCHANGED <<mem, pc, queue, abandoned>>
  BY DEF SaveFailed, Base, TypeOK, runVars, pastVars
<1>2. /\ ~Alive(j) /\ s.status = "FAILED" /\ s.over = NTasks
      /\ Ended(j) => row[j].data.status = "FAILED"
  BY <1>1 DEF JobInv, HandsFit
<1> HIDE DEF s
<1>3. row'[j].data = s /\ Stored(j)'
  <2>0. s \in Snapshots /\ TypeOK
    BY <1>1
  <2>1. Upserted(j, s)[j] = [owner |-> Owner(j), cancel |-> s.cancel, data |-> s]
    BY ONLY <2>0, Stored(j), UpsertedRow, j \in Jobs, ZenonT(60)
  <2>2. Upserted(j, s)[j] # None
    BY ONLY <2>0, Stored(j), UpsertedRow, j \in Jobs, ZenonT(60)
  <2> QED
    BY <1>1, <2>1, <2>2 DEF Stored
<1>4. pc[j] \in {"over", "dead"} /\ ~Alive(j)'
  BY <1>1, <1>2 DEF Base, Known, TypeOK, Alive
<1>5. WordInv(j)'
  BY <1>1, <1>2, <1>3, <1>4
     DEF WordInv, LoopWord, FinalWord, LastWord, Ended, Terminal, Outcomes
<1>6. Shown(j)' = Promise!Gone
  BY <1>2, <1>3 DEF Shown, Promise!Gone
<1>7. Life(j)' = Life(j) /\ Life(j) \in {"over", "dead"}
  BY <1>1, <1>2, <1>4 DEF Life
<1>8. CASE Ended(j)
  <2>1. Shown(j) = Promise!Gone
    BY <1>2, <1>8 DEF WordInv, FinalWord, Shown, Promise!Gone
  <2> QED
    BY <1>5, <1>6, <1>7, <2>1, KeepIsBound DEF Fine
<1>9. CASE ~Ended(j)
  <2>1. Shown(j).status \notin Promise!Outcomes
    BY <1>9 DEF Shown, Ended, Terminal, Promise!Outcomes
  <2>2. Promise!Declare(j)
    BY <1>6, <1>7, <2>1 DEF Promise!Declare
  <2> QED
    BY <1>5, <2>2 DEF Fine, Promise!Bound
<1> QED
  BY <1>8, <1>9

LEMMA CrashFine ==
  ASSUME Base, NEW c \in Coordinators, Crash(c),
         NEW j \in Jobs, Stored(j), JobInv(j), WordInv(j)
  PROVE  Fine(j)
<1>1. /\ UNCHANGED <<row, mem, abandoned>>
      /\ pc'[j] = IF Alive(j) /\ Owner(j) = c THEN "dead" ELSE pc[j]
      /\ \A d \in Coordinators : queue'[d][j] = IF d = c THEN << >> ELSE queue[d][j]
  BY DEF Crash, Forgotten, Base, TypeOK, pastVars
<1>2. Shown(j)' = Shown(j) /\ Stored(j)' /\ (Ended(j)' <=> Ended(j))
  BY <1>1 DEF Shown, Stored, Ended
<1>3. CASE Alive(j) /\ Owner(j) = c
  <2>1. pc'[j] = "dead" /\ ~Alive(j)'
    BY <1>1, <1>3 DEF Alive
  <2>2. WordInv(j)'
    BY <1>1, <1>2, <2>1 DEF WordInv, LoopWord, FinalWord, LastWord
  <2>3. Promise!Die(j)
    BY <1>2, <1>3, <2>1 DEF Promise!Die, Life
  <2> QED
    BY <2>2, <2>3 DEF Fine, Promise!Bound
<1>4. CASE ~Alive(j)
  <2>1. pc'[j] = pc[j] /\ ~Alive(j)'
    BY <1>1, <1>4 DEF Alive
  <2>2. WordInv(j)'
    BY <1>1, <1>2, <1>4, <2>1 DEF WordInv, LoopWord, FinalWord, LastWord, Alive
  <2>3. Life(j)' = Life(j)
    BY <1>4, <2>1 DEF Life
  <2> QED
    BY <1>2, <2>2, <2>3, KeepIsBound DEF Fine
<1>5. CASE Alive(j) /\ Owner(j) # c
  <2>1. Same(j)
    <3>1. Owner(j) \in Coordinators
      BY DEF Base, TypeOK, Stored, Owner, Rows
    <3>2. \A d \in Coordinators : queue'[d][j] = queue[d][j]
      BY <1>1, <1>5 DEF JobInv, QueueInv
    <3> QED
      BY <1>1, <1>5, <3>2 DEF Same
  <2> QED
    BY <1>1, <2>1, SameIsFine
<1> QED
  BY <1>3, <1>4, <1>5

LEMMA CreateFine ==
  ASSUME Base, NEW c \in Coordinators, NEW j \in Jobs, Create(c, j), ~Stored(j)
  PROVE  Fine(j)
<1> DEFINE s == [status |-> "SPLITTING", cancel |-> FALSE, over |-> 0]
           r == [owner |-> c, cancel |-> FALSE, data |-> s]
<1>1. /\ row'[j] = r /\ mem'[j] = s /\ pc[j] = "none" /\ pc'[j] = "accepted"
      /\ queue' = queue
  BY DEF Create, Accepts, Base, TypeOK
<1>2. r # None
  <2>1. s \in Snapshots
    BY SizesAssumption DEF Snapshots
  <2> HIDE DEF s
  <2>2. r \in Rows
    BY <2>1 DEF Rows
  <2> QED
    BY <2>2, NoneAssumption
<1>3. Stored(j)' /\ Alive(j)' /\ ~Alive(j) /\ ~Ended(j)'
  BY <1>1, <1>2 DEF Stored, Alive, Ended, Terminal
<1>4. Mine(j)' = << >>
  BY <1>1 DEF Base, Known, Mine, Owner
<1>5. LoopWord(j)'
  <2>1. CopyFits("accepted", s)
    BY DEF CopyFits
  <2>2. QueueSays("accepted", << >>, s)
    BY NothingSays
  <2>3. Rank("SPLITTING") <= Rank("SPLITTING")
    BY RankValues
  <2> QED
    BY <1>1, <1>4, <2>1, <2>2, <2>3 DEF LoopWord
<1>6. FinalWord(j)' /\ LastWord(j)'
  BY <1>1, <1>3 DEF FinalWord, LastWord
<1>7. Shown(j)' = Promise!Fresh /\ Life(j) = "none" /\ Life(j)' = "runs"
  BY <1>1, <1>3 DEF Shown, Life, Promise!Fresh
<1>8. Promise!Accept(j)
  BY <1>7 DEF Promise!Accept
<1> QED
  BY <1>5, <1>6, <1>8 DEF Fine, WordInv, Promise!Bound
-----------------------------------------------------------------------------
(***************************************************************************)
(* The invariant, and the promise.                                         *)
(***************************************************************************)

\* Two jobs share no state.
LEMMA OtherFine ==
  ASSUME Base, NEW j \in Jobs, Stored(j), WordInv(j), abandoned \subseteq abandoned',
         NEW k \in Jobs, k # j,
         \/ Run(k) \/ Notice(k)
         \/ \E c \in Coordinators :
              Create(c, k) \/ Write(c, k) \/ WriteFails(c, k) \/ SaveFailed(c, k)
  PROVE  Fine(j)
<1>1. TypeOK
  BY DEF Base
<1>2. ASSUME Run(k) \/ Notice(k) PROVE Same(j)
  <2>1. row' = row /\ mem'[j] = mem[j] /\ pc'[j] = pc[j]
    BY <1>1, <1>2 DEF TypeOK, Run, RunBegin, RunSkipped, RunStarts, TaskEnds, RunEnds,
                      RunReturns, Notice, Saving
  <2>2. queue' = queue \/ \E by, s : queue' = Queued(Owner(k), k, by, s)
    BY <1>2 DEF Run, RunBegin, RunSkipped, RunStarts, TaskEnds, RunEnds, RunReturns, Notice,
                Saving
  <2>3. \A d \in Coordinators : queue'[d][j] = queue[d][j]
    BY <1>1, <2>2, QueuedOther
  <2> QED
    BY <2>1, <2>3 DEF Same
<1>3. ASSUME NEW c \in Coordinators, Create(c, k) PROVE Same(j)
  BY <1>1, <1>3 DEF TypeOK, Create, Same
<1>4. ASSUME NEW c \in Coordinators, Write(c, k) PROVE Same(j)
  <2>1. PICK s, q : row' = Upserted(k, s) /\ queue' = [queue EXCEPT ![c][k] = q]
    BY <1>4 DEF Write
  <2>2. row'[j] = row[j] /\ \A d \in Coordinators : queue'[d][j] = queue[d][j]
    BY <1>1, <2>1 DEF TypeOK, Upserted
  <2> QED
    BY <1>4, <2>2 DEF Write, Same, runVars
<1>5. ASSUME NEW c \in Coordinators, WriteFails(c, k) PROVE Same(j)
  BY <1>1, <1>5 DEF TypeOK, WriteFails, Same, runVars
<1>6. ASSUME NEW c \in Coordinators, SaveFailed(c, k) PROVE Same(j)
  BY <1>1, <1>6 DEF TypeOK, SaveFailed, Upserted, Same, runVars
<1>7. Same(j)
  BY <1>2, <1>3, <1>4, <1>5, <1>6
<1> QED
  BY <1>7, SameIsFine

\* Without a cancel of this job.
LEMMA CancelFine ==
  ASSUME Base, CancelKnown, NEW j \in Jobs, Stored(j), WordInv(j), ~Excepted(j)',
         abandoned \subseteq abandoned', CancelFlag \/ CancelSave
  PROVE  Fine(j)
<1>1. TypeOK
  BY DEF Base
<1>2. cancel.job \in Jobs /\ cancel.job # j
  <2>1. cancel.job \in Jobs
    BY <1>1 DEF CancelFlag, CancelSave, TypeOK
  <2>2. cancel.job \in excused'
    BY DEF CancelFlag, CancelSave, CancelKnown, pastVars
  <2> QED
    BY <2>1, <2>2 DEF Excepted
<1>3. CASE CancelFlag
  BY <1>1, <1>2, <1>3, SameIsFine DEF CancelFlag, Same, TypeOK, runVars
<1>4. CASE CancelSave
  <2>1. \A d \in Coordinators : queue'[d][j] = queue[d][j]
    <3>1. \E by, s : queue' = Queued(cancel.at, cancel.job, by, s)
      BY <1>4 DEF CancelSave
    <3> QED
      BY <1>1, <1>2, <3>1, QueuedOther
  <2>2. Same(j)
    BY <1>4, <2>1 DEF CancelSave, Same, runVars
  <2> QED
    BY <2>2, SameIsFine
<1> QED
  BY <1>3, <1>4

LEMMA StepFine ==
  ASSUME IInv, WordsInv, [Next]_vars, NEW j \in Jobs, Stored(j)', ~Excepted(j)'
  PROVE  Fine(j)
<1>1. Base /\ CancelKnown
  BY DEF IInv, Base
<1>2. CASE ~Stored(j)
  BY <1>1, <1>2, Born, CreateFine
<1>3. CASE Stored(j)
  <2>1. JobInv(j) /\ WordInv(j)
    BY <1>1, <1>3, StepFrame DEF IInv, JobsInv, WordsInv
  <2>2. abandoned \subseteq abandoned'
    BY <1>1, StepStays
  <2> USE <1>1, <1>3, <2>1, <2>2
  <2>3. ASSUME NEW k \in Jobs, Run(k) \/ Notice(k) PROVE Fine(j)
    BY <2>3, RunFine, OtherFine
  <2>4. CASE CancelFlag \/ CancelSave
    BY <2>4, CancelFine
  <2>5. ASSUME NEW c \in Coordinators, NEW k \in Jobs, SaveFailed(c, k) PROVE Fine(j)
    BY <2>5, SaveFailedFine, OtherFine
  <2>6. ASSUME NEW c \in Coordinators, Crash(c) PROVE Fine(j)
    BY <2>6, CrashFine
  <2>7. ASSUME NEW c \in Coordinators, NEW k \in Jobs, Create(c, k) PROVE Fine(j)
    <3>1. k # j
      BY <2>7 DEF Create, Accepts, Base, Known
    <3> QED
      BY <2>7, <3>1, OtherFine
  <2>8. ASSUME NEW c \in Coordinators, NEW k \in Jobs, Write(c, k) PROVE Fine(j)
    BY <2>8, WriteFine, OtherFine
  <2>9. ASSUME NEW c \in Coordinators, NEW k \in Jobs, WriteFails(c, k) PROVE Fine(j)
    BY <2>9, WriteFailsFine, OtherFine
  <2>10. ASSUME UNCHANGED <<row, mem, pc, queue>> PROVE Fine(j)
    <3>1. Same(j)
      BY <2>10 DEF Same
    <3> QED
      BY <3>1, SameIsFine
  <2>11. ASSUME NEW c \in Coordinators,
                \/ Serve(c) \/ BeatAndList(c) \/ FreshIds(c) \/ FreshIdsFail(c) \/ RoundEnds(c)
                \/ Start(c) \/ StartBlind(c) \/ Expire(c)
                \/ \E k \in Jobs : ReadOrphan(c, k) \/ CancelGet(c, k)
         PROVE  Fine(j)
    <3>1. UNCHANGED <<row, mem, pc, queue>>
      BY <2>11 DEF Serve, BeatAndList, FreshIds, FreshIdsFail, RoundEnds, Start, StartBlind,
                   Expire, ReadOrphan, CancelGet, runVars
    <3> QED
      BY <2>10, <3>1
  <2>12. CASE UNCHANGED vars
    BY <2>10, <2>12 DEF vars, runVars
  <2> QED
    <3>1. CASE Next
      BY <2>3, <2>4, <2>5, <2>6, <2>7, <2>8, <2>9, <2>11, <3>1, Zenon DEF Next, Recovery
    <3> QED
      BY <2>12, <3>1
<1> QED
  BY <1>2, <1>3

\* The loop, what waits and the row tell the same story of a job that is not excepted.
THEOREM WordsAreKept == Spec => []WordsInv
<1>1. Init => WordsInv
  BY DEF Init, WordsInv, Stored, NoJobs
<1>2. IInv /\ WordsInv /\ [Next]_vars => WordsInv'
  <2> SUFFICES ASSUME IInv, WordsInv, [Next]_vars, NEW j \in Jobs, Stored(j)', ~Excepted(j)'
               PROVE  WordInv(j)'
    BY DEF WordsInv
  <2> QED
    BY StepFine DEF Fine
<1> QED
  BY <1>1, <1>2, Invariance, PTL DEF Spec

\* A client who polls sees each job go on and never back, a final status with all tasks before
\* its run is over, and nobody else's hand on a job that runs; except in the situations that
\* EndedMeansOver names.
THEOREM PromiseIsKept == Spec => KeepsPromise
<1>1. Init => Promise!RInit
  <2> SUFFICES ASSUME Init PROVE Promise!RInit
    OBVIOUS
  <2>1. \A j \in Jobs : ~Stored(j) /\ ~Alive(j) /\ pc[j] = "none"
    BY DEF Init, Stored, NoJobs, Alive
  <2>2. \A j \in Jobs : Shown(j) = [status |-> "none", over |-> 0] /\ Life(j) = "none"
    BY <2>1 DEF Shown, Life
  <2>3. abandoned = {}
    BY DEF Init
  <2> QED
    BY <2>1, <2>2, <2>3 DEF Promise!RInit
<1>2. IInv /\ WordsInv /\ [Next]_vars => [Promise!RNext]_Promise!rvars
  <2> SUFFICES ASSUME IInv, WordsInv, [Next]_vars PROVE Promise!RNext
    OBVIOUS
  <2> DEFINE Void == {j \in Jobs : Stored(j) /\ (j \in excused \/ Owner(j) \in late)}
  <2>1. Base /\ Base'
    BY StepBase DEF IInv, Base
  <2>2. Void \subseteq Void'
    <3> SUFFICES ASSUME NEW j \in Jobs, Stored(j), Excepted(j)
                 PROVE  Stored(j)' /\ Excepted(j)'
      BY DEF Excepted
    <3> QED
      BY <2>1, StepFrame, StepStays
  <2>3. abandoned \subseteq abandoned'
    BY <2>1, StepStays
  <2>4. ASSUME NEW j \in Jobs, j \notin Void' PROVE Promise!Bound(j)
    <3>1. CASE Stored(j)'
      <4>1. ~Excepted(j)'
        BY <2>4, <3>1 DEF Excepted
      <4> QED
        BY <3>1, <4>1, StepFine DEF Fine
    <3>2. CASE ~Stored(j)'
      <4>1. ~Stored(j)
        BY <2>1, <3>2, StepStays
      <4>2. pc[j] = "none" /\ pc'[j] = "none"
        BY <2>1, <3>2, <4>1 DEF Base, Known
      <4>3. Shown(j)' = Shown(j) /\ Life(j)' = Life(j)
        BY <3>2, <4>1, <4>2 DEF Shown, Life, Alive
      <4> QED
        BY <4>3, KeepIsBound
    <3> QED
      BY <3>1, <3>2
  <2> QED
    BY <2>2, <2>3, <2>4 DEF Promise!RNext
<1> QED
  BY <1>1, <1>2, Invariance, WordsAreKept, PTL DEF Spec, KeepsPromise, Promise!RSpec

=============================================================================
