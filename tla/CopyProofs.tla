----------------------------- MODULE CopyProofs -----------------------------
(***************************************************************************)
(* Theorems about CopyPipeline, for every set of tasks, every size of the  *)
(* pool and of the queue, and every number of batches.                     *)
(***************************************************************************)
EXTENDS CopyPipeline, FiniteSetTheorems, SequenceTheorems, TLAPS

-----------------------------------------------------------------------------
(***************************************************************************)
(* The inductive invariant.  What concerns one task:                       *)
(***************************************************************************)
Early  == {"source", "acquire", "lease", "connect", "prepare"}
Flow   == {"copy", "get", "write"}
Ending == {"eof", "eofPutting", "ended"}

\* Before the streaming nothing has happened.
Fresh(t) ==
  wpc[t] \in Early =>
    /\ t \notin failed /\ t \notin stop /\ t \notin err
    /\ rpc[t] = "none" /\ read[t] = 0 /\ q[t] = <<>> /\ copied[t] = <<>>

\* The batches the writer has taken out of the queue.
Taken(t) == Len(copied[t]) + (IF wpc[t] = "write" THEN 1 ELSE 0)

\* A queue s that counts from k; once the reader is gone, the end mark comes last.
Counts(s, k, place) ==
  \A i \in 1..Len(s) : s[i] = IF place = "ended" /\ i = Len(s) THEN EOF ELSE k + i

\* While the streaming goes well, the transaction, the writer's hand, the queue and the
\* reader's hand hold, one after the other, the batches 1, 2, ..., read[t].
Flows(t) ==
  wpc[t] \in Flow =>
    /\ t \notin failed /\ t \notin stop /\ rpc[t] # "none"
    /\ \A i \in 1..Len(copied[t]) : copied[t][i] = i
    /\ wpc[t] = "write" => got[t] = Taken(t)
    /\ Counts(q[t], Taken(t), rpc[t])
    /\ rpc[t] \in {"loop", "fetch", "eof", "eofPutting"} => read[t] = Taken(t) + Len(q[t])
    /\ rpc[t] \in {"put", "putting"} => read[t] = Taken(t) + Len(q[t]) + 1
    /\ rpc[t] = "ended" => Len(q[t]) >= 1 /\ read[t] = Taken(t) + Len(q[t]) - 1
    /\ t \in err => rpc[t] \in Ending
    /\ rpc[t] \in Ending /\ t \notin err => read[t] = size[t]

\* What the writer takes to its COMMIT if no error has reached it.
Complete(t) ==
  /\ wpc[t] \in {"close", "stopping", "drain", "join"} /\ t \notin failed =>
       rpc[t] = "ended" /\ t \notin err /\ q[t] = <<>> /\ copied[t] = Whole(t)
  /\ wpc[t] \in {"commit", "reset"} => t \notin failed /\ copied[t] = Whole(t)
  /\ wpc[t] = "close" => t \notin failed
  /\ wpc[t] = "discard" => t \in failed

\* The table is not touched before COMMIT, and by nothing but the whole.
Stored(t) ==
  /\ wpc[t] \in Early \union Streaming \union {"commit"} => saved[t] = <<>>
  /\ wpc[t] \in {"reset", "release", "end"} /\ t \notin failed => saved[t] = Whole(t)
  /\ saved[t] \in {<<>>, Whole(t)}

Gone(t) == wpc[t] \notin Streaming => rpc[t] \in {"none", "ended"}

TaskInv(t) == Fresh(t) /\ Flows(t) /\ Complete(t) /\ Stored(t) /\ Gone(t)

(***************************************************************************)
(* And what concerns the pool.                                             *)
(***************************************************************************)
At(S, w) == {t \in Tasks : w[t] \in S}

\* With a connection in hand; and those that are about to get one, too.
Having == Holding \ {"lease", "connect", "release"}
Opened == Holding \ {"lease", "release"}

PoolInv ==
  /\ free + Cardinality(At(Holding, wpc)) = PoolMax
  /\ has = At(Having, wpc)
  /\ idle + Cardinality(At(Opened, wpc)) <= PoolMax

IInv == TypeOK /\ PoolInv /\ \A t \in Tasks : TaskInv(t)

-----------------------------------------------------------------------------
(***************************************************************************)
(* The initial states.                                                     *)
(***************************************************************************)
LEMMA Initially == Init => IInv
<1> SUFFICES ASSUME Init PROVE IInv
  OBVIOUS
<1> USE DEF Init
<1>1. TypeOK
  BY SizesAssumption, BoundAssumption DEF TypeOK, Batches, Holding
<1>2. PoolInv
  <2>1. At(Holding, wpc) = {} /\ At(Having, wpc) = {} /\ At(Opened, wpc) = {}
    BY DEF At, Holding, Having, Opened
  <2>2. Cardinality({}) = 0
    BY FS_EmptySet
  <2>3. has = {} /\ free = PoolMax /\ idle = 0
    OBVIOUS
  <2>4. QED BY ONLY <2>1, <2>2, <2>3, SizesAssumption DEF PoolInv
<1>3. ASSUME NEW t \in Tasks PROVE TaskInv(t)
  BY DEF TaskInv, Fresh, Flows, Complete, Stored, Gone, Early, Flow, Streaming
<1>4. QED BY <1>1, <1>2, <1>3 DEF IInv

-----------------------------------------------------------------------------
(***************************************************************************)
(* A step of one task is none of another's.                                *)
(***************************************************************************)
LEMMA Others ==
  ASSUME TypeOK, NEW t \in Tasks, Writer(t) \/ Reader(t), NEW u \in Tasks, u # t
  PROVE  /\ size' = size
         /\ wpc'[u] = wpc[u] /\ rpc'[u] = rpc[u] /\ q'[u] = q[u] /\ read'[u] = read[u]
         /\ got'[u] = got[u] /\ copied'[u] = copied[u] /\ saved'[u] = saved[u]
         /\ u \in failed' <=> u \in failed
         /\ u \in stop' <=> u \in stop
         /\ u \in err' <=> u \in err
<1> USE DEF TypeOK, Goes, Raises, Moves, reader, pool
<1>1. CASE OpenSource(t) \/ Acquire(t) \/ Lease(t) \/ Connect(t) \/ Prepare(t)
  BY <1>1 DEF OpenSource, Acquire, Lease, Connect, Prepare
<1>2. CASE OpenCopy(t) \/ Get(t) \/ Write(t) \/ CloseCopy(t)
  BY <1>2 DEF OpenCopy, Get, Write, CloseCopy
<1>3. CASE Stop(t) \/ Drain(t) \/ Join(t)
  BY <1>3 DEF Stop, Drain, Join
<1>4. CASE Commit(t) \/ Reset(t) \/ Discard(t) \/ Release(t)
  BY <1>4 DEF Commit, Reset, Discard, Release
<1>5. CASE Test(t) \/ Fetch(t) \/ Put(t)
  BY <1>5 DEF Test, Fetch, Put
<1>6. QED BY <1>1, <1>2, <1>3, <1>4, <1>5 DEF Writer, Reader

LEMMA OthersKeep ==
  ASSUME TypeOK, NEW t \in Tasks, Writer(t) \/ Reader(t), NEW u \in Tasks, u # t, TaskInv(u)
  PROVE  TaskInv(u)'
<1>1. Whole(u)' = Whole(u)
  BY Others DEF Whole
<1>2. Taken(u)' = Taken(u)
  BY Others DEF Taken
<1>3. Fresh(u)'
  BY Others DEF TaskInv, Fresh
<1>4. Flows(u)'
  BY Others, <1>2 DEF TaskInv, Flows
<1>5. Complete(u)'
  BY Others, <1>1 DEF TaskInv, Complete
<1>6. Stored(u)' /\ Gone(u)'
  BY Others, <1>1 DEF TaskInv, Stored, Gone
<1>7. QED BY <1>3, <1>4, <1>5, <1>6 DEF TaskInv

-----------------------------------------------------------------------------
(***************************************************************************)
(* The task's own steps, outside the streaming.                            *)
(***************************************************************************)
LEMMA BeforeKeeps ==
  ASSUME TypeOK, NEW t \in Tasks, TaskInv(t),
         OpenSource(t) \/ Acquire(t) \/ Lease(t) \/ Connect(t) \/ Prepare(t)
  PROVE  TaskInv(t)'
<1> USE DEF TypeOK, Goes, Raises, reader, pool, Early, Flow, Streaming, Ending
<1>1. CASE OpenSource(t)
  BY <1>1 DEF OpenSource, TaskInv, Fresh, Flows, Complete, Stored, Gone, Whole
<1>2. CASE Acquire(t)
  BY <1>2 DEF Acquire, TaskInv, Fresh, Flows, Complete, Stored, Gone, Whole
<1>3. CASE Lease(t)
  BY <1>3 DEF Lease, TaskInv, Fresh, Flows, Complete, Stored, Gone, Whole
<1>4. CASE Connect(t)
  BY <1>4 DEF Connect, TaskInv, Fresh, Flows, Complete, Stored, Gone, Whole
<1>5. CASE Prepare(t)
  <2> USE <1>5 DEF Prepare
  <2>1. Fresh(t)' /\ Gone(t)' /\ Complete(t)' /\ Stored(t)'
    BY DEF TaskInv, Fresh, Flows, Complete, Stored, Gone, Whole
  <2>2. Flows(t)'
    BY DEF TaskInv, Fresh, Flows, Taken, Counts, Batches
  <2>3. QED BY <2>1, <2>2 DEF TaskInv
<1>6. QED BY <1>1, <1>2, <1>3, <1>4, <1>5

LEMMA AfterKeeps ==
  ASSUME TypeOK, NEW t \in Tasks, TaskInv(t),
         Commit(t) \/ Reset(t) \/ Discard(t) \/ Release(t)
  PROVE  TaskInv(t)'
<1> USE DEF TypeOK, Goes, Raises, reader, pool, Early, Flow, Streaming, Ending
<1>1. CASE Commit(t)
  BY <1>1 DEF Commit, TaskInv, Fresh, Flows, Complete, Stored, Gone, Whole
<1>2. CASE Reset(t)
  BY <1>2 DEF Reset, TaskInv, Fresh, Flows, Complete, Stored, Gone, Whole
<1>3. CASE Discard(t)
  BY <1>3 DEF Discard, TaskInv, Fresh, Flows, Complete, Stored, Gone, Whole
<1>4. CASE Release(t)
  BY <1>4 DEF Release, TaskInv, Fresh, Flows, Complete, Stored, Gone, Whole
<1>5. QED BY <1>1, <1>2, <1>3, <1>4

\* The finally block.
LEMMA FinallyKeeps ==
  ASSUME TypeOK, NEW t \in Tasks, TaskInv(t), Stop(t) \/ Drain(t) \/ Join(t)
  PROVE  TaskInv(t)'
<1> USE DEF TypeOK, Goes, Raises, reader, pool, Early, Flow, Streaming, Ending
<1>1. CASE Stop(t)
  BY <1>1 DEF Stop, TaskInv, Fresh, Flows, Complete, Stored, Gone, Whole
<1>2. CASE Drain(t)
  BY <1>2 DEF Drain, TaskInv, Fresh, Flows, Complete, Stored, Gone, Whole
<1>3. CASE Join(t)
  BY <1>3 DEF Join, TaskInv, Fresh, Flows, Complete, Stored, Gone, Whole
<1>4. QED BY <1>1, <1>2, <1>3

-----------------------------------------------------------------------------
(***************************************************************************)
(* The writer's steps of the streaming.                                    *)
(***************************************************************************)
LEMMA OpenCopyKeeps ==
  ASSUME TypeOK, NEW t \in Tasks, TaskInv(t), OpenCopy(t) \/ CloseCopy(t)
  PROVE  TaskInv(t)'
<1> USE DEF TypeOK, Goes, Raises, reader, pool, Early, Flow, Streaming, Ending
<1>1. CASE OpenCopy(t)
  BY <1>1 DEF OpenCopy, TaskInv, Fresh, Flows, Complete, Stored, Gone, Whole, Taken
<1>2. CASE CloseCopy(t)
  BY <1>2 DEF CloseCopy, TaskInv, Fresh, Flows, Complete, Stored, Gone, Whole
<1>3. QED BY <1>1, <1>2

LEMMA WriteKeeps ==
  ASSUME TypeOK, NEW t \in Tasks, TaskInv(t), Write(t)
  PROVE  TaskInv(t)'
<1> USE DEF Write, Goes, Raises, reader, pool
<1> DEFINE c == copied[t]
<1>1. /\ c \in Seq(Batches) /\ got[t] \in Batches /\ wpc[t] = "write"
      /\ wpc \in [Tasks -> Holding \union {"source", "acquire", "end"}]
      /\ Len(c) \in Nat
  BY DEF TypeOK
<1>2. (Fresh(t) /\ Gone(t) /\ Complete(t) /\ Stored(t))'
  BY <1>1 DEF TypeOK, Early, Flow, Streaming, TaskInv, Fresh, Flows, Complete, Stored, Gone, Whole
<1>3. CASE wpc' = [wpc EXCEPT ![t] = "stopping"]
  BY <1>1, <1>2, <1>3 DEF TaskInv, Flows, Flow
<1>4. CASE copied' = [copied EXCEPT ![t] = Append(c, got[t])] /\ Goes(t, "get")
  <2>1. wpc'[t] = "get" /\ copied'[t] = Append(c, got[t]) /\ UNCHANGED <<rpc, q, read, err, size, stop, failed>>
    BY <1>1, <1>4 DEF TypeOK
  <2>2. Len(copied'[t]) = Len(c) + 1 /\ Taken(t)' = Taken(t) /\ Taken(t) = Len(c) + 1
    BY <1>1, <2>1 DEF Taken
  <2>3. \A i \in 1..Len(copied'[t]) : copied'[t][i] = i
    BY <1>1, <2>1, <2>2 DEF TaskInv, Flows, Flow
  <2>4. Flows(t)'
    BY <1>1, <2>1, <2>2, <2>3 DEF TaskInv, Flows, Flow
  <2>5. QED BY <1>2, <2>4 DEF TaskInv
<1>5. QED BY <1>3, <1>4

\* What the first element of such a queue is, and that the others count from k + 1.
LEMMA Counting ==
  ASSUME NEW s \in Seq(Batches), s # <<>>, NEW k \in Nat, NEW place, Counts(s, k, place)
  PROVE  /\ Tail(s) \in Seq(Batches) /\ Len(Tail(s)) \in Nat /\ Len(Tail(s)) = Len(s) - 1
         /\ Head(s) = IF place = "ended" /\ Len(Tail(s)) = 0 THEN EOF ELSE k + 1
         /\ Counts(Tail(s), k + 1, place)
<1> DEFINE e == Tail(s)
           l == Len(s)
           m == Len(e)
<1>1. /\ e \in Seq(Batches) /\ Head(s) = s[1]
      /\ \A i \in 1..m : e[i] = s[i + 1]
      /\ l \in Nat /\ l >= 1 /\ m \in Nat /\ m = l - 1
  OBVIOUS
<1> HIDE DEF e, l, m
<1>2. ASSUME NEW i \in 1..l PROVE s[i] = IF place = "ended" /\ i = l THEN EOF ELSE k + i
  BY DEF Counts, l
<1>3. Head(s) = IF place = "ended" /\ m = 0 THEN EOF ELSE k + 1
  <2>1. s[1] = IF place = "ended" /\ 1 = l THEN EOF ELSE k + 1
    BY ONLY <1>1, <1>2
  <2>2. 1 = l <=> m = 0
    BY ONLY <1>1
  <2>3. QED BY ONLY <1>1, <2>1, <2>2
<1>4. ASSUME NEW i \in 1..m PROVE e[i] = IF place = "ended" /\ i = m THEN EOF ELSE (k + 1) + i
  <2>1. i + 1 \in 1..l /\ (i + 1 = l <=> i = m) /\ k + (i + 1) = (k + 1) + i
    BY ONLY <1>1, i \in 1..m, k \in Nat
  <2>2. s[i + 1] = IF place = "ended" /\ i + 1 = l THEN EOF ELSE k + (i + 1)
    BY ONLY <1>2, <2>1
  <2>3. QED BY ONLY <1>1, <2>1, <2>2, i \in 1..m
<1>5. Counts(e, k + 1, place)
  BY ONLY <1>4 DEF Counts, m
<1>6. QED BY ONLY <1>1, <1>3, <1>5 DEF e, l, m

LEMMA GetKeeps ==
  ASSUME TypeOK, NEW t \in Tasks, TaskInv(t), Get(t)
  PROVE  TaskInv(t)'
<1> DEFINE c == copied[t]
           s == q[t]
<1>1. /\ c \in Seq(Batches) /\ s \in Seq(Batches) /\ wpc[t] = "get" /\ s # <<>>
      /\ Len(c) \in Nat /\ Len(s) \in Nat
  BY DEF TypeOK, Get
<1>2. UNCHANGED <<rpc, copied, read, err, size, stop, saved>> /\ q'[t] = Tail(s)
  BY DEF TypeOK, Get, reader
<1>3. Taken(t) = Len(c)
  BY <1>1 DEF Taken
<1>4. Fresh(t)' /\ Gone(t)' /\ Stored(t)'
  BY <1>1, <1>2
  DEF Get, Goes, Raises, TypeOK, Early, Flow, Streaming, TaskInv, Fresh, Flows, Stored, Gone, Whole
<1>5. Flows(t)
  BY DEF TaskInv
<1>6. /\ Tail(s) \in Seq(Batches) /\ Len(Tail(s)) \in Nat /\ Len(Tail(s)) = Len(s) - 1
      /\ Head(s) = IF rpc[t] = "ended" /\ Len(Tail(s)) = 0 THEN EOF ELSE Len(c) + 1
      /\ Counts(Tail(s), Len(c) + 1, rpc[t])
  <2>1. Counts(s, Len(c), rpc[t])
    BY <1>1, <1>3, <1>5 DEF Flows, Flow
  <2>2. QED BY ONLY <1>1, <2>1, Counting
<1>7. CASE Head(s) # EOF
  <2>1. wpc'[t] = "write" /\ got'[t] = Head(s) /\ failed' = failed
    BY <1>7 DEF TypeOK, Get, Goes
  <2>2. Taken(t)' = Len(c) + 1
    BY <1>1, <1>2, <2>1 DEF Taken
  <2>3. /\ rpc[t] \in {"loop", "fetch", "eof", "eofPutting"} => read[t] = Len(c) + 1 + Len(Tail(s))
        /\ rpc[t] \in {"put", "putting"} => read[t] = Len(c) + 1 + Len(Tail(s)) + 1
        /\ rpc[t] = "ended" => Len(Tail(s)) >= 1 /\ read[t] = Len(c) + 1 + Len(Tail(s)) - 1
    <3> DEFINE l == Len(s)
               m == Len(Tail(s))
               n == Len(c)
    <3>1. /\ rpc[t] \in {"loop", "fetch", "eof", "eofPutting"} => read[t] = n + l
          /\ rpc[t] \in {"put", "putting"} => read[t] = n + l + 1
          /\ rpc[t] = "ended" => read[t] = n + l - 1
      BY <1>1, <1>3, <1>5 DEF Flows, Flow
    <3>2. l \in Nat /\ m \in Nat /\ n \in Nat /\ m = l - 1 /\ (rpc[t] = "ended" => m # 0)
      BY <1>1, <1>6, <1>7
    <3>3. SUFFICES /\ rpc[t] \in {"loop", "fetch", "eof", "eofPutting"} => read[t] = n + 1 + m
                   /\ rpc[t] \in {"put", "putting"} => read[t] = n + 1 + m + 1
                   /\ rpc[t] = "ended" => m >= 1 /\ read[t] = n + 1 + m - 1
      OBVIOUS
    <3> HIDE DEF l, m, n
    <3>4. QED BY ONLY <3>1, <3>2
  <2>4. Flows(t)'
    BY ONLY <1>1, <1>2, <1>5, <1>6, <1>7, <2>1, <2>2, <2>3 DEF Flows, Flow
  <2>5. Complete(t)'
    BY <2>1 DEF Complete
  <2>6. QED BY <1>4, <2>4, <2>5 DEF TaskInv
<1>8. CASE Head(s) = EOF
  <2>0. rpc[t] = "ended" /\ Len(s) = 1 /\ Tail(s) = <<>>
    <3>1. rpc[t] = "ended" /\ Len(Tail(s)) = 0
      BY <1>1, <1>6, <1>8 DEF EOF
    <3>2. Tail(s) = <<>>
      BY ONLY <1>6, <3>1, EmptySeq
    <3>3. QED BY <1>1, <1>6, <3>1, <3>2
  <2>1. CASE t \in err
    BY <1>1, <1>2, <1>4, <1>8, <2>0, <2>1
    DEF Get, Goes, Raises, TypeOK, TaskInv, Flows, Flow, Complete
  <2>2. CASE t \notin err
    <3>1. read[t] = size[t] /\ read[t] = Len(c) /\ t \notin failed
      BY <1>1, <1>3, <1>5, <2>0, <2>2 DEF Flows, Flow, Ending
    <3>2. c = Whole(t)
      <4>1. \A i \in 1..Len(c) : c[i] = i
        BY <1>1, <1>5 DEF Flows, Flow
      <4>2. c = [i \in 1..Len(c) |-> c[i]]
        BY ONLY <1>1, LenProperties
      <4>3. QED BY ONLY <3>1, <4>1, <4>2 DEF Whole
    <3>3. wpc'[t] = "close" /\ failed' = failed
      BY <1>1, <1>8, <2>2 DEF TypeOK, Get, Goes
    <3>4. Complete(t)'
      BY <1>2, <2>0, <2>2, <3>1, <3>2, <3>3 DEF Complete, Whole
    <3>5. Flows(t)'
      BY <3>3 DEF Flows, Flow
    <3>6. QED BY <1>4, <3>4, <3>5 DEF TaskInv
  <2>3. QED BY <2>1, <2>2
<1>9. QED BY <1>7, <1>8

-----------------------------------------------------------------------------
(***************************************************************************)
(* The reader's steps.                                                     *)
(***************************************************************************)

\* The reader runs only beside the streaming, and changes nothing that is complete.
LEMMA ReaderBeside ==
  ASSUME TypeOK, NEW t \in Tasks, TaskInv(t), Reader(t)
  PROVE  /\ UNCHANGED <<pool, size, wpc, failed, stop, got, copied, saved>>
         /\ (Fresh(t) /\ Complete(t) /\ Stored(t) /\ Gone(t))'
<1>1. /\ rpc[t] \notin {"none", "ended"}
      /\ UNCHANGED <<pool, size, wpc, failed, stop, got, copied, saved>>
  BY DEF Reader, Test, Fetch, Put, Moves
<1>2. QED
  BY <1>1 DEF TypeOK, TaskInv, Fresh, Complete, Stored, Gone, Early, Streaming, Whole

\* What the reader appends to such a queue makes it one.
LEMMA CountingOn ==
  ASSUME NEW s \in Seq(Batches), NEW k \in Nat, NEW place, place # "ended", Counts(s, k, place)
  PROVE  /\ \A p : p # "ended" => Counts(s, k, p)
         /\ \A p, b : p # "ended" /\ b = k + Len(s) + 1 => Counts(Append(s, b), k, p)
         /\ Counts(Append(s, EOF), k, "ended")
<1>1. Len(s) \in Nat /\ \A i \in 1..Len(s) : s[i] = k + i
  BY DEF Counts
<1>2. ASSUME NEW b
      PROVE  /\ Len(Append(s, b)) = Len(s) + 1 /\ Append(s, b)[Len(s) + 1] = b
             /\ \A i \in 1..Len(s) : Append(s, b)[i] = s[i]
  OBVIOUS
<1>3. ASSUME NEW p, p # "ended" PROVE Counts(s, k, p)
  BY ONLY <1>1, <1>3 DEF Counts
<1> DEFINE l == Len(s)
<1>4. ASSUME NEW p, NEW b, p # "ended", b = k + l + 1 PROVE Counts(Append(s, b), k, p)
  <2> DEFINE e == Append(s, b)
  <2>1. l \in Nat /\ Len(e) = l + 1 /\ e[l + 1] = b /\ \A i \in 1..l : e[i] = k + i
    BY <1>1, <1>2
  <2> HIDE DEF e, l
  <2>2. ASSUME NEW i \in 1..Len(e) PROVE e[i] = k + i
    <3>1. i \in 1..l \/ i = l + 1
      BY ONLY <2>1, i \in 1..Len(e)
    <3>2. QED BY ONLY <2>1, <3>1, <1>4, k \in Nat
  <2>3. Counts(e, k, p)
    BY ONLY <2>2, <1>4 DEF Counts
  <2>4. QED BY <2>3 DEF e
<1>5. Counts(Append(s, EOF), k, "ended")
  <2> DEFINE e == Append(s, EOF)
  <2>1. l \in Nat /\ Len(e) = l + 1 /\ e[l + 1] = EOF /\ \A i \in 1..l : e[i] = k + i
    BY <1>1, <1>2
  <2> HIDE DEF e, l
  <2>2. ASSUME NEW i \in 1..Len(e) PROVE e[i] = IF i = Len(e) THEN EOF ELSE k + i
    <3>1. i = Len(e) \/ (i \in 1..l /\ i # Len(e))
      BY ONLY <2>1, i \in 1..Len(e)
    <3>2. QED BY ONLY <2>1, <3>1
  <2>3. Counts(e, k, "ended")
    BY ONLY <2>2 DEF Counts
  <2>4. QED BY <2>3 DEF e
<1>6. QED BY <1>3, <1>4, <1>5

LEMMA ReaderKeeps ==
  ASSUME TypeOK, NEW t \in Tasks, TaskInv(t), Reader(t)
  PROVE  TaskInv(t)'
<1> SUFFICES ASSUME wpc[t] \in Flow PROVE Flows(t)'
  BY ReaderBeside DEF TaskInv, Flows
<1> DEFINE s == q[t]
           k == Taken(t)
<1>1. /\ s \in Seq(Batches) /\ Len(s) \in Nat /\ k \in Nat
      /\ read[t] \in Nat /\ size[t] \in Nat /\ read \in [Tasks -> Batches]
      /\ rpc \in [Tasks -> {"none", "loop", "fetch", "put", "putting", "eof", "eofPutting", "ended"}]
      /\ q \in [Tasks -> Seq(Batches)]
  BY BoundAssumption DEF TypeOK, Batches, Taken
<1>2. Taken(t)' = k /\ UNCHANGED <<size, wpc, failed, stop, got, copied>>
  BY ReaderBeside DEF Taken
<1>3. Flows(t) /\ rpc[t] # "ended"
  BY DEF Reader, Test, Fetch, Put, Moves, TaskInv
<1>4. /\ \A p : p # "ended" => Counts(s, k, p)
      /\ \A p, b : p # "ended" /\ b = k + Len(s) + 1 => Counts(Append(s, b), k, p)
      /\ Counts(Append(s, EOF), k, "ended")
  <2>1. Counts(s, k, rpc[t])
    BY <1>3 DEF Flows
  <2>2. QED BY ONLY <1>1, <1>3, <2>1, CountingOn
<1> HIDE DEF k
<1>5. CASE Test(t)
  BY ONLY <1>1, <1>2, <1>3, <1>4, <1>5, t \in Tasks, wpc[t] \in Flow DEF Test, Moves, Flows, Ending, k
<1>6. CASE Fetch(t)
  BY ONLY <1>1, <1>2, <1>3, <1>4, <1>6, t \in Tasks, wpc[t] \in Flow DEF Fetch, Moves, Flows, Ending, k
<1>7. CASE Put(t)
  <2>1. CASE UNCHANGED q
    BY ONLY <1>1, <1>2, <1>3, <1>4, <1>7, <2>1, t \in Tasks, wpc[t] \in Flow
    DEF Put, Moves, Flows, Ending, k
  <2>2. CASE Moves(t, "putting", "loop") /\ q' = [q EXCEPT ![t] = Append(s, read[t])]
    <3>1. UNCHANGED <<read, err>> /\ rpc'[t] = "loop" /\ q'[t] = Append(s, read[t])
      BY <1>1, <1>7, <2>2 DEF Put, Moves
    <3>2. read[t] = k + Len(s) + 1 /\ Len(q'[t]) = Len(s) + 1
      BY <1>1, <1>3, <2>2, <3>1 DEF Moves, Flows, k
    <3>3. QED BY ONLY <1>1, <1>2, <1>3, <1>4, <2>2, <3>1, <3>2, wpc[t] \in Flow
              DEF Moves, Flows, Ending, k
  <2>3. CASE Moves(t, "eofPutting", "ended") /\ q' = [q EXCEPT ![t] = Append(s, EOF)]
    <3>1. UNCHANGED <<read, err>> /\ rpc'[t] = "ended" /\ q'[t] = Append(s, EOF)
      BY <1>1, <1>7, <2>3 DEF Put, Moves
    <3>2. read[t] = k + Len(s) /\ Len(q'[t]) = Len(s) + 1
      BY <1>1, <1>3, <2>3, <3>1 DEF Moves, Flows, k
    <3>3. QED BY ONLY <1>1, <1>2, <1>3, <1>4, <2>3, <3>1, <3>2, wpc[t] \in Flow
              DEF Moves, Flows, Ending, k
  <2>4. QED BY <1>7, <2>1, <2>2, <2>3 DEF Put
<1>8. QED BY <1>5, <1>6, <1>7 DEF Reader

-----------------------------------------------------------------------------
(***************************************************************************)
(* The pool.                                                               *)
(***************************************************************************)

\* The tasks at the places S after t has moved to the place p.
LEMMA Moved ==
  ASSUME TypeOK, NEW t \in Tasks, NEW S, NEW p, Goes(t, p)
  PROVE  /\ (wpc[t] \in S <=> p \in S) => At(S, wpc') = At(S, wpc)
         /\ wpc[t] \notin S /\ p \in S =>
              /\ At(S, wpc') = At(S, wpc) \union {t}
              /\ Cardinality(At(S, wpc')) = Cardinality(At(S, wpc)) + 1
         /\ wpc[t] \in S /\ p \notin S =>
              /\ At(S, wpc') = At(S, wpc) \ {t}
              /\ Cardinality(At(S, wpc')) = Cardinality(At(S, wpc)) - 1
         /\ IsFiniteSet(At(S, wpc)) /\ Cardinality(At(S, wpc)) \in Nat
<1>1. wpc \in [Tasks -> Holding \union {"source", "acquire", "end"}]
  BY DEF TypeOK
<1>2. IsFiniteSet(At(S, wpc)) /\ Cardinality(At(S, wpc)) \in Nat
  BY TasksAssumption, FS_Subset, FS_CardinalityType DEF At
<1>3. (wpc[t] \in S <=> p \in S) => At(S, wpc') = At(S, wpc)
  BY <1>1 DEF At, Goes
<1>4. ASSUME wpc[t] \notin S, p \in S
      PROVE  /\ At(S, wpc') = At(S, wpc) \union {t}
             /\ Cardinality(At(S, wpc')) = Cardinality(At(S, wpc)) + 1
  <2>1. At(S, wpc') = At(S, wpc) \union {t} /\ t \notin At(S, wpc)
    BY <1>1, <1>4 DEF At, Goes
  <2>2. QED BY <1>2, <2>1, FS_AddElement
<1>5. ASSUME wpc[t] \in S, p \notin S
      PROVE  /\ At(S, wpc') = At(S, wpc) \ {t}
             /\ Cardinality(At(S, wpc')) = Cardinality(At(S, wpc)) - 1
  <2>1. At(S, wpc') = At(S, wpc) \ {t} /\ t \in At(S, wpc)
    BY <1>1, <1>5 DEF At, Goes
  <2>2. QED BY <1>2, <2>1, FS_RemoveElement
<1>6. QED BY <1>2, <1>3, <1>4, <1>5

\* The tasks that open a connection are among those that hold a slot.
LEMMA OpenedHold ==
  ASSUME TypeOK, NEW t \in Tasks, wpc[t] = "lease"
  PROVE  Cardinality(At(Opened, wpc)) + 1 <= Cardinality(At(Holding, wpc))
<1>1. /\ At(Opened, wpc) \subseteq At(Holding, wpc) /\ t \in At(Holding, wpc)
      /\ t \notin At(Opened, wpc)
  BY DEF At, Opened, Holding
<1>2. IsFiniteSet(At(Holding, wpc)) /\ IsFiniteSet(At(Opened, wpc))
  BY TasksAssumption, FS_Subset DEF At
<1>3. Cardinality(At(Opened, wpc) \union {t}) = Cardinality(At(Opened, wpc)) + 1
  BY <1>1, <1>2, FS_AddElement
<1>4. Cardinality(At(Opened, wpc) \union {t}) <= Cardinality(At(Holding, wpc))
  BY <1>1, <1>2, FS_Subset
<1>5. QED BY <1>3, <1>4

LEMMA PoolKeeps ==
  ASSUME TypeOK, PoolInv, NEW t \in Tasks, Writer(t) \/ Reader(t)
  PROVE  PoolInv' /\ free' \in 0..PoolMax /\ idle' \in 0..PoolMax /\ has' \subseteq Tasks
<1> DEFINE h == Cardinality(At(Holding, wpc))
           o == Cardinality(At(Opened, wpc))
<1>1. /\ free \in Int /\ idle \in Int /\ free >= 0 /\ idle >= 0 /\ PoolMax \in Nat
      /\ h \in Nat /\ o \in Nat
      /\ free + h = PoolMax /\ idle + o <= PoolMax /\ has = At(Having, wpc)
  BY SizesAssumption, TasksAssumption, FS_Subset, FS_CardinalityType DEF TypeOK, PoolInv, At
<1>2. SUFFICES /\ free' \in Int /\ idle' \in Int /\ free' >= 0 /\ idle' >= 0
               /\ free' + Cardinality(At(Holding, wpc')) = PoolMax
               /\ idle' + Cardinality(At(Opened, wpc')) <= PoolMax
               /\ has' = At(Having, wpc')
  <2>1. Cardinality(At(Holding, wpc')) \in Nat /\ Cardinality(At(Opened, wpc')) \in Nat
    BY TasksAssumption, FS_Subset, FS_CardinalityType DEF At
  <2>2. At(Having, wpc') \subseteq Tasks
    BY DEF At
  <2>3. QED BY <1>1, <1>2, <2>1, <2>2 DEF PoolInv
<1>3. CASE UNCHANGED <<pool, wpc>>
  BY <1>1, <1>3 DEF pool
<1>4. ASSUME NEW p, Goes(t, p), UNCHANGED pool,
             {wpc[t], p} \subseteq Having \/ {wpc[t], p} \subseteq {"source", "acquire", "end"}
      PROVE  UNCHANGED <<pool, At(Holding, wpc), At(Opened, wpc), At(Having, wpc)>>
  <2>1. /\ wpc[t] \in Holding <=> p \in Holding
        /\ wpc[t] \in Opened <=> p \in Opened
        /\ wpc[t] \in Having <=> p \in Having
    BY <1>4 DEF Holding, Opened, Having
  <2>2. QED BY <1>4, <2>1, Moved
<1>5. CASE OpenSource(t)
  BY <1>1, <1>4, <1>5 DEF OpenSource, Raises, pool
<1>6. CASE Prepare(t) \/ OpenCopy(t) \/ Get(t) \/ Write(t) \/ CloseCopy(t) \/ Stop(t)
           \/ Drain(t) \/ Join(t) \/ Commit(t)
  <2>1. UNCHANGED pool
    BY <1>6 DEF Prepare, OpenCopy, Get, Write, CloseCopy, Stop, Drain, Join, Commit
  <2>2. UNCHANGED wpc \/ \E p \in Having : Goes(t, p) /\ wpc[t] \in Having
    BY <1>6 DEF Prepare, OpenCopy, Get, Write, CloseCopy, Stop, Drain, Join, Commit, Raises,
                Having, Holding
  <2>3. QED BY <1>1, <1>3, <1>4, <2>1, <2>2 DEF pool
<1>7. CASE Acquire(t)
  <2>1. Goes(t, "lease") /\ wpc[t] = "acquire"
    BY <1>7 DEF Acquire
  <2>2. /\ Cardinality(At(Holding, wpc')) = h + 1
        /\ At(Opened, wpc') = At(Opened, wpc) /\ At(Having, wpc') = At(Having, wpc)
    <3>1. /\ "acquire" \notin Holding /\ "lease" \in Holding
          /\ "acquire" \notin Opened /\ "lease" \notin Opened
          /\ "acquire" \notin Having /\ "lease" \notin Having
      BY DEF Holding, Opened, Having
    <3>2. QED BY <2>1, <3>1, Moved
  <2>3. QED BY <1>1, <1>7, <2>2 DEF Acquire
<1>8. CASE Lease(t)
  <2> DEFINE place == IF idle > 0 THEN "prepare" ELSE "connect"
  <2>1. Goes(t, place) /\ wpc[t] = "lease"
    BY <1>1, <1>8 DEF Lease
  <2>2. /\ At(Holding, wpc') = At(Holding, wpc)
        /\ Cardinality(At(Opened, wpc')) = o + 1
        /\ idle > 0 => At(Having, wpc') = At(Having, wpc) \union {t}
        /\ ~ idle > 0 => At(Having, wpc') = At(Having, wpc)
    <3>1. /\ "lease" \in Holding /\ place \in Holding
          /\ "lease" \notin Opened /\ place \in Opened
          /\ "lease" \notin Having /\ (place \in Having <=> idle > 0)
      BY DEF Holding, Opened, Having
    <3>2. QED BY <2>1, <3>1, Moved
  <2>3. o + 1 <= h
    BY <2>1, OpenedHold
  <2>4. free' = free /\ \/ idle > 0 /\ idle' = idle - 1 /\ has' = has \union {t}
                        \/ idle = 0 /\ idle' = 0 /\ has' = has
    BY <1>8 DEF Lease
  <2>5. idle' + Cardinality(At(Opened, wpc')) <= PoolMax
    <3> DEFINE o2 == Cardinality(At(Opened, wpc'))
    <3>1. o2 = o + 1
      BY <2>2
    <3> HIDE DEF h, o, o2
    <3>2. idle' + o2 <= PoolMax
      BY ONLY <1>1, <2>3, <2>4, <3>1
    <3>3. QED BY <3>2 DEF o2
  <2>6. free' \in Int /\ idle' \in Int /\ free' >= 0 /\ idle' >= 0
    BY ONLY <1>1, <2>4
  <2>7. has' = At(Having, wpc')
    <3>1. has = At(Having, wpc) /\ (idle = 0 => ~ idle > 0)
      BY ONLY <1>1
    <3>2. CASE idle > 0
      BY <2>2, <2>4, <3>1, <3>2
    <3>3. CASE ~ idle > 0
      BY <2>2, <2>4, <3>1, <3>3
    <3>4. QED BY ONLY <3>2, <3>3
  <2>8. free' + Cardinality(At(Holding, wpc')) = PoolMax
    BY ONLY <1>1, <2>2, <2>4
  <2>9. QED BY ONLY <2>5, <2>6, <2>7, <2>8
<1>9. CASE Connect(t)
  <2>1. wpc[t] = "connect"
    BY <1>9 DEF Connect
  <2>2. CASE Goes(t, "prepare") /\ has' = has \union {t}
    <3>1. /\ "connect" \in Holding /\ "prepare" \in Holding
          /\ "connect" \in Opened /\ "prepare" \in Opened
          /\ "connect" \notin Having /\ "prepare" \in Having
      BY DEF Holding, Opened, Having
    <3>2. /\ At(Holding, wpc') = At(Holding, wpc) /\ At(Opened, wpc') = At(Opened, wpc)
          /\ At(Having, wpc') = At(Having, wpc) \union {t}
      BY <2>1, <2>2, <3>1, Moved
    <3>3. QED BY <1>1, <1>9, <2>2, <3>2 DEF Connect
  <2>3. CASE Goes(t, "release") /\ UNCHANGED has
    <3>1. /\ "connect" \in Holding /\ "release" \in Holding
          /\ "connect" \in Opened /\ "release" \notin Opened
          /\ "connect" \notin Having /\ "release" \notin Having
      BY DEF Holding, Opened, Having
    <3>2. /\ At(Holding, wpc') = At(Holding, wpc) /\ Cardinality(At(Opened, wpc')) = o - 1
          /\ At(Having, wpc') = At(Having, wpc)
      BY <2>1, <2>3, <3>1, Moved
    <3>3. QED BY <1>1, <1>9, <2>3, <3>2 DEF Connect
  <2>4. QED BY <1>9, <2>2, <2>3 DEF Connect, Raises
<1>10. CASE Reset(t) \/ Discard(t)
  <2>1. /\ Goes(t, "release") /\ wpc[t] \in {"reset", "discard"}
        /\ has' = has \ {t} /\ free' = free /\ idle' \in {idle, idle + 1}
    BY <1>10 DEF Reset, Discard
  <2>2. /\ At(Holding, wpc') = At(Holding, wpc) /\ Cardinality(At(Opened, wpc')) = o - 1
        /\ At(Having, wpc') = At(Having, wpc) \ {t}
    <3>1. /\ wpc[t] \in Holding /\ "release" \in Holding
          /\ wpc[t] \in Opened /\ "release" \notin Opened
          /\ wpc[t] \in Having /\ "release" \notin Having
      BY <2>1 DEF Holding, Opened, Having
    <3>2. QED BY <2>1, <3>1, Moved
  <2>3. QED BY <1>1, <2>1, <2>2
<1>11. CASE Release(t)
  <2>1. Goes(t, "end") /\ wpc[t] = "release"
    BY <1>11 DEF Release, Raises
  <2>2. /\ Cardinality(At(Holding, wpc')) = h - 1
        /\ At(Opened, wpc') = At(Opened, wpc) /\ At(Having, wpc') = At(Having, wpc)
    <3>1. /\ "release" \in Holding /\ "end" \notin Holding
          /\ "release" \notin Opened /\ "end" \notin Opened
          /\ "release" \notin Having /\ "end" \notin Having
      BY DEF Holding, Opened, Having
    <3>2. QED BY <2>1, <3>1, Moved
  <2>3. QED BY <1>1, <1>11, <2>2 DEF Release
<1>12. CASE Reader(t)
  <2>1. UNCHANGED <<pool, wpc>>
    BY <1>12 DEF Reader, Test, Fetch, Put
  <2>2. QED BY <1>3, <2>1
<1>13. QED
  BY <1>5, <1>6, <1>7, <1>8, <1>9, <1>10, <1>11, <1>12 DEF Writer

-----------------------------------------------------------------------------
(***************************************************************************)
(* Every step keeps the invariant.                                         *)
(***************************************************************************)
LEMMA QueuesKeep ==
  ASSUME TypeOK, NEW t \in Tasks, Writer(t) \/ Reader(t)
  PROVE  /\ q' \in [Tasks -> Seq(Batches)] /\ \A u \in Tasks : Len(q'[u]) <= QueueSize
         /\ copied' \in [Tasks -> Seq(Batches)] /\ saved' \in [Tasks -> Seq(Batches)]
<1>1. /\ q \in [Tasks -> Seq(Batches)] /\ \A u \in Tasks : Len(q[u]) <= QueueSize
      /\ copied \in [Tasks -> Seq(Batches)] /\ saved \in [Tasks -> Seq(Batches)]
      /\ read[t] \in Batches /\ got[t] \in Batches /\ EOF \in Batches /\ QueueSize \in Nat
  BY SizesAssumption, BoundAssumption DEF TypeOK, EOF, Batches
<1>2. Writer(t) \/ Reader(t) =>
        \/ UNCHANGED q
        \/ q[t] # <<>> /\ q' = [q EXCEPT ![t] = Tail(q[t])]
        \/ Len(q[t]) < QueueSize /\ \E b \in Batches : q' = [q EXCEPT ![t] = Append(q[t], b)]
  BY <1>1
  DEF Writer, Reader, OpenSource, Acquire, Lease, Connect, Prepare, OpenCopy, Get, Write, CloseCopy,
      Stop, Drain, Join, Commit, Reset, Discard, Release, Test, Fetch, Put
<1>3. Writer(t) \/ Reader(t) =>
        \/ UNCHANGED copied
        \/ copied' = [copied EXCEPT ![t] = Append(copied[t], got[t])]
        \/ copied' = [copied EXCEPT ![t] = <<>>]
  BY DEF Writer, Reader, OpenSource, Acquire, Lease, Connect, Prepare, OpenCopy, Get, Write, CloseCopy,
         Stop, Drain, Join, Commit, Reset, Discard, Release, Test, Fetch, Put
<1>4. Writer(t) \/ Reader(t) =>
        UNCHANGED saved \/ saved' = [saved EXCEPT ![t] = copied[t]]
  BY DEF Writer, Reader, OpenSource, Acquire, Lease, Connect, Prepare, OpenCopy, Get, Write, CloseCopy,
         Stop, Drain, Join, Commit, Reset, Discard, Release, Test, Fetch, Put
<1>5. ASSUME NEW e \in Seq(Batches), Len(e) <= QueueSize, q' = [q EXCEPT ![t] = e]
      PROVE  q' \in [Tasks -> Seq(Batches)] /\ \A u \in Tasks : Len(q'[u]) <= QueueSize
  BY ONLY <1>1, <1>5
<1>6. q' \in [Tasks -> Seq(Batches)] /\ \A u \in Tasks : Len(q'[u]) <= QueueSize
  <2>1. CASE UNCHANGED q
    BY <1>1, <2>1
  <2>2. CASE q[t] # <<>> /\ q' = [q EXCEPT ![t] = Tail(q[t])]
    <3>1. Tail(q[t]) \in Seq(Batches) /\ Len(Tail(q[t])) <= QueueSize
      <4>1. q[t] \in Seq(Batches) /\ Len(q[t]) \in Nat /\ Len(q[t]) <= QueueSize
        BY <1>1
      <4>2. Tail(q[t]) \in Seq(Batches) /\ Len(Tail(q[t])) = Len(q[t]) - 1
        BY <2>2, <4>1
      <4>3. QED BY <1>1, <4>1, <4>2
    <3>2. QED BY <1>5, <2>2, <3>1
  <2>3. ASSUME NEW b \in Batches, Len(q[t]) < QueueSize, q' = [q EXCEPT ![t] = Append(q[t], b)]
        PROVE  q' \in [Tasks -> Seq(Batches)] /\ \A u \in Tasks : Len(q'[u]) <= QueueSize
    <3>1. Append(q[t], b) \in Seq(Batches) /\ Len(Append(q[t], b)) <= QueueSize
      BY <1>1, <2>3
    <3>2. QED BY <1>5, <2>3, <3>1
  <2>4. QED BY <1>2, <2>1, <2>2, <2>3
<1>7. copied' \in [Tasks -> Seq(Batches)]
  <2>1. Append(copied[t], got[t]) \in Seq(Batches) /\ <<>> \in Seq(Batches)
    BY <1>1
  <2>2. QED BY <1>1, <1>3, <2>1
<1>8. saved' \in [Tasks -> Seq(Batches)]
  BY <1>1, <1>4
<1>9. QED BY <1>6, <1>7, <1>8

LEMMA TypesKeep ==
  ASSUME TypeOK, PoolInv, NEW t \in Tasks, Writer(t) \/ Reader(t)
  PROVE  TypeOK'
<1> DEFINE Places   == Holding \union {"source", "acquire", "end"}
           Readings == {"none", "loop", "fetch", "put", "putting", "eof", "eofPutting", "ended"}
           Rest ==
             /\ size \in [Tasks -> Batches]
             /\ wpc \in [Tasks -> Places]
             /\ rpc \in [Tasks -> Readings]
             /\ failed \subseteq Tasks /\ stop \subseteq Tasks /\ err \subseteq Tasks
             /\ read \in [Tasks -> Batches] /\ got \in [Tasks -> Batches]
<1>1. Rest
  BY DEF TypeOK
<1>2. SUFFICES Rest'
  BY PoolKeeps, QueuesKeep DEF TypeOK
<1> USE DEF Holding, Goes, Raises, Moves, pool, reader
<1>3. CASE OpenSource(t) \/ Acquire(t) \/ Lease(t) \/ Connect(t) \/ Prepare(t)
  BY <1>1, <1>3 DEF OpenSource, Acquire, Lease, Connect, Prepare
<1>4. CASE Commit(t) \/ Reset(t) \/ Discard(t) \/ Release(t)
  BY <1>1, <1>4 DEF Commit, Reset, Discard, Release
<1>5. CASE OpenCopy(t) \/ Write(t) \/ CloseCopy(t) \/ Stop(t) \/ Drain(t) \/ Join(t)
  BY <1>1, <1>5 DEF OpenCopy, Write, CloseCopy, Stop, Drain, Join
<1>6. CASE Get(t)
  <2>1. q[t] \in Seq(Batches) /\ q[t] # <<>>
    BY <1>6 DEF TypeOK, Get
  <2>2. Head(q[t]) \in Batches
    BY <2>1
  <2>3. QED BY <1>1, <1>6, <2>2 DEF Get
<1>7. CASE Test(t)
  BY <1>1, <1>7 DEF Test
<1>8. CASE Fetch(t)
  BY <1>1, <1>8, BoundAssumption DEF Fetch, Batches
<1>9. CASE Put(t)
  BY <1>1, <1>9 DEF Put
<1>10. QED
  BY <1>3, <1>4, <1>5, <1>6, <1>7, <1>8, <1>9 DEF Writer, Reader

LEMMA OwnKeeps ==
  ASSUME TypeOK, NEW t \in Tasks, TaskInv(t), Writer(t) \/ Reader(t)
  PROVE  TaskInv(t)'
<1>1. CASE Writer(t)
  BY <1>1, BeforeKeeps, AfterKeeps, FinallyKeeps, OpenCopyKeeps, WriteKeeps, GetKeeps DEF Writer
<1>2. CASE Reader(t)
  BY <1>2, ReaderKeeps
<1>3. QED BY <1>1, <1>2

LEMMA Step == IInv /\ [Next]_vars => IInv'
<1> SUFFICES ASSUME IInv, [Next]_vars PROVE IInv'
  OBVIOUS
<1>1. CASE UNCHANGED vars
  <2>1. UNCHANGED <<free, idle, has, size, wpc, rpc, failed, q, stop, err, read, got, copied, saved>>
    BY <1>1 DEF vars, pool, reader
  <2>2. TypeOK'
    BY <2>1 DEF IInv, TypeOK
  <2>3. PoolInv'
    BY <2>1 DEF IInv, PoolInv, At
  <2>4. ASSUME NEW u \in Tasks PROVE TaskInv(u)'
    BY <2>1 DEF IInv, TaskInv, Fresh, Flows, Taken, Complete, Stored, Gone, Whole
  <2>5. QED BY <2>2, <2>3, <2>4 DEF IInv
<1>2. ASSUME NEW t \in Tasks, Writer(t) \/ Reader(t) PROVE IInv'
  <2>1. TypeOK' /\ PoolInv'
    BY <1>2, TypesKeep, PoolKeeps DEF IInv
  <2>2. ASSUME NEW u \in Tasks PROVE TaskInv(u)'
    BY <1>2, OwnKeeps, OthersKeep DEF IInv
  <2>3. QED BY <2>1, <2>2 DEF IInv
<1>3. QED BY <1>1, <1>2 DEF Next, Idle

THEOREM Invariant == Spec => []IInv
BY Initially, Step, PTL DEF Spec

-----------------------------------------------------------------------------
(***************************************************************************)
(* What follows from it.                                                   *)
(***************************************************************************)

\* Every variable has its type; in particular the queue of no task is ever longer than
\* copy.queue_size, and the value of the pool's semaphore stays between 0 and pool_max.
THEOREM Types == Spec => []TypeOK
<1>1. IInv => TypeOK
  BY DEF IInv
<1>2. QED BY <1>1, Invariant, PTL

\* Whatever call fails in either thread, move() commits a partition wholly or not at all,
\* and returns without an exception only if the partition is loaded.
THEOREM LoadsWhole == Spec => []AllOrNothing
<1>1. IInv => AllOrNothing
  BY DEF IInv, TaskInv, Stored, AllOrNothing
<1>2. QED BY <1>1, Invariant, PTL

\* The reader is gone when its task ends the transaction and closes the source.
THEOREM ReadersGone == Spec => []ReaderGone
<1>1. IInv => ReaderGone
  BY DEF IInv, TaskInv, Gone, ReaderGone
<1>2. QED BY <1>1, Invariant, PTL

\* Connections in use and idle ones are together never more than pool_max.
THEOREM ConnectionsBounded == Spec => []ConnectionBound
<1>1. IInv => ConnectionBound
  <2> SUFFICES ASSUME IInv PROVE ConnectionBound
    OBVIOUS
  <2>1. has \subseteq At(Opened, wpc) /\ IsFiniteSet(At(Opened, wpc)) /\ IsFiniteSet(has)
    BY TasksAssumption, FS_Subset DEF IInv, PoolInv, At, Having, Opened
  <2>2. Cardinality(has) <= Cardinality(At(Opened, wpc))
    BY <2>1, FS_Subset
  <2>3. Cardinality(has) \in Nat /\ Cardinality(At(Opened, wpc)) \in Nat
    BY <2>1, FS_CardinalityType
  <2>4. idle \in Int /\ PoolMax \in Int /\ idle + Cardinality(At(Opened, wpc)) <= PoolMax
    BY SizesAssumption DEF IInv, TypeOK, PoolInv
  <2>5. QED BY <2>2, <2>3, <2>4 DEF ConnectionBound
<1>2. QED BY <1>1, Invariant, PTL

\* connection() returns each slot exactly once, on every path.
THEOREM SlotsAreExact == Spec => []SlotsExact
<1>1. IInv => SlotsExact
  BY DEF IInv, PoolInv, At, SlotsExact
<1>2. QED BY <1>1, Invariant, PTL

-----------------------------------------------------------------------------
(***************************************************************************)
(* Nobody waits for what will not come.  IInv knows when the reader has    *)
(* put its end mark; what is missing is who has been told to stop.         *)
(***************************************************************************)
StopInv(t) ==
  /\ wpc[t] \in Streaming => rpc[t] # "none"
  /\ wpc[t] \in {"drain", "join"} => t \in stop

LEMMA StopKeeps ==
  ASSUME TypeOK, NEW t \in Tasks, StopInv(t), Writer(t) \/ Reader(t)
  PROVE  StopInv(t)'
<1> USE DEF TypeOK, StopInv, Goes, Raises, Moves, reader, pool, Streaming
<1>1. CASE OpenSource(t) \/ Acquire(t) \/ Lease(t) \/ Connect(t) \/ Prepare(t)
  BY <1>1 DEF OpenSource, Acquire, Lease, Connect, Prepare
<1>2. CASE OpenCopy(t) \/ Get(t) \/ Write(t) \/ CloseCopy(t)
  BY <1>2 DEF OpenCopy, Get, Write, CloseCopy
<1>3. CASE Stop(t) \/ Drain(t) \/ Join(t)
  BY <1>3 DEF Stop, Drain, Join
<1>4. CASE Commit(t) \/ Reset(t) \/ Discard(t) \/ Release(t)
  BY <1>4 DEF Commit, Reset, Discard, Release
<1>5. CASE Test(t) \/ Fetch(t) \/ Put(t)
  BY <1>5 DEF Test, Fetch, Put
<1>6. QED BY <1>1, <1>2, <1>3, <1>4, <1>5 DEF Writer, Reader

LEMMA StopStep ==
  IInv /\ (\A t \in Tasks : StopInv(t)) /\ [Next]_vars => (\A t \in Tasks : StopInv(t))'
<1> SUFFICES ASSUME IInv, \A t \in Tasks : StopInv(t), [Next]_vars, NEW u \in Tasks
             PROVE  StopInv(u)'
  OBVIOUS
<1>1. CASE UNCHANGED vars
  BY <1>1 DEF vars, reader, StopInv
<1>2. ASSUME NEW t \in Tasks, Writer(t) \/ Reader(t) PROVE StopInv(u)'
  <2>1. CASE u = t
    BY <1>2, <2>1, StopKeeps DEF IInv
  <2>2. CASE u # t
    BY <1>2, <2>2, Others DEF IInv, StopInv
  <2>3. QED BY <2>1, <2>2
<1>3. QED BY <1>1, <1>2 DEF Next, Idle

\* The writer at an empty queue, the writer that joins the reader, and the task that waits
\* for the pool each wait for somebody who is there, has been told, and can go on.
THEOREM NobodyIsStuck == Spec => []NobodyStuck
<1>1. Init => \A t \in Tasks : StopInv(t)
  BY DEF Init, StopInv, Streaming
<1>2. IInv /\ (\A t \in Tasks : StopInv(t)) => NobodyStuck
  <2> SUFFICES ASSUME IInv, \A t \in Tasks : StopInv(t), NEW t \in Tasks
               PROVE  /\ wpc[t] = "get" /\ q[t] = <<>> => rpc[t] \notin {"none", "ended"}
                      /\ wpc[t] = "join" => t \in stop /\ rpc[t] # "none"
                      /\ wpc[t] = "acquire" /\ free = 0 =>
                           \E u \in Tasks \ {t} : wpc[u] \in Holding
    BY DEF NobodyStuck
  <2>1. wpc[t] = "get" /\ q[t] = <<>> => rpc[t] \notin {"none", "ended"}
    BY DEF IInv, TaskInv, Flows, Flow
  <2>2. wpc[t] = "join" => t \in stop /\ rpc[t] # "none"
    BY DEF StopInv, Streaming
  <2>3. ASSUME wpc[t] = "acquire", free = 0 PROVE \E u \in Tasks \ {t} : wpc[u] \in Holding
    <3>1. Cardinality(At(Holding, wpc)) # 0
      <4>1. free + Cardinality(At(Holding, wpc)) = PoolMax /\ PoolMax # 0
        BY SizesAssumption DEF IInv, PoolInv
      <4>2. Cardinality(At(Holding, wpc)) \in Nat
        BY TasksAssumption, FS_Subset, FS_CardinalityType DEF At
      <4>3. QED BY <2>3, <4>1, <4>2
    <3>2. At(Holding, wpc) # {}
      BY <3>1, FS_EmptySet
    <3>3. wpc[t] \notin Holding
      BY <2>3 DEF Holding
    <3>4. QED BY <3>2, <3>3 DEF At
  <2>4. QED BY <2>1, <2>2, <2>3
<1>3. QED BY <1>1, <1>2, StopStep, Invariant, PTL DEF Spec

-----------------------------------------------------------------------------
(***************************************************************************)
(* CopyPipeline implements LoadPromise.  Four of its steps are seen: the   *)
(* slot is taken, COMMIT takes effect, the slot is returned, and a source  *)
(* that cannot be opened is reported.                                      *)
(***************************************************************************)

\* LoadPromise counts as CopyPipeline does.
LEMMA CardinalityIsOne ==
  ASSUME NEW S
  PROVE  Promise!Cardinality(S) = Cardinality(S)
BY DEF Promise!Cardinality, Cardinality

\* A step that leaves the task on its side of "end" and of the pool is told to nobody.
LEMMA Untold ==
  ASSUME TypeOK, NEW t \in Tasks, wpc[t] # "end", NEW p, p # "end", Goes(t, p),
         failed' \in {failed, failed \union {t}},
         wpc[t] \in Holding <=> p \in Holding
  PROVE  Told' = Told /\ Borrowed' = Borrowed
<1>1. wpc' = [wpc EXCEPT ![t] = p] /\ wpc \in [Tasks -> Holding \union {"source", "acquire", "end"}]
  BY DEF TypeOK, Goes
<1>2. Told' = Told
  BY <1>1 DEF Told
<1>3. Borrowed' = Borrowed
  BY <1>1 DEF Borrowed
<1>4. QED BY <1>2, <1>3

\* A step to "end" tells the caller.
LEMMA Telling ==
  ASSUME TypeOK, NEW t \in Tasks, wpc[t] # "end", Goes(t, "end"),
         failed' \in {failed, failed \union {t}}
  PROVE  /\ Told[t] = "none"
         /\ Told' = [Told EXCEPT ![t] = IF t \in failed' THEN "failed" ELSE "done"]
         /\ Borrowed' = Borrowed \ {t}
<1>1. wpc' = [wpc EXCEPT ![t] = "end"] /\ wpc \in [Tasks -> Holding \union {"source", "acquire", "end"}]
  BY DEF TypeOK, Goes
<1>2. Told' = [Told EXCEPT ![t] = IF t \in failed' THEN "failed" ELSE "done"]
  <2>1. ASSUME NEW u \in Tasks
        PROVE  Told'[u] = IF u = t THEN IF t \in failed' THEN "failed" ELSE "done" ELSE Told[u]
    BY <1>1 DEF Told
  <2>2. QED BY <2>1 DEF Told
<1>3. Borrowed' = Borrowed \ {t}
  BY <1>1 DEF Borrowed, Holding
<1>4. QED BY <1>2, <1>3 DEF Told

LEMMA WriterIsPromised ==
  ASSUME IInv, NEW t \in Tasks, Writer(t)
  PROVE  [Promise!LNext]_(Promise!lvars)
<1> USE DEF IInv
<1>1. size' = size /\ TypeOK /\ TaskInv(t)
  BY Others, TasksAssumption
  DEF Writer, OpenSource, Acquire, Lease, Connect, Prepare, OpenCopy, Get, Write, CloseCopy,
      Stop, Drain, Join, Commit, Reset, Discard, Release
<1>2. CASE OpenSource(t)
  <2>1. CASE Goes(t, "acquire") /\ UNCHANGED failed
    <3>1. Told' = Told /\ Borrowed' = Borrowed
      BY <1>1, <1>2, <2>1, Untold DEF OpenSource, Holding
    <3>2. QED BY <1>1, <1>2, <3>1 DEF OpenSource, Promise!lvars
  <2>2. CASE Raises(t, "end")
    <3>1. /\ Told[t] = "none" /\ Told' = [Told EXCEPT ![t] = "failed"]
          /\ Borrowed' = Borrowed \ {t}
      BY <1>1, <1>2, <2>2, Telling DEF OpenSource, Raises
    <3>2. Promise!Tell(t)
      BY <1>1, <1>2, <3>1 DEF OpenSource, Promise!Tell
    <3>3. QED BY <3>2 DEF Promise!LNext
  <2>3. QED BY <1>2, <2>1, <2>2 DEF OpenSource
<1>3. CASE Acquire(t)
  <2>1. /\ wpc[t] = "acquire" /\ wpc' = [wpc EXCEPT ![t] = "lease"] /\ free > 0
        /\ UNCHANGED <<failed, saved>>
        /\ wpc \in [Tasks -> Holding \union {"source", "acquire", "end"}]
    BY <1>1, <1>3 DEF Acquire, Goes, TypeOK
  <2>2. Told' = Told /\ Told[t] = "none"
    BY <2>1 DEF Told
  <2>3. Borrowed' = Borrowed \union {t} /\ t \notin Borrowed
    BY <2>1 DEF Borrowed, Holding
  <2>4. Cardinality(Borrowed) < PoolMax
    <3>1. free + Cardinality(Borrowed) = PoolMax /\ free \in Int
      BY <1>1 DEF PoolInv, At, Borrowed, TypeOK
    <3>2. Cardinality(Borrowed) \in Nat /\ PoolMax \in Nat
      BY SizesAssumption, TasksAssumption, FS_Subset, FS_CardinalityType DEF Borrowed
    <3>3. QED BY <2>1, <3>1, <3>2
  <2>5. Promise!Borrow(t)
    BY <1>1, <2>1, <2>2, <2>3, <2>4, CardinalityIsOne DEF Promise!Borrow
  <2>6. QED BY <2>5 DEF Promise!LNext
<1>4. CASE Commit(t)
  <2>1. wpc[t] = "commit" /\ t \in Borrowed
    BY <1>4 DEF Commit, Borrowed, Holding
  <2>2. saved[t] = <<>> /\ copied[t] = Whole(t)
    BY <1>1, <2>1 DEF TaskInv, Stored, Complete
  <2>3. Told' = Told /\ Borrowed' = Borrowed
    BY <1>1, <1>4, <2>1, Untold DEF Commit, Raises, Holding
  <2>4. CASE UNCHANGED saved
    BY <1>1, <2>3, <2>4 DEF Promise!lvars
  <2>5. CASE saved' = [saved EXCEPT ![t] = copied[t]]
    <3>1. Promise!Load(t)
      BY <1>1, <2>1, <2>2, <2>3, <2>5 DEF Promise!Load, Promise!All, Whole
    <3>2. QED BY <3>1 DEF Promise!LNext
  <2>6. QED BY <1>4, <2>4, <2>5 DEF Commit
<1>5. CASE Release(t)
  <2>1. /\ wpc[t] = "release" /\ Goes(t, "end") /\ t \in Borrowed /\ UNCHANGED saved
        /\ failed' = failed \/ failed' = failed \union {t}
    BY <1>5 DEF Release, Raises, Borrowed, Holding
  <2>2. /\ Told[t] = "none" /\ Borrowed' = Borrowed \ {t}
        /\ Told' = [Told EXCEPT ![t] = IF t \in failed' THEN "failed" ELSE "done"]
    BY <1>1, <2>1, Telling
  <2>3. t \notin failed' => saved[t] = Whole(t)
    BY <1>1, <2>1 DEF TaskInv, Stored
  <2>4. Promise!Tell(t)
    BY <1>1, <2>1, <2>2, <2>3 DEF Promise!Tell, Promise!All, Whole, Release
  <2>5. QED BY <2>4 DEF Promise!LNext
<1>6. CASE Lease(t) \/ Connect(t) \/ Prepare(t) \/ OpenCopy(t) \/ Get(t) \/ Write(t)
           \/ CloseCopy(t) \/ Stop(t) \/ Drain(t) \/ Join(t) \/ Reset(t) \/ Discard(t)
  <2>1. /\ UNCHANGED saved
        /\ \/ UNCHANGED <<wpc, failed>>
           \/ \E p \in Holding : /\ Goes(t, p) /\ wpc[t] \in Holding
                                 /\ failed' \in {failed, failed \union {t}}
    BY <1>6 DEF Lease, Connect, Prepare, OpenCopy, Get, Write, CloseCopy, Stop, Drain, Join,
                Reset, Discard, Raises, Holding
  <2>2. CASE UNCHANGED <<wpc, failed>>
    BY <1>1, <2>1, <2>2 DEF Told, Borrowed, Promise!lvars
  <2>3. ASSUME NEW p \in Holding, Goes(t, p), wpc[t] \in Holding,
               failed' \in {failed, failed \union {t}}
        PROVE  Told' = Told /\ Borrowed' = Borrowed
    <3>1. "end" \notin Holding
      BY DEF Holding
    <3>2. QED BY <1>1, <2>3, <3>1, Untold
  <2>4. QED BY <1>1, <2>1, <2>2, <2>3 DEF Promise!lvars
<1>7. QED BY <1>2, <1>3, <1>4, <1>5, <1>6 DEF Writer

\* The two threads, the queue, the pool and the transaction together load a partition
\* as if in one step, for every number of tasks, connections, batches and places.
THEOREM PromiseIsKept == Spec => KeepsPromise
<1>1. Init => Promise!LInit
  <2> SUFFICES ASSUME Init PROVE Promise!LInit
    OBVIOUS
  <2>1. Told = [t \in Tasks |-> "none"] /\ Borrowed = {}
    BY DEF Init, Told, Borrowed, Holding
  <2>2. size \in [Tasks -> Nat]
    BY BoundAssumption DEF Init, Batches
  <2>3. QED BY <2>1, <2>2 DEF Init, Promise!LInit
<1>2. IInv /\ [Next]_vars => [Promise!LNext]_(Promise!lvars)
  <2> SUFFICES ASSUME IInv, [Next]_vars PROVE [Promise!LNext]_(Promise!lvars)
    OBVIOUS
  <2>1. CASE UNCHANGED vars
    BY <2>1 DEF vars, Told, Borrowed, Promise!lvars
  <2>2. ASSUME NEW t \in Tasks, Reader(t) PROVE UNCHANGED Promise!lvars
    <3>1. UNCHANGED <<size, wpc, failed, saved>>
      BY <2>2, ReaderBeside DEF IInv
    <3>2. QED BY <3>1 DEF Told, Borrowed, Promise!lvars
  <2>3. QED BY <2>1, <2>2, WriterIsPromised DEF Next, Idle
<1>3. QED BY <1>1, <1>2, Invariant, PTL DEF Spec, KeepsPromise, Promise!LSpec

=============================================================================
