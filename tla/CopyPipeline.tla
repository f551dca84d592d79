---------------------------- MODULE CopyPipeline ----------------------------
(***************************************************************************)
(* The load of a partition in copy mode, ImpalaToGreenplumBackend.move():  *)
(* a connection is borrowed from the pool, the rows are streamed into a    *)
(* COPY by two threads with a bounded queue between them, and the          *)
(* transaction is committed.  Several tasks share the pool.                *)
(*                                                                         *)
(* The reader fetches batches from the source and puts them into the queue *)
(* and at last an end mark; the writer (the task's own thread) takes them  *)
(* out.  Every call to the source or the database may fail.  A batch is    *)
(* its number; what is left out is the SQL, the format, and the metrics.   *)
(***************************************************************************)
EXTENDS Integers, Sequences, FiniteSets

CONSTANTS
  Tasks,      \* the tasks that run move(), each in a thread of its own
  PoolMax,    \* greenplum.pool_max
  QueueSize,  \* copy.queue_size
  MaxBatches  \* bound: number of batches a source may have

ASSUME TasksAssumption == IsFiniteSet(Tasks)
ASSUME SizesAssumption == PoolMax \in Nat \ {0} /\ QueueSize \in Nat \ {0}
ASSUME BoundAssumption == MaxBatches \in Nat

VARIABLES
  free,   \* the value of _sema
  idle,   \* number of connections in _idle
  has,    \* the tasks that hold a connection
  size,   \* number of batches in each source
  wpc, rpc, \* where the writer and the reader stand
  failed, \* the tasks with an exception on its way up to the caller
  q,      \* the queue
  stop,   \* the tasks whose stop event is set
  err,    \* the tasks with producer_err
  read,   \* number of batches fetched; the last one is in the reader's hand
  got,    \* the batch in the writer's hand
  copied, \* the batches in the open transaction
  saved   \* the batches in the table

pool   == <<free, idle, has>>
reader == <<rpc, read, err>>
vars   == <<pool, size, wpc, failed, q, stop, reader, got, copied, saved>>

EOF == 0

Batches  == 0..MaxBatches
Whole(t) == [i \in 1..size[t] |-> i]

\* Where the writer holds a slot of the pool; and where the reader may be running.
Holding   == {"lease", "connect", "prepare", "copy", "get", "write", "close", "stopping",
              "drain", "join", "commit", "reset", "discard", "release"}
Streaming == {"copy", "get", "write", "close", "stopping", "drain", "join"}

TypeOK ==
  /\ free \in 0..PoolMax /\ idle \in 0..PoolMax /\ has \subseteq Tasks
  /\ size \in [Tasks -> Batches]
  /\ wpc \in [Tasks -> Holding \union {"source", "acquire", "end"}]
  /\ rpc \in [Tasks -> {"none", "loop", "fetch", "put", "putting", "eof", "eofPutting", "ended"}]
  /\ failed \subseteq Tasks /\ stop \subseteq Tasks /\ err \subseteq Tasks
  /\ q \in [Tasks -> Seq(Batches)] /\ \A t \in Tasks : Len(q[t]) <= QueueSize
  /\ read \in [Tasks -> Batches] /\ got \in [Tasks -> Batches]
  /\ copied \in [Tasks -> Seq(Batches)] /\ saved \in [Tasks -> Seq(Batches)]

Init ==
  /\ free = PoolMax /\ idle = 0 /\ has = {}
  /\ size \in [Tasks -> Batches]
  /\ wpc = [t \in Tasks |-> "source"] /\ rpc = [t \in Tasks |-> "none"]
  /\ failed = {} /\ stop = {} /\ err = {}
  /\ q = [t \in Tasks |-> <<>>]
  /\ read = [t \in Tasks |-> 0] /\ got = [t \in Tasks |-> 0]
  /\ copied = [t \in Tasks |-> <<>>] /\ saved = [t \in Tasks |-> <<>>]

Goes(t, place) == wpc' = [wpc EXCEPT ![t] = place]

\* An exception takes the writer to place.
Raises(t, place) == failed' = failed \union {t} /\ Goes(t, place)

-----------------------------------------------------------------------------
(***************************************************************************)
(* The pool, and what the task does before and after the streaming.        *)
(***************************************************************************)

\* The source is connected to, and the query submitted.
OpenSource(t) ==
  /\ wpc[t] = "source"
  /\ \/ Goes(t, "acquire") /\ UNCHANGED failed
     \/ Raises(t, "end")
  /\ UNCHANGED <<pool, size, q, stop, reader, got, copied, saved>>

Acquire(t) ==
  /\ wpc[t] = "acquire"
  /\ free > 0
  /\ free' = free - 1
  /\ Goes(t, "lease")
  /\ UNCHANGED <<idle, has, size, failed, q, stop, reader, got, copied, saved>>

\* Mutant of Lease: idle connections are not looked for.
LeaseFresh(t) ==
  /\ wpc[t] = "lease"
  /\ Goes(t, "connect")
  /\ UNCHANGED <<pool, size, failed, q, stop, reader, got, copied, saved>>

\* An idle connection is reused, if there is one.
Lease(t) ==
  /\ wpc[t] = "lease"
  /\ \/ /\ idle > 0
        /\ idle' = idle - 1
        /\ has' = has \union {t}
        /\ Goes(t, "prepare")
     \/ idle = 0 /\ Goes(t, "connect") /\ UNCHANGED <<idle, has>>
  /\ UNCHANGED <<free, size, failed, q, stop, reader, got, copied, saved>>

\* Mutant of Connect: after a failure the slot is not returned.
ConnectLeaks(t) ==
  /\ wpc[t] = "connect"
  /\ \/ has' = has \union {t} /\ Goes(t, "prepare") /\ UNCHANGED failed
     \/ Raises(t, "end") /\ UNCHANGED has
  /\ UNCHANGED <<free, idle, size, q, stop, reader, got, copied, saved>>

Connect(t) ==
  /\ wpc[t] = "connect"
  /\ \/ has' = has \union {t} /\ Goes(t, "prepare") /\ UNCHANGED failed
     \/ Raises(t, "release") /\ UNCHANGED has
  /\ UNCHANGED <<free, idle, size, q, stop, reader, got, copied, saved>>

\* The columns are checked, the partition is deleted, and the reader is started.
Prepare(t) ==
  /\ wpc[t] = "prepare"
  /\ \/ Goes(t, "copy") /\ rpc' = [rpc EXCEPT ![t] = "loop"] /\ UNCHANGED failed
     \/ Raises(t, "discard") /\ UNCHANGED rpc
  /\ UNCHANGED <<pool, size, q, stop, read, err, got, copied, saved>>

\* When COMMIT fails, it may have taken effect.
Commit(t) ==
  /\ wpc[t] = "commit"
  /\ \/ Goes(t, "reset") /\ saved' = [saved EXCEPT ![t] = copied[t]] /\ UNCHANGED failed
     \/ Raises(t, "discard") /\ saved' = [saved EXCEPT ![t] = copied[t]]
     \/ Raises(t, "discard") /\ UNCHANGED saved
  /\ UNCHANGED <<pool, size, q, stop, reader, got, copied>>

\* The session is reset and the connection kept, or closed if that fails.
Reset(t) ==
  /\ wpc[t] = "reset"
  /\ has' = has \ {t}
  /\ idle' = idle + 1 \/ UNCHANGED idle
  /\ Goes(t, "release")
  /\ UNCHANGED <<free, size, failed, q, stop, reader, got, copied, saved>>

\* Mutant of Discard: closing the connection commits what it has.
DiscardCommits(t) ==
  /\ wpc[t] = "discard"
  /\ has' = has \ {t}
  /\ saved' = [saved EXCEPT ![t] = copied[t]]
  /\ Goes(t, "release")
  /\ UNCHANGED <<free, idle, size, failed, q, stop, reader, got, copied>>

\* After an exception the connection is closed, and the transaction rolled back.
Discard(t) ==
  /\ wpc[t] = "discard"
  /\ has' = has \ {t}
  /\ copied' = [copied EXCEPT ![t] = <<>>]
  /\ Goes(t, "release")
  /\ UNCHANGED <<free, idle, size, failed, q, stop, reader, got, saved>>

\* The slot is returned, and the source is closed, which may raise as well: also after COMMIT.
Release(t) ==
  /\ wpc[t] = "release"
  /\ free' = free + 1
  /\ \/ Goes(t, "end") /\ UNCHANGED failed
     \/ Raises(t, "end")
  /\ UNCHANGED <<idle, has, size, q, stop, reader, got, copied, saved>>

-----------------------------------------------------------------------------
(***************************************************************************)
(* The writer of _stream_pipelined.                                        *)
(***************************************************************************)

OpenCopy(t) ==
  /\ wpc[t] = "copy"
  /\ \/ Goes(t, "get") /\ UNCHANGED failed
     \/ Raises(t, "stopping")
  /\ UNCHANGED <<pool, size, q, stop, reader, got, copied, saved>>

\* Blocks while the queue is empty.  At the end mark the reader's error is raised.
Get(t) ==
  /\ wpc[t] = "get"
  /\ q[t] # <<>>
  /\ q' = [q EXCEPT ![t] = Tail(q[t])]
  /\ \/ /\ Head(q[t]) # EOF
        /\ got' = [got EXCEPT ![t] = Head(q[t])]
        /\ Goes(t, "write")
        /\ UNCHANGED failed
     \/ Head(q[t]) = EOF /\ t \in err /\ Raises(t, "stopping") /\ UNCHANGED got
     \/ Head(q[t]) = EOF /\ t \notin err /\ Goes(t, "close") /\ UNCHANGED <<failed, got>>
  /\ UNCHANGED <<pool, size, stop, reader, copied, saved>>

Write(t) ==
  /\ wpc[t] = "write"
  /\ \/ /\ copied' = [copied EXCEPT ![t] = Append(copied[t], got[t])]
        /\ Goes(t, "get")
        /\ UNCHANGED failed
     \/ Raises(t, "stopping") /\ UNCHANGED copied
  /\ UNCHANGED <<pool, size, q, stop, reader, got, saved>>

\* The COPY is ended; the server takes in what it has received.
CloseCopy(t) ==
  /\ wpc[t] = "close"
  /\ \/ Goes(t, "stopping") /\ UNCHANGED failed
     \/ Raises(t, "stopping")
  /\ UNCHANGED <<pool, size, q, stop, reader, got, copied, saved>>

\* Mutant of Stop: the event is not set.
StopUnset(t) ==
  /\ wpc[t] = "stopping"
  /\ Goes(t, "drain")
  /\ UNCHANGED <<pool, size, failed, q, stop, reader, got, copied, saved>>

\* The finally block, on every way out: stop the reader ...
Stop(t) ==
  /\ wpc[t] = "stopping"
  /\ stop' = stop \union {t}
  /\ Goes(t, "drain")
  /\ UNCHANGED <<pool, size, failed, q, reader, got, copied, saved>>

\* ... make room for what it is just putting ...
Drain(t) ==
  /\ wpc[t] = "drain"
  /\ \/ q[t] # <<>> /\ q' = [q EXCEPT ![t] = Tail(q[t])] /\ UNCHANGED wpc
     \/ q[t] = <<>> /\ Goes(t, "join") /\ UNCHANGED q
  /\ UNCHANGED <<pool, size, failed, stop, reader, got, copied, saved>>

\* Mutant of Join: the reader is not waited for.
JoinEarly(t) ==
  /\ wpc[t] = "join"
  /\ \/ t \in failed \union err /\ Raises(t, "discard")
     \/ t \notin failed \union err /\ Goes(t, "commit") /\ UNCHANGED failed
  /\ UNCHANGED <<pool, size, q, stop, reader, got, copied, saved>>

\* ... and wait for its end.  Its error is looked at once more.
Join(t) ==
  /\ wpc[t] = "join"
  /\ rpc[t] = "ended"
  /\ \/ t \in failed \union err /\ Raises(t, "discard")
     \/ t \notin failed \union err /\ Goes(t, "commit") /\ UNCHANGED failed
  /\ UNCHANGED <<pool, size, q, stop, reader, got, copied, saved>>

-----------------------------------------------------------------------------
(***************************************************************************)
(* The reader, _producer().  The event is tested before each call that may *)
(* block, and may be set between the test and the call.                    *)
(***************************************************************************)

Moves(t, from, to) == rpc[t] = from /\ rpc' = [rpc EXCEPT ![t] = to]

\* The heads of its loops.
Test(t) ==
  /\ \/ t \in stop    /\ \/ Moves(t, "loop", "eof")
                         \/ Moves(t, "put", "loop")
                         \/ Moves(t, "eof", "ended")
     \/ t \notin stop /\ \/ Moves(t, "loop", "fetch")
                         \/ Moves(t, "put", "putting")
                         \/ Moves(t, "eof", "eofPutting")
  /\ UNCHANGED <<pool, size, wpc, failed, q, stop, read, err, got, copied, saved>>

\* Mutant of Fetch: an error of the source passes for its end.
FetchSwallows(t) ==
  /\ \/ Moves(t, "fetch", "eof") /\ UNCHANGED read
     \/ /\ Moves(t, "fetch", "put")
        /\ read[t] < size[t]
        /\ read' = [read EXCEPT ![t] = read[t] + 1]
  /\ UNCHANGED <<pool, size, wpc, failed, q, stop, err, got, copied, saved>>

\* The next batch, the end of the source, or an error.
Fetch(t) ==
  /\ \/ /\ Moves(t, "fetch", "put")
        /\ read[t] < size[t]
        /\ read' = [read EXCEPT ![t] = read[t] + 1]
        /\ UNCHANGED err
     \/ Moves(t, "fetch", "eof") /\ read[t] = size[t] /\ UNCHANGED <<read, err>>
     \/ Moves(t, "fetch", "eof") /\ err' = err \union {t} /\ UNCHANGED read
  /\ UNCHANGED <<pool, size, wpc, failed, q, stop, got, copied, saved>>

\* Mutant of Put: the queue has no bound.
PutUnbounded(t) ==
  /\ \/ Moves(t, "putting", "loop") /\ q' = [q EXCEPT ![t] = Append(q[t], read[t])]
     \/ Moves(t, "eofPutting", "ended") /\ q' = [q EXCEPT ![t] = Append(q[t], EOF)]
  /\ UNCHANGED <<pool, size, wpc, failed, stop, read, err, got, copied, saved>>

\* Mutant of Put: the end mark is given up when the queue is full.
PutOnce(t) ==
  /\ \/ /\ Len(q[t]) < QueueSize
        /\ \/ Moves(t, "putting", "loop") /\ q' = [q EXCEPT ![t] = Append(q[t], read[t])]
           \/ Moves(t, "eofPutting", "ended") /\ q' = [q EXCEPT ![t] = Append(q[t], EOF)]
     \/ /\ Len(q[t]) = QueueSize
        /\ Moves(t, "putting", "put") \/ Moves(t, "eofPutting", "ended")
        /\ UNCHANGED q
  /\ UNCHANGED <<pool, size, wpc, failed, stop, read, err, got, copied, saved>>

\* The batch or the end mark is put, or the call times out at a full queue.
Put(t) ==
  /\ \/ /\ Len(q[t]) < QueueSize
        /\ \/ Moves(t, "putting", "loop") /\ q' = [q EXCEPT ![t] = Append(q[t], read[t])]
           \/ Moves(t, "eofPutting", "ended") /\ q' = [q EXCEPT ![t] = Append(q[t], EOF)]
     \/ /\ Len(q[t]) = QueueSize
        /\ Moves(t, "putting", "put") \/ Moves(t, "eofPutting", "eof")
        /\ UNCHANGED q
  /\ UNCHANGED <<pool, size, wpc, failed, stop, read, err, got, copied, saved>>

-----------------------------------------------------------------------------

Writer(t) ==
  \/ OpenSource(t) \/ Acquire(t) \/ Lease(t) \/ Connect(t) \/ Prepare(t)
  \/ OpenCopy(t) \/ Get(t) \/ Write(t) \/ CloseCopy(t)
  \/ Stop(t) \/ Drain(t) \/ Join(t)
  \/ Commit(t) \/ Reset(t) \/ Discard(t) \/ Release(t)

Reader(t) == Test(t) \/ Fetch(t) \/ Put(t)

\* All tasks are through.
Idle == (\A t \in Tasks : wpc[t] = "end") /\ UNCHANGED vars

Next == (\E t \in Tasks : Writer(t) \/ Reader(t)) \/ Idle

\* Both threads run, and the calls to the source and the database return.
Fairness == \A t \in Tasks : WF_vars(Writer(t)) /\ WF_vars(Reader(t))

Spec == Init /\ [][Next]_vars /\ Fairness

-----------------------------------------------------------------------------

\* A partition is loaded wholly and in order, or not at all: an error of either thread,
\* at whatever moment the other one learns of it, never lets a part of it be committed;
\* and move() returns only if all of it is (_stream_pipelined, move).
AllOrNothing ==
  \A t \in Tasks :
    /\ saved[t] \in {<<>>, Whole(t)}
    /\ wpc[t] = "end" /\ t \notin failed => saved[t] = Whole(t)

\* The reader is gone before its cursor's connection is closed and before the
\* transaction is ended: no thread is left behind in the source's driver.
ReaderGone ==
  \A t \in Tasks : wpc[t] \notin Streaming => rpc[t] \in {"none", "ended"}

\* The pool never has more than PoolMax connections open, those that are idle included.
ConnectionBound == idle + Cardinality(has) <= PoolMax

\* No slot of the pool is lost or returned twice, whichever call fails (connection()).
SlotsExact == free + Cardinality({t \in Tasks : wpc[t] \in Holding}) = PoolMax

\* Nobody waits for what will not come: at an empty queue the reader still has something
\* to put, be it the end mark; the reader that is joined has been told to stop; and a
\* task waits for the pool only while another one holds a slot (get, join, acquire).
NobodyStuck ==
  \A t \in Tasks :
    /\ wpc[t] = "get" /\ q[t] = <<>> => rpc[t] \notin {"none", "ended"}
    /\ wpc[t] = "join" => t \in stop /\ rpc[t] # "none"
    /\ wpc[t] = "acquire" /\ free = 0 => \E u \in Tasks \ {t} : wpc[u] \in Holding

\* What the caller of move() sees.
Told     == [t \in Tasks |-> IF wpc[t] # "end" THEN "none"
                             ELSE IF t \in failed THEN "failed" ELSE "done"]
Borrowed == {t \in Tasks : wpc[t] \in Holding}

Promise == INSTANCE LoadPromise WITH table <- saved, told <- Told, borrowed <- Borrowed

\* Two threads, a queue, a stop event, a pool and a transaction that may fail at every
\* call do what LoadPromise does in three steps: borrow, load, tell (move).
KeepsPromise == Promise!LSpec

\* No thread waits for another for ever: every task comes to its end, although the reader
\* may be blocked at a full queue when the writer fails, or the writer at an empty one.
Ends == \A t \in Tasks : <>(wpc[t] = "end" /\ rpc[t] \in {"none", "ended"})

=============================================================================
